--------------------------- MODULE MCRegistration ---------------------------
(***************************************************************************)
(* Instances of Registration for TLC: two accounts at two providers, and   *)
(* with them a third one at the first provider.                            *)
(***************************************************************************)
EXTENDS Registration, TLC

CONSTANTS a1, a2, a3, github, google

\* Two providers.
MCKindTwo == (a1 :> github) @@ (a2 :> google)

\* A second account at the first provider.
MCKindThree == (a1 :> github) @@ (a2 :> google) @@ (a3 :> github)

MCSymmetry == Permutations(Browsers) \cup Permutations(Ids) \cup Permutations(Requests)
=============================================================================
