-------------------------- MODULE MCReferralContest --------------------------
(***************************************************************************)
(* Instances of ReferralContest for TLC.                                   *)
(***************************************************************************)
EXTENDS ReferralContest, TLC

CONSTANTS c1, c2

\* One contest that is running from the start.
MCStartOne == (c1 :> 0)

\* A second contest follows the first one.
MCStartTwo == (c1 :> 0) @@ (c2 :> 1)

MCSymmetry == Permutations(Newcomers) \cup Permutations(Workers) \cup Permutations(Apps)
=============================================================================
