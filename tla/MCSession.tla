------------------------------ MODULE MCSession ------------------------------
(***************************************************************************)
(* Instances of Session for TLC.                                           *)
(***************************************************************************)
EXTENDS Session, TLC

MCSymmetry == Permutations(Requests) \cup Permutations(Registered)
                  \cup Permutations(Ids \ Registered)

MCVisitSymmetry == MCSymmetry \cup Permutations(Referrers) \cup Permutations(Apps)
=============================================================================
