------------------------------ MODULE MCProfile ------------------------------
(***************************************************************************)
(* Instances of Profile for TLC.                                           *)
(***************************************************************************)
EXTENDS Profile, TLC

MCSymmetry == Permutations(Users) \cup Permutations(Emails) \cup Permutations(Images)
                  \cup Permutations(Usernames) \cup Permutations(Requests)
=============================================================================
