---------------------------- MODULE MCMailingList ----------------------------
(***************************************************************************)
(* An instance of MailingList for TLC.                                     *)
(***************************************************************************)
EXTENDS MailingList, TLC

MCSymmetry == Permutations(Emails) \cup Permutations(Workers) \cup Permutations(Notices)
=============================================================================
