------------------------ MODULE MCEligibilityNotice ------------------------
(***************************************************************************)
(* Instances of EligibilityNotice for TLC, with two lists of captured      *)
(* tables: the one of infra/application.properties and one that has the    *)
(* table whose changes the cdc worker handles.                             *)
(***************************************************************************)
EXTENDS EligibilityNotice

\* infra/application.properties, line 10.
MCDeployed == {"gateway.users", "gateway.referral_contests"}

\* What the worker and its test expect to be fed.
MCExpected == {"gateway.users", "gateway.referral_participants"}
=============================================================================
