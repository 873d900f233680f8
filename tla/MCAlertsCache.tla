---------------------------- MODULE MCAlertsCache ----------------------------
(***************************************************************************)
(* An instance of AlertsCache for TLC.  The session cookie of a request    *)
(* that boot serves may be the served user's, or have expired, or be of    *)
(* another user than the refresh token that decides (see Session).         *)
(***************************************************************************)
EXTENDS AlertsCache, TLC

MCSenders == [u \in Users |-> Users \cup {NoOne}]

MCSymmetry == Permutations(Users)
=============================================================================
