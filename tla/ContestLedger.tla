---------------------------- MODULE ContestLedger ----------------------------
(***************************************************************************)
(* What the referral contest promises its participants, with no handler,   *)
(* message or clock in sight: every participant has a tally that only      *)
(* grows, one referral at a time, and may be granted eligibility once its  *)
(* tally has reached the threshold; a grant is never taken back.           *)
(*                                                                         *)
(* ReferralContest implements this specification under the mapping stated  *)
(* there (Ledger).                                                         *)
(***************************************************************************)
EXTENDS Naturals

CONSTANTS Participants,   \* (contest, user) pairs
          Threshold       \* the referrals that make a participant eligible

VARIABLES tally,          \* referrals counted for each participant
          granted         \* the participants that were made eligible

ledgerVars == <<tally, granted>>

LedgerInit ==
    /\ tally = [p \in Participants |-> 0]
    /\ granted = {}

\* One more referral is counted for p.
Count(p) ==
    /\ tally' = [tally EXCEPT ![p] = @ + 1]
    /\ UNCHANGED granted

\* p becomes eligible; it has enough referrals and was not eligible before.
Grant(p) ==
    /\ tally[p] >= Threshold
    /\ p \notin granted
    /\ granted' = granted \cup {p}
    /\ UNCHANGED tally

LedgerNext == \E p \in Participants : Count(p) \/ Grant(p)

LedgerSpec == LedgerInit /\ [][LedgerNext]_ledgerVars
=============================================================================
