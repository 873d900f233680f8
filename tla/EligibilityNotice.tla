-------------------------- MODULE EligibilityNotice --------------------------
(***************************************************************************)
(* How a participant hears of being eligible.  The contest's rows change   *)
(* as ContestLedger allows; MySQL logs each change, Debezium copies the    *)
(* changes of the tables it captures to the topic gateway.changes, the cdc *)
(* worker turns the change that makes a participant eligible into an event *)
(* of new-eligible-participant, and each of the two subscriptions of that  *)
(* topic sends an e-mail.                                                  *)
(*                                                                         *)
(* Each hop passes its message on before it records that it did: when it   *)
(* dies in between, the message is passed on once more.                    *)
(***************************************************************************)
EXTENDS ContestLedger, Sequences, FiniteSets

CONSTANTS CapturedTables,   \* debezium.source.table.include.list
          Mailings,         \* subscriptions of new-eligible-participant
          MaxTally,         \* bound on the referrals of a participant
          MaxFaults         \* bound on deaths between passing on and recording

ASSUME NoticeAssumption ==
    /\ Threshold \in Nat
    /\ MaxTally \in Nat
    /\ MaxFaults \in Nat

VARIABLES
    binlog,     \* logged changes Debezium has not read past
    changes,    \* gateway.changes, delivered in order
    notices,    \* events of each participant a mailing has not acknowledged
    mails,      \* e-mails each mailing has sent to each participant
    faults

pipeline == <<changes, notices, mails>>
vars == <<tally, granted, binlog, pipeline, faults>>

Table == "gateway.referral_participants"

\* A change of a row: was it eligible before, is it after.  An insert is a
\* change of op c, which the cdc worker does not look at.
Change(p, op, was, is) ==
    [table |-> Table, participant |-> p, op |-> op, was |-> was, is |-> is]

Fault == faults < MaxFaults /\ faults' = faults + 1

-----------------------------------------------------------------------------
(* The contest, with its log.                                              *)

CountReferral(p) ==
    /\ tally[p] < MaxTally
    /\ Count(p)
    /\ LET op == IF tally[p] = 0 THEN "c" ELSE "u"
       IN  binlog' = Append(binlog, Change(p, op, p \in granted, p \in granted))
    /\ UNCHANGED <<pipeline, faults>>

GrantEligibility(p) ==
    /\ tally[p] > 0
    /\ Grant(p)
    /\ binlog' = Append(binlog, Change(p, "u", FALSE, TRUE))
    /\ UNCHANGED <<pipeline, faults>>

-----------------------------------------------------------------------------
(* Debezium.                                                               *)

\* What Debezium makes of the next change in the log.
Captured(change) == IF change.table \in CapturedTables THEN <<change>> ELSE <<>>

Capture ==
    /\ binlog # <<>>
    /\ changes' = changes \o Captured(Head(binlog))
    /\ \/ binlog' = Tail(binlog) /\ UNCHANGED faults
       \/ UNCHANGED binlog /\ Fault             \* the offset was not saved
    /\ UNCHANGED <<tally, granted, notices, mails>>

-----------------------------------------------------------------------------
(* The cdc worker.                                                         *)

\* A faulty variant: the row as it was before is not looked at.
IsEligible(change) == change.op = "u" /\ change.is

\* A faulty variant: the row as it is after is not looked at.
WasNotEligible(change) == change.op = "u" /\ ~change.was

\* onReferralContestsChange publishes the change from not eligible to eligible.
BecomesEligible(change) == change.op = "u" /\ ~change.was /\ change.is

\* A faulty variant: the change is acknowledged before the event is published.
AcknowledgeFirst ==
    /\ changes # <<>>
    /\ changes' = Tail(changes)
    /\ \/ /\ BecomesEligible(Head(changes))
          /\ notices' = [m \in Mailings |->
                            [notices[m] EXCEPT ![Head(changes).participant] = @ + 1]]
          /\ UNCHANGED faults
       \/ ~BecomesEligible(Head(changes)) /\ UNCHANGED <<notices, faults>>
       \/ UNCHANGED notices /\ Fault
    /\ UNCHANGED <<tally, granted, binlog, mails>>

OnReferralContestsChange ==
    /\ changes # <<>>
    /\ LET p == Head(changes).participant
       IN  notices' = IF BecomesEligible(Head(changes))
                      THEN [m \in Mailings |-> [notices[m] EXCEPT ![p] = @ + 1]]
                      ELSE notices
    /\ \/ changes' = Tail(changes) /\ UNCHANGED faults
       \/ UNCHANGED changes /\ Fault            \* the acknowledgement is lost
    /\ UNCHANGED <<tally, granted, binlog, mails>>

-----------------------------------------------------------------------------
(* The workers eligibleParticipantNotification and -BoostChances.          *)

\* The user behind a participant exists (the participants' table refers to it),
\* so the handler sends its e-mail.
SendEmail(m, p) ==
    /\ notices[m][p] > 0
    /\ mails' = [mails EXCEPT ![m][p] = @ + 1]
    /\ \/ notices' = [notices EXCEPT ![m][p] = @ - 1] /\ UNCHANGED faults
       \/ UNCHANGED notices /\ Fault            \* the acknowledgement is lost
    /\ UNCHANGED <<tally, granted, binlog, changes>>

-----------------------------------------------------------------------------
Init ==
    /\ LedgerInit
    /\ binlog = <<>>
    /\ changes = <<>>
    /\ notices = [m \in Mailings |-> [p \in Participants |-> 0]]
    /\ mails = [m \in Mailings |-> [p \in Participants |-> 0]]
    /\ faults = 0

Next ==
    \/ \E p \in Participants : CountReferral(p) \/ GrantEligibility(p)
    \/ Capture
    \/ OnReferralContestsChange
    \/ \E m \in Mailings, p \in Participants : SendEmail(m, p)

Spec == Init /\ [][Next]_vars

\* Debezium reads on, and Pub/Sub delivers until a message is acknowledged.
FairSpec ==
    /\ Spec
    /\ WF_vars(Capture)
    /\ WF_vars(OnReferralContestsChange)
    /\ \A m \in Mailings, p \in Participants : WF_vars(SendEmail(m, p))

-----------------------------------------------------------------------------
(* Properties.                                                             *)

ChangeRecords == [table : {Table}, participant : Participants, op : {"c", "u"},
                  was : BOOLEAN, is : BOOLEAN]

TypeOK ==
    /\ tally \in [Participants -> 0..MaxTally]
    /\ granted \in SUBSET Participants
    /\ binlog \in Seq(ChangeRecords)
    /\ changes \in Seq(ChangeRecords)
    /\ notices \in [Mailings -> [Participants -> Nat]]
    /\ mails \in [Mailings -> [Participants -> Nat]]
    /\ faults \in 0..MaxFaults

\* Nobody is told to be eligible who is not.
NoticesAreEarned ==
    \A m \in Mailings, p \in Participants :
        notices[m][p] + mails[m][p] > 0 => p \in granted /\ tally[p] >= Threshold

\* A participant gets an e-mail twice only through a fault on the way, although
\* the referrals that follow change the row of an eligible participant, too.
RepeatedMailsNeedFaults ==
    \A m \in Mailings, p \in Participants : mails[m][p] <= 1 + faults

\* A change that shows a participant as eligible was logged once they were.
LoggedGrantsHappened(log) ==
    \A i \in DOMAIN log : log[i].is => log[i].participant \in granted

\* The places of a log with a change to be announced to p.
Announcements(log, p) ==
    {i \in DOMAIN log : BecomesEligible(log[i]) /\ log[i].participant = p}

\* What p has been sent by a mailing, is being sent and is still going to be sent
\* comes from p's one grant, or from a fault.
MailsAreAccounted(m, p) ==
    mails[m][p] + notices[m][p] + Cardinality(Announcements(changes, p))
        + Cardinality(Announcements(binlog, p))
      <= faults + (IF p \in granted THEN 1 ELSE 0)

\* The pipeline announces grants only, and each of them once but for the faults.
NoticeInvariant ==
    /\ TypeOK
    /\ \A p \in granted : tally[p] >= Threshold
    /\ LoggedGrantsHappened(binlog) /\ LoggedGrantsHappened(changes)
    /\ \A m \in Mailings, p \in Participants : MailsAreAccounted(m, p)
    /\ NoticesAreEarned

\* Every participant who becomes eligible gets both e-mails in the end.
EligibleParticipantsAreNotified ==
    \A m \in Mailings, p \in Participants : p \in granted ~> mails[m][p] > 0
=============================================================================
