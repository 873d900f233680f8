----------------------- MODULE EligibilityNoticeProofs -----------------------
(***************************************************************************)
(* What is proved of EligibilityNotice, for all participants and mailings, *)
(* any threshold, any list of captured tables and any number of referrals  *)
(* and of faults.                                                          *)
(***************************************************************************)
EXTENDS EligibilityNotice, FiniteSetTheorems, TLAPS

-----------------------------------------------------------------------------
(* Logs: what appending a change to one, and taking its first away, do to  *)
(* the announcements in it.                                                *)

LEMMA AnnouncementsAreFinite ==
    ASSUME NEW log \in Seq(ChangeRecords), NEW p
    PROVE  /\ IsFiniteSet(Announcements(log, p))
           /\ Cardinality(Announcements(log, p)) \in Nat
<1>1. DOMAIN log = 1..Len(log) /\ Len(log) \in Nat
  OBVIOUS
<1>2. IsFiniteSet(1..Len(log))
  BY <1>1, FS_Interval
<1>3. Announcements(log, p) \in SUBSET (1..Len(log))
  BY <1>1 DEF Announcements
<1>4. QED
  BY <1>2, <1>3, FS_Subset, FS_CardinalityType

LEMMA AnnouncementsOfEmpty ==
    ASSUME NEW p
    PROVE  Cardinality(Announcements(<<>>, p)) = 0
<1>1. Announcements(<<>>, p) = {}
  BY DEF Announcements
<1>2. QED
  BY <1>1, FS_EmptySet

\* One more change: one more announcement, if it is one.
LEMMA AnnouncementsAppended ==
    ASSUME NEW log \in Seq(ChangeRecords), NEW change \in ChangeRecords, NEW p
    PROVE  /\ Append(log, change) \in Seq(ChangeRecords)
           /\ Cardinality(Announcements(Append(log, change), p)) =
                IF BecomesEligible(change) /\ change.participant = p
                THEN Cardinality(Announcements(log, p)) + 1
                ELSE Cardinality(Announcements(log, p))
<1> DEFINE longer == Append(log, change)
           n == Len(log) + 1
<1>1. /\ longer \in Seq(ChangeRecords)
      /\ DOMAIN longer = 1..n /\ DOMAIN log = 1..Len(log) /\ Len(log) \in Nat
      /\ longer[n] = change /\ \A i \in 1..Len(log) : longer[i] = log[i]
  OBVIOUS
<1>2. \A i \in 1..n : i = n \/ i \in 1..Len(log)
  BY <1>1
<1>3. /\ n \notin Announcements(log, p) /\ n \in 1..n
      /\ \A i \in 1..Len(log) : i \in 1..n
  BY <1>1 DEF Announcements
<1> HIDE DEF longer, n
<1>4. CASE BecomesEligible(change) /\ change.participant = p
  <2>1. Announcements(longer, p) = Announcements(log, p) \cup {n}
    BY <1>1, <1>2, <1>3, <1>4 DEF Announcements
  <2>2. Cardinality(Announcements(longer, p)) = Cardinality(Announcements(log, p)) + 1
    BY <1>3, <2>1, AnnouncementsAreFinite, FS_AddElement
  <2>3. QED
    BY <1>1, <1>4, <2>2 DEF longer
<1>5. CASE ~(BecomesEligible(change) /\ change.participant = p)
  <2>1. Announcements(longer, p) = Announcements(log, p)
    BY <1>1, <1>2, <1>3, <1>5 DEF Announcements
  <2>2. QED
    BY <1>1, <1>5, <2>1 DEF longer
<1>6. QED
  BY <1>4, <1>5

\* The first change gone: one announcement less, if it was one.
LEMMA AnnouncementsOfTail ==
    ASSUME NEW log \in Seq(ChangeRecords), log # <<>>, NEW p
    PROVE  /\ Head(log) \in ChangeRecords /\ Tail(log) \in Seq(ChangeRecords)
           /\ Cardinality(Announcements(log, p)) =
                IF BecomesEligible(Head(log)) /\ Head(log).participant = p
                THEN Cardinality(Announcements(Tail(log), p)) + 1
                ELSE Cardinality(Announcements(Tail(log), p))
<1> DEFINE rest == Tail(log)
           shorter == Announcements(rest, p)
           later == Announcements(log, p) \ {1}
           next == [i \in shorter |-> i + 1]
<1>1. /\ Head(log) \in ChangeRecords /\ rest \in Seq(ChangeRecords)
      /\ DOMAIN log = 1..Len(log) /\ DOMAIN rest = 1..Len(rest) /\ Len(rest) \in Nat
      /\ Len(log) = Len(rest) + 1 /\ Head(log) = log[1]
      /\ \A i \in 1..Len(rest) : rest[i] = log[i + 1]
  OBVIOUS
<1> HIDE DEF rest
<1>2. next \in Bijection(shorter, later)
  <2>1. \A i \in shorter : i \in 1..Len(rest) /\ i + 1 \in later
    BY <1>1 DEF Announcements
  <2>2. next \in [shorter -> later]
    BY <2>1
  <2>3. \A i, j \in shorter : next[i] = next[j] => i = j
    BY <2>1
  <2>4. \A j \in later : \E i \in shorter : next[i] = j
    <3>1. SUFFICES ASSUME NEW j \in later
                   PROVE  j - 1 \in shorter /\ next[j - 1] = j
      OBVIOUS
    <3>2. j \in 2..Len(log) /\ BecomesEligible(log[j]) /\ log[j].participant = p
      BY <1>1 DEF Announcements
    <3>3. j - 1 \in 1..Len(rest) /\ rest[j - 1] = log[j] /\ (j - 1) + 1 = j
      BY <1>1, <3>2
    <3>4. j - 1 \in shorter
      BY <1>1, <3>2, <3>3 DEF Announcements
    <3>5. QED
      BY <3>3, <3>4
  <2>5. QED
    BY <2>2, <2>3, <2>4 DEF Bijection, Injection, Surjection, IsInjective
<1>3. IsFiniteSet(shorter) /\ Cardinality(shorter) \in Nat
  BY <1>1, AnnouncementsAreFinite
<1>4. IsFiniteSet(Announcements(log, p)) /\ Cardinality(Announcements(log, p)) \in Nat
  BY AnnouncementsAreFinite
<1>5. Cardinality(later) = Cardinality(shorter)
  BY <1>2, <1>3, FS_Bijection DEF ExistsBijection
<1>6. Cardinality(later) = IF 1 \in Announcements(log, p)
                           THEN Cardinality(Announcements(log, p)) - 1
                           ELSE Cardinality(Announcements(log, p))
  BY <1>4, FS_RemoveElement
<1>7. 1 \in Announcements(log, p) <=> BecomesEligible(Head(log)) /\ Head(log).participant = p
  BY <1>1 DEF Announcements
<1> HIDE DEF shorter, later
<1>8. Cardinality(Announcements(log, p)) =
        IF BecomesEligible(Head(log)) /\ Head(log).participant = p
        THEN Cardinality(shorter) + 1 ELSE Cardinality(shorter)
  BY <1>3, <1>4, <1>5, <1>6, <1>7
<1>9. QED
  BY <1>1, <1>8 DEF rest, shorter

\* Debezium passes a change on, or leaves it out.
LEMMA CapturedChange ==
    ASSUME NEW log \in Seq(ChangeRecords), NEW change \in ChangeRecords
    PROVE  log \o Captured(change) \in {log, Append(log, change)}
<1>1. CASE change.table \in CapturedTables
  <2>1. log \o <<change>> = Append(log, change)
    OBVIOUS
  <2>2. QED
    BY <1>1, <2>1 DEF Captured
<1>2. CASE change.table \notin CapturedTables
  <2>1. log \o <<>> = log
    OBVIOUS
  <2>2. QED
    BY <1>2, <2>1 DEF Captured
<1>3. QED
  BY <1>1, <1>2


-----------------------------------------------------------------------------
(* What each step does to the numbers.                                     *)

\* The four places of p's mails of mailing m are numbers.
LEMMA CountsAreNumbers ==
    ASSUME TypeOK, NEW m \in Mailings, NEW p \in Participants
    PROVE  /\ mails[m][p] \in Nat /\ notices[m][p] \in Nat /\ faults \in Nat
           /\ Cardinality(Announcements(changes, p)) \in Nat
           /\ Cardinality(Announcements(binlog, p)) \in Nat
BY AnnouncementsAreFinite DEF TypeOK

LEMMA FaultType ==
    ASSUME TypeOK, Fault \/ UNCHANGED faults
    PROVE  faults' \in 0..MaxFaults
BY NoticeAssumption DEF TypeOK, Fault

\* A referral logs a change that announces nothing.
LEMMA CountMoves ==
    ASSUME TypeOK, NEW p \in Participants, CountReferral(p)
    PROVE  /\ tally' \in [Participants -> 0..MaxTally]
           /\ \A q \in Participants : tally'[q] >= tally[q]
           /\ UNCHANGED <<granted, changes, notices, mails, faults>>
           /\ \E change \in ChangeRecords :
                /\ binlog' = Append(binlog, change) /\ ~BecomesEligible(change)
                /\ change.is => change.participant \in granted
<1>1. /\ tally' = [tally EXCEPT ![p] = tally[p] + 1] /\ tally[p] < MaxTally
      /\ UNCHANGED <<granted, changes, notices, mails, faults>>
  BY DEF CountReferral, Count, pipeline
<1>2. \A q \in Participants : tally[q] \in 0..MaxTally
  BY DEF TypeOK
<1>3. /\ tally' \in [Participants -> 0..MaxTally]
      /\ \A q \in Participants : tally'[q] >= tally[q]
  BY <1>1, <1>2, NoticeAssumption DEF TypeOK
<1>4. PICK op \in {"c", "u"} :
        binlog' = Append(binlog, Change(p, op, p \in granted, p \in granted))
  BY DEF CountReferral
<1>5. PICK flag \in BOOLEAN : flag <=> p \in granted
  <2>1. CASE p \in granted
    <3>1. TRUE \in BOOLEAN /\ (TRUE <=> p \in granted)
      BY <2>1
    <3>2. QED
      BY <3>1, Zenon
  <2>2. CASE p \notin granted
    <3>1. FALSE \in BOOLEAN /\ (FALSE <=> p \in granted)
      BY <2>2
    <3>2. QED
      BY <3>1, Zenon
  <2>3. QED
    BY <2>1, <2>2
<1>6. Change(p, op, p \in granted, p \in granted) = Change(p, op, flag, flag)
  BY <1>5
<1>7. PICK change \in ChangeRecords : change = Change(p, op, flag, flag)
  BY DEF Change, ChangeRecords
<1>8. change.was = flag /\ change.is = flag /\ change.participant = p
  BY <1>7 DEF Change
<1>9. /\ ~BecomesEligible(change) /\ (change.is => change.participant \in granted)
      /\ binlog' = Append(binlog, change)
  BY <1>4, <1>5, <1>6, <1>7, <1>8 DEF BecomesEligible
<1>10. QED
  BY <1>1, <1>3, <1>9

\* A grant, which happens once, logs the one change that announces it.
LEMMA GrantMoves ==
    ASSUME TypeOK, NEW p \in Participants, GrantEligibility(p)
    PROVE  /\ tally[p] >= Threshold /\ p \notin granted /\ granted' = granted \cup {p}
           /\ UNCHANGED <<tally, changes, notices, mails, faults>>
           /\ \E change \in ChangeRecords :
                binlog' = Append(binlog, change) /\ change.participant = p
<1>1. PICK change \in ChangeRecords : change = Change(p, "u", FALSE, TRUE)
  BY DEF Change, ChangeRecords
<1>2. change.participant = p
  BY <1>1 DEF Change
<1>3. QED
  BY <1>1, <1>2 DEF GrantEligibility, Grant, pipeline

\* The cdc worker's event, one for each mailing.
LEMMA PublishMoves ==
    ASSUME TypeOK, NEW head \in ChangeRecords, BecomesEligible(head),
           notices' = [m \in Mailings |->
                         [notices[m] EXCEPT ![head.participant] = @ + 1]]
    PROVE  /\ notices' \in [Mailings -> [Participants -> Nat]]
           /\ \A m \in Mailings, p \in Participants :
                notices'[m][p] = IF p = head.participant THEN notices[m][p] + 1
                                                         ELSE notices[m][p]
<1>1. head.participant \in Participants
  BY DEF ChangeRecords
<1>2. \A m \in Mailings : /\ notices[m] \in [Participants -> Nat]
                          /\ notices[m][head.participant] \in Nat
  BY <1>1 DEF TypeOK
<1>3. QED
  BY <1>1, <1>2

\* An e-mail is sent, and its event stays only with a fault.
LEMMA SendMoves ==
    ASSUME TypeOK, NEW m \in Mailings, NEW p \in Participants, SendEmail(m, p)
    PROVE  /\ mails' \in [Mailings -> [Participants -> Nat]]
           /\ notices' \in [Mailings -> [Participants -> Nat]]
           /\ UNCHANGED <<tally, granted, binlog, changes>> /\ faults' \in 0..MaxFaults
           /\ notices[m][p] > 0 /\ mails'[m][p] = mails[m][p] + 1
           /\ \/ notices'[m][p] = notices[m][p] - 1 /\ faults' = faults
              \/ notices'[m][p] = notices[m][p] /\ faults' = faults + 1
           /\ \A m2 \in Mailings, p2 \in Participants :
                <<m2, p2>> # <<m, p>> => /\ mails'[m2][p2] = mails[m2][p2]
                                         /\ notices'[m2][p2] = notices[m2][p2]
<1>1. /\ notices[m] \in [Participants -> Nat] /\ notices[m][p] \in Nat
      /\ mails[m] \in [Participants -> Nat] /\ mails[m][p] \in Nat
  BY DEF TypeOK
<1>2. /\ mails' = [mails EXCEPT ![m] = [mails[m] EXCEPT ![p] = mails[m][p] + 1]]
      /\ notices[m][p] > 0 /\ UNCHANGED <<tally, granted, binlog, changes>>
      /\ \/ /\ notices' = [notices EXCEPT ![m] = [notices[m] EXCEPT ![p] = notices[m][p] - 1]]
            /\ faults' = faults
         \/ notices' = notices /\ Fault
  BY DEF SendEmail
<1>3. /\ mails' \in [Mailings -> [Participants -> Nat]] /\ mails'[m][p] = mails[m][p] + 1
      /\ \A m2 \in Mailings, p2 \in Participants :
           <<m2, p2>> # <<m, p>> => mails'[m2][p2] = mails[m2][p2]
  BY <1>1, <1>2 DEF TypeOK
<1>4. CASE notices' = notices /\ Fault
  BY <1>2, <1>3, <1>4, FaultType DEF TypeOK, Fault
<1>5. CASE /\ notices' = [notices EXCEPT ![m] = [notices[m] EXCEPT ![p] = notices[m][p] - 1]]
           /\ faults' = faults
  <2>1. notices[m][p] - 1 \in Nat
    BY <1>1, <1>2
  <2>2. /\ notices' \in [Mailings -> [Participants -> Nat]]
        /\ notices'[m][p] = notices[m][p] - 1
        /\ \A m2 \in Mailings, p2 \in Participants :
             <<m2, p2>> # <<m, p>> => notices'[m2][p2] = notices[m2][p2]
    BY <1>1, <1>5, <2>1 DEF TypeOK
  <2>3. QED
    BY <1>2, <1>3, <1>5, <2>2 DEF TypeOK
<1>6. QED
  BY <1>2, <1>4, <1>5

-----------------------------------------------------------------------------
(* The inductive invariant is kept.                                        *)

\* What is left of the invariant once the types are there.
Accounts ==
    /\ \A p \in granted : tally[p] >= Threshold
    /\ LoggedGrantsHappened(binlog) /\ LoggedGrantsHappened(changes)
    /\ \A m \in Mailings, p \in Participants : MailsAreAccounted(m, p)
    /\ NoticesAreEarned


LEMMA AppendedElements ==
    ASSUME NEW log \in Seq(ChangeRecords), NEW change \in ChangeRecords,
           NEW i \in DOMAIN Append(log, change)
    PROVE  \/ Append(log, change)[i] = change
           \/ i \in DOMAIN log /\ Append(log, change)[i] = log[i]
OBVIOUS

LEMMA TailElements ==
    ASSUME NEW log \in Seq(ChangeRecords), log # <<>>, NEW i \in DOMAIN Tail(log)
    PROVE  i + 1 \in DOMAIN log /\ Tail(log)[i] = log[i + 1]
OBVIOUS

LEMMA FirstElement ==
    ASSUME NEW log \in Seq(ChangeRecords), log # <<>>
    PROVE  1 \in DOMAIN log /\ Head(log) = log[1] /\ Head(log) \in ChangeRecords
OBVIOUS

LEMMA CountPreserves ==
    ASSUME TypeOK, Accounts, NEW p \in Participants, CountReferral(p)
    PROVE  TypeOK' /\ Accounts'
<1>1. PICK change \in ChangeRecords :
        /\ binlog' = Append(binlog, change) /\ ~BecomesEligible(change)
        /\ change.is => change.participant \in granted
  BY CountMoves
<1>2. /\ tally' \in [Participants -> 0..MaxTally]
      /\ \A q \in Participants : tally'[q] >= tally[q]
      /\ UNCHANGED <<granted, changes, notices, mails, faults>>
  BY CountMoves
<1>3. binlog \in Seq(ChangeRecords) /\ binlog' \in Seq(ChangeRecords)
  BY <1>1, AnnouncementsAppended DEF TypeOK
<1>4. TypeOK'
  BY <1>2, <1>3 DEF TypeOK
<1>5. \A q \in Participants : tally[q] >= Threshold => tally'[q] >= Threshold
  <2>1. \A q \in Participants : tally[q] \in Nat /\ tally'[q] \in Nat
    BY <1>4 DEF TypeOK
  <2>2. QED
    BY <1>2, <2>1, NoticeAssumption
<1>6. /\ \A q \in granted' : tally'[q] >= Threshold
      /\ NoticesAreEarned'
  BY <1>2, <1>5 DEF Accounts, NoticesAreEarned, TypeOK
<1>7. LoggedGrantsHappened(binlog)' /\ LoggedGrantsHappened(changes)'
  BY <1>1, <1>2, <1>3, AppendedElements DEF Accounts, LoggedGrantsHappened
<1>8. ASSUME NEW m \in Mailings, NEW q \in Participants
      PROVE  MailsAreAccounted(m, q)'
  <2>1. Cardinality(Announcements(binlog', q)) = Cardinality(Announcements(binlog, q))
    BY <1>1, <1>3, AnnouncementsAppended
  <2>2. MailsAreAccounted(m, q)
    BY DEF Accounts
  <2>3. QED
    BY <1>2, <2>1, <2>2 DEF MailsAreAccounted
<1>9. QED
  BY <1>4, <1>6, <1>7, <1>8 DEF Accounts

LEMMA GrantPreserves ==
    ASSUME TypeOK, Accounts, NEW p \in Participants, GrantEligibility(p)
    PROVE  TypeOK' /\ Accounts'
<1>1. PICK change \in ChangeRecords :
        binlog' = Append(binlog, change) /\ change.participant = p
  BY GrantMoves
<1>2. /\ tally[p] >= Threshold /\ p \notin granted /\ granted' = granted \cup {p}
      /\ UNCHANGED <<tally, changes, notices, mails, faults>>
  BY GrantMoves
<1>3. binlog \in Seq(ChangeRecords) /\ binlog' \in Seq(ChangeRecords)
  BY <1>1, AnnouncementsAppended DEF TypeOK
<1>4. TypeOK'
  BY <1>2, <1>3 DEF TypeOK
<1>5. /\ \A q \in granted' : tally'[q] >= Threshold
      /\ NoticesAreEarned'
  BY <1>2 DEF Accounts, NoticesAreEarned
<1>6. LoggedGrantsHappened(binlog)' /\ LoggedGrantsHappened(changes)'
  BY <1>1, <1>2, <1>3, AppendedElements DEF Accounts, LoggedGrantsHappened
<1>7. ASSUME NEW m \in Mailings, NEW q \in Participants
      PROVE  MailsAreAccounted(m, q)'
  <2>1. MailsAreAccounted(m, q)
    BY DEF Accounts
  <2>2. /\ mails[m][q] \in Nat /\ notices[m][q] \in Nat /\ faults \in Nat
        /\ Cardinality(Announcements(changes, q)) \in Nat
        /\ Cardinality(Announcements(binlog, q)) \in Nat
    BY CountsAreNumbers
  <2>3. CASE q = p
    <3>1. Cardinality(Announcements(binlog', q)) <= Cardinality(Announcements(binlog, q)) + 1
      BY <1>1, <1>3, <2>2, AnnouncementsAppended
    <3>2. Cardinality(Announcements(binlog', q)) \in Nat
      BY <1>3, AnnouncementsAreFinite
    <3>3. QED
      BY <1>2, <2>1, <2>2, <2>3, <3>1, <3>2 DEF MailsAreAccounted
  <2>4. CASE q # p
    <3>1. Cardinality(Announcements(binlog', q)) = Cardinality(Announcements(binlog, q))
      BY <1>1, <1>3, <2>4, AnnouncementsAppended
    <3>2. q \in granted' <=> q \in granted
      BY <1>2, <2>4
    <3>3. QED
      BY <1>2, <2>1, <3>1, <3>2 DEF MailsAreAccounted
  <2>5. QED
    BY <2>3, <2>4
<1>8. QED
  BY <1>4, <1>5, <1>6, <1>7 DEF Accounts

LEMMA CapturePreserves ==
    ASSUME TypeOK, Accounts, Capture
    PROVE  TypeOK' /\ Accounts'
<1> DEFINE head == Head(binlog)
<1>1. /\ binlog # <<>> /\ changes' = changes \o Captured(head)
      /\ \/ binlog' = Tail(binlog) /\ faults' = faults
         \/ binlog' = binlog /\ Fault
      /\ UNCHANGED <<tally, granted, notices, mails>>
  BY DEF Capture
<1>2. /\ binlog \in Seq(ChangeRecords) /\ changes \in Seq(ChangeRecords)
      /\ head \in ChangeRecords /\ 1 \in DOMAIN binlog /\ head = binlog[1]
      /\ Tail(binlog) \in Seq(ChangeRecords)
  BY <1>1, FirstElement, AnnouncementsOfTail DEF TypeOK
<1> HIDE DEF head
<1>3. changes' = changes \/ changes' = Append(changes, head)
  BY <1>1, <1>2, CapturedChange
<1>4. changes' \in Seq(ChangeRecords) /\ binlog' \in Seq(ChangeRecords)
  BY <1>1, <1>2, <1>3, AnnouncementsAppended
<1>5. faults' \in 0..MaxFaults
  BY <1>1, FaultType
<1>6. TypeOK'
  BY <1>1, <1>4, <1>5 DEF TypeOK
<1>7. /\ \A q \in granted' : tally'[q] >= Threshold
      /\ NoticesAreEarned'
  BY <1>1 DEF Accounts, NoticesAreEarned
<1>8. LoggedGrantsHappened(binlog)'
  BY <1>1, <1>2, TailElements DEF Accounts, LoggedGrantsHappened
<1>9. LoggedGrantsHappened(changes)'
  <2>1. head.is => head.participant \in granted
    BY <1>2 DEF Accounts, LoggedGrantsHappened
  <2>2. QED
    BY <1>1, <1>2, <1>3, <2>1, AppendedElements DEF Accounts, LoggedGrantsHappened
<1>10. ASSUME NEW m \in Mailings, NEW q \in Participants
       PROVE  MailsAreAccounted(m, q)'
  <2>1. /\ mails[m][q] \in Nat /\ notices[m][q] \in Nat /\ faults \in Nat
        /\ Cardinality(Announcements(changes, q)) \in Nat
        /\ Cardinality(Announcements(binlog, q)) \in Nat
        /\ Cardinality(Announcements(Tail(binlog), q)) \in Nat
    BY <1>2, CountsAreNumbers, AnnouncementsAreFinite
  <2>2. PICK due \in {0, 1} :
          /\ due = IF BecomesEligible(head) /\ head.participant = q THEN 1 ELSE 0
          /\ Cardinality(Announcements(binlog, q)) =
               Cardinality(Announcements(Tail(binlog), q)) + due
    BY <1>1, <1>2, <2>1, AnnouncementsOfTail DEF head
  <2>3. Cardinality(Announcements(Append(changes, head), q)) =
          Cardinality(Announcements(changes, q)) + due
    BY <1>2, <2>1, <2>2, AnnouncementsAppended
  <2>4. Cardinality(Announcements(changes', q)) \in
          {Cardinality(Announcements(changes, q)), Cardinality(Announcements(changes, q)) + due}
    BY <1>3, <2>3
  <2>5. MailsAreAccounted(m, q)
    BY DEF Accounts
  <2>6. \/ /\ Cardinality(Announcements(binlog', q)) + due =
                Cardinality(Announcements(binlog, q))
           /\ faults' = faults
        \/ /\ Cardinality(Announcements(binlog', q)) = Cardinality(Announcements(binlog, q))
           /\ faults' = faults + 1
    BY <1>1, <2>1, <2>2 DEF Fault
  <2>7. Cardinality(Announcements(binlog', q)) \in Nat
    BY <1>4, AnnouncementsAreFinite
  <2>8. UNCHANGED <<granted, mails, notices>>
    BY <1>1
  <2>9. QED
    BY <2>1, <2>4, <2>5, <2>6, <2>7, <2>8 DEF MailsAreAccounted
<1>11. QED
  BY <1>6, <1>7, <1>8, <1>9, <1>10 DEF Accounts

LEMMA PublishPreserves ==
    ASSUME TypeOK, Accounts, OnReferralContestsChange
    PROVE  TypeOK' /\ Accounts'
<1>1. PICK head \in ChangeRecords :
        /\ changes # <<>> /\ head = Head(changes) /\ changes \in Seq(ChangeRecords)
        /\ 1 \in DOMAIN changes /\ head = changes[1]
        /\ Tail(changes) \in Seq(ChangeRecords)
  BY FirstElement, AnnouncementsOfTail DEF OnReferralContestsChange, TypeOK
<1>2. /\ \/ changes' = Tail(changes) /\ faults' = faults
         \/ changes' = changes /\ Fault
      /\ UNCHANGED <<tally, granted, binlog, mails>>
  BY DEF OnReferralContestsChange
<1>3. /\ notices' \in [Mailings -> [Participants -> Nat]]
      /\ \A m \in Mailings, q \in Participants :
           notices'[m][q] = IF BecomesEligible(head) /\ head.participant = q
                            THEN notices[m][q] + 1 ELSE notices[m][q]
  <2>1. CASE BecomesEligible(head)
    BY <1>1, <2>1, PublishMoves DEF OnReferralContestsChange
  <2>2. CASE ~BecomesEligible(head)
    BY <1>1, <2>2 DEF OnReferralContestsChange, TypeOK
  <2>3. QED
    BY <2>1, <2>2
<1>4. faults' \in 0..MaxFaults
  BY <1>2, FaultType
<1>5. TypeOK'
  BY <1>1, <1>2, <1>3, <1>4 DEF TypeOK
<1>6. BecomesEligible(head) => head.participant \in granted
  BY <1>1 DEF Accounts, LoggedGrantsHappened, BecomesEligible
<1>7. \A q \in granted' : tally'[q] >= Threshold
  BY <1>2 DEF Accounts
<1>8. NoticesAreEarned'
  BY <1>2, <1>3, <1>6 DEF Accounts, NoticesAreEarned
<1>9. LoggedGrantsHappened(binlog)' /\ LoggedGrantsHappened(changes)'
  BY <1>1, <1>2, TailElements DEF Accounts, LoggedGrantsHappened
<1>10. ASSUME NEW m \in Mailings, NEW q \in Participants
       PROVE  MailsAreAccounted(m, q)'
  <2>1. /\ mails[m][q] \in Nat /\ notices[m][q] \in Nat /\ faults \in Nat
        /\ Cardinality(Announcements(changes, q)) \in Nat
        /\ Cardinality(Announcements(binlog, q)) \in Nat
        /\ Cardinality(Announcements(Tail(changes), q)) \in Nat
    BY <1>1, CountsAreNumbers, AnnouncementsAreFinite
  <2>2. PICK due \in {0, 1} :
          /\ notices'[m][q] = notices[m][q] + due
          /\ Cardinality(Announcements(changes, q)) =
               Cardinality(Announcements(Tail(changes), q)) + due
    <3>1. CASE BecomesEligible(head) /\ head.participant = q
      BY <1>1, <1>3, <2>1, <3>1, AnnouncementsOfTail
    <3>2. CASE ~(BecomesEligible(head) /\ head.participant = q)
      BY <1>1, <1>3, <2>1, <3>2, AnnouncementsOfTail
    <3>3. QED
      BY <3>1, <3>2
  <2>3. MailsAreAccounted(m, q)
    BY DEF Accounts
  <2>4. \/ /\ Cardinality(Announcements(changes', q)) + due =
                Cardinality(Announcements(changes, q))
           /\ faults' = faults
        \/ /\ Cardinality(Announcements(changes', q)) = Cardinality(Announcements(changes, q))
           /\ faults' = faults + 1
    BY <1>2, <2>1, <2>2 DEF Fault
  <2>5. Cardinality(Announcements(changes', q)) \in Nat
    BY <1>5, AnnouncementsAreFinite DEF TypeOK
  <2>6. UNCHANGED <<granted, mails, binlog>>
    BY <1>2
  <2>7. QED
    BY <2>1, <2>2, <2>3, <2>4, <2>5, <2>6 DEF MailsAreAccounted
<1>11. QED
  BY <1>5, <1>7, <1>8, <1>9, <1>10 DEF Accounts

LEMMA SendPreserves ==
    ASSUME TypeOK, Accounts, NEW m \in Mailings, NEW p \in Participants, SendEmail(m, p)
    PROVE  TypeOK' /\ Accounts'
<1>1. /\ mails' \in [Mailings -> [Participants -> Nat]]
      /\ notices' \in [Mailings -> [Participants -> Nat]]
      /\ UNCHANGED <<tally, granted, binlog, changes>> /\ faults' \in 0..MaxFaults
      /\ notices[m][p] > 0 /\ mails'[m][p] = mails[m][p] + 1
      /\ \/ notices'[m][p] = notices[m][p] - 1 /\ faults' = faults
         \/ notices'[m][p] = notices[m][p] /\ faults' = faults + 1
      /\ \A m2 \in Mailings, p2 \in Participants :
           <<m2, p2>> # <<m, p>> => /\ mails'[m2][p2] = mails[m2][p2]
                                    /\ notices'[m2][p2] = notices[m2][p2]
  BY SendMoves
<1>2. TypeOK'
  BY <1>1 DEF TypeOK
<1>3. /\ \A q \in granted' : tally'[q] >= Threshold
      /\ LoggedGrantsHappened(binlog)' /\ LoggedGrantsHappened(changes)'
  BY <1>1 DEF Accounts, LoggedGrantsHappened
<1>4. ASSUME NEW m2 \in Mailings, NEW p2 \in Participants
      PROVE  /\ MailsAreAccounted(m2, p2)'
             /\ notices'[m2][p2] + mails'[m2][p2] > 0
                  => p2 \in granted /\ tally[p2] >= Threshold
  <2>1. /\ mails[m2][p2] \in Nat /\ notices[m2][p2] \in Nat /\ faults \in Nat
        /\ Cardinality(Announcements(changes, p2)) \in Nat
        /\ Cardinality(Announcements(binlog, p2)) \in Nat
    BY CountsAreNumbers
  <2>2. /\ MailsAreAccounted(m2, p2)
        /\ notices[m2][p2] + mails[m2][p2] > 0 => p2 \in granted /\ tally[p2] >= Threshold
    BY DEF Accounts, NoticesAreEarned
  <2>3. CASE <<m2, p2>> # <<m, p>>
    <3>1. faults' = faults \/ faults' = faults + 1
      BY <1>1
    <3>2. QED
      BY <1>1, <2>1, <2>2, <2>3, <3>1 DEF MailsAreAccounted
  <2>4. CASE m2 = m /\ p2 = p
    BY <1>1, <2>1, <2>2, <2>4 DEF MailsAreAccounted
  <2>5. QED
    BY <2>3, <2>4
<1>5. NoticesAreEarned'
  BY <1>1, <1>4 DEF NoticesAreEarned
<1>6. QED
  BY <1>2, <1>3, <1>4, <1>5 DEF Accounts

-----------------------------------------------------------------------------
(* The inductive invariant, and what follows from it.                      *)

LEMMA InvariantIsAccounts == NoticeInvariant <=> TypeOK /\ Accounts
BY DEF NoticeInvariant, Accounts

LEMMA InitHolds == Init => NoticeInvariant
<1> SUFFICES ASSUME Init PROVE NoticeInvariant
  OBVIOUS
<1>1. TypeOK
  BY NoticeAssumption DEF Init, LedgerInit, TypeOK
<1>2. ASSUME NEW m \in Mailings, NEW p \in Participants
      PROVE  MailsAreAccounted(m, p)
  <2>1. Cardinality(Announcements(<<>>, p)) = 0
    BY AnnouncementsOfEmpty
  <2>2. QED
    BY <2>1 DEF Init, LedgerInit, MailsAreAccounted
<1>3. QED
  BY <1>1, <1>2 DEF Init, LedgerInit, NoticeInvariant, LoggedGrantsHappened, NoticesAreEarned

LEMMA StepHolds == NoticeInvariant /\ [Next]_vars => NoticeInvariant'
<1> SUFFICES ASSUME TypeOK, Accounts, [Next]_vars PROVE TypeOK' /\ Accounts'
  BY InvariantIsAccounts DEF NoticeInvariant, Accounts
<1>1. ASSUME NEW p \in Participants, CountReferral(p) \/ GrantEligibility(p)
      PROVE  TypeOK' /\ Accounts'
  BY <1>1, CountPreserves, GrantPreserves
<1>2. ASSUME NEW m \in Mailings, NEW p \in Participants, SendEmail(m, p)
      PROVE  TypeOK' /\ Accounts'
  BY <1>2, SendPreserves
<1>3. CASE UNCHANGED vars
  BY <1>3 DEF vars, pipeline, TypeOK, Accounts, LoggedGrantsHappened, MailsAreAccounted,
              NoticesAreEarned
<1>4. QED
  BY <1>1, <1>2, <1>3, CapturePreserves, PublishPreserves DEF Next

\* Whatever is lost, repeated or left out on the way, every announcement in the
\* logs, the topic, the subscriptions and the mail boxes comes from a grant that
\* happened, and each grant's are counted.
THEOREM InvariantHolds == Spec => []NoticeInvariant
BY InitHolds, StepHolds, PTL DEF Spec

\* Tallies, logs and counters keep their types.
THEOREM TypeCorrect == Spec => []TypeOK
<1>1. NoticeInvariant => TypeOK
  BY DEF NoticeInvariant
<1>2. QED
  BY <1>1, InvariantHolds, PTL

\* The workers mail nobody to be eligible who is not.
THEOREM NoticesHold == Spec => []NoticesAreEarned
<1>1. NoticeInvariant => NoticesAreEarned
  BY DEF NoticeInvariant
<1>2. QED
  BY <1>1, InvariantHolds, PTL

\* BecomesEligible makes one announcement of a grant, however often the row changes
\* afterwards: each e-mail too many goes back to a fault of its own.
THEOREM MailsHold == Spec => []RepeatedMailsNeedFaults
<1>1. ASSUME NoticeInvariant, NEW m \in Mailings, NEW p \in Participants
      PROVE  mails[m][p] <= 1 + faults
  <2>1. TypeOK /\ MailsAreAccounted(m, p)
    BY <1>1 DEF NoticeInvariant
  <2>2. /\ mails[m][p] \in Nat /\ notices[m][p] \in Nat /\ faults \in Nat
        /\ Cardinality(Announcements(changes, p)) \in Nat
        /\ Cardinality(Announcements(binlog, p)) \in Nat
    BY <2>1, CountsAreNumbers
  <2>3. QED
    BY <2>1, <2>2 DEF MailsAreAccounted
<1>2. NoticeInvariant => RepeatedMailsNeedFaults
  BY <1>1 DEF RepeatedMailsNeedFaults
<1>3. QED
  BY <1>2, InvariantHolds, PTL

=============================================================================
