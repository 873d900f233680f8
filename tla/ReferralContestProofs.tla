------------------------ MODULE ReferralContestProofs ------------------------
(***************************************************************************)
(* Proofs about the referral contest, for every number of newcomers,       *)
(* referrers, contests and handler instances, every threshold and every    *)
(* number of faults.                                                       *)
(***************************************************************************)
EXTENDS ReferralContest, FiniteSetTheorems, TLAPS

\* The record an instance starts from is well formed.
LEMMA IdleType ==
    Idle \in [step : Steps, msg : Newcomers \cup {NoOne}, attempt : Nat,
              referrer : Referrers \cup {NoOne}, contest : Contests \cup {NoOne}]
BY DEF Idle, Steps

\* So is the record of an instance that was just handed an event.
LEMMA HandedType ==
    ASSUME NEW n \in Newcomers, NEW k \in Nat
    PROVE  Handed(n, k) \in [step : Steps, msg : Newcomers \cup {NoOne}, attempt : Nat,
              referrer : Referrers \cup {NoOne}, contest : Contests \cup {NoOne}]
BY DEF Handed, Steps

\* The oldest visit names a referrer or nobody.
LEMMA FirstVisitReferralsType ==
    ASSUME TypeOK, NEW n \in Newcomers, NEW r \in FirstVisitReferrals(n)
    PROVE  r \in Referrers \cup {NoOne}
<1>1. visits[n] \in SUBSET VisitRows
  BY DEF TypeOK
<1>2. CASE visits[n] = {}
  BY <1>2 DEF FirstVisitReferrals
<1>3. CASE visits[n] # {}
  BY <1>1, <1>3 DEF FirstVisitReferrals, VisitRows
<1>4. QED
  BY <1>2, <1>3

\* The ongoing contest is a contest, if there is one.
LEMMA OngoingContestsType ==
    ASSUME NEW c \in OngoingContests
    PROVE  c \in Contests \cup {NoOne}
BY DEF OngoingContests

\* An instance past its reads works for a participant, on a delivery.
LEMMA TargetType ==
    ASSUME TypeOK, NEW w \in Workers, HandlerKnows(w),
           handler[w].step \in {"increment", "check", "set"}
    PROVE  /\ Target(w) \in Participants
           /\ Delivery(w) \in Newcomers \X Nat
BY DEF TypeOK, HandlerKnows, Target, Delivery, Participants

\* The program starts in the invariant.
LEMMA InvariantInit == Init => ContestInvariant
<1> SUFFICES ASSUME Init PROVE ContestInvariant
  OBVIOUS
<1>1. TypeOK
  BY IdleType, ConstantsAssumption DEF Init, TypeOK, Participants, VisitRows
<1>2. \A w \in Workers : HandlerKnows(w)
  BY DEF Init, HandlerKnows, Idle
<1>3. EligibleHasThreshold /\ CreditsAreDeliveries
  BY DEF Init, EligibleHasThreshold, CreditsAreDeliveries
<1>4. /\ \A p \in Participants : IsFiniteSet(credits[p])
      /\ RowsCountDeliveries
  BY FS_EmptySet DEF Init, RowsCountDeliveries
<1>5. \A n \in Newcomers : CountsArePaid(n)
  <2> SUFFICES ASSUME NEW n \in Newcomers PROVE CountsArePaid(n)
    OBVIOUS
  <2>1. CountsOf(n) = {}
    BY DEF Init, CountsOf, CreditsOf, Counting, Idle
  <2>2. ~Awaited(n)
    BY DEF Init, Awaited
  <2>3. faults = 0
    BY DEF Init
  <2>4. QED
    BY <2>1, <2>2, <2>3, FS_EmptySet DEF CountsArePaid
<1>6. /\ \A w \in Workers : handler[w].step = "idle"
      /\ \A n \in Newcomers : due[n] = {}
  BY DEF Init, Idle
<1>7. QED
  BY <1>1, <1>2, <1>3, <1>4, <1>5, <1>6 DEF ContestInvariant

\* Every step keeps the types.
LEMMA TypePreserved ==
    ASSUME ContestInvariant, [Next]_vars
    PROVE  TypeOK'
<1> USE ConstantsAssumption
<1>0. TypeOK /\ \A w \in Workers : HandlerKnows(w)
  BY DEF ContestInvariant
<1>1. CASE Tick
  BY <1>0, <1>1 DEF TypeOK, Tick, tables, pubsub, history
<1>2. ASSUME NEW n \in Newcomers, Publish(n)
      PROVE  TypeOK'
  <2>1. due' \in [Newcomers -> SUBSET Referrers]
    BY <1>0, <1>2 DEF TypeOK, Publish, OnRecord
  <2>2. QED
    BY <1>0, <1>2, <2>1 DEF TypeOK, Publish, tables
<1>3. ASSUME NEW n \in Newcomers, Republish(n)
      PROVE  TypeOK'
  BY <1>0, <1>3 DEF TypeOK, Republish, tables, history
<1>4. ASSUME NEW n \in Newcomers, NEW row \in VisitRows,
             RecordVisit(n, row.app, row.first, row.referral)
      PROVE  TypeOK'
  <2>1. [app |-> row.app, first |-> row.first, referral |-> row.referral] \in VisitRows
    BY DEF VisitRows
  <2>2. visits' \in [Newcomers -> SUBSET VisitRows]
    BY <1>0, <1>4, <2>1 DEF TypeOK, RecordVisit
  <2>3. due' \in [Newcomers -> SUBSET Referrers]
    BY <1>0, <1>4 DEF TypeOK, RecordVisit
  <2>4. QED
    BY <1>0, <1>4, <2>2, <2>3 DEF TypeOK, RecordVisit, pubsub
<1>5. ASSUME NEW u \in Referrers, RemoveUser(u)
      PROVE  TypeOK'
  BY <1>0, <1>5 DEF TypeOK, RemoveUser, pubsub, history
<1>6. ASSUME NEW w \in Workers, NEW n \in Newcomers, Deliver(w, n)
      PROVE  TypeOK'
  <2>1. deliveries[n] + 1 \in Nat
    BY <1>0 DEF TypeOK
  <2>2. deliveries' \in [Newcomers -> Nat]
    BY <1>0, <1>6, <2>1 DEF TypeOK, Deliver
  <2>3. Handed(n, deliveries[n] + 1) \in
          [step : Steps, msg : Newcomers \cup {NoOne}, attempt : Nat,
           referrer : Referrers \cup {NoOne}, contest : Contests \cup {NoOne}]
    BY <2>1, HandedType
  <2>4. handler' \in [Workers -> [step : Steps, msg : Newcomers \cup {NoOne}, attempt : Nat,
                                 referrer : Referrers \cup {NoOne},
                                 contest : Contests \cup {NoOne}]]
    BY <1>0, <1>6, <2>3 DEF TypeOK, Deliver
  <2>5. faults' \in 0..MaxFaults
    BY <1>0, <1>6 DEF TypeOK, Deliver
  <2>6. QED
    BY <1>0, <1>6, <2>2, <2>4, <2>5 DEF TypeOK, Deliver, tables, history
<1>7. ASSUME NEW w \in Workers, GetFirstVisit(w)
      PROVE  TypeOK'
  <2>1. handler[w].msg \in Newcomers
    BY <1>0, <1>7 DEF HandlerKnows, GetFirstVisit
  <2>2. QED
    BY <1>0, <1>7, <2>1, FirstVisitReferralsType
       DEF TypeOK, GetFirstVisit, tables, pubsub, history, Steps
<1>8. ASSUME NEW w \in Workers, GetReferrerAndContest(w)
      PROVE  TypeOK'
  BY <1>0, <1>8, OngoingContestsType
     DEF TypeOK, GetReferrerAndContest, Goto, tables, pubsub, history, Steps
<1>9. ASSUME NEW w \in Workers, IncrementParticipantCount(w)
      PROVE  TypeOK'
  <2>1. Target(w) \in Participants /\ Delivery(w) \in Newcomers \X Nat
    BY <1>0, <1>9, TargetType DEF IncrementParticipantCount
  <2>2. referrals' \in [Participants -> Nat]
    BY <1>0, <1>9, <2>1 DEF TypeOK, IncrementParticipantCount
  <2>3. credits' \in [Participants -> SUBSET (Newcomers \X Nat)]
    <3>1. credits \in [Participants -> SUBSET (Newcomers \X Nat)]
      BY <1>0 DEF TypeOK
    <3>2. credits[Target(w)] \cup {Delivery(w)} \in SUBSET (Newcomers \X Nat)
      BY <2>1, <3>1
    <3>3. credits' = [credits EXCEPT ![Target(w)] = credits[Target(w)] \cup {Delivery(w)}]
      BY <1>9 DEF IncrementParticipantCount
    <3>4. QED
      BY <3>1, <3>2, <3>3
  <2>4. handler' = [handler EXCEPT ![w].step = "check"]
    BY <1>9 DEF IncrementParticipantCount, Goto
  <2>5. handler' \in [Workers -> [step : Steps, msg : Newcomers \cup {NoOne}, attempt : Nat,
                                 referrer : Referrers \cup {NoOne},
                                 contest : Contests \cup {NoOne}]]
    <3>1. [handler[w] EXCEPT !.step = "check"] \in
            [step : Steps, msg : Newcomers \cup {NoOne}, attempt : Nat,
             referrer : Referrers \cup {NoOne}, contest : Contests \cup {NoOne}]
      BY <1>0 DEF TypeOK, Steps
    <3>2. handler' = [handler EXCEPT ![w] = [handler[w] EXCEPT !.step = "check"]]
      BY <2>4
    <3>3. QED
      BY <1>0, <3>1, <3>2 DEF TypeOK
  <2>6. UNCHANGED <<now, users, visits, eligible, pubsub, due, faults>>
    BY <1>9 DEF IncrementParticipantCount
  <2>7. QED
    BY <1>0, <2>2, <2>3, <2>5, <2>6 DEF TypeOK, pubsub
<1>10. ASSUME NEW w \in Workers, IncrementFails(w)
       PROVE  TypeOK'
  BY <1>0, <1>10, IdleType DEF TypeOK, IncrementFails, tables, pubsub, history
<1>11. ASSUME NEW w \in Workers, CheckParticipant(w)
       PROVE  TypeOK'
  BY <1>0, <1>11 DEF TypeOK, CheckParticipant, Goto, tables, pubsub, history, Steps
<1>12. ASSUME NEW w \in Workers, SetParticipantAsEligible(w)
       PROVE  TypeOK'
  <2>1. Target(w) \in Participants
    BY <1>0, <1>12, TargetType DEF SetParticipantAsEligible
  <2>2. QED
    BY <1>0, <1>12, <2>1 DEF TypeOK, SetParticipantAsEligible, Goto, pubsub, history, Steps
<1>13. ASSUME NEW w \in Workers, Ack(w)
       PROVE  TypeOK'
  BY <1>0, <1>13, IdleType DEF TypeOK, Ack, tables, history
<1>14. ASSUME NEW w \in Workers, Crash(w)
       PROVE  TypeOK'
  BY <1>0, <1>14, IdleType DEF TypeOK, Crash, tables, pubsub, history
<1>15. CASE UNCHANGED vars
  BY <1>0, <1>15 DEF TypeOK, vars, tables, pubsub, history
<1>16. QED
  BY <1>1, <1>2, <1>3, <1>4, <1>5, <1>6, <1>7, <1>8, <1>9, <1>10, <1>11,
     <1>12, <1>13, <1>14, <1>15 DEF Next, Environment, HandlerStep

\* A step that leaves the rows alone disturbs nothing that is said of them.
LEMMA RowsUntouched ==
    ASSUME ContestInvariant, UNCHANGED <<referrals, eligible, credits>>,
           \A n \in Newcomers : deliveries'[n] >= deliveries[n],
           TypeOK'
    PROVE  /\ EligibleHasThreshold'
           /\ CreditsAreDeliveries'
           /\ \A p \in Participants : IsFiniteSet(credits'[p])
           /\ RowsCountDeliveries'
<1>1. EligibleHasThreshold' /\ RowsCountDeliveries'
  BY DEF ContestInvariant, EligibleHasThreshold, RowsCountDeliveries
<1>2. CreditsAreDeliveries'
  <2> SUFFICES ASSUME NEW p \in Participants, NEW d \in credits[p]
               PROVE  d \in Newcomers \X Nat /\ d[2] <= deliveries'[d[1]]
    BY DEF CreditsAreDeliveries
  <2>1. d \in Newcomers \X Nat /\ d[2] <= deliveries[d[1]]
    BY DEF ContestInvariant, CreditsAreDeliveries
  <2>2. d[1] \in Newcomers /\ d[2] \in Nat
    BY <2>1
  <2>3. deliveries[d[1]] \in Nat /\ deliveries'[d[1]] \in Nat
    BY <2>2 DEF ContestInvariant, TypeOK
  <2>4. QED
    BY <2>1, <2>2, <2>3
<1>3. \A p \in Participants : IsFiniteSet(credits'[p])
  BY DEF ContestInvariant
<1>4. QED
  BY <1>1, <1>2, <1>3

\* The increment adds one to a row and one delivery, new to every row, to what
\* the row has counted.
LEMMA IncrementKeepsRows ==
    ASSUME ContestInvariant, TypeOK', NEW w \in Workers, IncrementParticipantCount(w)
    PROVE  /\ EligibleHasThreshold'
           /\ CreditsAreDeliveries'
           /\ \A p \in Participants : IsFiniteSet(credits'[p])
           /\ RowsCountDeliveries'
<1> DEFINE t == Target(w)
           d == Delivery(w)
<1>1. TypeOK /\ HandlerKnows(w) /\ handler[w].step = "increment"
  BY DEF ContestInvariant, IncrementParticipantCount
<1>2. t \in Participants /\ d \in Newcomers \X Nat
  BY <1>1, TargetType
<1>3. /\ referrals' = [referrals EXCEPT ![t] = referrals[t] + 1]
      /\ credits' = [credits EXCEPT ![t] = credits[t] \cup {d}]
      /\ UNCHANGED <<eligible, deliveries>>
  BY DEF IncrementParticipantCount, pubsub
<1>4. \A p \in Participants : d \notin credits[p]
  BY <1>1 DEF HandlerKnows
<1>5. d[1] = handler[w].msg /\ d[2] = handler[w].attempt
  BY DEF Delivery
<1> HIDE DEF t, d
<1>6. /\ \A p \in Participants \ {t} : /\ referrals'[p] = referrals[p]
                                     /\ credits'[p] = credits[p]
      /\ referrals'[t] = referrals[t] + 1
      /\ credits'[t] = credits[t] \cup {d}
  BY <1>1, <1>2, <1>3 DEF TypeOK
<1>7. \A p \in Participants : referrals[p] \in Nat
  BY <1>1 DEF TypeOK
<1>8. EligibleHasThreshold'
  <2>1. \A p \in Participants : referrals'[p] >= referrals[p]
    BY <1>6, <1>7
  <2>2. SUFFICES ASSUME NEW p \in eligible
                 PROVE  referrals'[p] >= Threshold
    BY <1>3 DEF EligibleHasThreshold
  <2>3. p \in Participants /\ referrals[p] >= Threshold
    BY <1>1 DEF TypeOK, ContestInvariant, EligibleHasThreshold
  <2>4. referrals'[p] \in Nat
    BY <2>3 DEF TypeOK
  <2>5. QED
    BY <1>7, <2>1, <2>3, <2>4, ConstantsAssumption
<1>9. CreditsAreDeliveries'
  <2>1. d[2] <= deliveries[d[1]]
    BY <1>1, <1>5 DEF HandlerKnows
  <2>2. QED
    BY <1>2, <1>3, <1>6, <2>1 DEF ContestInvariant, CreditsAreDeliveries
<1>10. \A p \in Participants : IsFiniteSet(credits'[p])
  <2>1. \A p \in Participants : IsFiniteSet(credits[p])
    BY DEF ContestInvariant
  <2>2. IsFiniteSet(credits[t] \cup {d})
    BY <1>2, <2>1, FS_AddElement
  <2>3. QED
    BY <1>6, <2>1, <2>2
<1>11. \A p \in Participants : referrals'[p] = Cardinality(credits'[p])
  <2>1. \A p \in Participants : IsFiniteSet(credits[p]) /\ referrals[p] = Cardinality(credits[p])
    BY DEF ContestInvariant, RowsCountDeliveries
  <2>2. Cardinality(credits[t] \cup {d}) = Cardinality(credits[t]) + 1
    BY <1>2, <1>4, <2>1, FS_AddElement
  <2>3. QED
    BY <1>2, <1>6, <2>1, <2>2
<1>12. \A p, q \in Participants : p # q => credits'[p] \cap credits'[q] = {}
  BY <1>2, <1>4, <1>6 DEF ContestInvariant, RowsCountDeliveries
<1>13. QED
  BY <1>8, <1>9, <1>10, <1>11, <1>12 DEF RowsCountDeliveries

\* Marking a row eligible is right because the row has not shrunk since it was
\* read.
LEMMA GrantKeepsRows ==
    ASSUME ContestInvariant, TypeOK', NEW w \in Workers, SetParticipantAsEligible(w)
    PROVE  /\ EligibleHasThreshold'
           /\ CreditsAreDeliveries'
           /\ \A p \in Participants : IsFiniteSet(credits'[p])
           /\ RowsCountDeliveries'
<1>1. referrals[Target(w)] >= Threshold
  BY DEF ContestInvariant, HandlerKnows, SetParticipantAsEligible
<1>2. EligibleHasThreshold'
  BY <1>1 DEF ContestInvariant, EligibleHasThreshold, SetParticipantAsEligible
<1>3. CreditsAreDeliveries' /\ RowsCountDeliveries'
  BY DEF ContestInvariant, CreditsAreDeliveries, RowsCountDeliveries,
         SetParticipantAsEligible, pubsub, history
<1>4. \A p \in Participants : IsFiniteSet(credits'[p])
  BY DEF ContestInvariant, SetParticipantAsEligible, history
<1>5. QED
  BY <1>2, <1>3, <1>4

\* What an instance knows survives every step that leaves its own record alone,
\* takes no delivery away, never shrinks a row, and counts no delivery but one
\* of another instance's.
LEMMA OthersKeepKnowledge ==
    ASSUME ContestInvariant, TypeOK', NEW v \in Workers, handler'[v] = handler[v],
           \A n \in Newcomers : deliveries'[n] >= deliveries[n],
           \A p \in Participants : referrals'[p] >= referrals[p],
           \A w \in Workers \ {v} :
               handler'[w].step # "idle" /\ handler[v].step # "idle"
                   => Delivery(w)' # Delivery(v),
           \A p \in Participants :
               handler[v].step # "idle" /\ Delivery(v) \notin credits[p]
                   => Delivery(v) \notin credits'[p]
    PROVE  HandlerKnows(v)'
<1>1. TypeOK /\ HandlerKnows(v)
  BY DEF ContestInvariant
<1>2. Delivery(v)' = Delivery(v) /\ Target(v)' = Target(v)
  BY DEF Delivery, Target
<1>3. handler[v].step # "idle" =>
        /\ handler[v].msg \in Newcomers
        /\ handler[v].attempt <= deliveries'[handler[v].msg]
  <2> SUFFICES ASSUME handler[v].step # "idle"
               PROVE  /\ handler[v].msg \in Newcomers
                      /\ handler[v].attempt <= deliveries'[handler[v].msg]
    OBVIOUS
  <2>1. handler[v].msg \in Newcomers /\ handler[v].attempt <= deliveries[handler[v].msg]
    BY <1>1 DEF HandlerKnows
  <2>2. /\ handler[v].attempt \in Nat
        /\ deliveries[handler[v].msg] \in Nat
        /\ deliveries'[handler[v].msg] \in Nat
    BY <1>1, <2>1 DEF TypeOK
  <2>3. QED
    BY <2>1, <2>2
<1>4. handler[v].step \in {"visit", "referrer", "increment"} =>
        \A p \in Participants : Delivery(v) \notin credits'[p]
  BY <1>1 DEF HandlerKnows
<1>5. handler[v].step = "set" => referrals'[Target(v)] >= Threshold
  <2> SUFFICES ASSUME handler[v].step = "set"
               PROVE  referrals'[Target(v)] >= Threshold
    OBVIOUS
  <2>1. Target(v) \in Participants /\ referrals[Target(v)] >= Threshold
    BY <1>1, TargetType DEF HandlerKnows
  <2>2. referrals[Target(v)] \in Nat /\ referrals'[Target(v)] \in Nat
    BY <1>1, <2>1 DEF TypeOK
  <2>3. QED
    BY <2>1, <2>2, ConstantsAssumption
<1>6. \A w \in Workers \ {v} : handler'[v].step # "idle" /\ handler'[w].step # "idle"
        => Delivery(w)' # Delivery(v)'
  BY <1>2
<1>7. QED
  BY <1>1, <1>2, <1>3, <1>4, <1>5, <1>6 DEF HandlerKnows

\* The moves of one instance that hand out no delivery and count none: it goes
\* on with the delivery it has, or becomes idle.
LEMMA OwnMoveKeepsOthers ==
    ASSUME ContestInvariant, TypeOK', NEW w \in Workers,
           \A v \in Workers \ {w} : handler'[v] = handler[v],
           handler'[w].step # "idle" =>
               handler[w].step # "idle" /\ Delivery(w)' = Delivery(w),
           UNCHANGED <<deliveries, referrals, credits>>
    PROVE  \A v \in Workers \ {w} : HandlerKnows(v)'
<1> SUFFICES ASSUME NEW v \in Workers \ {w}
             PROVE  HandlerKnows(v)'
  OBVIOUS
<1>1. TypeOK /\ HandlerKnows(v)
  BY DEF ContestInvariant
<1>2. \A n \in Newcomers : deliveries'[n] >= deliveries[n]
  BY <1>1 DEF TypeOK
<1>3. \A p \in Participants : referrals'[p] >= referrals[p]
  BY <1>1 DEF TypeOK
<1>4. \A u \in Workers \ {v} : handler'[u].step # "idle" /\ handler[v].step # "idle"
        => Delivery(u)' # Delivery(v)
  BY <1>1 DEF HandlerKnows, Delivery
<1>5. QED
  BY <1>2, <1>3, <1>4, OthersKeepKnowledge

\* Every step keeps what the instances know.
LEMMA KnowledgePreserved ==
    ASSUME ContestInvariant, TypeOK', [Next]_vars
    PROVE  \A v \in Workers : HandlerKnows(v)'
<1>0. TypeOK /\ \A v \in Workers : HandlerKnows(v)
  BY DEF ContestInvariant
<1>1. ASSUME UNCHANGED <<handler, deliveries, referrals, credits>>
      PROVE  \A v \in Workers : HandlerKnows(v)'
  BY <1>0, <1>1 DEF HandlerKnows, Delivery, Target
<1>2. ASSUME NEW w \in Workers, NEW n \in Newcomers, Deliver(w, n)
      PROVE  \A v \in Workers : HandlerKnows(v)'
  <2>1. /\ handler' = [handler EXCEPT ![w] = Handed(n, deliveries[n] + 1)]
        /\ deliveries' = [deliveries EXCEPT ![n] = deliveries[n] + 1]
        /\ UNCHANGED <<referrals, credits>>
    BY <1>2 DEF Deliver, tables, history
  <2>2. handler'[w] = Handed(n, deliveries[n] + 1)
    BY <1>0, <2>1 DEF TypeOK
  <2>3. \A v \in Workers \ {w} : handler'[v] = handler[v]
    BY <1>0, <2>1 DEF TypeOK
  <2>4. \A m \in Newcomers : deliveries'[m] >= deliveries[m]
    BY <1>0, <2>1 DEF TypeOK
  <2>5. /\ Delivery(w)' = <<n, deliveries[n] + 1>>
        /\ handler'[w].step = "visit"
        /\ deliveries'[n] = deliveries[n] + 1
        /\ deliveries[n] \in Nat
    BY <1>0, <2>1, <2>2 DEF Delivery, Handed, TypeOK
  <2>6. \A v \in Workers \ {w} : handler[v].step # "idle" => Delivery(v) # Delivery(w)'
    <3> SUFFICES ASSUME NEW v \in Workers \ {w}, handler[v].step # "idle",
                        Delivery(v) = Delivery(w)'
                 PROVE  FALSE
      OBVIOUS
    <3>1. handler[v].msg = n /\ handler[v].attempt = deliveries[n] + 1
      BY <2>5 DEF Delivery
    <3>2. handler[v].attempt <= deliveries[n]
      BY <1>0, <3>1 DEF HandlerKnows
    <3>3. QED
      BY <2>5, <3>1, <3>2
  <2>7. \A p \in Participants : Delivery(w)' \notin credits[p]
    <3> SUFFICES ASSUME NEW p \in Participants, <<n, deliveries[n] + 1>> \in credits[p]
                 PROVE  FALSE
      BY <2>5
    <3>1. deliveries[n] + 1 <= deliveries[n]
      BY DEF ContestInvariant, CreditsAreDeliveries
    <3>2. QED
      BY <2>5, <3>1
  <2>8. HandlerKnows(w)'
    <3>1. /\ handler'[w].msg = n
          /\ handler'[w].attempt = deliveries[n] + 1
      BY <2>2 DEF Handed
    <3>2. \A v \in Workers \ {w} : handler'[v].step # "idle" => Delivery(v)' # Delivery(w)'
      BY <2>3, <2>6 DEF Delivery
    <3>3. \A p \in Participants : Delivery(w)' \notin credits'[p]
      BY <2>1, <2>7
    <3>4. QED
      BY <2>5, <3>1, <3>2, <3>3 DEF HandlerKnows
  <2>9. ASSUME NEW v \in Workers \ {w}
        PROVE  HandlerKnows(v)'
    <3>1. \A u \in Workers \ {v} : handler'[u].step # "idle" /\ handler[v].step # "idle"
            => Delivery(u)' # Delivery(v)
      BY <1>0, <2>3, <2>6 DEF HandlerKnows, Delivery
    <3>2. \A p \in Participants : referrals'[p] >= referrals[p]
      BY <1>0, <2>1 DEF TypeOK
    <3>3. QED
      BY <2>1, <2>3, <2>4, <3>1, <3>2, OthersKeepKnowledge
  <2>10. QED
    BY <2>8, <2>9
<1>3. ASSUME NEW w \in Workers, GetFirstVisit(w)
      PROVE  \A v \in Workers : HandlerKnows(v)'
  <2>1. PICK r \in FirstVisitReferrals(handler[w].msg) :
          handler' = [handler EXCEPT ![w].referrer = r,
                                     ![w].step = IF r = NoOne THEN "ack" ELSE "referrer"]
    BY <1>3 DEF GetFirstVisit
  <2>2. r \in Referrers \cup {NoOne}
    BY <1>0, <1>3, <2>1, FirstVisitReferralsType DEF GetFirstVisit, HandlerKnows
  <2>3. /\ \A v \in Workers \ {w} : handler'[v] = handler[v]
        /\ Delivery(w)' = Delivery(w)
        /\ handler'[w].step = IF r = NoOne THEN "ack" ELSE "referrer"
        /\ handler'[w].referrer = r
        /\ handler'[w].msg = handler[w].msg
        /\ handler'[w].attempt = handler[w].attempt
    BY <1>0, <2>1 DEF TypeOK, Delivery
  <2>4. handler[w].step = "visit" /\ UNCHANGED <<deliveries, referrals, credits>>
    BY <1>3 DEF GetFirstVisit, tables, pubsub, history
  <2>5. HandlerKnows(w)'
    BY <1>0, <2>2, <2>3, <2>4 DEF HandlerKnows, Delivery, Target
  <2>6. \A v \in Workers \ {w} : HandlerKnows(v)'
    BY <2>3, <2>4, OwnMoveKeepsOthers
  <2>7. QED
    BY <2>5, <2>6
<1>4. ASSUME NEW w \in Workers, GetReferrerAndContest(w)
      PROVE  \A v \in Workers : HandlerKnows(v)'
  <2>1. handler[w].step = "referrer" /\ UNCHANGED <<deliveries, referrals, credits>>
    BY <1>4 DEF GetReferrerAndContest, tables, pubsub, history
  <2>2. /\ \A v \in Workers \ {w} : handler'[v] = handler[v]
        /\ Delivery(w)' = Delivery(w)
        /\ handler'[w].msg = handler[w].msg
        /\ handler'[w].attempt = handler[w].attempt
        /\ handler'[w].referrer = handler[w].referrer
    BY <1>0, <1>4 DEF TypeOK, GetReferrerAndContest, Goto, Delivery
  <2>3. \/ handler'[w].step = "ack"
        \/ handler'[w].step = "increment" /\ handler'[w].contest \in Contests
    BY <1>0, <1>4, OngoingContestsType DEF TypeOK, GetReferrerAndContest, Goto
  <2>4. HandlerKnows(w)'
    BY <1>0, <2>1, <2>2, <2>3 DEF HandlerKnows, Delivery, Target
  <2>5. \A v \in Workers \ {w} : HandlerKnows(v)'
    BY <2>1, <2>2, OwnMoveKeepsOthers
  <2>6. QED
    BY <2>4, <2>5
<1>5. ASSUME NEW w \in Workers, IncrementParticipantCount(w)
      PROVE  \A v \in Workers : HandlerKnows(v)'
  <2>1. Target(w) \in Participants /\ handler[w].step = "increment"
    BY <1>0, <1>5, TargetType DEF IncrementParticipantCount
  <2>2. /\ handler' = [handler EXCEPT ![w].step = "check"]
        /\ referrals' = [referrals EXCEPT ![Target(w)] = referrals[Target(w)] + 1]
        /\ credits' = [credits EXCEPT ![Target(w)] = credits[Target(w)] \cup {Delivery(w)}]
        /\ UNCHANGED deliveries
    BY <1>5 DEF IncrementParticipantCount, Goto, pubsub
  <2>3. /\ \A v \in Workers \ {w} : handler'[v] = handler[v]
        /\ Delivery(w)' = Delivery(w)
        /\ handler'[w].step = "check"
        /\ handler'[w].msg = handler[w].msg
        /\ handler'[w].attempt = handler[w].attempt
        /\ handler'[w].referrer = handler[w].referrer
        /\ handler'[w].contest = handler[w].contest
    BY <1>0, <2>2 DEF TypeOK, Delivery
  <2>4. HandlerKnows(w)'
    <3>1. HandlerKnows(w)
      BY <1>0
    <3>2. \A v \in Workers \ {w} : Delivery(v)' = Delivery(v)
      BY <2>3 DEF Delivery
    <3>3. \A v \in Workers \ {w} :
            handler'[v].step # "idle" => Delivery(v)' # Delivery(w)'
      BY <2>1, <2>3, <3>1, <3>2 DEF HandlerKnows
    <3>4. QED
      BY <2>1, <2>2, <2>3, <3>1, <3>3 DEF HandlerKnows
  <2>5. \A p \in Participants : referrals'[p] >= referrals[p]
    BY <1>0, <2>1, <2>2 DEF TypeOK
  <2>6. \A p \in Participants : credits'[p] \subseteq credits[p] \cup {Delivery(w)}
    BY <1>0, <2>1, <2>2 DEF TypeOK
  <2>7. ASSUME NEW v \in Workers \ {w}
        PROVE  HandlerKnows(v)'
    <3>1. \A u \in Workers \ {v} : handler'[u].step # "idle" /\ handler[v].step # "idle"
            => Delivery(u)' # Delivery(v)
      <4> SUFFICES ASSUME NEW u \in Workers \ {v}, handler'[u].step # "idle",
                          handler[v].step # "idle"
                   PROVE  Delivery(u)' # Delivery(v)
        OBVIOUS
      <4>1. Delivery(u)' = Delivery(u)
        BY <2>3 DEF Delivery
      <4>2. handler[u].step # "idle"
        BY <2>1, <2>3
      <4>3. QED
        BY <1>0, <4>1, <4>2 DEF HandlerKnows
    <3>2. \A n \in Newcomers : deliveries'[n] >= deliveries[n]
      BY <1>0, <2>2 DEF TypeOK
    <3>3. handler[v].step # "idle" => Delivery(v) # Delivery(w)
      BY <1>0, <2>1 DEF HandlerKnows
    <3>4. QED
      BY <2>3, <2>5, <2>6, <3>1, <3>2, <3>3, OthersKeepKnowledge
  <2>8. QED
    BY <2>4, <2>7
<1>6. ASSUME NEW w \in Workers, CheckParticipant(w)
      PROVE  \A v \in Workers : HandlerKnows(v)'
  <2>1. /\ handler[w].step = "check"
        /\ UNCHANGED <<deliveries, referrals, credits>>
    BY <1>6 DEF CheckParticipant, tables, pubsub, history
  <2>2. /\ \A v \in Workers \ {w} : handler'[v] = handler[v]
        /\ Delivery(w)' = Delivery(w)
        /\ Target(w)' = Target(w)
        /\ handler'[w].msg = handler[w].msg
        /\ handler'[w].attempt = handler[w].attempt
        /\ handler'[w].referrer = handler[w].referrer
        /\ handler'[w].contest = handler[w].contest
        /\ \/ handler'[w].step = "set" /\ referrals[Target(w)] >= Threshold
           \/ handler'[w].step = "ack"
    BY <1>0, <1>6 DEF TypeOK, CheckParticipant, Goto, Delivery, Target
  <2>3. HandlerKnows(w)'
    BY <1>0, <2>1, <2>2 DEF HandlerKnows, Delivery
  <2>4. \A v \in Workers \ {w} : HandlerKnows(v)'
    BY <2>1, <2>2, OwnMoveKeepsOthers
  <2>5. QED
    BY <2>3, <2>4
<1>7. ASSUME NEW w \in Workers, SetParticipantAsEligible(w)
      PROVE  \A v \in Workers : HandlerKnows(v)'
  <2>1. /\ handler[w].step = "set"
        /\ UNCHANGED <<deliveries, referrals, credits>>
    BY <1>7 DEF SetParticipantAsEligible, pubsub, history
  <2>2. /\ \A v \in Workers \ {w} : handler'[v] = handler[v]
        /\ Delivery(w)' = Delivery(w)
        /\ handler'[w].msg = handler[w].msg
        /\ handler'[w].attempt = handler[w].attempt
        /\ handler'[w].step = "ack"
    BY <1>0, <1>7 DEF TypeOK, SetParticipantAsEligible, Goto, Delivery
  <2>3. HandlerKnows(w)'
    BY <1>0, <2>1, <2>2 DEF HandlerKnows, Delivery
  <2>4. \A v \in Workers \ {w} : HandlerKnows(v)'
    BY <2>1, <2>2, OwnMoveKeepsOthers
  <2>5. QED
    BY <2>3, <2>4
<1>8. ASSUME NEW w \in Workers, handler' = [handler EXCEPT ![w] = Idle],
             UNCHANGED <<deliveries, referrals, credits>>
      PROVE  \A v \in Workers : HandlerKnows(v)'
  <2>1. /\ \A v \in Workers \ {w} : handler'[v] = handler[v]
        /\ handler'[w].step = "idle"
    BY <1>0, <1>8 DEF TypeOK, Idle
  <2>2. HandlerKnows(w)'
    BY <2>1 DEF HandlerKnows
  <2>3. \A v \in Workers \ {w} : HandlerKnows(v)'
    BY <1>8, <2>1, OwnMoveKeepsOthers
  <2>4. QED
    BY <2>2, <2>3
<1>9. CASE Environment \/ UNCHANGED vars
  BY <1>1, <1>9 DEF Environment, vars, Tick, Publish, Republish, RecordVisit,
                   RemoveUser, tables, pubsub, history
<1>10. ASSUME NEW w \in Workers, Ack(w) \/ IncrementFails(w) \/ Crash(w)
       PROVE  \A v \in Workers : HandlerKnows(v)'
  BY <1>8, <1>10 DEF Ack, IncrementFails, Crash, tables, pubsub, history
<1>11. QED
  BY <1>2, <1>3, <1>4, <1>5, <1>6, <1>7, <1>9, <1>10 DEF Next, HandlerStep

\* Every step keeps the rows in order.
LEMMA RowsPreserved ==
    ASSUME ContestInvariant, TypeOK', [Next]_vars
    PROVE  /\ EligibleHasThreshold'
           /\ CreditsAreDeliveries'
           /\ \A p \in Participants : IsFiniteSet(credits'[p])
           /\ RowsCountDeliveries'
<1>1. CASE \E w \in Workers : IncrementParticipantCount(w)
  BY <1>1, IncrementKeepsRows
<1>2. CASE \E w \in Workers : SetParticipantAsEligible(w)
  BY <1>2, GrantKeepsRows
<1>3. CASE \E w \in Workers, n \in Newcomers : Deliver(w, n)
  <2>1. UNCHANGED <<referrals, eligible, credits>>
    BY <1>3 DEF Deliver, tables, history
  <2>2. \A n \in Newcomers : deliveries'[n] >= deliveries[n]
    BY <1>3 DEF Deliver, ContestInvariant, TypeOK
  <2>3. QED
    BY <2>1, <2>2, RowsUntouched
<1>4. CASE Environment \/ UNCHANGED vars \/ \E w \in Workers :
              \/ GetFirstVisit(w) \/ GetReferrerAndContest(w) \/ IncrementFails(w)
              \/ CheckParticipant(w) \/ Ack(w) \/ Crash(w)
  <2>1. UNCHANGED <<referrals, eligible, credits, deliveries>>
    BY <1>4 DEF Environment, vars, Tick, Publish, Republish, RecordVisit, RemoveUser,
                GetFirstVisit, GetReferrerAndContest, IncrementFails, CheckParticipant,
                Ack, Crash, tables, pubsub, history
  <2>2. \A n \in Newcomers : deliveries'[n] >= deliveries[n]
    BY <2>1 DEF ContestInvariant, TypeOK
  <2>3. QED
    BY <2>1, <2>2, RowsUntouched
<1>5. QED
  BY <1>1, <1>2, <1>3, <1>4 DEF Next, HandlerStep

\* Only events that were published are worked on.
LEMMA WorkIsOnPublished ==
    ASSUME ContestInvariant, [Next]_vars
    PROVE  \A w \in Workers : handler'[w].step # "idle" => handler'[w].msg \in published'
<1>1. /\ TypeOK
      /\ \A w \in Workers : handler[w].step # "idle" => handler[w].msg \in published
  BY DEF ContestInvariant
<1>2. published \subseteq published'
  <2>1. CASE \E n \in Newcomers : Publish(n)
    BY <2>1 DEF Publish
  <2>2. CASE UNCHANGED published
    BY <2>2
  <2>3. QED
    BY <2>1, <2>2 DEF Next, Environment, HandlerStep, vars, Tick, Republish, RecordVisit,
          RemoveUser, Deliver, GetFirstVisit, GetReferrerAndContest,
          IncrementParticipantCount, IncrementFails, CheckParticipant,
          SetParticipantAsEligible, Ack, Crash, pubsub
<1>3. ASSUME NEW w \in Workers, NEW n \in Newcomers, Deliver(w, n)
      PROVE  \A v \in Workers : handler'[v].step # "idle" => handler'[v].msg \in published'
  BY <1>1, <1>3 DEF TypeOK, Deliver, Handed
<1>4. ASSUME NEW w \in Workers, HandlerStep(w) \/ Crash(w)
      PROVE  \A v \in Workers : handler'[v].step # "idle" => handler'[v].msg \in published'
  <2>1. /\ \A v \in Workers \ {w} : handler'[v] = handler[v]
        /\ handler'[w].step = "idle" \/
             (handler[w].step # "idle" /\ handler'[w].msg = handler[w].msg)
    <3>1. CASE GetFirstVisit(w)
      BY <1>1, <3>1 DEF TypeOK, GetFirstVisit
    <3>2. CASE GetReferrerAndContest(w)
      BY <1>1, <3>2 DEF TypeOK, GetReferrerAndContest, Goto
    <3>3. CASE IncrementParticipantCount(w)
      BY <1>1, <3>3 DEF TypeOK, IncrementParticipantCount, Goto
    <3>4. CASE CheckParticipant(w)
      BY <1>1, <3>4 DEF TypeOK, CheckParticipant, Goto
    <3>5. CASE SetParticipantAsEligible(w)
      BY <1>1, <3>5 DEF TypeOK, SetParticipantAsEligible, Goto
    <3>6. CASE IncrementFails(w) \/ Ack(w) \/ Crash(w)
      BY <1>1, <3>6 DEF TypeOK, IncrementFails, Ack, Crash, Idle
    <3>7. QED
      BY <1>4, <3>1, <3>2, <3>3, <3>4, <3>5, <3>6 DEF HandlerStep
  <2>2. QED
    BY <1>1, <1>2, <2>1
<1>5. CASE Environment \/ UNCHANGED vars
  <2>1. UNCHANGED handler
    BY <1>5 DEF Environment, vars, Tick, Publish, Republish, RecordVisit, RemoveUser
  <2>2. QED
    BY <1>1, <1>2, <2>1
<1>6. QED
  BY <1>3, <1>4, <1>5 DEF Next

\* What counts n does not grow when no row learns a delivery of n but from an
\* instance that was about to count it, and no instance starts on n.
LEMMA CountsDoNotGrow ==
    ASSUME NEW n \in Newcomers,
           \A p \in Participants : \A d \in credits'[p] :
               d[1] = n => d \in CountsOf(n),
           \A v \in Workers : Counting(v, n)' => Delivery(v)' \in CountsOf(n)
    PROVE  CountsOf(n)' \subseteq CountsOf(n)
<1> SUFFICES ASSUME NEW d \in CountsOf(n)' PROVE d \in CountsOf(n)
  OBVIOUS
<1>1. \/ \E p \in Participants : d \in credits'[p] /\ d[1] = n
      \/ \E v \in Workers : Counting(v, n)' /\ d = Delivery(v)'
  BY DEF CountsOf, CreditsOf
<1>2. QED
  BY <1>1

\* The two ways to count n.
LEMMA CountsInclude ==
    ASSUME NEW n \in Newcomers
    PROVE  /\ \A p \in Participants : \A d \in credits[p] :
                d[1] = n => d \in CountsOf(n)
           /\ \A v \in Workers : Counting(v, n) => Delivery(v) \in CountsOf(n)
BY DEF CountsOf, CreditsOf

\* Counts stay paid when they do not grow, and a free delivery comes up only
\* together with a fault.
LEMMA StaysPaid ==
    ASSUME NEW n \in Newcomers, CountsArePaid(n), CountsOf(n)' \subseteq CountsOf(n),
           published \subseteq published', faults \in Nat, faults' \in Nat,
           \/ faults' >= faults /\ (Awaited(n)' => Awaited(n))
           \/ faults' = faults + 1
    PROVE  CountsArePaid(n)'
<1> DEFINE some == CountsOf(n)
           left == CountsOf(n)'
<1>1. IsFiniteSet(some) /\ left \subseteq some
  BY DEF CountsArePaid
<1> HIDE DEF some, left
<1>2. /\ IsFiniteSet(left)
      /\ Cardinality(left) <= Cardinality(some)
      /\ Cardinality(left) \in Nat /\ Cardinality(some) \in Nat
  BY <1>1, FS_Subset, FS_CardinalityType
<1>3. Cardinality(some) + (IF Awaited(n) THEN 1 ELSE 0) <= 1 + faults
  BY DEF CountsArePaid, some
<1>4. Cardinality(left) + (IF Awaited(n)' THEN 1 ELSE 0) <= 1 + faults'
  <2>1. CASE Awaited(n) /\ Awaited(n)'
    BY <1>2, <1>3, <2>1
  <2>2. CASE Awaited(n) /\ ~Awaited(n)'
    BY <1>2, <1>3, <2>2
  <2>3. CASE ~Awaited(n) /\ Awaited(n)'
    BY <1>2, <1>3, <2>3
  <2>4. CASE ~Awaited(n) /\ ~Awaited(n)'
    BY <1>2, <1>3, <2>4
  <2>5. QED
    BY <2>1, <2>2, <2>3, <2>4
<1>5. n \notin published' => left = {}
  BY <1>1 DEF CountsArePaid, some
<1>6. QED
  BY <1>2, <1>4, <1>5 DEF CountsArePaid, left

\* A step of an instance, or its death: it goes on with its delivery, never back
\* to before the increment, or becomes idle.
LEMMA InstanceMoves ==
    ASSUME ContestInvariant, NEW w \in Workers, HandlerStep(w) \/ Crash(w)
    PROVE  /\ handler[w].step # "idle"
           /\ \A v \in Workers \ {w} : handler'[v] = handler[v]
           /\ \/ handler'[w].step = "idle"
              \/ /\ handler'[w].step # "idle"
                 /\ handler'[w].msg = handler[w].msg
                 /\ Delivery(w)' = Delivery(w)
                 /\ handler'[w].step \in {"visit", "referrer", "increment"} =>
                        handler[w].step \in {"visit", "referrer"}
           /\ handler'[w].step = "idle" => IncrementFails(w) \/ Ack(w) \/ Crash(w)
           /\ \A p \in Participants : \A d \in credits'[p] :
                d \in credits[p] \/ (handler[w].step = "increment" /\ d = Delivery(w))
<1>0. TypeOK
  BY DEF ContestInvariant
<1>1. CASE GetFirstVisit(w)
  BY <1>0, <1>1 DEF TypeOK, GetFirstVisit, Delivery, history
<1>2. CASE GetReferrerAndContest(w)
  BY <1>0, <1>2 DEF TypeOK, GetReferrerAndContest, Goto, Delivery, history
<1>3. CASE IncrementParticipantCount(w)
  <2>1. /\ \A p \in Participants : credits'[p] \subseteq credits[p] \cup {Delivery(w)}
        /\ handler[w].step = "increment"
    BY <1>0, <1>3 DEF TypeOK, IncrementParticipantCount
  <2>2. /\ \A v \in Workers \ {w} : handler'[v] = handler[v]
        /\ handler'[w].step = "check"
        /\ handler'[w].msg = handler[w].msg
        /\ Delivery(w)' = Delivery(w)
    BY <1>0, <1>3 DEF TypeOK, IncrementParticipantCount, Goto, Delivery
  <2>3. QED
    BY <2>1, <2>2
<1>4. CASE CheckParticipant(w)
  BY <1>0, <1>4 DEF TypeOK, CheckParticipant, Goto, Delivery, history
<1>5. CASE SetParticipantAsEligible(w)
  BY <1>0, <1>5 DEF TypeOK, SetParticipantAsEligible, Goto, Delivery, history
<1>6. CASE IncrementFails(w) \/ Ack(w) \/ Crash(w)
  BY <1>0, <1>6 DEF TypeOK, IncrementFails, Ack, Crash, Idle, history
<1>7. QED
  BY <1>1, <1>2, <1>3, <1>4, <1>5, <1>6 DEF HandlerStep

\* An increment that fails gives its delivery back: it is not counted and never
\* will be, so the next delivery of the event is free again.
LEMMA FailureGivesBack ==
    ASSUME ContestInvariant, NEW w \in Workers, IncrementFails(w),
           NEW n \in Newcomers, handler[w].msg = n,
           CountsOf(n)' \subseteq CountsOf(n)
    PROVE  CountsArePaid(n)'
<1> DEFINE some == CountsOf(n)
           left == CountsOf(n)'
           d == Delivery(w)
<1>1. /\ TypeOK
      /\ \A v \in Workers : HandlerKnows(v)
      /\ CountsArePaid(n)
      /\ handler[w].msg \in published
  BY DEF ContestInvariant, IncrementFails
<1>2. /\ handler[w].step = "increment"
      /\ handler' = [handler EXCEPT ![w] = Idle]
      /\ UNCHANGED <<credits, faults, published>>
  BY DEF IncrementFails, history, pubsub
<1>3. d \in some
  BY <1>2, CountsInclude DEF Counting
<1>4. d \notin left
  <2>1. \A p \in Participants : d \notin credits'[p]
    BY <1>1, <1>2 DEF HandlerKnows
  <2>2. ASSUME NEW v \in Workers, Counting(v, n)'
        PROVE  Delivery(v)' # d
    <3>1. v # w /\ handler'[v] = handler[v] /\ handler[v].step # "idle"
      BY <1>1, <1>2, <2>2 DEF TypeOK, Counting, Idle
    <3>2. Delivery(v) # d
      BY <1>1, <1>2, <3>1 DEF HandlerKnows
    <3>3. QED
      BY <3>1, <3>2 DEF Delivery
  <2>3. QED
    BY <2>1, <2>2 DEF CountsOf, CreditsOf
<1>5. IsFiniteSet(some) /\ Cardinality(some) <= 1 + faults /\ faults \in Nat
  <2>1. IsFiniteSet(some) /\ faults \in Nat
    BY <1>1, ConstantsAssumption DEF CountsArePaid, TypeOK
  <2>2. Cardinality(some) \in Nat
    BY <2>1, FS_CardinalityType
  <2>3. Cardinality(some) + (IF Awaited(n) THEN 1 ELSE 0) <= 1 + faults
    BY <1>1 DEF CountsArePaid
  <2> HIDE DEF some
  <2>4. QED
    BY <2>1, <2>2, <2>3
<1> HIDE DEF some, left, d
<1>6. /\ IsFiniteSet(some \ {d})
      /\ Cardinality(some \ {d}) = Cardinality(some) - 1
  BY <1>3, <1>5, FS_RemoveElement
<1>7. left \in SUBSET (some \ {d})
  BY <1>4 DEF some, left
<1>8. IsFiniteSet(left) /\ Cardinality(left) <= Cardinality(some) - 1
  BY <1>6, <1>7, FS_Subset
<1>9. Cardinality(left) \in Nat /\ Cardinality(some) \in Nat
  BY <1>5, <1>8, FS_CardinalityType
<1>10. Cardinality(left) + (IF Awaited(n)' THEN 1 ELSE 0) <= 1 + faults'
  <2>1. Cardinality(left) + 1 <= 1 + faults'
    BY <1>2, <1>5, <1>8, <1>9
  <2>2. CASE Awaited(n)'
    BY <2>1, <2>2
  <2>3. CASE ~Awaited(n)'
    BY <1>2, <1>5, <1>9, <2>1, <2>3
  <2>4. QED
    BY <2>2, <2>3
<1>11. n \in published'
  BY <1>1, <1>2
<1>12. QED
  BY <1>8, <1>10, <1>11 DEF CountsArePaid, left

\* A delivery may add itself to what counts its newcomer: the free one when no
\* instance works on the event, and one paid by a fault otherwise.
LEMMA DeliveryIsPaid ==
    ASSUME ContestInvariant, NEW w \in Workers, NEW n \in Newcomers, Deliver(w, n)
    PROVE  CountsArePaid(n)'
<1> DEFINE some == CountsOf(n)
           more == CountsOf(n)'
           d == <<n, deliveries[n] + 1>>
<1>1. TypeOK /\ CountsArePaid(n)
  BY DEF ContestInvariant
<1>2. /\ handler[w].step = "idle" /\ n \in subscription
      /\ handler' = [handler EXCEPT ![w] = Handed(n, deliveries[n] + 1)]
      /\ UNCHANGED <<credits, published>>
  BY DEF Deliver, history
<1>3. more \subseteq some \cup {d}
  <2>1. Delivery(w)' = d
    BY <1>1, <1>2 DEF TypeOK, Delivery, Handed
  <2>2. \A v \in Workers \ {w} : handler'[v] = handler[v]
    BY <1>1, <1>2 DEF TypeOK
  <2>3. ASSUME NEW v \in Workers \ {w}, Counting(v, n)'
        PROVE  Delivery(v)' \in some
    <3>1. Counting(v, n) /\ Delivery(v)' = Delivery(v)
      BY <2>2, <2>3 DEF Counting, Delivery
    <3>2. QED
      BY <3>1, CountsInclude
  <2>4. \A e \in CreditsOf(n)' : e \in some
    BY <1>2 DEF CreditsOf, CountsOf
  <2>5. QED
    BY <2>1, <2>3, <2>4 DEF CountsOf
<1>4. ~Awaited(n)'
  BY <1>1, <1>2 DEF TypeOK, Awaited, Handed
<1>5. /\ IsFiniteSet(some) /\ faults \in Nat /\ faults' \in Nat
      /\ Cardinality(some) + (IF Awaited(n) THEN 1 ELSE 0) <= 1 + faults
  BY <1>1, ConstantsAssumption DEF TypeOK, CountsArePaid, Deliver
<1>6. \/ Awaited(n) /\ faults' = faults
      \/ faults' = faults + 1
  BY <1>2 DEF Deliver, Awaited
<1>7. n \in published'
  BY <1>1, <1>2 DEF TypeOK
<1> HIDE DEF some, more, d
<1>8. /\ IsFiniteSet(some \cup {d})
      /\ Cardinality(some \cup {d}) <= Cardinality(some) + 1
      /\ Cardinality(some) \in Nat
  <2>1. Cardinality(some) \in Nat
    BY <1>5, FS_CardinalityType
  <2>2. /\ IsFiniteSet(some \cup {d})
        /\ Cardinality(some \cup {d}) =
             IF d \in some THEN Cardinality(some) ELSE Cardinality(some) + 1
    BY <1>5, FS_AddElement
  <2>3. QED
    BY <2>1, <2>2
<1>9. more \in SUBSET (some \cup {d})
  BY <1>3
<1>10. /\ IsFiniteSet(more) /\ Cardinality(more) <= Cardinality(some \cup {d})
       /\ Cardinality(more) \in Nat /\ Cardinality(some \cup {d}) \in Nat
  BY <1>8, <1>9, FS_Subset, FS_CardinalityType
<1>11. Cardinality(more) <= 1 + faults'
  <2>1. CASE Awaited(n) /\ faults' = faults
    BY <1>5, <1>8, <1>10, <2>1
  <2>2. CASE ~Awaited(n) /\ faults' = faults + 1
    BY <1>5, <1>8, <1>10, <2>2
  <2>3. CASE Awaited(n) /\ faults' = faults + 1
    BY <1>5, <1>8, <1>10, <2>3
  <2>4. QED
    BY <1>6, <2>1, <2>2, <2>3
<1>12. Cardinality(more) + (IF Awaited(n)' THEN 1 ELSE 0) <= 1 + faults'
  BY <1>4, <1>5, <1>10, <1>11
<1>13. QED
  BY <1>7, <1>10, <1>12 DEF CountsArePaid, more

\* Every step pays for the counts it adds.
LEMMA CountsPreserved ==
    ASSUME ContestInvariant, TypeOK', [Next]_vars, NEW n \in Newcomers
    PROVE  CountsArePaid(n)'
<1>0. /\ TypeOK
      /\ \A w \in Workers : HandlerKnows(w)
      /\ \A w \in Workers : handler[w].step # "idle" => handler[w].msg \in published
      /\ CountsArePaid(n)
      /\ faults \in Nat /\ faults' \in Nat
  BY ConstantsAssumption DEF ContestInvariant, TypeOK
<1>1. ASSUME UNCHANGED <<handler, credits>>
      PROVE  CountsOf(n)' = CountsOf(n)
  BY <1>1 DEF CountsOf, CreditsOf, Counting, Delivery
<1>2. CASE UNCHANGED <<handler, credits, subscription, published, faults>>
  <2>1. Awaited(n)' = Awaited(n)
    BY <1>2 DEF Awaited
  <2>2. QED
    BY <1>0, <1>1, <1>2, <2>1, StaysPaid
<1>3. ASSUME NEW m \in Newcomers, Publish(m)
      PROVE  CountsArePaid(n)'
  <2>1. /\ UNCHANGED <<handler, credits, faults>> /\ m \notin published
        /\ published' = published \cup {m} /\ subscription' = subscription \cup {m}
    BY <1>3 DEF Publish
  <2>2. CASE m = n
    <3>1. CountsOf(n)' = {}
      BY <1>0, <1>1, <2>1, <2>2 DEF CountsArePaid
    <3>2. Cardinality({}) = 0 /\ IsFiniteSet({})
      BY FS_EmptySet
    <3>3. QED
      BY <1>0, <2>1, <2>2, <3>1, <3>2 DEF CountsArePaid
  <2>3. CASE m # n
    <3>1. Awaited(n)' => Awaited(n)
      BY <2>1, <2>3 DEF Awaited
    <3>2. QED
      BY <1>0, <1>1, <2>1, <3>1, StaysPaid
  <2>4. QED
    BY <2>2, <2>3
<1>4. ASSUME NEW m \in Newcomers, Republish(m)
      PROVE  CountsArePaid(n)'
  <2>1. UNCHANGED <<handler, credits, published>> /\ faults' = faults + 1
    BY <1>4 DEF Republish, history
  <2>2. QED
    BY <1>0, <1>1, <2>1, StaysPaid
<1>5. ASSUME NEW w \in Workers, NEW m \in Newcomers, Deliver(w, m)
      PROVE  CountsArePaid(n)'
  <2>1. CASE m = n
    BY <1>5, <2>1, DeliveryIsPaid
  <2>2. CASE m # n
    <3>1. /\ handler[w].step = "idle"
          /\ handler' = [handler EXCEPT ![w] = Handed(m, deliveries[m] + 1)]
          /\ UNCHANGED <<credits, published, subscription>>
          /\ faults' >= faults
      BY <1>0, <1>5 DEF Deliver, history
    <3>2. /\ \A v \in Workers \ {w} : handler'[v] = handler[v]
          /\ handler'[w].msg = m
      BY <1>0, <3>1 DEF TypeOK, Handed
    <3>3. \A v \in Workers : Counting(v, n)' => Counting(v, n) /\ Delivery(v)' = Delivery(v)
      BY <2>2, <3>2 DEF Counting, Delivery
    <3>4. CountsOf(n)' \subseteq CountsOf(n)
      BY <3>1, <3>3, CountsDoNotGrow, CountsInclude
    <3>5. Awaited(n)' => Awaited(n)
      BY <3>1, <3>2 DEF Awaited
    <3>6. QED
      BY <1>0, <3>1, <3>4, <3>5, StaysPaid
  <2>3. QED
    BY <2>1, <2>2
<1>6. ASSUME NEW w \in Workers, HandlerStep(w) \/ Crash(w)
      PROVE  CountsArePaid(n)'
  <2>1. /\ handler[w].step # "idle"
        /\ \A v \in Workers \ {w} : handler'[v] = handler[v]
        /\ \/ handler'[w].step = "idle"
           \/ /\ handler'[w].step # "idle"
              /\ handler'[w].msg = handler[w].msg
              /\ Delivery(w)' = Delivery(w)
              /\ handler'[w].step \in {"visit", "referrer", "increment"} =>
                     handler[w].step \in {"visit", "referrer"}
    BY <1>6, InstanceMoves
  <2>2. \A p \in Participants : \A d \in credits'[p] :
          d \in credits[p] \/ (handler[w].step = "increment" /\ d = Delivery(w))
    BY <1>6, InstanceMoves
  <2>3. CountsOf(n)' \subseteq CountsOf(n)
    <3>1. \A v \in Workers : Counting(v, n)' => Counting(v, n) /\ Delivery(v)' = Delivery(v)
      BY <2>1 DEF Counting, Delivery
    <3>2. handler[w].step = "increment" /\ Delivery(w)[1] = n => Delivery(w) \in CountsOf(n)
      BY CountsInclude DEF Counting, Delivery
    <3>3. \A p \in Participants : \A d \in credits'[p] : d[1] = n => d \in CountsOf(n)
      BY <2>2, <3>2, CountsInclude
    <3>4. QED
      BY <3>1, <3>3, CountsDoNotGrow, CountsInclude
  <2>4. CASE Crash(w)
    <3>1. UNCHANGED published /\ faults' = faults + 1
      BY <2>4 DEF Crash, pubsub
    <3>2. QED
      BY <1>0, <2>3, <3>1, StaysPaid
  <2>5. CASE IncrementFails(w) /\ handler[w].msg = n
    BY <2>3, <2>5, FailureGivesBack
  <2>6. CASE HandlerStep(w) /\ ~(IncrementFails(w) /\ handler[w].msg = n)
    <3>1. UNCHANGED <<published, faults>> /\ subscription' \subseteq subscription
      BY <2>6 DEF HandlerStep, GetFirstVisit, GetReferrerAndContest, IncrementParticipantCount,
            IncrementFails, CheckParticipant, SetParticipantAsEligible, Ack, pubsub
    <3>2. \/ handler'[w].step # "idle"
          \/ handler[w].msg # n
          \/ n \notin subscription'
      <4>1. CASE Ack(w)
        BY <4>1 DEF Ack
      <4>2. CASE IncrementFails(w)
        BY <2>6, <4>2
      <4>3. CASE Crash(w)
        BY <1>0, <3>1, <4>3 DEF Crash
      <4>4. QED
        BY <1>6, <4>1, <4>2, <4>3, InstanceMoves
    <3>3. Awaited(n)' => Awaited(n)
      BY <2>1, <3>1, <3>2 DEF Awaited
    <3>4. QED
      BY <1>0, <2>3, <3>1, <3>3, StaysPaid
  <2>7. QED
    BY <1>6, <2>4, <2>5, <2>6
<1>7. CASE Environment \/ UNCHANGED vars
  <2>1. CASE \/ UNCHANGED vars \/ Tick
             \/ \E u \in Referrers : RemoveUser(u)
             \/ \E m \in Newcomers : \E row \in VisitRows :
                  RecordVisit(m, row.app, row.first, row.referral)
    BY <1>2, <2>1 DEF vars, Tick, RemoveUser, RecordVisit, pubsub, history
  <2>2. QED
    BY <1>3, <1>4, <1>7, <2>1 DEF Environment
<1>8. QED
  BY <1>5, <1>6, <1>7 DEF Next

\* A due referral stays followed when it stays on record, its referral is not
\* undone, and each instance still follows it.
LEMMA StaysFollowed ==
    ASSUME NEW n \in Newcomers, NEW r \in Referrers, DueIsFollowed(n, r),
           ConstantsAssumption, now \in Nat, now' \in Nat, now' >= now,
           FirstVisitReferrals(n)' = {r},
           published \subseteq published',
           Done(n, r) => Done(n, r)',
           n \notin subscription' => n \notin subscription \/ Done(n, r)',
           \A w \in Workers : handler'[w] = handler[w] \/ Follows(w, n, r)'
    PROVE  DueIsFollowed(n, r)'
<1>1. \E c \in Contests : StartAt[c] <= now'
  BY DEF DueIsFollowed, ConstantsAssumption
<1>2. \A w \in Workers : Follows(w, n, r)'
  BY DEF DueIsFollowed, Follows
<1>3. QED
  BY <1>1, <1>2 DEF DueIsFollowed

\* What is done stays done: no row forgets a delivery and no user comes back.
LEMMA StaysDone ==
    ASSUME NEW n \in Newcomers, NEW r \in Referrers, users' \subseteq users,
           \A p \in Participants : credits[p] \subseteq credits'[p]
    PROVE  Done(n, r) => Done(n, r)'
BY DEF Done, CountedFor, Participants

\* A step of an instance leaves a referral behind only when it is done.
LEMMA InstancesFollow ==
    ASSUME ContestInvariant, TypeOK', NEW w \in Workers, HandlerStep(w),
           NEW n \in Newcomers, NEW r \in due[n]
    PROVE  Follows(w, n, r)'
<1>0. /\ TypeOK /\ HandlerKnows(w) /\ DueIsFollowed(n, r) /\ r \in Referrers
      /\ ConstantsAssumption
  BY ConstantsAssumption DEF ContestInvariant, TypeOK
<1> SUFFICES ASSUME handler'[w].msg = n, handler'[w].step # "idle"
             PROVE  Follows(w, n, r)'
  BY DEF Follows
<1>1. handler[w].msg = n /\ Follows(w, n, r)
  BY <1>0, InstanceMoves DEF DueIsFollowed
<1>2. CASE GetFirstVisit(w)
  <2>1. handler' = [handler EXCEPT ![w].referrer = r,
                                   ![w].step = IF r = NoOne THEN "ack" ELSE "referrer"]
    BY <1>0, <1>1, <1>2 DEF GetFirstVisit, DueIsFollowed
  <2>2. r # NoOne
    BY <1>0 DEF ConstantsAssumption
  <2>3. handler'[w].step = "referrer" /\ handler'[w].referrer = r
    BY <1>0, <2>1, <2>2 DEF TypeOK
  <2>4. QED
    BY <2>3 DEF Follows
<1>3. CASE GetReferrerAndContest(w)
  <2>1. handler[w].step = "referrer" /\ handler[w].referrer = r
    BY <1>1, <1>3 DEF GetReferrerAndContest, Follows
  <2>2. NoOne \notin OngoingContests
    BY <1>0 DEF DueIsFollowed, OngoingContests, ConstantsAssumption
  <2>3. \/ handler'[w].step = "increment" /\ handler'[w].referrer = r
        \/ handler'[w].step = "ack" /\ r \notin users
    BY <1>0, <1>3, <2>1, <2>2 DEF TypeOK, GetReferrerAndContest, Goto
  <2>4. users' = users
    BY <1>3 DEF GetReferrerAndContest, tables
  <2>5. QED
    BY <2>3, <2>4 DEF Follows, Done
<1>4. CASE IncrementParticipantCount(w)
  <2>1. handler[w].step = "increment" /\ handler[w].referrer = r
    BY <1>1, <1>4 DEF IncrementParticipantCount, Follows
  <2>2. /\ Target(w) \in Participants
        /\ Target(w) = <<handler[w].contest, r>> /\ handler[w].contest \in Contests
        /\ Delivery(w)[1] = n
    BY <1>0, <1>1, <2>1, TargetType DEF Target, HandlerKnows, Delivery
  <2>3. Delivery(w) \in credits'[Target(w)]
    BY <1>0, <1>4, <2>2 DEF TypeOK, IncrementParticipantCount
  <2>4. Done(n, r)'
    BY <2>2, <2>3 DEF Done, CountedFor
  <2>5. handler'[w].step = "check"
    BY <1>0, <1>4 DEF TypeOK, IncrementParticipantCount, Goto
  <2>6. QED
    BY <2>4, <2>5 DEF Follows
<1>5. CASE CheckParticipant(w) \/ SetParticipantAsEligible(w)
  <2>1. Done(n, r)
    BY <1>1, <1>5 DEF CheckParticipant, SetParticipantAsEligible, Follows
  <2>2. UNCHANGED <<users, credits>>
    BY <1>5 DEF CheckParticipant, SetParticipantAsEligible, tables, history
  <2>3. Done(n, r)'
    BY <2>1, <2>2 DEF Done, CountedFor
  <2>4. handler'[w].step \in {"set", "ack"}
    BY <1>0, <1>5 DEF TypeOK, CheckParticipant, SetParticipantAsEligible, Goto
  <2>5. QED
    BY <2>3, <2>4 DEF Follows
<1>6. CASE IncrementFails(w) \/ Ack(w)
  BY <1>0, <1>6 DEF TypeOK, IncrementFails, Ack, Idle
<1>7. QED
  BY <1>2, <1>3, <1>4, <1>5, <1>6 DEF HandlerStep

\* Every step keeps the due referrals followed.
LEMMA DuePreserved ==
    ASSUME ContestInvariant, TypeOK', [Next]_vars,
           NEW n \in Newcomers, NEW r \in due'[n]
    PROVE  DueIsFollowed(n, r)'
<1>0. /\ TypeOK /\ r \in Referrers /\ ConstantsAssumption
      /\ now \in Nat /\ now' \in Nat
      /\ r \in due[n] => DueIsFollowed(n, r)
      /\ \A w \in Workers : handler[w].step # "idle" => handler[w].msg \in published
  BY ConstantsAssumption DEF ContestInvariant, TypeOK
<1>1. ASSUME UNCHANGED visits
      PROVE  FirstVisitReferrals(n)' = FirstVisitReferrals(n)
  BY <1>1 DEF FirstVisitReferrals
<1>2. ASSUME NEW m \in Newcomers, Publish(m)
      PROVE  DueIsFollowed(n, r)'
  <2>1. /\ UNCHANGED <<now, visits, users, handler, credits>> /\ m \notin published
        /\ published' = published \cup {m} /\ subscription' = subscription \cup {m}
        /\ due' = [due EXCEPT ![m] = IF OngoingContests = {NoOne} THEN {} ELSE OnRecord(m)]
    BY <1>2 DEF Publish, tables
  <2>2. CASE m = n
    <3>1. OngoingContests # {NoOne} /\ r \in OnRecord(n)
      BY <1>0, <2>1, <2>2 DEF TypeOK
    <3>2. FirstVisitReferrals(n) = {r}
      BY <3>1 DEF OnRecord
    <3>3. \E c \in Contests : StartAt[c] <= now
      BY <3>1 DEF OngoingContests
    <3>4. \A w \in Workers : Follows(w, n, r)'
      BY <1>0, <2>1, <2>2 DEF Follows
    <3>5. QED
      BY <1>1, <2>1, <2>2, <3>2, <3>3, <3>4 DEF DueIsFollowed
  <2>3. CASE m # n
    <3>1. r \in due[n]
      BY <1>0, <2>1, <2>3 DEF TypeOK
    <3>2. Done(n, r)' = Done(n, r)
      BY <2>1 DEF Done, CountedFor
    <3>3. FirstVisitReferrals(n)' = {r}
      BY <1>0, <1>1, <2>1, <3>1 DEF DueIsFollowed
    <3>4. QED
      BY <1>0, <2>1, <2>3, <3>1, <3>2, <3>3, StaysFollowed
  <2>4. QED
    BY <2>2, <2>3
<1>3. ASSUME NEW m \in Newcomers, NEW row \in VisitRows,
             RecordVisit(m, row.app, row.first, row.referral)
      PROVE  DueIsFollowed(n, r)'
  <2>1. /\ UNCHANGED <<now, users, published, subscription, handler, credits>>
        /\ due' = [due EXCEPT ![m] = due[m] \cap OnRecord(m)']
        /\ \A k \in Newcomers \ {m} : visits'[k] = visits[k]
    BY <1>0, <1>3 DEF RecordVisit, pubsub, TypeOK
  <2>2. r \in due[n] /\ (m = n => r \in OnRecord(n)')
    BY <1>0, <2>1 DEF TypeOK
  <2>3. FirstVisitReferrals(n)' = {r}
    <3>1. CASE m = n
      BY <2>2, <3>1 DEF OnRecord
    <3>2. CASE m # n
      <4>1. FirstVisitReferrals(n)' = FirstVisitReferrals(n)
        BY <2>1, <3>2 DEF FirstVisitReferrals
      <4>2. QED
        BY <1>0, <2>2, <4>1 DEF DueIsFollowed
    <3>3. QED
      BY <3>1, <3>2
  <2>4. Done(n, r)' = Done(n, r)
    BY <2>1 DEF Done, CountedFor
  <2>5. QED
    BY <1>0, <2>1, <2>2, <2>3, <2>4, StaysFollowed
<1>4. ASSUME UNCHANGED <<visits, due>>, published' = published,
             users' \subseteq users, now' >= now,
             \A p \in Participants : credits[p] \subseteq credits'[p],
             n \notin subscription' => n \notin subscription \/ Done(n, r)',
             \A w \in Workers : handler'[w] = handler[w] \/ Follows(w, n, r)'
      PROVE  DueIsFollowed(n, r)'
  <2>1. r \in due[n] /\ DueIsFollowed(n, r)
    BY <1>0, <1>4
  <2>2. FirstVisitReferrals(n)' = {r}
    BY <1>1, <1>4, <2>1 DEF DueIsFollowed
  <2>3. Done(n, r) => Done(n, r)'
    BY <1>0, <1>4, StaysDone
  <2>4. QED
    BY <1>0, <1>4, <2>1, <2>2, <2>3, StaysFollowed
<1>5. CASE \/ UNCHANGED vars \/ Tick
           \/ \E u \in Referrers : RemoveUser(u)
           \/ \E m \in Newcomers : Republish(m)
  <2>1. /\ UNCHANGED <<visits, due, published, handler, credits>>
        /\ users' \subseteq users /\ now' >= now /\ subscription \subseteq subscription'
    BY <1>0, <1>5 DEF vars, Tick, RemoveUser, Republish, tables, pubsub, history
  <2>2. QED
    BY <1>4, <2>1
<1>6. ASSUME NEW w \in Workers, NEW m \in Newcomers, Deliver(w, m)
      PROVE  DueIsFollowed(n, r)'
  <2>1. /\ UNCHANGED <<now, visits, users, due, published, subscription, credits>>
        /\ handler' = [handler EXCEPT ![w] = Handed(m, deliveries[m] + 1)]
    BY <1>6 DEF Deliver, tables, history
  <2>2. \A v \in Workers \ {w} : handler'[v] = handler[v]
    BY <1>0, <2>1 DEF TypeOK
  <2>3. Follows(w, n, r)'
    BY <1>0, <2>1 DEF TypeOK, Handed, Follows
  <2>4. now' >= now
    BY <1>0, <2>1
  <2>5. QED
    BY <1>4, <2>1, <2>2, <2>3, <2>4
<1>7. ASSUME NEW w \in Workers, HandlerStep(w) \/ Crash(w)
      PROVE  DueIsFollowed(n, r)'
  <2>1. \A v \in Workers \ {w} : handler'[v] = handler[v]
    BY <1>7, InstanceMoves
  <2>2. UNCHANGED <<now, visits, users, due, published>>
    BY <1>7 DEF HandlerStep, GetFirstVisit, GetReferrerAndContest,
          IncrementParticipantCount, IncrementFails, CheckParticipant,
          SetParticipantAsEligible, Ack, Crash, tables, pubsub, history
  <2>3. \A p \in Participants : credits[p] \subseteq credits'[p]
    <3>1. CASE IncrementParticipantCount(w)
      BY <1>0, <3>1 DEF TypeOK, IncrementParticipantCount
    <3>2. CASE ~IncrementParticipantCount(w)
      BY <1>7, <3>2 DEF HandlerStep, GetFirstVisit, GetReferrerAndContest, IncrementFails,
            CheckParticipant, SetParticipantAsEligible, Ack, Crash, history
    <3>3. QED
      BY <3>1, <3>2
  <2>4. Follows(w, n, r)'
    <3>1. CASE HandlerStep(w)
      BY <2>2, <3>1, InstancesFollow
    <3>2. CASE Crash(w)
      BY <1>0, <3>2 DEF TypeOK, Crash, Idle, Follows
    <3>3. QED
      BY <1>7, <3>1, <3>2
  <2>5. n \notin subscription' => n \notin subscription \/ Done(n, r)'
    <3>1. CASE Ack(w)
      <4> SUFFICES ASSUME n \notin subscription', n \in subscription
                   PROVE  Done(n, r)'
        OBVIOUS
      <4>1. handler[w].msg = n /\ handler[w].step = "ack"
        BY <3>1 DEF Ack
      <4>2. Done(n, r)
        BY <1>0, <2>2, <4>1 DEF DueIsFollowed, Follows
      <4>3. QED
        BY <1>0, <2>2, <2>3, <4>2, StaysDone
    <3>2. CASE ~Ack(w)
      BY <1>7, <3>2 DEF HandlerStep, GetFirstVisit, GetReferrerAndContest,
            IncrementParticipantCount, IncrementFails, CheckParticipant,
            SetParticipantAsEligible, Crash, pubsub
    <3>3. QED
      BY <3>1, <3>2
  <2>6. now' >= now
    BY <1>0, <2>2
  <2>7. QED
    BY <1>4, <2>1, <2>2, <2>3, <2>4, <2>5, <2>6
<1>8. QED
  BY <1>2, <1>3, <1>5, <1>6, <1>7 DEF Next, Environment

\* The inductive invariant of the contest holds in every reachable state.
THEOREM InvariantHolds == Spec => []ContestInvariant
<1>1. ContestInvariant /\ [Next]_vars => ContestInvariant'
  <2> SUFFICES ASSUME ContestInvariant, [Next]_vars
               PROVE  ContestInvariant'
    OBVIOUS
  <2>1. TypeOK'
    BY TypePreserved
  <2>2. \A v \in Workers : HandlerKnows(v)'
    BY <2>1, KnowledgePreserved
  <2>3. /\ EligibleHasThreshold'
        /\ CreditsAreDeliveries'
        /\ \A p \in Participants : IsFiniteSet(credits'[p])
        /\ RowsCountDeliveries'
    BY <2>1, RowsPreserved
  <2>4. \A w \in Workers : handler'[w].step # "idle" => handler'[w].msg \in published'
    BY WorkIsOnPublished
  <2>5. \A n \in Newcomers : CountsArePaid(n)'
    BY <2>1, CountsPreserved
  <2>6. \A n \in Newcomers : \A r \in due'[n] : DueIsFollowed(n, r)'
    BY <2>1, DuePreserved
  <2>7. QED
    BY <2>1, <2>2, <2>3, <2>4, <2>5, <2>6 DEF ContestInvariant
<1>2. QED
  BY InvariantInit, <1>1, PTL DEF Spec

\* Columns and handler variables keep their types, and only events that were
\* published wait for an acknowledgement.
THEOREM TypeCorrect == Spec => []TypeOK
<1>1. ContestInvariant => TypeOK
  BY DEF ContestInvariant
<1>2. QED
  BY InvariantHolds, <1>1, PTL

\* Nobody is eligible with fewer referrals than the threshold, whatever the
\* interleaving of the handlers and however often events are delivered.
THEOREM EligibilityIsEarned == Spec => []EligibleHasThreshold
<1>1. ContestInvariant => EligibleHasThreshold
  BY DEF ContestInvariant
<1>2. QED
  BY InvariantHolds, <1>1, PTL

\* Each delivery is counted in at most one row and at most once there, and a
\* row holds nothing else.
THEOREM RowsAddUp == Spec => []RowsCountDeliveries
<1>1. ContestInvariant => RowsCountDeliveries
  BY DEF ContestInvariant
<1>2. QED
  BY InvariantHolds, <1>1, PTL

\* A newcomer is counted more than once only where an instance died or the event
\* was delivered or published twice, and each extra count takes a fault of its own.
THEOREM RecountsHold == Spec => []RecountsNeedFaults
<1>1. ContestInvariant => RecountsNeedFaults
  <2> SUFFICES ASSUME ContestInvariant, NEW n \in Newcomers
               PROVE  Cardinality(CreditsOf(n)) <= 1 + faults
    BY DEF RecountsNeedFaults
  <2>1. /\ CountsArePaid(n) /\ faults \in Nat
        /\ CreditsOf(n) \in SUBSET CountsOf(n)
    BY ConstantsAssumption DEF ContestInvariant, TypeOK, CountsOf
  <2>2. /\ IsFiniteSet(CountsOf(n))
        /\ Cardinality(CountsOf(n)) + (IF Awaited(n) THEN 1 ELSE 0) <= 1 + faults
    BY <2>1 DEF CountsArePaid
  <2>3. /\ IsFiniteSet(CreditsOf(n))
        /\ Cardinality(CreditsOf(n)) <= Cardinality(CountsOf(n))
    BY <2>1, <2>2, FS_Subset
  <2>4. Cardinality(CreditsOf(n)) \in Nat /\ Cardinality(CountsOf(n)) \in Nat
    BY <2>2, <2>3, FS_CardinalityType
  <2>5. QED
    BY <2>1, <2>2, <2>3, <2>4
<1>2. QED
  BY InvariantHolds, <1>1, PTL

\* No referral is lost: when the event of a newcomer is acknowledged, the referral
\* on record since it was published is counted, or its referrer is gone.
THEOREM NoReferralIsLost == Spec => []SettledReferralsAreCounted
<1>1. ContestInvariant => SettledReferralsAreCounted
  <2> SUFFICES ASSUME ContestInvariant,
                      NEW n \in published \ subscription, NEW r \in due[n]
               PROVE  Done(n, r)
    BY DEF SettledReferralsAreCounted
  <2>1. n \in Newcomers
    BY DEF ContestInvariant, TypeOK
  <2>2. DueIsFollowed(n, r)
    BY <2>1 DEF ContestInvariant
  <2>3. QED
    BY <2>2 DEF DueIsFollowed
<1>2. QED
  BY InvariantHolds, <1>1, PTL

\* The worker implements the contest's ledger: concurrent, dying and repeated
\* handlers change the participants' table only as the ledger allows.
THEOREM WorkerImplementsLedger == Spec => ImplementsLedger
<1>1. Init => Ledger!LedgerInit
  BY DEF Init, Ledger!LedgerInit
<1>2. ContestInvariant /\ [Next]_vars => [Ledger!LedgerNext]_(Ledger!ledgerVars)
  <2> SUFFICES ASSUME ContestInvariant, [Next]_vars
               PROVE  [Ledger!LedgerNext]_(Ledger!ledgerVars)
    OBVIOUS
  <2>0. TypeOK /\ \A w \in Workers : HandlerKnows(w)
    BY DEF ContestInvariant
  <2>1. ASSUME NEW w \in Workers, IncrementParticipantCount(w)
        PROVE  Ledger!LedgerNext
    <3>1. Target(w) \in Participants
      BY <2>0, <2>1, TargetType DEF IncrementParticipantCount
    <3>2. Ledger!Count(Target(w))
      BY <2>1 DEF IncrementParticipantCount, Ledger!Count
    <3>3. QED
      BY <3>1, <3>2 DEF Ledger!LedgerNext
  <2>2. ASSUME NEW w \in Workers, SetParticipantAsEligible(w)
        PROVE  [Ledger!LedgerNext]_(Ledger!ledgerVars)
    <3>1. Target(w) \in Participants /\ referrals[Target(w)] >= Threshold
      BY <2>0, <2>2, TargetType DEF SetParticipantAsEligible, HandlerKnows
    <3>2. CASE Target(w) \in eligible
      BY <2>2, <3>2 DEF SetParticipantAsEligible, Ledger!ledgerVars
    <3>3. CASE Target(w) \notin eligible
      <4>1. Ledger!Grant(Target(w))
        BY <2>2, <3>1, <3>3 DEF SetParticipantAsEligible, Ledger!Grant
      <4>2. QED
        BY <3>1, <4>1 DEF Ledger!LedgerNext
    <3>4. QED
      BY <3>2, <3>3
  <2>3. CASE Environment \/ UNCHANGED vars \/ \E w \in Workers :
              \/ \E n \in Newcomers : Deliver(w, n)
              \/ GetFirstVisit(w) \/ GetReferrerAndContest(w) \/ IncrementFails(w)
              \/ CheckParticipant(w) \/ Ack(w) \/ Crash(w)
    <3>1. UNCHANGED <<referrals, eligible>>
      BY <2>3 DEF Environment, vars, Tick, Publish, Republish, RecordVisit, RemoveUser,
                  Deliver, GetFirstVisit, GetReferrerAndContest, IncrementFails,
                  CheckParticipant, Ack, Crash, tables
    <3>2. QED
      BY <3>1 DEF Ledger!ledgerVars
  <2>4. QED
    BY <2>1, <2>2, <2>3 DEF Next, HandlerStep
<1>3. QED
  BY <1>1, <1>2, InvariantHolds, PTL DEF Spec, ImplementsLedger, Ledger!LedgerSpec
=============================================================================
