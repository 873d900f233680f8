--------------------------- MODULE ReferralContest ---------------------------
(***************************************************************************)
(* The monthly referral contest: the background worker                     *)
(* updateReferralContest consumes user-registered events from Pub/Sub, and *)
(* for each newcomer whose first visit names a referrer it adds one to the *)
(* referrer's row of referral_participants in the ongoing contest, and     *)
(* marks the row eligible once it holds enough referrals.                  *)
(*                                                                         *)
(* Several instances of the handler run at once, each suspended at every   *)
(* await; an instance may die at any point, Pub/Sub then delivers the      *)
(* event again, and may also deliver an event twice at the same time or    *)
(* the producer may publish it again.  Every statement the handler sends   *)
(* to MySQL is atomic; nothing makes two of them a transaction.            *)
(***************************************************************************)
EXTENDS Naturals, FiniteSets

CONSTANTS Newcomers,      \* users whose registration is announced
          Referrers,      \* users a visit may name as referrer
          Contests,       \* rows of referral_contests
          StartAt,        \* start_at of each contest
          Apps,           \* the values of the app header: extension, web
          Workers,        \* handler instances of the background service
          Threshold,      \* 5 in the code
          NoOne,          \* null where a user, a contest or a message may be
          MaxTime,        \* bound on the clock
          MaxFaults       \* bound on crashes, duplicates and republications

ASSUME ConstantsAssumption ==
    /\ StartAt \in [Contests -> Nat]
    /\ Threshold \in Nat \ {0}
    /\ MaxTime \in Nat
    /\ MaxFaults \in Nat
    /\ NoOne \notin Newcomers \cup Referrers \cup Contests

Participants == Contests \X Referrers

VARIABLES
    now,          \* the clock the handlers read
    users,        \* the referrers that have a row in table users
    visits,       \* the rows of table visits of each newcomer
    published,    \* the newcomers whose event was published
    subscription, \* the newcomers whose event awaits its acknowledgement
    deliveries,   \* how often the event of each newcomer was delivered
    handler,      \* the local state of each handler instance
    referrals,    \* column referrals of referral_participants; 0: no row
    eligible,     \* the participants whose column eligible is true
    credits,      \* history: the deliveries that incremented each row
    due,          \* history: the referrer on record since the event went out,
                  \* if a contest was on
    faults        \* how many faults have happened

tables  == <<users, visits, referrals, eligible>>
pubsub  == <<published, subscription, deliveries>>
history == <<credits, due>>
vars    == <<now, tables, pubsub, handler, history, faults>>

Steps == {"idle", "visit", "referrer", "increment", "check", "set", "ack"}

Idle == [step |-> "idle", msg |-> NoOne, attempt |-> 0,
         referrer |-> NoOne, contest |-> NoOne]

\* An instance that was handed the event of n, in the k-th delivery of it.
Handed(n, k) == [step |-> "visit", msg |-> n, attempt |-> k,
                 referrer |-> NoOne, contest |-> NoOne]

\* The participant a handler works for, once it has read both halves.
Target(w) == <<handler[w].contest, handler[w].referrer>>

\* The delivery a handler works on.
Delivery(w) == <<handler[w].msg, handler[w].attempt>>

Goto(w, s) == handler' = [handler EXCEPT ![w].step = s]

-----------------------------------------------------------------------------
(* The queries of the models.                                              *)

VisitRows == [app : Apps, first : 0..MaxTime, referral : Referrers \cup {NoOne}]

\* visit.getFirstVisitAndReferral: the referral of a row with the oldest
\* first_visit.  No row, or a null column: no referrer.  ORDER BY ... LIMIT 1
\* may return either of two rows of equal age.
FirstVisitReferrals(n) ==
    IF visits[n] = {} THEN {NoOne}
    ELSE {r.referral : r \in {s \in visits[n] :
                                \A t \in visits[n] : s.first <= t.first}}

\* The referrer that any reading of the visits finds, if they all find one.
OnRecord(n) == {r \in Referrers : FirstVisitReferrals(n) = {r}}

\* contest.getOngoingContest: the contest that started last.  The query does
\* not look at end_at.
OngoingContests ==
    LET started == {c \in Contests : StartAt[c] <= now}
    IN  IF started = {} THEN {NoOne}
        ELSE {c \in started : \A d \in started : StartAt[d] <= StartAt[c]}

-----------------------------------------------------------------------------
(* The environment of the worker.                                          *)

\* Time passes.
Tick == /\ now < MaxTime
        /\ now' = now + 1
        /\ UNCHANGED <<tables, pubsub, handler, history, faults>>

\* boot.updateUserVisit: the row of a newcomer and an app is written without
\* being awaited by the request, with a referrer that exists and a clock read
\* earlier; a second write changes neither first_visit nor referral.
RecordVisit(n, app, first, referral) ==
    /\ first <= now
    /\ \A row \in visits[n] : row.app # app
    /\ referral \in users \cup {NoOne}
    /\ visits' = [visits EXCEPT ![n] =
                    @ \cup {[app |-> app, first |-> first, referral |-> referral]}]
    /\ due' = [due EXCEPT ![n] = @ \cap OnRecord(n)']
    /\ UNCHANGED <<now, users, pubsub, handler, referrals, eligible, credits, faults>>

\* The registration of n is announced.
Publish(n) ==
    /\ n \notin published
    /\ published' = published \cup {n}
    /\ subscription' = subscription \cup {n}
    /\ due' = [due EXCEPT ![n] = IF OngoingContests = {NoOne} THEN {} ELSE OnRecord(n)]
    /\ UNCHANGED <<now, tables, deliveries, handler, credits, faults>>

\* The producer (the cdc worker, itself fed at least once) publishes again.
Republish(n) ==
    /\ n \in published
    /\ faults < MaxFaults
    /\ faults' = faults + 1
    /\ subscription' = subscription \cup {n}
    /\ UNCHANGED <<now, tables, published, deliveries, handler, history>>

\* A user is deleted, which the foreign key of referral_participants allows
\* only when the user takes part in no contest.
RemoveUser(u) ==
    /\ u \in users
    /\ \A c \in Contests : referrals[<<c, u>>] = 0
    /\ users' = users \ {u}
    /\ UNCHANGED <<now, visits, pubsub, handler, referrals, eligible, history, faults>>

-----------------------------------------------------------------------------
(* The handler.                                                            *)

\* A faulty variant: the event is acknowledged when it is delivered.
DeliverAcknowledged(w, n) ==
    /\ handler[w].step = "idle"
    /\ n \in subscription
    /\ deliveries' = [deliveries EXCEPT ![n] = @ + 1]
    /\ subscription' = subscription \ {n}
    /\ handler' = [handler EXCEPT ![w] = Handed(n, deliveries[n] + 1)]
    /\ UNCHANGED <<now, tables, published, history, faults>>

\* Pub/Sub pushes an event to an instance of the service.  Pushing an event
\* that another instance is still working on (its deadline has passed) counts
\* as a fault.
Deliver(w, n) ==
    /\ handler[w].step = "idle"
    /\ n \in subscription
    /\ \/ /\ \A v \in Workers : handler[v].msg # n
          /\ UNCHANGED faults
       \/ /\ \E v \in Workers : handler[v].msg = n
          /\ faults < MaxFaults
          /\ faults' = faults + 1
    /\ deliveries' = [deliveries EXCEPT ![n] = @ + 1]
    /\ handler' = [handler EXCEPT ![w] = Handed(n, deliveries[n] + 1)]
    /\ UNCHANGED <<now, tables, published, subscription, history>>

\* Read the first visit of the newcomer; without a referral there is nothing
\* to do.
GetFirstVisit(w) ==
    /\ handler[w].step = "visit"
    /\ \E r \in FirstVisitReferrals(handler[w].msg) :
         handler' = [handler EXCEPT ![w].referrer = r,
                                    ![w].step = IF r = NoOne THEN "ack" ELSE "referrer"]
    /\ UNCHANGED <<now, tables, pubsub, history, faults>>

\* Read the referrer and the ongoing contest; a missing one ends the work.
\* The two queries run side by side; that the user is gone when the contest is
\* read cannot be told from its going just after, before the increment.
GetReferrerAndContest(w) ==
    /\ handler[w].step = "referrer"
    /\ \E c \in OngoingContests :
         IF handler[w].referrer \in users /\ c # NoOne
         THEN handler' = [handler EXCEPT ![w].contest = c, ![w].step = "increment"]
         ELSE Goto(w, "ack")
    /\ UNCHANGED <<now, tables, pubsub, history, faults>>

\* A faulty variant: ... ON DUPLICATE KEY UPDATE referrals = VALUES(referrals).
IncrementOverwrites(w) ==
    /\ handler[w].step = "increment"
    /\ handler[w].referrer \in users
    /\ referrals' = [referrals EXCEPT ![Target(w)] = 1]
    /\ credits' = [credits EXCEPT ![Target(w)] = @ \cup {Delivery(w)}]
    /\ Goto(w, "check")
    /\ UNCHANGED <<now, users, visits, eligible, pubsub, due, faults>>

\* A faulty variant: ... referrals = referrals + 1, eligible = VALUES(eligible).
IncrementResetsEligible(w) ==
    /\ handler[w].step = "increment"
    /\ handler[w].referrer \in users
    /\ referrals' = [referrals EXCEPT ![Target(w)] = @ + 1]
    /\ eligible' = eligible \ {Target(w)}
    /\ credits' = [credits EXCEPT ![Target(w)] = @ \cup {Delivery(w)}]
    /\ Goto(w, "check")
    /\ UNCHANGED <<now, users, visits, pubsub, due, faults>>

\* INSERT ... ON DUPLICATE KEY UPDATE referrals = referrals + 1.
IncrementParticipantCount(w) ==
    /\ handler[w].step = "increment"
    /\ handler[w].referrer \in users
    /\ referrals' = [referrals EXCEPT ![Target(w)] = @ + 1]
    /\ credits' = [credits EXCEPT ![Target(w)] = @ \cup {Delivery(w)}]
    /\ Goto(w, "check")
    /\ UNCHANGED <<now, users, visits, eligible, pubsub, due, faults>>

\* A faulty variant: the threshold is off by one.
CheckOneShort(w) ==
    /\ handler[w].step = "check"
    /\ Goto(w, IF referrals[Target(w)] + 1 >= Threshold /\ Target(w) \notin eligible
               THEN "set" ELSE "ack")
    /\ UNCHANGED <<now, tables, pubsub, history, faults>>

\* A faulty variant: only the referral that reaches the threshold is looked at.
CheckExactThreshold(w) ==
    /\ handler[w].step = "check"
    /\ Goto(w, IF referrals[Target(w)] = Threshold THEN "set" ELSE "ack")
    /\ UNCHANGED <<now, tables, pubsub, history, faults>>

\* Read the row back and decide.
CheckParticipant(w) ==
    /\ handler[w].step = "check"
    /\ Goto(w, IF referrals[Target(w)] >= Threshold /\ Target(w) \notin eligible
               THEN "set" ELSE "ack")
    /\ UNCHANGED <<now, tables, pubsub, history, faults>>

\* UPDATE ... SET eligible = true.
SetParticipantAsEligible(w) ==
    /\ handler[w].step = "set"
    /\ eligible' = eligible \cup {Target(w)}
    /\ Goto(w, "ack")
    /\ UNCHANGED <<now, users, visits, referrals, pubsub, history, faults>>

\* A faulty variant: the service forgets to set the status, and Koa answers 404.
AckNotFound(w) ==
    /\ handler[w].step = "ack"
    /\ handler' = [handler EXCEPT ![w] = Idle]
    /\ UNCHANGED <<now, tables, pubsub, history, faults>>

\* The handler returns, the service answers 204 and Pub/Sub drops the event.
Ack(w) ==
    /\ handler[w].step = "ack"
    /\ subscription' = subscription \ {handler[w].msg}
    /\ handler' = [handler EXCEPT ![w] = Idle]
    /\ UNCHANGED <<now, tables, published, deliveries, history, faults>>

\* The increment violates the foreign key: the error is rethrown, the service
\* answers 500 and the event stays in the subscription.
IncrementFails(w) ==
    /\ handler[w].step = "increment"
    /\ handler[w].referrer \notin users
    /\ handler' = [handler EXCEPT ![w] = Idle]
    /\ UNCHANGED <<now, tables, pubsub, history, faults>>

\* A faulty variant: the error is logged but not thrown again.
CrashSwallowed(w) ==
    /\ handler[w].step # "idle"
    /\ faults < MaxFaults
    /\ faults' = faults + 1
    /\ subscription' = subscription \ {handler[w].msg}
    /\ handler' = [handler EXCEPT ![w] = Idle]
    /\ UNCHANGED <<now, tables, published, deliveries, history>>

\* The instance dies, a query fails, or the answer is lost: nothing that was
\* written is undone and the event stays in the subscription.
Crash(w) ==
    /\ handler[w].step # "idle"
    /\ faults < MaxFaults
    /\ faults' = faults + 1
    /\ handler' = [handler EXCEPT ![w] = Idle]
    /\ UNCHANGED <<now, tables, pubsub, history>>

-----------------------------------------------------------------------------
Init ==
    /\ now = 0
    /\ users = Referrers
    /\ visits = [n \in Newcomers |-> {}]
    /\ published = {}
    /\ subscription = {}
    /\ deliveries = [n \in Newcomers |-> 0]
    /\ handler = [w \in Workers |-> Idle]
    /\ referrals = [p \in Participants |-> 0]
    /\ eligible = {}
    /\ credits = [p \in Participants |-> {}]
    /\ due = [n \in Newcomers |-> {}]
    /\ faults = 0

HandlerStep(w) ==
    \/ GetFirstVisit(w)
    \/ GetReferrerAndContest(w)
    \/ IncrementParticipantCount(w)
    \/ IncrementFails(w)
    \/ CheckParticipant(w)
    \/ SetParticipantAsEligible(w)
    \/ Ack(w)

Environment ==
    \/ Tick
    \/ \E n \in Newcomers :
         \/ Publish(n)
         \/ Republish(n)
         \/ \E row \in VisitRows : RecordVisit(n, row.app, row.first, row.referral)
    \/ \E u \in Referrers : RemoveUser(u)

Next ==
    \/ Environment
    \/ \E w \in Workers :
         \/ \E n \in Newcomers : Deliver(w, n)
         \/ HandlerStep(w)
         \/ Crash(w)

Spec == Init /\ [][Next]_vars

\* Pub/Sub keeps pushing an event until it is acknowledged, and a handler that
\* does not die gets its answers from MySQL.  Nothing is assumed of users, of
\* the clock or of the faults.
Fairness ==
    /\ \A n \in Newcomers : WF_vars(\E w \in Workers : Deliver(w, n))
    /\ \A w \in Workers : WF_vars(HandlerStep(w))

FairSpec == Spec /\ Fairness

-----------------------------------------------------------------------------
(* Properties.                                                             *)

TypeOK ==
    /\ now \in 0..MaxTime
    /\ users \in SUBSET Referrers
    /\ visits \in [Newcomers -> SUBSET VisitRows]
    /\ published \in SUBSET Newcomers
    /\ subscription \in SUBSET published
    /\ deliveries \in [Newcomers -> Nat]
    /\ handler \in [Workers -> [step : Steps, msg : Newcomers \cup {NoOne},
                                attempt : Nat,
                                referrer : Referrers \cup {NoOne},
                                contest : Contests \cup {NoOne}]]
    /\ referrals \in [Participants -> Nat]
    /\ eligible \in SUBSET Participants
    /\ credits \in [Participants -> SUBSET (Newcomers \X Nat)]
    /\ due \in [Newcomers -> SUBSET Referrers]
    /\ faults \in 0..MaxFaults

\* A participant who is eligible holds at least Threshold referrals, although
\* the test and the update are separate statements and other handlers run
\* between them.
EligibleHasThreshold == \A p \in eligible : referrals[p] >= Threshold

\* The rows add up: each row holds exactly as many referrals as deliveries
\* incremented it, and no delivery incremented two rows (two contests, or two
\* referrers).
RowsCountDeliveries ==
    /\ \A p \in Participants : referrals[p] = Cardinality(credits[p])
    /\ \A p, q \in Participants : p # q => credits[p] \cap credits[q] = {}

\* What an instance of the handler knows: it works on a delivery of its own,
\* which has not been counted before the increment; when it decides to set
\* eligible the row holds enough referrals.
HandlerKnows(w) ==
    /\ handler[w].step # "idle" =>
         /\ handler[w].msg \in Newcomers
         /\ handler[w].attempt <= deliveries[handler[w].msg]
         /\ \A v \in Workers \ {w} :
              handler[v].step # "idle" => Delivery(v) # Delivery(w)
    /\ handler[w].step \in {"referrer", "increment", "check", "set"} =>
         handler[w].referrer \in Referrers
    /\ handler[w].step \in {"increment", "check", "set"} =>
         handler[w].contest \in Contests
    /\ handler[w].step \in {"visit", "referrer", "increment"} =>
         \A p \in Participants : Delivery(w) \notin credits[p]
    /\ handler[w].step = "set" => referrals[Target(w)] >= Threshold

\* Only deliveries that took place are counted.
CreditsAreDeliveries ==
    \A p \in Participants : \A d \in credits[p] :
        d \in Newcomers \X Nat /\ d[2] <= deliveries[d[1]]

\* The newcomer is counted, in some contest, for the referrer r.
CountedFor(n, r) ==
    \E c \in Contests : \E d \in credits[<<c, r>>] : d[1] = n

\* The deliveries that counted the newcomer n, wherever they did.
CreditsOf(n) == {d \in UNION {credits[p] : p \in Participants} : d[1] = n}

\* An instance works on the event of n and has not counted it yet.
Counting(w, n) ==
    handler[w].msg = n /\ handler[w].step \in {"visit", "referrer", "increment"}

\* The deliveries of n that were counted, or may still be.
CountsOf(n) ==
    CreditsOf(n) \cup {Delivery(w) : w \in {v \in Workers : Counting(v, n)}}

\* The event of n waits for a delivery that takes no fault.
Awaited(n) ==
    /\ n \in subscription
    /\ \A w \in Workers : handler[w].step = "idle" \/ handler[w].msg # n

\* Whatever counts n, has counted it or will, was paid for: the first delivery
\* is free, every other one follows a fault.
CountsArePaid(n) ==
    /\ IsFiniteSet(CountsOf(n))
    /\ Cardinality(CountsOf(n)) + (IF Awaited(n) THEN 1 ELSE 0) <= 1 + faults
    /\ n \notin published => CountsOf(n) = {}

\* The referral of n by r needs no more work.
Done(n, r) == CountedFor(n, r) \/ r \notin users

\* An instance that works on the event of n found the referrer r, and is past
\* the increment only when the referral is counted.
Follows(w, n, r) ==
    handler[w].msg = n =>
        /\ handler[w].step \in {"referrer", "increment"} => handler[w].referrer = r
        /\ handler[w].step \in {"check", "set", "ack"} => Done(n, r)

\* A due referral is the one every instance finds, in some contest, and the event
\* stays until it is counted.
DueIsFollowed(n, r) ==
    /\ n \in published
    /\ FirstVisitReferrals(n) = {r}
    /\ \E c \in Contests : StartAt[c] <= now
    /\ n \notin subscription => Done(n, r)
    /\ \A w \in Workers : Follows(w, n, r)

\* The inductive invariant behind the safety properties: an instance that is
\* about to increment holds a delivery no row knows yet, so the rows and the
\* deliveries grow together; and a row never shrinks, so what an instance
\* read before it decided to set eligible is still a lower bound.  Counts are
\* bounded by faults, and due referrals are followed to the end.
ContestInvariant ==
    /\ TypeOK
    /\ EligibleHasThreshold
    /\ \A w \in Workers : HandlerKnows(w)
    /\ CreditsAreDeliveries
    /\ \A p \in Participants : IsFiniteSet(credits[p])
    /\ RowsCountDeliveries
    /\ \A w \in Workers : handler[w].step # "idle" => handler[w].msg \in published
    /\ \A n \in Newcomers : CountsArePaid(n)
    /\ \A n \in Newcomers : \A r \in due[n] : DueIsFollowed(n, r)

\* A newcomer is counted twice only where an instance died, or the event was
\* delivered or published twice: each extra count takes a fault of its own.
RecountsNeedFaults == \A n \in Newcomers : Cardinality(CreditsOf(n)) <= 1 + faults

\* No referral is lost: once the event of a newcomer has been acknowledged, a
\* referral that has been on record since the event went out is counted, or the
\* referrer is gone.  (A row written later with an older first_visit changes
\* what is on record.)
SettledReferralsAreCounted ==
    \A n \in published \ subscription : \A r \in due[n] : Done(n, r)

\* The handlers implement the ledger of the contest.
Ledger == INSTANCE ContestLedger WITH tally <- referrals, granted <- eligible

\* The worker keeps the contest's promise: every change of the participants'
\* table is one referral counted, or one eligibility granted on merit.
ImplementsLedger == Ledger!LedgerSpec

\* Two instances work on the event of n, or one does and the other has already
\* acknowledged it.
InTwoHands(n) ==
    \E w \in Workers : /\ handler[w].msg = n
                       /\ n \notin subscription \/ \E v \in Workers \ {w} : handler[v].msg = n

\* Whoever holds enough referrals once the newcomer n has been counted becomes
\* eligible, also when the instance dies between the increment and the update: the
\* delivery that replaces the dead one reads the visits and the contest again.
\* Exceptions: what it then finds is another contest, or a visit written meanwhile
\* that names another referrer, or none; and nothing replaces it if the event was
\* delivered twice and the other instance acknowledges it.
EnoughReferralsBecomeEligible ==
    \A p \in Participants, n \in Newcomers :
        (\E w \in Workers : /\ handler[w].step = "check" /\ handler[w].msg = n
                            /\ Target(w) = p /\ referrals[p] >= Threshold)
            ~> \/ p \in eligible
               \/ OngoingContests # {p[1]}
               \/ p[2] \notin OnRecord(n)
               \/ InTwoHands(n)

\* A referral on record when the event goes out is counted in the end, if it
\* stays on record.
DueReferralsGetCounted ==
    \A n \in Newcomers, r \in Referrers :
        r \in due[n] ~> (Done(n, r) \/ r \notin due[n])
=============================================================================
