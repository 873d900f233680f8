----------------------------- MODULE AlertsCache -----------------------------
(***************************************************************************)
(* The alerts of a user, kept by the API and cached in Redis for a month.  *)
(* Boot serves them from the cache, and fills an empty entry from the API. *)
(* The API announces every change, and the worker updateAlerts stores it.  *)
(*                                                                         *)
(* Boot stores under the user it serves, and asks the API with the cookies *)
(* of the request.  A fill and the worker are not ordered, and neither are *)
(* two announcements.                                                      *)
(***************************************************************************)
EXTENDS Naturals, FiniteSets

CONSTANTS Users,
          Senders,       \* for each user boot may serve: of whom the session
                         \* cookie of the request may be, or NoOne
          Requests,      \* boots under way at once
          NoOne,         \* no session, no user
          Empty,         \* no entry in the cache
          Nothing,       \* the entry null
          MaxVersion,    \* bound on the changes of a user's alerts
          MaxFaults      \* bound on failures of the worker

ASSUME AlertsAssumption ==
    /\ Senders \in [Users -> SUBSET (Users \cup {NoOne})]
    /\ NoOne \notin Users
    /\ Empty # Nothing
    /\ MaxVersion \in Nat
    /\ MaxFaults \in Nat

VARIABLES
    alerts,         \* the version of each user's alerts at the API
    announced,      \* announcements in the subscription alerts-updated-redis
    cache,          \* Redis: alerts:<user>
    request,        \* the local state of each boot
    handled,        \* history: the newest version the worker has stored
    overwritten,    \* history: users whose entry went back to an older version
    mixed,          \* history: users served with somebody else's session cookie
    faults

history == <<handled, overwritten, mixed, faults>>
vars    == <<alerts, announced, cache, request, history>>

\* A version of a user's alerts.
Alerts == [of : Users, version : 0..MaxVersion]

AlertsOf(u) == [of |-> u, version |-> alerts[u]]

Idle == [step |-> "idle", user |-> NoOne, sender |-> NoOne, got |-> Empty]

Serving(q) == request[q].step # "idle"

-----------------------------------------------------------------------------
(* The API.                                                                *)

\* The alerts of a user change.
Change(u) ==
    /\ alerts[u] < MaxVersion
    /\ alerts' = [alerts EXCEPT ![u] = @ + 1]
    /\ announced' = announced \cup {[of |-> u, version |-> alerts[u] + 1]}
    /\ UNCHANGED <<cache, request, history>>

\* What the API may answer to a request with the session of c: the alerts of c,
\* and null where there is no session.
Replies(c) == IF c = NoOne THEN {Nothing} ELSE {AlertsOf(c)}

-----------------------------------------------------------------------------
(* The cache.                                                              *)

\* A faulty variant: the key lacks the user's id.
SetRedisAlertsOfAll(u, value) == cache' = [v \in Users |-> value]

\* setRedisAlerts
SetRedisAlerts(u, value) == cache' = [cache EXCEPT ![u] = value]

\* The entry expires, or Redis loses it.
Expire(u) ==
    /\ cache[u] # Empty
    /\ cache' = [cache EXCEPT ![u] = Empty]
    /\ UNCHANGED <<alerts, announced, request, history>>

-----------------------------------------------------------------------------
(* getAlerts.                                                              *)

\* Boot serves user u, by its session or its refresh token; the cookie of the
\* session may be missing, or another user's.
Arrive(q, u, c) ==
    /\ ~Serving(q)
    /\ c \in Senders[u]
    /\ request' = [request EXCEPT ![q] = [Idle EXCEPT !.step = "get", !.user = u, !.sender = c]]
    /\ mixed' = IF c \in {u, NoOne} THEN mixed ELSE mixed \cup {u}
    /\ UNCHANGED <<alerts, announced, cache, handled, overwritten, faults>>

\* An entry is answered; without one the API is asked.
GetCache(q) ==
    /\ request[q].step = "get"
    /\ request' = [request EXCEPT ![q] = IF cache[request[q].user] = Empty
                                         THEN [@ EXCEPT !.step = "ask"] ELSE Idle]
    /\ UNCHANGED <<alerts, announced, cache, history>>

\* getAlertsFromAPI
GetAlertsFromAPI(q) ==
    /\ request[q].step = "ask"
    /\ \E reply \in Replies(request[q].sender) :
         request' = [request EXCEPT ![q].step = "store", ![q].got = reply]
    /\ UNCHANGED <<alerts, announced, cache, history>>

\* The reply is stored, and answered.
StoreAlerts(q) ==
    LET u == request[q].user
        value == request[q].got
    IN  /\ request[q].step = "store"
        /\ SetRedisAlerts(u, value)
        /\ overwritten' = IF value # Nothing /\ value.of = u /\ value.version < handled[u]
                          THEN overwritten \cup {u} ELSE overwritten
        /\ request' = [request EXCEPT ![q] = Idle]
        /\ UNCHANGED <<alerts, announced, handled, mixed, faults>>

\* The API or Redis does not answer, or the instance dies: the defaults are
\* answered, or nothing, and nothing is stored.
GiveUp(q) ==
    /\ Serving(q)
    /\ request' = [request EXCEPT ![q] = Idle]
    /\ UNCHANGED <<alerts, announced, cache, history>>

-----------------------------------------------------------------------------
(* The worker updateAlerts.                                                *)

\* A faulty variant: an entry that is there is left as it is.
UpdateAlertsOfMissing(m) ==
    /\ m \in announced
    /\ cache' = [cache EXCEPT ![m.of] = IF @ = Empty THEN m ELSE @]
    /\ handled' = [handled EXCEPT ![m.of] = IF @ < m.version THEN m.version ELSE @]
    /\ announced' = announced \ {m}
    /\ UNCHANGED <<alerts, request, overwritten, mixed, faults>>

\* The worker stores what an announcement says and acknowledges it, or
\* (a fault) the acknowledgement is lost and the announcement comes again.
UpdateAlerts(m) ==
    /\ m \in announced
    /\ SetRedisAlerts(m.of, m)
    /\ handled' = [handled EXCEPT ![m.of] = IF @ < m.version THEN m.version ELSE @]
    /\ overwritten' = IF m.version < handled[m.of] THEN overwritten \cup {m.of}
                      ELSE overwritten
    /\ \/ announced' = announced \ {m} /\ UNCHANGED faults
       \/ UNCHANGED announced /\ faults < MaxFaults /\ faults' = faults + 1
    /\ UNCHANGED <<alerts, request, mixed>>

\* Redis does not answer: the error is thrown again and the announcement stays.
UpdateAlertsFails(m) ==
    /\ m \in announced
    /\ faults < MaxFaults
    /\ faults' = faults + 1
    /\ UNCHANGED <<alerts, announced, cache, request, handled, overwritten, mixed>>

-----------------------------------------------------------------------------
Init ==
    /\ alerts = [u \in Users |-> 0]
    /\ announced = {}
    /\ cache = [u \in Users |-> Empty]
    /\ request = [q \in Requests |-> Idle]
    /\ handled = [u \in Users |-> 0]
    /\ overwritten = {}
    /\ mixed = {}
    /\ faults = 0

RequestStep(q) ==
    \/ GetCache(q)
    \/ GetAlertsFromAPI(q)
    \/ StoreAlerts(q)
    \/ GiveUp(q)

Next ==
    \/ \E u \in Users :
         \/ Change(u)
         \/ Expire(u)
         \/ \E q \in Requests, c \in Senders[u] : Arrive(q, u, c)
    \/ \E q \in Requests : RequestStep(q)
    \/ \E m \in announced : UpdateAlerts(m) \/ UpdateAlertsFails(m)

Spec == Init /\ [][Next]_vars

-----------------------------------------------------------------------------
(* Properties.                                                             *)

TypeOK ==
    /\ alerts \in [Users -> 0..MaxVersion]
    /\ announced \in SUBSET Alerts
    /\ cache \in [Users -> Alerts \cup {Empty, Nothing}]
    /\ request \in [Requests ->
          [step : {"idle", "get", "ask", "store"}, user : Users \cup {NoOne},
           sender : Users \cup {NoOne}, got : Alerts \cup {Empty, Nothing}]]
    /\ handled \in [Users -> 0..MaxVersion]
    /\ overwritten \in SUBSET Users
    /\ mixed \in SUBSET Users
    /\ faults \in 0..MaxFaults

\* Alerts are cached.  (Not so the null that an expired session leaves, and that the
\* defaults are answered for until it goes.)
\* Alerts are cached.  (Not so the null that an expired session leaves, and that the
\* defaults are answered for until it goes.)
Cached(u) == cache[u] \notin {Empty, Nothing}

\* Nobody is served the alerts of somebody else, unless boot has served him by
\* his refresh token and asked the API with the session cookie of another user.
ForeignAlertsNeedMixups ==
    \A u \in Users : Cached(u) => cache[u].of = u \/ u \in mixed

\* No announcement of u is left, so nothing will put the entry right.
Settled(u) == \A m \in announced : m.of # u

\* Whatever fails on the way, an entry of u's alerts that stays (for a month) is
\* the current one, unless a boot that had asked the API before a change stored
\* its reply after the worker, or the worker got two announcements in the wrong
\* order or one of them twice.
StaleAlertsNeedOverlaps ==
    \A u \in Users :
        (Settled(u) /\ Cached(u) /\ cache[u].of = u)
            => cache[u].version = alerts[u] \/ u \in overwritten

\* What a boot knows: the cookie it asks with is of the user it serves, or the user
\* is mixed up; a reply is of the cookie's user, and was current once.
RequestKnows(q) ==
    LET r == request[q]
    IN  /\ Serving(q) => /\ r.user \in Users
                         /\ r.sender \in {r.user, NoOne} \/ r.user \in mixed
        /\ r.step = "store" => \/ r.got = Nothing
                               \/ /\ r.got \in Alerts
                                  /\ r.got.of = r.sender
                                  /\ r.got.version <= alerts[r.got.of]

\* The latest version has been stored by the worker, or is announced.
LatestIsAnnounced(u) ==
    /\ handled[u] <= alerts[u]
    /\ handled[u] = alerts[u] \/ AlertsOf(u) \in announced

\* An entry is at least as new as what the worker has stored, or the worker's
\* version was overwritten.
EntryIsExplained(u) ==
    Cached(u) => /\ cache[u].of = u \/ u \in mixed
                 /\ cache[u].of = u => /\ cache[u].version <= alerts[u]
                                       /\ handled[u] <= cache[u].version \/ u \in overwritten

\* The inductive invariant behind the two properties.
AlertsInvariant ==
    /\ TypeOK
    /\ \A q \in Requests : RequestKnows(q)
    /\ \A m \in announced : m.version <= alerts[m.of]
    /\ \A u \in Users : LatestIsAnnounced(u) /\ EntryIsExplained(u)
=============================================================================
