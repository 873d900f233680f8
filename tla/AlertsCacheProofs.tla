-------------------------- MODULE AlertsCacheProofs --------------------------
(***************************************************************************)
(* What is proved of AlertsCache, for all users, boots and bounds.         *)
(***************************************************************************)
EXTENDS AlertsCache, TLAPS

\* A reply of the API is null or the current alerts of the cookie's user.
LEMMA ReplyType ==
    ASSUME TypeOK, NEW c \in Users \cup {NoOne}, NEW reply \in Replies(c)
    PROVE  \/ reply = Nothing
           \/ /\ reply \in Alerts
              /\ reply.of = c
              /\ reply.version = alerts[c]
BY DEF TypeOK, Replies, AlertsOf, Alerts

\* The invariant holds initially: nothing is cached, announced or under way.
LEMMA InvariantInit == Init => AlertsInvariant
<1> SUFFICES ASSUME Init
             PROVE  AlertsInvariant
  OBVIOUS
<1>1. TypeOK
  BY AlertsAssumption DEF Init, TypeOK, Idle
<1>2. \A q \in Requests : RequestKnows(q)
  BY DEF Init, RequestKnows, Serving, Idle
<1>3. \A u \in Users : LatestIsAnnounced(u) /\ EntryIsExplained(u)
  BY DEF Init, LatestIsAnnounced, EntryIsExplained, Cached
<1>4. QED
  BY <1>1, <1>2, <1>3 DEF AlertsInvariant, Init

\* Every step keeps the types.
LEMMA TypePreserved ==
    ASSUME AlertsInvariant, [Next]_vars
    PROVE  TypeOK'
<1>0. TypeOK /\ \A q \in Requests : RequestKnows(q)
  BY DEF AlertsInvariant
<1> USE AlertsAssumption
<1>1. ASSUME NEW u \in Users, Change(u)
      PROVE  TypeOK'
  BY <1>0, <1>1 DEF TypeOK, Change, Alerts, history
<1>2. ASSUME NEW u \in Users, Expire(u)
      PROVE  TypeOK'
  <2>1. cache' = [cache EXCEPT ![u] = Empty]
        /\ UNCHANGED <<alerts, announced, request, history>>
    BY <1>2 DEF Expire
  <2>2. cache' \in [Users -> Alerts \cup {Empty, Nothing}]
    BY <1>0, <2>1 DEF TypeOK
  <2>3. QED
    BY <1>0, <2>1, <2>2 DEF TypeOK, history
<1>3. ASSUME NEW q \in Requests, NEW u \in Users, NEW c \in Senders[u], Arrive(q, u, c)
      PROVE  TypeOK'
  <2>1. c \in Users \cup {NoOne}
    OBVIOUS
  <2>2. [Idle EXCEPT !.step = "get", !.user = u, !.sender = c] \in
          [step : {"idle", "get", "ask", "store"}, user : Users \cup {NoOne},
           sender : Users \cup {NoOne}, got : Alerts \cup {Empty, Nothing}]
    BY <2>1 DEF Idle
  <2>3. mixed' \in SUBSET Users
    BY <1>0, <1>3 DEF TypeOK, Arrive
  <2>4. QED
    BY <1>0, <1>3, <2>2, <2>3 DEF TypeOK, Arrive
<1>4. ASSUME NEW q \in Requests, GetCache(q)
      PROVE  TypeOK'
  BY <1>0, <1>4 DEF TypeOK, GetCache, Idle, Alerts, history
<1>5. ASSUME NEW q \in Requests, GetAlertsFromAPI(q)
      PROVE  TypeOK'
  <2>1. PICK reply \in Replies(request[q].sender) :
          request' = [request EXCEPT ![q].step = "store", ![q].got = reply]
    BY <1>5 DEF GetAlertsFromAPI
  <2>2. reply \in Alerts \cup {Nothing}
    BY <1>0, <2>1, ReplyType DEF TypeOK
  <2>3. UNCHANGED <<alerts, announced, cache, history>>
    BY <1>5 DEF GetAlertsFromAPI
  <2>4. request' = [request EXCEPT ![q] = [request[q] EXCEPT !.step = "store", !.got = reply]]
    BY <1>0, <2>1 DEF TypeOK
  <2>5. [request[q] EXCEPT !.step = "store", !.got = reply] \in
          [step : {"idle", "get", "ask", "store"}, user : Users \cup {NoOne},
           sender : Users \cup {NoOne}, got : Alerts \cup {Empty, Nothing}]
    <3>1. request[q] \in
            [step : {"idle", "get", "ask", "store"}, user : Users \cup {NoOne},
             sender : Users \cup {NoOne}, got : Alerts \cup {Empty, Nothing}]
      BY <1>0 DEF TypeOK
    <3>2. QED
      BY <2>2, <3>1
  <2>6. QED
    BY <1>0, <2>3, <2>4, <2>5 DEF TypeOK, history
<1>6. ASSUME NEW q \in Requests, StoreAlerts(q)
      PROVE  TypeOK'
  BY <1>0, <1>6 DEF TypeOK, StoreAlerts, SetRedisAlerts, RequestKnows, Serving, Idle, Alerts
<1>7. ASSUME NEW q \in Requests, GiveUp(q)
      PROVE  TypeOK'
  BY <1>0, <1>7 DEF TypeOK, GiveUp, Idle, Alerts, history
<1>8. ASSUME NEW m \in announced, UpdateAlerts(m)
      PROVE  TypeOK'
  BY <1>0, <1>8 DEF TypeOK, UpdateAlerts, SetRedisAlerts, Alerts
<1>9. ASSUME NEW m \in announced, UpdateAlertsFails(m)
      PROVE  TypeOK'
  BY <1>0, <1>9 DEF TypeOK, UpdateAlertsFails, Alerts
<1>10. CASE UNCHANGED vars
  BY <1>0, <1>10 DEF TypeOK, vars, history
<1>11. QED
  BY <1>1, <1>2, <1>3, <1>4, <1>5, <1>6, <1>7, <1>8, <1>9, <1>10 DEF Next, RequestStep

\* Every step keeps what the boots know.
LEMMA KnowledgePreserved ==
    ASSUME AlertsInvariant, [Next]_vars
    PROVE  \A p \in Requests : RequestKnows(p)'
<1>0. TypeOK /\ \A q \in Requests : RequestKnows(q)
  BY DEF AlertsInvariant
<1>1. ASSUME UNCHANGED request, mixed \subseteq mixed',
             \A u \in Users : alerts[u] <= alerts'[u] /\ alerts'[u] \in Nat
      PROVE  \A p \in Requests : RequestKnows(p)'
  BY <1>0, <1>1, AlertsAssumption DEF TypeOK, RequestKnows, Serving, Alerts
<1>2. ASSUME NEW q \in Requests, NEW new, request' = [request EXCEPT ![q] = new],
             UNCHANGED alerts, mixed \subseteq mixed', RequestKnows(q)'
      PROVE  \A p \in Requests : RequestKnows(p)'
  <2> SUFFICES ASSUME NEW p \in Requests \ {q}
               PROVE  RequestKnows(p)'
    BY <1>2
  <2>1. request'[p] = request[p]
    BY <1>0, <1>2 DEF TypeOK
  <2>2. QED
    BY <1>0, <1>2, <2>1 DEF RequestKnows, Serving
<1>3. ASSUME NEW q \in Requests, request' = [request EXCEPT ![q] = Idle],
             UNCHANGED alerts, mixed \subseteq mixed'
      PROVE  \A p \in Requests : RequestKnows(p)'
  <2>1. RequestKnows(q)'
    BY <1>0, <1>3 DEF TypeOK, RequestKnows, Serving, Idle
  <2>2. QED
    BY <1>2, <1>3, <2>1
<1>4. ASSUME NEW q \in Requests, NEW u \in Users, NEW c \in Senders[u], Arrive(q, u, c)
      PROVE  \A p \in Requests : RequestKnows(p)'
  <2>1. RequestKnows(q)'
    BY <1>0, <1>4 DEF TypeOK, Arrive, RequestKnows, Serving, Idle
  <2>2. UNCHANGED alerts /\ mixed \subseteq mixed'
    BY <1>4 DEF Arrive
  <2>3. QED
    BY <1>2, <1>4, <2>1, <2>2 DEF Arrive
<1>5. ASSUME NEW q \in Requests, GetCache(q)
      PROVE  \A p \in Requests : RequestKnows(p)'
  <2>1. RequestKnows(q)'
    BY <1>0, <1>5 DEF TypeOK, GetCache, RequestKnows, Serving, Idle, history
  <2>2. UNCHANGED <<alerts, mixed>>
    BY <1>5 DEF GetCache, history
  <2>3. QED
    BY <1>2, <1>5, <2>1, <2>2 DEF GetCache
<1>6. ASSUME NEW q \in Requests, GetAlertsFromAPI(q)
      PROVE  \A p \in Requests : RequestKnows(p)'
  <2>1. PICK reply \in Replies(request[q].sender) :
          request' = [request EXCEPT ![q].step = "store", ![q].got = reply]
    BY <1>6 DEF GetAlertsFromAPI
  <2>2. \/ reply = Nothing
        \/ /\ reply \in Alerts
           /\ reply.of = request[q].sender
           /\ reply.version = alerts[request[q].sender]
    BY <1>0, <2>1, ReplyType DEF TypeOK
  <2>3. UNCHANGED <<alerts, mixed>> /\ Serving(q)
    BY <1>6 DEF GetAlertsFromAPI, Serving, history
  <2>4. /\ request'[q].user = request[q].user
        /\ request'[q].sender = request[q].sender
        /\ request'[q].got = reply
    BY <1>0, <2>1 DEF TypeOK
  <2>5. reply \in Alerts => alerts[reply.of] \in Nat
    BY <1>0, AlertsAssumption DEF TypeOK, Alerts
  <2>6. RequestKnows(q)'
    BY <1>0, <2>2, <2>3, <2>4, <2>5 DEF RequestKnows, Serving
  <2>7. request' = [request EXCEPT ![q] = request'[q]]
    BY <1>0, <2>1 DEF TypeOK
  <2>8. QED
    BY <1>2, <2>3, <2>6, <2>7
<1>7. ASSUME NEW q \in Requests, StoreAlerts(q) \/ GiveUp(q)
      PROVE  \A p \in Requests : RequestKnows(p)'
  BY <1>3, <1>7 DEF StoreAlerts, GiveUp, history
<1>8. CASE (\E u \in Users : Change(u) \/ Expire(u)) \/ UNCHANGED vars
             \/ \E m \in announced : UpdateAlerts(m) \/ UpdateAlertsFails(m)
  <2>1. UNCHANGED request /\ UNCHANGED mixed
    BY <1>8 DEF Change, Expire, UpdateAlerts, UpdateAlertsFails, vars, history
  <2>2. \A u \in Users : alerts[u] <= alerts'[u] /\ alerts'[u] \in Nat
    BY <1>0, <1>8, AlertsAssumption
    DEF TypeOK, Change, Expire, UpdateAlerts, UpdateAlertsFails, vars
  <2>3. QED
    BY <1>1, <2>1, <2>2
<1>9. QED
  BY <1>4, <1>5, <1>6, <1>7, <1>8 DEF Next, RequestStep

\* Every step keeps the versions in order.
LEMMA VersionsPreserved ==
    ASSUME AlertsInvariant, [Next]_vars
    PROVE  /\ \A m \in announced' : m.version <= alerts'[m.of]
           /\ \A u \in Users : LatestIsAnnounced(u)'
<1>0. /\ TypeOK
      /\ \A m \in announced : m.version <= alerts[m.of]
      /\ \A u \in Users : LatestIsAnnounced(u)
  BY DEF AlertsInvariant
<1> USE AlertsAssumption
<1>1. ASSUME NEW u \in Users, Change(u)
      PROVE  /\ \A m \in announced' : m.version <= alerts'[m.of]
             /\ \A v \in Users : LatestIsAnnounced(v)'
  <2>1. /\ alerts' = [alerts EXCEPT ![u] = alerts[u] + 1]
        /\ announced' = announced \cup {[of |-> u, version |-> alerts[u] + 1]}
        /\ UNCHANGED handled
        /\ \A v \in Users : alerts[v] \in Nat /\ handled[v] \in Nat
        /\ \A m \in announced : m.of \in Users /\ m.version \in Nat
    BY <1>0, <1>1 DEF TypeOK, Change, Alerts, history
  <2>2. alerts'[u] = alerts[u] + 1 /\ \A v \in Users \ {u} : alerts'[v] = alerts[v]
    BY <1>0, <2>1 DEF TypeOK
  <2>3. \A m \in announced' : m.version <= alerts'[m.of]
    BY <1>0, <2>1, <2>2
  <2>4. LatestIsAnnounced(u)'
    <3>1. AlertsOf(u)' \in announced'
      BY <2>1, <2>2 DEF AlertsOf
    <3>2. handled'[u] <= alerts'[u]
      BY <1>0, <2>1, <2>2 DEF LatestIsAnnounced
    <3>3. QED
      BY <3>1, <3>2 DEF LatestIsAnnounced
  <2>5. \A v \in Users \ {u} : AlertsOf(v)' = AlertsOf(v)
    BY <2>2 DEF AlertsOf
  <2>6. \A v \in Users \ {u} : LatestIsAnnounced(v)'
    BY <1>0, <2>1, <2>2, <2>5 DEF LatestIsAnnounced
  <2>7. QED
    BY <2>3, <2>4, <2>6
<1>2. ASSUME NEW m \in announced, UpdateAlerts(m)
      PROVE  /\ \A n \in announced' : n.version <= alerts'[n.of]
             /\ \A v \in Users : LatestIsAnnounced(v)'
  <2>1. /\ announced' \subseteq announced /\ announced \ {m} \subseteq announced'
        /\ UNCHANGED alerts
        /\ handled' = [handled EXCEPT ![m.of] = IF handled[m.of] < m.version
                                                THEN m.version ELSE handled[m.of]]
    BY <1>2 DEF UpdateAlerts
  <2>2. /\ m.of \in Users /\ m.version \in Nat
        /\ \A u \in Users : alerts[u] \in Nat /\ handled[u] \in Nat
    BY <1>0 DEF TypeOK, Alerts
  <2>3. ASSUME NEW v \in Users
        PROVE  LatestIsAnnounced(v)'
    <3>1. CASE m = AlertsOf(v)
      <4>1. m.of = v /\ m.version = alerts[v] /\ handled[v] <= alerts[v]
        BY <1>0, <3>1 DEF LatestIsAnnounced, AlertsOf
      <4>2. handled'[v] = alerts[v]
        BY <1>0, <2>1, <2>2, <4>1 DEF TypeOK
      <4>3. QED
        BY <2>1, <2>2, <4>2 DEF LatestIsAnnounced
    <3>2. CASE m # AlertsOf(v)
      BY <1>0, <2>1, <2>2, <3>2 DEF TypeOK, LatestIsAnnounced, AlertsOf
    <3>3. QED
      BY <3>1, <3>2
  <2>4. QED
    BY <1>0, <2>1, <2>3
<1>3. CASE UNCHANGED <<alerts, announced, handled>>
  BY <1>0, <1>3 DEF LatestIsAnnounced, AlertsOf
<1>4. QED
  BY <1>1, <1>2, <1>3
  DEF Next, RequestStep, Expire, Arrive, GetCache, GetAlertsFromAPI, StoreAlerts, GiveUp,
      UpdateAlertsFails, vars, history

\* Every step keeps the entries explained.
LEMMA EntriesPreserved ==
    ASSUME AlertsInvariant, [Next]_vars
    PROVE  \A u \in Users : EntryIsExplained(u)'
<1>0. /\ TypeOK
      /\ \A q \in Requests : RequestKnows(q)
      /\ \A m \in announced : m.version <= alerts[m.of]
      /\ \A u \in Users : LatestIsAnnounced(u) /\ EntryIsExplained(u)
  BY DEF AlertsInvariant
<1> USE AlertsAssumption
<1>1. ASSUME NEW u \in Users, Change(u)
      PROVE  \A v \in Users : EntryIsExplained(v)'
  <2>1. /\ UNCHANGED <<cache, handled, overwritten, mixed>>
        /\ \A v \in Users : alerts[v] <= alerts'[v] /\ alerts'[v] \in Nat /\ alerts[v] \in Nat
    BY <1>0, <1>1 DEF TypeOK, Change, history
  <2>2. QED
    BY <1>0, <2>1 DEF TypeOK, EntryIsExplained, Cached, Alerts
<1>2. ASSUME NEW u \in Users, Expire(u)
      PROVE  \A v \in Users : EntryIsExplained(v)'
  BY <1>0, <1>2 DEF TypeOK, Expire, EntryIsExplained, Cached, history
<1>3. ASSUME NEW q \in Requests, StoreAlerts(q)
      PROVE  \A v \in Users : EntryIsExplained(v)'
  <2>1. /\ request[q].user \in Users
        /\ request[q].sender \in {request[q].user, NoOne} \/ request[q].user \in mixed
        /\ \/ request[q].got = Nothing
           \/ /\ request[q].got \in Alerts
              /\ request[q].got.of = request[q].sender
              /\ request[q].got.version <= alerts[request[q].got.of]
    BY <1>0, <1>3 DEF StoreAlerts, RequestKnows, Serving
  <2>2. PICK u \in Users, value \in {request[q].got} :
          u = request[q].user /\ value = request[q].got
    BY <2>1
  <2>3. /\ cache' = [cache EXCEPT ![u] = value]
        /\ overwritten' = IF value # Nothing /\ value.of = u /\ value.version < handled[u]
                          THEN overwritten \cup {u} ELSE overwritten
        /\ UNCHANGED <<alerts, handled, mixed>>
    BY <1>3, <2>2 DEF StoreAlerts, SetRedisAlerts
  <2>4. value # Nothing =>
            /\ value.of \in Users /\ value.version \in Nat
            /\ value.of = u \/ u \in mixed
            /\ value.version <= alerts[value.of]
    BY <2>1, <2>2 DEF Alerts
  <2>5. \A v \in Users : handled[v] \in Nat
    BY <1>0 DEF TypeOK
  <2>6. EntryIsExplained(u)'
    <3>1. cache'[u] = value
      BY <1>0, <2>3 DEF TypeOK
    <3>2. QED
      BY <2>3, <2>4, <2>5, <3>1 DEF EntryIsExplained, Cached
  <2>7. \A v \in Users \ {u} : EntryIsExplained(v)'
    BY <1>0, <2>3 DEF TypeOK, EntryIsExplained, Cached
  <2>8. QED
    BY <2>6, <2>7
<1>4. ASSUME NEW m \in announced, UpdateAlerts(m)
      PROVE  \A v \in Users : EntryIsExplained(v)'
  <2>1. /\ cache' = [cache EXCEPT ![m.of] = m]
        /\ handled' = [handled EXCEPT ![m.of] = IF handled[m.of] < m.version
                                                THEN m.version ELSE handled[m.of]]
        /\ overwritten' = IF m.version < handled[m.of] THEN overwritten \cup {m.of}
                          ELSE overwritten
        /\ UNCHANGED <<alerts, mixed>>
    BY <1>4 DEF UpdateAlerts, SetRedisAlerts
  <2>2. /\ m.of \in Users /\ m.version \in Nat /\ m.version <= alerts[m.of]
        /\ \A u \in Users : handled[u] \in Nat
    BY <1>0 DEF TypeOK, Alerts
  <2>3. EntryIsExplained(m.of)'
    BY <1>0, <2>1, <2>2 DEF TypeOK, EntryIsExplained, Cached
  <2>4. \A v \in Users \ {m.of} : EntryIsExplained(v)'
    BY <1>0, <2>1, <2>2 DEF TypeOK, EntryIsExplained, Cached
  <2>5. QED
    BY <2>3, <2>4
<1>5. ASSUME NEW q \in Requests, NEW u \in Users, NEW c \in Senders[u], Arrive(q, u, c)
      PROVE  \A v \in Users : EntryIsExplained(v)'
  <2>1. UNCHANGED <<alerts, cache, handled, overwritten>> /\ mixed \subseteq mixed'
    BY <1>5 DEF Arrive
  <2>2. QED
    BY <1>0, <2>1 DEF EntryIsExplained, Cached
<1>6. CASE UNCHANGED <<alerts, cache, handled, overwritten, mixed>>
  BY <1>0, <1>6 DEF EntryIsExplained, Cached
<1>7. QED
  BY <1>1, <1>2, <1>3, <1>4, <1>5, <1>6
  DEF Next, RequestStep, GetCache, GetAlertsFromAPI, GiveUp, UpdateAlertsFails, vars, history

\* The inductive invariant of the cache holds in every reachable state.
THEOREM InvariantHolds == Spec => []AlertsInvariant
<1>1. AlertsInvariant /\ [Next]_vars => AlertsInvariant'
  BY TypePreserved, KnowledgePreserved, VersionsPreserved, EntriesPreserved
  DEF AlertsInvariant
<1>2. QED
  BY InvariantInit, <1>1, PTL DEF Spec

\* The entries, the announcements and the boots keep their types.
THEOREM TypeCorrect == Spec => []TypeOK
<1>1. AlertsInvariant => TypeOK
  BY DEF AlertsInvariant
<1>2. QED
  BY InvariantHolds, <1>1, PTL

\* Nobody is served somebody else's alerts but through a session cookie of
\* another user than the refresh token's, however fills and the worker interleave.
THEOREM AlertsAreOnesOwn == Spec => []ForeignAlertsNeedMixups
<1>1. AlertsInvariant => ForeignAlertsNeedMixups
  BY DEF AlertsInvariant, ForeignAlertsNeedMixups, EntryIsExplained
<1>2. QED
  BY InvariantHolds, <1>1, PTL

\* With no announcement left an entry is current, unless a fill or an announcement
\* that came late overwrote it: what the worker has stored is the newest version.
THEOREM EntriesAreCurrent == Spec => []StaleAlertsNeedOverlaps
<1>1. AlertsInvariant => StaleAlertsNeedOverlaps
  <2> SUFFICES ASSUME AlertsInvariant, NEW u \in Users, Settled(u), Cached(u),
                      cache[u].of = u
               PROVE  cache[u].version = alerts[u] \/ u \in overwritten
    BY DEF StaleAlertsNeedOverlaps
  <2>1. AlertsOf(u) \notin announced
    BY DEF Settled, AlertsOf
  <2>2. handled[u] = alerts[u]
    BY <2>1 DEF AlertsInvariant, LatestIsAnnounced
  <2>3. /\ cache[u].version <= alerts[u]
        /\ handled[u] <= cache[u].version \/ u \in overwritten
    BY DEF AlertsInvariant, EntryIsExplained
  <2>4. cache[u].version \in Nat /\ alerts[u] \in Nat
    BY AlertsAssumption DEF AlertsInvariant, TypeOK, Cached, Alerts
  <2>5. QED
    BY <2>2, <2>3, <2>4
<1>2. QED
  BY InvariantHolds, <1>1, PTL
=============================================================================
