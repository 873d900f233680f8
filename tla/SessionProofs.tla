----------------------------- MODULE SessionProofs -----------------------------
(***************************************************************************)
(* What is proved of Session, for all browsers, ids, apps, referrers and   *)
(* requests.                                                               *)
(***************************************************************************)
EXTENDS Session, TLAPS

-----------------------------------------------------------------------------
(* Types.                                                                  *)

LEMMA IdleType == Idle \in RequestRecords /\ NoCookies \in Jars /\ NoCookies \in SetCookies
                    /\ AllKept \in SetCookies
BY SessionAssumption
DEF Idle, RequestRecords, Jars, SetCookies, NoCookies, AllKept, Cookies, Steps

\* The id given to a request is an id.
LEMMA TrackingIdsType ==
    ASSUME TypeOK, NEW b \in Browsers, NEW id \in TrackingIds(b)
    PROVE  id \in Ids
BY SessionAssumption DEF TypeOK, TrackingIds, Jars

\* The cookies of an answer.
LEMMA FirstSetsType ==
    ASSUME TypeOK, NEW b \in Browsers, NEW kind \in Kinds, NEW id \in Ids,
           NEW link \in Referrers \cup {NoId}
    PROVE  FirstSets(b, kind, id, link) \in SetCookies
<1>1. CASE kind = "logout"
  BY <1>1, IdleType DEF FirstSets
<1>2. CASE kind # "logout"
  BY <1>2, SessionAssumption DEF FirstSets, AllKept, Cookies, SetCookies
<1>3. QED
  BY <1>1, <1>2

LEMMA OverlayType ==
    ASSUME NEW sets \in SetCookies, NEW cookies \in Jars
    PROVE  Overlay(sets, cookies) \in Jars
BY SessionAssumption DEF Overlay, Cookies, SetCookies, Jars

-----------------------------------------------------------------------------
(* What each step does to the requests, field by field.                    *)

\* Only request q changes.
OnlyMoves(q) ==
    /\ request' \in [Requests -> RequestRecords]
    /\ \A p \in Requests \ {q} : request'[p] = request[p]

LEMMA MoveType ==
    ASSUME TypeOK, NEW q \in Requests, NEW new \in RequestRecords,
           request' = [request EXCEPT ![q] = new]
    PROVE  OnlyMoves(q) /\ request'[q] = new
BY DEF TypeOK, OnlyMoves

\* Request q is a new one of browser b.
Arrived(q, b, kind, app, link) ==
    LET r == request'[q]
    IN  /\ OnlyMoves(q)
        /\ r.id \in TrackingIds(b) /\ r.id \in Ids
        /\ r.step = FirstStep(kind) /\ r.kind = kind /\ r.browser = b /\ r.app = app
        /\ r.seen = jar[b] /\ r.user = jar[b].auth
        /\ r.sets = FirstSets(b, kind, r.id, link)
        /\ r.renew = FALSE /\ r.answered = Keep /\ r.at = 0 /\ r.era = era[b]
        /\ minted' = minted \cup {r.id}

LEMMA ArriveMoves ==
    ASSUME TypeOK, NEW q \in Requests, NEW b \in Browsers, NEW kind \in Kinds,
           NEW app \in Apps \cup {NoApp}, NEW link \in Referrers \cup {NoId},
           Arrive(q, b, kind, app, link)
    PROVE  Arrived(q, b, kind, app, link)
<1> DEFINE New(id) ==
             [step |-> FirstStep(kind), kind |-> kind, browser |-> b, app |-> app,
              seen |-> jar[b], sets |-> FirstSets(b, kind, id, link),
              user |-> jar[b].auth, id |-> id, renew |-> FALSE, at |-> 0,
              answered |-> Keep, era |-> era[b]]
<1>1. PICK id \in TrackingIds(b) : /\ minted' = minted \cup {id}
                                  /\ request' = [request EXCEPT ![q] = New(id)]
  BY DEF Arrive
<1>3. /\ FirstSets(b, kind, id, link) \in SetCookies
      /\ FirstStep(kind) \in Steps
      /\ id \in Ids /\ jar[b] \in Jars /\ jar[b].auth \in Ids \cup {NoId}
      /\ era[b] \in Nat /\ 0 \in 0..MaxRequests
  BY TrackingIdsType, FirstSetsType, SessionAssumption
  DEF TypeOK, FirstStep, Kinds, Logins, Steps, Jars
<1>4. New(id) \in RequestRecords
  BY <1>3 DEF RequestRecords
<1>5. OnlyMoves(q) /\ request'[q] = New(id)
  BY <1>1, <1>4, MoveType
<1>6. QED
  BY <1>1, <1>3, <1>5 DEF Arrived

\* Every field but step, user, renew and at stays.
LEMMA ValidateMoves ==
    ASSUME TypeOK, NEW q \in Requests, ValidateRefreshToken(q)
    PROVE  /\ OnlyMoves(q) /\ request[q].step = "validate"
           /\ request'[q].kind = request[q].kind /\ request'[q].browser = request[q].browser
           /\ request'[q].app = request[q].app /\ request'[q].seen = request[q].seen
           /\ request'[q].sets = request[q].sets /\ request'[q].id = request[q].id
           /\ request'[q].answered = request[q].answered
           /\ request'[q].era = request[q].era
           /\ \/ /\ request'[q].step = "read" /\ request'[q].at = now
                 /\ \/ /\ request'[q].user = request[q].user
                       /\ request'[q].renew = request[q].renew
                    \/ /\ request[q].seen.refresh \in tokens
                       /\ request'[q].user = request[q].seen.refresh
                       /\ request'[q].renew = TRUE
              \/ /\ request'[q].step = "answer" /\ request'[q].at = request[q].at
                 /\ request'[q].user = request[q].user
                 /\ request'[q].renew = request[q].renew
<1> DEFINE r == request[q]
           token == r.seen.refresh
<1>1. r \in RequestRecords /\ now \in 0..MaxRequests /\ tokens \subseteq Ids
  BY DEF TypeOK
<1>2. CASE token = NoId
  <2>1. request' = [request EXCEPT ![q] = [r EXCEPT !.step = "read", !.at = now]]
    BY <1>2 DEF ValidateRefreshToken
  <2>2. [r EXCEPT !.step = "read", !.at = now] \in RequestRecords
    BY <1>1 DEF RequestRecords, Steps
  <2>3. OnlyMoves(q) /\ request'[q] = [r EXCEPT !.step = "read", !.at = now]
    BY <2>1, <2>2, MoveType
  <2>4. request[q].step = "validate"
    BY DEF ValidateRefreshToken
  <2>5. QED
    BY <1>1, <2>3, <2>4 DEF RequestRecords
<1>3. CASE token # NoId /\ token \in tokens
  <2>1. request' = [request EXCEPT ![q] = [r EXCEPT !.step = "read", !.at = now,
                                                    !.user = token, !.renew = TRUE]]
    BY <1>3 DEF ValidateRefreshToken
  <2>2. [r EXCEPT !.step = "read", !.at = now, !.user = token, !.renew = TRUE]
          \in RequestRecords
    BY <1>1, <1>3 DEF RequestRecords, Steps
  <2>3. OnlyMoves(q) /\ request'[q] = [r EXCEPT !.step = "read", !.at = now, !.user = token, !.renew = TRUE]
    BY <2>1, <2>2, MoveType
  <2>4. request[q].step = "validate"
    BY DEF ValidateRefreshToken
  <2>5. QED
    BY <1>1, <1>3, <2>3, <2>4 DEF RequestRecords
<1>4. CASE token # NoId /\ token \notin tokens
  <2>1. request' = [request EXCEPT ![q] = [r EXCEPT !.step = "answer"]]
    BY <1>4 DEF ValidateRefreshToken
  <2>2. [r EXCEPT !.step = "answer"] \in RequestRecords
    BY <1>1 DEF RequestRecords, Steps
  <2>3. OnlyMoves(q) /\ request'[q] = [r EXCEPT !.step = "answer"]
    BY <2>1, <2>2, MoveType
  <2>4. request[q].step = "validate"
    BY DEF ValidateRefreshToken
  <2>5. QED
    BY <1>1, <2>3, <2>4 DEF RequestRecords
<1>5. QED
  BY <1>2, <1>3, <1>4

LEMMA ServedType ==
    ASSUME TypeOK, NEW q \in Requests, RequestInOrder(q)
    PROVE  Served(q) \in Ids
BY DEF TypeOK, RequestRecords, RequestInOrder, Served

\* The referrer a boot may answer.
LEMMA RecordedType ==
    ASSUME TypeOK, NEW id \in Ids, NEW referrer \in FirstReferrals(id)
    PROVE  referrer \in Referrers \cup {NoId}
BY DEF TypeOK, FirstReferrals, VisitRows

\* Every field but step, sets and answered stays.
LEMMA BootMoves ==
    ASSUME TypeOK, NEW q \in Requests, RequestInOrder(q), BootSharedLogic(q)
    PROVE  /\ OnlyMoves(q)
           /\ request[q].step = "read" /\ request'[q].step = "answer"
           /\ request'[q].kind = request[q].kind /\ request'[q].browser = request[q].browser
           /\ request'[q].app = request[q].app /\ request'[q].seen = request[q].seen
           /\ request'[q].user = request[q].user /\ request'[q].id = request[q].id
           /\ request'[q].renew = request[q].renew /\ request'[q].at = request[q].at
           /\ request'[q].era = request[q].era
           /\ request'[q].sets.refresh = request[q].sets.refresh
           /\ \/ /\ request'[q].sets.tracking = NoId
                 /\ request'[q].sets.auth = request[q].sets.auth
                 /\ request'[q].answered = request[q].answered
                 /\ UNCHANGED <<writes, disturbed>>
              \/ /\ request'[q].sets.tracking = request[q].sets.tracking
                 /\ request'[q].sets.auth = IF request[q].renew THEN request[q].user
                                            ELSE request[q].sets.auth
                 /\ \/ /\ request[q].app = NoApp
                       /\ request'[q].answered = request[q].answered
                       /\ writes' = writes
                    \/ /\ request[q].app \in Apps
                       /\ IF visits[Served(q)] = {}
                          THEN request'[q].answered = request[q].seen.referral
                          ELSE request'[q].answered \in FirstReferrals(Served(q))
                       /\ writes' = writes \cup
                             {[id |-> Served(q), app |-> request[q].app,
                               first |-> request[q].at,
                               referral |-> request[q].seen.referral]}
                 /\ disturbed' = IF Overlapping(q) THEN disturbed \cup {Served(q)}
                                 ELSE disturbed
<1> DEFINE r == request[q]
<1>1. /\ r \in RequestRecords /\ r.step = "read" /\ r.sets \in SetCookies
      /\ r.seen.referral \in Referrers \cup {NoId}
      /\ r.user \in Ids \cup {NoId} /\ r.app \in Apps \cup {NoApp}
      /\ r.answered \in Referrers \cup {NoId, Keep}
  BY DEF TypeOK, RequestRecords, BootSharedLogic, Jars
<1>2. CASE r.user # NoId /\ r.user \notin users
  <2>1. PICK sets \in SetCookies : sets = [r.sets EXCEPT !.tracking = NoId]
    BY <1>1 DEF SetCookies
  <2>2. request' = [request EXCEPT ![q] = [r EXCEPT !.step = "answer", !.sets = sets]]
    BY <1>2, <2>1 DEF BootSharedLogic
  <2>3. PICK new \in RequestRecords : new = [r EXCEPT !.step = "answer", !.sets = sets]
    BY <1>1 DEF RequestRecords, Steps
  <2>4. OnlyMoves(q) /\ request'[q] = new
    BY <2>2, <2>3, MoveType
  <2>5. UNCHANGED <<writes, disturbed>>
    BY <1>2 DEF BootSharedLogic
  <2>6. /\ sets.tracking = NoId /\ sets.auth = r.sets.auth /\ sets.refresh = r.sets.refresh
    BY <1>1, <2>1 DEF SetCookies
  <2>7. QED
    BY <1>1, <2>3, <2>4, <2>5, <2>6 DEF RequestRecords
<1>3. CASE ~(r.user # NoId /\ r.user \notin users)
  <2>1. PICK referrer \in IF visits[Served(q)] = {} THEN {r.seen.referral}
                          ELSE FirstReferrals(Served(q)) :
          request' = [request EXCEPT ![q] =
                        [r EXCEPT !.step = "answer",
                                  !.sets = IF r.renew THEN [r.sets EXCEPT !.auth = r.user]
                                           ELSE r.sets,
                                  !.answered = IF r.app = NoApp THEN r.answered
                                               ELSE referrer]]
    BY <1>3 DEF BootSharedLogic
  <2>2. referrer \in Referrers \cup {NoId}
    BY <1>1, <2>1, ServedType, RecordedType
  <2>3. PICK sets \in SetCookies :
          /\ sets = IF r.renew THEN [r.sets EXCEPT !.auth = r.user] ELSE r.sets
          /\ sets.tracking = r.sets.tracking /\ sets.refresh = r.sets.refresh
          /\ sets.auth = IF r.renew THEN r.user ELSE r.sets.auth
    <3>1. CASE r.renew
      <4>1. PICK sets \in SetCookies : sets = [r.sets EXCEPT !.auth = r.user]
        BY <1>1 DEF SetCookies
      <4>2. /\ sets.tracking = r.sets.tracking /\ sets.refresh = r.sets.refresh
            /\ sets.auth = r.user
        BY <1>1, <4>1 DEF SetCookies
      <4>3. QED
        BY <3>1, <4>1, <4>2
    <3>2. CASE ~r.renew
      BY <1>1, <3>2
    <3>3. QED
      BY <3>1, <3>2
  <2>4. PICK answered \in Referrers \cup {NoId, Keep} :
          answered = IF r.app = NoApp THEN r.answered ELSE referrer
    BY <1>1, <2>2
  <2>5. request' = [request EXCEPT ![q] =
                      [r EXCEPT !.step = "answer", !.sets = sets, !.answered = answered]]
    BY <2>1, <2>3, <2>4
  <2>6. PICK new \in RequestRecords :
          new = [r EXCEPT !.step = "answer", !.sets = sets, !.answered = answered]
    BY <1>1 DEF RequestRecords, Steps
  <2>7. OnlyMoves(q) /\ request'[q] = new
    BY <2>5, <2>6, MoveType
  <2>8. /\ new.step = "answer" /\ new.sets = sets /\ new.answered = answered
        /\ new.kind = r.kind /\ new.browser = r.browser /\ new.app = r.app
        /\ new.seen = r.seen /\ new.user = r.user /\ new.id = r.id
        /\ new.renew = r.renew /\ new.at = r.at /\ new.era = r.era
    BY <1>1, <2>6 DEF RequestRecords
  <2>9. /\ writes' = IF r.app = NoApp THEN writes
                     ELSE writes \cup {[id |-> Served(q), app |-> r.app, first |-> r.at,
                                        referral |-> r.seen.referral]}
        /\ disturbed' = IF Overlapping(q) THEN disturbed \cup {Served(q)} ELSE disturbed
    BY <1>3 DEF BootSharedLogic
  <2>10. CASE r.app = NoApp
    BY <1>1, <2>3, <2>4, <2>7, <2>8, <2>9, <2>10
  <2>11. CASE r.app # NoApp
    <3>1. answered = referrer /\ r.app \in Apps
      BY <1>1, <2>4, <2>11
    <3>2. IF visits[Served(q)] = {} THEN answered = r.seen.referral
          ELSE answered \in FirstReferrals(Served(q))
      BY <2>1, <3>1
    <3>3. QED
      BY <1>1, <2>3, <2>7, <2>8, <2>9, <2>11, <3>1, <3>2
  <2>12. QED
    BY <2>10, <2>11
<1>4. QED
  BY <1>2, <1>3

\* Every field but step and sets stays.
LEMMA AuthenticateMoves ==
    ASSUME TypeOK, NEW q \in Requests, RequestInOrder(q), Authenticate(q)
    PROVE  /\ OnlyMoves(q)
           /\ request[q].step = "login" /\ request'[q].step = "answer"
           /\ request'[q].kind = request[q].kind /\ request'[q].browser = request[q].browser
           /\ request'[q].app = request[q].app /\ request'[q].seen = request[q].seen
           /\ request'[q].user = request[q].user /\ request'[q].id = request[q].id
           /\ request'[q].renew = request[q].renew /\ request'[q].at = request[q].at
           /\ request'[q].answered = request[q].answered
           /\ request'[q].era = request[q].era
           /\ request'[q].sets.auth \in Ids
           /\ request'[q].sets.refresh = IF request[q].kind = "callback"
                                         THEN request'[q].sets.auth ELSE Keep
           /\ \/ request'[q].sets.tracking = request[q].sets.tracking
              \/ request'[q].sets.tracking \in users
           /\ users' = users \cup {request'[q].sets.auth}
           /\ tokens' \subseteq tokens \cup {request'[q].sets.auth}
<1> DEFINE r == request[q]
<1>1. /\ r \in RequestRecords /\ r.step = "login" /\ r.sets \in SetCookies /\ r.id \in Ids
      /\ users \subseteq Ids
  BY DEF TypeOK, RequestRecords, Authenticate, RequestInOrder
<1>2. PICK id \in users \cup {r.id}, refresh \in Ids \cup {Keep} :
        /\ refresh = IF r.kind = "callback" THEN id ELSE Keep
        /\ users' = users \cup {id}
        /\ tokens' = IF refresh = Keep THEN tokens ELSE tokens \cup {id}
        /\ request' = [request EXCEPT ![q] =
              [r EXCEPT !.step = "answer", !.sets = SignedIn(r.sets, id, refresh)]]
  BY <1>1 DEF Authenticate
<1>3. PICK sets \in SetCookies :
        /\ sets = SignedIn(r.sets, id, refresh)
        /\ sets.auth = id /\ sets.refresh = refresh
        /\ sets.tracking = IF id \in users THEN id ELSE r.sets.tracking
  <2>1. PICK tracking \in Ids \cup {NoId, Keep} :
          tracking = IF id \in users THEN id ELSE r.sets.tracking
    BY <1>1 DEF SetCookies
  <2>2. id \in Ids
    BY <1>1
  <2>3. PICK sets \in SetCookies :
          sets = [r.sets EXCEPT !.auth = id, !.refresh = refresh, !.tracking = tracking]
    BY <1>1, <2>2 DEF SetCookies
  <2>4. sets.auth = id /\ sets.refresh = refresh /\ sets.tracking = tracking
    BY <1>1, <2>3 DEF SetCookies
  <2>5. sets = SignedIn(r.sets, id, refresh)
    BY <2>1, <2>3 DEF SignedIn
  <2>6. QED
    BY <2>1, <2>4, <2>5
<1>4. PICK new \in RequestRecords : new = [r EXCEPT !.step = "answer", !.sets = sets]
  BY <1>1 DEF RequestRecords, Steps
<1>5. OnlyMoves(q) /\ request'[q] = new
  BY <1>2, <1>3, <1>4, MoveType
<1>6. /\ new.step = "answer" /\ new.sets = sets /\ new.answered = r.answered
      /\ new.kind = r.kind /\ new.browser = r.browser /\ new.app = r.app
      /\ new.seen = r.seen /\ new.user = r.user /\ new.id = r.id
      /\ new.renew = r.renew /\ new.at = r.at /\ new.era = r.era
  BY <1>1, <1>4 DEF RequestRecords
<1>7. id \in Ids
  BY <1>1
<1>8. QED
  BY <1>1, <1>2, <1>3, <1>5, <1>6, <1>7

\* Every field but step stays.
LEMMA RefuseMoves ==
    ASSUME TypeOK, NEW q \in Requests, RefuseLogin(q)
    PROVE  /\ OnlyMoves(q)
           /\ request[q].step = "login" /\ request'[q].step = "answer"
           /\ request'[q].kind = request[q].kind /\ request'[q].browser = request[q].browser
           /\ request'[q].app = request[q].app /\ request'[q].seen = request[q].seen
           /\ request'[q].user = request[q].user /\ request'[q].id = request[q].id
           /\ request'[q].renew = request[q].renew /\ request'[q].at = request[q].at
           /\ request'[q].answered = request[q].answered
           /\ request'[q].sets = request[q].sets /\ request'[q].era = request[q].era
<1> DEFINE r == request[q]
<1>1. r \in RequestRecords /\ r.step = "login"
  BY DEF TypeOK, RefuseLogin
<1>2. PICK new \in RequestRecords : new = [r EXCEPT !.step = "answer"]
  BY <1>1 DEF RequestRecords, Steps
<1>3. OnlyMoves(q) /\ request'[q] = new
  BY <1>2, MoveType DEF RefuseLogin
<1>4. QED
  BY <1>1, <1>2, <1>3 DEF RequestRecords

LEMMA EndMoves ==
    ASSUME TypeOK, NEW q \in Requests, Answer(q) \/ Drop(q)
    PROVE  OnlyMoves(q) /\ request'[q] = Idle
BY IdleType, MoveType DEF Answer, Drop

\* The steps on the way to the answer.
Working(q) ==
    ValidateRefreshToken(q) \/ BootSharedLogic(q) \/ Authenticate(q) \/ RefuseLogin(q)

LEMMA WorkMoves ==
    ASSUME TypeOK, NEW q \in Requests, Serving(q) => RequestInOrder(q), Working(q)
    PROVE  /\ OnlyMoves(q)
           /\ Serving(q) /\ request'[q].step # "idle"
           /\ request'[q].kind = request[q].kind /\ request'[q].browser = request[q].browser
           /\ request'[q].seen = request[q].seen /\ request'[q].id = request[q].id
           /\ request'[q].era = request[q].era
           /\ UNCHANGED <<visits, jar, minted, now, removed, account, era, excuses, shown>>
<1>1. CASE ValidateRefreshToken(q)
  BY <1>1, ValidateMoves DEF ValidateRefreshToken, Serving, tables, history
<1>2. CASE BootSharedLogic(q)
  <2>1. RequestInOrder(q)
    BY <1>2 DEF BootSharedLogic, Serving
  <2>2. QED
    BY <1>2, <2>1, BootMoves DEF BootSharedLogic, Serving
<1>3. CASE Authenticate(q)
  <2>1. RequestInOrder(q)
    BY <1>3 DEF Authenticate, Serving
  <2>2. QED
    BY <1>3, <2>1, AuthenticateMoves DEF Authenticate, Serving, history
<1>4. CASE RefuseLogin(q)
  BY <1>4, RefuseMoves DEF RefuseLogin, Serving, tables, history
<1>5. QED
  BY <1>1, <1>2, <1>3, <1>4 DEF Working

-----------------------------------------------------------------------------
(* Accounts: TypeOK, RequestInOrder, LoginInOrder and CookiesAreMine.      *)

LEMMA TypeInit == Init => TypeOK
<1> SUFFICES ASSUME Init PROVE TypeOK
  OBVIOUS
<1>1. /\ users \in SUBSET Ids /\ tokens \in SUBSET Ids /\ minted \in SUBSET Ids
      /\ visits \in [Ids -> SUBSET VisitRows] /\ writes = {}
      /\ now \in 0..MaxRequests /\ removed \in SUBSET Ids /\ disturbed \in SUBSET Ids
  BY SessionAssumption DEF Init
<1>2. jar \in [Browsers -> Jars]
  <2>1. \A t \in {NoId, Unknown} : [NoCookies EXCEPT !.refresh = t] \in Jars
    BY DEF NoCookies, Cookies, Jars
  <2>2. QED
    BY <2>1 DEF Init
<1>3. request \in [Requests -> RequestRecords]
  BY IdleType DEF Init
<1>4. /\ account \in [Browsers -> Ids \cup {NoId}] /\ era \in [Browsers -> Nat]
      /\ excuses \in [Browsers -> SUBSET Excuses]
      /\ shown \in [Ids -> Referrers \cup {NoId, Keep}]
  BY DEF Init
<1>5. QED
  BY <1>1, <1>2, <1>3, <1>4 DEF TypeOK

\* The visit that is written, as a row.
LEMMA WrittenType ==
    ASSUME TypeOK, NEW w \in writes, UpdateUserVisit(w)
    PROVE  visits' \in [Ids -> SUBSET VisitRows]
<1> DEFINE row == [app |-> w.app, first |-> w.first, referral |-> w.referral]
<1>1. w.id \in Ids /\ row \in VisitRows /\ visits[w.id] \in SUBSET VisitRows
  BY DEF TypeOK
<1>2. visits[w.id] \cup {row} \in SUBSET VisitRows
  BY <1>1
<1>3. visits' = visits \/ visits' = [visits EXCEPT ![w.id] = visits[w.id] \cup {row}]
  BY DEF UpdateUserVisit
<1>4. QED
  BY <1>1, <1>2, <1>3 DEF TypeOK

\* Every step keeps the types.
LEMMA TypePreserved ==
    ASSUME TypeOK, \A q \in Requests : Serving(q) => RequestInOrder(q), Next
    PROVE  TypeOK'
<1>1. ASSUME NEW b \in Browsers, Expire(b)
      PROVE  TypeOK'
  <2>1. [jar[b] EXCEPT !.auth = NoId] \in Jars
    <3>1. jar[b] \in Jars
      BY DEF TypeOK
    <3>2. QED
      BY <3>1 DEF Jars
  <2>2. jar' = [jar EXCEPT ![b] = [jar[b] EXCEPT !.auth = NoId]]
    BY <1>1 DEF Expire
  <2>3. jar' \in [Browsers -> Jars]
    BY <2>1, <2>2 DEF TypeOK
  <2>4. QED
    BY <1>1, <2>3 DEF TypeOK, Expire, tables, history
<1>2. ASSUME NEW q \in Requests, NEW b \in Browsers, NEW kind \in Kinds,
             NEW app \in Apps \cup {NoApp}, NEW link \in Referrers \cup {NoId},
             Arrive(q, b, kind, app, link)
      PROVE  TypeOK'
  <2>1. request' \in [Requests -> RequestRecords] /\ minted' \in SUBSET Ids
    <3>1. Arrived(q, b, kind, app, link)
      BY <1>2, ArriveMoves
    <3>2. QED
      BY <3>1 DEF Arrived, OnlyMoves, TypeOK
  <2>2. now' \in 0..MaxRequests
    BY <1>2, SessionAssumption DEF Arrive, TypeOK
  <2>3. excuses' \in [Browsers -> SUBSET Excuses]
    <3>1. excuses[b] \cup {"twins"} \in SUBSET Excuses
      BY DEF TypeOK, Excuses
    <3>2. excuses' = excuses \/ excuses' = [excuses EXCEPT ![b] = excuses[b] \cup {"twins"}]
      BY <1>2 DEF Arrive
    <3>3. QED
      BY <3>1, <3>2 DEF TypeOK
  <2>4. QED
    BY <1>2, <2>1, <2>2, <2>3 DEF TypeOK, Arrive, tables
<1>3. ASSUME NEW q \in Requests, ValidateRefreshToken(q)
      PROVE  TypeOK'
  BY <1>3, ValidateMoves DEF TypeOK, ValidateRefreshToken, OnlyMoves, tables, history
<1>4. ASSUME NEW q \in Requests, BootSharedLogic(q)
      PROVE  TypeOK'
  <2>1. RequestInOrder(q)
    BY <1>4 DEF BootSharedLogic, Serving
  <2>2. /\ Served(q) \in Ids /\ request[q].at \in 0..MaxRequests
        /\ request[q].seen.referral \in Referrers \cup {NoId}
    BY <2>1, ServedType DEF TypeOK, RequestRecords, Jars
  <2>3. request' \in [Requests -> RequestRecords]
    BY <1>4, <2>1, BootMoves DEF OnlyMoves
  <2>4. disturbed' \in SUBSET Ids
    BY <1>4, <2>2 DEF TypeOK, BootSharedLogic
  <2>5. \A w \in writes' : /\ w.id \in Ids
                           /\ [app |-> w.app, first |-> w.first, referral |-> w.referral]
                                \in VisitRows
    <3>1. CASE writes' = writes
      BY <3>1 DEF TypeOK
    <3>2. CASE /\ request[q].app \in Apps
               /\ writes' = writes \cup {[id |-> Served(q), app |-> request[q].app,
                                          first |-> request[q].at,
                                          referral |-> request[q].seen.referral]}
      BY <2>2, <3>2 DEF TypeOK, VisitRows
    <3>3. QED
      BY <1>4, <2>1, <3>1, <3>2, BootMoves
  <2>6. QED
    BY <1>4, <2>3, <2>4, <2>5 DEF TypeOK, BootSharedLogic
<1>5. ASSUME NEW q \in Requests, Authenticate(q)
      PROVE  TypeOK'
  <2>1. RequestInOrder(q)
    BY <1>5 DEF Authenticate, Serving
  <2>2. /\ request' \in [Requests -> RequestRecords]
        /\ users' \in SUBSET Ids /\ tokens' \in SUBSET Ids
    BY <1>5, <2>1, AuthenticateMoves DEF OnlyMoves, TypeOK
  <2>3. QED
    BY <1>5, <2>2 DEF TypeOK, Authenticate, history
<1>6. ASSUME NEW q \in Requests, RefuseLogin(q)
      PROVE  TypeOK'
  BY <1>6, RefuseMoves DEF TypeOK, RefuseLogin, OnlyMoves, tables, history
<1>7. ASSUME NEW q \in Requests, Answer(q)
      PROVE  TypeOK'
  <2> DEFINE r == request[q]
             b == r.browser
  <2>1. RequestInOrder(q)
    BY <1>7 DEF Answer, Serving
  <2>2. /\ r \in RequestRecords /\ b \in Browsers /\ Served(q) \in Ids
        /\ r.sets \in SetCookies /\ r.sets.auth \in Ids \cup {NoId, Keep}
        /\ r.answered \in Referrers \cup {NoId, Keep}
    BY <2>1, ServedType DEF TypeOK, RequestRecords, RequestInOrder, SetCookies
  <2>3. Overlay(r.sets, jar[b]) \in Jars
    BY <2>2, OverlayType DEF TypeOK
  <2>4. jar' \in [Browsers -> Jars]
    BY <1>7, <2>2, <2>3 DEF Answer, TypeOK
  <2>5. account' \in [Browsers -> Ids \cup {NoId}]
    <3>1. \/ account' = account
          \/ account' = [account EXCEPT ![b] = NoId]
          \/ (r.sets.auth # Keep /\ account' = [account EXCEPT ![b] = r.sets.auth])
      BY <1>7 DEF Answer
    <3>2. QED
      BY <2>2, <3>1 DEF TypeOK
  <2>6. era' \in [Browsers -> Nat]
    <3>1. era' = era \/ era' = [era EXCEPT ![b] = era[b] + 1]
      BY <1>7 DEF Answer
    <3>2. era[b] + 1 \in Nat
      BY <2>2 DEF TypeOK
    <3>3. QED
      BY <3>1, <3>2 DEF TypeOK
  <2>7. excuses' \in [Browsers -> SUBSET Excuses]
    <3>1. PICK more \in SUBSET {"overtaken", "leftover"} :
            excuses' = [excuses EXCEPT ![b] = excuses[b] \cup more]
      <4>1. PICK late \in SUBSET {"overtaken", "leftover"},
                 left \in SUBSET {"overtaken", "leftover"} :
              excuses' = [excuses EXCEPT ![b] = @ \cup late \cup left]
        BY <1>7 DEF Answer
      <4>2. late \cup left \in SUBSET {"overtaken", "leftover"}
        BY <4>1
      <4>3. excuses[b] \cup late \cup left = excuses[b] \cup (late \cup left)
        OBVIOUS
      <4>4. QED
        BY <4>1, <4>2, <4>3
    <3>2. excuses[b] \cup more \in SUBSET Excuses
      BY <2>2, <3>1 DEF TypeOK, Excuses
    <3>3. QED
      BY <3>1, <3>2 DEF TypeOK
  <2>8. shown' \in [Ids -> Referrers \cup {NoId, Keep}]
    BY <1>7, <2>2 DEF Answer, TypeOK
  <2>9. request' \in [Requests -> RequestRecords]
    BY <1>7, EndMoves DEF OnlyMoves
  <2>10. QED
    BY <1>7, <2>4, <2>5, <2>6, <2>7, <2>8, <2>9 DEF TypeOK, Answer, tables
<1>8. ASSUME NEW q \in Requests, Drop(q)
      PROVE  TypeOK'
  BY <1>8, EndMoves DEF TypeOK, Drop, OnlyMoves, tables, history
<1>9. ASSUME NEW w \in writes, UpdateUserVisit(w)
      PROVE  TypeOK'
  BY <1>9, WrittenType DEF TypeOK, UpdateUserVisit, history
<1>10. ASSUME NEW w \in writes, LoseUserVisit(w)
       PROVE  TypeOK'
  BY <1>10 DEF TypeOK, LoseUserVisit
<1>11. ASSUME NEW u \in users, RemoveUser(u)
       PROVE  TypeOK'
  BY <1>11 DEF TypeOK, RemoveUser
<1>12. QED
  BY <1>1, <1>2, <1>3, <1>4, <1>5, <1>6, <1>7, <1>8, <1>9, <1>10, <1>11
  DEF Next, Visitor, RequestStep, Kinds, Logins

\* Which actions change what.
LEMMA Frames ==
    ASSUME Next
    PROVE  /\ now' = now \/ now' = now + 1
           /\ disturbed \subseteq disturbed'
           /\ era' = era \/ \E q \in Requests : Answer(q)
           /\ \/ jar' = jar
              \/ \E q \in Requests : Answer(q)
              \/ \E b \in Browsers : Expire(b)
           /\ tokens' = tokens \/ \E q \in Requests : Authenticate(q)
           /\ \/ UNCHANGED <<users, removed>>
              \/ \E q \in Requests : Authenticate(q)
              \/ \E u \in users : RemoveUser(u)
           /\ \/ visits' = visits /\ writes' \subseteq writes
              \/ \E q \in Requests : BootSharedLogic(q)
              \/ \E w \in writes : UpdateUserVisit(w)
<1>1. CASE \E b \in Browsers : Visitor(b)
  BY <1>1 DEF Visitor, Expire, Arrive, tables, history
<1>2. ASSUME NEW q \in Requests, RequestStep(q)
      PROVE  /\ now' = now
             /\ disturbed \subseteq disturbed'
             /\ era' = era \/ Answer(q)
             /\ jar' = jar \/ Answer(q)
             /\ tokens' = tokens \/ Authenticate(q)
             /\ UNCHANGED <<users, removed>> \/ Authenticate(q)
             /\ (visits' = visits /\ writes' \subseteq writes) \/ BootSharedLogic(q)
  <2>1. CASE BootSharedLogic(q)
    BY <2>1 DEF BootSharedLogic
  <2>2. CASE Answer(q)
    BY <2>2 DEF Answer, tables
  <2>3. CASE Authenticate(q)
    BY <2>3 DEF Authenticate, history
  <2>4. CASE ValidateRefreshToken(q) \/ RefuseLogin(q) \/ Drop(q)
    BY <2>4 DEF ValidateRefreshToken, RefuseLogin, Drop, tables, history
  <2>5. QED
    BY <1>2, <2>1, <2>2, <2>3, <2>4 DEF RequestStep
<1>3. CASE \E w \in writes : UpdateUserVisit(w) \/ LoseUserVisit(w)
  BY <1>3 DEF UpdateUserVisit, LoseUserVisit, history
<1>4. CASE \E u \in users : RemoveUser(u)
  BY <1>4 DEF RemoveUser
<1>5. QED
  BY <1>1, <1>2, <1>3, <1>4 DEF Next

\* Neither the clock nor the logins of a browser go back.
LEMMA TimeGoesOn ==
    ASSUME TypeOK, \A q \in Requests : Serving(q) => RequestInOrder(q), Next
    PROVE  /\ now \in Nat /\ now' \in Nat /\ now <= now'
           /\ \A b \in Browsers : era[b] \in Nat /\ era'[b] \in Nat /\ era[b] <= era'[b]
<1>1. /\ now \in Nat /\ now' \in Nat /\ \A b \in Browsers : era[b] \in Nat /\ era'[b] \in Nat
  BY TypePreserved, SessionAssumption DEF TypeOK
<1>2. now' = now \/ now' = now + 1
  BY Frames
<1>3. era' = era \/ \E b \in Browsers \cup {NoId} : era' = [era EXCEPT ![b] = era[b] + 1]
  <2>1. ASSUME NEW q \in Requests, Answer(q)
        PROVE  era' = era \/ \E b \in Browsers \cup {NoId} : era' = [era EXCEPT ![b] = era[b] + 1]
    <3>1. request[q].browser \in Browsers \cup {NoId}
      BY DEF TypeOK, RequestRecords
    <3>2. era' = era \/ era' = [era EXCEPT ![request[q].browser] = era[request[q].browser] + 1]
      BY <2>1 DEF Answer
    <3>3. QED
      BY <3>1, <3>2
  <2>2. (\E q \in Requests : Answer(q)) \/ era' = era
    BY Frames
  <2>3. QED
    BY <2>1, <2>2
<1>4. \A b \in Browsers : era[b] <= era'[b]
  BY <1>1, <1>3 DEF TypeOK
<1>5. QED
  BY <1>1, <1>2, <1>4

\* A request that a step leaves alone stays in order.
LEMMA BystanderInOrder ==
    ASSUME TypeOK, NEW p \in Requests, Serving(p) => RequestInOrder(p) /\ LoginInOrder(p),
           request'[p] = request[p], now \in Nat, now' \in Nat, now <= now',
           \A b \in Browsers : era[b] \in Nat /\ era'[b] \in Nat /\ era[b] <= era'[b]
    PROVE  (Serving(p) => RequestInOrder(p) /\ LoginInOrder(p))'
<1> SUFFICES ASSUME Serving(p) PROVE RequestInOrder(p)' /\ LoginInOrder(p)'
  BY DEF Serving
<1>1. RequestInOrder(p) /\ LoginInOrder(p)
  OBVIOUS
<1>2. /\ request[p].at \in Nat /\ request[p].era \in Nat
  BY SessionAssumption DEF TypeOK, RequestRecords
<1>3. request[p].at <= now' /\ request[p].era <= era'[request[p].browser]
  BY <1>1, <1>2 DEF RequestInOrder
<1>4. QED
  BY <1>1, <1>3 DEF RequestInOrder, LoginInOrder

\* The requests stay in order.
LEMMA OrderPreserved ==
    ASSUME TypeOK, \A q \in Requests : Serving(q) => RequestInOrder(q) /\ LoginInOrder(q), Next
    PROVE  \A q \in Requests : (Serving(q) => RequestInOrder(q) /\ LoginInOrder(q))'
<1>1. /\ now \in Nat /\ now' \in Nat /\ now <= now'
      /\ \A b \in Browsers : era[b] \in Nat /\ era'[b] \in Nat /\ era[b] <= era'[b]
  BY TimeGoesOn
<1>2. ASSUME NEW q \in Requests, OnlyMoves(q),
             (Serving(q) => RequestInOrder(q) /\ LoginInOrder(q))'
      PROVE  \A p \in Requests : (Serving(p) => RequestInOrder(p) /\ LoginInOrder(p))'
  BY <1>1, <1>2, BystanderInOrder DEF OnlyMoves
<1>3. ASSUME request' = request
      PROVE  \A p \in Requests : (Serving(p) => RequestInOrder(p) /\ LoginInOrder(p))'
  BY <1>1, <1>3, BystanderInOrder
<1>4. ASSUME NEW q \in Requests, NEW b \in Browsers, NEW kind \in Kinds,
             NEW app \in Apps \cup {NoApp}, NEW link \in Referrers \cup {NoId},
             Arrive(q, b, kind, app, link)
      PROVE  \A p \in Requests : (Serving(p) => RequestInOrder(p) /\ LoginInOrder(p))'
  <2>1. /\ OnlyMoves(q) /\ request'[q].id \in Ids
        /\ request'[q].step = FirstStep(kind) /\ request'[q].kind = kind
        /\ request'[q].browser = b
        /\ request'[q].sets = FirstSets(b, kind, request'[q].id, link)
        /\ request'[q].renew = FALSE /\ request'[q].answered = Keep
        /\ request'[q].at = 0 /\ request'[q].era = era[b]
    <3>1. Arrived(q, b, kind, app, link)
      BY <1>4, ArriveMoves
    <3>2. QED
      BY <3>1 DEF Arrived
  <2>2. RequestInOrder(q)'
    <3>1. /\ kind = "logout" => FirstStep(kind) = "answer" /\ request'[q].sets = NoCookies
          /\ FirstStep(kind) \in {"validate", "read"} => kind = "boot"
          /\ FirstStep(kind) = "login" => kind \in Logins
      BY <2>1 DEF FirstStep, FirstSets, Kinds, Logins
    <3>2. request'[q].at <= now' /\ request'[q].era <= era'[request'[q].browser]
      BY <1>1, <2>1
    <3>3. QED
      BY <2>1, <3>1, <3>2 DEF RequestInOrder
  <2>3. LoginInOrder(q)'
    <3>1. CASE kind \in Logins
      <4>1. request'[q].sets.auth = Keep /\ request'[q].sets.refresh = Keep
        BY <2>1, <3>1 DEF FirstSets, Logins, AllKept, Cookies
      <4>2. QED
        BY <2>1, <4>1 DEF LoginInOrder
    <3>2. CASE kind \notin Logins
      BY <2>1, <3>2 DEF LoginInOrder
    <3>3. QED
      BY <3>1, <3>2
  <2>4. QED
    BY <1>2, <2>1, <2>2, <2>3
<1>5. ASSUME NEW q \in Requests, Working(q)
      PROVE  \A p \in Requests : (Serving(p) => RequestInOrder(p) /\ LoginInOrder(p))'
  <2>1. /\ OnlyMoves(q) /\ Serving(q)
        /\ request'[q].kind = request[q].kind /\ request'[q].browser = request[q].browser
        /\ request'[q].id = request[q].id /\ request'[q].era = request[q].era
        /\ UNCHANGED <<now, era>>
    BY <1>5, WorkMoves
  <2>2. RequestInOrder(q) /\ LoginInOrder(q)
    BY <2>1
  <2>3. /\ request[q].kind \in Kinds /\ request[q].browser \in Browsers /\ request[q].id \in Ids
        /\ request[q].at <= now /\ request[q].era <= era[request[q].browser]
        /\ request[q].renew => request[q].user # NoId
        /\ request[q].step \in {"validate", "read"} => request[q].kind = "boot"
        /\ request[q].step = "login" => request[q].kind \in Logins
    BY <2>2 DEF RequestInOrder
  <2>4. CASE ValidateRefreshToken(q)
    <3>1. /\ request[q].step = "validate" /\ request'[q].step \in {"read", "answer"}
          /\ request'[q].answered = request[q].answered
          /\ request'[q].at \in {request[q].at, now}
          /\ \/ request'[q].user = request[q].user /\ request'[q].renew = request[q].renew
             \/ request'[q].user \in Ids
      BY <2>4, ValidateMoves DEF TypeOK
    <3>2. request[q].answered = Keep
      BY <2>2, <3>1 DEF RequestInOrder
    <3>3. request'[q].at <= now' /\ (request'[q].renew => request'[q].user # NoId)
      BY <1>1, <2>1, <2>3, <3>1, SessionAssumption
    <3>4. RequestInOrder(q)' /\ LoginInOrder(q)'
      BY <2>1, <2>3, <3>1, <3>2, <3>3 DEF RequestInOrder, LoginInOrder, Logins
    <3>5. QED
      BY <1>2, <2>1, <3>4
  <2>5. CASE BootSharedLogic(q)
    <3>1. /\ request[q].step = "read" /\ request'[q].step = "answer"
          /\ request'[q].at = request[q].at
          /\ request'[q].user = request[q].user /\ request'[q].renew = request[q].renew
      BY <2>2, <2>5, BootMoves
    <3>2. RequestInOrder(q)' /\ LoginInOrder(q)'
      BY <2>1, <2>3, <3>1 DEF RequestInOrder, LoginInOrder, Logins
    <3>3. QED
      BY <1>2, <2>1, <3>2
  <2>6. CASE Authenticate(q)
    <3>1. /\ request[q].step = "login" /\ request'[q].step = "answer"
          /\ request'[q].at = request[q].at
          /\ request'[q].user = request[q].user /\ request'[q].renew = request[q].renew
          /\ request'[q].sets.auth \in Ids
          /\ request'[q].sets.refresh = IF request[q].kind = "callback"
                                        THEN request'[q].sets.auth ELSE Keep
      BY <2>2, <2>6, AuthenticateMoves
    <3>2. RequestInOrder(q)' /\ LoginInOrder(q)'
      BY <2>1, <2>3, <3>1 DEF RequestInOrder, LoginInOrder, Logins
    <3>3. QED
      BY <1>2, <2>1, <3>2
  <2>7. CASE RefuseLogin(q)
    <3>1. /\ request[q].step = "login" /\ request'[q].step = "answer"
          /\ request'[q].at = request[q].at /\ request'[q].sets = request[q].sets
          /\ request'[q].user = request[q].user /\ request'[q].renew = request[q].renew
      BY <2>7, RefuseMoves
    <3>2. RequestInOrder(q)' /\ LoginInOrder(q)'
      BY <2>1, <2>2, <2>3, <3>1 DEF RequestInOrder, LoginInOrder, Logins
    <3>3. QED
      BY <1>2, <2>1, <3>2
  <2>8. QED
    BY <1>5, <2>4, <2>5, <2>6, <2>7 DEF Working
<1>6. ASSUME NEW q \in Requests, Answer(q) \/ Drop(q)
      PROVE  \A p \in Requests : (Serving(p) => RequestInOrder(p) /\ LoginInOrder(p))'
  <2>1. OnlyMoves(q) /\ request'[q].step = "idle"
    BY <1>6, EndMoves DEF Idle
  <2>2. QED
    BY <1>2, <2>1 DEF Serving
<1>7. CASE request' = request
  BY <1>3, <1>7
<1>8. QED
  BY <1>4, <1>5, <1>6, <1>7
  DEF Next, Visitor, RequestStep, Working, Kinds, Logins, Expire, UpdateUserVisit,
      LoseUserVisit, RemoveUser

\* Request q is what it was, or has the cookies of the account of b if it is one of b's.
StaysMine(b, q) ==
    \/ request'[q] = request[q]
    \/ ( /\ Reliable(b) /\ {jar[b].auth, jar[b].refresh} \subseteq Mine(b)
         /\ Serving(q)' /\ request'[q].browser = b /\ Current(q)' ) =>
           /\ {request'[q].seen.refresh, request'[q].user} \subseteq Mine(b)
           /\ request'[q].kind \notin Logins =>
                /\ request'[q].sets.auth \in Mine(b) \cup {Keep}
                /\ request'[q].sets.refresh \in {NoId, Keep}

\* The cookies of b stay those of its account when neither its jar nor its account
\* changes, and its requests are those it had, with cookies of its account.
LEMMA CookiesStayMine ==
    ASSUME NEW b \in Browsers, CookiesAreMine(b), Reliable(b)' => Reliable(b),
           jar'[b] = jar[b], account'[b] = account[b], era'[b] = era[b],
           \A q \in Requests : StaysMine(b, q)
    PROVE  CookiesAreMine(b)'
<1> SUFFICES ASSUME Reliable(b)'
             PROVE  /\ {jar'[b].auth, jar'[b].refresh} \subseteq Mine(b)'
                    /\ \A q \in Requests :
                         (Serving(q)' /\ request'[q].browser = b /\ Current(q)') =>
                           /\ {request'[q].seen.refresh, request'[q].user} \subseteq Mine(b)'
                           /\ request'[q].kind \notin Logins =>
                                /\ request'[q].sets.auth \in Mine(b)' \cup {Keep}
                                /\ request'[q].sets.refresh \in {NoId, Keep}
  BY DEF CookiesAreMine
<1>1. Mine(b)' = Mine(b)
  BY DEF Mine
<1>2. /\ Reliable(b)
      /\ {jar[b].auth, jar[b].refresh} \subseteq Mine(b)
      /\ \A q \in Requests :
           (Serving(q) /\ request[q].browser = b /\ Current(q)) =>
               /\ {request[q].seen.refresh, request[q].user} \subseteq Mine(b)
               /\ request[q].kind \notin Logins =>
                    /\ request[q].sets.auth \in Mine(b) \cup {Keep}
                    /\ request[q].sets.refresh \in {NoId, Keep}
  BY DEF CookiesAreMine
<1>3. ASSUME NEW q \in Requests, request'[q] = request[q],
             Serving(q)', request'[q].browser = b, Current(q)'
      PROVE  Serving(q) /\ request[q].browser = b /\ Current(q)
  BY <1>3 DEF Serving, Current
<1>4. QED
  BY <1>1, <1>2, <1>3 DEF StaysMine

\* An answer that logs a browser in or out leaves it the cookies of its account, and
\* makes its other requests those of before.
LEMMA TurnIsMine ==
    ASSUME TypeOK, TypeOK', NEW q \in Requests, NEW b \in Browsers,
           RequestInOrder(q), LoginInOrder(q), Answer(q), request[q].browser = b,
           request[q].kind = "logout" \/ (request[q].kind \in Logins /\ request[q].sets.auth # Keep),
           \A p \in Requests : (Serving(p) => RequestInOrder(p))
    PROVE  CookiesAreMine(b)'
<1> DEFINE r == request[q]
<1> SUFFICES ASSUME Reliable(b)'
             PROVE  /\ {jar'[b].auth, jar'[b].refresh} \subseteq Mine(b)'
                    /\ \A p \in Requests :
                         (Serving(p)' /\ request'[p].browser = b) => ~Current(p)'
  BY DEF CookiesAreMine
<1>1. /\ jar'[b] = Overlay(r.sets, jar[b]) /\ era'[b] = era[b] + 1
      /\ jar[b] \in Jars /\ r.sets \in SetCookies /\ era[b] \in Nat
  BY DEF Answer, TypeOK, RequestRecords
<1>2. ASSUME r.kind = "logout"
      PROVE  {jar'[b].auth, jar'[b].refresh} \subseteq Mine(b)'
  <2>1. r.sets = NoCookies
    BY <1>2 DEF RequestInOrder
  <2>2. jar'[b].auth = NoId /\ jar'[b].refresh = NoId
    BY <1>1, <2>1, SessionAssumption DEF Overlay, NoCookies, Cookies
  <2>3. QED
    BY <2>2 DEF Mine
<1>3. ASSUME r.kind \in Logins, r.sets.auth # Keep
      PROVE  {jar'[b].auth, jar'[b].refresh} \subseteq Mine(b)'
  <2>1. account'[b] = r.sets.auth /\ r.sets.auth \in Ids
    BY <1>3 DEF Answer, TypeOK, LoginInOrder
  <2>2. jar'[b].auth = r.sets.auth
    BY <1>1, <1>3 DEF Overlay, Cookies
  <2>3. CASE r.kind = "callback"
    <3>1. r.sets.refresh = r.sets.auth
      BY <1>3, <2>3 DEF LoginInOrder
    <3>2. jar'[b].refresh = r.sets.auth
      BY <1>1, <1>3, <3>1 DEF Overlay, Cookies
    <3>3. QED
      BY <2>1, <2>2, <3>2 DEF Mine
  <2>4. CASE r.kind = "authenticate"
    <3>1. "leftover" \notin excuses'[b]
      BY <2>1, SessionAssumption DEF Reliable
    <3>2. Overlay(r.sets, jar[b]).refresh \notin {NoId, Unknown, r.sets.auth}
            => "leftover" \in excuses'[b]
      BY <1>3, <2>4 DEF Answer, TypeOK
    <3>3. jar'[b].refresh \in {NoId, Unknown, r.sets.auth}
      BY <1>1, <3>1, <3>2
    <3>4. QED
      BY <2>1, <2>2, <3>3 DEF Mine
  <2>5. QED
    BY <1>3, <2>3, <2>4 DEF Logins
<1>4. {jar'[b].auth, jar'[b].refresh} \subseteq Mine(b)'
  BY <1>2, <1>3
<1>5. ASSUME NEW p \in Requests, Serving(p)', request'[p].browser = b, Current(p)'
      PROVE  FALSE
  <2>1. p # q /\ request'[p] = request[p]
    BY <1>5, EndMoves DEF OnlyMoves, Serving, Idle
  <2>2. request[p].era <= era[b] /\ request[p].era \in Nat
    BY <1>5, <2>1 DEF Serving, RequestInOrder, TypeOK, RequestRecords
  <2>3. request[p].era = era[b] + 1
    BY <1>1, <1>5, <2>1 DEF Current
  <2>4. QED
    BY <1>1, <2>2, <2>3
<1>6. QED
  BY <1>4, <1>5

LEMMA MinePreserved ==
    ASSUME Accountable, TypeOK', Next, NEW b \in Browsers
    PROVE  CookiesAreMine(b)'
<1> USE DEF Accountable
<1>1. CookiesAreMine(b) /\ TypeOK
  OBVIOUS
<1>2. ASSUME NEW q \in Requests, NEW c \in Browsers, NEW kind \in Kinds,
             NEW app \in Apps \cup {NoApp}, NEW link \in Referrers \cup {NoId},
             Arrive(q, c, kind, app, link)
      PROVE  CookiesAreMine(b)'
  <2>1. Arrived(q, c, kind, app, link)
    BY <1>2, ArriveMoves
  <2>2. Reliable(b)' => Reliable(b)
    BY <1>2 DEF Reliable, Arrive, TypeOK
  <2>3. jar'[b] = jar[b] /\ account'[b] = account[b] /\ era'[b] = era[b]
    BY <1>2 DEF Arrive
  <2>4. ASSUME {jar[b].auth, jar[b].refresh} \subseteq Mine(b), request'[q].browser = b
        PROVE  /\ {request'[q].seen.refresh, request'[q].user} \subseteq Mine(b)
               /\ request'[q].kind \notin Logins =>
                    /\ request'[q].sets.auth \in Mine(b) \cup {Keep}
                    /\ request'[q].sets.refresh \in {NoId, Keep}
    <3>1. /\ request'[q].seen = jar[b] /\ request'[q].user = jar[b].auth
          /\ request'[q].sets = FirstSets(b, kind, request'[q].id, link)
      BY <2>1, <2>4 DEF Arrived
    <3>2. request'[q].sets.auth \in {NoId, Keep} /\ request'[q].sets.refresh \in {NoId, Keep}
      BY <3>1 DEF FirstSets, AllKept, NoCookies, Cookies
    <3>3. QED
      BY <2>4, <3>1, <3>2 DEF Mine
  <2>5. \A p \in Requests : StaysMine(b, p)
    BY <2>1, <2>4 DEF Arrived, OnlyMoves, StaysMine
  <2>6. QED
    BY <1>1, <2>2, <2>3, <2>5, CookiesStayMine
<1>3. ASSUME NEW q \in Requests, Working(q)
      PROVE  CookiesAreMine(b)'
  <2>1. /\ OnlyMoves(q) /\ Serving(q)
        /\ request'[q].kind = request[q].kind /\ request'[q].browser = request[q].browser
        /\ request'[q].seen = request[q].seen /\ request'[q].era = request[q].era
        /\ UNCHANGED <<jar, account, era, excuses>>
    BY <1>1, <1>3, WorkMoves
  <2>2. RequestInOrder(q)
    BY <2>1
  <2>3. Reliable(b)' => Reliable(b)
    BY <2>1 DEF Reliable
  <2>4. ASSUME Reliable(b), request'[q].browser = b, Current(q)'
        PROVE  /\ {request'[q].seen.refresh, request'[q].user} \subseteq Mine(b)
               /\ request'[q].kind \notin Logins =>
                    /\ request'[q].sets.auth \in Mine(b) \cup {Keep}
                    /\ request'[q].sets.refresh \in {NoId, Keep}
    <3>1. /\ {request[q].seen.refresh, request[q].user} \subseteq Mine(b)
          /\ request[q].kind \notin Logins =>
               /\ request[q].sets.auth \in Mine(b) \cup {Keep}
               /\ request[q].sets.refresh \in {NoId, Keep}
      BY <1>1, <2>1, <2>4 DEF CookiesAreMine, Current
    <3>2. CASE ValidateRefreshToken(q)
      <4>1. /\ request'[q].user \in {request[q].user, request[q].seen.refresh}
            /\ request'[q].sets = request[q].sets
        BY <1>1, <3>2, ValidateMoves
      <4>2. QED
        BY <2>1, <3>1, <4>1
    <3>3. CASE BootSharedLogic(q)
      <4>1. /\ request'[q].user = request[q].user
            /\ request'[q].sets.auth \in {request[q].sets.auth, request[q].user}
            /\ request'[q].sets.refresh = request[q].sets.refresh
        BY <1>1, <2>2, <3>3, BootMoves
      <4>2. QED
        BY <2>1, <3>1, <4>1
    <3>4. CASE Authenticate(q)
      <4>1. /\ request'[q].user = request[q].user /\ request[q].step = "login"
        BY <1>1, <2>2, <3>4, AuthenticateMoves
      <4>2. request[q].kind \in Logins
        BY <2>2, <4>1 DEF RequestInOrder
      <4>3. QED
        BY <2>1, <3>1, <4>1, <4>2
    <3>5. CASE RefuseLogin(q)
      <4>1. request'[q].user = request[q].user /\ request'[q].sets = request[q].sets
        BY <1>1, <3>5, RefuseMoves
      <4>2. QED
        BY <2>1, <3>1, <4>1
    <3>6. QED
      BY <1>3, <3>2, <3>3, <3>4, <3>5 DEF Working
  <2>5. \A p \in Requests : StaysMine(b, p)
    BY <2>1, <2>4 DEF OnlyMoves, StaysMine
  <2>6. QED
    BY <1>1, <2>1, <2>3, <2>5, CookiesStayMine
<1>4. ASSUME NEW q \in Requests, Answer(q)
      PROVE  CookiesAreMine(b)'
  <2> DEFINE r == request[q]
  <2>1. RequestInOrder(q) /\ LoginInOrder(q) /\ r.step = "answer"
    BY <1>4 DEF Answer, Serving
  <2>2. r.browser \in Browsers
    BY <2>1 DEF RequestInOrder
  <2>3. ~Serving(q)' /\ \A p \in Requests \ {q} : request'[p] = request[p]
    BY <1>1, <1>4, EndMoves DEF OnlyMoves, Serving, Idle
  <2>4. CASE r.browser # b
    <3>1. /\ jar'[b] = jar[b] /\ account'[b] = account[b] /\ era'[b] = era[b]
          /\ excuses'[b] = excuses[b]
      BY <1>1, <1>4, <2>2, <2>4 DEF Answer, TypeOK
    <3>2. Reliable(b)' => Reliable(b)
      BY <3>1 DEF Reliable
    <3>3. \A p \in Requests : StaysMine(b, p)
      BY <2>3 DEF StaysMine
    <3>4. QED
      BY <1>1, <3>1, <3>2, <3>3, CookiesStayMine
  <2>5. CASE r.browser = b /\ (r.kind = "logout" \/ (r.kind \in Logins /\ r.sets.auth # Keep))
    BY <1>1, <1>4, <2>1, <2>5, TurnIsMine
  <2>6. CASE r.browser = b /\ ~(r.kind = "logout" \/ (r.kind \in Logins /\ r.sets.auth # Keep))
    <3>1. /\ jar'[b] = Overlay(r.sets, jar[b])
          /\ account'[b] = account[b] /\ era'[b] = era[b]
          /\ excuses[b] \subseteq excuses'[b]
          /\ r.era # era[b] => "overtaken" \in excuses'[b]
      <4>1. /\ jar \in [Browsers -> Jars] /\ account \in [Browsers -> Ids \cup {NoId}]
            /\ excuses \in [Browsers -> SUBSET Excuses]
        BY <1>1 DEF TypeOK
      <4>2. jar'[b] = Overlay(r.sets, jar[b])
        BY <1>4, <2>6, <4>1 DEF Answer
      <4>3. account' = account /\ era' = era
        <5>1. r.kind # "logout" /\ ~(r.kind \in Logins /\ r.sets.auth # Keep)
          BY <2>6
        <5>2. account' = IF r.kind \in Logins /\ r.sets.auth # Keep
                         THEN [account EXCEPT ![r.browser] = r.sets.auth]
                         ELSE IF (r.kind \in Logins /\ r.sets.auth # Keep) \/ r.kind = "logout"
                         THEN [account EXCEPT ![r.browser] = NoId] ELSE account
          BY <1>4 DEF Answer
        <5>3. era' = IF (r.kind \in Logins /\ r.sets.auth # Keep) \/ r.kind = "logout"
                     THEN [era EXCEPT ![r.browser] = @ + 1] ELSE era
          BY <1>4 DEF Answer
        <5>4. QED
          BY <5>1, <5>2, <5>3
      <4>4. PICK late, left : /\ excuses' = [excuses EXCEPT ![b] = @ \cup late \cup left]
                              /\ late = IF r.era = era[b] THEN {} ELSE {"overtaken"}
        BY <1>4, <2>6 DEF Answer
      <4>5. excuses'[b] = excuses[b] \cup late \cup left
        BY <4>1, <4>4
      <4>6. QED
        BY <4>2, <4>3, <4>4, <4>5
    <3> SUFFICES ASSUME Reliable(b)'
                 PROVE  /\ {jar'[b].auth, jar'[b].refresh} \subseteq Mine(b)'
                        /\ \A p \in Requests :
                             (Serving(p)' /\ request'[p].browser = b /\ Current(p)') =>
                               /\ {request'[p].seen.refresh, request'[p].user}
                                    \subseteq Mine(b)'
                               /\ request'[p].kind \notin Logins =>
                                    /\ request'[p].sets.auth \in Mine(b)' \cup {Keep}
                                    /\ request'[p].sets.refresh \in {NoId, Keep}
      BY DEF CookiesAreMine
    <3>2. Reliable(b) /\ Current(q) /\ Serving(q) /\ Mine(b)' = Mine(b)
      BY <2>1, <2>6, <3>1 DEF Reliable, Current, Serving, Mine
    <3>3. /\ {jar[b].auth, jar[b].refresh} \subseteq Mine(b)
          /\ \A p \in Requests :
               (Serving(p) /\ request[p].browser = b /\ Current(p)) =>
                   /\ {request[p].seen.refresh, request[p].user} \subseteq Mine(b)
                   /\ request[p].kind \notin Logins =>
                        /\ request[p].sets.auth \in Mine(b) \cup {Keep}
                        /\ request[p].sets.refresh \in {NoId, Keep}
      BY <1>1, <3>2 DEF CookiesAreMine
    <3>4. r.sets.auth \in Mine(b) \cup {Keep} /\ r.sets.refresh \in {NoId, Keep}
      <4>1. CASE r.kind \in Logins
        BY <2>1, <2>6, <4>1 DEF LoginInOrder
      <4>2. CASE r.kind \notin Logins
        BY <2>6, <3>2, <3>3, <4>2
      <4>3. QED
        BY <4>1, <4>2
    <3>5. {jar'[b].auth, jar'[b].refresh} \subseteq Mine(b)
      BY <3>1, <3>3, <3>4 DEF Overlay, Cookies, Mine
    <3>6. ASSUME NEW p \in Requests, Serving(p)', request'[p].browser = b, Current(p)'
          PROVE  /\ Serving(p) /\ request[p].browser = b /\ Current(p)
                 /\ request'[p] = request[p]
      BY <2>3, <3>1, <3>6 DEF Serving, Current
    <3>7. QED
      BY <3>2, <3>3, <3>5, <3>6
  <2>7. QED
    BY <2>4, <2>5, <2>6
<1>5. ASSUME NEW q \in Requests, Drop(q)
      PROVE  CookiesAreMine(b)'
  <2>1. ~Serving(q)' /\ \A p \in Requests \ {q} : request'[p] = request[p]
    BY <1>1, <1>5, EndMoves DEF OnlyMoves, Serving, Idle
  <2>2. /\ jar'[b] = jar[b] /\ account'[b] = account[b] /\ era'[b] = era[b]
        /\ Reliable(b)' => Reliable(b)
    BY <1>5 DEF Drop, history, Reliable
  <2>3. \A p \in Requests : StaysMine(b, p)
    BY <2>1 DEF StaysMine
  <2>4. QED
    BY <1>1, <2>2, <2>3, CookiesStayMine
<1>6. ASSUME NEW c \in Browsers, Expire(c)
      PROVE  CookiesAreMine(b)'
  <2>1. /\ request' = request /\ account' = account /\ era' = era
        /\ Reliable(b)' => Reliable(b)
    BY <1>6 DEF Expire, history, Reliable
  <2>2. jar'[b].auth \in {NoId, jar[b].auth} /\ jar'[b].refresh = jar[b].refresh
    <3>1. jar[b] \in Jars
      BY <1>1 DEF TypeOK
    <3>2. jar'[b] = jar[b] \/ jar'[b] = [jar[b] EXCEPT !.auth = NoId]
      BY <1>1, <1>6 DEF Expire, TypeOK
    <3>3. QED
      BY <3>1, <3>2 DEF Jars
  <2>3. QED
    BY <1>1, <2>1, <2>2 DEF CookiesAreMine, Mine, Current, Serving
<1>7. CASE UNCHANGED <<jar, request, account, era, excuses>>
  BY <1>1, <1>7 DEF CookiesAreMine, Mine, Current, Serving, Reliable
<1>8. QED
  BY <1>2, <1>3, <1>4, <1>5, <1>6, <1>7
  DEF Next, Visitor, RequestStep, Working, Kinds, Logins, UpdateUserVisit,
      LoseUserVisit, RemoveUser, history

LEMMA AccountableHolds == Spec => []Accountable
<1>1. Init => Accountable
  <2> SUFFICES ASSUME Init PROVE Accountable
    OBVIOUS
  <2>1. TypeOK
    BY TypeInit
  <2>2. \A q \in Requests : ~Serving(q)
    BY DEF Init, Serving, Idle
  <2>3. \A b \in Browsers : jar[b].auth = NoId /\ jar[b].refresh \in {NoId, Unknown}
    BY DEF Init, NoCookies, Cookies
  <2>4. QED
    BY <2>1, <2>2, <2>3 DEF Accountable, CookiesAreMine, Mine
<1>2. Accountable /\ [Next]_vars => Accountable'
  <2> SUFFICES ASSUME Accountable, [Next]_vars PROVE Accountable'
    OBVIOUS
  <2>1. CASE Next
    <3>1. TypeOK'
      BY <2>1, TypePreserved DEF Accountable
    <3>2. \A q \in Requests : (Serving(q) => RequestInOrder(q) /\ LoginInOrder(q))'
      BY <2>1, OrderPreserved DEF Accountable
    <3>3. \A b \in Browsers : CookiesAreMine(b)'
      BY <2>1, <3>1, MinePreserved
    <3>4. QED
      BY <3>1, <3>2, <3>3 DEF Accountable
  <2>2. CASE UNCHANGED vars
    BY <2>2 DEF vars, tables, history, Accountable, TypeOK, Serving, RequestInOrder,
                LoginInOrder, CookiesAreMine, Reliable, Mine, Current
  <2>3. QED
    BY <2>1, <2>2
<1>3. QED
  BY <1>1, <1>2, PTL DEF Spec

-----------------------------------------------------------------------------
(* Ids: Identified.                                                        *)

\* Who is a member, and what is held by members.
IdsOfMembers ==
    /\ tokens \subseteq Members
    /\ \A b \in Browsers : jar[b].auth \in Members \cup {NoId}

\* What a request holds is of members, or a new id.
Holds(q) ==
    /\ request[q].user \in Members \cup {NoId}
    /\ request[q].sets.auth \in Members \cup {NoId, Keep}
    /\ request[q].sets.tracking \in Members \cup {NoId, Keep} \/ Fresh(q)

LEMMA IdentifiedParts ==
    Identified <=> /\ IdsOfMembers
                   /\ \A q \in Requests : Serving(q) => Holds(q) /\ FreshIsAlone(q)
BY DEF Identified, IdsOfMembers, Holds

\* A user who is removed has been one.
LEMMA MembersStay ==
    ASSUME TypeOK, \A q \in Requests : Serving(q) => RequestInOrder(q), Next
    PROVE  Members \subseteq Members'
<1>1. ASSUME NEW q \in Requests, Authenticate(q)
      PROVE  Members \subseteq Members'
  BY <1>1 DEF Authenticate, Members, history
<1>2. ASSUME NEW u \in users, RemoveUser(u)
      PROVE  Members \subseteq Members'
  BY <1>2 DEF RemoveUser, Members
<1>3. CASE UNCHANGED <<users, removed>>
  BY <1>3 DEF Members
<1>4. QED
  BY <1>1, <1>2, <1>3, Frames

LEMMA HoldsPreserved ==
    ASSUME Accountable, IdsOfMembers, Next, NEW p \in Requests, Serving(p) => Holds(p),
           Serving(p)'
    PROVE  Holds(p)'
<1>1. TypeOK /\ \A q \in Requests : Serving(q) => RequestInOrder(q)
  BY DEF Accountable
<1>2. Members \subseteq Members'
  BY <1>1, MembersStay
<1>3. ASSUME request'[p] = request[p]
      PROVE  Holds(p)'
  BY <1>2, <1>3 DEF Holds, Serving, Fresh
<1>4. ASSUME NEW q \in Requests, OnlyMoves(q), (p = q) => Holds(p)'
      PROVE  Holds(p)'
  BY <1>3, <1>4 DEF OnlyMoves
<1>5. ASSUME NEW q \in Requests, NEW b \in Browsers, NEW kind \in Kinds,
             NEW app \in Apps \cup {NoApp}, NEW link \in Referrers \cup {NoId},
             Arrive(q, b, kind, app, link)
      PROVE  Holds(p)'
  <2>1. Arrived(q, b, kind, app, link)
    BY <1>1, <1>5, ArriveMoves
  <2> DEFINE id == request'[q].id
  <2>2. /\ request'[q].seen = jar[b] /\ request'[q].user = jar[b].auth
        /\ request'[q].sets = FirstSets(b, kind, id, link) /\ id \in TrackingIds(b)
        /\ OnlyMoves(q)
    BY <2>1 DEF Arrived
  <2>3. jar[b].auth \in Members' \cup {NoId}
    BY <1>2 DEF IdsOfMembers
  <2>4. /\ request'[q].sets.auth \in {NoId, Keep}
        /\ request'[q].sets.tracking = IF kind = "logout" THEN NoId
                                       ELSE IF id = jar[b].tracking THEN Keep ELSE id
    BY <2>2 DEF FirstSets, AllKept, NoCookies, Cookies
  <2>5. request'[q].sets.tracking \in Members' \cup {NoId, Keep} \/ Fresh(q)'
    BY <2>2, <2>3, <2>4 DEF TrackingIds, Fresh
  <2>6. Holds(q)'
    BY <2>2, <2>3, <2>4, <2>5 DEF Holds
  <2>7. QED
    BY <1>4, <2>2, <2>6
<1>6. ASSUME NEW q \in Requests, Working(q)
      PROVE  Holds(p)'
  <2>1. /\ OnlyMoves(q) /\ Serving(q) /\ request'[q].seen = request[q].seen
        /\ RequestInOrder(q)
    BY <1>1, <1>6, WorkMoves
  <2>2. ASSUME Holds(q)
        PROVE  Holds(q)'
    <3>1. /\ request[q].user \in Members' \cup {NoId}
          /\ request[q].sets.auth \in Members' \cup {NoId, Keep}
          /\ request[q].sets.tracking \in Members' \cup {NoId, Keep} \/ Fresh(q)'
      BY <1>2, <2>1, <2>2 DEF Holds, Fresh
    <3>2. CASE ValidateRefreshToken(q)
      <4>1. /\ request'[q].user = request[q].user \/ request'[q].user \in tokens
            /\ request'[q].sets = request[q].sets
        BY <1>1, <3>2, ValidateMoves
      <4>2. request'[q].user \in Members' \cup {NoId}
        BY <1>2, <3>1, <4>1 DEF IdsOfMembers
      <4>3. QED
        BY <3>1, <4>1, <4>2 DEF Holds
    <3>3. CASE BootSharedLogic(q)
      <4>1. /\ request'[q].user = request[q].user
            /\ request'[q].sets.auth \in {request[q].sets.auth, request[q].user}
            /\ request'[q].sets.tracking \in {NoId, request[q].sets.tracking}
        BY <1>1, <2>1, <3>3, BootMoves
      <4>2. QED
        BY <3>1, <4>1 DEF Holds
    <3>4. CASE Authenticate(q)
      <4>1. /\ request'[q].user = request[q].user
            /\ request'[q].sets.tracking = request[q].sets.tracking
               \/ request'[q].sets.tracking \in users
            /\ users' = users \cup {request'[q].sets.auth}
        BY <1>1, <2>1, <3>4, AuthenticateMoves
      <4>2. request'[q].sets.auth \in Members' /\ users \subseteq Members'
        BY <4>1 DEF Members
      <4>3. QED
        BY <3>1, <4>1, <4>2 DEF Holds
    <3>5. CASE RefuseLogin(q)
      <4>1. request'[q].user = request[q].user /\ request'[q].sets = request[q].sets
        BY <1>1, <3>5, RefuseMoves
      <4>2. QED
        BY <3>1, <4>1 DEF Holds
    <3>6. QED
      BY <1>6, <3>2, <3>3, <3>4, <3>5 DEF Working
  <2>3. QED
    BY <1>4, <2>1, <2>2
<1>7. ASSUME NEW q \in Requests, Answer(q) \/ Drop(q)
      PROVE  Holds(p)'
  <2>1. OnlyMoves(q) /\ request'[q].step = "idle"
    BY <1>1, <1>7, EndMoves DEF Idle
  <2>2. QED
    BY <1>4, <2>1 DEF Serving
<1>8. CASE request' = request
  BY <1>3, <1>8
<1>9. QED
  BY <1>5, <1>6, <1>7, <1>8
  DEF Next, Visitor, RequestStep, Working, Kinds, Logins, Expire, UpdateUserVisit,
      LoseUserVisit, RemoveUser

LEMMA IdsOfMembersPreserved ==
    ASSUME Accountable, IdsOfMembers, \A q \in Requests : Serving(q) => Holds(q), Next
    PROVE  IdsOfMembers'
<1>1. TypeOK /\ \A q \in Requests : Serving(q) => RequestInOrder(q)
  BY DEF Accountable
<1>2. Members \subseteq Members'
  BY <1>1, MembersStay
<1>3. ASSUME NEW q \in Requests, Authenticate(q)
      PROVE  IdsOfMembers'
  <2>1. RequestInOrder(q)
    BY <1>1, <1>3 DEF Authenticate, Serving
  <2>2. /\ users' = users \cup {request'[q].sets.auth}
        /\ tokens' \subseteq tokens \cup {request'[q].sets.auth}
    BY <1>1, <1>3, <2>1, AuthenticateMoves
  <2>3. tokens' \subseteq Members'
    BY <1>2, <2>2 DEF IdsOfMembers, Members
  <2>4. jar' = jar
    BY <1>3 DEF Authenticate
  <2>5. QED
    BY <1>2, <2>3, <2>4 DEF IdsOfMembers
<1>4. ASSUME NEW q \in Requests, Answer(q)
      PROVE  IdsOfMembers'
  <2> DEFINE b == request[q].browser
  <2>1. b \in Browsers /\ Holds(q)
    BY <1>1, <1>4 DEF Answer, Serving, RequestInOrder
  <2>2. tokens' = tokens /\ jar' = [jar EXCEPT ![b] = Overlay(request[q].sets, jar[b])]
    BY <1>4 DEF Answer, tables
  <2>3. Overlay(request[q].sets, jar[b]).auth \in Members \cup {NoId}
    BY <2>1 DEF Overlay, Cookies, Holds, IdsOfMembers
  <2>4. \A c \in Browsers : jar'[c].auth \in Members \cup {NoId}
    BY <1>1, <2>1, <2>2, <2>3 DEF TypeOK, IdsOfMembers
  <2>5. QED
    BY <1>2, <2>2, <2>4 DEF IdsOfMembers
<1>5. ASSUME NEW b \in Browsers, Expire(b)
      PROVE  IdsOfMembers'
  <2>1. tokens' = tokens /\ jar' = [jar EXCEPT ![b] = [jar[b] EXCEPT !.auth = NoId]]
    BY <1>5 DEF Expire, tables
  <2>2. \A c \in Browsers : jar'[c].auth \in {NoId, jar[c].auth}
    BY <1>1, <2>1 DEF TypeOK, Jars
  <2>3. QED
    BY <1>2, <2>1, <2>2 DEF IdsOfMembers
<1>6. CASE UNCHANGED <<tokens, jar>>
  BY <1>2, <1>6 DEF IdsOfMembers
<1>7. QED
  BY <1>3, <1>4, <1>5, <1>6, Frames

\* A request that was given an id stays alone.
LEMMA AlonePreserved ==
    ASSUME Accountable, Next, \A q \in Requests : Serving(q) => FreshIsAlone(q),
           NEW p \in Requests, Serving(p)'
    PROVE  FreshIsAlone(p)'
<1> DEFINE Quiet(c) == excuses[c] \cap {"overtaken", "twins"} = {}
           Lonely(q) == /\ jar[request[q].browser].tracking = NoId
                        /\ jar[request[q].browser].auth = NoId
                        /\ \A o \in Requests \ {q} :
                             Serving(o) => request[o].browser # request[q].browser
<1>1. /\ TypeOK
      /\ \A q \in Requests : Serving(q) => RequestInOrder(q)
  BY DEF Accountable
<1>2. \A q \in Requests : Serving(q) => request[q].browser \in Browsers
  BY <1>1 DEF RequestInOrder
<1>3. SUFFICES ASSUME Fresh(p)', Current(p)', Quiet(request[p].browser)'
               PROVE  Lonely(p)'
  BY DEF FreshIsAlone
<1>4. ASSUME Serving(p), Fresh(p), Current(p), Quiet(request[p].browser)
      PROVE  Lonely(p)
  BY <1>4 DEF FreshIsAlone
<1>5. ASSUME NEW q \in Requests, NEW b \in Browsers, NEW kind \in Kinds,
             NEW app \in Apps \cup {NoApp}, NEW link \in Referrers \cup {NoId},
             Arrive(q, b, kind, app, link)
      PROVE  Lonely(p)'
  <2>1. /\ request'[q].seen = jar[b] /\ request'[q].browser = b
        /\ \A o \in Requests \ {q} : request'[o] = request[o]
    <3>1. Arrived(q, b, kind, app, link)
      BY <1>1, <1>5, ArriveMoves
    <3>2. QED
      BY <3>1 DEF Arrived, OnlyMoves
  <2>2. /\ jar' = jar /\ era' = era /\ ~Serving(q)
        /\ excuses' = IF jar[b].auth = NoId /\ jar[b].tracking = NoId /\ Busy(b)
                      THEN [excuses EXCEPT ![b] = @ \cup {"twins"}] ELSE excuses
    BY <1>5 DEF Arrive
  <2>3. \A c \in Browsers : excuses[c] \subseteq excuses'[c]
    BY <1>1, <2>2 DEF TypeOK
  <2>4. ASSUME jar[b].auth = NoId, jar[b].tracking = NoId, Busy(b)
        PROVE  "twins" \in excuses'[b]
    BY <1>1, <2>2, <2>4 DEF TypeOK
  <2>5. CASE p = q
    <3>1. jar[b].auth = NoId /\ jar[b].tracking = NoId
      BY <1>3, <2>1, <2>5 DEF Fresh
    <3>2. ~Busy(b)
      BY <1>3, <2>1, <2>4, <2>5, <3>1
    <3>3. \A o \in Requests \ {p} : Serving(o)' => request'[o].browser # b
      BY <2>1, <2>5, <3>2 DEF Busy, Serving
    <3>4. QED
      BY <2>1, <2>2, <2>5, <3>1, <3>3
  <2>6. CASE p # q
    <3>1. /\ request'[p] = request[p] /\ Serving(p) /\ Fresh(p) /\ Current(p)
          /\ request[p].browser \in Browsers
      BY <1>2, <1>3, <2>1, <2>2, <2>6 DEF Serving, Fresh, Current
    <3>2. Quiet(request[p].browser)
      BY <1>3, <2>3, <3>1
    <3>3. Lonely(p)
      BY <1>4, <3>1, <3>2
    <3>4. request[p].browser # b
      BY <1>3, <2>4, <3>1, <3>3 DEF Busy
    <3>5. QED
      BY <2>1, <2>2, <3>1, <3>3, <3>4 DEF Serving
  <2>7. QED
    BY <2>5, <2>6
<1>6. ASSUME NEW q \in Requests, Working(q)
      PROVE  Lonely(p)'
  <2>1. /\ OnlyMoves(q) /\ Serving(q) /\ request'[q].step # "idle"
        /\ request'[q].browser = request[q].browser /\ request'[q].seen = request[q].seen
        /\ request'[q].era = request[q].era
        /\ UNCHANGED <<jar, era, excuses>>
    BY <1>1, <1>6, WorkMoves
  <2>2. \A o \in Requests : /\ Serving(o)' = Serving(o)
                            /\ request'[o].browser = request[o].browser
                            /\ request'[o].seen = request[o].seen
                            /\ request'[o].era = request[o].era
    BY <2>1 DEF OnlyMoves, Serving
  <2>3. Lonely(p)
    BY <1>3, <1>4, <2>1, <2>2 DEF Fresh, Current
  <2>4. QED
    BY <2>1, <2>2, <2>3
<1>7. ASSUME NEW q \in Requests, Answer(q)
      PROVE  Lonely(p)'
  <2> DEFINE b == request[q].browser
  <2>1. OnlyMoves(q) /\ ~Serving(q)' /\ Serving(q)
    <3>1. OnlyMoves(q) /\ request'[q] = Idle
      BY <1>1, <1>7, EndMoves
    <3>2. request[q].step = "answer"
      BY <1>7 DEF Answer
    <3>3. QED
      BY <3>1, <3>2 DEF Idle, Serving
  <2>2. p # q /\ request'[p] = request[p] /\ Serving(p)
    BY <2>1 DEF OnlyMoves, Serving
  <2>3. /\ \A c \in Browsers : excuses[c] \subseteq excuses'[c]
        /\ era' = era \/ era' = [era EXCEPT ![b] = era[b] + 1]
        /\ jar' = [jar EXCEPT ![b] = Overlay(request[q].sets, jar[b])]
    BY <1>1, <1>7 DEF Answer, TypeOK
  <2>4. request[p].browser \in Browsers /\ b \in Browsers
    BY <1>2, <2>1, <2>2
  <2>5. Fresh(p) /\ Quiet(request[p].browser)
    BY <1>3, <2>2, <2>3, <2>4 DEF Fresh
  <2>6. Current(p)
    <3>1. /\ request[p].era <= era[request[p].browser] /\ request[p].era \in Nat
          /\ era[request[p].browser] \in Nat
      BY <1>1, <2>2, <2>4 DEF RequestInOrder, TypeOK, RequestRecords
    <3>2. era'[request[p].browser] \in {era[request[p].browser], era[request[p].browser] + 1}
      BY <1>1, <2>3, <2>4 DEF TypeOK
    <3>3. request[p].era = era'[request[p].browser]
      BY <1>3, <2>2 DEF Current
    <3>4. QED
      BY <3>1, <3>2, <3>3 DEF Current
  <2>7. Lonely(p)
    BY <1>4, <2>2, <2>5, <2>6
  <2>8. request[p].browser # b
    BY <2>1, <2>2, <2>7
  <2>9. jar'[request[p].browser] = jar[request[p].browser]
    BY <1>1, <2>3, <2>4, <2>8 DEF TypeOK
  <2>10. QED
    BY <2>1, <2>2, <2>7, <2>9 DEF OnlyMoves, Serving
<1>8. ASSUME NEW q \in Requests, Drop(q)
      PROVE  Lonely(p)'
  <2>1. OnlyMoves(q) /\ ~Serving(q)' /\ UNCHANGED <<jar, era, excuses>>
    <3>1. OnlyMoves(q) /\ request'[q] = Idle
      BY <1>1, <1>8, EndMoves
    <3>2. UNCHANGED <<jar, era, excuses>>
      BY <1>8 DEF Drop, history
    <3>3. QED
      BY <3>1, <3>2 DEF Idle, Serving
  <2>2. p # q /\ request'[p] = request[p] /\ Serving(p)
    BY <2>1 DEF OnlyMoves, Serving
  <2>3. Lonely(p)
    BY <1>3, <1>4, <2>1, <2>2 DEF Fresh, Current
  <2>4. QED
    BY <2>1, <2>2, <2>3 DEF OnlyMoves, Serving
<1>9. ASSUME NEW b \in Browsers, Expire(b)
      PROVE  Lonely(p)'
  <2>1. request' = request /\ UNCHANGED <<era, excuses>>
    BY <1>9 DEF Expire, history
  <2>2. Lonely(p) /\ request[p].browser \in Browsers
    BY <1>2, <1>3, <1>4, <2>1 DEF Fresh, Current, Serving
  <2>3. \A c \in Browsers : /\ jar'[c].auth \in {NoId, jar[c].auth}
                            /\ jar'[c].tracking = jar[c].tracking
    <3>1. jar' = [jar EXCEPT ![b] = [jar[b] EXCEPT !.auth = NoId]]
      BY <1>9 DEF Expire
    <3>2. QED
      BY <1>1, <3>1 DEF TypeOK, Jars
  <2>4. QED
    BY <2>1, <2>2, <2>3 DEF Serving
<1>10. CASE UNCHANGED <<jar, request, era, excuses>>
  BY <1>3, <1>4, <1>10 DEF Fresh, Current, Serving
<1>11. QED
  BY <1>5, <1>6, <1>7, <1>8, <1>9, <1>10
  DEF Next, Visitor, RequestStep, Working, Kinds, Logins, UpdateUserVisit,
      LoseUserVisit, RemoveUser, history

LEMMA IdentifiedHolds == Spec => []Identified
<1>1. Init => Identified
  <2> SUFFICES ASSUME Init PROVE Identified
    OBVIOUS
  <2>1. \A q \in Requests : ~Serving(q)
    BY DEF Init, Serving, Idle
  <2>2. \A b \in Browsers : jar[b].auth = NoId
    BY DEF Init, NoCookies, Cookies
  <2>3. tokens = {}
    BY DEF Init
  <2>4. QED
    BY <2>1, <2>2, <2>3 DEF Identified
<1>2. Accountable /\ Identified /\ [Next]_vars => Identified'
  <2> SUFFICES ASSUME Accountable, Identified, [Next]_vars PROVE Identified'
    OBVIOUS
  <2>1. CASE Next
    <3>1. /\ IdsOfMembers /\ \A q \in Requests : Serving(q) => Holds(q) /\ FreshIsAlone(q)
      BY IdentifiedParts
    <3>2. IdsOfMembers'
      BY <2>1, <3>1, IdsOfMembersPreserved
    <3>3. ASSUME NEW q \in Requests, Serving(q)'
          PROVE  Holds(q)' /\ FreshIsAlone(q)'
      BY <2>1, <3>1, <3>3, HoldsPreserved, AlonePreserved
    <3>4. QED
      BY <3>2, <3>3 DEF Identified, IdsOfMembers, Holds
  <2>2. CASE UNCHANGED vars
    BY <2>2 DEF vars, tables, history, Identified, Members, Serving, Fresh, FreshIsAlone,
                Current
  <2>3. QED
    BY <2>1, <2>2
<1>3. QED
  BY <1>1, <1>2, AccountableHolds, PTL DEF Spec

-----------------------------------------------------------------------------
(* Visits: VisitsAreRecorded.                                              *)

\* No visit is of later than now.
Clocked ==
    /\ \A id \in Ids : \A v \in visits[id] : v.first <= now
    /\ \A w \in writes : w.first <= now

\* What VisitsAreRecorded says of one id.
Recorded(id) ==
    /\ VisitsInOrder(id)
    /\ shown[id] # Keep => OnRecord(id, shown[id])
    /\ \A q \in Requests :
         (Serving(q) /\ request[q].answered # Keep /\ Served(q) = id) =>
             OnRecord(id, request[q].answered)

LEMMA ClockedPreserved ==
    ASSUME Accountable, Clocked, Next
    PROVE  Clocked'
<1>1. /\ TypeOK /\ \A q \in Requests : Serving(q) => RequestInOrder(q)
      /\ now \in Nat /\ now' \in Nat /\ now <= now'
  BY TimeGoesOn DEF Accountable
<1>2. /\ \A id \in Ids : \A v \in visits[id] : v.first \in Nat /\ v.first <= now'
      /\ \A w \in writes : w.first \in Nat /\ w.first <= now'
  <2>1. \A id \in Ids : \A v \in visits[id] : v.first \in Nat
    BY <1>1, SessionAssumption DEF TypeOK, VisitRows
  <2>2. \A w \in writes : w.first \in Nat
    BY <1>1, SessionAssumption DEF TypeOK, VisitRows
  <2>3. QED
    BY <1>1, <2>1, <2>2 DEF Clocked
<1>3. ASSUME NEW q \in Requests, BootSharedLogic(q)
      PROVE  Clocked'
  <2>1. RequestInOrder(q)
    BY <1>1, <1>3 DEF BootSharedLogic, Serving
  <2>2. request[q].at <= now /\ request[q].at \in Nat
    BY <1>1, <2>1, SessionAssumption DEF RequestInOrder, TypeOK, RequestRecords
  <2>3. \A w \in writes' : w \in writes \/ w.first = request[q].at
    <3>1. \/ writes' = writes
          \/ writes' = writes \cup {[id |-> Served(q), app |-> request[q].app,
                                     first |-> request[q].at,
                                     referral |-> request[q].seen.referral]}
      BY <1>1, <1>3, <2>1, BootMoves
    <3>2. QED
      BY <3>1
  <2>4. visits' = visits
    BY <1>3 DEF BootSharedLogic
  <2>5. QED
    BY <1>1, <1>2, <2>2, <2>3, <2>4 DEF Clocked
<1>4. ASSUME NEW w \in writes, UpdateUserVisit(w)
      PROVE  Clocked'
  <2> DEFINE row == [app |-> w.app, first |-> w.first, referral |-> w.referral]
  <2>1. visits' = visits \/ visits' = [visits EXCEPT ![w.id] = visits[w.id] \cup {row}]
    BY <1>4 DEF UpdateUserVisit
  <2>2. \A id \in Ids : \A v \in visits'[id] : v \in visits[id] \/ v.first = w.first
    BY <1>1, <2>1 DEF TypeOK
  <2>3. writes' \subseteq writes
    BY <1>4 DEF UpdateUserVisit
  <2>4. QED
    BY <1>2, <2>2, <2>3 DEF Clocked
<1>5. CASE visits' = visits /\ writes' \subseteq writes
  BY <1>2, <1>5 DEF Clocked
<1>6. QED
  BY <1>3, <1>4, <1>5, Frames

\* Request q is what it was, or is not about id, or has just looked at the clock, or
\* answers a referrer on record.
StaysRecorded(id, q) ==
    \/ request'[q] = request[q]
    \/ (Serving(q)' /\ Served(q)' = id) =>
            /\ request'[q].step = "read" => request'[q].at = now
            /\ request'[q].answered = Keep \/ OnRecord(id, request'[q].answered)

LEMMA RecordStays ==
    ASSUME NEW id \in Ids, Recorded(id), Clocked,
           visits'[id] = visits[id],
           \A w : w.id = id => (w \in writes' <=> w \in writes),
           shown'[id] = shown[id] \/ OnRecord(id, shown'[id]),
           \A q \in Requests : StaysRecorded(id, q)
    PROVE  Recorded(id)'
<1>1. \A referrer : OnRecord(id, referrer) => OnRecord(id, referrer)'
  BY DEF OnRecord, FirstReferrals
<1>2. ASSUME NEW q \in Requests, request'[q] = request[q]
      PROVE  (Serving(q)' <=> Serving(q)) /\ Served(q)' = Served(q)
  BY <1>2 DEF Serving, Served
<1>3. VisitsInOrder(id)'
  <2>1. /\ \A w, x \in writes : w.id = id /\ x.id = id => w = x
        /\ \A w \in writes : w.id = id => \A v \in visits[id] : v.first <= w.first
        /\ \A q \in Requests :
             (request[q].step = "read" /\ Served(q) = id) =>
                 /\ \A v \in visits[id] : v.first <= request[q].at
                 /\ \A w \in writes : w.id = id => w.first <= request[q].at
    BY DEF Recorded, VisitsInOrder
  <2>2. ASSUME NEW q \in Requests, request'[q].step = "read", Served(q)' = id
        PROVE  /\ \A v \in visits[id] : v.first <= request'[q].at
               /\ \A w \in writes : w.id = id => w.first <= request'[q].at
    <3>1. CASE request'[q] = request[q]
      BY <1>2, <2>1, <2>2, <3>1
    <3>2. CASE request'[q] # request[q]
      <4>1. request'[q].at = now
        BY <2>2, <3>2 DEF StaysRecorded, Serving
      <4>2. QED
        BY <4>1 DEF Clocked
    <3>3. QED
      BY <3>1, <3>2
  <2>3. QED
    BY <2>1, <2>2 DEF VisitsInOrder
<1>4. ASSUME NEW referrer, referrer = shown'[id], referrer # Keep
      PROVE  OnRecord(id, referrer)'
  BY <1>1, <1>4 DEF Recorded
<1>5. ASSUME NEW q \in Requests, Serving(q)', Served(q)' = id,
             NEW referrer, referrer = request'[q].answered, referrer # Keep
      PROVE  OnRecord(id, referrer)'
  <2>1. OnRecord(id, referrer)
    BY <1>2, <1>5 DEF Recorded, StaysRecorded
  <2>2. QED
    BY <1>1, <2>1
<1>6. QED
  BY <1>3, <1>4, <1>5 DEF Recorded

\* The boot that writes the visit: the first one under way for the id.
LEMMA BootRecords ==
    ASSUME Accountable, Clocked, NEW q \in Requests, BootSharedLogic(q),
           request[q].app \in Apps, NEW id \in Ids, id = Served(q), id \notin disturbed',
           Recorded(id),
           IF visits[id] = {} THEN request'[q].answered = request[q].seen.referral
           ELSE request'[q].answered \in FirstReferrals(id),
           writes' = writes \cup {[id |-> id, app |-> request[q].app,
                                   first |-> request[q].at,
                                   referral |-> request[q].seen.referral]},
           disturbed' = IF Overlapping(q) THEN disturbed \cup {id} ELSE disturbed
    PROVE  Recorded(id)'
<1> DEFINE new == [id |-> id, app |-> request[q].app, first |-> request[q].at,
                   referral |-> request[q].seen.referral]
<1>1. TypeOK /\ RequestInOrder(q) /\ request[q].step = "read"
  BY DEF Accountable, BootSharedLogic, Serving
<1>2. /\ visits' = visits /\ shown' = shown
      /\ \A p \in Requests \ {q} : request'[p] = request[p]
      /\ request'[q].step = "answer" /\ Served(q)' = id
  <2>1. /\ OnlyMoves(q) /\ request'[q].step = "answer"
        /\ request'[q].user = request[q].user /\ request'[q].id = request[q].id
    BY <1>1, BootMoves
  <2>2. visits' = visits /\ shown' = shown
    BY DEF BootSharedLogic
  <2>3. QED
    BY <2>1, <2>2 DEF OnlyMoves, Served
<1>3. /\ \A w \in writes : w.id # id
      /\ \A p \in Requests \ {q} : request[p].step = "read" => Served(p) # id
  BY DEF Overlapping
<1>4. \A p \in Requests \ {q} : Served(p)' = Served(p) /\ (Serving(p)' <=> Serving(p))
  BY <1>2 DEF Served, Serving
<1>5. \A v \in visits[id] : v.first <= request[q].at
  BY <1>1 DEF Recorded, VisitsInOrder
<1>6. VisitsInOrder(id)'
  <2>1. \A w \in writes' : w.id = id => w = new
    BY <1>3
  <2>2. new.first = request[q].at
    OBVIOUS
  <2>3. \A p \in Requests : ~(request'[p].step = "read" /\ Served(p)' = id)
    BY <1>2, <1>3, <1>4
  <2>4. QED
    BY <1>2, <1>5, <2>1, <2>2, <2>3 DEF VisitsInOrder
<1>7. \A referrer : OnRecord(id, referrer) => OnRecord(id, referrer)'
  BY <1>2 DEF OnRecord, FirstReferrals
<1>8. ASSUME NEW referrer, referrer = shown'[id], referrer # Keep
      PROVE  OnRecord(id, referrer)'
  BY <1>2, <1>7, <1>8 DEF Recorded
<1>9. ASSUME NEW p \in Requests, Serving(p)', Served(p)' = id,
             NEW referrer, referrer = request'[p].answered, referrer # Keep
      PROVE  OnRecord(id, referrer)'
  <2>1. CASE p # q
    <3>1. request'[p] = request[p] /\ Serving(p) /\ Served(p) = id
      BY <1>2, <1>4, <1>9, <2>1
    <3>2. OnRecord(id, referrer)
      BY <1>9, <3>1 DEF Recorded
    <3>3. QED
      BY <1>7, <3>2
  <2>2. CASE p = q
    <3>1. CASE visits[id] = {}
      <4>1. new \in writes' /\ new.id = id /\ new.referral = referrer
        BY <1>9, <2>2, <3>1
      <4>2. QED
        BY <1>2, <3>1, <4>1 DEF OnRecord
    <3>2. CASE visits[id] # {}
      BY <1>2, <1>9, <2>2, <3>2 DEF OnRecord, FirstReferrals
    <3>3. QED
      BY <3>1, <3>2
  <2>3. QED
    BY <2>1, <2>2
<1>10. QED
  BY <1>6, <1>8, <1>9 DEF Recorded

\* The visit that is written: it comes after the rows that are there.
LEMMA UpdateRecords ==
    ASSUME Accountable, Clocked, NEW w \in writes, UpdateUserVisit(w),
           NEW id \in Ids, id = w.id, Recorded(id)
    PROVE  Recorded(id)'
<1> DEFINE row == [app |-> w.app, first |-> w.first, referral |-> w.referral]
<1>1. TypeOK /\ request' = request /\ shown' = shown /\ writes' = writes \ {w}
  BY DEF Accountable, UpdateUserVisit, history
<1>2. /\ \A x \in writes : x.id = id => x = w
      /\ \A v \in visits[id] : v.first <= w.first
      /\ \A q \in Requests :
           (request[q].step = "read" /\ Served(q) = id) =>
               /\ \A v \in visits[id] : v.first <= request[q].at
               /\ w.first <= request[q].at
  BY DEF Recorded, VisitsInOrder
<1>3. \/ visits[id] # {} /\ visits'[id] = visits[id]
      \/ visits'[id] = visits[id] \cup {row}
  BY <1>1 DEF UpdateUserVisit, TypeOK
<1>4. \A x \in writes' : x.id # id
  BY <1>1, <1>2
<1>5. \A q \in Requests : (Serving(q)' <=> Serving(q)) /\ Served(q)' = Served(q)
  BY <1>1 DEF Serving, Served
<1>6. row.first = w.first /\ row.referral = w.referral
  OBVIOUS
<1>7. \A v \in visits'[id] : v \in visits[id] \/ v = row
  BY <1>3
<1>8. VisitsInOrder(id)'
  BY <1>1, <1>2, <1>4, <1>5, <1>6, <1>7 DEF VisitsInOrder
<1>9. ASSUME NEW referrer, OnRecord(id, referrer)
      PROVE  OnRecord(id, referrer)'
  <2>1. visits'[id] # {}
    BY <1>3
  <2>2. CASE visits[id] = {}
    <3>1. referrer = w.referral
      BY <1>2, <1>9, <2>2 DEF OnRecord
    <3>2. visits'[id] = {row}
      BY <1>3, <2>2
    <3>3. row.first <= row.first
      <4>1. w.first \in Nat
        BY <1>1, SessionAssumption DEF TypeOK, VisitRows
      <4>2. QED
        BY <4>1
    <3>4. row \in {x \in visits'[id] : \A y \in visits'[id] : x.first <= y.first}
      BY <3>2, <3>3
    <3>5. referrer \in FirstReferrals(id)'
      BY <1>6, <3>1, <3>4 DEF FirstReferrals
    <3>6. QED
      BY <2>1, <3>5 DEF OnRecord
  <2>3. CASE visits[id] # {}
    <3>1. PICK v \in visits[id] : /\ \A x \in visits[id] : v.first <= x.first
                                  /\ v.referral = referrer
      BY <1>9, <2>3 DEF OnRecord, FirstReferrals
    <3>2. v \in visits'[id] /\ \A x \in visits'[id] : v.first <= x.first
      BY <1>2, <1>3, <1>6, <1>7, <3>1
    <3>3. referrer \in FirstReferrals(id)'
      BY <3>1, <3>2 DEF FirstReferrals
    <3>4. QED
      BY <2>1, <3>3 DEF OnRecord
  <2>4. QED
    BY <2>2, <2>3
<1>10. QED
  BY <1>1, <1>5, <1>8, <1>9 DEF Recorded

LEMMA RecordedPreserved ==
    ASSUME Accountable, Clocked, Next, NEW id \in Ids, id \notin disturbed',
           id \notin disturbed => Recorded(id)
    PROVE  Recorded(id)'
<1>1. TypeOK /\ \A q \in Requests : Serving(q) => RequestInOrder(q)
  BY DEF Accountable
<1>2. id \notin disturbed
  BY Frames
<1>3. Recorded(id)
  BY <1>2
<1>4. ASSUME NEW q \in Requests, NEW b \in Browsers, NEW kind \in Kinds,
             NEW app \in Apps \cup {NoApp}, NEW link \in Referrers \cup {NoId},
             Arrive(q, b, kind, app, link)
      PROVE  Recorded(id)'
  <2>1. /\ \A p \in Requests \ {q} : request'[p] = request[p]
        /\ request'[q].step # "read" /\ request'[q].answered = Keep
    <3>1. Arrived(q, b, kind, app, link)
      BY <1>1, <1>4, ArriveMoves
    <3>2. QED
      BY <3>1 DEF Arrived, OnlyMoves, FirstStep
  <2>2. visits' = visits /\ writes' = writes /\ shown' = shown
    BY <1>4 DEF Arrive, tables
  <2>3. \A p \in Requests : StaysRecorded(id, p)
    BY <2>1 DEF StaysRecorded
  <2>4. QED
    BY <1>3, <2>2, <2>3, RecordStays
<1>5. ASSUME NEW q \in Requests, ValidateRefreshToken(q)
      PROVE  Recorded(id)'
  <2>1. /\ \A p \in Requests \ {q} : request'[p] = request[p]
        /\ request'[q].step = "read" => request'[q].at = now
        /\ request'[q].answered = request[q].answered /\ request[q].step = "validate"
    BY <1>1, <1>5, ValidateMoves DEF OnlyMoves
  <2>2. request[q].answered = Keep
    BY <1>1, <2>1 DEF RequestInOrder, Serving
  <2>3. visits' = visits /\ writes' = writes /\ shown' = shown
    BY <1>5 DEF ValidateRefreshToken, tables, history
  <2>4. \A p \in Requests : StaysRecorded(id, p)
    BY <2>1, <2>2 DEF StaysRecorded
  <2>5. QED
    BY <1>3, <2>3, <2>4, RecordStays
<1>6. ASSUME NEW q \in Requests, BootSharedLogic(q)
      PROVE  Recorded(id)'
  <2>1. RequestInOrder(q) /\ request[q].step = "read"
    BY <1>1, <1>6 DEF BootSharedLogic, Serving
  <2>2. /\ \A p \in Requests \ {q} : request'[p] = request[p]
        /\ request'[q].step = "answer" /\ Served(q)' = Served(q)
    <3>1. /\ OnlyMoves(q) /\ request'[q].step = "answer"
          /\ request'[q].user = request[q].user /\ request'[q].id = request[q].id
      BY <1>1, <1>6, <2>1, BootMoves
    <3>2. QED
      BY <3>1 DEF OnlyMoves, Served
  <2>3. request[q].answered = Keep
    BY <2>1 DEF RequestInOrder
  <2>4. visits' = visits /\ shown' = shown
    BY <1>6 DEF BootSharedLogic
  <2>5. CASE writes' = writes /\ request'[q].answered = request[q].answered
    <3>1. \A p \in Requests : StaysRecorded(id, p)
      BY <2>2, <2>3, <2>5 DEF StaysRecorded
    <3>2. QED
      BY <1>3, <2>4, <2>5, <3>1, RecordStays
  <2>6. ASSUME request[q].app \in Apps,
               IF visits[Served(q)] = {}
               THEN request'[q].answered = request[q].seen.referral
               ELSE request'[q].answered \in FirstReferrals(Served(q)),
               writes' = writes \cup {[id |-> Served(q), app |-> request[q].app,
                                       first |-> request[q].at,
                                       referral |-> request[q].seen.referral]},
               disturbed' = IF Overlapping(q) THEN disturbed \cup {Served(q)} ELSE disturbed
        PROVE  Recorded(id)'
    <3>1. CASE id = Served(q)
      BY <1>3, <1>6, <2>6, <3>1, BootRecords
    <3>2. CASE id # Served(q)
      <4>1. \A w : w.id = id => (w \in writes' <=> w \in writes)
        BY <2>6, <3>2
      <4>2. \A p \in Requests : StaysRecorded(id, p)
        BY <2>2, <3>2 DEF StaysRecorded
      <4>3. QED
        BY <1>3, <2>4, <4>1, <4>2, RecordStays
    <3>3. QED
      BY <3>1, <3>2
  <2>7. QED
    BY <1>1, <1>6, <2>1, <2>5, <2>6, BootMoves
<1>7. ASSUME NEW q \in Requests, Authenticate(q) \/ RefuseLogin(q)
      PROVE  Recorded(id)'
  <2>1. request[q].step = "login" /\ RequestInOrder(q)
    BY <1>1, <1>7 DEF Authenticate, RefuseLogin, Serving
  <2>2. /\ \A p \in Requests \ {q} : request'[p] = request[p]
        /\ request'[q].step = "answer" /\ request'[q].answered = request[q].answered
    <3>1. CASE Authenticate(q)
      BY <1>1, <2>1, <3>1, AuthenticateMoves DEF OnlyMoves
    <3>2. CASE RefuseLogin(q)
      BY <1>1, <3>2, RefuseMoves DEF OnlyMoves
    <3>3. QED
      BY <1>7, <3>1, <3>2
  <2>3. request[q].answered = Keep
    BY <2>1 DEF RequestInOrder
  <2>4. visits' = visits /\ writes' = writes /\ shown' = shown
    BY <1>7 DEF Authenticate, RefuseLogin, tables, history
  <2>5. \A p \in Requests : StaysRecorded(id, p)
    BY <2>2, <2>3 DEF StaysRecorded
  <2>6. QED
    BY <1>3, <2>4, <2>5, RecordStays
<1>8. ASSUME NEW q \in Requests, Answer(q)
      PROVE  Recorded(id)'
  <2>1. /\ \A p \in Requests \ {q} : request'[p] = request[p]
        /\ request'[q].step = "idle"
    BY <1>1, <1>8, EndMoves DEF OnlyMoves, Idle
  <2>2. /\ visits' = visits /\ writes' = writes /\ Serving(q)
        /\ shown' = IF request[q].answered # Keep /\ shown[Served(q)] = Keep
                    THEN [shown EXCEPT ![Served(q)] = request[q].answered] ELSE shown
    BY <1>8 DEF Answer, tables, Serving
  <2>3. \/ shown'[id] = shown[id]
        \/ /\ request[q].answered # Keep /\ id = Served(q)
           /\ shown'[id] = request[q].answered
    BY <1>1, <2>2 DEF TypeOK
  <2>4. shown'[id] = shown[id] \/ OnRecord(id, shown'[id])
    BY <1>3, <2>2, <2>3 DEF Recorded
  <2>5. \A p \in Requests : StaysRecorded(id, p)
    BY <2>1 DEF StaysRecorded, Serving
  <2>6. QED
    BY <1>3, <2>2, <2>4, <2>5, RecordStays
<1>9. ASSUME NEW q \in Requests, Drop(q)
      PROVE  Recorded(id)'
  <2>1. /\ \A p \in Requests \ {q} : request'[p] = request[p]
        /\ request'[q].step = "idle"
    BY <1>1, <1>9, EndMoves DEF OnlyMoves, Idle
  <2>2. visits' = visits /\ writes' = writes /\ shown' = shown
    BY <1>9 DEF Drop, tables, history
  <2>3. \A p \in Requests : StaysRecorded(id, p)
    BY <2>1 DEF StaysRecorded, Serving
  <2>4. QED
    BY <1>3, <2>2, <2>3, RecordStays
<1>10. ASSUME NEW w \in writes, UpdateUserVisit(w)
       PROVE  Recorded(id)'
  <2>1. CASE id = w.id
    BY <1>3, <1>10, <2>1, UpdateRecords
  <2>2. CASE id # w.id
    <3>1. /\ visits'[id] = visits[id] /\ shown' = shown /\ request' = request
          /\ writes' = writes \ {w}
      BY <1>1, <1>10, <2>2 DEF UpdateUserVisit, TypeOK, history
    <3>2. \A x : x.id = id => (x \in writes' <=> x \in writes)
      BY <2>2, <3>1
    <3>3. \A p \in Requests : StaysRecorded(id, p)
      BY <3>1 DEF StaysRecorded
    <3>4. QED
      BY <1>3, <3>1, <3>2, <3>3, RecordStays
  <2>3. QED
    BY <2>1, <2>2
<1>11. ASSUME NEW w \in writes, LoseUserVisit(w)
       PROVE  Recorded(id)'
  <2>1. /\ visits' = visits /\ shown' = shown /\ request' = request
        /\ writes' = writes \ {w} /\ w.id # id
    BY <1>11 DEF LoseUserVisit
  <2>2. \A x : x.id = id => (x \in writes' <=> x \in writes)
    BY <2>1
  <2>3. \A p \in Requests : StaysRecorded(id, p)
    BY <2>1 DEF StaysRecorded
  <2>4. QED
    BY <1>3, <2>1, <2>2, <2>3, RecordStays
<1>12. CASE UNCHANGED <<visits, writes, shown, request>>
  <2>1. \A p \in Requests : StaysRecorded(id, p)
    BY <1>12 DEF StaysRecorded
  <2>2. QED
    BY <1>3, <1>12, <2>1, RecordStays
<1>13. QED
  BY <1>4, <1>5, <1>6, <1>7, <1>8, <1>9, <1>10, <1>11, <1>12
  DEF Next, Visitor, RequestStep, Kinds, Logins, Expire, RemoveUser, tables, history

LEMMA VisitsHold == Spec => []VisitsAreRecorded
<1>1. Init => VisitsAreRecorded
  <2> SUFFICES ASSUME Init PROVE VisitsAreRecorded
    OBVIOUS
  <2>1. /\ \A id \in Ids : visits[id] = {} /\ shown[id] = Keep
        /\ writes = {}
    BY DEF Init
  <2>2. \A q \in Requests : ~Serving(q) /\ request[q].step # "read"
    BY DEF Init, Serving, Idle
  <2>3. QED
    BY <2>1, <2>2 DEF VisitsAreRecorded, VisitsInOrder
<1>2. Accountable /\ VisitsAreRecorded /\ [Next]_vars => VisitsAreRecorded'
  <2> SUFFICES ASSUME Accountable, VisitsAreRecorded, [Next]_vars PROVE VisitsAreRecorded'
    OBVIOUS
  <2>1. CASE Next
    <3>1. Clocked /\ \A id \in Ids \ disturbed : Recorded(id)
      BY DEF VisitsAreRecorded, Clocked, Recorded
    <3>2. Clocked' /\ \A id \in Ids \ disturbed' : Recorded(id)'
      BY <2>1, <3>1, ClockedPreserved, RecordedPreserved
    <3>3. QED
      BY <3>2 DEF VisitsAreRecorded, Clocked, Recorded
  <2>2. CASE UNCHANGED vars
    BY <2>2 DEF vars, tables, history, VisitsAreRecorded, VisitsInOrder, OnRecord,
                FirstReferrals, Served, Serving
  <2>3. QED
    BY <2>1, <2>2
<1>3. QED
  BY <1>1, <1>2, AccountableHolds, PTL DEF Spec

-----------------------------------------------------------------------------
(* The theorems.                                                           *)

\* The inductive invariant: the cookies of a browser and of its requests are those
\* of its account, ids are those of users or new, and every referrer that was
\* answered is on record.
THEOREM InvariantHolds == Spec => []SessionInvariant
BY AccountableHolds, IdentifiedHolds, VisitsHold, PTL DEF SessionInvariant

\* Rows, cookies and requests have their types: no answer sets a session to an
\* unknown token, and no refresh token is made up by the service.
THEOREM TypeCorrect == Spec => []TypeOK
<1>1. SessionInvariant => TypeOK
  BY DEF SessionInvariant, Accountable
<1>2. QED
  BY <1>1, InvariantHolds, PTL

\* The logout of routes/users.js: after its answer there is neither a session nor a
\* refresh token that boot would renew one from, unless an answer to an earlier
\* request came later.
THEOREM LogoutsHold == Spec => []LogoutLogsOut
<1>1. SessionInvariant => LogoutLogsOut
  <2> SUFFICES ASSUME SessionInvariant, NEW b \in Browsers,
                      account[b] = NoId, "overtaken" \notin excuses[b]
               PROVE  jar[b].auth = NoId /\ jar[b].refresh \in {NoId, Unknown}
    BY DEF LogoutLogsOut
  <2>1. TypeOK /\ CookiesAreMine(b)
    BY DEF SessionInvariant, Accountable
  <2>2. {jar[b].auth, jar[b].refresh} \subseteq {NoId, Unknown}
    BY <2>1 DEF CookiesAreMine, Reliable, Mine
  <2>3. jar[b].auth # Unknown
    BY <2>1, SessionAssumption DEF TypeOK, Jars
  <2>4. QED
    BY <2>2, <2>3
<1>2. QED
  BY <1>1, InvariantHolds, PTL

\* The session that verifyJWT finds and the refresh token that validateRefreshToken
\* makes one of are of the user that logged in last.
THEOREM SessionsHold == Spec => []SessionsFollowLogins
<1>1. SessionInvariant => SessionsFollowLogins
  BY DEF SessionInvariant, Accountable, SessionsFollowLogins, CookiesAreMine, Reliable, Mine
<1>2. QED
  BY <1>1, InvariantHolds, PTL

\* The referrer of bootSharedLogic: once answered, it is that of an oldest row of
\* visits, for every number of apps and boots.
THEOREM ReferrersStay == Spec => []AnsweredReferrerStays
<1>1. SessionInvariant => AnsweredReferrerStays
  BY DEF SessionInvariant, VisitsAreRecorded, AnsweredReferrerStays, OnRecord
<1>2. QED
  BY <1>1, InvariantHolds, PTL

\* verifyTracking and the logins: a step that replaces a tracking id by another one
\* puts there the id of a user.
THEOREM TrackingIdsStay == Spec => VisitorsKeepTheirId
<1> DEFINE Kept(b) ==
             LET old == jar[b].tracking
                 new == jar'[b].tracking
             IN  (old # new /\ NoId \notin {old, new})
                    => new \in users' \cup removed'
                       \/ excuses'[b] \cap {"overtaken", "twins"} # {}
<1>1. ASSUME SessionInvariant, [Next]_vars, NEW b \in Browsers
      PROVE  Kept(b)
  <2>1. /\ TypeOK /\ \A q \in Requests : Serving(q) => RequestInOrder(q)
    BY <1>1 DEF SessionInvariant, Accountable
  <2>2. ASSUME NEW q \in Requests, Answer(q)
        PROVE  Kept(b)
    <3> DEFINE r == request[q]
    <3> SUFFICES ASSUME jar[b].tracking # jar'[b].tracking, jar[b].tracking # NoId,
                        jar'[b].tracking # NoId,
                        excuses'[b] \cap {"overtaken", "twins"} = {}
                 PROVE  jar'[b].tracking \in Members'
      BY DEF Members
    <3>1. Serving(q) /\ r.browser \in Browsers
      BY <2>1, <2>2 DEF Answer, Serving, RequestInOrder
    <3>2. r.browser = b
      BY <2>1, <2>2, <3>1 DEF Answer, TypeOK
    <3>3. jar'[b].tracking = IF r.sets.tracking = Keep THEN jar[b].tracking
                             ELSE r.sets.tracking
      BY <2>1, <2>2, <3>2 DEF Answer, TypeOK, Overlay, Cookies
    <3>4. r.sets.tracking \in Members \/ Fresh(q)
      BY <1>1, <3>1, <3>3 DEF SessionInvariant, Identified
    <3>5. ASSUME Fresh(q)
          PROVE  FALSE
      <4>1. PICK late, left : /\ excuses' = [excuses EXCEPT ![b] = @ \cup late \cup left]
                              /\ late = IF r.era = era[b] THEN {} ELSE {"overtaken"}
        BY <2>2, <3>2 DEF Answer
      <4>2. excuses'[b] = excuses[b] \cup late \cup left
        BY <2>1, <4>1 DEF TypeOK
      <4>3. r.era = era[b] /\ excuses[b] \cap {"overtaken", "twins"} = {}
        BY <4>1, <4>2
      <4>4. FreshIsAlone(q)
        BY <1>1, <3>1 DEF SessionInvariant, Identified
      <4>5. jar[b].tracking = NoId
        BY <3>2, <3>5, <4>3, <4>4 DEF FreshIsAlone, Current
      <4>6. QED
        BY <4>5
    <3>6. Members' = Members
      BY <2>2 DEF Answer, Members, tables
    <3>7. QED
      BY <3>3, <3>4, <3>5, <3>6
  <2>3. ASSUME NEW c \in Browsers, Expire(c)
        PROVE  Kept(b)
    <3>1. jar' = [jar EXCEPT ![c] = [jar[c] EXCEPT !.auth = NoId]]
      BY <2>3 DEF Expire
    <3>2. jar'[b].tracking = jar[b].tracking
      BY <2>1, <3>1 DEF TypeOK, Jars
    <3>3. QED
      BY <3>2
  <2>4. CASE jar' = jar
    BY <2>4
  <2>5. QED
    BY <1>1, <2>2, <2>3, <2>4, Frames DEF vars
<1>2. SessionInvariant /\ [Next]_vars => [\A b \in Browsers : Kept(b)]_vars
  BY <1>1
<1>3. QED
  BY <1>2, InvariantHolds, PTL DEF Spec, VisitorsKeepTheirId
=============================================================================
