-------------------------- MODULE RegistrationProofs --------------------------
(***************************************************************************)
(* What is proved of Registration, for all browsers, accounts, ids and     *)
(* requests, and any number of logins and faults.                          *)
(***************************************************************************)
EXTENDS Registration, TLAPS

-----------------------------------------------------------------------------
(* What each step does to the requests, field by field.                    *)

LEMMA IdleType == Idle \in RequestRecords
BY DEF Idle, RequestRecords, Steps

\* Only request q changes.
OnlyMoves(q) ==
    /\ request' \in [Requests -> RequestRecords]
    /\ \A p \in Requests \ {q} : request'[p] = request[p]

LEMMA MoveType ==
    ASSUME TypeOK, NEW q \in Requests, NEW new \in RequestRecords,
           request' = [request EXCEPT ![q] = new]
    PROVE  OnlyMoves(q) /\ request'[q] = new
BY DEF TypeOK, OnlyMoves

\* The fields a request keeps from its arrival to its end.
KeepsOrigin(q) ==
    /\ request'[q].browser = request[q].browser
    /\ request'[q].account = request[q].account
    /\ request'[q].flow = request[q].flow

LEMMA ArriveMoves ==
    ASSUME TypeOK, NEW q \in Requests, NEW b \in Browsers, NEW a \in Accounts,
           NEW flow \in Flows, Arrive(q, b, a, flow)
    PROVE  /\ OnlyMoves(q)
           /\ request'[q].step = "lookup" /\ request'[q].browser = b
           /\ request'[q].account = a /\ request'[q].flow = flow
           /\ request'[q].user = Undefined /\ request'[q].pending = {}
           /\ minted' \in SUBSET Ids
<1>1. PICK id \in Ids \cup {NoId}, cookie \in Ids \cup {NoId} :
        /\ request' = [request EXCEPT ![q] =
             [step |-> "lookup", browser |-> b, account |-> a, flow |-> flow, id |-> id,
              cookie |-> cookie, user |-> Undefined, pending |-> {}]]
        /\ minted' = minted \/ (id \in Ids /\ minted' = minted \cup {id})
  BY DEF Arrive
<1>2. [step |-> "lookup", browser |-> b, account |-> a, flow |-> flow, id |-> id,
       cookie |-> cookie, user |-> Undefined, pending |-> {}] \in RequestRecords
  BY DEF RequestRecords, Steps
<1>3. QED
  BY <1>1, <1>2, MoveType DEF TypeOK

LEMMA LookUpMoves ==
    ASSUME TypeOK, NEW q \in Requests, LookUp(q)
    PROVE  /\ OnlyMoves(q) /\ KeepsOrigin(q)
           /\ request[q].step = "lookup" /\ request'[q].user = request[q].user
           /\ \/ /\ HasRow(request'[q].id, request[q].account)
                 /\ request'[q].step = "fetch" /\ request'[q].pending = request[q].pending
                 /\ tried' = tried
              \/ /\ request'[q].step = "insert" /\ request'[q].pending = Inserts
                 /\ request'[q].id = request[q].id
                 /\ tried' = [id \in Ids |-> IF id = request[q].id
                                             THEN tried[id] \cup {request[q].account}
                                             ELSE tried[id]]
<1> DEFINE r == request[q]
<1>1. r \in RequestRecords /\ r.step = "lookup"
  BY DEF TypeOK, LookUp
<1>2. CASE Linked(r.account)
  <2>1. PICK owner \in GetByProviderId(r.account) :
          request' = [request EXCEPT ![q] =
                        [r EXCEPT !.step = "fetch", !.id = owner, !.cookie = owner]]
    BY <1>2 DEF LookUp
  <2>2. owner \in Ids /\ HasRow(owner, r.account)
    BY <2>1 DEF GetByProviderId, TypeOK, HasRow
  <2>3. PICK new \in RequestRecords :
          new = [r EXCEPT !.step = "fetch", !.id = owner, !.cookie = owner]
    BY <1>1, <2>2 DEF RequestRecords, Steps
  <2>4. OnlyMoves(q) /\ request'[q] = new
    BY <2>1, <2>3, MoveType
  <2>5. /\ new.step = "fetch" /\ new.id = owner /\ new.pending = r.pending
        /\ new.user = r.user /\ new.browser = r.browser /\ new.account = r.account
        /\ new.flow = r.flow
    BY <1>1, <2>3 DEF RequestRecords
  <2>6. tried' = tried
    BY <1>2 DEF LookUp
  <2>7. QED
    BY <1>1, <2>2, <2>4, <2>5, <2>6 DEF KeepsOrigin
<1>3. CASE ~Linked(r.account)
  <2>1. request' = [request EXCEPT ![q] = [r EXCEPT !.step = "insert", !.pending = Inserts]]
    BY <1>3 DEF LookUp
  <2>2. PICK new \in RequestRecords : new = [r EXCEPT !.step = "insert", !.pending = Inserts]
    BY <1>1 DEF RequestRecords, Steps
  <2>3. OnlyMoves(q) /\ request'[q] = new
    BY <2>1, <2>2, MoveType
  <2>4. /\ new.step = "insert" /\ new.id = r.id /\ new.pending = Inserts
        /\ new.user = r.user /\ new.browser = r.browser /\ new.account = r.account
        /\ new.flow = r.flow
    BY <1>1, <2>2 DEF RequestRecords
  <2>5. tried' = [id \in Ids |-> IF id = r.id THEN tried[id] \cup {r.account} ELSE tried[id]]
    BY <1>3 DEF LookUp
  <2>6. QED
    BY <1>1, <2>3, <2>4, <2>5 DEF KeepsOrigin
<1>4. QED
  BY <1>2, <1>3

LEMMA FetchMoves ==
    ASSUME TypeOK, NEW q \in Requests, FetchUser(q)
    PROVE  /\ OnlyMoves(q) /\ KeepsOrigin(q)
           /\ request[q].step = "fetch" /\ request'[q].step \in {"refresh", "grant"}
           /\ request'[q].id = request[q].id /\ request'[q].pending = request[q].pending
           /\ \/ request'[q].user = Undefined
              \/ request[q].id \in users /\ request'[q].user = request[q].id
<1> DEFINE r == request[q]
<1>1. r \in RequestRecords /\ r.step = "fetch" /\ users \subseteq Ids
  BY DEF TypeOK, FetchUser
<1>2. PICK found \in Ids \cup {Undefined}, next \in {"refresh", "grant"} :
        /\ found = Undefined \/ (r.id \in users /\ found = r.id)
        /\ request' = [request EXCEPT ![q] = [r EXCEPT !.step = next, !.user = found]]
  BY <1>1 DEF FetchUser, Ending
<1>3. PICK new \in RequestRecords : new = [r EXCEPT !.step = next, !.user = found]
  BY <1>1 DEF RequestRecords, Steps
<1>4. OnlyMoves(q) /\ request'[q] = new
  BY <1>2, <1>3, MoveType
<1>5. /\ new.step = next /\ new.id = r.id /\ new.pending = r.pending
      /\ new.user = found /\ new.browser = r.browser /\ new.account = r.account
      /\ new.flow = r.flow
  BY <1>1, <1>3 DEF RequestRecords
<1>6. QED
  BY <1>1, <1>2, <1>4, <1>5 DEF KeepsOrigin

\* The end of an insert: the request is over, has been answered and waits for the
\* other insert, waits for it unanswered, or goes on.
LEMMA AfterInsertMoves ==
    ASSUME TypeOK, NEW q \in Requests, RequestInOrder(q), NEW table \in Inserts,
           NEW failed \in BOOLEAN, table \in request[q].pending,
           AfterInsert(q, table, failed), failed \/ request[q].id \in Ids
    PROVE  /\ OnlyMoves(q) /\ session' = session /\ via' = via
           /\ tracking' \in [Browsers -> Ids \cup {NoId}]
           /\ \/ /\ request'[q] = Idle /\ request[q].pending = {table}
              \/ /\ KeepsOrigin(q) /\ request'[q].id = request[q].id
                 /\ request'[q].user = request[q].user
                 /\ request'[q].step = "drain" /\ (failed \/ request[q].step = "drain")
                 /\ request'[q].pending = request[q].pending \ {table}
                 /\ request'[q].pending # {}
              \/ /\ KeepsOrigin(q) /\ request'[q].id = request[q].id
                 /\ ~failed /\ request[q].step = "insert"
                 /\ request'[q].user = request[q].id
                 /\ request'[q].pending = request[q].pending \ {table}
                 /\ request'[q].step \in IF request'[q].pending = {} THEN {"refresh", "grant"}
                                         ELSE {"insert"}
<1> DEFINE r == request[q]
           left == r.pending \ {table}
<1>1. /\ r \in RequestRecords /\ r.step \in {"insert", "drain"}
      /\ r.browser \in Browsers /\ r.cookie \in Ids \cup {NoId}
      /\ left \in SUBSET Inserts
  BY DEF TypeOK, RequestRecords, RequestInOrder, Serving
<1>2. CASE failed \/ r.step = "drain"
  <2>1. /\ session' = session /\ via' = via
        /\ tracking' = tracking \/ tracking' = [tracking EXCEPT ![r.browser] = r.cookie]
    BY <1>2 DEF AfterInsert, AnswerError, cookies
  <2>2. tracking' \in [Browsers -> Ids \cup {NoId}]
    BY <1>1, <2>1 DEF TypeOK
  <2>3. request' = [request EXCEPT ![q] =
                      IF left = {} THEN Idle
                      ELSE [r EXCEPT !.step = "drain", !.pending = left]]
    BY <1>2 DEF AfterInsert
  <2>4. CASE left = {}
    <3>1. OnlyMoves(q) /\ request'[q] = Idle
      BY <2>3, <2>4, IdleType, MoveType
    <3>2. r.pending = {table}
      BY <2>4
    <3>3. QED
      BY <2>1, <2>2, <3>1, <3>2
  <2>5. CASE left # {}
    <3>1. PICK new \in RequestRecords : new = [r EXCEPT !.step = "drain", !.pending = left]
      BY <1>1 DEF RequestRecords, Steps
    <3>2. OnlyMoves(q) /\ request'[q] = new
      BY <2>3, <2>5, <3>1, MoveType
    <3>3. /\ new.step = "drain" /\ new.pending = left /\ new.id = r.id /\ new.user = r.user
          /\ new.browser = r.browser /\ new.account = r.account /\ new.flow = r.flow
      BY <1>1, <3>1 DEF RequestRecords
    <3>4. QED
      BY <1>2, <2>1, <2>2, <2>5, <3>2, <3>3 DEF KeepsOrigin
  <2>6. QED
    BY <2>4, <2>5
<1>3. CASE ~failed /\ r.step # "drain"
  <2>1. /\ session' = session /\ via' = via /\ tracking' = tracking
    BY <1>3 DEF AfterInsert, cookies
  <2>2. PICK next \in Steps :
          /\ next \in IF left = {} THEN {"refresh", "grant"} ELSE {"insert"}
          /\ request' = [request EXCEPT ![q] =
                           [r EXCEPT !.step = next, !.pending = left, !.user = r.id]]
    BY <1>3 DEF AfterInsert, Ending, Steps
  <2>3. PICK new \in RequestRecords :
          new = [r EXCEPT !.step = next, !.pending = left, !.user = r.id]
    BY <1>1, <1>3, <2>2 DEF RequestRecords
  <2>4. OnlyMoves(q) /\ request'[q] = new
    BY <2>2, <2>3, MoveType
  <2>5. /\ new.step = next /\ new.pending = left /\ new.id = r.id /\ new.user = r.id
        /\ new.browser = r.browser /\ new.account = r.account /\ new.flow = r.flow
    BY <1>1, <2>3 DEF RequestRecords
  <2>6. tracking' \in [Browsers -> Ids \cup {NoId}]
    BY <2>1 DEF TypeOK
  <2>7. QED
    BY <1>1, <1>3, <2>1, <2>2, <2>4, <2>5, <2>6 DEF KeepsOrigin
<1>4. QED
  BY <1>2, <1>3

LEMMA RefreshMoves ==
    ASSUME TypeOK, NEW q \in Requests, GenerateRefreshToken(q)
    PROVE  /\ OnlyMoves(q) /\ request[q].step = "refresh"
           /\ \/ request'[q] = Idle /\ tokens' = tokens
              \/ /\ KeepsOrigin(q) /\ request'[q].id = request[q].id
                 /\ request'[q].user = request[q].user /\ request'[q].step = "grant"
                 /\ request'[q].pending = request[q].pending
                 /\ request[q].user # Undefined
                 /\ tokens' = tokens \cup {request[q].user}
<1> DEFINE r == request[q]
<1>1. r \in RequestRecords /\ r.step = "refresh"
  BY DEF TypeOK, GenerateRefreshToken
<1>2. CASE r.user = Undefined
  <2>1. request' = [request EXCEPT ![q] = Idle] /\ tokens' = tokens
    BY <1>2 DEF GenerateRefreshToken
  <2>2. QED
    BY <1>1, <2>1, IdleType, MoveType
<1>3. CASE r.user # Undefined
  <2>1. /\ request' = [request EXCEPT ![q] = [r EXCEPT !.step = "grant"]]
        /\ tokens' = tokens \cup {r.user}
    BY <1>3 DEF GenerateRefreshToken, Goto
  <2>2. PICK new \in RequestRecords : new = [r EXCEPT !.step = "grant"]
    BY <1>1 DEF RequestRecords, Steps
  <2>3. OnlyMoves(q) /\ request'[q] = new
    BY <2>1, <2>2, MoveType
  <2>4. /\ new.step = "grant" /\ new.pending = r.pending /\ new.id = r.id /\ new.user = r.user
        /\ new.browser = r.browser /\ new.account = r.account /\ new.flow = r.flow
    BY <1>1, <2>2 DEF RequestRecords
  <2>5. QED
    BY <1>1, <1>3, <2>1, <2>3, <2>4 DEF KeepsOrigin
<1>4. QED
  BY <1>2, <1>3

LEMMA EndMoves ==
    ASSUME TypeOK, NEW q \in Requests, CodeRefused(q) \/ SetAuthCookie(q) \/ Die(q)
    PROVE  OnlyMoves(q) /\ request'[q] = Idle
BY IdleType, MoveType DEF CodeRefused, SetAuthCookie, Die

-----------------------------------------------------------------------------
(* The tables.                                                             *)

\* Rows and histories only grow.
Grows ==
    /\ users \subseteq users' /\ providers \subseteq providers' /\ torn \subseteq torn'
    /\ \A id \in Ids : tried[id] \subseteq tried'[id]

LEMMA RowsStay ==
    ASSUME TypeOK, Next
    PROVE  Grows
<1>1. ASSUME NEW q \in Requests, LookUp(q)
      PROVE  Grows
  <2>1. /\ users' = users /\ providers' = providers /\ torn' = torn
        /\ \/ tried' = tried
           \/ tried' = [id \in Ids |-> IF id = request[q].id
                                       THEN tried[id] \cup {request[q].account}
                                       ELSE tried[id]]
    BY <1>1 DEF LookUp, tables
  <2>2. QED
    BY <2>1 DEF Grows
<1>2. CASE /\ users \subseteq users' /\ providers \subseteq providers'
           /\ torn \subseteq torn' /\ tried' = tried
  BY <1>2 DEF Grows
<1>3. QED
  BY <1>1, <1>2
  DEF Next, Visitor, RequestStep, Fault, Expire, Logout, Arrive, CodeRefused, FetchUser,
      AddUser, AddProvider, GenerateRefreshToken, SetAuthCookie, Die, InsertLost, tables,
      cookies, history

\* Every step keeps the types.
LEMMA TypePreserved ==
    ASSUME TypeOK, \A q \in Requests : RequestInOrder(q), Next
    PROVE  TypeOK'
<1>1. ASSUME NEW b \in Browsers, Expire(b) \/ Logout(b)
      PROVE  TypeOK'
  BY <1>1 DEF Expire, Logout, TypeOK, tables, history
<1>2. ASSUME NEW q \in Requests, NEW b \in Browsers, NEW a \in Accounts,
             NEW flow \in Flows, Arrive(q, b, a, flow)
      PROVE  TypeOK'
  <2>1. request' \in [Requests -> RequestRecords] /\ minted' \in SUBSET Ids
    BY <1>2, ArriveMoves DEF OnlyMoves
  <2>2. logins' \in 0..MaxLogins
    BY <1>2, RegistrationAssumption DEF Arrive, TypeOK
  <2>3. QED
    BY <1>2, <2>1, <2>2 DEF Arrive, TypeOK, tables, cookies
<1>3. ASSUME NEW q \in Requests, LookUp(q)
      PROVE  TypeOK'
  <2>1. request' \in [Requests -> RequestRecords]
    BY <1>3, LookUpMoves DEF OnlyMoves
  <2>2. request[q].account \in Accounts
    BY <1>3 DEF LookUp, RequestInOrder, Serving
  <2>3. tried' \in [Ids -> SUBSET Accounts]
    <3>1. \/ tried' = tried
          \/ tried' = [id \in Ids |-> IF id = request[q].id
                                      THEN tried[id] \cup {request[q].account}
                                      ELSE tried[id]]
      BY <1>3 DEF LookUp
    <3>2. QED
      BY <2>2, <3>1 DEF TypeOK
  <2>4. QED
    BY <1>3, <2>1, <2>3 DEF LookUp, TypeOK, tables, cookies
<1>4. ASSUME NEW q \in Requests, FetchUser(q)
      PROVE  TypeOK'
  <2>1. request' \in [Requests -> RequestRecords]
    BY <1>4, FetchMoves DEF OnlyMoves
  <2>2. QED
    BY <1>4, <2>1 DEF FetchUser, TypeOK, tables, cookies, history
<1>5. ASSUME NEW q \in Requests, AddUser(q)
      PROVE  TypeOK'
  <2>1. PICK failed \in BOOLEAN :
          /\ failed = UserInsertFails(request[q].id)
          /\ users' = IF failed THEN users ELSE users \cup {request[q].id}
          /\ AfterInsert(q, "users", failed)
    <3>1. UserInsertFails(request[q].id) \in BOOLEAN
      BY DEF UserInsertFails
    <3>2. QED
      BY <1>5, <3>1, Zenon DEF AddUser
  <2>2. failed \/ request[q].id \in Ids
    BY <2>1 DEF UserInsertFails, TypeOK, RequestRecords
  <2>3. /\ request' \in [Requests -> RequestRecords]
        /\ session' = session /\ via' = via /\ tracking' \in [Browsers -> Ids \cup {NoId}]
    BY <1>5, <2>1, <2>2, AfterInsertMoves DEF AddUser, OnlyMoves, Inserts
  <2>4. users' \in SUBSET Ids
    BY <2>1, <2>2 DEF TypeOK
  <2>5. QED
    BY <1>5, <2>3, <2>4 DEF AddUser, TypeOK, history
<1>6. ASSUME NEW q \in Requests, AddProvider(q)
      PROVE  TypeOK'
  <2>1. PICK failed \in BOOLEAN :
          /\ failed = ProviderInsertFails(request[q].id, request[q].account)
          /\ providers' = IF failed THEN providers
                          ELSE providers \cup {[user |-> request[q].id,
                                                account |-> request[q].account]}
          /\ AfterInsert(q, "providers", failed)
    <3>1. ProviderInsertFails(request[q].id, request[q].account) \in BOOLEAN
      BY DEF ProviderInsertFails
    <3>2. QED
      BY <1>6, <3>1, Zenon DEF AddProvider
  <2>2. /\ failed \/ request[q].id \in Ids
        /\ request[q].account \in Accounts
    BY <1>6, <2>1 DEF AddProvider, ProviderInsertFails, TypeOK, RequestRecords,
                      RequestInOrder, Serving
  <2>3. /\ request' \in [Requests -> RequestRecords]
        /\ session' = session /\ via' = via /\ tracking' \in [Browsers -> Ids \cup {NoId}]
    BY <1>6, <2>1, <2>2, AfterInsertMoves DEF AddProvider, OnlyMoves, Inserts
  <2>4. providers' \in SUBSET [user : Ids, account : Accounts]
    BY <2>1, <2>2 DEF TypeOK
  <2>5. QED
    BY <1>6, <2>3, <2>4 DEF AddProvider, TypeOK, history
<1>7. ASSUME NEW q \in Requests, NEW table \in Inserts, InsertLost(q, table)
      PROVE  TypeOK'
  <2>1. /\ request' \in [Requests -> RequestRecords]
        /\ session' = session /\ via' = via /\ tracking' \in [Browsers -> Ids \cup {NoId}]
    BY <1>7, AfterInsertMoves DEF InsertLost, OnlyMoves
  <2>2. faults' \in 0..MaxFaults
    BY <1>7, RegistrationAssumption DEF InsertLost, TypeOK
  <2>3. torn' \in SUBSET (Ids \cup {NoId})
    <3>1. request[q].id \in Ids \cup {NoId}
      BY DEF TypeOK, RequestRecords
    <3>2. QED
      BY <1>7, <3>1 DEF InsertLost, TypeOK
  <2>4. QED
    BY <1>7, <2>1, <2>2, <2>3 DEF InsertLost, TypeOK, tables
<1>8. ASSUME NEW q \in Requests, GenerateRefreshToken(q)
      PROVE  TypeOK'
  <2>1. request[q].browser \in Browsers
    BY <1>8 DEF GenerateRefreshToken, RequestInOrder, Serving
  <2>2. request[q].cookie \in Ids \cup {NoId} /\ request[q].user \in Ids \cup {Undefined}
    BY DEF TypeOK, RequestRecords
  <2>3. /\ request' \in [Requests -> RequestRecords] /\ tokens' \in SUBSET Ids
    BY <1>8, <2>2, RefreshMoves DEF OnlyMoves, TypeOK
  <2>4. /\ tracking' \in [Browsers -> Ids \cup {NoId}] /\ session' = session /\ via' = via
    BY <1>8, <2>1, <2>2 DEF GenerateRefreshToken, AnswerError, TypeOK, cookies
  <2>5. QED
    BY <1>8, <2>3, <2>4 DEF GenerateRefreshToken, TypeOK, history
<1>9. ASSUME NEW q \in Requests, SetAuthCookie(q)
      PROVE  TypeOK'
  <2>1. /\ request[q].browser \in Browsers /\ request[q].account \in Accounts
        /\ request[q].cookie \in Ids \cup {NoId} /\ request[q].user \in Ids \cup {Undefined}
    BY <1>9 DEF SetAuthCookie, RequestInOrder, Serving, TypeOK, RequestRecords
  <2>2. request' \in [Requests -> RequestRecords]
    BY <1>9, EndMoves DEF OnlyMoves
  <2>3. QED
    BY <1>9, <2>1, <2>2 DEF SetAuthCookie, TypeOK, tables, history
<1>10. ASSUME NEW q \in Requests, CodeRefused(q)
       PROVE  TypeOK'
  <2>1. /\ request[q].browser \in Browsers /\ request[q].cookie \in Ids \cup {NoId}
    BY <1>10 DEF CodeRefused, RequestInOrder, Serving, TypeOK, RequestRecords
  <2>2. request' \in [Requests -> RequestRecords]
    BY <1>10, EndMoves DEF OnlyMoves
  <2>3. QED
    BY <1>10, <2>1, <2>2 DEF CodeRefused, AnswerError, TypeOK, tables, history
<1>11. ASSUME NEW q \in Requests, Die(q)
       PROVE  TypeOK'
  <2>1. request' \in [Requests -> RequestRecords]
    BY <1>11, EndMoves DEF OnlyMoves
  <2>2. faults' \in 0..MaxFaults
    BY <1>11, RegistrationAssumption DEF Die, TypeOK
  <2>3. torn' \in SUBSET (Ids \cup {NoId})
    <3>1. request[q].id \in Ids \cup {NoId}
      BY DEF TypeOK, RequestRecords
    <3>2. QED
      BY <1>11, <3>1 DEF Die, TypeOK
  <2>4. QED
    BY <1>11, <2>1, <2>2, <2>3 DEF Die, TypeOK, tables, cookies
<1>12. QED
  BY <1>1, <1>2, <1>3, <1>4, <1>5, <1>6, <1>7, <1>8, <1>9, <1>10, <1>11
  DEF Next, Visitor, RequestStep, Fault

-----------------------------------------------------------------------------
(* The end of an insert, however it ends.                                  *)

\* What an insert that has ended leaves behind, in the tables or in torn.
Settled(q, table) ==
    LET id == request[q].id
        a == request[q].account
    IN  IF table = "users" THEN id \in Ids => id \in users' \cup torn'
        ELSE id \in Ids => id \in torn' \/ \E row \in providers' : row.user = id \/ row.account = a

\* What one that has succeeded leaves behind.
Succeeded(q, table) ==
    IF table = "users" THEN request[q].id \in users'
    ELSE [user |-> request[q].id, account |-> request[q].account] \in providers'

Ended(q, table) ==
    /\ OnlyMoves(q) /\ session' = session /\ via' = via /\ tokens' = tokens /\ tried' = tried
    /\ table \in request[q].pending
    /\ Settled(q, table)
    /\ \/ request'[q] = Idle /\ request[q].pending = {table}
       \/ /\ KeepsOrigin(q) /\ request'[q].id = request[q].id
          /\ request'[q].pending = request[q].pending \ {table}
          /\ \/ request'[q].step = "drain" /\ request'[q].pending # {}
             \/ /\ request[q].step = "insert" /\ Succeeded(q, table)
                /\ request'[q].user = request[q].id
                /\ request'[q].step \in IF request'[q].pending = {} THEN {"refresh", "grant"}
                                        ELSE {"insert"}

LEMMA AddUserEnds ==
    ASSUME TypeOK, NEW q \in Requests, RequestInOrder(q), AddUser(q)
    PROVE  Ended(q, "users") /\ providers' = providers
<1>1. PICK failed \in BOOLEAN :
        /\ failed = UserInsertFails(request[q].id)
        /\ users' = IF failed THEN users ELSE users \cup {request[q].id}
        /\ AfterInsert(q, "users", failed)
  <2>1. UserInsertFails(request[q].id) \in BOOLEAN
    BY DEF UserInsertFails
  <2>2. QED
    BY <2>1, Zenon DEF AddUser
<1>2. /\ failed \/ request[q].id \in Ids
      /\ failed => request[q].id \in users \cup {NoId}
  BY <1>1 DEF UserInsertFails, TypeOK, RequestRecords
<1>3. /\ "users" \in request[q].pending /\ "users" \in Inserts
      /\ providers' = providers /\ tokens' = tokens /\ tried' = tried
  BY DEF AddUser, Inserts, history
<1>4. Settled(q, "users") /\ (~failed => Succeeded(q, "users"))
  BY <1>1, <1>2, RegistrationAssumption DEF Settled, Succeeded
<1>5. QED
  BY <1>1, <1>2, <1>3, <1>4, AfterInsertMoves DEF Ended

LEMMA AddProviderEnds ==
    ASSUME TypeOK, NEW q \in Requests, RequestInOrder(q), AddProvider(q)
    PROVE  /\ Ended(q, "providers") /\ users' = users
           /\ LET id == request[q].id
                  a == request[q].account
              IN  \/ /\ id \in Ids
                     /\ providers' = providers \cup {[user |-> id, account |-> a]}
                  \/ /\ providers' = providers
                     /\ \/ id = NoId
                        \/ \E row \in providers :
                             \/ row.account = a
                             \/ row.user = id /\ KindOf[row.account] = KindOf[a]
<1> DEFINE id == request[q].id
           a == request[q].account
<1>1. PICK failed \in BOOLEAN :
        /\ failed = ProviderInsertFails(id, a)
        /\ providers' = IF failed THEN providers
                        ELSE providers \cup {[user |-> id, account |-> a]}
        /\ AfterInsert(q, "providers", failed)
  <2>1. ProviderInsertFails(id, a) \in BOOLEAN
    BY DEF ProviderInsertFails
  <2>2. QED
    BY <2>1, Zenon DEF AddProvider
<1>2. /\ failed \/ id \in Ids
      /\ failed => \/ id = NoId
                   \/ \E row \in providers :
                        \/ row.account = a
                        \/ row.user = id /\ KindOf[row.account] = KindOf[a]
  BY <1>1 DEF ProviderInsertFails, TypeOK, RequestRecords
<1>3. /\ "providers" \in request[q].pending /\ "providers" \in Inserts
      /\ users' = users /\ tokens' = tokens /\ tried' = tried
  BY DEF AddProvider, Inserts, history
<1>4. CASE failed
  <2>1. providers' = providers
    BY <1>1, <1>4
  <2>2. Settled(q, "providers")
    BY <1>2, <1>4, <2>1, RegistrationAssumption DEF Settled, HasProvider
  <2>3. QED
    BY <1>1, <1>2, <1>3, <1>4, <2>1, <2>2, AfterInsertMoves DEF Ended
<1>5. CASE ~failed
  <2>1. providers' = providers \cup {[user |-> id, account |-> a]}
    BY <1>1, <1>5
  <2>2. Settled(q, "providers") /\ Succeeded(q, "providers")
    <3>1. [user |-> id, account |-> a].account = a
      OBVIOUS
    <3>2. QED
      BY <2>1, <3>1 DEF Settled, Succeeded
  <2>3. QED
    BY <1>1, <1>2, <1>3, <1>5, <2>1, <2>2, AfterInsertMoves DEF Ended
<1>6. QED
  BY <1>4, <1>5

LEMMA InsertLostEnds ==
    ASSUME TypeOK, NEW q \in Requests, RequestInOrder(q), NEW table \in Inserts,
           InsertLost(q, table)
    PROVE  /\ Ended(q, table) /\ request[q].id \in torn'
           /\ users' = users /\ providers' = providers
<1>1. /\ AfterInsert(q, table, TRUE) /\ table \in request[q].pending
      /\ users' = users /\ providers' = providers /\ tokens' = tokens /\ tried' = tried
      /\ request[q].id \in torn'
  BY DEF InsertLost, tables
<1>2. Settled(q, table)
  BY <1>1 DEF Settled
<1>3. QED
  BY <1>1, <1>2, AfterInsertMoves DEF Ended

-----------------------------------------------------------------------------
(* RequestInOrder and InsertsInOrder.                                      *)

\* A request that a step leaves alone stays in order.
LEMMA BystanderInOrder ==
    ASSUME Grows, NEW p \in Requests, RequestInOrder(p), InsertsInOrder(p),
           request'[p] = request[p]
    PROVE  RequestInOrder(p)' /\ InsertsInOrder(p)'
<1>1. RequestInOrder(p)'
  BY DEF RequestInOrder, Serving, HasRow, Grows
<1>2. InsertsInOrder(p)'
  BY DEF InsertsInOrder, HasRow, HasProvider, Linked, Grows
<1>3. QED
  BY <1>1, <1>2

LEMMA IdleInOrder ==
    ASSUME NEW q \in Requests, request'[q] = Idle
    PROVE  RequestInOrder(q)' /\ InsertsInOrder(q)'
BY DEF RequestInOrder, InsertsInOrder, Serving, Idle

LEMMA EndedInOrder ==
    ASSUME TypeOK, Grows, NEW q \in Requests, NEW table \in Inserts,
           RequestInOrder(q), InsertsInOrder(q), Ended(q, table)
    PROVE  RequestInOrder(q)' /\ InsertsInOrder(q)'
<1> DEFINE r == request[q]
           s == request'[q]
<1>1. /\ r.browser \in Browsers /\ r.account \in Accounts /\ r.flow \in Flows
      /\ r.step \in {"insert", "drain"} /\ r.pending # {} /\ r.pending \subseteq Inserts
  BY DEF RequestInOrder, Serving, Ended, TypeOK, RequestRecords
<1>2. CASE s = Idle
  BY <1>2, IdleInOrder
<1>3. CASE s # Idle
  <2>1. /\ s.browser = r.browser /\ s.account = r.account /\ s.flow = r.flow /\ s.id = r.id
        /\ s.pending = r.pending \ {table} /\ Settled(q, table) /\ tried' = tried
    BY <1>3 DEF Ended, KeepsOrigin
  <2>2. r.id \in Ids => /\ r.account \in tried[r.id]
                        /\ "users" \in r.pending \/ r.id \in users \cup torn
                        /\ "providers" \in r.pending \/ r.id \in torn
                           \/ HasProvider(r.id) \/ Linked(r.account)
    BY <1>1 DEF InsertsInOrder
  <2>3. r.id \in Ids => "users" \in s.pending \/ r.id \in users' \cup torn'
    <3>1. CASE table = "users"
      BY <2>1, <3>1 DEF Settled
    <3>2. CASE table = "providers"
      BY <2>1, <2>2, <3>2 DEF Grows
    <3>3. QED
      BY <3>1, <3>2 DEF Inserts
  <2>4. r.id \in Ids => \/ "providers" \in s.pending \/ r.id \in torn'
                        \/ \E row \in providers' : row.user = r.id \/ row.account = r.account
    <3>1. CASE table = "users"
      BY <2>1, <2>2, <3>1 DEF Grows, HasProvider, Linked
    <3>2. CASE table = "providers"
      BY <2>1, <3>2 DEF Settled
    <3>3. QED
      BY <3>1, <3>2 DEF Inserts
  <2>5. CASE s.step = "drain" /\ s.pending # {}
    <3>1. RequestInOrder(q)'
      BY <1>1, <2>1, <2>5 DEF RequestInOrder
    <3>2. InsertsInOrder(q)'
      BY <2>1, <2>2, <2>3, <2>4, <2>5 DEF InsertsInOrder, HasProvider, Linked
    <3>3. QED
      BY <3>1, <3>2
  <2>6. CASE /\ r.step = "insert" /\ Succeeded(q, table) /\ s.user = r.id
             /\ s.step \in IF s.pending = {} THEN {"refresh", "grant"} ELSE {"insert"}
    <3>1. /\ "users" \in r.pending \/ r.id \in users
          /\ "providers" \in r.pending \/ HasRow(r.id, r.account)
      BY <1>1, <2>6 DEF InsertsInOrder
    <3>2. "users" \in s.pending \/ r.id \in users'
      BY <2>1, <2>6, <3>1 DEF Succeeded, Grows
    <3>3. "providers" \in s.pending
          \/ [user |-> r.id, account |-> r.account] \in providers'
      BY <2>1, <2>6, <3>1 DEF Succeeded, Grows, HasRow, Inserts
    <3>4. RequestInOrder(q)'
      BY <1>1, <2>1, <2>6, <3>2, <3>3 DEF RequestInOrder, HasRow
    <3>5. InsertsInOrder(q)'
      BY <2>1, <2>2, <2>3, <2>4, <2>6, <3>2, <3>3 DEF InsertsInOrder, HasRow, HasProvider, Linked
    <3>6. QED
      BY <3>4, <3>5
  <2>7. QED
    BY <1>3, <2>5, <2>6 DEF Ended
<1>4. QED
  BY <1>2, <1>3

LEMMA OrderPreserved ==
    ASSUME TypeOK, \A q \in Requests : RequestInOrder(q) /\ InsertsInOrder(q), Next
    PROVE  \A q \in Requests : RequestInOrder(q)' /\ InsertsInOrder(q)'
<1>1. Grows
  BY RowsStay
<1>2. ASSUME NEW q \in Requests, OnlyMoves(q), RequestInOrder(q)', InsertsInOrder(q)'
      PROVE  \A p \in Requests : RequestInOrder(p)' /\ InsertsInOrder(p)'
  BY <1>1, <1>2, BystanderInOrder DEF OnlyMoves
<1>3. ASSUME NEW q \in Requests, NEW b \in Browsers, NEW a \in Accounts,
             NEW flow \in Flows, Arrive(q, b, a, flow)
      PROVE  \A p \in Requests : RequestInOrder(p)' /\ InsertsInOrder(p)'
  <2>1. /\ OnlyMoves(q) /\ request'[q].step = "lookup" /\ request'[q].browser = b
        /\ request'[q].account = a /\ request'[q].flow = flow /\ request'[q].pending = {}
    BY <1>3, ArriveMoves
  <2>2. RequestInOrder(q)' /\ InsertsInOrder(q)'
    BY <2>1 DEF RequestInOrder, InsertsInOrder
  <2>3. QED
    BY <1>2, <2>1, <2>2
<1>4. ASSUME NEW q \in Requests, LookUp(q)
      PROVE  \A p \in Requests : RequestInOrder(p)' /\ InsertsInOrder(p)'
  <2>1. /\ OnlyMoves(q) /\ KeepsOrigin(q) /\ request[q].step = "lookup"
        /\ providers' = providers
    BY <1>4, LookUpMoves DEF LookUp, tables
  <2>2. /\ request[q].browser \in Browsers /\ request[q].account \in Accounts
        /\ request[q].flow \in Flows /\ request[q].pending = {}
    BY <2>1 DEF RequestInOrder, Serving
  <2>3. CASE /\ HasRow(request'[q].id, request[q].account)
             /\ request'[q].step = "fetch" /\ request'[q].pending = request[q].pending
    <3>1. RequestInOrder(q)' /\ InsertsInOrder(q)'
      BY <2>1, <2>2, <2>3 DEF RequestInOrder, InsertsInOrder, KeepsOrigin, HasRow
    <3>2. QED
      BY <1>2, <2>1, <3>1
  <2>4. CASE /\ request'[q].step = "insert" /\ request'[q].pending = Inserts
             /\ request'[q].id = request[q].id
             /\ tried' = [id \in Ids |-> IF id = request[q].id
                                         THEN tried[id] \cup {request[q].account}
                                         ELSE tried[id]]
    <3>1. RequestInOrder(q)'
      BY <2>1, <2>2, <2>4 DEF RequestInOrder, KeepsOrigin, Inserts
    <3>2. InsertsInOrder(q)'
      BY <2>1, <2>2, <2>4 DEF InsertsInOrder, KeepsOrigin, Inserts
    <3>3. QED
      BY <1>2, <2>1, <3>1, <3>2
  <2>5. QED
    BY <1>4, <2>3, <2>4, LookUpMoves
<1>5. ASSUME NEW q \in Requests, FetchUser(q)
      PROVE  \A p \in Requests : RequestInOrder(p)' /\ InsertsInOrder(p)'
  <2>1. /\ OnlyMoves(q) /\ KeepsOrigin(q)
        /\ request[q].step = "fetch" /\ request'[q].step \in {"refresh", "grant"}
        /\ request'[q].pending = request[q].pending
        /\ \/ request'[q].user = Undefined
           \/ request[q].id \in users /\ request'[q].user = request[q].id
    BY <1>5, FetchMoves
  <2>2. /\ request[q].browser \in Browsers /\ request[q].account \in Accounts
        /\ request[q].flow \in Flows /\ request[q].pending = {}
        /\ HasRow(request[q].id, request[q].account)
    BY <2>1 DEF RequestInOrder, Serving
  <2>3. users' = users /\ providers' = providers
    BY <1>5 DEF FetchUser, tables
  <2>4. RequestInOrder(q)' /\ InsertsInOrder(q)'
    BY <2>1, <2>2, <2>3 DEF RequestInOrder, InsertsInOrder, KeepsOrigin, HasRow
  <2>5. QED
    BY <1>2, <2>1, <2>4
<1>6. ASSUME NEW q \in Requests, NEW table \in Inserts, Ended(q, table)
      PROVE  \A p \in Requests : RequestInOrder(p)' /\ InsertsInOrder(p)'
  <2>1. RequestInOrder(q)' /\ InsertsInOrder(q)'
    BY <1>1, <1>6, EndedInOrder
  <2>2. OnlyMoves(q)
    BY <1>6 DEF Ended
  <2>3. QED
    BY <1>2, <2>1, <2>2
<1>7. ASSUME NEW q \in Requests, GenerateRefreshToken(q)
      PROVE  \A p \in Requests : RequestInOrder(p)' /\ InsertsInOrder(p)'
  <2>1. OnlyMoves(q) /\ request[q].step = "refresh"
    BY <1>7, RefreshMoves
  <2>2. CASE request'[q] = Idle
    BY <1>2, <2>1, <2>2, IdleInOrder
  <2>3. CASE /\ KeepsOrigin(q) /\ request'[q].user = request[q].user
             /\ request'[q].step = "grant" /\ request'[q].pending = request[q].pending
             /\ request[q].user # Undefined
    <3>1. /\ request[q].browser \in Browsers /\ request[q].account \in Accounts
          /\ request[q].flow \in Flows /\ request[q].pending = {}
          /\ request[q].user \in users /\ HasRow(request[q].user, request[q].account)
      BY <2>1, <2>3 DEF RequestInOrder, Serving
    <3>2. users' = users /\ providers' = providers
      BY <1>7 DEF GenerateRefreshToken
    <3>3. RequestInOrder(q)' /\ InsertsInOrder(q)'
      BY <2>3, <3>1, <3>2 DEF RequestInOrder, InsertsInOrder, KeepsOrigin, HasRow
    <3>4. QED
      BY <1>2, <2>1, <3>3
  <2>4. QED
    BY <1>7, <2>2, <2>3, RefreshMoves
<1>8. ASSUME NEW q \in Requests, CodeRefused(q) \/ SetAuthCookie(q) \/ Die(q)
      PROVE  \A p \in Requests : RequestInOrder(p)' /\ InsertsInOrder(p)'
  BY <1>2, <1>8, EndMoves, IdleInOrder
<1>9. CASE request' = request
  BY <1>1, <1>9, BystanderInOrder
<1>10. QED
  BY <1>3, <1>4, <1>5, <1>6, <1>7, <1>8, <1>9, AddUserEnds, AddProviderEnds, InsertLostEnds
  DEF Next, Visitor, RequestStep, Fault, Expire, Logout, Inserts

-----------------------------------------------------------------------------
(* The properties.                                                         *)

\* The user a login ends with has both rows.
LEMMA SessionsPreserved ==
    ASSUME TypeOK, \A q \in Requests : RequestInOrder(q), SessionsBelongToAccount, Next
    PROVE  SessionsBelongToAccount'
<1>1. users \subseteq users' /\ providers \subseteq providers'
  BY RowsStay DEF Grows
<1>2. ASSUME NEW q \in Requests, SetAuthCookie(q)
      PROVE  SessionsBelongToAccount'
  <2> DEFINE r == request[q]
  <2>1. /\ r.browser \in Browsers /\ r.user \in Ids \cup {Undefined}
        /\ r.user # Undefined => /\ r.user \in users
                                 /\ [user |-> r.user, account |-> r.account] \in providers
    BY <1>2 DEF SetAuthCookie, RequestInOrder, Serving, HasRow, TypeOK, RequestRecords
  <2>2. /\ session' = [session EXCEPT ![r.browser] = r.user]
        /\ via' = [via EXCEPT ![r.browser] = r.account]
        /\ tokens' = tokens /\ users' = users /\ providers' = providers
    BY <1>2 DEF SetAuthCookie, tables
  <2>3. ASSUME NEW b \in Browsers, session'[b] \in Ids
        PROVE  /\ session'[b] \in users'
               /\ [user |-> session'[b], account |-> via'[b]] \in providers'
    <3>1. CASE b = r.browser
      BY <2>1, <2>2, <2>3, <3>1, RegistrationAssumption DEF TypeOK
    <3>2. CASE b # r.browser
      BY <2>2, <2>3, <3>2 DEF TypeOK, SessionsBelongToAccount
    <3>3. QED
      BY <3>1, <3>2
  <2>4. QED
    BY <2>2, <2>3 DEF SessionsBelongToAccount, HasProvider
<1>3. ASSUME NEW c \in Browsers, Expire(c) \/ Logout(c)
      PROVE  SessionsBelongToAccount'
  <2>1. \A b \in Browsers : \/ session'[b] = NoId
                            \/ session'[b] = session[b] /\ via'[b] = via[b]
    BY <1>3 DEF Expire, Logout, TypeOK
  <2>2. tokens' = tokens /\ users' = users /\ providers' = providers
    BY <1>3 DEF Expire, Logout, tables
  <2>3. QED
    BY <2>1, <2>2, RegistrationAssumption DEF SessionsBelongToAccount, HasProvider
<1>4. ASSUME NEW q \in Requests, GenerateRefreshToken(q)
      PROVE  SessionsBelongToAccount'
  <2>1. tokens' = tokens \/ (request[q].user # Undefined /\ tokens' = tokens \cup {request[q].user})
    BY <1>4, RefreshMoves
  <2>2. request[q].user # Undefined =>
          request[q].user \in users /\ HasRow(request[q].user, request[q].account)
    BY <1>4 DEF GenerateRefreshToken, RequestInOrder
  <2>3. HasRow(request[q].user, request[q].account) => HasProvider(request[q].user)
    BY DEF HasRow, HasProvider
  <2>4. /\ session' = session /\ via' = via /\ users' = users /\ providers' = providers
    BY <1>4 DEF GenerateRefreshToken, AnswerError, cookies
  <2>5. QED
    BY <2>1, <2>2, <2>3, <2>4 DEF SessionsBelongToAccount, HasProvider
<1>5. CASE session' = session /\ via' = via /\ tokens' = tokens
  BY <1>1, <1>5 DEF SessionsBelongToAccount, HasProvider
<1>6. ASSUME NEW q \in Requests, NEW table \in Inserts, Ended(q, table)
      PROVE  SessionsBelongToAccount'
  BY <1>5, <1>6 DEF Ended
<1>7. QED
  BY <1>2, <1>3, <1>4, <1>5, <1>6, AddUserEnds, AddProviderEnds, InsertLostEnds
  DEF Next, Visitor, RequestStep, Fault, Arrive, CodeRefused, LookUp, FetchUser, Die,
      AnswerError, tables, cookies, Inserts

\* An insert that is under way for id (with account a) stays under way, or has settled.
LEMMA PendingStays ==
    ASSUME TypeOK, \A q \in Requests : RequestInOrder(q), Next,
           NEW q \in Requests, NEW table \in Inserts, table \in request[q].pending
    PROVE  \/ /\ table \in request'[q].pending /\ request'[q].id = request[q].id
              /\ request'[q].account = request[q].account
           \/ request[q].id \in torn'
           \/ table = "users" /\ AddUser(q)
           \/ table = "providers" /\ AddProvider(q)
<1> DEFINE Goal == \/ /\ table \in request'[q].pending /\ request'[q].id = request[q].id
                      /\ request'[q].account = request[q].account
                   \/ request[q].id \in torn'
                   \/ table = "users" /\ AddUser(q)
                   \/ table = "providers" /\ AddProvider(q)
<1>1. request[q].step \in {"insert", "drain"} /\ request[q] # Idle
  <2>1. request[q].step \in {"insert", "drain"}
    BY DEF RequestInOrder
  <2>2. QED
    BY <2>1 DEF Idle
<1>2. ASSUME request'[q] = request[q]
      PROVE  Goal
  BY <1>2
<1>3. ASSUME NEW p \in Requests, OnlyMoves(p), p = q => Goal
      PROVE  Goal
  BY <1>2, <1>3 DEF OnlyMoves
<1>4. ASSUME NEW other \in Inserts, Ended(q, other), other # table
      PROVE  Goal
  <2>1. table \in request[q].pending \ {other}
    BY <1>4
  <2>2. request[q].pending # {other}
    BY <1>4
  <2>3. QED
    BY <1>4, <2>1, <2>2 DEF Ended, KeepsOrigin
<1>5. ASSUME NEW p \in Requests, AddUser(p)
      PROVE  Goal
  <2>1. Ended(p, "users") /\ OnlyMoves(p)
    BY <1>5, AddUserEnds DEF Ended
  <2>2. QED
    BY <1>3, <1>4, <1>5, <2>1 DEF Inserts
<1>6. ASSUME NEW p \in Requests, AddProvider(p)
      PROVE  Goal
  <2>1. Ended(p, "providers") /\ OnlyMoves(p)
    BY <1>6, AddProviderEnds DEF Ended
  <2>2. QED
    BY <1>3, <1>4, <1>6, <2>1 DEF Inserts
<1>7. ASSUME NEW p \in Requests, NEW other \in Inserts, InsertLost(p, other)
      PROVE  Goal
  <2>1. OnlyMoves(p) /\ request[p].id \in torn'
    BY <1>7, InsertLostEnds DEF Ended
  <2>2. QED
    BY <1>3, <2>1
<1>8. ASSUME NEW p \in Requests, Die(p)
      PROVE  Goal
  <2>1. OnlyMoves(p)
    BY <1>8, EndMoves
  <2>2. torn' = IF request[p].pending = {} THEN torn ELSE torn \cup {request[p].id}
    BY <1>8 DEF Die
  <2>3. QED
    BY <1>3, <2>1, <2>2
<1>9. ASSUME NEW p \in Requests, request[p].step \notin {"insert", "drain"}, OnlyMoves(p)
      PROVE  Goal
  BY <1>1, <1>3, <1>9
<1>10. ASSUME NEW p \in Requests, NEW b \in Browsers, NEW a \in Accounts,
              NEW flow \in Flows, Arrive(p, b, a, flow)
       PROVE  Goal
  <2>1. OnlyMoves(p) /\ ~Serving(p)
    <3>1. ~Serving(p)
      BY <1>10 DEF Arrive
    <3>2. QED
      BY <1>10, <3>1, ArriveMoves
  <2>2. QED
    BY <1>9, <2>1 DEF Serving
<1>11. ASSUME NEW p \in Requests, LookUp(p) \/ FetchUser(p) \/ GenerateRefreshToken(p)
       PROVE  Goal
  <2>1. OnlyMoves(p)
    BY <1>11, LookUpMoves, FetchMoves, RefreshMoves
  <2>2. request[p].step \in {"lookup", "fetch", "refresh"}
    BY <1>11 DEF LookUp, FetchUser, GenerateRefreshToken
  <2>3. QED
    BY <1>9, <2>1, <2>2
<1>12. ASSUME NEW p \in Requests, CodeRefused(p) \/ SetAuthCookie(p)
       PROVE  Goal
  <2>1. OnlyMoves(p)
    BY <1>12, EndMoves
  <2>2. request[p].step \in {"lookup", "grant"}
    BY <1>12 DEF CodeRefused, SetAuthCookie
  <2>3. QED
    BY <1>9, <2>1, <2>2
<1>13. CASE request' = request
  BY <1>2, <1>13
<1>14. QED
  BY <1>5, <1>6, <1>7, <1>8, <1>10, <1>11, <1>12, <1>13
  DEF Next, Visitor, RequestStep, Fault, Expire, Logout

LEMMA ProvidersPreserved ==
    ASSUME TypeOK, \A q \in Requests : RequestInOrder(q) /\ InsertsInOrder(q),
           OnlyFaultsLeaveProviderAlone, Next
    PROVE  OnlyFaultsLeaveProviderAlone'
<1> DEFINE Whole(id) ==
             \/ id \in users' \/ id \in torn'
             \/ \E q \in Requests : request'[q].id = id /\ "users" \in request'[q].pending
<1>1. users \subseteq users' /\ torn \subseteq torn'
  BY RowsStay DEF Grows
<1>2. ASSUME NEW q \in Requests, "users" \in request[q].pending, request[q].id \in Ids
      PROVE  Whole(request[q].id)
  <2>1. CASE AddUser(q)
    <3>1. Settled(q, "users")
      BY <2>1, AddUserEnds DEF Ended
    <3>2. QED
      BY <1>2, <3>1 DEF Settled
  <2>2. CASE ~AddUser(q)
    <3>1. \/ "users" \in request'[q].pending /\ request'[q].id = request[q].id
          \/ request[q].id \in torn'
      BY <1>2, <2>2, PendingStays DEF Inserts
    <3>2. QED
      BY <3>1
  <2>3. QED
    BY <2>1, <2>2
<1>3. ASSUME NEW row \in providers
      PROVE  Whole(row.user)
  <2>1. \/ row.user \in users \/ row.user \in torn
        \/ \E q \in Requests : request[q].id = row.user /\ "users" \in request[q].pending
    BY DEF OnlyFaultsLeaveProviderAlone
  <2>2. row.user \in Ids
    BY DEF TypeOK
  <2>3. QED
    BY <1>1, <1>2, <2>1, <2>2
<1>4. ASSUME NEW q \in Requests, AddProvider(q)
      PROVE  OnlyFaultsLeaveProviderAlone'
  <2>1. \/ providers' = providers
        \/ /\ request[q].id \in Ids
           /\ providers' = providers \cup {[user |-> request[q].id,
                                            account |-> request[q].account]}
    BY <1>4, AddProviderEnds
  <2>2. ASSUME request[q].id \in Ids
        PROVE  Whole(request[q].id)
    <3>1. CASE "users" \in request[q].pending
      BY <1>2, <2>2, <3>1
    <3>2. CASE "users" \notin request[q].pending
      <4>1. request[q].pending # {}
        BY <1>4 DEF AddProvider
      <4>2. request[q].id \in users \cup torn
        BY <2>2, <3>2, <4>1 DEF InsertsInOrder
      <4>3. QED
        BY <1>1, <4>2
    <3>3. QED
      BY <3>1, <3>2
  <2>3. ASSUME NEW row \in providers'
        PROVE  Whole(row.user)
    BY <1>3, <2>1, <2>2, <2>3
  <2>4. QED
    BY <2>3 DEF OnlyFaultsLeaveProviderAlone
<1>5. CASE providers' = providers
  BY <1>3, <1>5 DEF OnlyFaultsLeaveProviderAlone
<1>6. QED
  BY <1>4, <1>5, AddUserEnds, InsertLostEnds
  DEF Next, Visitor, RequestStep, Fault, Expire, Logout, Arrive, CodeRefused, LookUp,
      FetchUser, GenerateRefreshToken, SetAuthCookie, Die, tables

LEMMA OrphansPreserved ==
    ASSUME TypeOK, \A q \in Requests : RequestInOrder(q) /\ InsertsInOrder(q),
           OrphansLostARace, Next
    PROVE  OrphansLostARace'
<1> DEFINE Explained(id) ==
             \/ id \in torn'
             \/ \E row \in providers' : row.user = id
             \/ \E q \in Requests : request'[q].id = id /\ "providers" \in request'[q].pending
             \/ \E a \in tried'[id] : \E row \in providers' : row.account = a /\ row.user # id
<1>1. Grows
  BY RowsStay
<1>2. ASSUME NEW id \in Ids,
             \/ id \in torn \/ HasProvider(id)
             \/ \E a \in tried[id] : \E row \in providers : row.account = a
      PROVE  Explained(id)
  BY <1>1, <1>2 DEF Grows, HasProvider
<1>3. ASSUME NEW q \in Requests, "providers" \in request[q].pending, request[q].id \in Ids
      PROVE  Explained(request[q].id)
  <2>1. CASE AddProvider(q)
    <3>1. request[q].account \in tried[request[q].id]
      BY <1>3 DEF InsertsInOrder
    <3>2. \/ request[q].id \in torn'
          \/ \E row \in providers' : row.user = request[q].id \/ row.account = request[q].account
      BY <1>3, <2>1, AddProviderEnds DEF Ended, Settled
    <3>3. QED
      BY <1>1, <1>3, <3>1, <3>2 DEF Grows
  <2>2. CASE ~AddProvider(q)
    <3>1. \/ "providers" \in request'[q].pending /\ request'[q].id = request[q].id
          \/ request[q].id \in torn'
      BY <1>3, <2>2, PendingStays DEF Inserts
    <3>2. QED
      BY <3>1
  <2>3. QED
    BY <2>1, <2>2
<1>4. ASSUME NEW id \in users
      PROVE  Explained(id)
  <2>1. \/ id \in torn \/ HasProvider(id)
        \/ \E q \in Requests : request[q].id = id /\ "providers" \in request[q].pending
        \/ \E a \in tried[id] : \E row \in providers : row.account = a
    BY DEF OrphansLostARace
  <2>2. id \in Ids
    BY DEF TypeOK
  <2>3. QED
    BY <1>2, <1>3, <2>1, <2>2
<1>5. ASSUME NEW q \in Requests, AddUser(q)
      PROVE  OrphansLostARace'
  <2>1. users' = users \/ (request[q].id \in Ids /\ users' = users \cup {request[q].id})
    BY <1>5 DEF AddUser, UserInsertFails, TypeOK, RequestRecords
  <2>2. ASSUME request[q].id \in Ids
        PROVE  Explained(request[q].id)
    <3>1. CASE "providers" \in request[q].pending
      BY <1>3, <2>2, <3>1
    <3>2. CASE "providers" \notin request[q].pending
      <4>1. request[q].pending # {}
        BY <1>5 DEF AddUser
      <4>2. /\ request[q].account \in tried[request[q].id]
            /\ request[q].id \in torn \/ HasProvider(request[q].id) \/ Linked(request[q].account)
        BY <2>2, <3>2, <4>1 DEF InsertsInOrder
      <4>3. QED
        BY <1>2, <2>2, <4>2 DEF Linked
    <3>3. QED
      BY <3>1, <3>2
  <2>3. \A id \in users' : Explained(id)
    BY <1>4, <2>1, <2>2
  <2>4. QED
    BY <2>3 DEF OrphansLostARace, HasProvider
<1>6. CASE users' = users
  BY <1>4, <1>6 DEF OrphansLostARace, HasProvider
<1>7. QED
  BY <1>5, <1>6, AddProviderEnds, InsertLostEnds
  DEF Next, Visitor, RequestStep, Fault, Expire, Logout, Arrive, CodeRefused, LookUp,
      FetchUser, GenerateRefreshToken, SetAuthCookie, Die, tables

LEMMA LinksPreserved ==
    ASSUME TypeOK, \A q \in Requests : RequestInOrder(q) /\ InsertsInOrder(q),
           FirstLoginsLinkTheAccount, Next
    PROVE  FirstLoginsLinkTheAccount'
<1> DEFINE Settles(id, a) ==
             \/ \E row \in providers' : row.account = a
             \/ id \in torn'
             \/ \E row \in providers' : row.user = id /\ KindOf[row.account] = KindOf[a]
             \/ \E q \in Requests : /\ request'[q].id = id /\ request'[q].account = a
                                    /\ "providers" \in request'[q].pending
<1>1. Grows
  BY RowsStay
<1>2. ASSUME NEW q \in Requests, "providers" \in request[q].pending, request[q].id \in Ids
      PROVE  Settles(request[q].id, request[q].account)
  <2>1. CASE AddProvider(q)
    <3>1. CASE providers' = providers \cup {[user |-> request[q].id,
                                             account |-> request[q].account]}
      <4> DEFINE new == [user |-> request[q].id, account |-> request[q].account]
      <4>1. new \in providers'
        BY <3>1
      <4>2. new.account = request[q].account
        OBVIOUS
      <4> HIDE DEF new
      <4>3. QED
        BY <4>1, <4>2
    <3>2. CASE /\ providers' = providers
               /\ \/ request[q].id = NoId
                  \/ \E row \in providers :
                       \/ row.account = request[q].account
                       \/ /\ row.user = request[q].id
                          /\ KindOf[row.account] = KindOf[request[q].account]
      <4>1. PICK row \in providers :
              \/ row.account = request[q].account
              \/ /\ row.user = request[q].id
                 /\ KindOf[row.account] = KindOf[request[q].account]
        BY <1>2, <3>2, RegistrationAssumption
      <4>2. row \in providers'
        BY <3>2
      <4>3. QED
        BY <4>1, <4>2
    <3>3. QED
      BY <2>1, <3>1, <3>2, AddProviderEnds
  <2>2. CASE ~AddProvider(q)
    <3>1. \/ /\ "providers" \in request'[q].pending /\ request'[q].id = request[q].id
             /\ request'[q].account = request[q].account
          \/ request[q].id \in torn'
      BY <1>2, <2>2, PendingStays DEF Inserts
    <3>2. QED
      BY <3>1
  <2>3. QED
    BY <2>1, <2>2
<1>3. ASSUME NEW id \in Ids, NEW a \in tried[id]
      PROVE  Settles(id, a)
  <2>1. \/ Linked(a) \/ id \in torn
        \/ \E row \in providers : row.user = id /\ KindOf[row.account] = KindOf[a]
        \/ \E q \in Requests : /\ request[q].id = id /\ request[q].account = a
                               /\ "providers" \in request[q].pending
    BY DEF FirstLoginsLinkTheAccount
  <2>2. QED
    BY <1>1, <1>2, <2>1 DEF Grows, Linked
<1>4. ASSUME NEW q \in Requests, LookUp(q)
      PROVE  FirstLoginsLinkTheAccount'
  <2>1. CASE tried' = tried
    BY <1>3, <2>1 DEF FirstLoginsLinkTheAccount, Linked
  <2>2. CASE /\ request'[q].pending = Inserts /\ request'[q].id = request[q].id
             /\ request'[q].account = request[q].account
             /\ tried' = [id \in Ids |-> IF id = request[q].id
                                         THEN tried[id] \cup {request[q].account}
                                         ELSE tried[id]]
    <3>1. Settles(request[q].id, request[q].account)
      BY <2>2 DEF Inserts
    <3>2. \A id \in Ids : \A a \in tried'[id] : Settles(id, a)
      BY <1>3, <2>2, <3>1
    <3>3. QED
      BY <3>2 DEF FirstLoginsLinkTheAccount, Linked
  <2>3. QED
    BY <1>4, <2>1, <2>2, LookUpMoves DEF KeepsOrigin
<1>5. CASE tried' = tried
  BY <1>3, <1>5 DEF FirstLoginsLinkTheAccount, Linked
<1>6. QED
  BY <1>4, <1>5
  DEF Next, Visitor, RequestStep, Fault, Expire, Logout, Arrive, CodeRefused,
      FetchUser, AddUser, AddProvider, InsertLost, GenerateRefreshToken, SetAuthCookie, Die,
      tables, history

-----------------------------------------------------------------------------
(* The theorems.                                                           *)

\* The inductive invariant: what a request takes for granted, and the properties.
THEOREM InvariantHolds == Spec => []RegistrationInvariant
<1>1. Init => RegistrationInvariant
  <2> SUFFICES ASSUME Init PROVE RegistrationInvariant
    OBVIOUS
  <2>1. TypeOK
    BY IdleType, RegistrationAssumption DEF Init, TypeOK
  <2>2. \A q \in Requests : RequestInOrder(q) /\ InsertsInOrder(q)
    BY DEF Init, RequestInOrder, InsertsInOrder, Serving, Idle
  <2>3. SessionsBelongToAccount
    BY RegistrationAssumption DEF Init, SessionsBelongToAccount
  <2>4. OnlyFaultsLeaveProviderAlone /\ OrphansLostARace /\ FirstLoginsLinkTheAccount
    BY DEF Init, OnlyFaultsLeaveProviderAlone, OrphansLostARace, FirstLoginsLinkTheAccount
  <2>5. QED
    BY <2>1, <2>2, <2>3, <2>4 DEF RegistrationInvariant
<1>2. RegistrationInvariant /\ [Next]_vars => RegistrationInvariant'
  <2> SUFFICES ASSUME RegistrationInvariant, [Next]_vars PROVE RegistrationInvariant'
    OBVIOUS
  <2>1. CASE Next
    <3>1. /\ TypeOK /\ SessionsBelongToAccount /\ OnlyFaultsLeaveProviderAlone
          /\ OrphansLostARace /\ FirstLoginsLinkTheAccount
          /\ \A q \in Requests : RequestInOrder(q) /\ InsertsInOrder(q)
      BY DEF RegistrationInvariant
    <3>2. TypeOK' /\ \A q \in Requests : RequestInOrder(q)' /\ InsertsInOrder(q)'
      BY <2>1, <3>1, TypePreserved, OrderPreserved
    <3>3. SessionsBelongToAccount' /\ OnlyFaultsLeaveProviderAlone'
      BY <2>1, <3>1, SessionsPreserved, ProvidersPreserved
    <3>4. OrphansLostARace' /\ FirstLoginsLinkTheAccount'
      BY <2>1, <3>1, OrphansPreserved, LinksPreserved
    <3>5. QED
      BY <3>2, <3>3, <3>4 DEF RegistrationInvariant
  <2>2. CASE UNCHANGED vars
    BY <2>2 DEF vars, tables, cookies, history, RegistrationInvariant, TypeOK,
                RequestInOrder, InsertsInOrder, Serving, HasRow, HasProvider, Linked,
                SessionsBelongToAccount, OnlyFaultsLeaveProviderAlone, OrphansLostARace,
                FirstLoginsLinkTheAccount
  <2>3. QED
    BY <2>1, <2>2
<1>3. QED
  BY <1>1, <1>2, PTL DEF Spec

\* Rows, cookies and requests have their types: no row is keyed by a missing id.
THEOREM TypeCorrect == Spec => []TypeOK
BY InvariantHolds, PTL DEF RegistrationInvariant

\* Whoever has a session or a refresh token has the rows of users and providers that
\* boot reads, and the session is of the account it was opened with.
THEOREM SessionsHold == Spec => []SessionsBelongToAccount
BY InvariantHolds, PTL DEF RegistrationInvariant

\* The two inserts of authenticateToken, which run side by side: only a fault leaves
\* a row of providers whose user is missing.
THEOREM ProvidersHold == Spec => []OnlyFaultsLeaveProviderAlone
BY InvariantHolds, PTL DEF RegistrationInvariant

\* A user without a provider met a fault, or lost its account to another id.
THEOREM OrphansHold == Spec => []OrphansLostARace
BY InvariantHolds, PTL DEF RegistrationInvariant

\* The account of a login that is answered with the error of the other insert is linked.
THEOREM LinksHold == Spec => []FirstLoginsLinkTheAccount
BY InvariantHolds, PTL DEF RegistrationInvariant
=============================================================================
