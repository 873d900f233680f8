---------------------------- MODULE Registration ----------------------------
(***************************************************************************)
(* Logging in with an account of an OAuth provider (routes/auth.js).  The  *)
(* first login of an account registers a user: it inserts a row in users   *)
(* and a row in providers, side by side and in no transaction, under the   *)
(* tracking id of the browser, which becomes the id of the user.  A later  *)
(* login finds the row of providers and opens a session of its user.       *)
(*                                                                         *)
(* Requests of several browsers, or of one, run at once.  Every statement  *)
(* is atomic, the unique indexes of the two tables hold, and an instance   *)
(* may die or lose its connection between any two statements.              *)
(***************************************************************************)
EXTENDS Naturals, FiniteSets

CONSTANTS Browsers,
          Accounts,      \* accounts at the OAuth providers
          KindOf,        \* the provider of each account: github or google
          Ids,           \* the ids generateId may return
          Requests,      \* login requests served at once
          NoId,          \* no cookie, no row
          Undefined,     \* the user id of a token that was signed without one
          MaxLogins,     \* bound on the number of login requests
          MaxFaults      \* bound on deaths and failed statements

ASSUME RegistrationAssumption ==
    /\ DOMAIN KindOf = Accounts
    /\ NoId \notin Ids
    /\ Undefined \notin Ids
    /\ NoId # Undefined
    /\ MaxLogins \in Nat
    /\ MaxFaults \in Nat

VARIABLES
    users,        \* the ids that have a row in users
    providers,    \* the rows of providers
    tokens,       \* the users that own a row of refresh_tokens
    tracking,     \* cookie da2 of each browser
    session,      \* the user id in cookie da3 of each browser
    via,          \* history: the account the session was opened with
    request,      \* the local state of each login request
    minted,       \* the ids generateId has returned
    torn,         \* history: the ids whose registration met a fault
    tried,        \* history: the accounts each id tried to register
    logins, faults

tables  == <<users, providers, tokens>>
cookies == <<tracking, session, via>>
history == <<minted, torn, tried, logins, faults>>
vars    == <<tables, cookies, request, history>>

Steps == {"idle", "lookup", "fetch", "insert", "drain", "refresh", "grant"}
Flows == {"authenticate", "callback"}
Inserts == {"users", "providers"}

\* id is ctx.trackingId, cookie what the answer leaves in cookie da2, user the
\* id of the user that authenticateToken returns, pending the inserts that have
\* been sent and have not ended.
Idle == [step |-> "idle", browser |-> NoId, account |-> NoId, flow |-> NoId,
         id |-> NoId, cookie |-> NoId, user |-> Undefined, pending |-> {}]

Goto(q, s) == request' = [request EXCEPT ![q].step = s]

Linked(a) == \E row \in providers : row.account = a

Serving(q) == request[q].step # "idle"

-----------------------------------------------------------------------------
(* The models' statements.                                                 *)

\* provider.getByProviderId
GetByProviderId(a) == {row.user : row \in {r \in providers : r.account = a}}

\* A faulty variant: users.email is unique as well, as it once was; the accounts
\* of the model share an address.
UserInsertFailsOnEmail(id) == id = NoId \/ users # {}

\* users.id is the primary key of users.
UserInsertFails(id) == id \in users \cup {NoId}

\* The unique indexes (user_id, provider) and (provider_id, provider).
ProviderInsertFails(id, a) ==
    \/ id = NoId
    \/ \E row \in providers :
         \/ row.account = a
         \/ row.user = id /\ KindOf[row.account] = KindOf[a]

-----------------------------------------------------------------------------
(* What a browser and its user do.                                         *)

\* A login request with the code of account a arrives.  verifyTracking takes
\* the id of the session, else the tracking cookie, else a new id; a session
\* without a user id leaves the tracking cookie of the request.
Arrive(q, b, a, flow) ==
    /\ ~Serving(q)
    /\ logins < MaxLogins
    /\ logins' = logins + 1
    /\ \E id \in Ids \cup {NoId} :
         /\ \/ session[b] \in Ids /\ id = session[b] /\ UNCHANGED minted
            \/ session[b] = Undefined /\ id = tracking[b] /\ UNCHANGED minted
            \/ session[b] = NoId /\ tracking[b] # NoId /\ id = tracking[b] /\ UNCHANGED minted
            \/ /\ session[b] = NoId /\ tracking[b] = NoId
               /\ id \in Ids \ minted
               /\ minted' = minted \cup {id}
         /\ request' = [request EXCEPT ![q] =
                [step |-> "lookup", browser |-> b, account |-> a, flow |-> flow, id |-> id,
                 cookie |-> IF session[b] = Undefined THEN NoId ELSE id,
                 user |-> Undefined, pending |-> {}]]
    /\ UNCHANGED <<tables, cookies, torn, tried, faults>>

\* The auth cookie expires after a quarter of an hour.
Expire(b) ==
    /\ session[b] # NoId
    /\ session' = [session EXCEPT ![b] = NoId]
    /\ via' = [via EXCEPT ![b] = NoId]
    /\ UNCHANGED <<tables, tracking, request, history>>

\* POST /logout clears the cookies; no row is touched.
Logout(b) ==
    /\ tracking[b] # NoId \/ session[b] # NoId
    /\ tracking' = [tracking EXCEPT ![b] = NoId]
    /\ session' = [session EXCEPT ![b] = NoId]
    /\ via' = [via EXCEPT ![b] = NoId]
    /\ UNCHANGED <<tables, request, history>>

-----------------------------------------------------------------------------
(* authenticateToken.                                                      *)

\* An error is answered: the tracking id that was set on the way stays set.
AnswerError(q) ==
    /\ tracking' = [tracking EXCEPT ![request[q].browser] = request[q].cookie]
    /\ UNCHANGED <<session, via>>

\* The provider does not accept the code, or returns no access token.
CodeRefused(q) ==
    /\ request[q].step = "lookup"
    /\ AnswerError(q)
    /\ request' = [request EXCEPT ![q] = Idle]
    /\ UNCHANGED <<tables, history>>

\* Look the account up: its user logs in, or both inserts are sent.
LookUp(q) ==
    /\ request[q].step = "lookup"
    /\ IF Linked(request[q].account)
       THEN /\ \E owner \in GetByProviderId(request[q].account) :
                 request' = [request EXCEPT ![q] =
                    [@ EXCEPT !.step = "fetch", !.id = owner, !.cookie = owner]]
            /\ UNCHANGED tried
       ELSE /\ request' = [request EXCEPT ![q] =
                  [@ EXCEPT !.step = "insert", !.pending = Inserts]]
            /\ tried' = [id \in Ids |-> IF id = request[q].id
                                        THEN tried[id] \cup {request[q].account}
                                        ELSE tried[id]]
    /\ UNCHANGED <<tables, cookies, minted, torn, logins, faults>>

\* The step that follows authenticateToken.
Ending(q) == IF request[q].flow = "callback" THEN "refresh" ELSE "grant"

\* Read the row of the user found; without a row, the request goes on with a
\* user that has no id.
FetchUser(q) ==
    /\ request[q].step = "fetch"
    /\ LET found == IF request[q].id \in users THEN request[q].id ELSE Undefined
       IN  request' = [request EXCEPT ![q] = [@ EXCEPT !.step = Ending(q), !.user = found]]
    /\ UNCHANGED <<tables, cookies, history>>

\* A faulty variant: the request goes on after the first insert that succeeds,
\* and the other one is not sent.
AfterFirstInsert(q, table, failed) ==
    IF failed
    THEN request' = [request EXCEPT ![q] = Idle] /\ AnswerError(q)
    ELSE /\ request' = [request EXCEPT ![q] =
               [@ EXCEPT !.step = Ending(q), !.pending = {}, !.user = request[q].id]]
         /\ UNCHANGED cookies

\* A faulty variant: a failure also takes back the other insert.
AfterInsertCancels(q, table, failed) ==
    LET left == request[q].pending \ {table}
        next == IF left # {} THEN "insert" ELSE Ending(q)
    IN  IF failed
        THEN request' = [request EXCEPT ![q] = Idle] /\ AnswerError(q)
        ELSE /\ request' = [request EXCEPT ![q] =
                   [@ EXCEPT !.step = next, !.pending = left, !.user = request[q].id]]
             /\ UNCHANGED cookies

\* One of the two inserts has ended.  The first failure is answered at once; the
\* other insert goes on, and nobody waits for it.
AfterInsert(q, table, failed) ==
    LET left == request[q].pending \ {table}
        next == IF left # {} THEN "insert" ELSE Ending(q)
    IN  IF failed \/ request[q].step = "drain"
        THEN /\ request' = [request EXCEPT ![q] =
                   IF left = {} THEN Idle ELSE [@ EXCEPT !.step = "drain", !.pending = left]]
             /\ IF request[q].step = "drain" THEN UNCHANGED cookies ELSE AnswerError(q)
        ELSE /\ request' = [request EXCEPT ![q] =
                   [@ EXCEPT !.step = next, !.pending = left, !.user = request[q].id]]
             /\ UNCHANGED cookies

\* userModel.add
AddUser(q) ==
    /\ "users" \in request[q].pending
    /\ LET failed == UserInsertFails(request[q].id)
       IN  /\ users' = IF failed THEN users ELSE users \cup {request[q].id}
           /\ AfterInsert(q, "users", failed)
    /\ UNCHANGED <<providers, tokens, history>>

\* provider.add
AddProvider(q) ==
    /\ "providers" \in request[q].pending
    /\ LET failed == ProviderInsertFails(request[q].id, request[q].account)
       IN  /\ providers' = IF failed THEN providers
                           ELSE providers \cup {[user |-> request[q].id,
                                                 account |-> request[q].account]}
           /\ AfterInsert(q, "providers", failed)
    /\ UNCHANGED <<users, tokens, history>>

\* A statement fails for a reason of its own (a deadlock, a lost connection).
InsertLost(q, table) ==
    /\ table \in request[q].pending
    /\ faults < MaxFaults
    /\ faults' = faults + 1
    /\ torn' = torn \cup {request[q].id}
    /\ AfterInsert(q, table, TRUE)
    /\ UNCHANGED <<tables, minted, tried, logins>>

-----------------------------------------------------------------------------
(* The two endings of a login.                                             *)

\* generateRefreshToken, in the callback flow only.  A user without an id cannot
\* own a token (user_id is NOT NULL), and the request fails.
GenerateRefreshToken(q) ==
    /\ request[q].step = "refresh"
    /\ IF request[q].user = Undefined
       THEN /\ AnswerError(q)
            /\ request' = [request EXCEPT ![q] = Idle]
            /\ UNCHANGED tokens
       ELSE /\ tokens' = tokens \cup {request[q].user}
            /\ Goto(q, "grant")
            /\ UNCHANGED cookies
    /\ UNCHANGED <<users, providers, history>>

\* setAuthCookie, and the answer.
SetAuthCookie(q) ==
    /\ request[q].step = "grant"
    /\ LET b == request[q].browser
       IN  /\ session' = [session EXCEPT ![b] = request[q].user]
           /\ tracking' = [tracking EXCEPT ![b] = request[q].cookie]
           /\ via' = [via EXCEPT ![b] = request[q].account]
    /\ request' = [request EXCEPT ![q] = Idle]
    /\ UNCHANGED <<tables, history>>

\* The instance dies: what it has not sent to MySQL is lost, and so is the answer.
Die(q) ==
    /\ Serving(q)
    /\ faults < MaxFaults
    /\ faults' = faults + 1
    /\ torn' = IF request[q].pending = {} THEN torn ELSE torn \cup {request[q].id}
    /\ request' = [request EXCEPT ![q] = Idle]
    /\ UNCHANGED <<tables, cookies, minted, tried, logins>>

-----------------------------------------------------------------------------
Init ==
    /\ users = {}
    /\ providers = {}
    /\ tokens = {}
    /\ tracking = [b \in Browsers |-> NoId]
    /\ session = [b \in Browsers |-> NoId]
    /\ via = [b \in Browsers |-> NoId]
    /\ request = [q \in Requests |-> Idle]
    /\ minted = {}
    /\ torn = {}
    /\ tried = [id \in Ids |-> {}]
    /\ logins = 0
    /\ faults = 0

RequestStep(q) ==
    \/ CodeRefused(q)
    \/ LookUp(q)
    \/ FetchUser(q)
    \/ AddUser(q)
    \/ AddProvider(q)
    \/ GenerateRefreshToken(q)
    \/ SetAuthCookie(q)

Fault(q) == Die(q) \/ \E table \in Inserts : InsertLost(q, table)

Visitor(b) ==
    \/ Expire(b)
    \/ Logout(b)
    \/ \E q \in Requests, a \in Accounts, flow \in Flows : Arrive(q, b, a, flow)

Next == (\E b \in Browsers : Visitor(b)) \/ (\E q \in Requests : RequestStep(q) \/ Fault(q))

Spec == Init /\ [][Next]_vars

-----------------------------------------------------------------------------
(* Properties.                                                             *)

RequestRecords ==
    [step : Steps, browser : Browsers \cup {NoId}, account : Accounts \cup {NoId},
     flow : Flows \cup {NoId}, id : Ids \cup {NoId}, cookie : Ids \cup {NoId},
     user : Ids \cup {Undefined}, pending : SUBSET Inserts]

TypeOK ==
    /\ users \in SUBSET Ids
    /\ providers \in SUBSET [user : Ids, account : Accounts]
    /\ tokens \in SUBSET Ids
    /\ tracking \in [Browsers -> Ids \cup {NoId}]
    /\ session \in [Browsers -> Ids \cup {NoId, Undefined}]
    /\ via \in [Browsers -> Accounts \cup {NoId}]
    /\ request \in [Requests -> RequestRecords]
    /\ minted \in SUBSET Ids
    /\ torn \in SUBSET (Ids \cup {NoId})
    /\ tried \in [Ids -> SUBSET Accounts]
    /\ logins \in 0..MaxLogins
    /\ faults \in 0..MaxFaults

HasProvider(id) == \E row \in providers : row.user = id

\* A session that names a user was opened with an account of that very user, and
\* the user has both rows: /boot reads userProvider.provider without a test.
\* Refresh tokens, too, belong to users that have both rows.
SessionsBelongToAccount ==
    /\ \A b \in Browsers : session[b] \in Ids =>
          session[b] \in users /\ [user |-> session[b], account |-> via[b]] \in providers
    /\ \A id \in tokens : id \in users /\ HasProvider(id)

\* The two halves of a registration come apart only through a fault: a row of
\* providers has its row in users, or the insert of that row is under way.
OnlyFaultsLeaveProviderAlone ==
    \A row \in providers :
        \/ row.user \in users
        \/ row.user \in torn
        \/ \E q \in Requests : request[q].id = row.user /\ "users" \in request[q].pending

\* A user without a provider, once nothing is under way for it, met a fault or
\* lost the race for its account to another id: the row is announced as a new
\* user although nobody can ever log in to it.
OrphansLostARace ==
    \A id \in users \ torn :
        \/ HasProvider(id)
        \/ \E q \in Requests : request[q].id = id /\ "providers" \in request[q].pending
        \/ \E a \in tried[id] : \E row \in providers : row.account = a /\ row.user # id

\* Whoever registers with an account gets it linked, even when the login is
\* answered with an error: a user who is known by the tracking cookie and comes
\* back with an account of another provider is refused (users.add meets its own
\* row) and still gets the account linked, once the insert that goes on after the
\* answer has ended.  Only a fault, or an account of the same provider that the
\* user already has, prevents it.
FirstLoginsLinkTheAccount ==
    \A id \in Ids : \A a \in tried[id] :
        \/ Linked(a)
        \/ id \in torn
        \/ \E row \in providers : row.user = id /\ KindOf[row.account] = KindOf[a]
        \/ \E q \in Requests : /\ request[q].id = id
                               /\ request[q].account = a
                               /\ "providers" \in request[q].pending

\* A login with an account that is linked opens a session of its user.
LinkedAccountsOpenTheirSession ==
    \A b \in Browsers : session[b] # Undefined

-----------------------------------------------------------------------------
(* The inductive invariant behind the properties.                          *)

HasRow(id, a) == [user |-> id, account |-> a] \in providers

\* What the handlers take for granted of the request they serve: the user a login
\* is about to end with, when there is one, has both rows.
RequestInOrder(q) ==
    LET r == request[q]
    IN  /\ Serving(q) => r.browser \in Browsers /\ r.account \in Accounts /\ r.flow \in Flows
        /\ r.pending # {} <=> r.step \in {"insert", "drain"}
        /\ r.step = "fetch" => HasRow(r.id, r.account)
        /\ (r.step \in {"refresh", "grant"} /\ r.user # Undefined) =>
               r.user \in users /\ HasRow(r.user, r.account)

\* While one insert is under way, the other one has succeeded, or the request has
\* been answered with the reason why it has not.
InsertsInOrder(q) ==
    LET r == request[q]
    IN  r.pending # {} =>
            /\ r.step = "insert" => /\ "users" \in r.pending \/ r.id \in users
                                    /\ "providers" \in r.pending \/ HasRow(r.id, r.account)
            /\ r.id \in Ids =>
                  /\ r.account \in tried[r.id]
                  /\ "users" \in r.pending \/ r.id \in users \cup torn
                  /\ "providers" \in r.pending \/ r.id \in torn
                     \/ HasProvider(r.id) \/ Linked(r.account)

RegistrationInvariant ==
    /\ TypeOK
    /\ \A q \in Requests : RequestInOrder(q) /\ InsertsInOrder(q)
    /\ SessionsBelongToAccount
    /\ OnlyFaultsLeaveProviderAlone
    /\ OrphansLostARace
    /\ FirstLoginsLinkTheAccount
=============================================================================
