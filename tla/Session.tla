------------------------------- MODULE Session -------------------------------
(***************************************************************************)
(* Who a browser is: the cookies it carries, and what each answer of the   *)
(* service makes of them.  A visitor has a tracking id from the first      *)
(* request on, under which boot records the visits and the referrer; a     *)
(* login makes it the id of a user.  A session is a cookie of a quarter of *)
(* an hour; boot renews it for a browser that has a refresh token.         *)
(*                                                                         *)
(* A browser has several requests under way at once.  Each sees the        *)
(* cookies as they were when it was sent, and its answer overwrites the    *)
(* cookies it names, whatever happened to them meanwhile.  The visit is    *)
(* written on the side, and nobody waits for it.                           *)
(***************************************************************************)
EXTENDS Naturals, FiniteSets

CONSTANTS Browsers,
          Ids,           \* ids of visitors and users
          Registered,    \* the users there are from the start
          Referrers,     \* users whose links are passed around
          Apps,          \* the app headers that count as a visit
          NoApp,         \* any other header, or none
          Requests,      \* requests served at once
          NoId,          \* no cookie, no user, no referrer
          Unknown,       \* a refresh token that is not in the table
          Keep,          \* an answer that does not name a cookie
          MaxRequests    \* bound on the number of requests

ASSUME SessionAssumption ==
    /\ Registered \subseteq Ids
    /\ {NoId, Unknown, Keep} \cap (Ids \cup Referrers) = {}
    /\ Unknown # NoId /\ Keep \notin {NoId, Unknown}
    /\ NoApp \notin Apps
    /\ MaxRequests \in Nat

VARIABLES
    users,       \* the ids with a row in users and one in providers
    tokens,      \* the ids that own a row of refresh_tokens
    visits,      \* the rows of visits of each id
    writes,      \* visits that are being written
    jar,         \* the cookies of each browser
    request,     \* the local state of each request
    minted,      \* ids that have been given out
    now,         \* the clock: how many requests have arrived
    removed,     \* history: the users that were removed
    account,     \* history: whom each browser is logged in as
    era,         \* history: the logins and logouts answered to each browser
    excuses,     \* history: what has mixed up the cookies of each browser
    shown,       \* history: the referrer first answered to each id
    disturbed    \* history: ids that booted while a visit of theirs was being
                 \* written, or one of whose visits was not written

tables  == <<users, tokens, visits, writes>>
history == <<removed, account, era, excuses, shown, disturbed>>
vars    == <<tables, jar, request, minted, now, history>>

\* da2, da3, da4 and da5.
Cookies == {"tracking", "auth", "referral", "refresh"}

Kinds == {"boot", "callback", "authenticate", "logout", "link"}
Logins == {"callback", "authenticate"}
Steps == {"idle", "validate", "read", "login", "answer"}
Excuses == {"overtaken", "leftover", "twins"}

NoCookies == [c \in Cookies |-> NoId]
AllKept == [c \in Cookies |-> Keep]

\* seen are the cookies of the request and sets those of its answer, user is
\* ctx.state.user.userId, id is ctx.trackingId, renew whether boot renews the
\* session, at when boot looked at the clock, and answered the referrer it names
\* (Keep: the request records no visit).
Idle == [step |-> "idle", kind |-> NoId, browser |-> NoId, app |-> NoApp,
         seen |-> NoCookies, sets |-> AllKept, user |-> NoId, id |-> NoId,
         renew |-> FALSE, at |-> 0, answered |-> Keep, era |-> 0]

Serving(q) == request[q].step # "idle"

\* The cookies of a jar after an answer.
Overlay(sets, cookies) ==
    [c \in Cookies |-> IF sets[c] = Keep THEN cookies[c] ELSE sets[c]]

\* Whom boot serves: getTrackingId of routes/boot.js.
Served(q) == IF request[q].user # NoId THEN request[q].user ELSE request[q].id

\* The referrer of the oldest row, when there is a row.
FirstReferrals(id) ==
    {v.referral : v \in {w \in visits[id] : \A x \in visits[id] : w.first <= x.first}}

-----------------------------------------------------------------------------
(* The middleware.                                                         *)

\* A faulty variant: the tracking cookie is not looked at.
TrackingIdsFresh(b) == IF jar[b].auth # NoId THEN {jar[b].auth} ELSE Ids \ minted

\* The id verifyTracking gives a request: the user of the session, else the
\* tracking cookie, else a new id.
TrackingIds(b) ==
    IF jar[b].auth # NoId THEN {jar[b].auth}
    ELSE IF jar[b].tracking # NoId THEN {jar[b].tracking}
    ELSE Ids \ minted

\* A request of browser b is being answered.
Busy(b) == \E q \in Requests : Serving(q) /\ request[q].browser = b

FirstStep(kind) ==
    IF kind = "boot" THEN "validate" ELSE IF kind \in Logins THEN "login" ELSE "answer"

\* A faulty variant: logout leaves the refresh token.
FirstSetsKeepToken(b, kind, id, link) ==
    IF kind = "logout" THEN [NoCookies EXCEPT !.refresh = Keep]
    ELSE [AllKept EXCEPT !.tracking = IF id = jar[b].tracking THEN Keep ELSE id,
                         !.referral = IF kind = "link" THEN link ELSE Keep]

\* What the answer sets from the start: the tracking id, when it is another one
\* than the cookie's; logout clears the four cookies, /get?r= stores its link.
FirstSets(b, kind, id, link) ==
    IF kind = "logout" THEN NoCookies
    ELSE [AllKept EXCEPT !.tracking = IF id = jar[b].tracking THEN Keep ELSE id,
                         !.referral = IF kind = "link" THEN link ELSE Keep]

\* A browser sends a request.
Arrive(q, b, kind, app, link) ==
    /\ ~Serving(q)
    /\ now < MaxRequests
    /\ now' = now + 1
    /\ \E id \in TrackingIds(b) :
         /\ minted' = minted \cup {id}
         /\ request' = [request EXCEPT ![q] =
              [step |-> FirstStep(kind), kind |-> kind, browser |-> b, app |-> app,
               seen |-> jar[b], sets |-> FirstSets(b, kind, id, link),
               user |-> jar[b].auth, id |-> id, renew |-> FALSE, at |-> 0,
               answered |-> Keep, era |-> era[b]]]
    /\ excuses' = IF jar[b].auth = NoId /\ jar[b].tracking = NoId /\ Busy(b)
                  THEN [excuses EXCEPT ![b] = @ \cup {"twins"}] ELSE excuses
    /\ UNCHANGED <<tables, jar, removed, account, era, shown, disturbed>>

-----------------------------------------------------------------------------
(* GET /boot and GET /users/me.                                            *)

\* validateRefreshToken: the owner of the token is served, whoever the session
\* is of; a token that is not in the table is answered with 403.  What follows
\* looks at the clock before it reads the tables.
ValidateRefreshToken(q) ==
    /\ request[q].step = "validate"
    /\ LET token == request[q].seen.refresh
       IN  request' = [request EXCEPT ![q] =
             IF token = NoId THEN [@ EXCEPT !.step = "read", !.at = now]
             ELSE IF token \in tokens
             THEN [@ EXCEPT !.step = "read", !.at = now, !.user = token, !.renew = TRUE]
             ELSE [@ EXCEPT !.step = "answer"]]
    /\ UNCHANGED <<tables, jar, minted, now, history>>

\* Another visit of the id is being written, or about to be.
Overlapping(q) ==
    \/ \E w \in writes : w.id = Served(q)
    \/ \E p \in Requests \ {q} : request[p].step = "read" /\ Served(p) = Served(q)

\* bootSharedLogic.  A user who has been removed is answered with 403, and the
\* tracking cookie goes.  Otherwise the session is renewed for the owner of a
\* refresh token, the referrer on record (without a visit on record: that of the
\* referral cookie) is answered, and the visit is on its way to the table.
BootSharedLogic(q) ==
    LET r == request[q]
        id == Served(q)
        recorded == IF visits[id] = {} THEN {r.seen.referral} ELSE FirstReferrals(id)
    IN  /\ r.step = "read"
        /\ IF r.user # NoId /\ r.user \notin users
           THEN /\ request' = [request EXCEPT ![q] =
                     [r EXCEPT !.step = "answer", !.sets = [r.sets EXCEPT !.tracking = NoId]]]
                /\ UNCHANGED <<writes, disturbed>>
           ELSE /\ \E referrer \in recorded :
                     request' = [request EXCEPT ![q] =
                        [r EXCEPT !.step = "answer",
                                  !.sets = IF r.renew THEN [r.sets EXCEPT !.auth = r.user]
                                           ELSE r.sets,
                                  !.answered = IF r.app = NoApp THEN r.answered
                                               ELSE referrer]]
                /\ writes' = IF r.app = NoApp THEN writes
                             ELSE writes \cup {[id |-> id, app |-> r.app, first |-> r.at,
                                                referral |-> r.seen.referral]}
                /\ disturbed' = IF Overlapping(q) THEN disturbed \cup {id} ELSE disturbed
        /\ UNCHANGED <<users, tokens, visits, jar, minted, now, removed, account,
                       era, excuses, shown>>

\* A faulty variant: ON DUPLICATE KEY UPDATE sets referral, too.
UpdateUserVisitOverwrites(w) ==
    /\ w \in writes
    /\ writes' = writes \ {w}
    /\ visits' = IF \E row \in visits[w.id] : row.app = w.app
                 THEN [visits EXCEPT ![w.id] =
                         {IF row.app = w.app THEN [row EXCEPT !.referral = w.referral]
                          ELSE row : row \in @}]
                 ELSE [visits EXCEPT ![w.id] =
                         @ \cup {[app |-> w.app, first |-> w.first, referral |-> w.referral]}]
    /\ UNCHANGED <<users, tokens, jar, request, minted, now, history>>

\* updateUserVisit: visit.upsert, which leaves first_visit and referral of a row
\* as they are.
UpdateUserVisit(w) ==
    /\ w \in writes
    /\ writes' = writes \ {w}
    /\ visits' = IF \E row \in visits[w.id] : row.app = w.app THEN visits
                 ELSE [visits EXCEPT ![w.id] =
                         @ \cup {[app |-> w.app, first |-> w.first, referral |-> w.referral]}]
    /\ UNCHANGED <<users, tokens, jar, request, minted, now, history>>

\* The visit is not written; the error is logged.
LoseUserVisit(w) ==
    /\ w \in writes
    /\ writes' = writes \ {w}
    /\ disturbed' = disturbed \cup {w.id}
    /\ UNCHANGED <<users, tokens, visits, jar, request, minted, now, removed, account,
                       era, excuses, shown>>

-----------------------------------------------------------------------------
(* Logins, and the answers.                                                *)

\* setAuthCookie, setRefreshCookie, and setTrackingCookie when the user is there.
SignedIn(sets, id, refresh) ==
    [sets EXCEPT !.auth = id, !.refresh = refresh,
                 !.tracking = IF id \in users THEN id ELSE sets.tracking]

\* A faulty variant: the refresh token is made for the tracking id.
AuthenticateTokenOfVisitor(q) ==
    /\ request[q].step = "login"
    /\ \E id \in users \cup {request[q].id} :
         LET refresh == IF request[q].kind = "callback" THEN request[q].id ELSE Keep
         IN  /\ users' = users \cup {id}
             /\ tokens' = IF refresh = Keep THEN tokens ELSE tokens \cup {refresh}
             /\ request' = [request EXCEPT ![q] =
                   [@ EXCEPT !.step = "answer", !.sets = SignedIn(request[q].sets, id, refresh)]]
    /\ UNCHANGED <<visits, writes, jar, minted, now, history>>

\* authenticateToken and the ending of the login, as the module Registration has
\* them in detail: the account is linked to a user, or the tracking id becomes a
\* user; the callback also leaves a refresh token.
Authenticate(q) ==
    /\ request[q].step = "login"
    /\ \E id \in users \cup {request[q].id} :
         LET refresh == IF request[q].kind = "callback" THEN id ELSE Keep
         IN  /\ users' = users \cup {id}
             /\ tokens' = IF refresh = Keep THEN tokens ELSE tokens \cup {id}
             /\ request' = [request EXCEPT ![q] =
                   [@ EXCEPT !.step = "answer", !.sets = SignedIn(request[q].sets, id, refresh)]]
    /\ UNCHANGED <<visits, writes, jar, minted, now, history>>

\* The login is refused.
RefuseLogin(q) ==
    /\ request[q].step = "login"
    /\ request' = [request EXCEPT ![q].step = "answer"]
    /\ UNCHANGED <<tables, jar, minted, now, history>>

\* The answer reaches the browser.
Answer(q) ==
    LET r == request[q]
        b == r.browser
        loggedIn == r.kind \in Logins /\ r.sets.auth # Keep
        turn == loggedIn \/ r.kind = "logout"
        after == Overlay(r.sets, jar[b])
        late == IF r.era = era[b] THEN {} ELSE {"overtaken"}
        left == IF r.kind = "authenticate" /\ loggedIn
                    /\ after.refresh \notin {NoId, Unknown, r.sets.auth}
                THEN {"leftover"} ELSE {}
    IN  /\ r.step = "answer"
        /\ jar' = [jar EXCEPT ![b] = after]
        /\ account' = IF loggedIn THEN [account EXCEPT ![b] = r.sets.auth]
                      ELSE IF turn THEN [account EXCEPT ![b] = NoId] ELSE account
        /\ era' = IF turn THEN [era EXCEPT ![b] = @ + 1] ELSE era
        /\ excuses' = [excuses EXCEPT ![b] = @ \cup late \cup left]
        /\ shown' = IF r.answered # Keep /\ shown[Served(q)] = Keep
                    THEN [shown EXCEPT ![Served(q)] = r.answered] ELSE shown
        /\ request' = [request EXCEPT ![q] = Idle]
        /\ UNCHANGED <<tables, minted, now, removed, disturbed>>

\* The instance dies, or the browser goes away.
Drop(q) ==
    /\ Serving(q)
    /\ request' = [request EXCEPT ![q] = Idle]
    /\ UNCHANGED <<tables, jar, minted, now, history>>

\* The auth cookie expires after a quarter of an hour.
Expire(b) ==
    /\ jar[b].auth # NoId
    /\ jar' = [jar EXCEPT ![b].auth = NoId]
    /\ UNCHANGED <<tables, request, minted, now, history>>

\* A user is removed, by hand; nothing else is.
RemoveUser(u) ==
    /\ u \in users
    /\ users' = users \ {u}
    /\ removed' = removed \cup {u}
    /\ UNCHANGED <<tokens, visits, writes, jar, request, minted, now, account, era, excuses,
                   shown, disturbed>>

-----------------------------------------------------------------------------
\* A browser that comes for the first time, or with a refresh token of the times
\* before the table was emptied.
Init ==
    /\ users = Registered
    /\ tokens = {}
    /\ visits = [id \in Ids |-> {}]
    /\ writes = {}
    /\ jar \in [Browsers -> {[NoCookies EXCEPT !.refresh = t] : t \in {NoId, Unknown}}]
    /\ request = [q \in Requests |-> Idle]
    /\ minted = Registered
    /\ now = 0
    /\ removed = {}
    /\ account = [b \in Browsers |-> NoId]
    /\ era = [b \in Browsers |-> 0]
    /\ excuses = [b \in Browsers |-> {}]
    /\ shown = [id \in Ids |-> Keep]
    /\ disturbed = {}

Visitor(b) ==
    \/ Expire(b)
    \/ \E q \in Requests :
         \/ \E app \in Apps \cup {NoApp} : Arrive(q, b, "boot", app, NoId)
         \/ \E kind \in Logins \cup {"logout"} : Arrive(q, b, kind, NoApp, NoId)
         \/ \E link \in Referrers : Arrive(q, b, "link", NoApp, link)

RequestStep(q) ==
    \/ ValidateRefreshToken(q)
    \/ BootSharedLogic(q)
    \/ Authenticate(q)
    \/ RefuseLogin(q)
    \/ Answer(q)
    \/ Drop(q)

Next ==
    \/ \E b \in Browsers : Visitor(b)
    \/ \E q \in Requests : RequestStep(q)
    \/ \E w \in writes : UpdateUserVisit(w) \/ LoseUserVisit(w)
    \/ \E u \in users : RemoveUser(u)

Spec == Init /\ [][Next]_vars

-----------------------------------------------------------------------------
(* Properties.                                                             *)

Jars == [tracking : Ids \cup {NoId}, auth : Ids \cup {NoId},
         referral : Referrers \cup {NoId}, refresh : Ids \cup {NoId, Unknown}]

SetCookies == [tracking : Ids \cup {NoId, Keep}, auth : Ids \cup {NoId, Keep},
               referral : Referrers \cup {NoId, Keep}, refresh : Ids \cup {NoId, Keep}]

VisitRows == [app : Apps, first : 0..MaxRequests, referral : Referrers \cup {NoId}]

RequestRecords ==
    [step : Steps, kind : Kinds \cup {NoId}, browser : Browsers \cup {NoId},
     app : Apps \cup {NoApp}, seen : Jars, sets : SetCookies,
     user : Ids \cup {NoId}, id : Ids \cup {NoId}, renew : BOOLEAN,
     at : 0..MaxRequests, answered : Referrers \cup {NoId, Keep}, era : Nat]

TypeOK ==
    /\ users \in SUBSET Ids
    /\ tokens \in SUBSET Ids
    /\ visits \in [Ids -> SUBSET VisitRows]
    /\ \A w \in writes : /\ w.id \in Ids
                         /\ [app |-> w.app, first |-> w.first, referral |-> w.referral]
                              \in VisitRows
    /\ jar \in [Browsers -> Jars]
    /\ request \in [Requests -> RequestRecords]
    /\ minted \in SUBSET Ids
    /\ now \in 0..MaxRequests
    /\ removed \in SUBSET Ids
    /\ account \in [Browsers -> Ids \cup {NoId}]
    /\ era \in [Browsers -> Nat]
    /\ excuses \in [Browsers -> SUBSET Excuses]
    /\ shown \in [Ids -> Referrers \cup {NoId, Keep}]
    /\ disturbed \in SUBSET Ids

\* Logout logs out: no session, and no refresh token that boot would make one
\* of, is left or comes back, unless an answer to a request sent before the
\* logout arrives after it.
LogoutLogsOut ==
    \A b \in Browsers :
        (account[b] = NoId /\ "overtaken" \notin excuses[b])
            => jar[b].auth = NoId /\ jar[b].refresh \in {NoId, Unknown}

\* A browser acts for the user it has logged in as last: its session and its
\* refresh token are of somebody else only after a login that left another
\* user's refresh token where it was (/authenticate), which the next boot turns
\* into that user's session, or after an answer that was overtaken.
SessionsFollowLogins ==
    \A b \in Browsers :
        {jar[b].auth, jar[b].refresh} \subseteq {NoId, Unknown, account[b]}
        \/ excuses[b] \cap {"overtaken", "leftover"} # {}

\* The referrer that boot answers to a newcomer is the one the contest will find:
\* that of an oldest row, also after the visitor followed other links and came
\* back with other apps.  Only boots that overlap, and visits that are not
\* written, make it another one.
AnsweredReferrerStays ==
    \A id \in Ids \ disturbed :
        (shown[id] # Keep /\ visits[id] # {}) => shown[id] \in FirstReferrals(id)

\* A visitor keeps its id: the tracking cookie changes from one id to another
\* only when that is the id of a user (perhaps removed since), who has logged in
\* or has a session, unless two requests without a tracking id were given an id each,
\* or an answer was overtaken.
VisitorsKeepTheirId ==
    [][\A b \in Browsers :
          LET old == jar[b].tracking
              new == jar'[b].tracking
          IN  (old # new /\ NoId \notin {old, new})
                 => new \in users' \cup removed' \/ excuses'[b] \cap {"overtaken", "twins"} # {}]_vars

-----------------------------------------------------------------------------
(* The inductive invariants behind the properties.                         *)

\* What the handlers take for granted of the request they serve.
RequestInOrder(q) ==
    LET r == request[q]
    IN  /\ r.kind \in Kinds /\ r.browser \in Browsers /\ r.id \in Ids
        /\ r.step \in {"validate", "read"} => r.kind = "boot"
        /\ r.step = "login" => r.kind \in Logins
        /\ r.kind = "logout" => r.step = "answer" /\ r.sets = NoCookies
        /\ r.renew => r.user # NoId
        /\ r.answered # Keep => r.step = "answer"
        /\ r.at <= now /\ r.era <= era[r.browser]

\* A login sets the session and, in the callback flow, the refresh token of one
\* user; a login that has not got so far, or is refused, sets neither.
LoginInOrder(q) ==
    LET sets == request[q].sets
    IN  request[q].kind \in Logins =>
            /\ sets.auth \in Ids \cup {Keep}
            /\ sets.refresh = IF request[q].kind = "callback" THEN sets.auth ELSE Keep
            /\ request[q].step = "login" => sets.auth = Keep

Mine(b) == {NoId, Unknown, account[b]}

\* No answer to b was overtaken, and no refresh token left by a login, unless
\* b has logged out since.
Reliable(b) ==
    /\ "overtaken" \notin excuses[b]
    /\ account[b] = NoId \/ "leftover" \notin excuses[b]

\* The request was sent after the latest login or logout of its browser.
Current(q) == request[q].era = era[request[q].browser]

\* The cookies of a browser, and of the requests it has sent since it logged in or
\* out, are those of its account.
CookiesAreMine(b) ==
    Reliable(b) =>
        /\ {jar[b].auth, jar[b].refresh} \subseteq Mine(b)
        /\ \A q \in Requests :
             (Serving(q) /\ request[q].browser = b /\ Current(q)) =>
                 /\ {request[q].seen.refresh, request[q].user} \subseteq Mine(b)
                 /\ request[q].kind \notin Logins =>
                      /\ request[q].sets.auth \in Mine(b) \cup {Keep}
                      /\ request[q].sets.refresh \in {NoId, Keep}

Accountable ==
    /\ TypeOK
    /\ \A q \in Requests : Serving(q) => RequestInOrder(q) /\ LoginInOrder(q)
    /\ \A b \in Browsers : CookiesAreMine(b)

\* Whoever has been a user.
Members == users \cup removed

\* The request came without an id and has been given one.
Fresh(q) == request[q].seen.auth = NoId /\ request[q].seen.tracking = NoId

\* A request that was given an id is the only one of its browser, which has no
\* id yet.
FreshIsAlone(q) ==
    LET b == request[q].browser
    IN  (Fresh(q) /\ Current(q) /\ excuses[b] \cap {"overtaken", "twins"} = {}) =>
            /\ jar[b].tracking = NoId /\ jar[b].auth = NoId
            /\ \A p \in Requests \ {q} : Serving(p) => request[p].browser # b

\* Sessions and refresh tokens are made for users only, and a tracking id that is
\* set is of a user or new.
Identified ==
    /\ tokens \subseteq Members
    /\ \A b \in Browsers : jar[b].auth \in Members \cup {NoId}
    /\ \A q \in Requests :
         Serving(q) => /\ request[q].user \in Members \cup {NoId}
                       /\ request[q].sets.auth \in Members \cup {NoId, Keep}
                       /\ request[q].sets.tracking \in Members \cup {NoId, Keep} \/ Fresh(q)
                       /\ FreshIsAlone(q)

\* The visits of an id are in the order of its boots: what is about to be written
\* comes after what is there.
VisitsInOrder(id) ==
    /\ \A w, x \in writes : w.id = id /\ x.id = id => w = x
    /\ \A w \in writes : w.id = id => \A v \in visits[id] : v.first <= w.first
    /\ \A q \in Requests :
         (request[q].step = "read" /\ Served(q) = id) =>
             /\ \A v \in visits[id] : v.first <= request[q].at
             /\ \A w \in writes : w.id = id => w.first <= request[q].at

\* The referrer is on record for the id, or about to be.
OnRecord(id, referrer) ==
    IF visits[id] = {} THEN \E w \in writes : w.id = id /\ w.referral = referrer
    ELSE referrer \in FirstReferrals(id)

VisitsAreRecorded ==
    /\ \A id \in Ids : \A v \in visits[id] : v.first <= now
    /\ \A w \in writes : w.first <= now
    /\ \A id \in Ids \ disturbed :
         /\ VisitsInOrder(id)
         /\ shown[id] # Keep => OnRecord(id, shown[id])
         /\ \A q \in Requests :
              (Serving(q) /\ request[q].answered # Keep /\ Served(q) = id) =>
                  OnRecord(id, request[q].answered)

SessionInvariant == Accountable /\ Identified /\ VisitsAreRecorded
=============================================================================
