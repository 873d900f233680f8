# Verification of daily-gateway

daily-gateway is the user-facing gateway of daily.dev: an HTTP service (Koa)
that logs users in with OAuth providers, keeps their profile, sessions, visits
and premium flag in MySQL, caches alerts and feature flags in Redis, and a
background service that Pub/Sub pushes messages to: the changes of the tables
(through Debezium), and the events derived from them. This directory holds TLA+
modules of its components, the TLC instances that check them, and TLAPS proofs
about all of them.

Source paths below are relative to the repository.

## 1. Inventory

| Component | Source | State it keeps | Operations | Module |
|---|---|---|---|---|
| Referral contest | `src/workers/updateReferralContest.js`, `src/models/contest.js`, `src/models/visit.js`, `src/background.js` | tables `visits`, `referral_contests`, `referral_participants` | count the referral of a newcomer, make a participant eligible, answer Pub/Sub | `ReferralContest`, `ContestLedger` |
| Login and registration | `src/routes/auth.js`, `src/models/provider.js`, `src/models/user.js` (add), `src/tracking.js`, `src/cookies.js` | tables `users`, `providers`, `refresh_tokens`; cookies `da2`, `da3` | `/auth/callback`, `/auth/authenticate`, `/users/logout` | `Registration` |
| User profile | `src/routes/users.js`, `src/models/user.js`, `src/routes/premium.js` (flag), `src/workers/updateReputation.js` | the row of a user | `userModel.add`, `PUT /users/me`, `POST /users/me/image`, `/premium/ipn`, reputation events | `Profile` |
| Change data capture, eligibility e-mails | `src/workers/cdc.js`, `src/pubsub.js`, `src/workers/eligibleParticipant*.js`, `infra/application.properties`, `infra/index.ts` | the log, `gateway.changes`, `new-eligible-participant` and its two subscriptions | capture a change, derive an event, send an e-mail | `EligibilityNotice` |
| Boot, sessions, visits | `src/routes/boot.js`, `src/auth.js`, `src/tracking.js`, `src/models/visit.js`, `src/models/refreshToken.js` | cookies `da2` to `da5`, tables `visits`, `refresh_tokens` | `GET /boot`, `GET /users/me`, the cookies of login and logout | `Session` |
| Mailing list | `src/workers/updateMailingList.js`, `src/mailing.js` | the contact of a user at SendGrid and its lists | follow profile changes and payments | `MailingList` |
| Payments | `src/routes/premium.js` | column `premium`, the list of premium users | `/premium/ipn`, `/premium/checkout` | flag in `Profile`, flag and list in `MailingList` |
| Alerts cache | `src/redis.js`, `src/workers/updateAlerts.js` | Redis `alerts:*` | fill, update | `AlertsCache` |
| Feature flags | `src/flagsmith.js`, `src/routes/flagsmith.js`, `src/workers/clearFeaturesCache.js` | Redis `features:*` | fill, reset, clear | `FeaturesCache` |
| Referral links | `src/routes/redirects.js`, `src/routes/referrals.js`, `src/referrals.js` | cookie `da4` | set the cookie, read the contest, invite | the cookie in `Session` |
| Plumbing | `src/index.js`, `src/middlewares/errorHandler.js`, `src/upload.js`, `src/cloudinary.js`, `src/profile.js`, `src/slack.js`, `src/scripts` | none | middleware order, proxies, uploads, one message to Slack | not modelled |

How they interact. A login inserts a row in `users`; Debezium turns the insert
into a change, the worker `cdc` turns that into `user-registered`, and the
worker of the contest counts the newcomer for the referrer named by the
newcomer's first visit, which `boot` wrote. The contest's own update of
`referral_participants` is again a change, which `cdc` turns into
`new-eligible-participant`, whose two subscribers send e-mails. A profile
request and a payment notification write the same row of `users`; each write is
a change, which `cdc` turns into `user-updated` for the mailing list. The
handler of payment notifications edits the same contact by itself. `boot` fills
both caches in Redis; a worker of the background service overwrites the alerts,
another removes the flags.

What is hard here, and what makes each part correct:

* Every worker is delivered to *at least once*, by several instances, in no
  order (only `gateway.changes` is ordered), and is a sequence of statements
  with no transaction. The contest must never make someone eligible who has not
  enough referrals, must count each delivery once and in one contest, must lose
  no referral, and must reach eligibility in spite of a death between two
  statements.
* A registration writes two tables side by side. A session must belong to a user
  with both rows, opened with an account of that user; halves may be left only
  by faults or by the race for the unique index.
* Profile requests read, merge and write back the whole row. An update may be
  lost to an overlap, and only to that; a form must not give a user an address
  that somebody else has, although registration does.
* The e-mail about eligibility must reach every eligible participant and nobody
  else.
* A browser's requests overlap, each sees the cookies as they were when it was
  sent, and each answer overwrites the cookies it names. A browser must act for
  the user it logged in as, be logged out by a logout, and keep its visitor's id;
  the referrer it was first told must stay the one on record.
* The cache of alerts is filled by boots and by a worker that know nothing of
  each other. An entry must be its user's, and must not stay behind the API. That
  of flags is filled by boots and cleared by a scan that does not wait for its
  last deletions; nothing older than the last change must stay.
* The contact at SendGrid is found by an address that events and notifications
  carry around, while the user changes it. There must stay one contact, in the
  lists the row says; above all, whoever refuses marketing must be off its list.
  Payment notifications are handled side by side, each in two writes.

The file `PROJECT.json` lists every hazard of this kind at its line, with the
properties that would show it.

## 2. Modules

### ContestLedger
The contest with no handler, message or clock: a tally that grows by one, and a
grant that needs the threshold and is never taken back. `ReferralContest`
implements it; `EligibilityNotice` starts from it.

### ReferralContest
| Model | Code |
|---|---|
| `visits`, `users`, `referrals`, `eligible` | the tables; `referrals[<<c, u>>] = 0` stands for "no row" |
| `subscription`, `deliveries` | the subscription `user-registered-referral-contest` |
| `handler[w].step` | the `await` an instance of the handler is suspended at |
| `GetFirstVisit`, `GetReferrerAndContest`, `IncrementParticipantCount`, `CheckParticipant`, `SetParticipantAsEligible`, `Ack` | the statements of the handler in their order, each with the branch taken on its result |
| `IncrementFails`, `Crash` | the `catch` that rethrows: 500, the event stays |
| `RecordVisit` | `boot`'s visit row, written late and with a clock read early |
| `Tick` | the clock `getOngoingContest` compares with |
| `Publish`, `Republish`, `Deliver` | the producer and Pub/Sub |
| `RemoveUser` | a referrer that disappears, which the foreign key allows only without a row of participants |

`credits` (the deliveries that incremented a row) and `due` (the referrer on
record ever since the event went out during a contest) are history variables: no
guard reads them. Two reads that run side by side (`Promise.all`, lines 14 to 17) are
one action, because the order of two reads whose results are only used together
shows in no later state. No code of the service deletes a user; `RemoveUser`
stands for deletions made by hand, which the code guards against with
`referredUser &&`.

### Registration
`request[q]` is a login request: `step` the `await` it is suspended at, `id` the
tracking id, `cookie` what the answer leaves in `da2`, `pending` the inserts of
`Promise.all` that have not ended. `AfterInsert` is the rule of `Promise.all`: the
first failure is answered while the other insert goes on (`drain`). `Arrive`
contains `verifyTracking`, whose result is the id a new user gets. The unique
indexes are those of the migrations (`users.id`; `(user_id, provider)` and
`(provider_id, provider)`). The index on `users.email` is gone since migration
20200109164619, so addresses play no part. Bots and requests of other services
skip `verifyTracking`; they do not log in and are left out. `minted`, `torn`,
`tried`, `via` are history.

### Profile
`rows[u]` is the row, reduced to columns that behave differently: an address
(checked, not unique), a handle (unique index), the image, `premium`,
`infoConfirmed`, `acceptedMarketing`, and `reputation`, which a save does not
write. The table starts empty: `Register` is `userModel.add`, which takes any
address, because registration compares it with nobody's and the unique index has
been dropped (migration 20200109164619). Someone with a Google and a GitHub
account of one address is two users who share it. (`Registration` has the other
half of registering: ids, accounts, and how the insert can fail.) `GetUser`,
`CheckDuplicateEmail`, `UpdateUser`, `UpdateRefused` are the
statements of the two routes; `Picked` is the list of columns of
`userModel.update`, with the nulls `mapUser` drops. `intended`, `overtaken`,
`raced` and `doubled` are history: the row had each request written only what it is
about, the users written from a stale read, those who took an address after a check
that another write made stale, and those who registered with an address somebody
had and have sent no form since. A form that leaves `acceptedMarketing` out is the
same as one that sends true (`src/routes/users.js:76`). One handle stands for the
four with an index.

### EligibilityNotice
`binlog`, `changes`, `notices`, `mails` are the hops of a change. Each action
passes a message on and records that it did, or (a fault) dies in between.
`CapturedTables` is the list `table.include.list` of Debezium: one instance has
the list that is deployed, another the one the worker and its test expect. The
user behind a participant always exists (foreign key), so the lookup in the two
mailing handlers cannot come back empty.

### Session
| Model | Code |
|---|---|
| `jar[b]` | the cookies `da2` (tracking), `da3` (auth), `da4` (referral), `da5` (refresh) of a browser; an auth or refresh cookie is represented by the user it names |
| `request[q]` | a request: `seen`, the cookies it came with; `sets`, those its answer sets; `user`, `ctx.state.user.userId`; `id`, `ctx.trackingId` |
| `Arrive` | the cookie authentication, `verifyTracking` (which ids it may give: `TrackingIds`), and the handlers that only set cookies: logout, `/get?r=` |
| `ValidateRefreshToken` | `validateRefreshToken`: the owner of the token is served; an unknown token is a 403 |
| `BootSharedLogic` | `bootSharedLogic` with `bootBaseResponse`: 403 for a removed user, the renewed session, the referrer answered, the visit sent off |
| `UpdateUserVisit`, `LoseUserVisit` | the write nobody waits for: `visit.upsert`, or the logged error |
| `Authenticate`, `RefuseLogin` | a login as far as cookies are concerned; `Registration` has its statements |
| `Answer`, `Drop`, `Expire` | the answer overwrites the jar, or never comes; `da3` lives for 15 minutes |

Registration's half-finished users do not come back here: a user of `users` has
its row in `providers`, too. The clock is the number of requests that have
arrived, which lets two visits have the same time: `first_visit` is a TIMESTAMP of
whole seconds, and MySQL may return either row of a tie. `account` (the user of
the last login answered), `era` (logins and logouts answered so far), `excuses`
(an answer overtaken by a login or logout; a login that left another user's
refresh cookie; a request without an id sent while another one of the browser is
being answered), `shown` (the referrer first
answered), `disturbed` (overlapping or lost visits) and `removed` are history.
Referrers are users that exist. Left out: `das`, an id that only appears in
answers; bots and requests of other services, which get no ids; access tokens in
the query, which leave no state.

### AlertsCache
`alerts[u]` is the version of a user's alerts at the API, `cache[u]` the entry
`alerts:<user>`, a value that says whose alerts it holds and of which version,
`Nothing` (the string `null`) or `Empty`. `GetCache`, `GetAlertsFromAPI`,
`StoreAlerts` are the three round trips of `getAlerts`; `UpdateAlerts` is the worker,
`UpdateAlertsFails` its `catch`. External, and modelled from how the code uses
it: the API changes alerts and announces each change (`Change`), and answers the
query with the alerts of the user of the session cookie, with null when there is
none (`Replies`). That null is stored like any other reply, and stays a month (or
until the next announcement) for the defaults to be answered from it: the
properties are about entries that hold alerts (`Cached`). `Senders` says of whom that cookie may be when boot serves a
user: the own one, an expired one, or, as `Session` shows it can happen, one of
another user. `handled`, `overwritten` and `mixed` are history. The answer given to the
browser is the value stored or found, so properties of `cache` are about it.

### MailingList
One user, whose addresses are nobody else's (`Profile` is about that).

| Model | Code |
|---|---|
| `row`, `changes` | the row, and for each of its changes on `gateway.changes`, in order, the address in `before` |
| `OnUserChange` | the branch `u` of `onUserChange`: reads the row again, and publishes `{ user: before, newProfile: after }` |
| `updates`, `job[w]` | the subscription `user-updated-mailing`, and the call an instance of the worker is suspended at, with the contact it has found |
| `Deliver`, `RemoveFromMarketing`, `UpdateUserContact`, `PutContact`, `Fail` | the handler: test of the address, first search, removal, second search, `PUT`, `catch` with its two outcomes |
| `payment[p]`, `Notify`, `WritePremium`, `EditPremiumList`, `IpnFails` | `POST /premium/ipn` in production; `Notices` are the notifications that may be under way at once, with their steps in any order |
| `contacts`, `Named` | SendGrid, external: a contact has an id, an address that no other contact has, and lists. `PUT` writes the contact that has the address, else the one whose id is given, else a new one; lists are only added to |

Two reads in a row are one action where they are of different stores (the row and
SendGrid in `Notify`), and so are the delivery of an event and the first search.
The cdc worker's read and publication are one action because its messages are
handled in order. Deleted users and registrations do not reach the mailing
worker (it subscribes to `user-updated` only), so a user has no contact before the
first change. `told`, `newest` and `excuses` are history: `told[k]` is the event
numbered `k`, and whether the user is in the marketing list once it has been
handled (`Listed`). `told[0]` is no event but the address at registration.
`newest` is the latest event given to a worker, and `excuses` the exceptions
the properties name that have happened. One of them, `unpaid`, is taken back: two
notifications that overlap, or one that ends between flag and list, may leave the
two apart until a notification has run by itself from beginning to end (`alone`).

### FeaturesCache
`cache[k]` is the version of the flags in `features:<k>`. `Miss`, `Fetch`, `SetCache`
are the calls flagsmith-nodejs makes with the functions it is given
(`src/flagsmith.js`); an entry that is there is answered and changes nothing.
`Reset` is the webhook, `calls` the changes Flagsmith has still to report,
`resets` the subscription. `scan[w]` is a worker in `deleteKeysByPattern`: the keys
SCAN has not come to (`left`), and those sent to be unlinked (`sent`). SCAN
returns what is there all along, and may miss what comes in between, as a page
here sees the keys at its moment. `Page` needs `sent` to be empty, because Redis
executes UNLINK before the next SCAN of the same connection; `End` does not,
because the stream's end is not waited for by the last UNLINK, so `Unlink` and its
loss (`Fail`) can come after the acknowledgement. `cleared`, `excused` and
`missed` are history.

## 3. Runs

| Run | Question | Bounds, and why they are enough |
|---|---|---|
| `contest_counting` | Can eligibility be granted early, or a newcomer be counted twice without a fault? Is every settled referral counted? Do the rows add up when a contest follows another between two statements? Does the worker implement the ledger? | 2 newcomers with visits of two apps, clocks 0 and 1, 2 instances, 2 contests, threshold 2, 1 fault: rows are written before and after the event, older and newer; the threshold is reached, passed by a repeated delivery, and reached by two instances at once; also checks the invariant of the proofs |
| `contest_liveness` | Do due referrals get counted and enough of them make eligible? | 1 newcomer with visits of two apps, written late and in any order, 2 instances, 2 contests, threshold 1, fair delivery, 2 faults: a death between increment and update, and a second one, a duplicate or a republication besides |
| `registration_race` | Whose sessions and tokens are there, what do races leave behind, and does a first login link its account, even one that is refused? | 2 browsers, 3 accounts of 2 providers, 3 logins of which 2 at once, 3 ids, 1 fault |
| `registration_half` | Does a login with a linked account open a session of its user? No: finding 1 | no fault at all |
| `profile_overlap` | Are updates lost to overlaps only? Is the reputation safe? Who can share an address? | 2 users who register first or later, with the same address or not, 2 addresses, handles and images, 2 requests at once, 3 in all |
| `profile_premium` | Does a payment have its effect? No: finding 2 | the same |
| `notice_expected` | Does every eligible participant, and nobody else, hear of it, once unless a fault repeats it? | 2 participants, tally up to 3 with threshold 2, 1 fault |
| `notice_deployed` | The same with the deployed list of tables. No: finding 3 | 1 participant |
| `session_identity` | Whom can the cookies of a browser stand for? Does logout log out? Does a visitor keep its id? Does the referrer first answered stay on record? | 1 browser (browsers share nothing but users), 2 users, 2 visitors, 2 referrers, 2 apps, 3 requests of which 2 at once: a login, a logout and a boot in every order; a boot, a link and a boot of another app |
| `alerts_fills` | Whose alerts does an entry hold, and can it stay behind? | 2 users, a boot at a time with the own session, another user's or none, 2 changes for each user, 1 fault: announcements overtake each other, are repeated, and overtake a fill |
| `mailing_lists` | Is there one contact, in the lists the row says, when all is delivered? | 2 addresses and none, 3 saves or payments, 2 workers, 2 notifications at once, 2 faults: an address changes twice and back, events are swapped, repeated and handled at once, a payment meets an address on its way, a charge and a cancellation overlap, and a third notification puts right what they left. States after an exception are checked but not gone on from (`CONSTRAINT InOrder`): an exception but `unpaid` is never taken back, so both properties say nothing from there on; also checks the invariant of the proofs |
| `features_reset` | Can an entry stay behind the flags, and do stale entries go? | 2 keys on one page or two, 2 changes, 2 workers (two resets side by side, or one twice), a boot at a time, 1 fault. A second boot would add another fill that is overtaken or not |

The bounds are the smallest that reach what the table names; every bound is a
constant named `Max...` in its module. One exception of a property shows only
beyond them: an overtaken answer takes four requests to change a visitor's id
(`VisitorsKeepTheirId`), while `session_identity` has three, to finish in
a minute; with four it also passes (with one app and one visitor). `contest_liveness` passes as
well with three faults, and with two newcomers and threshold 2 in a single contest
(one fault), which take longer. What the
proofs showed beyond the bounds is told in section 5. Where an inductive
invariant is checked, the type invariant of the module is its first conjunct and
is not listed again. Symmetry is used in runs without liveness, over
sets whose members no definition names. Every run has `CHECK_DEADLOCK FALSE`,
because a system whose bounds are used up, or that nobody sends a request to,
stops.

### Fairness
Nothing is assumed of users, browsers, the clock or faults. Assumed are: Pub/Sub
pushes a message until it is acknowledged (`WF` of `Deliver`, of
`OnReferralContestsChange`, of `SendEmail`, and of the clearing worker's steps,
which include taking an event), Flagsmith reports its changes (`Reset`), MySQL
answers and a live instance
goes on (`WF` of `HandlerStep`), and Debezium reads on. All of it
is weak: each action stays enabled until it is taken. Faults are bounded, so they
do not have to be fairly absent.

## 4. Findings

1. `registration_half`: a login that reads between the two inserts of another
   login of the same account finds a row of `providers` without a user, and
   answers 200 with a session that names nobody. A death between the inserts
   makes this permanent.
2. `profile_premium`: `PUT /users/me` writes `premium` back as it read it; a
   payment notification in between is undone.
3. `notice_deployed`: Debezium is not told to capture `referral_participants`, so
   the branch of `cdc` that announces eligibility never runs.

Some properties hold only with an exception, and each exception is something the
code really does (TLC finds a violation when it is taken out):

* `EnoughReferralsBecomeEligible`: a participant reaches the threshold and the
  instance dies before the update. The delivery that replaces it reads everything
  again, and acknowledges without making anyone eligible if by then the next contest
  has begun, or the visit of another app has been written (late, or with the
  same or an older first visit) that names nobody or somebody else. And nothing
  replaces the dead one if Pub/Sub had delivered the event twice and another
  instance acknowledges its copy. In each case the participant has enough
  referrals and is not eligible, unless another newcomer is counted for it in that
  contest.
* `NoFormSharesAnAddress`: registering compares the address with nobody's. For forms,
  check and write are two statements without a unique index behind them, so two
  users who save the same new address at once both get it.
* `SessionsFollowLogins`: a login through `/authenticate` leaves the refresh cookie
  of another user, to whom the next boot returns; and an answer overtaken by a
  logout logs the browser in again.
* `ForeignAlertsNeedMixups`: boot serves the owner of the refresh token and caches
  under that user, but asks the API with the session cookie of the request, which
  after such a login is another user's. (That the API answers for the session it
  is sent is how the code uses it; the API is not in the repository.)
* `StaleAlertsNeedOverlaps`: a fill that asked the API before a change and stores
  its reply after the worker leaves the older alerts in the cache for a month.
* `ContactMirrorsUser`, `PremiumListMirrorsFlag`: events of one user handled at once
  or in the wrong order leave an address, or a consent, that has been taken back,
  and a notification that overlaps a change of the address edits the list of a
  contact nobody has any more, or restores the old address. More surprising is
  `skipped`, which needs neither fault nor reordering: because `cdc` reads the row
  anew (a workaround for utf8mb4, `src/workers/cdc.js:15`), the events of three saves
  can be "first to third", "second to fourth", "third to fourth": the second one looks
  for an address SendGrid was never told, and makes a second contact, which
  keeps its lists. A user who is charged without an address gets the flag and never
  the list. Nothing keeps two notifications of a user apart: a charge writes the
  flag, a cancellation clears it and edits the list, and the charge then adds to the
  list; the user is on it without being premium until the next notification that
  runs by itself.
* `StaleFlagsAreExcused`: flags fetched before a change and stored after the scan
  stay for a month; so does a page whose UNLINK fails, because nobody looks at its
  result and the event is acknowledged.
* `AnsweredReferrerStays`: boots that overlap answer a referrer that may never be
  on record.

Also worth knowing: `getOngoingContest` does not look at `end_at`, so referrals
count in the last contest until the next one starts.

## 5. Proofs

Eight modules of proofs, one per component. Each proves an inductive invariant,
`InvariantHolds`, for all values of the constants (sets of any size, infinite
ones included but for the addresses of `MailingList`, and every bound), and from it the properties that TLC checks on
one instance. TLC checks each inductive invariant as well. The only assumptions are those on the
constants, each named in the module that declares them: bounds are numbers, start
times are numbers, the threshold is positive, and the value that stands for null
is no user, key or contest, and the addresses of a user are finitely many.

Every proof has the same shape. *Moves* lemmas (`EndMoves`, `GetMoves`, ...) say
what an action does to the record of its own request and that it leaves the others
alone; *keeps* and *preserved* lemmas take one group of conjuncts through the
actions that can disturb it, with one frame lemma (`BystanderInOrder`,
`OthersKeepKnowledge`, `RowsUntouched`) for the steps that cannot; `InvariantHolds`
puts them together.

| Component | Invariant | Theorems |
|---|---|---|
| `ReferralContestProofs` | `ContestInvariant` | `TypeCorrect`, `EligibilityIsEarned`, `RowsAddUp`, `RecountsHold`, `NoReferralIsLost`, `WorkerImplementsLedger` |
| `RegistrationProofs` | `RegistrationInvariant` | `TypeCorrect`, `SessionsHold`, `ProvidersHold`, `OrphansHold`, `LinksHold` |
| `SessionProofs` | `SessionInvariant` | `TypeCorrect`, `LogoutsHold`, `SessionsHold`, `ReferrersStay`, `TrackingIdsStay` (an action property) |
| `ProfileProofs` | `ProfileInvariant` | `TypeCorrect`, `UpdatesHold`, `ReputationHolds`, `AddressesHold` |
| `EligibilityNoticeProofs` | `NoticeInvariant` | `TypeCorrect`, `NoticesHold`, `MailsHold` |
| `AlertsCacheProofs` | `AlertsInvariant` | `TypeCorrect`, `AlertsAreOnesOwn`, `EntriesAreCurrent` |
| `FeaturesCacheProofs` | `FeaturesInvariant` | `TypeCorrect`, `FlagsSettle` |
| `MailingListProofs` | `MailingInvariant` | `TypeCorrect`, `ContactHasTheUser`, `ListHasTheFlag` |

### Why the invariants are what they are

*Contest.* `EligibleHasThreshold` and `RowsCountDeliveries` are not inductive. The
decision to set `eligible` is made from a row read earlier, so the invariant says
what an instance at `set` knows (the row holds at least the threshold, and a row
never shrinks). The sums come out only if the delivery an instance is about to
count is in no row yet; that needs deliveries to be numbered and no two instances
to work on the same one (`HandlerKnows`, `CreditsAreDeliveries`).
`RecountsNeedFaults` counts what has been counted; inductive is the bound on what
has been *or may still be* (`CountsOf`, `CountsArePaid`): a delivery adds itself,
an increment only moves from "may be" to "is", a failed increment gives its
delivery back, and the free delivery of an event that nobody works on is
accounted for by one more (`Awaited`). That no referral is lost rests on
`DueIsFollowed`: while the visits keep naming the same referrer, every instance
finds that one, in some contest, and is past its increment only when it is
counted. The refinement uses the invariant for one step: `SetParticipantAsEligible`
maps to `Grant`, whose guard is the threshold, or to a stutter.

*Registration.* `RequestInOrder` says what a login has made sure of at each
`await`; `InsertsInOrder` says of the two inserts of `Promise.all` that while one is
under way the other one has succeeded, or the request is drained and the reason
is in the history (a fault, or another row of the same index). Both feed the four
properties, which are conjuncts of the invariant themselves.

*Session.* Three invariants, each proved on top of the one before. `Accountable`:
the cookies of a browser, and of the requests it sent since its last login or
logout, are those of its account (`CookiesAreMine`); whatever was sent earlier is
"overtaken" when its answer arrives. `Identified`: ids that are set are of users
or new, and a request that was given a new id is alone with it (`FreshIsAlone`).
`VisitsAreRecorded`: what is about to be written comes after what is there, so the
referrer of the oldest row does not change. `VisitorsKeepTheirId` follows from
`Identified` and one case analysis of `Answer`.

*Profile.* A save writes back a row it has read, so what must be known is that the
profile at hand is the row as it is, with the change applied (`ReadIsCurrent`), up
to the reputation, unless somebody wrote in between, which marks the request.
`AddressIsFree` does the same for the check of the address. Two users are never both
unmarked and of one address: a form without a mark was checked against the other one,
and registering with an address that somebody has marks the newcomer (`doubled`).

*Eligibility e-mails.* `MailsAreAccounted` adds up, for each mailing and
participant, the e-mails sent, the notices waiting, and the announcements in the
two logs: the sum is at most the grant plus the faults. Each hop moves one unit; the lemmas
about `Announcements` say what appending to a log and taking its head do to the
count (a bijection between the places of a log and of its tail, moved by one).

*Alerts.* The latest version has been stored by the worker or is announced; an entry is
at least as new as what the worker stored, or was overwritten (`EntryIsExplained`);
a reply is of the cookie's user and was current once (`RequestKnows`).

*Feature flags.* Each key is scanned after the last change or will be, by a reset that
waits and that no worker dealing with it has taken past the key (`WillBeScanned`);
an entry older than the scan of its key is in some worker's `sent` or excused
(`IsUnlinked`).

*Mailing list.* The worker finds the contact by the address in `before`, so the
invariant has to follow the chain of addresses from SendGrid to the row.

- *Types.* No two contacts share an address; therefore one of the `ContactIds`, as
  many as there are addresses, is always free for a new one (`SpareContact`,
  a pigeonhole argument).
- *Events.* `told` holds every event, those no worker has been given are in the
  subscription (`EventsAreTold`), and while nothing was skipped an event starts or ends
  where the one before ended (`Follows`). The row says what the latest event
  says, or a change waits that starts at the address of that event
  (`RowWillBeTold`): addresses may change and change back before the cdc worker
  reads the row, so a later event may say nothing new.
- *SendGrid* is where the newest event given to a worker leads (`Mirrors`), or where the
  one before it led, with that event still in the subscription, and perhaps
  already off the marketing list (`Halfway`). `Deliver` goes from the first to
  the second, `PutContact` back; a repeated delivery stays at the first: whoever
  it finds under the old address is not listed any more, and `PUT` meets the
  contact that has the new one.
- *Workers.* What a worker has found and removed still holds when it writes
  (`JobInOrder`), whether SendGrid is before or after the event: two workers may
  hold the same event.
- *Payments.* A notification names a contact there is. If it has been alone all
  along, the flag is as it wrote it, and if it found no contact then nobody has put
  one on the list since (`PaymentKnows`); therefore, when it edits the list, flag and
  list agree again, whatever state they were in. While nothing is excused every
  notification is alone (`PremiumInOrder`), because the second one to come excuses
  both.

All but the types, the events and what a worker or notification holds is claimed
only while no exception has happened, and, for SendGrid, while no older event is
left in the subscription (`Clean`): such an event can only come too late, which
is an exception.

### What the attempts showed

* `VisitorsKeepTheirId` did not hold as first stated: its exception for two first requests was
  raised only while the other request carried a freshly given id. With six requests, a
  login refused in between, it breaks without it. `Busy` now says what
  matters: another request of the browser is being answered.
* `SettledReferralsAreCounted` spoke of the referrer on record when the event went out
  and of the one on record now, and said nothing of the time in between. With three apps
  and three clock readings, an older row that names somebody else, read by the
  instance, may be followed by one older still that names the first referrer
  again. `due` now holds a referrer only as long as no visit disputes it.
* `EnoughReferralsBecomeEligible` excused nothing but the next contest, which holds
  with a single app and a single fault. With a second app, TLC has a late visit row
  take the referrer from the event that is delivered again; with a second fault, a
  duplicate delivery acknowledged by the other instance.
* `AddressesAreSharedOnlyByRaces`, as `NoFormSharesAnAddress` was first called, held only
  from a table of users with distinct addresses, which registration does not leave.
* `PremiumListMirrorsFlag` held without an exception for overlaps only while
  notifications were handled one at a time. With two, TLC finds the charge that adds
  to the list after the cancellation has cleared the flag.
* `NoOne`, `NoKey`, `Absent` must not be among the values they stand in for: TLC never
  asks, the proofs need it (`ConstantsAssumption`, `FeaturesAssumption` and the like).

### Only model-checked

Everything under fairness (`EnoughReferralsBecomeEligible`, `DueReferralsGetCounted`,
`EligibleParticipantsAreNotified`, `StaleFlagsGo`): liveness and `ENABLED` are out of
the provers' reach. Every invariant and the action property that a passing run
checks are proved.

## 6. Plan

In this order, most important first:

1. *Done*: `ContestLedger`, `ReferralContest`, `Registration`, `Profile`,
   `EligibilityNotice`, `Session`, `AlertsCache`, `MailingList`, `FeaturesCache`.
2. *Done*: the inductive invariants and all safety properties of these modules,
   and the refinement of `ContestLedger`.
3. Left: the hazards of `PROJECT.json` that no property covers, each with its reason there.

Not to be modelled: the proxies, CORS and health routes (no state), uploads and
OAuth reads (their results are the inputs of `Profile` and `Registration`),
roles (read only), the Slack message (no state), scripts that are run by hand,
and the declaration of infrastructure, except the list of captured tables and
the ordering of messages, which `EligibilityNotice` uses.
