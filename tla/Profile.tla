------------------------------- MODULE Profile -------------------------------
(***************************************************************************)
(* The row of a user in table users and everything that writes it: users   *)
(* registering, PUT /users/me, POST /users/me/image, the payment           *)
(* notifications of /premium/ipn and the worker updateReputation.          *)
(*                                                                         *)
(* The two routes read the row, build a whole new profile from it and      *)
(* write that back, each statement atomic and nothing held in between; the *)
(* notification and the worker write one column.  What else registering    *)
(* does, and how it can fail, is the matter of Registration.               *)
(***************************************************************************)
EXTENDS Naturals, FiniteSets

CONSTANTS Users,          \* ids
          Emails,
          Usernames,      \* stands for all four handles with a unique index
          Images,
          Requests,       \* profile requests served at once
          Absent,         \* null
          MaxReputation,  \* bound on the reputation
          MaxRequests     \* bound on profile requests and notifications

ASSUME ProfileAssumption ==
    /\ Absent \notin Users \cup Emails \cup Usernames \cup Images \cup Requests
    /\ MaxReputation \in Nat \ {0}
    /\ MaxRequests \in Nat

VARIABLES
    registered,  \* the ids that have a row
    rows,        \* table users; of an id without a row, what it will start from
    request,     \* the local state of each profile request
    intended,    \* history: the rows, had every request written only the
                 \* columns it is about
    overtaken,   \* history: the users whose row was written from a stale read
    raced,       \* history: the users who took an address after a stale check
    doubled,     \* history: the users who registered with somebody's address and
                 \* have sent no form since
    received     \* how many requests and notifications have arrived

vars == <<registered, rows, request, intended, overtaken, raced, doubled, received>>

Rows == [email : Emails \cup {Absent}, username : Usernames \cup {Absent},
         image : Images, premium : BOOLEAN, infoConfirmed : BOOLEAN,
         acceptedMarketing : BOOLEAN, reputation : 1..MaxReputation]

\* What the form of PUT /me sends.  Leaving acceptedMarketing out is the same as
\* sending TRUE, also for a user who had declined.
Bodies == [email : Emails, username : Usernames, acceptedMarketing : BOOLEAN]

\* PUT /me: the columns of the form, and infoConfirmed.
FormChange(body) == [kind |-> "form", body |-> body]

\* POST /me/image, once the file has been uploaded: one column.
ImageChange(image) == [kind |-> "image", image |-> image]

Changes == {FormChange(body) : body \in Bodies} \cup {ImageChange(i) : i \in Images}

Steps == {"idle", "get", "check", "update"}

RequestRecords == [step : Steps, user : Users \cup {Absent}, change : Changes \cup {Absent},
                   profile : Rows \cup {Absent}, stale : BOOLEAN, late : BOOLEAN]

\* change is what the request is about, profile the row it is going to write,
\* stale and late whether the row, or the address, was written meanwhile.
Idle == [step |-> "idle", user |-> Absent, change |-> Absent, profile |-> Absent,
         stale |-> FALSE, late |-> FALSE]

Serving(q) == request[q].step # "idle"

-----------------------------------------------------------------------------
(* The models' statements.                                                 *)

\* A faulty variant: the comparison of the ids is the wrong way round.
DuplicateEmailOfSelf(u, email) == rows[u].email = email

\* userModel.checkDuplicateEmail
DuplicateEmail(u, email) == \E v \in Users \ {u} : rows[v].email = email

\* The unique index of a handle.
DuplicateUsername(u, username) ==
    username # Absent /\ \E v \in Users \ {u} : rows[v].username = username

\* A faulty variant: the list of columns lacks acceptedMarketing.
PickedWithoutMarketing(row, profile) ==
    [row EXCEPT !.email = IF profile.email = Absent THEN @ ELSE profile.email,
                !.username = IF profile.username = Absent THEN @ ELSE profile.username,
                !.image = profile.image,
                !.premium = profile.premium,
                !.infoConfirmed = profile.infoConfirmed]

\* A faulty variant: the list of columns has reputation, too.
PickedWithReputation(row, profile) ==
    [profile EXCEPT !.email = IF @ = Absent THEN row.email ELSE @,
                    !.username = IF @ = Absent THEN row.username ELSE @]

\* The columns userModel.update picks from a profile; a null in the profile was
\* dropped when the row was read (mapUser), and leaves the column alone.
Picked(row, profile) ==
    [row EXCEPT !.email = IF profile.email = Absent THEN @ ELSE profile.email,
                !.username = IF profile.username = Absent THEN @ ELSE profile.username,
                !.image = profile.image,
                !.premium = profile.premium,
                !.infoConfirmed = profile.infoConfirmed,
                !.acceptedMarketing = profile.acceptedMarketing]

\* What a request becomes when row u changes to row: it is stale if it has read
\* that row, late if it has found the new address free.
Overtake(r, u, row) ==
    [r EXCEPT !.stale = @ \/ (r.step \in {"check", "update"} /\ r.user = u /\ row # rows[u]),
              !.late = @ \/ (/\ r.step = "update" /\ r.user # u
                             /\ row.email # rows[u].email /\ r.profile.email = row.email)]

\* Row u is written, by the request in slot q or (Absent) by none of them.
Write(u, row, q) ==
    /\ rows' = [rows EXCEPT ![u] = row]
    /\ request' = [p \in Requests |-> IF p = q THEN Idle
                                      ELSE IF Serving(p) THEN Overtake(request[p], u, row)
                                      ELSE request[p]]

-----------------------------------------------------------------------------
(* Registration.                                                           *)

\* userModel.add: the account's address, if it has one, is taken as it is.  No form
\* and no index compares it with those of the other users, who may have the same
\* from another provider.
Register(u, email, image) ==
    /\ u \notin registered
    /\ registered' = registered \cup {u}
    /\ Write(u, [rows[u] EXCEPT !.email = email, !.image = image], Absent)
    /\ intended' = [intended EXCEPT ![u] = rows'[u]]
    /\ doubled' = IF email # Absent /\ \E v \in Users \ {u} : rows[v].email = email
                  THEN doubled \cup {u} ELSE doubled
    /\ UNCHANGED <<overtaken, raced, received>>

-----------------------------------------------------------------------------
(* Profile requests.                                                       *)

\* A change applied to a row.
Apply(row, change) ==
    IF change.kind = "form"
    THEN [row EXCEPT !.email = change.body.email,
                     !.username = change.body.username,
                     !.acceptedMarketing = change.body.acceptedMarketing,
                     !.infoConfirmed = TRUE]
    ELSE [row EXCEPT !.image = change.image]

Arrive(q, u, change) ==
    /\ u \in registered
    /\ ~Serving(q)
    /\ received < MaxRequests
    /\ received' = received + 1
    /\ request' = [request EXCEPT ![q] =
                     [step |-> "get", user |-> u, change |-> change, profile |-> Absent,
                      stale |-> FALSE, late |-> FALSE]]
    /\ UNCHANGED <<registered, rows, intended, overtaken, raced, doubled>>

\* userModel.getById; the new profile is the row with the change applied to it.
\* Only the form goes through the check of the address.
GetUser(q) ==
    LET r == request[q]
    IN  /\ r.step = "get"
        /\ request' = [request EXCEPT ![q] =
                         [r EXCEPT !.profile = Apply(rows[r.user], r.change),
                                   !.step = IF r.change.kind = "form" THEN "check"
                                                                      ELSE "update"]]
        /\ UNCHANGED <<registered, rows, intended, overtaken, raced, doubled, received>>

\* The address belongs to somebody else: 400.
CheckDuplicateEmail(q) ==
    /\ request[q].step = "check"
    /\ request' = [request EXCEPT ![q] =
                     IF DuplicateEmail(request[q].user, request[q].profile.email)
                     THEN Idle ELSE [@ EXCEPT !.step = "update"]]
    /\ UNCHANGED <<registered, rows, intended, overtaken, raced, doubled, received>>

\* userModel.update, which fails (400, or 500 for an image) when it meets the
\* unique index of a handle.
UpdateUser(q) ==
    LET u == request[q].user
        profile == request[q].profile
    IN  /\ request[q].step = "update"
        /\ ~DuplicateUsername(u, profile.username)
        /\ Write(u, Picked(rows[u], profile), q)
        /\ intended' = [intended EXCEPT ![u] = Apply(@, request[q].change)]
        /\ overtaken' = IF request[q].stale THEN overtaken \cup {u} ELSE overtaken
        /\ raced' = IF request[q].late THEN raced \cup {u} ELSE raced
        /\ doubled' = IF request[q].change.kind = "form" THEN doubled \ {u} ELSE doubled
        /\ UNCHANGED <<registered, received>>

UpdateRefused(q) ==
    /\ request[q].step = "update"
    /\ DuplicateUsername(request[q].user, request[q].profile.username)
    /\ request' = [request EXCEPT ![q] = Idle]
    /\ UNCHANGED <<registered, rows, intended, overtaken, raced, doubled, received>>

\* The instance dies, or a statement fails: nothing has been written yet.
Die(q) ==
    /\ Serving(q)
    /\ request' = [request EXCEPT ![q] = Idle]
    /\ UNCHANGED <<registered, rows, intended, overtaken, raced, doubled, received>>

-----------------------------------------------------------------------------
(* The writers of one column.                                              *)

\* POST /premium/ipn: CHARGE and AUTH_ONLY upgrade, CANCELLATION downgrades.
\* The mailing list it edits besides is not part of this module.
Ipn(u, premium) ==
    /\ u \in registered
    /\ received < MaxRequests
    /\ received' = received + 1
    /\ Write(u, [rows[u] EXCEPT !.premium = premium], Absent)
    /\ intended' = [intended EXCEPT ![u].premium = premium]
    /\ UNCHANGED <<registered, overtaken, raced, doubled>>

\* The worker updateReputation: userModel.updateReputation.
UpdateReputation(u, reputation) ==
    /\ u \in registered
    /\ reputation # rows[u].reputation
    /\ rows' = [rows EXCEPT ![u].reputation = reputation]
    /\ intended' = [intended EXCEPT ![u].reputation = reputation]
    /\ UNCHANGED <<registered, request, overtaken, raced, doubled, received>>

-----------------------------------------------------------------------------
\* Nobody has registered.  The columns registration leaves out have their defaults.
Init ==
    /\ registered = {}
    /\ \E image \in Images :
         rows = [u \in Users |->
                   [email |-> Absent, username |-> Absent, image |-> image, premium |-> FALSE,
                    infoConfirmed |-> FALSE, acceptedMarketing |-> TRUE, reputation |-> 1]]
    /\ request = [q \in Requests |-> Idle]
    /\ intended = rows
    /\ overtaken = {}
    /\ raced = {}
    /\ doubled = {}
    /\ received = 0

RequestStep(q) ==
    \/ GetUser(q)
    \/ CheckDuplicateEmail(q)
    \/ UpdateUser(q)
    \/ UpdateRefused(q)
    \/ Die(q)

Next ==
    \/ \E q \in Requests : RequestStep(q) \/ \E u \in Users, c \in Changes : Arrive(q, u, c)
    \/ \E u \in Users : \/ \E email \in Emails \cup {Absent}, i \in Images : Register(u, email, i)
                        \/ \E premium \in BOOLEAN : Ipn(u, premium)
                        \/ \E r \in 1..MaxReputation : UpdateReputation(u, r)

Spec == Init /\ [][Next]_vars

-----------------------------------------------------------------------------
(* Properties.                                                             *)

TypeOK ==
    /\ registered \in SUBSET Users
    /\ rows \in [Users -> Rows]
    /\ intended \in [Users -> Rows]
    /\ overtaken \in SUBSET Users
    /\ raced \in SUBSET Users
    /\ doubled \in SUBSET Users
    /\ received \in 0..MaxRequests
    /\ request \in [Requests -> RequestRecords]
    /\ \A q \in Requests :
         /\ Serving(q) => request[q].user \in Users /\ request[q].change \in Changes
         /\ request[q].step \in {"check", "update"} => request[q].profile \in Rows

\* No update is lost but to an overlapping save: unless a profile was written
\* over a row that had changed since it was read, every column holds what was
\* last meant for it, by a form, an upload, a payment or the reputation worker.
UpdatesAreLostOnlyToOverlaps ==
    \A u \in Users : u \in overtaken \/ rows[u] = intended[u]

\* The reputation is never lost, overlap or not: it is not among the columns a
\* profile writes back.
ReputationSurvivesSaves == \A u \in Users : rows[u].reputation = intended[u].reputation

\* No form ends with an address that somebody else has, but for a race: of two users
\* who share one, one registered with it and has sent no form since, which nothing
\* checks, or passed the check before the other one's write, or had an old address
\* brought back by an overlapping save.
NoFormSharesAnAddress ==
    \A u, v \in Users :
        (u # v /\ rows[u].email = rows[v].email /\ rows[u].email # Absent)
            => {u, v} \cap (doubled \cup raced \cup overtaken) # {}

\* Two rows that differ in their reputation at most.
SameButReputation(row, other) == row = [other EXCEPT !.reputation = row.reputation]

\* The profile that request q is going to write is the row with the change applied
\* to it, whatever became of the reputation, unless the request is stale.
ReadIsCurrent(q) ==
    (request[q].step \in {"check", "update"} /\ ~request[q].stale)
        => SameButReputation(request[q].profile, Apply(rows[request[q].user], request[q].change))

\* A form is checked and written with its own address, and once checked nobody else
\* has it, unless the request is late.
AddressIsFree(q) ==
    LET r == request[q]
    IN  (r.step \in {"check", "update"} /\ r.change.kind = "form")
            => /\ r.step = "check" \/ r.late
                    \/ \A u \in Users \ {r.user} : rows[u].email # r.profile.email
               /\ r.profile.email = r.change.body.email

\* Each profile that is still to be written loses nothing and takes nobody's
\* address, unless the history says otherwise; nor have those already written.
ProfileInvariant ==
    /\ TypeOK
    /\ \A q \in Requests : ReadIsCurrent(q) /\ AddressIsFree(q)
    /\ UpdatesAreLostOnlyToOverlaps
    /\ ReputationSurvivesSaves
    /\ NoFormSharesAnAddress

\* A payment notification has its effect: the user is premium exactly if the
\* last notification said so.
PaymentsDecidePremium == \A u \in Users : rows[u].premium = intended[u].premium
=============================================================================
