----------------------------- MODULE MailingList -----------------------------
(***************************************************************************)
(* The contact of a user at SendGrid, and the lists it is in.  Two writers *)
(* keep it: the worker updateMailingList, told by the cdc worker of every  *)
(* change of the user's row, and the handler of payment notifications.     *)
(*                                                                         *)
(* The worker looks for the contact under the address before the change,   *)
(* and writes what the row was when the cdc worker got to the change.      *)
(* Changes come in order; the events made of them do not.  The module is   *)
(* about one user: that two share an address is a matter of Profile.       *)
(***************************************************************************)
EXTENDS Naturals, Sequences, FiniteSets

CONSTANTS Emails,
          Absent,        \* no address
          Workers,       \* events handled at once
          Notices,       \* payment notifications handled at once
          MaxChanges,    \* bound on saved profiles and payments
          MaxFaults      \* bound on errors, refusals and lost acknowledgements

ASSUME MailingAssumption ==
    /\ IsFiniteSet(Emails) /\ Emails # {} /\ Absent \notin Emails
    /\ MaxChanges \in Nat /\ MaxFaults \in Nat

VARIABLES
    row,        \* the user: address, consent to marketing, premium
    changes,    \* gateway.changes: for each change, the address before it
    published,  \* the number of events so far
    made,       \* the number of saves and payments so far
    told,       \* history: the events, and the marketing list they lead to
    updates,    \* events in the subscription user-updated-mailing
    contacts,   \* SendGrid: the contacts by their ids
    job,        \* the local state of each worker
    payment,    \* the local state of each notification
    newest,     \* history: the latest event a worker has been given
    excuses,    \* history: what may have come between the row and the contact, or
                \* (unpaid) between the flag of the row and the premium list
    faults

history == <<newest, excuses>>
stream  == <<row, changes, published, made, told>>
vars    == <<stream, updates, contacts, job, payment, history, faults>>

Addresses  == Emails \cup {Absent}
NoId       == 0
ContactIds == 1..Cardinality(Emails)
Unused     == [email |-> Absent, lists |-> {}]
NoEvent    == [nr |-> 0, old |-> Absent, email |-> Absent, accepts |-> FALSE]
Free       == [step |-> "idle", event |-> NoEvent, id |-> NoId]

\* alone is history: no other notification has been under way at any time since.
NoPayment  == [step |-> "idle", charge |-> FALSE, email |-> Absent, id |-> NoId,
               alone |-> FALSE]

Paying(p) == payment[p].step # "idle"

Fault == faults < MaxFaults /\ faults' = faults + 1

Excuse(excuse, condition) ==
    excuses' = IF condition THEN excuses \cup {excuse} ELSE excuses

\* A change of the address is on its way to SendGrid.
AddressMoves ==
    \/ \E i \in DOMAIN changes : changes[i] # row.email
    \/ \E m \in updates : {m.old, m.email} # {row.email}

-----------------------------------------------------------------------------
(* SendGrid.                                                               *)

Named(email) == {c \in ContactIds : email # Absent /\ contacts[c].email = email}

\* getContactIdByEmail
ContactIdByEmail(email) ==
    IF Named(email) = {} THEN NoId ELSE CHOOSE c \in Named(email) : TRUE

\* addUserToContacts: the contact that has the address, else the one named, else
\* a new one, gets the address and is added to the lists.
AddUserToContacts(email, lists, id) ==
    LET known == ContactIdByEmail(email)
        c == IF known # NoId THEN known ELSE IF id # NoId THEN id
             ELSE CHOOSE new \in ContactIds : contacts[new] = Unused
    IN  contacts' = [contacts EXCEPT ![c] = [email |-> email, lists |-> @.lists \cup lists]]

\* removeUserFromList; without a contact nothing is removed.
RemoveUserFromList(list, id) ==
    contacts' = [c \in ContactIds |->
        IF c = id THEN [contacts[c] EXCEPT !.lists = @ \ {list}] ELSE contacts[c]]

-----------------------------------------------------------------------------
(* The row, and the cdc worker.                                            *)

ChangeRow(new) == row' = new /\ changes' = Append(changes, row.email)

\* A profile is saved; a form always has an address.  (An image or a reputation is
\* a save that changes nothing the mailing list looks at.)
Save(email, accepts) ==
    /\ made < MaxChanges /\ made' = made + 1
    /\ ChangeRow([row EXCEPT !.email = email, !.accepts = accepts])
    /\ Excuse("crossed", email # row.email /\ \E p \in Notices : Paying(p))
    /\ UNCHANGED <<published, told, updates, contacts, job, payment, newest, faults>>

Latest == told[published].event

\* Whether the contact is in the marketing list once an event has been handled: a
\* refusal is heard if the event starts at the address SendGrid has by then.
Listed(m, before) ==
    /\ m.email # Absent
    /\ m.accepts \/ (m.old # before.event.email /\ before.listed)

\* The row is read again, and published with the address before the change; the
\* change is acknowledged, or (a fault) comes again.  The event skips an address
\* when it neither starts nor ends at the one that was published last.
OnUserChange ==
    LET m == [nr |-> published + 1, old |-> Head(changes),
              email |-> row.email, accepts |-> row.accepts]
    IN  /\ changes # <<>>
        /\ published' = m.nr
        /\ updates' = updates \cup {m}
        /\ told' = [k \in 0..m.nr |-> IF k < m.nr THEN told[k] ELSE
                       [event |-> m, listed |-> Listed(m, told[published])]]
        /\ Excuse("skipped", Latest.email \notin {m.old, m.email})
        /\ \/ changes' = Tail(changes) /\ UNCHANGED faults
           \/ UNCHANGED changes /\ Fault
        /\ UNCHANGED <<row, made, contacts, job, payment, newest>>

-----------------------------------------------------------------------------
(* The worker updateMailingList.                                           *)

\* A faulty variant: the address is not tested.
HasEmailUntested(m) == TRUE

HasEmail(m) == m.email # Absent

\* A faulty variant: a refused contact is looked for under the new address.
FindByNewAddress(m) == ContactIdByEmail(IF m.accepts THEN m.old ELSE m.email)

FindContact(m) == ContactIdByEmail(m.old)

Start(w, m, step, id) ==
    job' = [job EXCEPT ![w] = [step |-> step, event |-> m, id |-> id]]

\* An event is handed to a worker.  One without an address is acknowledged; else
\* the contact is looked for: to be updated or, where marketing is refused, to be
\* taken off the list first.
Deliver(w, m) ==
    LET id == FindContact(m)
    IN  /\ job[w].step = "idle"
        /\ IF HasEmail(m)
           THEN /\ UNCHANGED updates
                /\ Start(w, m, IF m.accepts THEN "put"
                               ELSE IF id # NoId THEN "remove" ELSE "search", id)
           ELSE updates' = updates \ {m} /\ UNCHANGED job
        /\ newest' = IF newest < m.nr THEN m.nr ELSE newest
        /\ Excuse("crossed",
                  m.nr < newest \/ \E v \in Workers : job[v].event \notin {m, NoEvent})
        /\ UNCHANGED <<stream, contacts, payment, faults>>

RemoveFromMarketing(w) ==
    /\ job[w].step = "remove"
    /\ RemoveUserFromList("marketing", job[w].id)
    /\ Start(w, job[w].event, "search", NoId)
    /\ UNCHANGED <<stream, updates, payment, history, faults>>

\* updateUserContact looks for the contact once more.
UpdateUserContact(w) ==
    /\ job[w].step = "search"
    /\ Start(w, job[w].event, "put", ContactIdByEmail(job[w].event.old))
    /\ UNCHANGED <<stream, updates, contacts, payment, history, faults>>

\* The contact is written, and the event acknowledged, or (a fault) comes again.
PutContact(w) ==
    LET m == job[w].event
    IN  /\ job[w].step = "put"
        /\ AddUserToContacts(m.email, {"all"} \cup IF m.accepts THEN {"marketing"} ELSE {},
                             job[w].id)
        /\ job' = [job EXCEPT ![w] = Free]
        /\ \/ updates' = updates \ {m} /\ UNCHANGED faults
           \/ UNCHANGED updates /\ Fault
        /\ UNCHANGED <<stream, payment, history>>

\* A call fails or the instance dies, and the event stays.  Only where SendGrid
\* refuses the contact for the length of a field is it acknowledged.
Fail(w) ==
    /\ job[w].step # "idle"
    /\ Fault
    /\ job' = [job EXCEPT ![w] = Free]
    /\ \/ UNCHANGED <<updates, excuses>>
       \/ /\ job[w].step = "put"
          /\ updates' = updates \ {job[w].event}
          /\ excuses' = excuses \cup {"refused"}
    /\ UNCHANGED <<stream, contacts, payment, newest>>

-----------------------------------------------------------------------------
(* POST /premium/ipn.                                                      *)

\* A faulty variant: the contact is not looked for, as outside production.
NoPayer == NoId

Payer == ContactIdByEmail(row.email)

\* A charge or a cancellation is notified; the user and the contact are read.
\* Nothing keeps two notifications of a user apart.
Notify(p, charge) ==
    LET overlaps == \E q \in Notices : Paying(q)
    IN  /\ ~Paying(p)
        /\ made < MaxChanges /\ made' = made + 1
        /\ payment' = [q \in Notices |->
              IF q = p THEN [step |-> "flag", charge |-> charge, email |-> row.email,
                             id |-> Payer, alone |-> ~overlaps]
                       ELSE [payment[q] EXCEPT !.alone = FALSE]]
        /\ excuses' = excuses \cup (IF AddressMoves THEN {"crossed"} ELSE {})
                              \cup (IF overlaps THEN {"unpaid"} ELSE {})
        /\ UNCHANGED <<row, changes, published, told, updates, contacts, job, newest, faults>>

WritePremium(p) ==
    /\ payment[p].step = "flag"
    /\ ChangeRow([row EXCEPT !.premium = payment[p].charge])
    /\ payment' = [payment EXCEPT ![p].step = "list"]
    /\ UNCHANGED <<published, made, told, updates, contacts, job, history, faults>>

\* The list follows the flag, with the user and the contact as read before: for
\* certain only if no other notification came between.
EditPremiumList(p) ==
    LET r == payment[p]
    IN  /\ r.step = "list"
        /\ IF r.charge THEN r.email # Absent /\ AddUserToContacts(r.email, {"premium"}, r.id)
                       ELSE RemoveUserFromList("premium", r.id)
        /\ payment' = [payment EXCEPT ![p] = NoPayment]
        /\ excuses' = IF r.alone THEN excuses \ {"unpaid"} ELSE excuses
        /\ UNCHANGED <<stream, updates, job, newest, faults>>

\* SendGrid refuses a contact without an address; it or the database does not
\* answer, or the instance dies.
IpnFails(p) ==
    /\ Paying(p)
    /\ \/ /\ payment[p].step = "list" /\ payment[p].charge /\ payment[p].email = Absent
          /\ UNCHANGED faults
       \/ Fault
    /\ payment' = [payment EXCEPT ![p] = NoPayment]
    /\ Excuse("unpaid", payment[p].step = "list")
    /\ UNCHANGED <<stream, updates, contacts, job, newest>>

-----------------------------------------------------------------------------
\* The user has just registered: the mailing worker is not told of that.
Init ==
    /\ row \in [email : Addresses, accepts : {TRUE}, premium : {FALSE}]
    /\ changes = <<>> /\ published = 0 /\ made = 0
    /\ told = [k \in {0} |-> [event |-> [nr |-> 0, old |-> row.email, email |-> row.email,
                                        accepts |-> TRUE], listed |-> FALSE]]
    /\ updates = {}
    /\ contacts = [c \in ContactIds |-> Unused]
    /\ job = [w \in Workers |-> Free] /\ payment = [p \in Notices |-> NoPayment]
    /\ newest = 0 /\ excuses = {} /\ faults = 0

Next ==
    \/ \E email \in Emails, accepts \in BOOLEAN : Save(email, accepts)
    \/ OnUserChange
    \/ \E w \in Workers : \/ \E m \in updates : Deliver(w, m)
                          \/ RemoveFromMarketing(w) \/ UpdateUserContact(w)
                          \/ PutContact(w) \/ Fail(w)
    \/ \E p \in Notices : \/ \E charge \in BOOLEAN : Notify(p, charge)
                          \/ WritePremium(p) \/ EditPremiumList(p) \/ IpnFails(p)

Spec == Init /\ [][Next]_vars

-----------------------------------------------------------------------------
(* Properties.                                                             *)

Events == [nr : Nat, old : Addresses, email : Addresses, accepts : BOOLEAN]

Known == {c \in ContactIds : contacts[c] # Unused}

\* A contact has an address, and no two contacts share one.
TypeOK ==
    /\ row \in [email : Addresses, accepts : BOOLEAN, premium : BOOLEAN]
    /\ changes \in Seq(Addresses) /\ made \in 0..MaxChanges
    /\ published \in Nat /\ told \in [0..published -> [event : Events, listed : BOOLEAN]]
    /\ updates \in SUBSET Events
    /\ contacts \in [ContactIds -> {Unused} \cup
                        [email : Emails, lists : SUBSET {"all", "marketing", "premium"}]]
    /\ \A c, d \in Known : contacts[c].email = contacts[d].email => c = d
    /\ job \in [Workers -> [step : {"idle", "remove", "search", "put"},
                            event : Events, id : ContactIds \cup {NoId}]]
    /\ payment \in [Notices -> [step : {"idle", "flag", "list"}, charge : BOOLEAN,
                                email : Addresses, id : ContactIds \cup {NoId},
                                alone : BOOLEAN]]
    /\ newest \in 0..published /\ faults \in 0..MaxFaults
    /\ excuses \subseteq {"crossed", "skipped", "refused", "unpaid"}

\* Nothing is under way that will still reach SendGrid.
Settled ==
    /\ changes = <<>> /\ updates = {} /\ \A p \in Notices : ~Paying(p)
    /\ \A w \in Workers : job[w].step = "idle"

\* Once a change has reached SendGrid the user is one contact there, under the
\* address of the row, and in the marketing list exactly with consent: an address
\* that changes and changes back, an event delivered twice or to two workers, and
\* a handler that dies half-way leave no second contact and no refusal unheard.
\* Exceptions: events handled at once or an older one after a newer one, a payment
\* that overlaps a change of the address, an address that the cdc worker skipped,
\* and a contact that SendGrid refuses.
ContactMirrorsUser ==
    (Settled /\ published > 0 /\ excuses \subseteq {"unpaid"}) =>
        IF row.email = Absent THEN Known = {}
        ELSE \E c \in ContactIds :
                /\ Known = {c}
                /\ contacts[c].email = row.email
                /\ "all" \in contacts[c].lists
                /\ ("marketing" \in contacts[c].lists) = row.accepts

\* The premium list follows the flag of the row under the exceptions above, unless
\* a notification ended between the two or two of them overlapped, and none has since
\* run by itself from beginning to end: that one sets both right.
PremiumListMirrorsFlag ==
    (Settled /\ excuses = {}) =>
        row.premium = (\E c \in Known : "premium" \in contacts[c].lists)
-----------------------------------------------------------------------------
(* The inductive invariant.                                                *)

\* Events are numbered as they are published, and those that no worker has been
\* given are still in the subscription.
EventsAreTold ==
    /\ ~told[0].listed
    /\ \A k \in 0..published : told[k].event.nr = k
    /\ \A k \in 1..published :
          /\ told[k].listed = Listed(told[k].event, told[k - 1])
          /\ told[k].event.email = Absent => told[k - 1].event.email = Absent
    /\ \A m \in updates : m.nr \in 1..published /\ m = told[m.nr].event
    /\ \A k \in (newest + 1)..published : told[k].event \in updates

\* A user who has an address never loses it.
AddressStays ==
    row.email = Absent => /\ Latest.email = Absent
                          /\ \A i \in DOMAIN changes : changes[i] = Absent

\* What a worker holds is an event that was published, and a contact that exists.
JobKnows(w) ==
    LET m == job[w].event
    IN  IF job[w].step = "idle" THEN job[w] = Free
        ELSE /\ m.nr \in 1..newest /\ m = told[m.nr].event /\ HasEmail(m)
             /\ job[w].step \in {"remove", "search"} => ~m.accepts
             /\ job[w].step = "remove" => job[w].id # NoId
             /\ job[w].id # NoId => job[w].id \in Known

InOrder == excuses \subseteq {"unpaid"}

\* Nor is an event left behind that could only be given to a worker too late.
Clean == InOrder /\ \A m \in updates : m.nr >= newest

\* An event starts or ends where the one before it ended.
Follows(k) ==
    LET m == told[k].event
        email == told[k - 1].event.email
    IN  \/ m.old = email
        \/ m.email = email /\ email # Absent /\ k > 1

\* The latest event says what the row says, or a change is waiting that starts at
\* the address of that event: its own event will be found, and set things right.
RowWillBeTold ==
    /\ \/ /\ row.email = Latest.email
          /\ \/ published = 0
             \/ told[published].listed = (row.accepts /\ row.email # Absent)
       \/ \E i \in DOMAIN changes : changes[i] = Latest.email
    /\ published = 0 /\ changes # <<>> => Head(changes) = Latest.email

WorkersInOrder ==
    \A w \in Workers : job[w].step # "idle" => job[w].event.nr = newest

\* SendGrid is where event k leads.
Mirrors(k) ==
    /\ \A c \in Known : /\ contacts[c].email = told[k].event.email
                        /\ ("marketing" \in contacts[c].lists) = told[k].listed
                        /\ k > 0 => "all" \in contacts[c].lists
    /\ k > 0 /\ told[k].event.email # Absent => Known # {}

\* The newest event given to a worker has not reached SendGrid, but for a refusal.
Halfway ==
    LET m == told[newest].event
        before == told[newest - 1]
    IN  /\ newest > 0 /\ m \in updates
        /\ \A c \in Known :
              /\ contacts[c].email = before.event.email
              /\ \/ ("marketing" \in contacts[c].lists) = before.listed
                 \/ ~m.accepts /\ m.old = before.event.email
                    /\ "marketing" \notin contacts[c].lists
        /\ newest > 1 /\ before.event.email # Absent => Known # {}

\* What a worker has found, and has done, still holds.
JobInOrder(w) ==
    LET m == job[w].event
    IN  /\ job[w].step = "remove" => m.old = told[m.nr - 1].event.email
        /\ job[w].step \in {"search", "put"} /\ ~m.accepts =>
              \A c \in Known : contacts[c].email = m.old => "marketing" \notin contacts[c].lists
        /\ job[w].step = "put" /\ job[w].id = NoId =>
              \A c \in Known : contacts[c].email = m.old => m.old = m.email

\* All of a payment happens at one address.
PaymentInOrder(p) ==
    /\ payment[p].email = row.email
    /\ \A i \in DOMAIN changes : changes[i] = row.email
    /\ \A m \in updates : m.old = row.email /\ m.email = row.email

\* A notification names a contact that exists.  One that is alone has written the
\* flag last, and if it found no contact nobody else has put one on the list.
PaymentKnows(p) ==
    LET r == payment[p]
    IN  /\ r.id # NoId => r.id \in Known
        /\ r.alone => \A q \in Notices \ {p} : ~Paying(q)
        /\ r.alone /\ r.step = "list" => row.premium = r.charge
        /\ Clean /\ r.alone /\ r.id = NoId => \A c \in Known : "premium" \notin contacts[c].lists

PremiumInOrder ==
    /\ \A p \in Notices : Paying(p) => payment[p].alone
    /\ (\A p \in Notices : payment[p].step # "list") =>
          row.premium = (\E c \in Known : "premium" \in contacts[c].lists)

\* The inductive invariant behind the two properties.
MailingInvariant ==
    /\ TypeOK /\ EventsAreTold /\ AddressStays
    /\ \A p \in Notices : PaymentKnows(p)
    /\ \A w \in Workers : JobKnows(w)
    /\ InOrder =>
          /\ \A k \in 1..published : Follows(k)
          /\ RowWillBeTold /\ WorkersInOrder
          /\ \A p \in Notices : Paying(p) => PaymentInOrder(p)
    /\ Clean =>
          /\ Mirrors(newest) \/ Halfway
          /\ \A w \in Workers : job[w].step # "idle" => JobInOrder(w)
          /\ "unpaid" \notin excuses => PremiumInOrder
=============================================================================
