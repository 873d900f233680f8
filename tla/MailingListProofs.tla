-------------------------- MODULE MailingListProofs --------------------------
(***************************************************************************)
(* What is proved of MailingList, for any finite set of addresses, any     *)
(* workers and notifications, and any number of changes and faults.        *)
(***************************************************************************)
EXTENDS MailingList, FiniteSetTheorems, TLAPS

Lists == {"all", "marketing", "premium"}
Contacts == [email : Emails, lists : SUBSET Lists]

\* What TypeOK says of the contacts.
ContactsOK ==
    /\ contacts \in [ContactIds -> {Unused} \cup Contacts]
    /\ \A c, d \in Known : contacts[c].email = contacts[d].email => c = d

-----------------------------------------------------------------------------
(* The log of changes.                                                     *)

LEMMA Appended ==
    ASSUME NEW S, NEW s \in Seq(S), NEW e \in S
    PROVE  /\ Append(s, e) \in Seq(S) /\ Append(s, e) # <<>>
           /\ Len(Append(s, e)) = Len(s) + 1 /\ Len(s) \in Nat
           /\ DOMAIN s = 1..Len(s) /\ DOMAIN Append(s, e) = 1..(Len(s) + 1)
           /\ Append(s, e)[Len(s) + 1] = e
           /\ \A i \in DOMAIN s : Append(s, e)[i] = s[i]
OBVIOUS

LEMMA Tailed ==
    ASSUME NEW S, NEW s \in Seq(S), s # <<>>
    PROVE  /\ Tail(s) \in Seq(S) /\ Head(s) \in S /\ Head(s) = s[1]
           /\ Len(s) \in Nat \ {0} /\ Len(Tail(s)) = Len(s) - 1
           /\ DOMAIN s = 1..Len(s) /\ DOMAIN Tail(s) = 1..(Len(s) - 1)
           /\ \A i \in DOMAIN Tail(s) : Tail(s)[i] = s[i + 1]
OBVIOUS

-----------------------------------------------------------------------------
(* SendGrid.                                                               *)

LEMMA IdsAreNumbers ==
    /\ Cardinality(Emails) \in Nat /\ ContactIds = 1..Cardinality(Emails)
    /\ NoId \notin ContactIds /\ ContactIds # {} /\ IsFiniteSet(ContactIds)
    /\ Cardinality(ContactIds) = Cardinality(Emails)
<1>1. Cardinality(Emails) \in Nat
  BY MailingAssumption, FS_CardinalityType
<1>2. Cardinality(Emails) # 0
  BY MailingAssumption, FS_EmptySet
<1>3. IsFiniteSet(1..Cardinality(Emails)) /\ Cardinality(1..Cardinality(Emails)) = Cardinality(Emails)
  BY <1>1, FS_Interval
<1>4. QED
  BY <1>1, <1>2, <1>3 DEF ContactIds, NoId

\* A contact that is known has an address; the others have none.
LEMMA KnownContacts ==
    ASSUME ContactsOK
    PROVE  /\ Known \subseteq ContactIds /\ NoId \notin Known
           /\ \A c \in Known : /\ contacts[c] \in Contacts
                               /\ contacts[c].email \in Emails
                               /\ contacts[c].lists \in SUBSET Lists
                               /\ contacts[c].email # Absent
           /\ \A c \in ContactIds : /\ c \notin Known => contacts[c] = Unused
                                    /\ c \in Known <=> contacts[c].email # Absent
<1>1. \A c \in ContactIds : contacts[c] = Unused \/ contacts[c] \in Contacts
  BY DEF ContactsOK
<1>2. Unused.email = Absent /\ \A k \in Contacts : k.email \in Emails /\ k.lists \in SUBSET Lists
  BY DEF Unused, Contacts
<1>3. QED
  BY <1>1, <1>2, IdsAreNumbers, MailingAssumption DEF Known

\* The contact that has an address is the one that is found by it.
LEMMA Lookup ==
    ASSUME ContactsOK, NEW e \in Addresses
    PROVE  /\ ContactIdByEmail(e) \in Known \cup {NoId}
           /\ ContactIdByEmail(e) = NoId => \A c \in Known : contacts[c].email # e
           /\ ContactIdByEmail(e) # NoId => contacts[ContactIdByEmail(e)].email = e
<1>1. Named(e) = {c \in Known : contacts[c].email = e}
  BY KnownContacts DEF Named, Known
<1>2. CASE Named(e) = {}
  BY <1>1, <1>2 DEF ContactIdByEmail
<1>3. CASE Named(e) # {}
  <2>1. ContactIdByEmail(e) \in Named(e)
    BY <1>3 DEF ContactIdByEmail
  <2>2. QED
    BY <1>1, <2>1, KnownContacts
<1>4. QED
  BY <1>2, <1>3

\* A new contact always finds a place: there is one for every address, and no two
\* contacts share one.
LEMMA SpareContact ==
    ASSUME ContactsOK, NEW e \in Emails, \A c \in Known : contacts[c].email # e
    PROVE  \E c \in ContactIds : contacts[c] = Unused
<1> SUFFICES ASSUME \A c \in ContactIds : contacts[c] # Unused
             PROVE  FALSE
  OBVIOUS
<1> DEFINE address == [c \in ContactIds |-> contacts[c].email]
           others == Emails \ {e}
<1>1. Known = ContactIds
  BY DEF Known
<1>2. address \in [ContactIds -> others]
  BY <1>1, KnownContacts
<1>3. \A c, d \in ContactIds : address[c] = address[d] => c = d
  BY <1>1 DEF ContactsOK
<1>4. address \in Injection(ContactIds, others)
  BY <1>2, <1>3 DEF Injection, IsInjective
<1>5. IsFiniteSet(others) /\ Cardinality(others) = Cardinality(Emails) - 1
  BY MailingAssumption, FS_RemoveElement
<1>6. Cardinality(ContactIds) <= Cardinality(others)
  BY <1>4, <1>5, FS_Injection
<1>7. QED
  BY <1>5, <1>6, IdsAreNumbers

\* What writing a contact does: the one that has the address is written, else the
\* one that is named, else a new one; the others stay, and no two share an address.
ContactIsWritten(c, email, lists, id) ==
    /\ c \in ContactIds
    /\ Known' = Known \cup {c}
    /\ contacts'[c].email = email
    /\ contacts'[c].lists = lists \cup (IF c \in Known THEN contacts[c].lists ELSE {})
    /\ \A d \in Known \ {c} : contacts'[d] = contacts[d]
    /\ \/ c \in Known /\ contacts[c].email = email
       \/ /\ \A d \in Known : contacts[d].email # email
          /\ c = id \/ (id = NoId /\ c \notin Known)

LEMMA ContactWritten ==
    ASSUME ContactsOK, NEW email \in Emails, NEW lists \in SUBSET Lists,
           NEW id \in ContactIds \cup {NoId}, AddUserToContacts(email, lists, id)
    PROVE  ContactsOK' /\ \E c \in ContactIds : ContactIsWritten(c, email, lists, id)
<1> DEFINE known == ContactIdByEmail(email)
           spare == CHOOSE new \in ContactIds : contacts[new] = Unused
           c == IF known # NoId THEN known ELSE IF id # NoId THEN id ELSE spare
<1>1. contacts' = [contacts EXCEPT ![c] = [email |-> email, lists |-> contacts[c].lists \cup lists]]
  BY DEF AddUserToContacts
<1>2. /\ known \in Known \cup {NoId}
      /\ known = NoId => \A d \in Known : contacts[d].email # email
      /\ known # NoId => contacts[known].email = email
  BY Lookup DEF Addresses
<1>3. known = NoId => spare \in ContactIds /\ contacts[spare] = Unused
  <2>1. known = NoId => \E d \in ContactIds : contacts[d] = Unused
    BY <1>2, SpareContact
  <2>2. QED
    BY <2>1
<1>4. /\ c \in ContactIds
      /\ \/ c \in Known /\ contacts[c].email = email
         \/ /\ \A d \in Known : contacts[d].email # email
            /\ c = id \/ (id = NoId /\ c \notin Known)
  BY <1>2, <1>3, KnownContacts DEF Known
<1> HIDE DEF c
<1>5. contacts[c].lists \in SUBSET Lists /\ (c \notin Known => contacts[c].lists = {})
  BY <1>4, KnownContacts DEF Unused
<1>6. [email |-> email, lists |-> contacts[c].lists \cup lists] \in Contacts
  BY <1>5 DEF Contacts
<1>7. PICK k \in Contacts : /\ k = [email |-> email, lists |-> contacts[c].lists \cup lists]
                            /\ k.email = email /\ k.lists = contacts[c].lists \cup lists
  BY <1>6
<1>8. /\ contacts' \in [ContactIds -> {Unused} \cup Contacts] /\ contacts'[c] = k
      /\ \A d \in ContactIds \ {c} : contacts'[d] = contacts[d]
  BY <1>1, <1>4, <1>7 DEF ContactsOK
<1>9. Known' = Known \cup {c}
  <2>1. k # Unused
    BY <1>7, MailingAssumption DEF Unused
  <2>2. QED
    BY <1>4, <1>8, <2>1 DEF Known
<1>10. \A d \in Known \ {c} : contacts[d].email # email
  BY <1>4 DEF ContactsOK
<1>11. \A d, e \in Known' : contacts'[d].email = contacts'[e].email => d = e
  BY <1>7, <1>8, <1>9, <1>10, KnownContacts DEF ContactsOK
<1>12. ContactsOK'
  BY <1>8, <1>11 DEF ContactsOK
<1>13. ContactIsWritten(c, email, lists, id)
  BY <1>4, <1>5, <1>7, <1>8, <1>9, KnownContacts DEF ContactIsWritten
<1>14. QED
  BY <1>4, <1>12, <1>13

\* What taking a contact off a list does.
ContactIsRemoved(list, id) ==
    /\ Known' = Known
    /\ \A c \in Known : /\ contacts'[c].email = contacts[c].email
                        /\ contacts'[c].lists = IF c = id THEN contacts[c].lists \ {list}
                                                ELSE contacts[c].lists

LEMMA ContactRemoved ==
    ASSUME ContactsOK, NEW list, NEW id, RemoveUserFromList(list, id)
    PROVE  ContactsOK' /\ ContactIsRemoved(list, id)
<1> DEFINE without(k) == [k EXCEPT !.lists = k.lists \ {list}]
<1>1. contacts' = [c \in ContactIds |-> IF c = id THEN without(contacts[c]) ELSE contacts[c]]
  BY DEF RemoveUserFromList
<1>2. \A k \in Contacts : /\ without(k) \in Contacts /\ without(k).email = k.email
                          /\ without(k).lists = k.lists \ {list}
  BY DEF Contacts
<1>3. without(Unused) = Unused
  BY DEF Unused
<1> HIDE DEF without
<1>4. \A c \in ContactIds : contacts'[c] = IF c = id THEN without(contacts[c]) ELSE contacts[c]
  BY <1>1
<1>5. \A k \in Contacts : k # Unused
  BY MailingAssumption DEF Contacts, Unused
<1>6. \A c \in ContactIds : contacts'[c] \in {Unused} \cup Contacts
  BY <1>2, <1>3, <1>4 DEF ContactsOK
<1>7. Known' = Known
  BY <1>2, <1>3, <1>4, <1>5, KnownContacts DEF Known
<1>8. ContactIsRemoved(list, id)
  BY <1>2, <1>4, <1>7, KnownContacts DEF ContactIsRemoved
<1>9. ContactsOK'
  <2>1. contacts' \in [ContactIds -> {Unused} \cup Contacts]
    BY <1>1, <1>6
  <2>2. \A c, d \in Known' : contacts'[c].email = contacts'[d].email => c = d
    BY <1>7, <1>8 DEF ContactsOK, ContactIsRemoved
  <2>3. QED
    BY <2>1, <2>2 DEF ContactsOK
<1>10. QED
  BY <1>8, <1>9

-----------------------------------------------------------------------------
(* Types.                                                                  *)

Rows == [email : Addresses, accepts : BOOLEAN, premium : BOOLEAN]
Jobs == [step : {"idle", "remove", "search", "put"}, event : Events,
         id : ContactIds \cup {NoId}]
Payments == [step : {"idle", "flag", "list"}, charge : BOOLEAN, email : Addresses,
             id : ContactIds \cup {NoId}, alone : BOOLEAN]
Telling == [event : Events, listed : BOOLEAN]
Excuses == {"crossed", "skipped", "refused", "unpaid"}

\* TypeOK, with the sets named.
Typed ==
    /\ row \in Rows /\ changes \in Seq(Addresses) /\ made \in 0..MaxChanges
    /\ published \in Nat /\ told \in [0..published -> Telling]
    /\ updates \in SUBSET Events /\ ContactsOK
    /\ job \in [Workers -> Jobs] /\ payment \in [Notices -> Payments]
    /\ newest \in 0..published /\ faults \in 0..MaxFaults /\ excuses \in SUBSET Excuses

LEMMA Types ==
    TypeOK => Typed /\ MaxChanges \in Nat /\ MaxFaults \in Nat
BY MailingAssumption
   DEF TypeOK, Typed, Rows, Jobs, Payments, Telling, Excuses, ContactsOK, Contacts, Lists

LEMMA NextTypes ==
    Typed' => TypeOK'
BY DEF TypeOK, Typed, Rows, Jobs, Payments, Telling, Excuses, ContactsOK, Contacts, Lists

LEMMA FreeType ==
    /\ Free \in Jobs /\ Free.step = "idle" /\ Free.event = NoEvent /\ NoEvent \in Events
    /\ NoEvent.nr = 0 /\ NoPayment \in Payments /\ NoPayment.step = "idle"
BY MailingAssumption DEF Free, Jobs, NoEvent, Events, Addresses, NoPayment, Payments

\* A worker that starts on a step; the others stay where they are.
LEMMA Starts ==
    ASSUME job \in [Workers -> Jobs], NEW w \in Workers, NEW m \in Events,
           NEW step \in {"idle", "remove", "search", "put"},
           NEW id \in ContactIds \cup {NoId}, Start(w, m, step, id)
    PROVE  /\ job' \in [Workers -> Jobs]
           /\ job'[w].step = step /\ job'[w].event = m /\ job'[w].id = id
           /\ \A v \in Workers \ {w} : job'[v] = job[v]
<1> DEFINE j == [step |-> step, event |-> m, id |-> id]
<1>1. j \in Jobs /\ j.step = step /\ j.event = m /\ j.id = id
  BY DEF Jobs
<1>2. job' = [job EXCEPT ![w] = j]
  BY DEF Start
<1> HIDE DEF j
<1>3. QED
  BY <1>1, <1>2

\* The event that the cdc worker publishes, and what it is worth.
LEMMA Publishes ==
    ASSUME TypeOK, EventsAreTold, OnUserChange
    PROVE  \E m \in Events :
             /\ m.nr = published + 1 /\ m.old = Head(changes)
             /\ m.email = row.email /\ m.accepts = row.accepts
             /\ published' = published + 1 /\ updates' = updates \cup {m}
             /\ told' \in [0..published' -> Telling]
             /\ told'[published'].event = m
             /\ told'[published'].listed = Listed(m, told[published])
             /\ \A k \in 0..published : told'[k] = told[k]
             /\ Excuse("skipped", Latest.email \notin {m.old, m.email})
<1> DEFINE m == [nr |-> published + 1, old |-> Head(changes),
                 email |-> row.email, accepts |-> row.accepts]
           t == [event |-> m, listed |-> Listed(m, told[published])]
<1>1. /\ row \in Rows /\ changes \in Seq(Addresses) /\ changes # <<>> /\ made \in 0..MaxChanges
      /\ published \in Nat /\ told \in [0..published -> Telling] /\ faults \in 0..MaxFaults
      /\ MaxChanges \in Nat /\ MaxFaults \in Nat
  BY Types DEF Typed, OnUserChange
<1>2. Head(changes) \in Addresses /\ row.email \in Addresses /\ row.accepts \in BOOLEAN
  BY <1>1 DEF Rows
<1>3. published + 1 \in Nat
  BY <1>1
<1>5. m \in Events /\ m.nr = published + 1
  BY <1>2, <1>3 DEF Events
<1>6. Listed(m, told[published]) \in BOOLEAN
  BY DEF Listed
<1>7. t \in Telling /\ t.event = m /\ t.listed = Listed(m, told[published])
  BY <1>5, <1>6 DEF Telling
<1>8. /\ published' = published + 1 /\ updates' = updates \cup {m}
      /\ told' = [k \in 0..m.nr |-> IF k < m.nr THEN told[k] ELSE t]
      /\ Excuse("skipped", Latest.email \notin {m.old, m.email})
  BY DEF OnUserChange
<1>9. /\ m.old = Head(changes) /\ m.email = row.email /\ m.accepts = row.accepts
  OBVIOUS
<1> HIDE DEF m, t
<1>10. told' = [k \in 0..(published + 1) |-> IF k < published + 1 THEN told[k] ELSE t]
  BY <1>5, <1>8
<1>11. /\ told' \in [0..published' -> Telling]
       /\ told'[published'] = t
       /\ \A k \in 0..published : told'[k] = told[k]
  <2>1. \A k \in 0..(published + 1) : k < published + 1 => k \in 0..published
    BY <1>1
  <2>2. \A k \in 0..published : k \in 0..(published + 1) /\ k < published + 1
    BY <1>1
  <2>3. published + 1 \in 0..(published + 1) /\ ~(published + 1 < published + 1)
    BY <1>1
  <2>4. \A k \in 0..(published + 1) :
          (IF k < published + 1 THEN told[k] ELSE t) \in Telling
    BY <1>1, <1>7, <2>1
  <2>5. QED
    BY <1>8, <1>10, <2>2, <2>3, <2>4
<1>12. QED
  BY <1>5, <1>7, <1>8, <1>9, <1>11

LEMMA ExcuseType ==
    ASSUME excuses \in SUBSET Excuses, NEW excuse \in Excuses, NEW condition,
           Excuse(excuse, condition)
    PROVE  excuses' \in SUBSET Excuses
BY DEF Excuse

LEMMA RowType ==
    ASSUME row \in Rows, NEW email \in Addresses, NEW accepts \in BOOLEAN, NEW premium \in BOOLEAN
    PROVE  /\ [row EXCEPT !.email = email, !.accepts = accepts] \in Rows
           /\ [row EXCEPT !.email = email, !.accepts = accepts].email = email
           /\ [row EXCEPT !.email = email, !.accepts = accepts].accepts = accepts
           /\ [row EXCEPT !.email = email, !.accepts = accepts].premium = row.premium
           /\ [row EXCEPT !.premium = premium] \in Rows
           /\ [row EXCEPT !.premium = premium].email = row.email
           /\ [row EXCEPT !.premium = premium].accepts = row.accepts
           /\ [row EXCEPT !.premium = premium].premium = premium
BY DEF Rows

\* A notification arrives; the others, if there are any, are no longer alone.
LEMMA NotifyMoves ==
    ASSUME Typed, NEW p \in Notices, NEW charge \in BOOLEAN, Notify(p, charge)
    PROVE  /\ payment' \in [Notices -> Payments]
           /\ payment'[p].step = "flag" /\ payment'[p].email = row.email
           /\ payment'[p].id = Payer /\ ~Paying(p)
           /\ payment'[p].alone => \A q \in Notices : ~Paying(q)
           /\ \A q \in Notices \ {p} :
                 /\ payment'[q].step = payment[q].step /\ payment'[q].email = payment[q].email
                 /\ payment'[q].id = payment[q].id /\ ~payment'[q].alone
           /\ excuses \subseteq excuses' /\ excuses' \in SUBSET Excuses
           /\ AddressMoves => "crossed" \in excuses'
           /\ (\E q \in Notices : Paying(q)) => "unpaid" \in excuses'
           /\ ~(\E q \in Notices : Paying(q)) => payment'[p].alone
<1> DEFINE overlaps == \E q \in Notices : Paying(q)
           new == [step |-> "flag", charge |-> charge, email |-> row.email,
                   id |-> Payer, alone |-> ~overlaps]
<1>1. row.email \in Addresses /\ ContactsOK /\ excuses \in SUBSET Excuses
      /\ payment \in [Notices -> Payments]
  BY DEF Typed, Rows
<1>2. Payer \in ContactIds \cup {NoId}
  BY <1>1, Lookup, KnownContacts DEF Payer
<1>3. overlaps \in BOOLEAN
  OBVIOUS
<1>4. /\ payment' = [q \in Notices |-> IF q = p THEN new
                                        ELSE [payment[q] EXCEPT !.alone = FALSE]]
      /\ excuses' = excuses \cup (IF AddressMoves THEN {"crossed"} ELSE {})
                            \cup (IF overlaps THEN {"unpaid"} ELSE {})
      /\ ~Paying(p)
  BY DEF Notify
<1> HIDE DEF overlaps
<1>5. /\ new \in Payments /\ new.step = "flag" /\ new.email = row.email
      /\ new.id = Payer /\ new.alone = ~overlaps
  BY <1>1, <1>2, <1>3 DEF Payments
<1> HIDE DEF new
<1>6. \A r \in Payments :
        /\ [r EXCEPT !.alone = FALSE] \in Payments
        /\ [r EXCEPT !.alone = FALSE].step = r.step /\ [r EXCEPT !.alone = FALSE].email = r.email
        /\ [r EXCEPT !.alone = FALSE].id = r.id /\ ~[r EXCEPT !.alone = FALSE].alone
  BY DEF Payments
<1>7. /\ payment'[p] = new
      /\ \A q \in Notices \ {p} : payment'[q] = [payment[q] EXCEPT !.alone = FALSE]
  BY <1>4
<1>8. payment' \in [Notices -> Payments]
  <2>1. \A q \in Notices : payment[q] \in Payments
    BY <1>1
  <2>2. \A q \in Notices : [payment[q] EXCEPT !.alone = FALSE] \in Payments
    BY <1>6, <2>1
  <2>3. QED
    BY <1>4, <1>5, <2>2
<1>9. \A q \in Notices \ {p} :
         /\ payment'[q].step = payment[q].step /\ payment'[q].email = payment[q].email
         /\ payment'[q].id = payment[q].id /\ ~payment'[q].alone
  BY <1>1, <1>6, <1>7
<1>10. excuses \subseteq excuses' /\ excuses' \in SUBSET Excuses
  BY <1>1, <1>4 DEF Excuses
<1>11. QED
  BY <1>4, <1>5, <1>7, <1>8, <1>9, <1>10 DEF overlaps

\* A notification goes on to the list.
LEMMA FlagMoves ==
    ASSUME Typed, NEW p \in Notices, WritePremium(p)
    PROVE  /\ payment' \in [Notices -> Payments] /\ payment[p].step = "flag"
           /\ payment'[p].step = "list" /\ payment'[p].email = payment[p].email
           /\ payment'[p].id = payment[p].id /\ payment'[p].charge = payment[p].charge
           /\ payment'[p].alone = payment[p].alone
           /\ \A q \in Notices \ {p} : payment'[q] = payment[q]
           /\ payment[p].charge \in BOOLEAN
<1>1. payment \in [Notices -> Payments] /\ payment[p] \in Payments
  BY DEF Typed
<1>2. /\ payment' = [payment EXCEPT ![p] = [payment[p] EXCEPT !.step = "list"]]
      /\ payment[p].step = "flag"
  BY DEF WritePremium
<1>3. PICK new \in Payments : new = [payment[p] EXCEPT !.step = "list"]
  BY <1>1 DEF Payments
<1>4. /\ new.step = "list" /\ new.email = payment[p].email /\ new.id = payment[p].id
      /\ new.charge = payment[p].charge /\ new.alone = payment[p].alone
      /\ payment[p].charge \in BOOLEAN
  BY <1>1, <1>3 DEF Payments
<1>5. payment' = [payment EXCEPT ![p] = new]
  BY <1>2, <1>3
<1>6. QED
  BY <1>1, <1>2, <1>4, <1>5

\* A notification is over.
LEMMA PaymentEnds ==
    ASSUME Typed, NEW p \in Notices, EditPremiumList(p) \/ IpnFails(p)
    PROVE  /\ payment' \in [Notices -> Payments] /\ payment'[p] = NoPayment
           /\ ~Paying(p)' /\ Paying(p)
           /\ \A q \in Notices \ {p} : payment'[q] = payment[q]
<1>1. payment \in [Notices -> Payments]
  BY DEF Typed
<1>2. payment' = [payment EXCEPT ![p] = NoPayment] /\ Paying(p)
  BY DEF EditPremiumList, IpnFails, Paying
<1>3. QED
  BY <1>1, <1>2, FreeType DEF Paying

\* A notification at the list.
LEMMA ListCalls ==
    ASSUME Typed, NEW p \in Notices, EditPremiumList(p)
    PROVE  /\ payment[p] \in Payments /\ payment[p].charge \in BOOLEAN
           /\ payment[p].id \in ContactIds \cup {NoId} /\ payment[p].step = "list"
           /\ payment[p].charge =>
                 /\ payment[p].email \in Emails
                 /\ AddUserToContacts(payment[p].email, {"premium"}, payment[p].id)
           /\ ~payment[p].charge => RemoveUserFromList("premium", payment[p].id)
BY DEF Typed, Payments, EditPremiumList, Addresses

\* Every step keeps the types, and that no two contacts share an address.
LEMMA TypePreserved ==
    ASSUME TypeOK, EventsAreTold, \A w \in Workers : JobKnows(w), [Next]_vars
    PROVE  TypeOK'
<1>0. /\ row \in Rows /\ changes \in Seq(Addresses) /\ made \in 0..MaxChanges
      /\ published \in Nat /\ told \in [0..published -> Telling]
      /\ updates \in SUBSET Events /\ ContactsOK
      /\ job \in [Workers -> Jobs] /\ payment \in [Notices -> Payments]
      /\ newest \in 0..published /\ faults \in 0..MaxFaults /\ excuses \in SUBSET Excuses
      /\ MaxChanges \in Nat /\ MaxFaults \in Nat
  BY Types DEF Typed
<1>f. Fault => faults' \in 0..MaxFaults
  BY <1>0 DEF Fault
<1>j. ASSUME NEW w \in Workers
      PROVE  /\ job[w].event \in Events /\ job[w].id \in ContactIds \cup {NoId}
             /\ job[w].event.old \in Addresses
  BY <1>0 DEF Jobs, Events
<1>1. ASSUME NEW email \in Emails, NEW accepts \in BOOLEAN, Save(email, accepts)
      PROVE  TypeOK'
  <2>1. row' \in Rows
    BY <1>0, <1>1, RowType DEF Save, ChangeRow, Addresses
  <2>2. changes' \in Seq(Addresses) /\ made' \in 0..MaxChanges
    BY <1>0, <1>1 DEF Save, ChangeRow, Rows
  <2>3. excuses' \in SUBSET Excuses
    BY <1>0, <1>1, ExcuseType DEF Save, Excuses
  <2>4. UNCHANGED <<published, told, updates, contacts, job, payment, newest, faults>>
    BY <1>1 DEF Save
  <2>5. ContactsOK'
    BY <1>0, <2>4 DEF ContactsOK, Known
  <2>6. QED
    BY <1>0, <2>1, <2>2, <2>3, <2>4, <2>5, NextTypes DEF Typed
<1>2. ASSUME OnUserChange
      PROVE  TypeOK'
  <2>1. PICK m \in Events :
          /\ published' = published + 1 /\ updates' = updates \cup {m}
          /\ told' \in [0..published' -> Telling]
          /\ Excuse("skipped", Latest.email \notin {m.old, m.email})
    BY <1>2, Publishes
  <2>2. changes' \in Seq(Addresses) /\ faults' \in 0..MaxFaults
    <3>1. /\ changes # <<>>
          /\ \/ changes' = Tail(changes) /\ UNCHANGED faults
             \/ UNCHANGED changes /\ Fault
      BY <1>2 DEF OnUserChange
    <3>2. Tail(changes) \in Seq(Addresses)
      BY <1>0, <3>1, Tailed
    <3>3. changes' \in Seq(Addresses)
      BY <1>0, <3>1, <3>2
    <3>4. faults' \in 0..MaxFaults
      BY <1>0, <1>f, <3>1
    <3>5. QED
      BY <3>3, <3>4
  <2>3. excuses' \in SUBSET Excuses
    BY <1>0, <2>1, ExcuseType DEF Excuses
  <2>4. UNCHANGED <<row, made, contacts, job, payment, newest>>
    BY <1>2 DEF OnUserChange
  <2>5. ContactsOK'
    BY <1>0, <2>4 DEF ContactsOK, Known
  <2>6. newest' \in 0..published' /\ published' \in Nat
    BY <1>0, <2>1, <2>4
  <2>7. QED
    BY <1>0, <2>1, <2>2, <2>3, <2>4, <2>5, <2>6, NextTypes DEF Typed
<1>3. ASSUME NEW w \in Workers, NEW m \in updates, Deliver(w, m)
      PROVE  TypeOK'
  <2>1. m \in Events /\ m.nr \in 1..published /\ m.old \in Addresses
    BY <1>0 DEF EventsAreTold, Events
  <2>2. FindContact(m) \in ContactIds \cup {NoId}
    BY <1>0, <2>1, Lookup, KnownContacts DEF FindContact
  <2>3. job' \in [Workers -> Jobs] /\ updates' \in SUBSET Events
    BY <1>0, <1>3, <2>1, <2>2, Starts DEF Deliver
  <2>4. newest' \in 0..published
    BY <1>0, <1>3, <2>1 DEF Deliver
  <2>5. excuses' \in SUBSET Excuses
    BY <1>0, <1>3, ExcuseType DEF Deliver, Excuses
  <2>6. UNCHANGED <<stream, contacts, payment, faults>>
    BY <1>3 DEF Deliver
  <2>7. ContactsOK'
    BY <1>0, <2>6 DEF ContactsOK, Known
  <2>8. QED
    BY <1>0, <2>3, <2>4, <2>5, <2>6, <2>7, NextTypes DEF Typed, stream
<1>4. ASSUME NEW w \in Workers, RemoveFromMarketing(w)
      PROVE  TypeOK'
  <2>1. ContactsOK'
    BY <1>0, <1>4, ContactRemoved DEF RemoveFromMarketing
  <2>2. job' \in [Workers -> Jobs]
    BY <1>0, <1>4, <1>j, Starts DEF RemoveFromMarketing
  <2>3. QED
    BY <1>0, <1>4, <2>1, <2>2, NextTypes DEF Typed, RemoveFromMarketing, stream, history
<1>5. ASSUME NEW w \in Workers, UpdateUserContact(w)
      PROVE  TypeOK'
  <2>1. ContactIdByEmail(job[w].event.old) \in ContactIds \cup {NoId}
    BY <1>0, <1>j, Lookup, KnownContacts
  <2>2. job' \in [Workers -> Jobs]
    BY <1>0, <1>5, <1>j, <2>1, Starts DEF UpdateUserContact
  <2>3. ContactsOK'
    BY <1>0, <1>5 DEF UpdateUserContact, ContactsOK, Known
  <2>4. QED
    BY <1>0, <1>5, <2>2, <2>3, NextTypes DEF Typed, UpdateUserContact, stream, history
<1>6. ASSUME NEW w \in Workers, PutContact(w)
      PROVE  TypeOK'
  <2>1. job[w].event.email \in Emails
    BY <1>0, <1>6, <1>j DEF PutContact, JobKnows, HasEmail, Events, Addresses
  <2>2. ContactsOK'
    BY <1>0, <1>6, <1>j, <2>1, ContactWritten DEF PutContact, Lists
  <2>3. job' \in [Workers -> Jobs]
    BY <1>0, <1>6, FreeType DEF PutContact
  <2>4. updates' \in SUBSET Events /\ faults' \in 0..MaxFaults
    BY <1>0, <1>6, <1>f DEF PutContact
  <2>5. QED
    BY <1>0, <1>6, <2>2, <2>3, <2>4, NextTypes DEF Typed, PutContact, stream, history
<1>7. ASSUME NEW w \in Workers, Fail(w)
      PROVE  TypeOK'
  <2>1. job' \in [Workers -> Jobs] /\ faults' \in 0..MaxFaults
    BY <1>0, <1>7, <1>f, FreeType DEF Fail
  <2>2. updates' \in SUBSET Events /\ excuses' \in SUBSET Excuses
    BY <1>0, <1>7 DEF Fail, Excuses
  <2>3. ContactsOK'
    BY <1>0, <1>7 DEF Fail, ContactsOK, Known
  <2>4. QED
    BY <1>0, <1>7, <2>1, <2>2, <2>3, NextTypes DEF Typed, Fail, stream
<1>8. ASSUME NEW p \in Notices, NEW charge \in BOOLEAN, Notify(p, charge)
      PROVE  TypeOK'
  <2>1. payment' \in [Notices -> Payments] /\ excuses' \in SUBSET Excuses
    BY <1>8, NotifyMoves, Types
  <2>2. made' \in 0..MaxChanges
    BY <1>0, <1>8 DEF Notify
  <2>3. ContactsOK'
    BY <1>0, <1>8 DEF Notify, ContactsOK, Known
  <2>4. QED
    BY <1>0, <1>8, <2>1, <2>2, <2>3, NextTypes DEF Typed, Notify
<1>9. ASSUME NEW p \in Notices, WritePremium(p)
      PROVE  TypeOK'
  <2>1. payment' \in [Notices -> Payments] /\ payment[p].charge \in BOOLEAN
    BY <1>9, FlagMoves, Types
  <2>2. row' \in Rows /\ changes' \in Seq(Addresses)
    <3>1. /\ row' = [row EXCEPT !.premium = payment[p].charge]
          /\ changes' = Append(changes, row.email) /\ row.email \in Addresses
      BY <1>0, <1>9 DEF WritePremium, ChangeRow, Rows
    <3>2. row' \in Rows
      BY <1>0, <2>1, <3>1 DEF Rows
    <3>3. QED
      BY <1>0, <3>1, <3>2
  <2>3. ContactsOK'
    BY <1>0, <1>9 DEF WritePremium, ContactsOK, Known
  <2>4. QED
    BY <1>0, <1>9, <2>1, <2>2, <2>3, NextTypes DEF Typed, WritePremium, history
<1>10. ASSUME NEW p \in Notices, EditPremiumList(p)
       PROVE  TypeOK'
  <2>1. ContactsOK'
    <3>1. CASE payment[p].charge
      BY <1>0, <1>10, <3>1, ListCalls, Types, ContactWritten DEF Lists
    <3>2. CASE ~payment[p].charge
      BY <1>0, <1>10, <3>2, ListCalls, Types, ContactRemoved
    <3>3. QED
      BY <3>1, <3>2
  <2>2. excuses' \in SUBSET Excuses
    BY <1>0, <1>10 DEF EditPremiumList
  <2>3. payment' \in [Notices -> Payments]
    BY <1>10, PaymentEnds, Types
  <2>4. QED
    BY <1>0, <1>10, <2>1, <2>2, <2>3, NextTypes DEF Typed, EditPremiumList, stream
<1>11. ASSUME NEW p \in Notices, IpnFails(p)
       PROVE  TypeOK'
  <2>1. faults' \in 0..MaxFaults
    BY <1>0, <1>11, <1>f DEF IpnFails
  <2>2. excuses' \in SUBSET Excuses
    BY <1>0, <1>11, ExcuseType DEF IpnFails, Excuses
  <2>3. ContactsOK'
    BY <1>0, <1>11 DEF IpnFails, ContactsOK, Known
  <2>4. payment' \in [Notices -> Payments]
    BY <1>11, PaymentEnds, Types
  <2>5. QED
    BY <1>0, <1>11, <2>1, <2>2, <2>3, <2>4, NextTypes DEF Typed, IpnFails, stream
<1>12. ASSUME UNCHANGED vars
       PROVE  TypeOK'
  <2>1. ContactsOK'
    BY <1>0, <1>12 DEF vars, ContactsOK, Known
  <2>2. QED
    BY <1>0, <1>12, <2>1, NextTypes DEF Typed, vars, stream, history
<1>13. QED
  BY <1>1, <1>2, <1>3, <1>4, <1>5, <1>6, <1>7, <1>8, <1>9, <1>10, <1>11, <1>12 DEF Next

-----------------------------------------------------------------------------
(* What only grows.                                                        *)

\* No contact is lost, no event is taken back, and an exception stays.
Grows ==
    /\ newest \in Nat /\ newest' \in Nat /\ newest <= newest' /\ newest <= published
    /\ published \in Nat /\ published <= published'
    /\ \A k \in 0..published : told'[k] = told[k]
    /\ Known \subseteq Known'
    /\ InOrder' => InOrder

\* A step that leaves the events published, and the contacts, as they are.
LEMMA GrowsByNothing ==
    ASSUME Typed, UNCHANGED <<published, told, contacts>>,
           newest' \in Nat, newest <= newest', InOrder' => InOrder
    PROVE  Grows
<1>1. Known' = Known
  BY DEF Known
<1>2. newest \in Nat /\ newest <= published /\ published \in Nat
  BY DEF Typed
<1>3. QED
  BY <1>1, <1>2 DEF Grows

LEMMA ExcusesStay ==
    ASSUME NEW excuse, NEW condition, Excuse(excuse, condition)
    PROVE  /\ InOrder' => InOrder
           /\ InOrder' /\ excuse # "unpaid" => ~condition
BY DEF Excuse, InOrder

LEMMA EverythingGrows ==
    ASSUME TypeOK, EventsAreTold, \A w \in Workers : JobKnows(w), [Next]_vars
    PROVE  Grows
<1>0. Typed
  BY Types
<1>n. newest \in Nat /\ published \in Nat /\ newest <= published
  BY <1>0 DEF Typed
<1>1. ASSUME NEW email \in Emails, NEW accepts \in BOOLEAN, Save(email, accepts)
      PROVE  Grows
  <2>1. InOrder' => InOrder
    BY <1>1, ExcusesStay DEF Save
  <2>2. QED
    BY <1>0, <1>n, <1>1, <2>1, GrowsByNothing DEF Save
<1>2. ASSUME OnUserChange
      PROVE  Grows
  <2>1. PICK m \in Events :
          /\ published' = published + 1
          /\ \A k \in 0..published : told'[k] = told[k]
          /\ Excuse("skipped", Latest.email \notin {m.old, m.email})
    BY <1>2, Publishes
  <2>2. UNCHANGED <<contacts, newest>>
    BY <1>2 DEF OnUserChange
  <2>3. InOrder' => InOrder
    BY <2>1, ExcusesStay
  <2>4. Known' = Known
    BY <2>2 DEF Known
  <2>5. QED
    BY <1>n, <2>1, <2>2, <2>3, <2>4 DEF Grows
<1>3. ASSUME NEW w \in Workers, NEW m \in updates, Deliver(w, m)
      PROVE  Grows
  <2>1. InOrder' => InOrder
    BY <1>3, ExcusesStay DEF Deliver
  <2>2. m.nr \in Nat
    BY <1>n DEF EventsAreTold
  <2>3. newest' \in Nat /\ newest <= newest'
    BY <1>3, <1>n, <2>2 DEF Deliver
  <2>4. QED
    BY <1>0, <1>3, <2>1, <2>3, GrowsByNothing DEF Deliver, stream
<1>4. ASSUME NEW w \in Workers, RemoveFromMarketing(w)
      PROVE  Grows
  <2>1. Known' = Known
    BY <1>0, <1>4, ContactRemoved DEF RemoveFromMarketing, ContactIsRemoved, Typed
  <2>2. QED
    BY <1>n, <1>4, <2>1 DEF RemoveFromMarketing, stream, history, Grows, InOrder
<1>5. ASSUME NEW w \in Workers, UpdateUserContact(w)
      PROVE  Grows
  BY <1>0, <1>n, <1>5, GrowsByNothing DEF UpdateUserContact, stream, history, InOrder
<1>6. ASSUME NEW w \in Workers, PutContact(w)
      PROVE  Grows
  <2>1. /\ job[w].event.email \in Emails /\ job[w].id \in ContactIds \cup {NoId}
    BY <1>0, <1>6 DEF Typed, Jobs, PutContact, JobKnows, HasEmail, Events, Addresses
  <2> DEFINE m == job[w].event
             lists == {"all"} \cup IF m.accepts THEN {"marketing"} ELSE {}
  <2>a. lists \in SUBSET Lists /\ ContactsOK
    BY <1>0 DEF Typed, Lists
  <2>b. AddUserToContacts(m.email, lists, job[w].id)
    BY <1>6 DEF PutContact
  <2>c. m.email \in Emails
    BY <2>1
  <2> HIDE DEF m, lists
  <2>d. \E c \in ContactIds : ContactIsWritten(c, m.email, lists, job[w].id)
    BY <2>1, <2>a, <2>b, <2>c, ContactWritten
  <2>2. Known \subseteq Known'
    BY <2>d DEF ContactIsWritten
  <2>3. QED
    BY <1>n, <1>6, <2>2 DEF PutContact, stream, history, Grows, InOrder
<1>7. ASSUME NEW w \in Workers, Fail(w)
      PROVE  Grows
  <2>1. InOrder' => InOrder
    BY <1>7 DEF Fail, InOrder
  <2>2. QED
    BY <1>0, <1>n, <1>7, <2>1, GrowsByNothing DEF Fail, stream
<1>8. ASSUME NEW p \in Notices, NEW charge \in BOOLEAN, Notify(p, charge)
      PROVE  Grows
  <2>1. InOrder' => InOrder
    BY <1>0, <1>8, NotifyMoves DEF InOrder
  <2>2. QED
    BY <1>0, <1>n, <1>8, <2>1, GrowsByNothing DEF Notify
<1>9. ASSUME NEW p \in Notices, WritePremium(p)
      PROVE  Grows
  BY <1>0, <1>n, <1>9, GrowsByNothing DEF WritePremium, history, InOrder
<1>10. ASSUME NEW p \in Notices, EditPremiumList(p)
       PROVE  Grows
  <2>1. Known \subseteq Known'
    <3>1. CASE payment[p].charge
      BY <1>0, <1>10, <3>1, ListCalls, ContactWritten DEF Lists, ContactIsWritten, Typed
    <3>2. CASE ~payment[p].charge
      BY <1>0, <1>10, <3>2, ListCalls, ContactRemoved DEF ContactIsRemoved, Typed
    <3>3. QED
      BY <3>1, <3>2
  <2>2. InOrder' => InOrder
    BY <1>10 DEF EditPremiumList, InOrder
  <2>3. QED
    BY <1>n, <1>10, <2>1, <2>2 DEF EditPremiumList, stream, Grows
<1>11. ASSUME NEW p \in Notices, IpnFails(p)
       PROVE  Grows
  <2>1. InOrder' => InOrder
    BY <1>11, ExcusesStay DEF IpnFails
  <2>2. QED
    BY <1>0, <1>n, <1>11, <2>1, GrowsByNothing DEF IpnFails, stream
<1>12. ASSUME UNCHANGED vars
       PROVE  Grows
  BY <1>0, <1>n, <1>12, GrowsByNothing DEF vars, stream, history, InOrder
<1>13. QED
  BY <1>1, <1>2, <1>3, <1>4, <1>5, <1>6, <1>7, <1>8, <1>9, <1>10, <1>11, <1>12 DEF Next

-----------------------------------------------------------------------------
(* The events.                                                             *)

LEMMA Above ==
    ASSUME NEW low \in Nat, NEW high \in Nat, low <= high, NEW top \in Nat,
           NEW k \in (high + 1)..top
    PROVE  k \in (low + 1)..top /\ k \in 0..top /\ ~(k <= high)
OBVIOUS

\* Nothing is published, and only events given to a worker are taken away.
LEMMA EventsKept ==
    ASSUME Typed, EventsAreTold, AddressStays, UNCHANGED <<row, changes, published, told>>,
           newest' \in Nat, newest <= newest', updates' \subseteq updates,
           \A m \in updates \ updates' : m.nr <= newest'
    PROVE  EventsAreTold' /\ AddressStays'
<1>1. /\ UNCHANGED <<row, changes, published, told>>
      /\ published \in Nat /\ newest \in Nat
  BY DEF Typed
<1>3. \A k \in (newest' + 1)..published : told[k].event \in updates'
  <2> TAKE k \in (newest' + 1)..published
  <2>1. k \in (newest + 1)..published /\ k \in 0..published /\ ~(k <= newest')
    BY <1>1, Above
  <2>2. told[k].event \in updates /\ told[k].event.nr = k
    BY <2>1 DEF EventsAreTold
  <2>3. QED
    BY <2>1, <2>2
<1>4. EventsAreTold'
  BY <1>1, <1>3 DEF EventsAreTold, Listed
<1>5. AddressStays'
  BY <1>1 DEF AddressStays, Latest
<1>6. QED
  BY <1>4, <1>5

\* The row changes; the event is published later.
LEMMA EventsOfChange ==
    ASSUME Typed, EventsAreTold, AddressStays, NEW new \in Rows, ChangeRow(new),
           row.email = Absent \/ new.email # Absent,
           UNCHANGED <<published, told, updates, newest>>
    PROVE  EventsAreTold' /\ AddressStays'
<1>1. /\ changes' = Append(changes, row.email) /\ row' = new
      /\ row.email \in Addresses /\ changes \in Seq(Addresses)
  BY DEF ChangeRow, Typed, Rows
<1>2. /\ Len(changes') = Len(changes) + 1 /\ Len(changes) \in Nat
      /\ DOMAIN changes = 1..Len(changes) /\ DOMAIN changes' = 1..(Len(changes) + 1)
      /\ changes'[Len(changes) + 1] = row.email
      /\ \A i \in DOMAIN changes : changes'[i] = changes[i]
  BY <1>1, Appended
<1>4. EventsAreTold'
  BY DEF EventsAreTold, Listed
<1>5. AddressStays'
  <2> SUFFICES ASSUME row'.email = Absent
               PROVE  Latest.email = Absent /\ \A i \in DOMAIN changes' : changes'[i] = Absent
    BY DEF AddressStays, Latest
  <2>1. row.email = Absent
    BY <1>1
  <2>2. Latest.email = Absent /\ \A i \in DOMAIN changes : changes[i] = Absent
    BY <2>1 DEF AddressStays
  <2>3. \A i \in DOMAIN changes' : i \in DOMAIN changes \/ i = Len(changes) + 1
    BY <1>2
  <2>4. QED
    BY <1>2, <2>1, <2>2, <2>3
<1>6. QED
  BY <1>4, <1>5

LEMMA EventsOfPublished ==
    ASSUME TypeOK, EventsAreTold, AddressStays, OnUserChange
    PROVE  EventsAreTold' /\ AddressStays'
<1>0. Typed
  BY Types
<1>1. PICK m \in Events :
        /\ m.nr = published + 1 /\ m.old = Head(changes)
        /\ m.email = row.email /\ m.accepts = row.accepts
        /\ published' = published + 1 /\ updates' = updates \cup {m}
        /\ told'[published'].event = m
        /\ told'[published'].listed = Listed(m, told[published])
        /\ \A k \in 0..published : told'[k] = told[k]
  BY Publishes
<1>2. /\ UNCHANGED <<row, made, job, payment, newest>> /\ changes # <<>>
      /\ \/ changes' = Tail(changes) /\ UNCHANGED faults
         \/ UNCHANGED changes /\ faults' = faults + 1
  BY DEF OnUserChange, Fault
<1>3. /\ Len(changes) \in Nat \ {0} /\ Len(Tail(changes)) = Len(changes) - 1
      /\ DOMAIN changes = 1..Len(changes) /\ DOMAIN Tail(changes) = 1..(Len(changes) - 1)
      /\ \A i \in DOMAIN Tail(changes) : Tail(changes)[i] = changes[i + 1]
      /\ published \in Nat /\ newest \in Nat
  BY <1>0, <1>2, Tailed DEF Typed
<1>5. \A k \in 0..published' : k \in 0..published \/ k = published'
  BY <1>1, <1>3
<1>6. /\ ~told'[0].listed
      /\ \A k \in 0..published' : told'[k].event.nr = k
  <2>1. 0 \in 0..published /\ told'[0] = told[0] /\ ~told[0].listed
    BY <1>1, <1>3 DEF EventsAreTold
  <2>2. ASSUME NEW k \in 0..published'
        PROVE  told'[k].event.nr = k
    <3>1. CASE k \in 0..published
      <4>1. told'[k] = told[k]
        BY <1>1, <3>1
      <4>2. QED
        BY <3>1, <4>1 DEF EventsAreTold
    <3>2. CASE k = published'
      BY <1>1, <3>2
    <3>3. QED
      BY <1>5, <3>1, <3>2
  <2>3. QED
    BY <2>1, <2>2
<1>7. ASSUME NEW k \in 1..published'
      PROVE  /\ told'[k].listed = Listed(told'[k].event, told'[k - 1])
             /\ told'[k].event.email = Absent => told'[k - 1].event.email = Absent
  <2>1. k - 1 \in 0..published /\ told'[k - 1] = told[k - 1]
    BY <1>1, <1>3
  <2>2. CASE k = published'
    BY <1>1, <1>3, <2>1, <2>2 DEF AddressStays, Latest
  <2>3. CASE k # published'
    <3>1. k \in 1..published /\ told'[k] = told[k]
      BY <1>1, <1>3, <2>3
    <3>2. QED
      BY <2>1, <3>1 DEF EventsAreTold
  <2>4. QED
    BY <2>2, <2>3
<1>8. \A n \in updates' : n.nr \in 1..published' /\ n = told'[n.nr].event
  <2> TAKE n \in updates'
  <2>1. CASE n = m
    BY <1>1, <1>3, <2>1
  <2>2. CASE n \in updates
    <3>1. n.nr \in 1..published /\ n = told[n.nr].event
      BY <2>2 DEF EventsAreTold
    <3>2. QED
      BY <1>1, <1>3, <3>1
  <2>3. QED
    BY <1>1, <2>1, <2>2
<1>9. \A k \in (newest' + 1)..published' : told'[k].event \in updates'
  <2> TAKE k \in (newest' + 1)..published'
  <2>1. CASE k = published'
    BY <1>1, <2>1
  <2>2. CASE k # published'
    <3>1. /\ newest' = newest /\ published' = published + 1
          /\ newest \in Nat /\ published \in Nat
      BY <1>1, <1>2, <1>3
    <3>2. k \in (newest + 1)..published /\ k \in 0..published
      BY <2>2, <3>1
    <3>3. QED
      BY <1>1, <3>2 DEF EventsAreTold
  <2>3. QED
    BY <2>1, <2>2
<1>10. EventsAreTold'
  BY <1>6, <1>7, <1>8, <1>9 DEF EventsAreTold, Listed
<1>11. AddressStays'
  <2>1. Latest'.email = row.email
    BY <1>1 DEF Latest
  <2>2. \A i \in DOMAIN changes' : \E j \in DOMAIN changes : changes'[i] = changes[j]
    <3>1. CASE changes' = changes
      BY <3>1
    <3>2. CASE changes' = Tail(changes)
      <4>1. ASSUME NEW i \in DOMAIN Tail(changes)
            PROVE  i + 1 \in DOMAIN changes /\ Tail(changes)[i] = changes[i + 1]
        BY <1>3
      <4>2. QED
        BY <3>2, <4>1
    <3>3. QED
      BY <1>2, <3>1, <3>2
  <2>3. QED
    BY <1>2, <2>1, <2>2 DEF AddressStays
<1>12. QED
  BY <1>10, <1>11

\* Every step keeps the record of the events.
LEMMA EventsPreserved ==
    ASSUME TypeOK, EventsAreTold, AddressStays, \A w \in Workers : JobKnows(w), [Next]_vars
    PROVE  EventsAreTold' /\ AddressStays'
<1>0. Typed /\ newest \in Nat /\ published \in Nat
  BY Types DEF Typed
<1>1. ASSUME NEW email \in Emails, NEW accepts \in BOOLEAN, Save(email, accepts)
      PROVE  EventsAreTold' /\ AddressStays'
  <2> DEFINE new == [row EXCEPT !.email = email, !.accepts = accepts]
  <2>1. new \in Rows /\ new.email # Absent
    BY <1>0, MailingAssumption DEF Typed, Rows, Addresses
  <2>2. ChangeRow(new) /\ UNCHANGED <<published, told, updates, newest>>
    BY <1>1 DEF Save
  <2> HIDE DEF new
  <2>3. QED
    BY <1>0, <2>1, <2>2, EventsOfChange
<1>2. ASSUME OnUserChange
      PROVE  EventsAreTold' /\ AddressStays'
  BY <1>2, EventsOfPublished
<1>3. ASSUME NEW w \in Workers, NEW m \in updates, Deliver(w, m)
      PROVE  EventsAreTold' /\ AddressStays'
  <2>1. m.nr \in Nat
    BY <1>0 DEF EventsAreTold
  <2>2. /\ newest' \in Nat /\ newest <= newest' /\ m.nr <= newest'
        /\ updates' \subseteq updates /\ updates \ updates' \subseteq {m}
        /\ UNCHANGED <<row, changes, published, told>>
    BY <1>0, <1>3, <2>1 DEF Deliver, stream
  <2>3. QED
    BY <1>0, <2>2, EventsKept
<1>4. ASSUME NEW w \in Workers, RemoveFromMarketing(w)
      PROVE  EventsAreTold' /\ AddressStays'
  BY <1>0, <1>4, EventsKept DEF RemoveFromMarketing, stream, history
<1>5. ASSUME NEW w \in Workers, UpdateUserContact(w)
      PROVE  EventsAreTold' /\ AddressStays'
  BY <1>0, <1>5, EventsKept DEF UpdateUserContact, stream, history
<1>6. ASSUME NEW w \in Workers, PutContact(w)
      PROVE  EventsAreTold' /\ AddressStays'
  <2>1. job[w].event.nr \in 1..newest
    BY <1>6 DEF PutContact, JobKnows
  <2>2. /\ updates' \subseteq updates /\ updates \ updates' \subseteq {job[w].event}
        /\ UNCHANGED <<row, changes, published, told, newest>>
    BY <1>0, <1>6 DEF PutContact, stream, history
  <2>3. QED
    BY <1>0, <2>1, <2>2, EventsKept
<1>7. ASSUME NEW w \in Workers, Fail(w)
      PROVE  EventsAreTold' /\ AddressStays'
  <2>1. job[w].event.nr \in 1..newest
    BY <1>7 DEF Fail, JobKnows
  <2>2. /\ updates' \subseteq updates /\ updates \ updates' \subseteq {job[w].event}
        /\ UNCHANGED <<row, changes, published, told, newest>>
    BY <1>0, <1>7 DEF Fail, stream
  <2>3. QED
    BY <1>0, <2>1, <2>2, EventsKept
<1>8. ASSUME NEW p \in Notices, NEW charge \in BOOLEAN, Notify(p, charge)
      PROVE  EventsAreTold' /\ AddressStays'
  BY <1>0, <1>8, EventsKept DEF Notify
<1>9. ASSUME NEW p \in Notices, WritePremium(p)
      PROVE  EventsAreTold' /\ AddressStays'
  <2> DEFINE new == [row EXCEPT !.premium = payment[p].charge]
  <2>1. payment[p].charge \in BOOLEAN
    BY <1>0, <1>9, FlagMoves
  <2>2. new \in Rows /\ new.email = row.email
    BY <1>0, <2>1 DEF Typed, Rows
  <2>3. ChangeRow(new) /\ UNCHANGED <<published, told, updates, newest>>
    BY <1>9 DEF WritePremium, history
  <2> HIDE DEF new
  <2>4. QED
    BY <1>0, <2>2, <2>3, EventsOfChange
<1>10. ASSUME NEW p \in Notices, EditPremiumList(p) \/ IpnFails(p)
       PROVE  EventsAreTold' /\ AddressStays'
  BY <1>0, <1>10, EventsKept DEF EditPremiumList, IpnFails, stream
<1>11. ASSUME UNCHANGED vars
       PROVE  EventsAreTold' /\ AddressStays'
  BY <1>0, <1>11, EventsKept DEF vars, stream, history
<1>12. QED
  BY <1>1, <1>2, <1>3, <1>4, <1>5, <1>6, <1>7, <1>8, <1>9, <1>10, <1>11 DEF Next

-----------------------------------------------------------------------------
(* The workers.                                                            *)

LEMMA JobStays ==
    ASSUME Typed, Grows, NEW w \in Workers, JobKnows(w), job'[w] = job[w]
    PROVE  JobKnows(w)'
<1>1. CASE job[w].step = "idle"
  BY <1>1 DEF JobKnows
<1>2. CASE job[w].step # "idle"
  <2>1. /\ job[w].event.nr \in 1..newest /\ job[w].event = told[job[w].event.nr].event
        /\ newest \in Nat /\ newest <= published /\ published \in Nat
        /\ newest' \in Nat /\ newest <= newest'
    BY <1>2 DEF JobKnows, Grows
  <2>2. job[w].event.nr \in 1..newest' /\ job[w].event.nr \in 0..published
    BY <2>1
  <2>3. job[w].event = told'[job[w].event.nr].event
    BY <2>1, <2>2 DEF Grows
  <2>4. job[w].id # NoId => job[w].id \in Known'
    BY <1>2 DEF JobKnows, Grows
  <2>5. QED
    BY <1>2, <2>2, <2>3, <2>4 DEF JobKnows, HasEmail
<1>3. QED
  BY <1>1, <1>2

\* A worker that goes on with its event.
LEMMA JobGoesOn ==
    ASSUME Typed, Grows, NEW w \in Workers, JobKnows(w), job[w].step # "idle",
           job'[w].event = job[w].event, job'[w].step \in {"remove", "search", "put"},
           job'[w].step \in {"remove", "search"} => ~job[w].event.accepts,
           job'[w].step = "remove" => job'[w].id # NoId,
           job'[w].id \in Known \cup {NoId}
    PROVE  JobKnows(w)'
<1>1. /\ job[w].event.nr \in 1..newest /\ job[w].event = told[job[w].event.nr].event
      /\ newest \in Nat /\ newest <= published /\ published \in Nat
      /\ newest' \in Nat /\ newest <= newest' /\ HasEmail(job[w].event)
  BY DEF JobKnows, Grows
<1>2. job[w].event.nr \in 1..newest' /\ job[w].event.nr \in 0..published
  BY <1>1
<1>3. job[w].event = told'[job[w].event.nr].event
  BY <1>1, <1>2 DEF Grows
<1>4. job'[w].id # NoId => job'[w].id \in Known'
  BY DEF Grows
<1>5. QED
  BY <1>1, <1>2, <1>3, <1>4 DEF JobKnows, HasEmail

LEMMA JobsPreserved ==
    ASSUME TypeOK, EventsAreTold, \A w \in Workers : JobKnows(w), [Next]_vars
    PROVE  \A v \in Workers : JobKnows(v)'
<1>0. Typed /\ Grows /\ job \in [Workers -> Jobs]
  BY Types, EverythingGrows DEF Typed
<1>i. ASSUME job' = job
      PROVE  \A v \in Workers : JobKnows(v)'
  BY <1>0, <1>i, JobStays
<1>o. ASSUME NEW w \in Workers, \A v \in Workers \ {w} : job'[v] = job[v], JobKnows(w)'
      PROVE  \A v \in Workers : JobKnows(v)'
  BY <1>0, <1>o, JobStays
<1>f. ASSUME NEW w \in Workers, job' = [job EXCEPT ![w] = Free]
      PROVE  \A v \in Workers : JobKnows(v)'
  <2>1. job'[w] = Free /\ \A v \in Workers \ {w} : job'[v] = job[v]
    BY <1>0, <1>f
  <2>2. JobKnows(w)'
    BY <2>1, FreeType DEF JobKnows
  <2>3. QED
    BY <1>o, <2>1, <2>2
<1>1. ASSUME NEW w \in Workers, NEW m \in updates, Deliver(w, m)
      PROVE  \A v \in Workers : JobKnows(v)'
  <2>1. CASE ~HasEmail(m)
    BY <1>1, <1>i, <2>1 DEF Deliver
  <2>2. CASE HasEmail(m)
    <3> DEFINE id == FindContact(m)
               step == IF m.accepts THEN "put" ELSE IF id # NoId THEN "remove" ELSE "search"
    <3>1. /\ m \in Events /\ m.nr \in 1..published /\ m = told[m.nr].event
          /\ m.old \in Addresses /\ published \in Nat
      BY <1>0 DEF EventsAreTold, Typed, Events
    <3>2. id \in Known \cup {NoId} /\ id \in ContactIds \cup {NoId}
      BY <1>0, <3>1, Lookup, KnownContacts DEF Typed, FindContact
    <3>3. Start(w, m, step, id) /\ UNCHANGED <<told, contacts>>
      BY <1>1, <2>2 DEF Deliver, stream
    <3>4. step \in {"remove", "search", "put"}
      OBVIOUS
    <3>5. /\ step \in {"remove", "search"} => ~m.accepts
          /\ step = "remove" => id # NoId
      OBVIOUS
    <3> HIDE DEF id, step
    <3>6. /\ job'[w].step = step /\ job'[w].event = m /\ job'[w].id = id
          /\ \A v \in Workers \ {w} : job'[v] = job[v]
      BY <1>0, <3>1, <3>2, <3>3, <3>4, Starts
    <3>7. m.nr \in 1..newest'
      BY <1>0, <1>1, <3>1 DEF Deliver, Typed
    <3>8. Known' = Known
      BY <3>3 DEF Known
    <3>9. JobKnows(w)'
      BY <2>2, <3>1, <3>2, <3>3, <3>4, <3>5, <3>6, <3>7, <3>8 DEF JobKnows, HasEmail
    <3>10. QED
      BY <1>o, <3>6, <3>9
  <2>3. QED
    BY <2>1, <2>2
<1>2. ASSUME NEW w \in Workers, RemoveFromMarketing(w)
      PROVE  \A v \in Workers : JobKnows(v)'
  <2>1. job[w].event \in Events /\ job[w].step = "remove" /\ Start(w, job[w].event, "search", NoId)
    BY <1>0, <1>2 DEF RemoveFromMarketing, Jobs
  <2>2. /\ job'[w].step = "search" /\ job'[w].event = job[w].event /\ job'[w].id = NoId
        /\ \A v \in Workers \ {w} : job'[v] = job[v]
    BY <1>0, <2>1, Starts
  <2>3. ~job[w].event.accepts
    BY <2>1 DEF JobKnows
  <2>4. JobKnows(w)'
    BY <1>0, <2>1, <2>2, <2>3, JobGoesOn
  <2>5. QED
    BY <1>o, <2>2, <2>4
<1>3. ASSUME NEW w \in Workers, UpdateUserContact(w)
      PROVE  \A v \in Workers : JobKnows(v)'
  <2> DEFINE id == ContactIdByEmail(job[w].event.old)
  <2>1. /\ job[w].event \in Events /\ job[w].event.old \in Addresses
        /\ job[w].step = "search" /\ Start(w, job[w].event, "put", id)
    BY <1>0, <1>3 DEF UpdateUserContact, Jobs, Events
  <2>2. id \in Known \cup {NoId} /\ id \in ContactIds \cup {NoId}
    BY <1>0, <2>1, Lookup, KnownContacts DEF Typed
  <2> HIDE DEF id
  <2>3. /\ job'[w].step = "put" /\ job'[w].event = job[w].event /\ job'[w].id = id
        /\ \A v \in Workers \ {w} : job'[v] = job[v]
    BY <1>0, <2>1, <2>2, Starts
  <2>4. JobKnows(w)'
    BY <1>0, <2>1, <2>2, <2>3, JobGoesOn
  <2>5. QED
    BY <1>o, <2>3, <2>4
<1>4. ASSUME NEW w \in Workers, PutContact(w) \/ Fail(w)
      PROVE  \A v \in Workers : JobKnows(v)'
  BY <1>4, <1>f DEF PutContact, Fail
<1>5. CASE \/ \E email \in Emails, accepts \in BOOLEAN : Save(email, accepts)
           \/ OnUserChange \/ \E p \in Notices, charge \in BOOLEAN : Notify(p, charge)
           \/ \E p \in Notices : WritePremium(p) \/ EditPremiumList(p) \/ IpnFails(p)
           \/ UNCHANGED vars
  BY <1>5, <1>i DEF Save, OnUserChange, Notify, WritePremium, EditPremiumList, IpnFails, vars
<1>6. QED
  BY <1>1, <1>2, <1>3, <1>4, <1>5 DEF Next

-----------------------------------------------------------------------------
(* What holds while no exception has happened.                             *)

LEMMA RowChanges ==
    ASSUME Typed, RowWillBeTold, NEW new \in Rows, ChangeRow(new), UNCHANGED <<published, told>>
    PROVE  RowWillBeTold'
<1>1. /\ changes' = Append(changes, row.email) /\ row' = new
      /\ row.email \in Addresses /\ changes \in Seq(Addresses)
  BY DEF ChangeRow, Typed, Rows
<1>2. /\ Len(changes) \in Nat
      /\ DOMAIN changes = 1..Len(changes) /\ DOMAIN changes' = 1..(Len(changes) + 1)
      /\ changes'[Len(changes) + 1] = row.email
      /\ \A i \in DOMAIN changes : changes'[i] = changes[i]
      /\ changes' # <<>>
  BY <1>1, Appended
<1>3. Latest' = Latest
  BY DEF Latest
<1>4. \E i \in DOMAIN changes' : changes'[i] = Latest.email
  <2>1. CASE row.email = Latest.email
    BY <1>2, <2>1
  <2>2. CASE \E i \in DOMAIN changes : changes[i] = Latest.email
    BY <1>2, <2>2
  <2>3. QED
    BY <2>1, <2>2 DEF RowWillBeTold
<1>5. published = 0 => Head(changes') = Latest.email
  <2> SUFFICES ASSUME published = 0 PROVE Head(changes') = Latest.email
    OBVIOUS
  <2>1. Head(changes') = changes'[1]
    BY <1>1, <1>2
  <2>2. CASE changes = <<>>
    <3>1. row.email = Latest.email
      BY <2>2 DEF RowWillBeTold
    <3>2. QED
      BY <1>2, <2>1, <2>2, <3>1
  <2>3. CASE changes # <<>>
    <3>1. Head(changes) = Latest.email /\ Head(changes) = changes[1] /\ 1 \in DOMAIN changes
      BY <1>1, <1>2, <2>3 DEF RowWillBeTold
    <3>2. QED
      BY <1>2, <2>1, <3>1
  <2>4. QED
    BY <2>2, <2>3
<1>6. QED
  BY <1>2, <1>3, <1>4, <1>5 DEF RowWillBeTold

\* An event that is published follows the one before it, and what the row says is
\* told by it, or will be by a later one.
LEMMA StreamPublished ==
    ASSUME TypeOK, EventsAreTold, AddressStays, OnUserChange, InOrder', RowWillBeTold,
           \A k \in 1..published : Follows(k)
    PROVE  RowWillBeTold' /\ \A k \in 1..published' : Follows(k)'
<1>0. Typed /\ published \in Nat /\ row \in Rows /\ changes \in Seq(Addresses)
  BY Types DEF Typed
<1>1. PICK m \in Events :
        /\ m.nr = published + 1 /\ m.old = Head(changes)
        /\ m.email = row.email /\ m.accepts = row.accepts
        /\ published' = published + 1
        /\ told'[published'].event = m
        /\ told'[published'].listed = Listed(m, told[published])
        /\ \A k \in 0..published : told'[k] = told[k]
        /\ Excuse("skipped", Latest.email \notin {m.old, m.email})
  BY Publishes
<1>2. /\ UNCHANGED row /\ changes # <<>>
      /\ changes' = Tail(changes) \/ changes' = changes
  BY DEF OnUserChange
<1>3. /\ Len(changes) \in Nat \ {0} /\ Head(changes) = changes[1]
      /\ DOMAIN changes = 1..Len(changes) /\ DOMAIN Tail(changes) = 1..(Len(changes) - 1)
      /\ \A i \in DOMAIN Tail(changes) : Tail(changes)[i] = changes[i + 1]
  BY <1>0, <1>2, Tailed
<1>4. Latest.email \in {m.old, m.email}
  BY <1>1 DEF Excuse, InOrder
<1>5. Latest = told[published].event /\ Latest' = m
  BY <1>1 DEF Latest
<1>6. published = 0 => m.old = Latest.email
  BY <1>1, <1>2 DEF RowWillBeTold
<1>7. ASSUME NEW k \in 1..published'
      PROVE  Follows(k)'
  <2>1. k - 1 \in 0..published /\ told'[k - 1] = told[k - 1]
    BY <1>0, <1>1
  <2>2. CASE k = published'
    <3>1. told'[k].event = m /\ told'[k - 1].event.email = Latest.email /\ k - 1 = published
      BY <1>0, <1>1, <1>5, <2>1, <2>2
    <3>2. CASE m.old = Latest.email
      BY <3>1, <3>2 DEF Follows
    <3>3. CASE m.old # Latest.email
      <4>1. m.email = Latest.email /\ published # 0
        BY <1>4, <1>6, <3>3
      <4>2. Latest.email # Absent
        <5> SUFFICES ASSUME Latest.email = Absent PROVE FALSE
          OBVIOUS
        <5>1. \A i \in DOMAIN changes : changes[i] = Absent
          BY <1>1, <4>1 DEF AddressStays
        <5>2. m.old = Absent
          BY <1>1, <1>3, <5>1
        <5>3. QED
          BY <3>3, <5>2
      <4>3. k > 1
        BY <1>0, <1>1, <2>2, <4>1
      <4>4. QED
        BY <3>1, <4>1, <4>2, <4>3 DEF Follows
    <3>4. QED
      BY <3>2, <3>3
  <2>3. CASE k # published'
    <3>1. k \in 1..published /\ told'[k] = told[k]
      BY <1>0, <1>1, <2>3
    <3>2. QED
      BY <2>1, <3>1 DEF Follows
  <2>4. QED
    BY <2>2, <2>3
<1>8. \/ told'[published'].listed = (row.accepts /\ row.email # Absent)
      \/ \E i \in DOMAIN changes' : changes'[i] = row.email
  <2>1. row.accepts \in BOOLEAN
    BY <1>0 DEF Rows
  <2>2. CASE m.old = Latest.email
    <3>1. told'[published'].listed = (m.email # Absent /\ m.accepts)
      BY <1>1, <1>5, <2>2 DEF Listed
    <3>2. QED
      BY <1>1, <2>1, <3>1
  <2>3. CASE m.old # Latest.email
    <3>1. Latest.email = row.email /\ published # 0
      BY <1>1, <1>4, <1>6, <2>3
    <3>2. CASE told[published].listed = (row.accepts /\ row.email # Absent)
      <4>1. told'[published'].listed =
              (row.email # Absent /\ (row.accepts \/ told[published].listed))
        BY <1>1, <1>5, <2>3 DEF Listed
      <4>2. QED
        BY <2>1, <3>2, <4>1
    <3>3. CASE \E i \in DOMAIN changes : changes[i] = Latest.email
      <4>1. PICK i \in DOMAIN changes : changes[i] = Latest.email
        BY <3>3
      <4>2. i # 1
        BY <1>1, <1>3, <2>3, <4>1
      <4>3. i - 1 \in DOMAIN Tail(changes) /\ Tail(changes)[i - 1] = changes[i]
        BY <1>3, <4>2
      <4>4. QED
        BY <1>2, <3>1, <4>1, <4>3
    <3>4. QED
      BY <3>1, <3>2, <3>3 DEF RowWillBeTold
  <2>4. QED
    BY <2>2, <2>3
<1>9. RowWillBeTold'
  BY <1>0, <1>1, <1>2, <1>5, <1>8 DEF RowWillBeTold
<1>10. QED
  BY <1>7, <1>9

OrderHolds ==
    /\ \A k \in 1..published : Follows(k)
    /\ RowWillBeTold /\ WorkersInOrder
    /\ \A p \in Notices : Paying(p) => PaymentInOrder(p)

LEMMA StreamKept ==
    ASSUME RowWillBeTold, \A k \in 1..published : Follows(k),
           UNCHANGED <<row, changes, published, told>>
    PROVE  RowWillBeTold' /\ \A k \in 1..published' : Follows(k)'
BY DEF RowWillBeTold, Follows, Latest

\* A change of the row to which nothing else reacts.
LEMMA OrderOfChange ==
    ASSUME Typed, OrderHolds, NEW new \in Rows, ChangeRow(new),
           UNCHANGED <<published, told, updates, job, newest>>,
           \A p \in Notices : Paying(p)' => /\ Paying(p) /\ new.email = row.email
                                           /\ payment'[p].email = payment[p].email
    PROVE  OrderHolds'
<1>1. /\ changes' = Append(changes, row.email) /\ row' = new
      /\ row.email \in Addresses /\ changes \in Seq(Addresses)
  BY DEF ChangeRow, Typed, Rows
<1>2. RowWillBeTold'
  BY RowChanges DEF OrderHolds
<1>3. \A k \in 1..published' : Follows(k)'
  BY DEF OrderHolds, Follows
<1>4. WorkersInOrder'
  BY DEF OrderHolds, WorkersInOrder
<1>5. ASSUME NEW p \in Notices, Paying(p)'
      PROVE  PaymentInOrder(p)'
  <2>1. PaymentInOrder(p) /\ row'.email = row.email /\ payment'[p].email = payment[p].email
    BY <1>1, <1>5 DEF OrderHolds
  <2>2. /\ DOMAIN changes' = 1..(Len(changes) + 1) /\ DOMAIN changes = 1..Len(changes)
        /\ Len(changes) \in Nat /\ changes'[Len(changes) + 1] = row.email
        /\ \A i \in DOMAIN changes : changes'[i] = changes[i]
    BY <1>1, Appended
  <2>3. \A i \in DOMAIN changes' : i \in DOMAIN changes \/ i = Len(changes) + 1
    BY <2>2
  <2>4. \A i \in DOMAIN changes' : changes'[i] = row'.email
    BY <2>1, <2>2, <2>3 DEF PaymentInOrder
  <2>5. QED
    BY <2>1, <2>4 DEF PaymentInOrder
<1>6. QED
  BY <1>2, <1>3, <1>4, <1>5 DEF OrderHolds

\* A step of a worker, or of the notification, at the end of which it is handled
\* or is where it was.
LEMMA OrderKept ==
    ASSUME OrderHolds, UNCHANGED stream, updates' \subseteq updates, WorkersInOrder',
           \A p \in Notices : Paying(p)' => Paying(p) /\ payment'[p].email = payment[p].email
    PROVE  OrderHolds'
<1>1. RowWillBeTold' /\ \A k \in 1..published' : Follows(k)'
  BY StreamKept DEF OrderHolds, stream
<1>2. ASSUME NEW p \in Notices, Paying(p)'
      PROVE  PaymentInOrder(p)'
  BY <1>2 DEF OrderHolds, PaymentInOrder, stream
<1>3. QED
  BY <1>1, <1>2 DEF OrderHolds

LEMMA OrderPreserved ==
    ASSUME TypeOK, EventsAreTold, AddressStays, \A w \in Workers : JobKnows(w),
           InOrder => OrderHolds, [Next]_vars, InOrder'
    PROVE  OrderHolds'
<1>0. Typed /\ Grows /\ InOrder /\ OrderHolds /\ job \in [Workers -> Jobs]
      /\ newest \in Nat
  BY Types, EverythingGrows DEF Typed, Grows
<1>o. ASSUME NEW w \in Workers, \A v \in Workers \ {w} : job'[v] = job[v], UNCHANGED newest,
             \/ job'[w].step = "idle"
             \/ job[w].step # "idle" /\ job'[w].event = job[w].event
      PROVE  WorkersInOrder'
  BY <1>0, <1>o DEF OrderHolds, WorkersInOrder
<1>f. ASSUME NEW w \in Workers, job' = [job EXCEPT ![w] = Free], UNCHANGED newest
      PROVE  WorkersInOrder'
  <2>1. job'[w].step = "idle" /\ \A v \in Workers \ {w} : job'[v] = job[v]
    BY <1>0, <1>f, FreeType
  <2>2. QED
    BY <1>f, <1>o, <2>1
<1>i. UNCHANGED <<job, newest>> => WorkersInOrder'
  BY <1>0 DEF OrderHolds, WorkersInOrder
<1>p. UNCHANGED payment =>
        \A p \in Notices : Paying(p)' => Paying(p) /\ payment'[p].email = payment[p].email
  BY DEF Paying
<1>1. ASSUME NEW email \in Emails, NEW accepts \in BOOLEAN, Save(email, accepts)
      PROVE  OrderHolds'
  <2> DEFINE new == [row EXCEPT !.email = email, !.accepts = accepts]
  <2>1. new \in Rows /\ new.email = email
    BY <1>0 DEF Typed, Rows, Addresses
  <2>2. ChangeRow(new) /\ UNCHANGED <<published, told, updates, job, newest, payment>>
    BY <1>1 DEF Save
  <2>3. (\E p \in Notices : Paying(p)) => email = row.email
    BY <1>1 DEF Save, Excuse, InOrder
  <2> HIDE DEF new
  <2>4. QED
    BY <1>0, <1>p, <2>1, <2>2, <2>3, OrderOfChange
<1>2. ASSUME OnUserChange
      PROVE  OrderHolds'
  <2>1. RowWillBeTold' /\ \A k \in 1..published' : Follows(k)'
    BY <1>0, <1>2, StreamPublished DEF OrderHolds
  <2>2. WorkersInOrder'
    BY <1>2, <1>i DEF OnUserChange
  <2>3. ASSUME NEW p \in Notices, Paying(p)'
        PROVE  PaymentInOrder(p)'
    <3>1. /\ UNCHANGED <<row, payment>> /\ changes # <<>> /\ changes \in Seq(Addresses)
          /\ changes' = Tail(changes) \/ changes' = changes
      BY <1>0, <1>2 DEF OnUserChange, Typed
    <3>2. PaymentInOrder(p)
      BY <1>0, <2>3, <3>1 DEF OrderHolds, Paying
    <3>3. /\ Len(changes) \in Nat \ {0} /\ Head(changes) = changes[1]
          /\ DOMAIN changes = 1..Len(changes) /\ DOMAIN Tail(changes) = 1..(Len(changes) - 1)
          /\ \A i \in DOMAIN Tail(changes) : Tail(changes)[i] = changes[i + 1]
      BY <3>1, Tailed
    <3>4. \A i \in DOMAIN changes' : \E j \in DOMAIN changes : changes'[i] = changes[j]
      BY <3>1, <3>3
    <3>5. PICK m \in Events : /\ m.old = Head(changes) /\ m.email = row.email
                              /\ updates' = updates \cup {m}
      BY <1>0, <1>2, Publishes
    <3>6. m.old = row.email
      BY <3>2, <3>3, <3>5 DEF PaymentInOrder
    <3>7. QED
      BY <3>1, <3>2, <3>4, <3>5, <3>6 DEF PaymentInOrder
  <2>4. QED
    BY <2>1, <2>2, <2>3 DEF OrderHolds
<1>3. ASSUME NEW w \in Workers, NEW m \in updates, Deliver(w, m)
      PROVE  OrderHolds'
  <2>1. m \in Events /\ m.nr \in Nat
    BY <1>0 DEF Typed, EventsAreTold
  <2>2. ~(m.nr < newest) /\ \A v \in Workers : job[v].event \in {m, NoEvent}
    BY <1>3 DEF Deliver, Excuse, InOrder
  <2>3. newest' = m.nr
    BY <1>0, <1>3, <2>1, <2>2 DEF Deliver
  <2>4. \A v \in Workers : job[v].step # "idle" => job[v].event = m
    <3> TAKE v \in Workers
    <3>1. job[v].step # "idle" => job[v].event.nr \in 1..newest
      BY DEF JobKnows
    <3>2. job[v].event = NoEvent => job[v].event.nr = 0
      BY FreeType
    <3>3. QED
      BY <1>0, <2>2, <3>1, <3>2
  <2>5. \A v \in Workers : job'[v].step # "idle" => job'[v].event = m
    <3>1. CASE HasEmail(m)
      <4> DEFINE id == FindContact(m)
                 step == IF m.accepts THEN "put" ELSE IF id # NoId THEN "remove" ELSE "search"
      <4>1. m.old \in Addresses
        BY <2>1 DEF Events
      <4>2. id \in ContactIds \cup {NoId}
        BY <1>0, <4>1, Lookup, KnownContacts DEF Typed, FindContact
      <4>3. step \in {"idle", "remove", "search", "put"} /\ Start(w, m, step, id)
        BY <1>3, <3>1 DEF Deliver
      <4> HIDE DEF id, step
      <4>4. job'[w].event = m /\ \A v \in Workers \ {w} : job'[v] = job[v]
        BY <1>0, <2>1, <4>2, <4>3, Starts
      <4>5. QED
        BY <2>4, <4>4
    <3>2. CASE ~HasEmail(m)
      BY <1>3, <2>4, <3>2 DEF Deliver
    <3>3. QED
      BY <3>1, <3>2
  <2>6. WorkersInOrder'
    BY <2>3, <2>5 DEF WorkersInOrder
  <2>7. UNCHANGED <<stream, payment>> /\ updates' \subseteq updates
    BY <1>3 DEF Deliver
  <2>8. QED
    BY <1>0, <1>p, <2>6, <2>7, OrderKept
<1>4. ASSUME NEW w \in Workers, RemoveFromMarketing(w)
      PROVE  OrderHolds'
  <2>1. /\ job[w].event \in Events /\ job[w].step = "remove"
        /\ Start(w, job[w].event, "search", NoId)
    BY <1>0, <1>4 DEF RemoveFromMarketing, Jobs
  <2>2. job'[w].event = job[w].event /\ \A v \in Workers \ {w} : job'[v] = job[v]
    BY <1>0, <2>1, Starts
  <2>3. WorkersInOrder'
    BY <1>4, <1>o, <2>1, <2>2 DEF RemoveFromMarketing, history
  <2>4. QED
    BY <1>0, <1>4, <1>p, <2>3, OrderKept DEF RemoveFromMarketing
<1>5. ASSUME NEW w \in Workers, UpdateUserContact(w)
      PROVE  OrderHolds'
  <2> DEFINE id == ContactIdByEmail(job[w].event.old)
  <2>1. /\ job[w].event \in Events /\ job[w].event.old \in Addresses
        /\ job[w].step = "search" /\ Start(w, job[w].event, "put", id)
    BY <1>0, <1>5 DEF UpdateUserContact, Jobs, Events
  <2>2. id \in ContactIds \cup {NoId}
    BY <1>0, <2>1, Lookup, KnownContacts DEF Typed
  <2> HIDE DEF id
  <2>3. job'[w].event = job[w].event /\ \A v \in Workers \ {w} : job'[v] = job[v]
    BY <1>0, <2>1, <2>2, Starts
  <2>4. WorkersInOrder'
    BY <1>5, <1>o, <2>1, <2>3 DEF UpdateUserContact, history
  <2>5. QED
    BY <1>0, <1>5, <1>p, <2>4, OrderKept DEF UpdateUserContact
<1>6. ASSUME NEW w \in Workers, PutContact(w)
      PROVE  OrderHolds'
  <2>1. WorkersInOrder'
    BY <1>6, <1>f DEF PutContact, history
  <2>2. UNCHANGED <<stream, payment>> /\ updates' \subseteq updates
    BY <1>6 DEF PutContact
  <2>3. QED
    BY <1>0, <1>p, <2>1, <2>2, OrderKept
<1>7. ASSUME NEW w \in Workers, Fail(w)
      PROVE  OrderHolds'
  <2>1. WorkersInOrder'
    BY <1>7, <1>f DEF Fail
  <2>2. UNCHANGED <<stream, payment>> /\ updates' \subseteq updates
    BY <1>7 DEF Fail
  <2>3. QED
    BY <1>0, <1>p, <2>1, <2>2, OrderKept
<1>8. ASSUME NEW p \in Notices, NEW charge \in BOOLEAN, Notify(p, charge)
      PROVE  OrderHolds'
  <2>a. UNCHANGED <<row, changes, published, told, updates, job, newest>>
    BY <1>8 DEF Notify
  <2>b. /\ payment'[p].email = row.email /\ "crossed" \notin excuses'
        /\ \A q \in Notices \ {p} : payment'[q].step = payment[q].step
                                  /\ payment'[q].email = payment[q].email
        /\ AddressMoves => "crossed" \in excuses'
    <3>1. "crossed" \notin excuses'
      BY DEF InOrder
    <3>2. QED
      BY <1>0, <1>8, <3>1, NotifyMoves
  <2>1. /\ UNCHANGED <<row, changes, published, told, updates, job, newest>>
        /\ payment'[p].email = row.email /\ ~AddressMoves
        /\ \A q \in Notices \ {p} : payment'[q].step = payment[q].step
                                  /\ payment'[q].email = payment[q].email
    BY <2>a, <2>b
  <2>2. PaymentInOrder(p)'
    BY <2>1 DEF AddressMoves, PaymentInOrder
  <2>3. ASSUME NEW q \in Notices \ {p}, Paying(q)'
        PROVE  PaymentInOrder(q)'
    <3>1. Paying(q) /\ payment'[q].email = payment[q].email
      BY <2>1, <2>3 DEF Paying
    <3>2. QED
      BY <1>0, <2>1, <3>1 DEF OrderHolds, PaymentInOrder
  <2>4. RowWillBeTold' /\ \A k \in 1..published' : Follows(k)'
    BY <1>0, <2>1, StreamKept DEF OrderHolds
  <2>5. QED
    BY <1>i, <2>1, <2>2, <2>3, <2>4 DEF OrderHolds
<1>9. ASSUME NEW p \in Notices, WritePremium(p)
      PROVE  OrderHolds'
  <2> DEFINE new == [row EXCEPT !.premium = payment[p].charge]
  <2>1. /\ payment[p].charge \in BOOLEAN /\ payment[p].step = "flag"
        /\ payment'[p].email = payment[p].email
        /\ \A q \in Notices \ {p} : payment'[q] = payment[q]
    BY <1>0, <1>9, FlagMoves
  <2>2. new \in Rows /\ new.email = row.email
    BY <1>0, <2>1 DEF Typed, Rows
  <2>3. ChangeRow(new) /\ UNCHANGED <<published, told, updates, job, newest>>
    BY <1>9 DEF WritePremium, history
  <2> HIDE DEF new
  <2>4. \A q \in Notices : Paying(q)' => Paying(q) /\ payment'[q].email = payment[q].email
    BY <2>1 DEF Paying
  <2>5. QED
    BY <1>0, <2>2, <2>3, <2>4, OrderOfChange
<1>10. ASSUME NEW p \in Notices, EditPremiumList(p) \/ IpnFails(p)
       PROVE  OrderHolds'
  <2>1. UNCHANGED <<stream, updates, job, newest>>
    BY <1>10 DEF EditPremiumList, IpnFails
  <2>2. \A q \in Notices : Paying(q)' => Paying(q) /\ payment'[q].email = payment[q].email
    BY <1>0, <1>10, PaymentEnds DEF Paying
  <2>3. QED
    BY <1>0, <1>i, <2>1, <2>2, OrderKept
<1>11. ASSUME UNCHANGED vars
       PROVE  OrderHolds'
  BY <1>0, <1>i, <1>p, <1>11, OrderKept DEF vars, history
<1>12. QED
  BY <1>1, <1>2, <1>3, <1>4, <1>5, <1>6, <1>7, <1>8, <1>9, <1>10, <1>11 DEF Next

-----------------------------------------------------------------------------
(* What holds while, besides, no event has been left behind.               *)

ContactHolds == Mirrors(newest) \/ Halfway

JobsHold == \A w \in Workers : job[w].step # "idle" => JobInOrder(w)

LEMMA CleanStays ==
    ASSUME TypeOK, EventsAreTold, \A w \in Workers : JobKnows(w), InOrder => OrderHolds,
           [Next]_vars, Clean'
    PROVE  Clean
<1>0. Typed /\ Grows /\ InOrder /\ InOrder' /\ OrderHolds
  BY Types, EverythingGrows DEF Clean, Grows
<1>1. \A m \in updates' : m.nr >= newest'
  BY DEF Clean
<1>2. ASSUME NEW m \in updates, m \notin updates'
      PROVE  m.nr >= newest
  <2>0. m.nr \in Nat /\ newest \in Nat
    BY <1>0 DEF EventsAreTold, Typed
  <2>1. CASE \E w \in Workers, n \in updates : Deliver(w, n)
    <3>1. PICK w \in Workers, n \in updates : Deliver(w, n)
      BY <2>1
    <3>2. n = m
      BY <1>2, <3>1 DEF Deliver
    <3>3. ~(m.nr < newest)
      BY <1>0, <3>1, <3>2 DEF Deliver, Excuse, InOrder
    <3>4. QED
      BY <2>0, <3>3
  <2>2. CASE \E w \in Workers : PutContact(w)
    <3>1. PICK w \in Workers : PutContact(w)
      BY <2>2
    <3>2. job[w].event = m /\ job[w].step # "idle"
      BY <1>2, <3>1 DEF PutContact
    <3>3. QED
      BY <1>0, <2>0, <3>2 DEF OrderHolds, WorkersInOrder
  <2>3. CASE \E w \in Workers : Fail(w)
    BY <1>0, <1>2, <2>3 DEF Fail, InOrder
  <2>4. CASE \/ \E w \in Workers : RemoveFromMarketing(w) \/ UpdateUserContact(w)
             \/ \E email \in Emails, accepts \in BOOLEAN : Save(email, accepts)
             \/ OnUserChange \/ \E p \in Notices, charge \in BOOLEAN : Notify(p, charge)
             \/ \E p \in Notices : WritePremium(p) \/ EditPremiumList(p) \/ IpnFails(p)
             \/ UNCHANGED vars
    BY <1>2, <2>4 DEF RemoveFromMarketing, UpdateUserContact, Save, OnUserChange, Notify,
                      WritePremium, EditPremiumList, IpnFails, vars
  <2>5. QED
    BY <2>1, <2>2, <2>3, <2>4 DEF Next
<1>3. ASSUME NEW m \in updates
      PROVE  m.nr >= newest
  <2>1. CASE m \in updates'
    <3>1. /\ m.nr \in Nat /\ newest \in Nat /\ newest' \in Nat /\ newest <= newest'
          /\ m.nr >= newest'
      BY <1>0, <1>1, <2>1 DEF EventsAreTold, Grows
    <3>2. QED
      BY <3>1
  <2>2. QED
    BY <1>2, <2>1
<1>4. QED
  BY <1>0, <1>3 DEF Clean

\* SendGrid has one contact of the user.
LEMMA OneContact ==
    ASSUME ContactsOK, ContactHolds
    PROVE  \A c, d \in Known : c = d
BY DEF ContactsOK, ContactHolds, Mirrors, Halfway

\* A refusal is heard where the event starts at the address SendGrid has, or ends
\* where it starts.
LEMMA RefusalIsHeard ==
    ASSUME EventsAreTold, NEW k \in 1..published, Follows(k), ~told[k].event.accepts,
           \/ told[k].event.old = told[k].event.email
           \/ told[k].event.old = told[k - 1].event.email
    PROVE  ~told[k].listed /\ told[k].event.old = told[k - 1].event.email
<1>1. told[k].event.old = told[k - 1].event.email
  BY DEF Follows
<1>2. told[k].listed = Listed(told[k].event, told[k - 1])
  BY DEF EventsAreTold
<1>3. QED
  BY <1>1, <1>2 DEF Listed

\* A payment that crosses no change of the address meets the contact there.
LEMMA PaymentMeetsContact ==
    ASSUME Typed, EventsAreTold, OrderHolds, ContactHolds,
           \A i \in DOMAIN changes : changes[i] = row.email,
           \A m \in updates : m.old = row.email /\ m.email = row.email
    PROVE  \A c \in Known : contacts[c].email = row.email
<1>0. newest \in Nat /\ published \in Nat /\ newest <= published
  BY DEF Typed
<1> TAKE c \in Known
<1>1. CASE Mirrors(newest)
  <2>1. contacts[c].email = told[newest].event.email
    BY <1>1 DEF Mirrors
  <2>2. CASE newest = published
    BY <2>1, <2>2 DEF OrderHolds, RowWillBeTold, Latest
  <2>3. CASE newest # published
    <3>1. newest + 1 \in (newest + 1)..published /\ newest + 1 \in 1..published
      BY <1>0, <2>3
    <3>2. PICK k \in 1..published : k \in (newest + 1)..published /\ k - 1 = newest
      BY <1>0, <3>1
    <3>3. told[k].event \in updates /\ Follows(k)
      BY <3>2 DEF EventsAreTold, OrderHolds
    <3>4. told[k].event.old = row.email /\ told[k].event.email = row.email
      BY <3>3
    <3>5. \/ told[k].event.old = told[newest].event.email
          \/ told[k].event.email = told[newest].event.email
      BY <3>2, <3>3 DEF Follows
    <3>6. QED
      BY <2>1, <3>4, <3>5
  <2>4. QED
    BY <2>2, <2>3
<1>2. CASE Halfway
  <2>1. /\ told[newest].event \in updates /\ newest \in 1..published
        /\ contacts[c].email = told[newest - 1].event.email
    BY <1>0, <1>2 DEF Halfway
  <2>2. Follows(newest)
    BY <2>1 DEF OrderHolds
  <2>3. QED
    BY <2>1, <2>2 DEF Follows
<1>3. QED
  BY <1>1, <1>2 DEF ContactHolds

LEMMA ContactKept ==
    ASSUME Typed, Grows, ContactHolds, UNCHANGED <<contacts, newest>>,
           newest > 0 /\ told[newest].event \in updates => told[newest].event \in updates'
    PROVE  ContactHolds'
<1>1. newest \in Nat /\ published \in Nat /\ newest <= published /\ newest' = newest
  BY DEF Typed
<1>2. Known' = Known
  BY DEF Known
<1>3. told'[newest] = told[newest] /\ (newest > 0 => told'[newest - 1] = told[newest - 1])
  BY <1>1 DEF Grows
<1>4. CASE Mirrors(newest)
  BY <1>1, <1>2, <1>3, <1>4 DEF Mirrors, ContactHolds
<1>5. CASE Halfway
  BY <1>1, <1>2, <1>3, <1>5 DEF Halfway, ContactHolds
<1>6. QED
  BY <1>4, <1>5 DEF ContactHolds

\* The event before the one that a worker holds.
LEMMA HeldEvent ==
    ASSUME Typed, Grows, NEW w \in Workers, JobKnows(w), job[w].step # "idle"
    PROVE  /\ job[w].event.nr \in 1..published
           /\ job[w].event = told[job[w].event.nr].event
           /\ told'[job[w].event.nr - 1] = told[job[w].event.nr - 1]
<1>1. /\ job[w].event.nr \in 1..newest /\ job[w].event = told[job[w].event.nr].event
      /\ newest \in Nat /\ newest <= published /\ published \in Nat
  BY DEF JobKnows, Grows
<1>2. job[w].event.nr \in 1..published /\ job[w].event.nr - 1 \in 0..published
  BY <1>1
<1>3. QED
  BY <1>1, <1>2 DEF Grows

LEMMA JobKept ==
    ASSUME Typed, Grows, NEW w \in Workers, JobKnows(w), JobInOrder(w),
           job[w].step # "idle", job'[w] = job[w], UNCHANGED contacts
    PROVE  JobInOrder(w)'
<1>1. Known' = Known
  BY DEF Known
<1>2. QED
  BY <1>1, HeldEvent DEF JobInOrder

\* Where SendGrid is when an event has been handled, what the workers know of it
\* still holds.
LEMMA JobAtMirror ==
    ASSUME Typed, EventsAreTold, Grows, NEW w \in Workers, JobKnows(w), JobInOrder(w),
           job[w].step # "idle", job'[w] = job[w], Follows(job[w].event.nr),
           \A c \in Known' :
              /\ contacts'[c].email = job[w].event.email
              /\ ("marketing" \in contacts'[c].lists) = told[job[w].event.nr].listed
    PROVE  JobInOrder(w)'
<1> DEFINE m == job[w].event
<1>1. /\ m.nr \in 1..published /\ m = told[m.nr].event
      /\ told'[m.nr - 1] = told[m.nr - 1]
  BY HeldEvent
<1>2. ~m.accepts /\ m.old = m.email => ~told[m.nr].listed
  BY <1>1, RefusalIsHeard
<1>3. QED
  BY <1>1, <1>2 DEF JobInOrder

\* An event is given to a worker.  It is the next one, and the one before has been
\* handled; or it is the same one again.
LEMMA DeliverKeepsContact ==
    ASSUME TypeOK, EventsAreTold, Grows, OrderHolds, ContactHolds, Clean',
           NEW w \in Workers, NEW m \in updates, Deliver(w, m)
    PROVE  /\ ContactHolds'
           /\ \A c \in Known : contacts[c].email = m.old => m.old = told[m.nr - 1].event.email
<1>0. /\ Typed /\ newest \in Nat /\ published \in Nat /\ newest <= published
      /\ ContactsOK
  BY Types DEF Typed
<1>1. /\ m.nr \in 1..published /\ m = told[m.nr].event /\ Follows(m.nr)
      /\ m.email = Absent => told[m.nr - 1].event.email = Absent
      /\ m.nr \in Nat
  BY <1>0 DEF EventsAreTold, OrderHolds
<1>2. ~(m.nr < newest)
  BY DEF Deliver, Excuse, InOrder, Clean
<1>3. newest' = m.nr /\ UNCHANGED <<told, contacts, published>> /\ Known' = Known
  BY <1>0, <1>1, <1>2 DEF Deliver, stream, Known
<1>4. /\ HasEmail(m) => updates' = updates
      /\ ~HasEmail(m) => updates' = updates \ {m}
  BY DEF Deliver
<1>5. CASE m.nr = newest
  <2>1. \A c \in Known : contacts[c].email = m.old => m.old = told[m.nr - 1].event.email
    <3> TAKE c \in Known
    <3>1. contacts[c].email = m.email \/ contacts[c].email = told[m.nr - 1].event.email
      BY <1>1, <1>5 DEF ContactHolds, Mirrors, Halfway
    <3>2. QED
      BY <1>1, <3>1 DEF Follows
  <2>2. CASE HasEmail(m)
    BY <1>0, <1>3, <1>4, <1>5, <2>1, <2>2, ContactKept
  <2>3. CASE ~HasEmail(m)
    <3>1. Known = {}
      <4> SUFFICES ASSUME NEW c \in Known PROVE FALSE
        OBVIOUS
      <4>1. contacts[c].email = Absent
        BY <1>1, <1>5, <2>3 DEF ContactHolds, Mirrors, Halfway, HasEmail
      <4>2. QED
        BY <1>0, <4>1, KnownContacts
    <3>2. Mirrors(newest)'
      BY <1>1, <1>3, <1>5, <2>3, <3>1 DEF Mirrors, HasEmail
    <3>3. QED
      BY <2>1, <3>2 DEF ContactHolds
  <2>4. QED
    BY <2>2, <2>3
<1>6. CASE m.nr # newest
  <2>1. m.nr > newest
    BY <1>0, <1>1, <1>2, <1>6
  <2>2. \A n \in updates : ~(n.nr < m.nr)
    <3> TAKE n \in updates
    <3>1. n.nr < m.nr => n \in updates'
      BY <1>1, <1>4
    <3>2. n \in updates' => n.nr >= m.nr
      BY <1>3 DEF Clean
    <3>3. n.nr \in Nat
      BY <1>0 DEF EventsAreTold
    <3>4. QED
      BY <1>1, <3>1, <3>2, <3>3
  <2>3. m.nr = newest + 1
    <3> SUFFICES ASSUME m.nr # newest + 1 PROVE FALSE
      OBVIOUS
    <3>1. newest + 1 \in (newest + 1)..published /\ newest + 1 < m.nr /\ newest + 1 \in 0..published
      BY <1>0, <1>1, <2>1
    <3>2. told[newest + 1].event \in updates /\ told[newest + 1].event.nr = newest + 1
      BY <3>1 DEF EventsAreTold
    <3>3. QED
      BY <2>2, <3>1, <3>2
  <2>4. m.nr - 1 = newest /\ newest \in 0..published /\ m.nr > 0
    BY <1>0, <2>3
  <2>5. ~Halfway
    <3>1. told[newest].event.nr = newest
      BY <2>4 DEF EventsAreTold
    <3>2. told[newest].event \notin updates
      BY <1>0, <2>1, <2>2, <3>1
    <3>3. QED
      BY <3>2 DEF Halfway
  <2>6. Mirrors(newest)
    BY <2>5 DEF ContactHolds
  <2>7. \A c \in Known : contacts[c].email = m.old => m.old = told[m.nr - 1].event.email
    BY <2>4, <2>6 DEF Mirrors
  <2>8. CASE HasEmail(m)
    <3>1. m.nr > 1 => newest > 0
      BY <1>0, <2>3
    <3>2. Halfway'
      BY <1>1, <1>3, <1>4, <2>4, <2>6, <2>8, <3>1 DEF Halfway, Mirrors
    <3>3. QED
      BY <2>7, <3>2 DEF ContactHolds
  <2>9. CASE ~HasEmail(m)
    <3>1. told[newest].event.email = Absent
      BY <1>1, <2>4, <2>9 DEF HasEmail
    <3>2. Known = {}
      BY <1>0, <2>6, <3>1, KnownContacts DEF Mirrors
    <3>3. Mirrors(newest)'
      BY <1>1, <1>3, <2>9, <3>2 DEF Mirrors, HasEmail
    <3>4. QED
      BY <2>7, <3>3 DEF ContactHolds
  <2>10. QED
    BY <2>8, <2>9
<1>7. QED
  BY <1>5, <1>6

LEMMA DeliverKeepsJobs ==
    ASSUME TypeOK, EventsAreTold, Grows, OrderHolds, ContactHolds, JobsHold, Clean',
           \A v \in Workers : JobKnows(v), NEW w \in Workers, NEW m \in updates, Deliver(w, m)
    PROVE  JobsHold'
<1>0. Typed /\ ContactsOK /\ job \in [Workers -> Jobs]
  BY Types DEF Typed
<1>1. m \in Events /\ m.nr \in 1..published /\ m.old \in Addresses /\ published \in Nat
  BY <1>0 DEF Typed, EventsAreTold, Events
<1>2. UNCHANGED <<told, contacts>> /\ Known' = Known
  BY DEF Deliver, stream, Known
<1>3. ASSUME NEW v \in Workers, job'[v] = job[v], job'[v].step # "idle"
      PROVE  JobInOrder(v)'
  BY <1>0, <1>2, <1>3, JobKept DEF JobsHold
<1>4. CASE ~HasEmail(m)
  BY <1>3, <1>4 DEF Deliver, JobsHold
<1>5. CASE HasEmail(m)
  <2> DEFINE id == FindContact(m)
             step == IF m.accepts THEN "put" ELSE IF id # NoId THEN "remove" ELSE "search"
  <2>1. /\ id \in Known \cup {NoId} /\ id \in ContactIds \cup {NoId}
        /\ id = NoId => \A c \in Known : contacts[c].email # m.old
        /\ id # NoId => contacts[id].email = m.old
    BY <1>0, <1>1, Lookup, KnownContacts DEF FindContact
  <2>2. /\ step \in {"idle", "remove", "search", "put"} /\ Start(w, m, step, id)
        /\ step = "remove" => id # NoId
        /\ step = "search" => id = NoId
        /\ step = "put" => m.accepts
    BY <1>5 DEF Deliver
  <2> HIDE DEF id, step
  <2>3. /\ job'[w].step = step /\ job'[w].event = m /\ job'[w].id = id
        /\ \A v \in Workers \ {w} : job'[v] = job[v]
    BY <1>0, <1>1, <2>1, <2>2, Starts
  <2>4. step = "remove" => m.old = told[m.nr - 1].event.email
    BY <2>1, <2>2, DeliverKeepsContact
  <2>5. JobInOrder(w)'
    BY <1>2, <2>1, <2>2, <2>3, <2>4 DEF JobInOrder
  <2>6. QED
    BY <1>3, <2>3, <2>5 DEF JobsHold
<1>6. QED
  BY <1>4, <1>5

\* A refusal takes the contact off the marketing list.
LEMMA RemoveKeepsContact ==
    ASSUME TypeOK, EventsAreTold, Grows, OrderHolds, ContactHolds, JobsHold,
           \A v \in Workers : JobKnows(v), NEW w \in Workers, RemoveFromMarketing(w)
    PROVE  ContactHolds' /\ JobsHold'
<1> DEFINE m == job[w].event
           k == job[w].id
<1>0. /\ Typed /\ ContactsOK /\ job \in [Workers -> Jobs] /\ newest \in Nat
      /\ newest <= published /\ published \in Nat
  BY Types DEF Typed
<1>1. /\ m \in Events /\ job[w].step = "remove" /\ Start(w, m, "search", NoId)
      /\ RemoveUserFromList("marketing", k) /\ UNCHANGED <<told, updates, newest, published>>
  BY <1>0 DEF RemoveFromMarketing, Jobs, stream, history
<1>2. /\ m.nr = newest /\ newest \in 1..published /\ m = told[newest].event /\ ~m.accepts
      /\ m.old = told[newest - 1].event.email /\ k \in Known /\ Follows(newest)
  BY <1>0, <1>1 DEF JobKnows, OrderHolds, WorkersInOrder, JobsHold, JobInOrder
<1>3. ~told[newest].listed
  BY <1>2, RefusalIsHeard
<1>4. \A c \in Known : c = k
  BY <1>0, <1>2, OneContact
<1>5. /\ Known' = Known
      /\ \A c \in Known : /\ contacts'[c].email = contacts[c].email
                          /\ contacts'[c].lists = contacts[c].lists \ {"marketing"}
  <2>1. ContactIsRemoved("marketing", k)
    BY <1>0, <1>1, ContactRemoved
  <2>2. QED
    BY <1>4, <2>1 DEF ContactIsRemoved
<1> HIDE DEF k
<1>6. ContactHolds'
  <2>1. CASE Mirrors(newest)
    <3>1. Mirrors(newest)'
      BY <1>1, <1>3, <1>5, <2>1 DEF Mirrors
    <3>2. QED
      BY <3>1 DEF ContactHolds
  <2>2. CASE Halfway
    <3>1. Halfway'
      BY <1>1, <1>2, <1>5, <2>2 DEF Halfway
    <3>2. QED
      BY <3>1 DEF ContactHolds
  <2>3. QED
    BY <2>1, <2>2 DEF ContactHolds
<1>7. ASSUME NEW v \in Workers, job'[v].step # "idle"
      PROVE  JobInOrder(v)'
  <2>1. /\ job'[w].step = "search" /\ job'[w].event = m /\ job'[w].id = NoId
        /\ \A u \in Workers \ {w} : job'[u] = job[u]
    BY <1>0, <1>1, Starts
  <2>2. CASE v = w
    BY <1>5, <2>1, <2>2 DEF JobInOrder
  <2>3. CASE v # w
    <3>1. job'[v] = job[v] /\ JobInOrder(v)
      BY <1>7, <2>1, <2>3 DEF JobsHold
    <3>2. QED
      BY <1>1, <1>5, <3>1 DEF JobInOrder
  <2>4. QED
    BY <2>2, <2>3
<1>8. QED
  BY <1>6, <1>7 DEF JobsHold

\* The contact is looked for once more.
LEMMA UpdateKeepsContact ==
    ASSUME TypeOK, EventsAreTold, Grows, ContactHolds, JobsHold,
           \A v \in Workers : JobKnows(v), NEW w \in Workers, UpdateUserContact(w)
    PROVE  ContactHolds' /\ JobsHold'
<1> DEFINE m == job[w].event
           id == ContactIdByEmail(m.old)
<1>0. /\ Typed /\ ContactsOK /\ job \in [Workers -> Jobs]
  BY Types DEF Typed
<1>1. /\ m \in Events /\ m.old \in Addresses /\ job[w].step = "search"
      /\ Start(w, m, "put", id) /\ UNCHANGED <<told, updates, contacts, newest>>
  BY <1>0 DEF UpdateUserContact, Jobs, Events, stream, history
<1>2. /\ id \in ContactIds \cup {NoId}
      /\ id = NoId => \A c \in Known : contacts[c].email # m.old
  BY <1>0, <1>1, Lookup, KnownContacts
<1> HIDE DEF id
<1>3. ContactHolds'
  BY <1>0, <1>1, ContactKept
<1>4. /\ job'[w].step = "put" /\ job'[w].event = m /\ job'[w].id = id
      /\ \A v \in Workers \ {w} : job'[v] = job[v]
  BY <1>0, <1>1, <1>2, Starts
<1>5. ASSUME NEW v \in Workers, job'[v].step # "idle"
      PROVE  JobInOrder(v)'
  <2>1. CASE v = w
    <3>1. JobInOrder(w) /\ Known' = Known
      BY <1>1 DEF JobsHold, Known
    <3>2. QED
      BY <1>1, <1>2, <1>4, <2>1, <3>1 DEF JobInOrder
  <2>2. CASE v # w
    BY <1>0, <1>1, <1>4, <1>5, <2>2, JobKept DEF JobsHold
  <2>3. QED
    BY <2>1, <2>2
<1>6. QED
  BY <1>3, <1>5 DEF JobsHold

\* The contact is written: SendGrid is where the event leads.
LEMMA PutKeepsContact ==
    ASSUME TypeOK, EventsAreTold, Grows, OrderHolds, ContactHolds, JobsHold,
           \A v \in Workers : JobKnows(v), NEW w \in Workers, PutContact(w)
    PROVE  ContactHolds' /\ JobsHold'
<1> DEFINE m == job[w].event
           lists == {"all"} \cup IF m.accepts THEN {"marketing"} ELSE {}
           before == told[newest - 1]
<1>0. /\ Typed /\ ContactsOK /\ job \in [Workers -> Jobs] /\ newest \in Nat
      /\ newest <= published /\ published \in Nat
  BY Types DEF Typed
<1>1. /\ m \in Events /\ m.accepts \in BOOLEAN /\ job[w].step = "put"
      /\ job[w].id \in ContactIds \cup {NoId}
      /\ AddUserToContacts(m.email, lists, job[w].id) /\ job' = [job EXCEPT ![w] = Free]
      /\ UNCHANGED <<told, newest, published>>
  BY <1>0 DEF PutContact, Jobs, Events, stream, history
<1>2. /\ m.nr = newest /\ newest \in 1..published /\ m = told[newest].event
      /\ Follows(newest) /\ m.email \in Emails
      /\ job[w].id # NoId => job[w].id \in Known
      /\ told[newest].listed = Listed(m, before)
      /\ ~told[0].listed
  BY <1>0, <1>1 DEF JobKnows, OrderHolds, WorkersInOrder, HasEmail, Events, Addresses,
                    EventsAreTold
<1>3. JobInOrder(w)
  BY <1>1 DEF JobsHold
<1>4. PICK c \in ContactIds : ContactIsWritten(c, m.email, lists, job[w].id)
  BY <1>0, <1>1, <1>2, ContactWritten DEF Lists
<1>5. \A d, e \in Known : d = e
  BY <1>0, OneContact
<1>6. Known' = {c}
  <2>1. CASE c \in Known
    BY <1>4, <1>5, <2>1 DEF ContactIsWritten
  <2>2. CASE c \notin Known
    <3>1. job[w].id = NoId /\ \A d \in Known : contacts[d].email # m.email
      BY <1>2, <1>4, <2>2 DEF ContactIsWritten
    <3>2. Known = {}
      <4> SUFFICES ASSUME NEW d \in Known PROVE FALSE
        OBVIOUS
      <4>1. contacts[d].email = before.event.email /\ contacts[d].email # m.email
        BY <1>2, <3>1 DEF ContactHolds, Mirrors, Halfway
      <4>2. m.old = contacts[d].email
        BY <1>2, <4>1 DEF Follows
      <4>3. QED
        BY <1>1, <1>3, <3>1, <4>1, <4>2 DEF JobInOrder
    <3>3. QED
      BY <1>4, <3>2 DEF ContactIsWritten
  <2>3. QED
    BY <2>1, <2>2
<1>7. contacts'[c].email = m.email /\ "all" \in contacts'[c].lists
  BY <1>4 DEF ContactIsWritten
<1>8. ("marketing" \in contacts'[c].lists) = told[newest].listed
  <2>1. m.email # Absent
    BY <1>2, MailingAssumption
  <2>2. CASE m.accepts
    BY <1>2, <1>4, <2>1, <2>2 DEF ContactIsWritten, Listed
  <2>3. CASE ~m.accepts
    <3>1. ("marketing" \in contacts'[c].lists) =
            (c \in Known /\ "marketing" \in contacts[c].lists)
      BY <1>4, <2>3 DEF ContactIsWritten
    <3>2. told[newest].listed = (m.old # before.event.email /\ before.listed)
      BY <1>2, <2>1, <2>3 DEF Listed
    <3>3. CASE c \notin Known
      <4>1. Known = {}
        BY <1>4, <1>6, <3>3 DEF ContactIsWritten
      <4>2. newest = 1 \/ before.event.email = Absent
        BY <1>0, <1>2, <2>1, <4>1 DEF ContactHolds, Mirrors, Halfway
      <4>3. m.old = before.event.email
        BY <1>2, <4>2 DEF Follows
      <4>4. QED
        BY <3>1, <3>2, <3>3, <4>3
    <3>4. CASE c \in Known /\ Mirrors(newest)
      BY <3>1, <3>4 DEF Mirrors
    <3>5. CASE c \in Known /\ Halfway
      <4>1. /\ contacts[c].email = before.event.email
            /\ \/ ("marketing" \in contacts[c].lists) = before.listed
               \/ m.old = before.event.email /\ "marketing" \notin contacts[c].lists
        BY <1>2, <3>5 DEF Halfway
      <4>2. m.old = before.event.email => "marketing" \notin contacts[c].lists
        BY <1>1, <1>3, <2>3, <3>5, <4>1 DEF JobInOrder
      <4>3. QED
        BY <3>1, <3>2, <3>5, <4>1, <4>2
    <3>6. QED
      BY <3>3, <3>4, <3>5 DEF ContactHolds
  <2>4. QED
    BY <1>1, <2>2, <2>3
<1>9. Mirrors(newest)'
  BY <1>1, <1>2, <1>6, <1>7, <1>8 DEF Mirrors
<1>10. ASSUME NEW v \in Workers, job'[v].step # "idle"
       PROVE  JobInOrder(v)'
  <2>1. job'[v] = job[v] /\ job[v].step # "idle"
    BY <1>0, <1>1, <1>10, FreeType
  <2>2. job[v].event = m
    BY <1>0, <1>2, <2>1 DEF OrderHolds, WorkersInOrder, JobKnows
  <2>3. JobInOrder(v)
    BY <2>1 DEF JobsHold
  <2>4. QED
    BY <1>0, <1>2, <1>6, <1>7, <1>8, <2>1, <2>2, <2>3, JobAtMirror
<1>11. QED
  BY <1>9, <1>10 DEF ContactHolds, JobsHold

\* The list of a payment is edited: at the address SendGrid has, so that no second
\* contact appears.
LEMMA EditKeepsContact ==
    ASSUME TypeOK, EventsAreTold, Grows, OrderHolds, ContactHolds, JobsHold,
           \A v \in Workers : JobKnows(v), NEW p \in Notices, EditPremiumList(p)
    PROVE  ContactHolds' /\ JobsHold'
<1>0. /\ Typed /\ ContactsOK /\ newest \in Nat /\ published \in Nat /\ newest <= published
  BY Types DEF Typed
<1>1. /\ UNCHANGED <<told, updates, newest, published, job>> /\ Paying(p)
  BY DEF EditPremiumList, stream, Paying
<1>2. PaymentInOrder(p) /\ told[0].listed = FALSE
  BY <1>0, <1>1 DEF OrderHolds, EventsAreTold, Typed, Telling
<1>3. ASSUME NEW v \in Workers, job[v].step # "idle"
      PROVE  /\ JobInOrder(v) /\ job[v].event.nr = newest /\ newest \in 1..published
             /\ job[v].event = told[newest].event /\ Follows(newest)
             /\ job[v].event.email # Absent
  BY <1>0, <1>3 DEF JobsHold, OrderHolds, WorkersInOrder, JobKnows, HasEmail
<1>4. CASE ~payment[p].charge
  <2>1. ContactIsRemoved("premium", payment[p].id)
    BY <1>0, <1>4, ListCalls, ContactRemoved
  <2>2. /\ Known' = Known
        /\ \A c \in Known : /\ contacts'[c].email = contacts[c].email
                            /\ \A list \in {"all", "marketing"} :
                                 list \in contacts'[c].lists <=> list \in contacts[c].lists
    BY <2>1 DEF ContactIsRemoved
  <2>3. ContactHolds'
    <3>1. CASE Mirrors(newest)
      BY <1>1, <2>2, <3>1 DEF Mirrors, ContactHolds
    <3>2. CASE Halfway
      BY <1>1, <2>2, <3>2 DEF Halfway, ContactHolds
    <3>3. QED
      BY <3>1, <3>2 DEF ContactHolds
  <2>4. ASSUME NEW v \in Workers, job'[v].step # "idle"
        PROVE  JobInOrder(v)'
    <3>1. JobInOrder(v) /\ job'[v] = job[v]
      BY <1>1, <1>3, <2>4
    <3>2. QED
      BY <1>1, <2>2, <3>1 DEF JobInOrder
  <2>5. QED
    BY <2>3, <2>4 DEF JobsHold
<1>5. CASE payment[p].charge
  <2> DEFINE e == payment[p].email
  <2>1. /\ e \in Emails /\ payment[p].id \in ContactIds \cup {NoId}
        /\ AddUserToContacts(e, {"premium"}, payment[p].id) /\ e = row.email
    BY <1>0, <1>2, <1>5, ListCalls DEF PaymentInOrder
  <2>2. \A c \in Known : contacts[c].email = e
    BY <1>0, <1>2, <2>1, PaymentMeetsContact DEF PaymentInOrder
  <2>3. \A c, d \in Known : c = d
    BY <1>0, OneContact
  <2>4. PICK c \in ContactIds : ContactIsWritten(c, e, {"premium"}, payment[p].id)
    BY <1>0, <2>1, ContactWritten DEF Lists
  <2>5. c \in Known \/ Known = {}
    BY <2>2, <2>4 DEF ContactIsWritten
  <2>6. /\ Known' = {c} /\ contacts'[c].email = e /\ e # Absent
        /\ \A list \in {"all", "marketing"} :
             list \in contacts'[c].lists <=> c \in Known /\ list \in contacts[c].lists
    <3>1. Known' = {c}
      BY <2>3, <2>4, <2>5 DEF ContactIsWritten
    <3>2. QED
      BY <2>1, <2>4, <3>1, MailingAssumption DEF ContactIsWritten
  <2> HIDE DEF e
  <2>7. newest > 0 => newest - 1 \in 0..published /\ newest \in 1..published
    BY <1>0
  <2>8. CASE Mirrors(newest)
    <3>1. told[newest].event.email = e
      <4>1. CASE c \in Known
        BY <2>2, <2>8, <4>1 DEF Mirrors
      <4>2. CASE Known = {}
        <5>1. newest = 0 \/ told[newest].event.email = Absent
          BY <1>0, <2>8, <4>2 DEF Mirrors
        <5>2. CASE newest = published
          BY <1>2, <2>1, <5>2 DEF PaymentInOrder, OrderHolds, RowWillBeTold, Latest
        <5>3. CASE newest # published
          <6>1. newest + 1 \in (newest + 1)..published /\ newest + 1 \in 1..published
            BY <1>0, <5>3
          <6>2. PICK k \in 1..published : k \in (newest + 1)..published /\ k - 1 = newest
            BY <1>0, <6>1
          <6>3. told[k].event \in updates /\ Follows(k)
            BY <6>2 DEF EventsAreTold, OrderHolds
          <6>4. told[k].event.old = e /\ told[k].event.email = e
            BY <1>2, <2>1, <6>3 DEF PaymentInOrder
          <6>5. QED
            BY <6>2, <6>3, <6>4 DEF Follows
        <5>4. QED
          BY <5>2, <5>3
      <4>3. QED
        BY <2>5, <4>1, <4>2
    <3>2. Known = {} => newest = 0
      BY <1>0, <2>6, <2>8, <3>1 DEF Mirrors
    <3>3. ("marketing" \in contacts'[c].lists) = told[newest].listed
      <4>1. CASE c \in Known
        BY <2>6, <2>8, <4>1 DEF Mirrors
      <4>2. CASE c \notin Known
        <5>1. told[newest].listed = FALSE
          BY <1>2, <2>5, <3>2, <4>2
        <5>2. "marketing" \notin contacts'[c].lists
          BY <2>6, <4>2
        <5>3. ("marketing" \in contacts'[c].lists) = FALSE
          BY <5>2
        <5>4. QED
          BY <5>1, <5>3
      <4>3. QED
        BY <4>1, <4>2
    <3>4. newest > 0 => "all" \in contacts'[c].lists
      BY <1>0, <2>5, <2>6, <2>8, <3>2 DEF Mirrors
    <3>5. Mirrors(newest)'
      BY <1>1, <2>6, <3>1, <3>3, <3>4 DEF Mirrors
    <3>6. ASSUME NEW v \in Workers, job'[v].step # "idle"
          PROVE  JobInOrder(v)'
      <4>1. job'[v] = job[v] /\ job[v].step # "idle"
        BY <1>1, <3>6
      <4>2. \A d \in Known' : /\ contacts'[d].email = job[v].event.email
                              /\ ("marketing" \in contacts'[d].lists) = told[job[v].event.nr].listed
        BY <1>3, <2>6, <3>1, <3>3, <4>1
      <4>3. QED
        BY <1>0, <1>3, <4>1, <4>2, JobAtMirror
    <3>7. QED
      BY <3>5, <3>6 DEF ContactHolds, JobsHold
  <2>9. CASE Halfway
    <3> DEFINE m == told[newest].event
               before == told[newest - 1]
    <3>1. /\ newest \in 1..published /\ newest > 0 /\ m \in updates
          /\ m.old = e /\ m.email = e /\ Follows(newest)
      BY <1>0, <1>2, <2>1, <2>9 DEF Halfway, PaymentInOrder, OrderHolds
    <3>2. before.event.email = e
      BY <3>1 DEF Follows
    <3>3. c \notin Known => newest = 1
      BY <1>0, <2>5, <2>6, <2>9, <3>1, <3>2 DEF Halfway
    <3>4. \/ ("marketing" \in contacts'[c].lists) = before.listed
          \/ ~m.accepts /\ m.old = before.event.email /\ "marketing" \notin contacts'[c].lists
      <4>1. CASE c \in Known
        BY <2>6, <2>9, <4>1 DEF Halfway
      <4>2. CASE c \notin Known
        <5>1. before = told[0]
          BY <3>3, <4>2
        <5>2. before.listed = FALSE
          BY <1>2, <5>1
        <5>3. "marketing" \notin contacts'[c].lists
          BY <2>6, <4>2
        <5>4. ("marketing" \in contacts'[c].lists) = FALSE
          BY <5>3
        <5>5. QED
          BY <5>2, <5>4
      <4>3. QED
        BY <4>1, <4>2
    <3>5. Halfway'
      BY <1>1, <2>6, <3>1, <3>2, <3>4 DEF Halfway
    <3>6. ASSUME NEW v \in Workers, job'[v].step # "idle"
          PROVE  JobInOrder(v)'
      <4>1. /\ job'[v] = job[v] /\ job[v].step # "idle" /\ JobInOrder(v)
            /\ job[v].event = m
        BY <1>1, <1>3, <3>6
      <4>2. job[v].event.old = job[v].event.email /\ told' = told
        BY <1>1, <3>1, <4>1
      <4>3. c \in Known => contacts[c].email = job[v].event.old
        BY <2>2, <3>1, <4>1
      <4>4. job[v].step \in {"search", "put"} /\ ~job[v].event.accepts =>
              "marketing" \notin contacts'[c].lists
        BY <2>6, <4>1, <4>3 DEF JobInOrder
      <4>5. QED
        BY <2>6, <4>1, <4>2, <4>4 DEF JobInOrder
    <3>7. QED
      BY <3>5, <3>6 DEF ContactHolds, JobsHold
  <2>10. QED
    BY <2>8, <2>9 DEF ContactHolds
<1>6. QED
  BY <1>4, <1>5

LEMMA CleanPreserved ==
    ASSUME TypeOK, EventsAreTold, \A w \in Workers : JobKnows(w),
           InOrder => OrderHolds, Clean => ContactHolds /\ JobsHold, [Next]_vars, Clean'
    PROVE  ContactHolds' /\ JobsHold'
<1>0. /\ Typed /\ Grows /\ OrderHolds /\ ContactHolds /\ JobsHold /\ InOrder'
      /\ job \in [Workers -> Jobs]
  BY Types, EverythingGrows, CleanStays DEF Typed, Clean
<1>k. ASSUME UNCHANGED <<contacts, newest>>,
             \A m \in updates : m.nr = newest => m \in updates',
             \A v \in Workers : job'[v] = job[v] \/ job'[v].step = "idle"
      PROVE  ContactHolds' /\ JobsHold'
  <2>1. newest > 0 /\ told[newest].event \in updates => told[newest].event \in updates'
    <3>1. newest \in 0..published
      BY <1>0 DEF Typed
    <3>2. told[newest].event.nr = newest
      BY <3>1 DEF EventsAreTold
    <3>3. QED
      BY <1>k, <3>2
  <2>2. ContactHolds'
    BY <1>0, <1>k, <2>1, ContactKept
  <2>3. ASSUME NEW v \in Workers, job'[v].step # "idle"
        PROVE  JobInOrder(v)'
    BY <1>0, <1>k, <2>3, JobKept DEF JobsHold
  <2>4. QED
    BY <2>2, <2>3 DEF JobsHold
<1>1. ASSUME NEW w \in Workers, NEW m \in updates, Deliver(w, m)
      PROVE  ContactHolds' /\ JobsHold'
  BY <1>0, <1>1, DeliverKeepsContact, DeliverKeepsJobs
<1>2. ASSUME NEW w \in Workers, RemoveFromMarketing(w)
      PROVE  ContactHolds' /\ JobsHold'
  BY <1>0, <1>2, RemoveKeepsContact
<1>3. ASSUME NEW w \in Workers, UpdateUserContact(w)
      PROVE  ContactHolds' /\ JobsHold'
  BY <1>0, <1>3, UpdateKeepsContact
<1>4. ASSUME NEW w \in Workers, PutContact(w)
      PROVE  ContactHolds' /\ JobsHold'
  BY <1>0, <1>4, PutKeepsContact
<1>5. ASSUME NEW w \in Workers, Fail(w)
      PROVE  ContactHolds' /\ JobsHold'
  <2>1. job' = [job EXCEPT ![w] = Free] /\ UNCHANGED <<contacts, newest, updates>>
    BY <1>0, <1>5 DEF Fail, InOrder
  <2>2. \A v \in Workers : job'[v] = job[v] \/ job'[v].step = "idle"
    BY <1>0, <2>1, FreeType
  <2>3. QED
    BY <1>k, <2>1, <2>2
<1>6. ASSUME NEW p \in Notices, EditPremiumList(p)
      PROVE  ContactHolds' /\ JobsHold'
  BY <1>0, <1>6, EditKeepsContact
<1>7. ASSUME OnUserChange
      PROVE  ContactHolds' /\ JobsHold'
  <2>1. UNCHANGED <<contacts, newest, job>> /\ updates \subseteq updates'
    BY <1>7 DEF OnUserChange
  <2>2. QED
    BY <1>k, <2>1
<1>8. CASE \/ \E email \in Emails, accepts \in BOOLEAN : Save(email, accepts)
           \/ \E p \in Notices : \/ \E charge \in BOOLEAN : Notify(p, charge)
                                 \/ WritePremium(p) \/ IpnFails(p)
           \/ UNCHANGED vars
  <2>1. UNCHANGED <<contacts, newest, job, updates>>
    BY <1>8 DEF Save, Notify, WritePremium, IpnFails, vars, history
  <2>2. QED
    BY <1>k, <2>1
<1>9. QED
  BY <1>1, <1>2, <1>3, <1>4, <1>5, <1>6, <1>7, <1>8 DEF Next

-----------------------------------------------------------------------------
(* Payments.                                                               *)

Premium(c) == "premium" \in contacts[c].lists

\* A worker neither adds the contact to the premium list nor takes it off.
LEMMA WorkersLeavePremium ==
    ASSUME TypeOK, \A w \in Workers : JobKnows(w), NEW w \in Workers,
           RemoveFromMarketing(w) \/ PutContact(w)
    PROVE  /\ \A c \in Known : Premium(c) => c \in Known' /\ Premium(c)'
           /\ \A c \in Known' : Premium(c)' => c \in Known /\ Premium(c)
<1>0. Typed /\ ContactsOK
  BY Types DEF Typed
<1>1. CASE RemoveFromMarketing(w)
  <2>1. ContactIsRemoved("marketing", job[w].id)
    BY <1>0, <1>1, ContactRemoved DEF RemoveFromMarketing
  <2>2. QED
    BY <2>1 DEF ContactIsRemoved, Premium
<1>2. CASE PutContact(w)
  <2> DEFINE m == job[w].event
             lists == {"all"} \cup IF m.accepts THEN {"marketing"} ELSE {}
  <2>1. /\ m.email \in Emails /\ job[w].id \in ContactIds \cup {NoId}
        /\ AddUserToContacts(m.email, lists, job[w].id)
    BY <1>0, <1>2 DEF PutContact, Typed, Jobs, JobKnows, HasEmail, Events, Addresses
  <2>2. PICK c \in ContactIds : ContactIsWritten(c, m.email, lists, job[w].id)
    BY <1>0, <2>1, ContactWritten DEF Lists
  <2>3. "premium" \notin lists
    OBVIOUS
  <2> HIDE DEF lists, m
  <2>4. QED
    BY <2>2, <2>3 DEF ContactIsWritten, Premium
<1>3. QED
  BY <1>1, <1>2

\* A notification finds the contact, if there is one.
LEMMA PayerIsFound ==
    ASSUME TypeOK, EventsAreTold, OrderHolds, ContactHolds, ~AddressMoves
    PROVE  /\ Payer \in Known \cup {NoId}
           /\ Payer = NoId => Known = {}
<1>0. Typed /\ ContactsOK /\ row.email \in Addresses
  BY Types DEF Typed, Rows
<1>1. /\ \A i \in DOMAIN changes : changes[i] = row.email
      /\ \A m \in updates : m.old = row.email /\ m.email = row.email
  BY DEF AddressMoves
<1>2. \A c \in Known : contacts[c].email = row.email
  BY <1>0, <1>1, PaymentMeetsContact
<1>3. QED
  BY <1>0, <1>2, Lookup DEF Payer

\* A notification that goes on, or waits: what it knows holds, if it is still alone
\* and nothing has happened to the flag and the list but by itself.
LEMMA PaymentGoesOn ==
    ASSUME Grows, Clean' => Clean, NEW p \in Notices, PaymentKnows(p),
           payment'[p].id = payment[p].id,
           payment'[p].alone =>
              /\ payment[p].alone
              /\ \A q \in Notices \ {p} : Paying(q)' => Paying(q)
              /\ payment'[p].step = "list" => row'.premium = payment'[p].charge
              /\ \A c \in Known' : Premium(c)' => c \in Known /\ Premium(c)
    PROVE  PaymentKnows(p)'
<1>1. payment'[p].id # NoId => payment'[p].id \in Known'
  BY DEF PaymentKnows, Grows
<1>2. payment'[p].alone => \A q \in Notices \ {p} : ~Paying(q)'
  BY DEF PaymentKnows
<1>3. Clean' /\ payment'[p].alone /\ payment'[p].id = NoId =>
         \A c \in Known' : "premium" \notin contacts'[c].lists
  BY DEF PaymentKnows, Premium
<1>4. QED
  BY <1>1, <1>2, <1>3 DEF PaymentKnows

\* While a notification does something, no other one is alone.
LEMMA NobodyElseIsAlone ==
    ASSUME NEW p \in Notices, Paying(p), \A q \in Notices : PaymentKnows(q)
    PROVE  \A q \in Notices \ {p} : ~payment[q].alone
BY DEF PaymentKnows

LEMMA PaymentPreserved ==
    ASSUME TypeOK, EventsAreTold, \A w \in Workers : JobKnows(w),
           \A p \in Notices : PaymentKnows(p),
           InOrder => OrderHolds, Clean => ContactHolds, [Next]_vars
    PROVE  \A p \in Notices : PaymentKnows(p)'
<1>0. Typed /\ Grows /\ ContactsOK /\ (Clean' => Clean)
  BY Types, EverythingGrows, CleanStays DEF Typed
<1>k. ASSUME UNCHANGED payment, row'.premium = row.premium,
             \A c \in Known' : Premium(c)' => c \in Known /\ Premium(c)
      PROVE  \A p \in Notices : PaymentKnows(p)'
  <2> TAKE p \in Notices
  <2>1. payment[p].alone /\ payment[p].step = "list" => row'.premium = payment[p].charge
    BY <1>k DEF PaymentKnows
  <2>2. \A q \in Notices : Paying(q)' => Paying(q)
    BY <1>k DEF Paying
  <2>3. QED
    BY <1>0, <1>k, <2>1, <2>2, PaymentGoesOn
<1>u. ASSUME UNCHANGED <<payment, contacts>>, row'.premium = row.premium
      PROVE  \A p \in Notices : PaymentKnows(p)'
  <2>1. \A c \in Known' : Premium(c)' => c \in Known /\ Premium(c)
    BY <1>u DEF Known, Premium
  <2>2. QED
    BY <1>k, <1>u, <2>1
\* The others, when one of them does something.
<1>o. ASSUME NEW p \in Notices, Paying(p), NEW q \in Notices \ {p}, payment'[q] = payment[q]
      PROVE  PaymentKnows(q)'
  BY <1>0, <1>o, NobodyElseIsAlone, PaymentGoesOn
<1>1. ASSUME NEW email \in Emails, NEW accepts \in BOOLEAN, Save(email, accepts)
      PROVE  \A p \in Notices : PaymentKnows(p)'
  <2>1. row'.premium = row.premium
    BY <1>0, <1>1 DEF Save, ChangeRow, Typed, Rows, Addresses
  <2>2. UNCHANGED <<payment, contacts>>
    BY <1>1 DEF Save
  <2>3. QED
    BY <1>u, <2>1, <2>2
<1>2. ASSUME NEW w \in Workers, RemoveFromMarketing(w) \/ PutContact(w)
      PROVE  \A p \in Notices : PaymentKnows(p)'
  <2>1. \A c \in Known' : Premium(c)' => c \in Known /\ Premium(c)
    BY <1>2, WorkersLeavePremium
  <2>2. UNCHANGED <<payment, row>>
    BY <1>2 DEF RemoveFromMarketing, PutContact, stream
  <2>3. QED
    BY <1>k, <2>1, <2>2
<1>3. ASSUME NEW p \in Notices, NEW charge \in BOOLEAN, Notify(p, charge)
      PROVE  \A q \in Notices : PaymentKnows(q)'
  <2>1. /\ payment'[p].id = Payer /\ payment'[p].step = "flag"
        /\ payment'[p].alone => \A q \in Notices : ~Paying(q)
        /\ \A q \in Notices \ {p} : /\ payment'[q].step = payment[q].step
                                    /\ payment'[q].id = payment[q].id /\ ~payment'[q].alone
        /\ AddressMoves => "crossed" \in excuses'
    BY <1>0, <1>3, NotifyMoves
  <2>2. UNCHANGED contacts /\ Known' = Known
    BY <1>3 DEF Notify, Known
  <2>3. Payer \in Known \cup {NoId}
    BY <1>0, Lookup DEF Payer, Typed, Rows
  <2>4. ASSUME Clean', Payer = NoId
        PROVE  Known = {}
    <3>1. OrderHolds /\ ContactHolds
      BY <1>0, <2>4 DEF Clean
    <3>2. ~AddressMoves
      BY <2>1, <2>4 DEF Clean, InOrder
    <3>3. QED
      BY <2>4, <3>1, <3>2, PayerIsFound
  <2>5. PaymentKnows(p)'
    <3>1. payment'[p].alone => \A q \in Notices \ {p} : ~Paying(q)'
      BY <2>1 DEF Paying
    <3>2. QED
      BY <2>1, <2>2, <2>3, <2>4, <3>1 DEF PaymentKnows
  <2>6. ASSUME NEW q \in Notices \ {p}
        PROVE  PaymentKnows(q)'
    BY <1>0, <2>1, PaymentGoesOn
  <2>7. QED
    BY <2>5, <2>6
<1>4. ASSUME NEW p \in Notices, WritePremium(p)
      PROVE  \A q \in Notices : PaymentKnows(q)'
  <2>1. /\ payment[p].step = "flag" /\ payment'[p].id = payment[p].id
        /\ payment'[p].alone = payment[p].alone /\ payment'[p].charge = payment[p].charge
        /\ \A q \in Notices \ {p} : payment'[q] = payment[q]
        /\ payment[p].charge \in BOOLEAN
    BY <1>0, <1>4, FlagMoves
  <2>2. row'.premium = payment[p].charge
    BY <1>0, <1>4, <2>1 DEF WritePremium, ChangeRow, Typed, Rows
  <2>3. \A c \in Known' : Premium(c)' => c \in Known /\ Premium(c)
    BY <1>4 DEF WritePremium, Known, Premium
  <2>4. \A q \in Notices \ {p} : Paying(q)' => Paying(q)
    BY <2>1 DEF Paying
  <2>5. PaymentKnows(p)'
    BY <1>0, <2>1, <2>2, <2>3, <2>4, PaymentGoesOn
  <2>6. Paying(p)
    BY <2>1 DEF Paying
  <2>7. QED
    BY <1>o, <2>1, <2>5, <2>6
<1>5. ASSUME NEW p \in Notices, EditPremiumList(p) \/ IpnFails(p)
      PROVE  \A q \in Notices : PaymentKnows(q)'
  <2>1. /\ payment'[p] = NoPayment /\ Paying(p)
        /\ \A q \in Notices \ {p} : payment'[q] = payment[q]
    BY <1>0, <1>5, PaymentEnds
  <2>2. PaymentKnows(p)'
    BY <2>1 DEF PaymentKnows, NoPayment
  <2>3. QED
    BY <1>o, <2>1, <2>2
<1>6. CASE \/ OnUserChange \/ UNCHANGED vars
           \/ \E w \in Workers : \/ \E m \in updates : Deliver(w, m)
                                 \/ UpdateUserContact(w) \/ Fail(w)
  <2>1. UNCHANGED <<payment, contacts, row>>
    BY <1>6 DEF OnUserChange, vars, Deliver, UpdateUserContact, Fail, stream
  <2>2. QED
    BY <1>u, <2>1
<1>7. QED
  BY <1>1, <1>2, <1>3, <1>4, <1>5, <1>6 DEF Next

\* The premium list follows the flag, unless a notification has ended between them
\* or met another one.
LEMMA PremiumPreserved ==
    ASSUME TypeOK, EventsAreTold, \A w \in Workers : JobKnows(w),
           \A p \in Notices : PaymentKnows(p),
           InOrder => OrderHolds, Clean => ContactHolds,
           Clean /\ "unpaid" \notin excuses => PremiumInOrder,
           [Next]_vars, Clean', "unpaid" \notin excuses'
    PROVE  PremiumInOrder'
<1>0. Typed /\ ContactsOK /\ Clean /\ OrderHolds /\ ContactHolds
  BY Types, CleanStays DEF Typed, Clean
<1>k. ASSUME "unpaid" \notin excuses, UNCHANGED row.premium,
             \A p \in Notices : payment'[p] = payment[p] \/ ~Paying(p)',
             (\A p \in Notices : payment'[p].step # "list") =>
                \A p \in Notices : payment[p].step # "list",
             \A c \in Known : Premium(c) => c \in Known' /\ Premium(c)',
             \A c \in Known' : Premium(c)' => c \in Known /\ Premium(c)
      PROVE  PremiumInOrder'
  <2>1. PremiumInOrder
    BY <1>0, <1>k
  <2>2. \A p \in Notices : Paying(p)' => payment'[p].alone
    BY <1>k, <2>1 DEF PremiumInOrder, Paying
  <2>3. (\E c \in Known : Premium(c)) <=> (\E c \in Known' : Premium(c)')
    BY <1>k
  <2>4. ASSUME \A p \in Notices : payment'[p].step # "list"
        PROVE  row'.premium = (\E c \in Known' : Premium(c)')
    <3>1. row.premium = (\E c \in Known : Premium(c))
      BY <1>k, <2>1, <2>4 DEF PremiumInOrder, Premium
    <3>2. QED
      BY <1>k, <2>3, <3>1
  <2>5. QED
    BY <2>2, <2>4 DEF PremiumInOrder, Premium
<1>u. ASSUME UNCHANGED <<contacts, payment>>, "unpaid" \notin excuses, UNCHANGED row.premium
      PROVE  PremiumInOrder'
  <2>1. Known' = Known /\ \A c \in Known : Premium(c)' <=> Premium(c)
    BY <1>u DEF Known, Premium
  <2>2. QED
    BY <1>k, <1>u, <2>1
<1>1. ASSUME NEW email \in Emails, NEW accepts \in BOOLEAN, Save(email, accepts)
      PROVE  PremiumInOrder'
  <2>1. row'.premium = row.premium
    BY <1>0, <1>1 DEF Save, ChangeRow, Typed, Rows, Addresses
  <2>2. UNCHANGED <<payment, contacts>> /\ "unpaid" \notin excuses
    BY <1>1 DEF Save, Excuse
  <2>3. QED
    BY <1>u, <2>1, <2>2
<1>2. ASSUME NEW w \in Workers, RemoveFromMarketing(w) \/ PutContact(w)
      PROVE  PremiumInOrder'
  <2>1. /\ \A c \in Known : Premium(c) => c \in Known' /\ Premium(c)'
        /\ \A c \in Known' : Premium(c)' => c \in Known /\ Premium(c)
    BY <1>2, WorkersLeavePremium
  <2>2. UNCHANGED <<payment, row, excuses>>
    BY <1>2 DEF RemoveFromMarketing, PutContact, stream, history
  <2>3. QED
    BY <1>k, <2>1, <2>2
<1>3. CASE \/ OnUserChange \/ UNCHANGED vars
           \/ \E w \in Workers : \/ \E m \in updates : Deliver(w, m)
                                 \/ UpdateUserContact(w) \/ Fail(w)
  <2>1. UNCHANGED <<payment, contacts, row>> /\ "unpaid" \notin excuses
    BY <1>3 DEF OnUserChange, vars, Deliver, UpdateUserContact, Fail, stream, history, Excuse
  <2>2. QED
    BY <1>u, <2>1
<1>4. ASSUME NEW p \in Notices, NEW charge \in BOOLEAN, Notify(p, charge)
      PROVE  PremiumInOrder'
  <2>1. /\ \A q \in Notices : ~Paying(q)
        /\ payment'[p].alone /\ "unpaid" \notin excuses
        /\ \A q \in Notices \ {p} : payment'[q].step = payment[q].step
    BY <1>0, <1>4, NotifyMoves
  <2>2. \A q \in Notices : Paying(q)' => payment'[q].alone
    BY <2>1 DEF Paying
  <2>3. UNCHANGED <<contacts, row>> /\ Known' = Known
    BY <1>4 DEF Notify, Known
  <2>4. row.premium = (\E c \in Known : "premium" \in contacts[c].lists)
    BY <1>0, <2>1 DEF PremiumInOrder, Paying
  <2>5. QED
    BY <2>2, <2>3, <2>4 DEF PremiumInOrder
<1>5. ASSUME NEW p \in Notices, WritePremium(p)
      PROVE  PremiumInOrder'
  <2>1. /\ payment[p].step = "flag" /\ payment'[p].step = "list"
        /\ payment'[p].alone = payment[p].alone
        /\ \A q \in Notices \ {p} : payment'[q] = payment[q]
    BY <1>0, <1>5, FlagMoves
  <2>2. PremiumInOrder
    BY <1>0, <1>5 DEF WritePremium, history
  <2>3. \A q \in Notices : Paying(q)' => payment'[q].alone
    BY <2>1, <2>2 DEF PremiumInOrder, Paying
  <2>4. QED
    BY <2>1, <2>3 DEF PremiumInOrder
<1>6. ASSUME NEW p \in Notices, IpnFails(p)
      PROVE  PremiumInOrder'
  <2>1. /\ UNCHANGED <<contacts, row>> /\ payment[p].step # "list" /\ "unpaid" \notin excuses
    BY <1>6 DEF IpnFails, Excuse, stream
  <2>2. ~Paying(p)' /\ \A q \in Notices \ {p} : payment'[q] = payment[q]
    BY <1>0, <1>6, PaymentEnds
  <2>3. Known' = Known /\ \A c \in Known : Premium(c)' <=> Premium(c)
    BY <2>1 DEF Known, Premium
  <2>4. QED
    BY <1>k, <2>1, <2>2, <2>3
<1>7. ASSUME NEW p \in Notices, EditPremiumList(p)
      PROVE  PremiumInOrder'
  <2> DEFINE r == payment[p]
  <2>1. /\ r \in Payments /\ r.charge \in BOOLEAN /\ r.id \in ContactIds \cup {NoId}
        /\ r.step = "list" /\ Paying(p)
    BY <1>0, <1>7, ListCalls DEF Paying
  <2>2. r.alone
    BY <1>0, <1>7, <2>1 DEF EditPremiumList, PremiumInOrder
  <2>3. /\ row' = row /\ row.premium = r.charge
        /\ r.id # NoId => r.id \in Known
        /\ r.id = NoId => \A c \in Known : ~Premium(c)
    BY <1>0, <1>7, <2>1, <2>2 DEF EditPremiumList, stream, PaymentKnows, Premium
  <2>4. \A q \in Notices : ~Paying(q)'
    <3>1. ~Paying(p)' /\ \A q \in Notices \ {p} : payment'[q] = payment[q] /\ ~Paying(q)
      BY <1>0, <1>7, <2>2, PaymentEnds DEF PaymentKnows
    <3>2. QED
      BY <3>1 DEF Paying
  <2>5. CASE r.charge
    <3>1. r.email \in Emails /\ AddUserToContacts(r.email, {"premium"}, r.id)
      BY <1>0, <1>7, <2>5, ListCalls
    <3>2. PICK c \in ContactIds : ContactIsWritten(c, r.email, {"premium"}, r.id)
      BY <1>0, <2>1, <3>1, ContactWritten DEF Lists
    <3>3. c \in Known' /\ Premium(c)'
      BY <3>2 DEF ContactIsWritten, Premium
    <3>4. row'.premium = TRUE
      BY <2>1, <2>3, <2>5
    <3>5. (\E d \in Known' : Premium(d)') = TRUE
      BY <3>3
    <3>6. QED
      BY <2>4, <3>4, <3>5 DEF PremiumInOrder, Premium
  <2>6. CASE ~r.charge
    <3>1. ContactIsRemoved("premium", r.id)
      BY <1>0, <1>7, <2>6, ListCalls, ContactRemoved
    <3>2. \A c \in Known' : ~Premium(c)'
      <4>1. \A c \in Known : c = r.id \/ ~Premium(c)
        BY <1>0, <2>3, OneContact
      <4>2. QED
        BY <3>1, <4>1 DEF ContactIsRemoved, Premium
    <3>3. row'.premium = FALSE
      BY <2>1, <2>3, <2>6
    <3>4. (\E d \in Known' : Premium(d)') = FALSE
      BY <3>2
    <3>5. QED
      BY <2>4, <3>3, <3>4 DEF PremiumInOrder, Premium
  <2>7. QED
    BY <2>5, <2>6
<1>8. QED
  BY <1>1, <1>2, <1>3, <1>4, <1>5, <1>6, <1>7 DEF Next

-----------------------------------------------------------------------------
(* The theorems.                                                           *)

LEMMA InvariantByParts ==
    /\ MailingInvariant <=>
          /\ TypeOK /\ EventsAreTold /\ AddressStays
          /\ \A p \in Notices : PaymentKnows(p)
          /\ \A w \in Workers : JobKnows(w)
          /\ InOrder => OrderHolds
          /\ Clean => ContactHolds /\ JobsHold
          /\ Clean /\ "unpaid" \notin excuses => PremiumInOrder
BY DEF MailingInvariant, OrderHolds, ContactHolds, JobsHold

LEMMA InitialInvariant ==
    Init => MailingInvariant
<1> SUFFICES ASSUME Init
             PROVE  MailingInvariant
  OBVIOUS
<1> DEFINE first == [nr |-> 0, old |-> row.email, email |-> row.email, accepts |-> TRUE]
           telling == [event |-> first, listed |-> FALSE]
<1>1. /\ row \in Rows /\ row.email \in Addresses /\ row.premium = FALSE
  BY DEF Init, Rows
<1>2. /\ first \in Events /\ telling \in Telling /\ telling.event = first
      /\ telling.listed = FALSE /\ first.nr = 0 /\ first.email = row.email
  BY <1>1, MailingAssumption DEF Events, Telling
<1>3. told = [k \in {0} |-> telling]
  BY DEF Init
<1> HIDE DEF first, telling
<1>4. /\ 0..published = {0} /\ published = 0 /\ newest = 0 /\ changes = <<>> /\ updates = {}
      /\ made = 0 /\ faults = 0 /\ excuses = {}
      /\ payment = [p \in Notices |-> NoPayment]
      /\ \A w \in Workers : job[w] = Free
      /\ job \in [Workers -> Jobs] /\ contacts = [c \in ContactIds |-> Unused]
  BY FreeType DEF Init
<1>5. told \in [0..published -> Telling] /\ told[0] = telling
  BY <1>2, <1>3, <1>4
<1>6. Known = {} /\ ContactsOK
  BY <1>4 DEF Known, ContactsOK
<1>7. /\ payment \in [Notices -> Payments]
      /\ \A p \in Notices : payment[p] = NoPayment /\ ~Paying(p)
      /\ \A w \in Workers : job[w].step = "idle"
  BY <1>4, FreeType DEF Paying
<1>8. /\ changes \in Seq(Addresses) /\ Len(changes) = 0 /\ DOMAIN changes = {}
  BY <1>4
<1>9. TypeOK
  BY <1>1, <1>4, <1>5, <1>6, <1>7, <1>8, MailingAssumption
     DEF TypeOK, Rows, Jobs, Payments, Telling, ContactsOK, Contacts, Lists
<1>10. EventsAreTold
  BY <1>2, <1>4, <1>5, <1>7, <1>8 DEF EventsAreTold
<1>11. AddressStays
  BY <1>2, <1>4, <1>5, <1>8 DEF AddressStays, Latest
<1>12. /\ \A p \in Notices : PaymentKnows(p)
       /\ \A w \in Workers : JobKnows(w)
  BY <1>4, <1>6, <1>7 DEF PaymentKnows, NoPayment, JobKnows
<1>13. OrderHolds
  BY <1>2, <1>4, <1>5, <1>7 DEF OrderHolds, RowWillBeTold, WorkersInOrder, Latest
<1>14. ContactHolds /\ JobsHold
  BY <1>4, <1>6, <1>7 DEF ContactHolds, Mirrors, JobsHold
<1>15. PremiumInOrder
  BY <1>1, <1>6, <1>7 DEF PremiumInOrder
<1>16. QED
  BY <1>9, <1>10, <1>11, <1>12, <1>13, <1>14, <1>15, InvariantByParts

\* Every step keeps the invariant.
LEMMA InvariantPreserved ==
    ASSUME MailingInvariant, [Next]_vars
    PROVE  MailingInvariant'
<1>1. /\ TypeOK /\ EventsAreTold /\ AddressStays
      /\ \A p \in Notices : PaymentKnows(p)
      /\ \A w \in Workers : JobKnows(w)
      /\ InOrder => OrderHolds
      /\ Clean => ContactHolds /\ JobsHold
      /\ Clean /\ "unpaid" \notin excuses => PremiumInOrder
  BY InvariantByParts
<1>2. TypeOK'
  BY <1>1, TypePreserved
<1>3. EventsAreTold' /\ AddressStays'
  BY <1>1, EventsPreserved
<1>4. \A v \in Workers : JobKnows(v)'
  BY <1>1, JobsPreserved
<1>5. \A p \in Notices : PaymentKnows(p)'
  BY <1>1, PaymentPreserved
<1>6. InOrder' => OrderHolds'
  BY <1>1, OrderPreserved
<1>7. Clean' => ContactHolds' /\ JobsHold'
  BY <1>1, CleanPreserved
<1>8. Clean' /\ "unpaid" \notin excuses' => PremiumInOrder'
  BY <1>1, PremiumPreserved
<1>9. QED
  BY <1>2, <1>3, <1>4, <1>5, <1>6, <1>7, <1>8
     DEF MailingInvariant, OrderHolds, ContactHolds, JobsHold

\* The events come in the order in which they were published, a contact is at the
\* address of the newest one or of the one before it, and what has not yet reached
\* SendGrid is still on its way: the row, the stream of changes, the subscription,
\* the workers and SendGrid always fit together so.  Of what an exception has
\* disturbed only the first five parts are claimed.
THEOREM InvariantHolds ==
    Spec => []MailingInvariant
<1>1. MailingInvariant /\ [Next]_vars => MailingInvariant'
  BY InvariantPreserved
<1>2. QED
  BY InitialInvariant, <1>1, PTL DEF Spec

\* Rows, contacts and what the workers hold keep their types, and no two contacts
\* of SendGrid ever have the same address, exceptions or not.
THEOREM TypeCorrect ==
    Spec => []TypeOK
<1>1. MailingInvariant => TypeOK
  BY DEF MailingInvariant
<1>2. QED
  BY <1>1, InvariantHolds, PTL

\* When nothing is under way, the newest event has been handled, and it says what
\* the row says.
LEMMA SettledMirrors ==
    ASSUME MailingInvariant, Settled, InOrder
    PROVE  /\ Typed /\ EventsAreTold /\ Mirrors(published) /\ Clean
           /\ row.email = Latest.email
           /\ published = 0 \/ told[published].listed = (row.accepts /\ row.email # Absent)
<1>1. /\ Typed /\ EventsAreTold /\ OrderHolds /\ newest \in 0..published /\ published \in Nat
  BY Types, InvariantByParts DEF Typed
<1>2. changes = <<>> /\ updates = {}
  BY DEF Settled
<1>3. Clean /\ ContactHolds
  BY <1>2, InvariantByParts DEF Clean
<1>4. newest = published
  <2>1. SUFFICES ASSUME newest # published
                 PROVE  FALSE
    OBVIOUS
  <2>2. published \in (newest + 1)..published
    BY <1>1, <2>1
  <2>3. QED
    BY <1>1, <1>2, <2>2 DEF EventsAreTold
<1>5. Mirrors(published)
  BY <1>2, <1>3, <1>4 DEF ContactHolds, Halfway
<1>6. DOMAIN changes = {}
  BY <1>2
<1>7. QED
  BY <1>1, <1>3, <1>5, <1>6 DEF OrderHolds, RowWillBeTold

\* ContactMirrorsUser: whatever the order of saves, payments, events and retries,
\* once a change has reached SendGrid the worker updateMailingList leaves the user
\* one contact, under the address of the row, in the marketing list exactly with
\* consent; for the exceptions that the property names.
THEOREM ContactHasTheUser ==
    Spec => []ContactMirrorsUser
<1>1. MailingInvariant => ContactMirrorsUser
  <2> SUFFICES ASSUME MailingInvariant, Settled, published > 0, InOrder
               PROVE  IF row.email = Absent THEN Known = {}
                      ELSE \E c \in ContactIds :
                              /\ Known = {c}
                              /\ contacts[c].email = row.email
                              /\ "all" \in contacts[c].lists
                              /\ ("marketing" \in contacts[c].lists) = row.accepts
    BY DEF ContactMirrorsUser, InOrder
  <2>1. /\ Typed /\ ContactsOK /\ EventsAreTold /\ Mirrors(published) /\ published \in Nat
        /\ row.email = told[published].event.email /\ row.accepts \in BOOLEAN
        /\ told[published].listed = (row.accepts /\ row.email # Absent)
    BY SettledMirrors DEF Typed, Latest, Rows
  <2>2. \A c \in Known : /\ contacts[c].email = row.email
                         /\ ("marketing" \in contacts[c].lists) = told[published].listed
                         /\ "all" \in contacts[c].lists
    BY <2>1 DEF Mirrors
  <2>3. CASE row.email = Absent
    BY <2>1, <2>2, <2>3, KnownContacts
  <2>4. CASE row.email # Absent
    <3>1. Known # {}
      BY <2>1, <2>4 DEF Mirrors
    <3>2. PICK c \in Known : TRUE
      BY <3>1
    <3>3. c \in ContactIds /\ Known = {c}
      BY <2>1, <2>2, <3>2, KnownContacts DEF ContactsOK
    <3>4. told[published].listed = row.accepts
      BY <2>1, <2>4
    <3>5. ("marketing" \in contacts[c].lists) = row.accepts
      BY <2>2, <3>2, <3>4
    <3>6. QED
      BY <2>2, <2>4, <3>2, <3>3, <3>5
  <2>5. QED
    BY <2>3, <2>4
<1>2. QED
  BY <1>1, InvariantHolds, PTL

\* PremiumListMirrorsFlag: the handler of payment notifications, which writes the
\* row and the list one after the other with what it read before, leaves them alike
\* unless one ended between the two or any number of them overlapped, and then the
\* next one that runs by itself sets them right; for the same exceptions.
THEOREM ListHasTheFlag ==
    Spec => []PremiumListMirrorsFlag
<1>1. MailingInvariant => PremiumListMirrorsFlag
  <2> SUFFICES ASSUME MailingInvariant, Settled, excuses = {}
               PROVE  row.premium = (\E c \in Known : "premium" \in contacts[c].lists)
    BY DEF PremiumListMirrorsFlag
  <2>1. InOrder /\ "unpaid" \notin excuses /\ \A p \in Notices : payment[p].step # "list"
    BY DEF InOrder, Settled, Paying
  <2>2. Clean
    BY <2>1, SettledMirrors
  <2>3. PremiumInOrder
    BY <2>1, <2>2, InvariantByParts
  <2>4. QED
    BY <2>1, <2>3 DEF PremiumInOrder
<1>2. QED
  BY <1>1, InvariantHolds, PTL
=============================================================================
