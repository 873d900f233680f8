---------------------------- MODULE ProfileProofs ----------------------------
(***************************************************************************)
(* What is proved of Profile, for all users, addresses, handles and        *)
(* requests, and any number of requests and notifications.                 *)
(***************************************************************************)
EXTENDS Profile, TLAPS

-----------------------------------------------------------------------------
(* Rows: what applying a change and writing a profile back do, column by   *)
(* column.                                                                 *)

\* A change applied to a row: the form's columns or the image are the change's,
\* the rest is the row's, the payment and the reputation in any case.
LEMMA ApplyColumns ==
    ASSUME NEW row \in Rows, NEW change \in Changes
    PROVE  /\ Apply(row, change) \in Rows
           /\ Apply(row, change).reputation = row.reputation
           /\ Apply(row, change).premium = row.premium
           /\ \/ /\ change.kind = "form" /\ change.body \in Bodies
                 /\ Apply(row, change).email = change.body.email
                 /\ Apply(row, change).username = change.body.username
                 /\ Apply(row, change).acceptedMarketing = change.body.acceptedMarketing
                 /\ Apply(row, change).infoConfirmed = TRUE
                 /\ Apply(row, change).image = row.image
              \/ /\ change.kind = "image" /\ change.image \in Images
                 /\ Apply(row, change).email = row.email
                 /\ Apply(row, change).username = row.username
                 /\ Apply(row, change).acceptedMarketing = row.acceptedMarketing
                 /\ Apply(row, change).infoConfirmed = row.infoConfirmed
                 /\ Apply(row, change).image = change.image
<1>1. CASE \E body \in Bodies : change = FormChange(body)
  <2>1. change.kind = "form" /\ change.body \in Bodies
    BY <1>1 DEF FormChange
  <2>2. /\ change.body.email \in Emails /\ change.body.username \in Usernames
        /\ change.body.acceptedMarketing \in BOOLEAN
    BY <2>1 DEF Bodies
  <2>3. PICK new \in Rows : new = [row EXCEPT !.email = change.body.email,
                                              !.username = change.body.username,
                                              !.acceptedMarketing = change.body.acceptedMarketing,
                                              !.infoConfirmed = TRUE]
    BY <2>2 DEF Rows
  <2>4. Apply(row, change) = new
    BY <2>1, <2>3 DEF Apply
  <2>5. /\ new.reputation = row.reputation /\ new.premium = row.premium
        /\ new.email = change.body.email /\ new.username = change.body.username
        /\ new.acceptedMarketing = change.body.acceptedMarketing
        /\ new.infoConfirmed = TRUE /\ new.image = row.image
    BY <2>3 DEF Rows
  <2>6. QED
    BY <2>1, <2>4, <2>5
<1>2. CASE \E image \in Images : change = ImageChange(image)
  <2>1. change.kind = "image" /\ change.image \in Images
    BY <1>2 DEF ImageChange
  <2>2. PICK new \in Rows : new = [row EXCEPT !.image = change.image]
    BY <2>1 DEF Rows
  <2>3. Apply(row, change) = new
    BY <2>1, <2>2 DEF Apply
  <2>4. /\ new.reputation = row.reputation /\ new.premium = row.premium
        /\ new.email = row.email /\ new.username = row.username
        /\ new.acceptedMarketing = row.acceptedMarketing
        /\ new.infoConfirmed = row.infoConfirmed /\ new.image = change.image
    BY <2>2 DEF Rows
  <2>5. QED
    BY <2>1, <2>3, <2>4
<1>3. QED
  BY <1>1, <1>2 DEF Changes

\* Two rows are the same if all their columns are.
LEMMA SameRow ==
    ASSUME NEW row \in Rows, NEW other \in Rows,
           row.email = other.email, row.username = other.username, row.image = other.image,
           row.premium = other.premium, row.infoConfirmed = other.infoConfirmed,
           row.acceptedMarketing = other.acceptedMarketing, row.reputation = other.reputation
    PROVE  row = other
BY DEF Rows

\* Two rows are the same but for their reputation if all other columns are.
LEMMA SameColumns ==
    ASSUME NEW row \in Rows, NEW other \in Rows
    PROVE  SameButReputation(row, other) <=>
             /\ row.email = other.email /\ row.username = other.username
             /\ row.image = other.image /\ row.premium = other.premium
             /\ row.infoConfirmed = other.infoConfirmed
             /\ row.acceptedMarketing = other.acceptedMarketing
<1>1. PICK new \in Rows : new = [other EXCEPT !.reputation = row.reputation]
  BY DEF Rows
<1>2. /\ new.email = other.email /\ new.username = other.username
      /\ new.image = other.image /\ new.premium = other.premium
      /\ new.infoConfirmed = other.infoConfirmed
      /\ new.acceptedMarketing = other.acceptedMarketing
      /\ new.reputation = row.reputation
  BY <1>1 DEF Rows
<1>3. SameButReputation(row, other) <=> row = new
  BY <1>1 DEF SameButReputation
<1>4. QED
  BY <1>2, <1>3, SameRow

\* A change makes the same profile of two rows that differ in their reputation.
LEMMA SameApplied ==
    ASSUME NEW row \in Rows, NEW other \in Rows, NEW change \in Changes, NEW profile \in Rows,
           SameButReputation(other, row), SameButReputation(profile, Apply(row, change))
    PROVE  SameButReputation(profile, Apply(other, change))
<1>1. Apply(row, change) \in Rows /\ Apply(other, change) \in Rows
  BY ApplyColumns
<1>2. /\ other.email = row.email /\ other.username = row.username
      /\ other.image = row.image /\ other.premium = row.premium
      /\ other.infoConfirmed = row.infoConfirmed
      /\ other.acceptedMarketing = row.acceptedMarketing
  BY SameColumns
<1>3. /\ Apply(other, change).email = Apply(row, change).email
      /\ Apply(other, change).username = Apply(row, change).username
      /\ Apply(other, change).image = Apply(row, change).image
      /\ Apply(other, change).premium = Apply(row, change).premium
      /\ Apply(other, change).infoConfirmed = Apply(row, change).infoConfirmed
      /\ Apply(other, change).acceptedMarketing = Apply(row, change).acceptedMarketing
  <2>1. CASE change.kind = "form"
    BY <1>2, <2>1 DEF Apply, Rows
  <2>2. CASE change.kind # "form"
    BY <1>2, <2>2 DEF Apply, Rows
  <2>3. QED
    BY <2>1, <2>2
<1>4. QED
  BY <1>1, <1>3, SameColumns

\* A profile written back: all columns but the reputation, and nulls left alone.
LEMMA PickedColumns ==
    ASSUME NEW row \in Rows, NEW profile \in Rows
    PROVE  /\ Picked(row, profile) \in Rows
           /\ Picked(row, profile).email = IF profile.email = Absent THEN row.email
                                                                     ELSE profile.email
           /\ Picked(row, profile).username = IF profile.username = Absent
                                              THEN row.username ELSE profile.username
           /\ Picked(row, profile).image = profile.image
           /\ Picked(row, profile).premium = profile.premium
           /\ Picked(row, profile).infoConfirmed = profile.infoConfirmed
           /\ Picked(row, profile).acceptedMarketing = profile.acceptedMarketing
           /\ Picked(row, profile).reputation = row.reputation
<1> DEFINE email == IF profile.email = Absent THEN row.email ELSE profile.email
           username == IF profile.username = Absent THEN row.username ELSE profile.username
<1>1. /\ email \in Emails \cup {Absent} /\ username \in Usernames \cup {Absent}
      /\ profile.image \in Images /\ profile.premium \in BOOLEAN
      /\ profile.infoConfirmed \in BOOLEAN /\ profile.acceptedMarketing \in BOOLEAN
  BY DEF Rows
<1>2. Picked(row, profile) = [row EXCEPT !.email = email, !.username = username,
                                         !.image = profile.image, !.premium = profile.premium,
                                         !.infoConfirmed = profile.infoConfirmed,
                                         !.acceptedMarketing = profile.acceptedMarketing]
  BY DEF Picked
<1> HIDE DEF email, username
<1>3. PICK new \in Rows :
        new = [row EXCEPT !.email = email, !.username = username,
                          !.image = profile.image, !.premium = profile.premium,
                          !.infoConfirmed = profile.infoConfirmed,
                          !.acceptedMarketing = profile.acceptedMarketing]
  BY <1>1 DEF Rows
<1>4. /\ new.email = email /\ new.username = username /\ new.image = profile.image
      /\ new.premium = profile.premium /\ new.infoConfirmed = profile.infoConfirmed
      /\ new.acceptedMarketing = profile.acceptedMarketing
      /\ new.reputation = row.reputation
  BY <1>3 DEF Rows
<1>5. QED
  BY <1>2, <1>3, <1>4 DEF email, username

\* Writing back a profile made from the row as it is, whatever became of its
\* reputation, is the same as applying the change to the row.
LEMMA PickedIsApply ==
    ASSUME NEW row \in Rows, NEW profile \in Rows, NEW change \in Changes,
           SameButReputation(profile, Apply(row, change))
    PROVE  Picked(row, profile) = Apply(row, change)
<1>1. Apply(row, change) \in Rows /\ Apply(row, change).reputation = row.reputation
  BY ApplyColumns
<1>2. /\ profile.email = Apply(row, change).email
      /\ profile.username = Apply(row, change).username
      /\ profile.image = Apply(row, change).image
      /\ profile.premium = Apply(row, change).premium
      /\ profile.infoConfirmed = Apply(row, change).infoConfirmed
      /\ profile.acceptedMarketing = Apply(row, change).acceptedMarketing
  BY <1>1, SameColumns
<1>3. \A body \in Bodies : body.email # Absent /\ body.username # Absent
  BY ProfileAssumption DEF Bodies
<1>4. \/ /\ change.body \in Bodies
         /\ Apply(row, change).email = change.body.email
         /\ Apply(row, change).username = change.body.username
      \/ /\ Apply(row, change).email = row.email
         /\ Apply(row, change).username = row.username
  BY ApplyColumns
<1>5. /\ Apply(row, change).email # Absent \/ Apply(row, change).email = row.email
      /\ Apply(row, change).username # Absent \/ Apply(row, change).username = row.username
  BY <1>3, <1>4
<1>6. QED
  BY <1>1, <1>2, <1>5, PickedColumns, SameRow


-----------------------------------------------------------------------------
(* Requests: what each step does to them.                                  *)

LEMMA IdleType == Idle \in RequestRecords
BY DEF Idle, RequestRecords, Steps

\* A request in its place: its fields have their types, also in the middle.
WellFormed(r) ==
    /\ r \in RequestRecords
    /\ r.step # "idle" => r.user \in Users /\ r.change \in Changes
    /\ r.step \in {"check", "update"} => r.profile \in Rows

LEMMA RequestType ==
    TypeOK <=> /\ registered \in SUBSET Users
               /\ rows \in [Users -> Rows]
               /\ intended \in [Users -> Rows]
               /\ overtaken \in SUBSET Users
               /\ raced \in SUBSET Users
               /\ doubled \in SUBSET Users
               /\ received \in 0..MaxRequests
               /\ request \in [Requests -> RequestRecords]
               /\ \A q \in Requests : WellFormed(request[q])
BY DEF TypeOK, WellFormed, Serving

\* Only request q changes.
OnlyMoves(q, new) ==
    /\ request' \in [Requests -> RequestRecords]
    /\ \A p \in Requests \ {q} : request'[p] = request[p]
    /\ request'[q] = new

LEMMA MoveType ==
    ASSUME TypeOK, NEW q \in Requests, NEW new \in RequestRecords,
           request' = [request EXCEPT ![q] = new]
    PROVE  OnlyMoves(q, new)
BY DEF TypeOK, OnlyMoves

LEMMA ArriveMoves ==
    ASSUME TypeOK, NEW q \in Requests, NEW u \in Users, NEW change \in Changes,
           Arrive(q, u, change)
    PROVE  \E new \in RequestRecords : OnlyMoves(q, new) /\ WellFormed(new) /\ new.step = "get"
<1> DEFINE new == [step |-> "get", user |-> u, change |-> change, profile |-> Absent,
                   stale |-> FALSE, late |-> FALSE]
<1>1. new \in RequestRecords /\ new.step = "get" /\ new.user = u /\ new.change = change
  BY DEF RequestRecords, Steps
<1>2. request' = [request EXCEPT ![q] = new]
  BY DEF Arrive
<1> HIDE DEF new
<1>3. OnlyMoves(q, new)
  BY <1>1, <1>2, MoveType
<1>4. WellFormed(new)
  BY <1>1 DEF WellFormed
<1>5. QED
  BY <1>1, <1>3, <1>4

\* The row as it is, with the change applied to it, becomes the profile.
LEMMA GetMoves ==
    ASSUME TypeOK, NEW q \in Requests, GetUser(q)
    PROVE  /\ request[q].step = "get"
           /\ \E new \in RequestRecords :
                /\ OnlyMoves(q, new) /\ WellFormed(new)
                /\ new.profile = Apply(rows[new.user], new.change)
                /\ new.step = IF new.change.kind = "form" THEN "check" ELSE "update"
<1> DEFINE r == request[q]
           profile == Apply(rows[r.user], r.change)
           step == IF r.change.kind = "form" THEN "check" ELSE "update"
<1>1. r \in RequestRecords /\ r.step = "get" /\ r.user \in Users /\ r.change \in Changes
  BY DEF TypeOK, GetUser, Serving
<1>2. rows[r.user] \in Rows
  BY <1>1 DEF TypeOK
<1>3. profile \in Rows /\ step \in Steps \ {"idle"}
  BY <1>1, <1>2, ApplyColumns DEF Steps
<1>4. request' = [request EXCEPT ![q] = [r EXCEPT !.profile = profile, !.step = step]]
  BY DEF GetUser
<1> HIDE DEF profile, step
<1>5. PICK new \in RequestRecords : new = [r EXCEPT !.profile = profile, !.step = step]
  BY <1>1, <1>3 DEF RequestRecords
<1>6. /\ new.profile = profile /\ new.step = step
      /\ new.user = r.user /\ new.change = r.change
  BY <1>1, <1>5 DEF RequestRecords
<1>7. OnlyMoves(q, new)
  BY <1>4, <1>5, MoveType
<1>8. WellFormed(new)
  BY <1>1, <1>3, <1>6 DEF WellFormed
<1>9. QED
  BY <1>1, <1>6, <1>7, <1>8 DEF profile, step

\* Somebody has the address, and the request is over, or nobody has.
LEMMA CheckMoves ==
    ASSUME TypeOK, NEW q \in Requests, CheckDuplicateEmail(q)
    PROVE  /\ request[q].step = "check"
           /\ \/ OnlyMoves(q, Idle)
              \/ /\ ~DuplicateEmail(request[q].user, request[q].profile.email)
                 /\ \E new \in RequestRecords :
                      /\ OnlyMoves(q, new) /\ WellFormed(new) /\ new.step = "update"
                      /\ new.user = request[q].user /\ new.change = request[q].change
                      /\ new.profile = request[q].profile
                      /\ new.stale = request[q].stale
<1> DEFINE r == request[q]
<1>1. WellFormed(r) /\ r \in RequestRecords /\ r.step = "check"
  BY RequestType DEF CheckDuplicateEmail, WellFormed
<1>2. CASE DuplicateEmail(r.user, r.profile.email)
  <2>1. request' = [request EXCEPT ![q] = Idle]
    BY <1>2 DEF CheckDuplicateEmail
  <2>2. QED
    BY <1>1, <2>1, IdleType, MoveType
<1>3. CASE ~DuplicateEmail(r.user, r.profile.email)
  <2>1. request' = [request EXCEPT ![q] = [r EXCEPT !.step = "update"]]
    BY <1>3 DEF CheckDuplicateEmail
  <2>2. PICK new \in RequestRecords : new = [r EXCEPT !.step = "update"]
    BY <1>1 DEF RequestRecords, Steps
  <2>3. /\ new.step = "update" /\ new.user = r.user /\ new.change = r.change
        /\ new.profile = r.profile /\ new.stale = r.stale
    BY <1>1, <2>2 DEF RequestRecords
  <2>4. OnlyMoves(q, new)
    BY <2>1, <2>2, MoveType
  <2>5. WellFormed(new)
    BY <1>1, <2>3 DEF WellFormed
  <2>6. QED
    BY <1>1, <1>3, <2>3, <2>4, <2>5
<1>4. QED
  BY <1>2, <1>3

\* What overtaking leaves of a request, and what an unmarked one has not met.
LEMMA OvertakeFields ==
    ASSUME NEW r, WellFormed(r), NEW u \in Users, NEW row \in Rows
    PROVE  LET new == Overtake(r, u, row)
           IN  /\ WellFormed(new)
               /\ new.step = r.step /\ new.user = r.user /\ new.change = r.change
               /\ new.profile = r.profile
               /\ ~new.stale => /\ ~r.stale
                                /\ (r.step \in {"check", "update"} /\ r.user = u)
                                      => row = rows[u]
               /\ ~new.late => /\ ~r.late
                               /\ (r.step = "update" /\ r.user # u
                                   /\ row.email # rows[u].email)
                                     => r.profile.email # row.email
<1> DEFINE stale == r.stale \/ (r.step \in {"check", "update"} /\ r.user = u /\ row # rows[u])
           late == r.late \/ (/\ r.step = "update" /\ r.user # u
                              /\ row.email # rows[u].email /\ r.profile.email = row.email)
<1>1. r \in RequestRecords /\ stale \in BOOLEAN /\ late \in BOOLEAN
  BY DEF WellFormed, RequestRecords
<1>2. Overtake(r, u, row) = [r EXCEPT !.stale = stale, !.late = late]
  BY DEF Overtake
<1>3. (~stale => /\ ~r.stale
                 /\ (r.step \in {"check", "update"} /\ r.user = u) => row = rows[u])
  OBVIOUS
<1>4. (~late => /\ ~r.late
                /\ (r.step = "update" /\ r.user # u /\ row.email # rows[u].email)
                      => r.profile.email # row.email)
  OBVIOUS
<1> HIDE DEF stale, late
<1>5. PICK new \in RequestRecords : new = [r EXCEPT !.stale = stale, !.late = late]
  BY <1>1 DEF RequestRecords
<1>6. /\ new.step = r.step /\ new.user = r.user /\ new.change = r.change
      /\ new.profile = r.profile /\ new.stale = stale /\ new.late = late
  BY <1>1, <1>5 DEF RequestRecords
<1>7. WellFormed(new)
  BY <1>6 DEF WellFormed
<1>8. Overtake(r, u, row) = new
  BY <1>2, <1>5
<1>9. QED
  BY <1>3, <1>4, <1>6, <1>7, <1>8


-----------------------------------------------------------------------------
(* What each step does to the reads and checks of the requests.            *)

ReadsHold == \A q \in Requests : ReadIsCurrent(q) /\ AddressIsFree(q)

\* A statement on a row keeps every request well formed, and right about the row
\* and the address unless it marks it.
LEMMA WriteOvertakes ==
    ASSUME TypeOK, ReadsHold, NEW u \in Users, NEW row \in Rows, NEW q, Write(u, row, q)
    PROVE  /\ rows' \in [Users -> Rows]
           /\ request' \in [Requests -> RequestRecords]
           /\ \A p \in Requests : WellFormed(request'[p])
           /\ ReadsHold'
<1>1. rows' = [rows EXCEPT ![u] = row] /\ rows' \in [Users -> Rows]
  BY DEF Write, TypeOK
<1>2. ASSUME NEW p \in Requests
      PROVE  /\ request'[p] \in RequestRecords /\ WellFormed(request'[p])
             /\ request'[p].step # "idle" =>
                  /\ request[p].step # "idle" /\ request'[p] = Overtake(request[p], u, row)
  <2>1. WellFormed(request[p])
    BY RequestType
  <2>2. \/ request'[p] = Idle
        \/ Serving(p) /\ request'[p] = Overtake(request[p], u, row)
        \/ ~Serving(p) /\ request'[p] = request[p]
    BY DEF Write
  <2>3. WellFormed(Idle) /\ Idle.step = "idle"
    BY IdleType DEF WellFormed, Idle
  <2>4. WellFormed(Overtake(request[p], u, row))
    BY <2>1, OvertakeFields
  <2>5. WellFormed(request'[p])
    BY <2>1, <2>2, <2>3, <2>4
  <2>6. request'[p] \in RequestRecords
    BY <2>5 DEF WellFormed
  <2>7. QED
    BY <2>2, <2>3, <2>5, <2>6 DEF Serving
<1>3. request' \in [Requests -> RequestRecords]
  <2>1. \E f : request' = [p \in Requests |-> f[p]]
    <3>1. request' = [p \in Requests |-> [p2 \in Requests |->
                        IF p2 = q THEN Idle
                        ELSE IF Serving(p2) THEN Overtake(request[p2], u, row)
                        ELSE request[p2]][p]]
      BY DEF Write
    <3>2. QED
      BY <3>1
  <2>2. QED
    BY <1>2, <2>1
<1>4. ASSUME NEW p \in Requests, request'[p].step \in {"check", "update"}
      PROVE  ReadIsCurrent(p)' /\ AddressIsFree(p)'
  <2> DEFINE r == request[p]
  <2>1. request'[p] = Overtake(r, u, row) /\ WellFormed(r)
    BY <1>2, <1>4, RequestType
  <2>2. /\ request'[p].step = r.step /\ request'[p].user = r.user
        /\ request'[p].change = r.change /\ request'[p].profile = r.profile
        /\ ~request'[p].stale => ~r.stale /\ (r.user = u => row = rows[u])
        /\ ~request'[p].late => /\ ~r.late
                                /\ (r.step = "update" /\ r.user # u
                                    /\ row.email # rows[u].email)
                                      => r.profile.email # row.email
    BY <1>4, <2>1, OvertakeFields
  <2>3. r.user \in Users /\ r.step \in {"check", "update"}
    BY <1>4, <2>1, <2>2 DEF WellFormed
  <2>4. ReadIsCurrent(p)'
    <3>1. SUFFICES ASSUME ~request'[p].stale
                   PROVE  SameButReputation(r.profile, Apply(rows'[r.user], r.change))
      BY <2>2 DEF ReadIsCurrent, SameButReputation
    <3>2. SameButReputation(r.profile, Apply(rows[r.user], r.change))
      BY <2>2, <2>3, <3>1 DEF ReadsHold, ReadIsCurrent
    <3>3. rows'[r.user] = rows[r.user]
      BY <1>1, <2>2, <2>3, <3>1 DEF TypeOK
    <3>4. QED
      BY <3>2, <3>3
  <2>5. AddressIsFree(p)'
    <3>1. SUFFICES ASSUME r.change.kind = "form"
                   PROVE  /\ r.step = "check" \/ request'[p].late
                               \/ \A v \in Users \ {r.user} : rows'[v].email # r.profile.email
                          /\ r.profile.email = r.change.body.email
      BY <2>2 DEF AddressIsFree
    <3>2. /\ r.step = "check" \/ r.late
               \/ \A v \in Users \ {r.user} : rows[v].email # r.profile.email
          /\ r.profile.email = r.change.body.email
      BY <2>3, <3>1 DEF ReadsHold, AddressIsFree
    <3>3. ASSUME NEW v \in Users \ {r.user}, ~request'[p].late, r.step = "update"
          PROVE  rows'[v].email # r.profile.email
      <4>1. rows[v].email # r.profile.email
        BY <2>2, <3>2, <3>3
      <4>2. CASE v = u
        BY <1>1, <2>2, <3>3, <4>1, <4>2 DEF TypeOK
      <4>3. CASE v # u
        BY <1>1, <4>1, <4>3 DEF TypeOK
      <4>4. QED
        BY <4>2, <4>3
    <3>4. QED
      BY <2>3, <3>2, <3>3
  <2>6. QED
    BY <2>4, <2>5
<1>5. ASSUME NEW p \in Requests, request'[p].step \notin {"check", "update"}
      PROVE  ReadIsCurrent(p)' /\ AddressIsFree(p)'
  BY <1>5 DEF ReadIsCurrent, AddressIsFree
<1>6. QED
  BY <1>1, <1>2, <1>3, <1>4, <1>5 DEF ReadsHold

\* A step of a request that writes no row: what holds of the request's new record is
\* all there is to show.
LEMMA MoveKeepsReads ==
    ASSUME TypeOK, ReadsHold, NEW q \in Requests, NEW new, WellFormed(new),
           OnlyMoves(q, new), rows' = rows,
           (new.step \in {"check", "update"} /\ ~new.stale)
              => SameButReputation(new.profile, Apply(rows[new.user], new.change)),
           (new.step \in {"check", "update"} /\ new.change.kind = "form")
              => /\ new.step = "check" \/ new.late
                      \/ \A u \in Users \ {new.user} : rows[u].email # new.profile.email
                 /\ new.profile.email = new.change.body.email
    PROVE  /\ request' \in [Requests -> RequestRecords]
           /\ \A p \in Requests : WellFormed(request'[p])
           /\ ReadsHold'
<1>1. \A p \in Requests : WellFormed(request'[p])
  BY RequestType DEF OnlyMoves
<1>2. ASSUME NEW p \in Requests \ {q}
      PROVE  ReadIsCurrent(p)' /\ AddressIsFree(p)'
  <2>1. request'[p] = request[p] /\ ReadIsCurrent(p) /\ AddressIsFree(p)
    BY DEF OnlyMoves, ReadsHold
  <2>2. QED
    BY <2>1 DEF ReadIsCurrent, AddressIsFree, SameButReputation, Apply
<1>3. ReadIsCurrent(q)'
  BY DEF OnlyMoves, ReadIsCurrent, SameButReputation, Apply
<1>4. AddressIsFree(q)'
  BY DEF OnlyMoves, AddressIsFree
<1>5. QED
  BY <1>1, <1>2, <1>3, <1>4 DEF OnlyMoves, ReadsHold


\* A request that ends.
LEMMA EndKeepsReads ==
    ASSUME TypeOK, ReadsHold, NEW q \in Requests, OnlyMoves(q, Idle), rows' = rows
    PROVE  /\ request' \in [Requests -> RequestRecords]
           /\ \A p \in Requests : WellFormed(request'[p])
           /\ ReadsHold'
<1>1. WellFormed(Idle) /\ Idle.step = "idle"
  BY IdleType DEF WellFormed, Idle
<1>2. QED
  BY <1>1, MoveKeepsReads

LEMMA ArriveKeepsReads ==
    ASSUME TypeOK, ReadsHold, NEW q \in Requests, NEW u \in Users, NEW change \in Changes,
           Arrive(q, u, change)
    PROVE  TypeOK' /\ ReadsHold'
<1>1. PICK new \in RequestRecords : /\ OnlyMoves(q, new) /\ WellFormed(new)
                                    /\ new.step = "get"
  BY ArriveMoves
<1>2. UNCHANGED <<registered, rows, intended, overtaken, raced, doubled>> /\ received' \in 0..MaxRequests
  BY ProfileAssumption DEF Arrive, TypeOK
<1>3. /\ request' \in [Requests -> RequestRecords]
      /\ \A p \in Requests : WellFormed(request'[p])
      /\ ReadsHold'
  BY <1>1, <1>2, MoveKeepsReads
<1>4. QED
  BY <1>2, <1>3 DEF TypeOK, WellFormed, Serving

\* The profile is made from the row as it is.
LEMMA GetKeepsReads ==
    ASSUME TypeOK, ReadsHold, NEW q \in Requests, GetUser(q)
    PROVE  TypeOK' /\ ReadsHold'
<1>1. PICK new \in RequestRecords :
        /\ OnlyMoves(q, new) /\ WellFormed(new)
        /\ new.profile = Apply(rows[new.user], new.change)
        /\ new.step = IF new.change.kind = "form" THEN "check" ELSE "update"
  BY GetMoves
<1>2. UNCHANGED <<registered, rows, intended, overtaken, raced, doubled, received>>
  BY DEF GetUser
<1>3. new.user \in Users /\ new.change \in Changes /\ new.profile \in Rows
  BY <1>1 DEF WellFormed
<1>4. SameButReputation(new.profile, Apply(rows[new.user], new.change))
  BY <1>1, <1>3, SameColumns
<1>5. new.change.kind = "form" => new.profile.email = new.change.body.email
  <2>1. PICK row \in Rows : row = rows[new.user]
    BY <1>3 DEF TypeOK
  <2>2. PICK change \in Changes : change = new.change
    BY <1>3
  <2>3. change.kind = "form" => Apply(row, change).email = change.body.email
    BY ApplyColumns
  <2>4. QED
    BY <1>1, <2>1, <2>2, <2>3
<1>6. /\ request' \in [Requests -> RequestRecords]
      /\ \A p \in Requests : WellFormed(request'[p])
      /\ ReadsHold'
  BY <1>1, <1>2, <1>4, <1>5, MoveKeepsReads
<1>7. QED
  BY <1>2, <1>6 DEF TypeOK, WellFormed, Serving

\* The address has just been found free.
LEMMA CheckKeepsReads ==
    ASSUME TypeOK, ReadsHold, NEW q \in Requests, CheckDuplicateEmail(q)
    PROVE  TypeOK' /\ ReadsHold'
<1>1. UNCHANGED <<registered, rows, intended, overtaken, raced, doubled, received>>
  BY DEF CheckDuplicateEmail
<1>2. CASE OnlyMoves(q, Idle)
  <2>1. /\ request' \in [Requests -> RequestRecords]
        /\ \A p \in Requests : WellFormed(request'[p])
        /\ ReadsHold'
    BY <1>1, <1>2, EndKeepsReads
  <2>2. QED
    BY <1>1, <2>1 DEF TypeOK, WellFormed, Serving
<1>3. CASE /\ ~DuplicateEmail(request[q].user, request[q].profile.email)
           /\ \E new \in RequestRecords :
                /\ OnlyMoves(q, new) /\ WellFormed(new) /\ new.step = "update"
                /\ new.user = request[q].user /\ new.change = request[q].change
                /\ new.profile = request[q].profile /\ new.stale = request[q].stale
  <2>1. PICK new \in RequestRecords :
          /\ OnlyMoves(q, new) /\ WellFormed(new) /\ new.step = "update"
          /\ new.user = request[q].user /\ new.change = request[q].change
          /\ new.profile = request[q].profile /\ new.stale = request[q].stale
    BY <1>3
  <2>2. request[q].step = "check" /\ ReadIsCurrent(q) /\ AddressIsFree(q)
    BY CheckMoves DEF ReadsHold
  <2>3. ~new.stale => SameButReputation(new.profile, Apply(rows[new.user], new.change))
    BY <2>1, <2>2 DEF ReadIsCurrent
  <2>4. new.change.kind = "form" =>
          /\ \A u \in Users \ {new.user} : rows[u].email # new.profile.email
          /\ new.profile.email = new.change.body.email
    BY <1>3, <2>1, <2>2 DEF AddressIsFree, DuplicateEmail
  <2>5. /\ request' \in [Requests -> RequestRecords]
        /\ \A p \in Requests : WellFormed(request'[p])
        /\ ReadsHold'
    BY <1>1, <2>1, <2>3, <2>4, MoveKeepsReads
  <2>6. QED
    BY <1>1, <2>5 DEF TypeOK, WellFormed, Serving
<1>4. QED
  BY <1>2, <1>3, CheckMoves

LEMMA EndsKeepReads ==
    ASSUME TypeOK, ReadsHold, NEW q \in Requests, UpdateRefused(q) \/ Die(q)
    PROVE  TypeOK' /\ ReadsHold'
<1>1. /\ request' = [request EXCEPT ![q] = Idle]
      /\ UNCHANGED <<registered, rows, intended, overtaken, raced, doubled, received>>
  BY DEF UpdateRefused, Die
<1>2. OnlyMoves(q, Idle)
  BY <1>1, IdleType, MoveType
<1>3. /\ request' \in [Requests -> RequestRecords]
      /\ \A p \in Requests : WellFormed(request'[p])
      /\ ReadsHold'
  BY <1>1, <1>2, EndKeepsReads
<1>4. QED
  BY <1>1, <1>3 DEF TypeOK, WellFormed, Serving

\* The save: what is written is the profile, and the change is what was meant.
LEMMA UpdateUserMoves ==
    ASSUME TypeOK, NEW q \in Requests, UpdateUser(q)
    PROVE  /\ WellFormed(request[q]) /\ request[q].step = "update"
           /\ request[q].user \in Users /\ request[q].change \in Changes
           /\ request[q].profile \in Rows
           /\ Picked(rows[request[q].user], request[q].profile) \in Rows
           /\ Apply(intended[request[q].user], request[q].change) \in Rows
<1>1. /\ WellFormed(request[q]) /\ request[q].step = "update"
      /\ request[q].user \in Users /\ request[q].change \in Changes
      /\ request[q].profile \in Rows
  BY RequestType DEF UpdateUser, WellFormed
<1>2. rows[request[q].user] \in Rows /\ intended[request[q].user] \in Rows
  BY <1>1 DEF TypeOK
<1>3. QED
  BY <1>1, <1>2, PickedColumns, ApplyColumns

LEMMA UpdateUserKeepsReads ==
    ASSUME TypeOK, ReadsHold, NEW q \in Requests, UpdateUser(q)
    PROVE  TypeOK' /\ ReadsHold'
<1> DEFINE u == request[q].user
<1>1. u \in Users /\ Picked(rows[u], request[q].profile) \in Rows
      /\ Apply(intended[u], request[q].change) \in Rows
  BY UpdateUserMoves
<1>2. /\ Write(u, Picked(rows[u], request[q].profile), q)
      /\ intended' = [intended EXCEPT ![u] = Apply(intended[u], request[q].change)]
      /\ overtaken' = overtaken \/ overtaken' = overtaken \cup {u}
      /\ raced' = raced \/ raced' = raced \cup {u}
      /\ doubled' = doubled \/ doubled' = doubled \ {u}
      /\ UNCHANGED <<registered, received>>
  BY DEF UpdateUser
<1>3. /\ rows' \in [Users -> Rows]
      /\ request' \in [Requests -> RequestRecords]
      /\ \A p \in Requests : WellFormed(request'[p])
      /\ ReadsHold'
  BY <1>1, <1>2, WriteOvertakes
<1>4. QED
  BY <1>1, <1>2, <1>3 DEF TypeOK, WellFormed, Serving

LEMMA PremiumRow ==
    ASSUME NEW row \in Rows, NEW premium \in BOOLEAN
    PROVE  /\ [row EXCEPT !.premium = premium] \in Rows
           /\ [row EXCEPT !.premium = premium].email = row.email
           /\ [row EXCEPT !.premium = premium].reputation = row.reputation
BY DEF Rows

LEMMA IpnKeepsReads ==
    ASSUME TypeOK, ReadsHold, NEW u \in Users, NEW premium \in BOOLEAN, Ipn(u, premium)
    PROVE  TypeOK' /\ ReadsHold'
<1>1. /\ Write(u, [rows[u] EXCEPT !.premium = premium], Absent)
      /\ intended' = [intended EXCEPT ![u] = [intended[u] EXCEPT !.premium = premium]]
      /\ received' \in 0..MaxRequests /\ UNCHANGED <<registered, overtaken, raced, doubled>>
  BY ProfileAssumption DEF Ipn, TypeOK
<1>2. /\ [rows[u] EXCEPT !.premium = premium] \in Rows
      /\ [intended[u] EXCEPT !.premium = premium] \in Rows
  BY PremiumRow DEF TypeOK
<1>3. /\ rows' \in [Users -> Rows]
      /\ request' \in [Requests -> RequestRecords]
      /\ \A p \in Requests : WellFormed(request'[p])
      /\ ReadsHold'
  BY <1>1, <1>2, WriteOvertakes
<1>4. QED
  BY <1>1, <1>2, <1>3 DEF TypeOK, WellFormed, Serving

LEMMA RegisterRow ==
    ASSUME NEW row \in Rows, NEW email \in Emails \cup {Absent}, NEW image \in Images
    PROVE  /\ [row EXCEPT !.email = email, !.image = image] \in Rows
           /\ [row EXCEPT !.email = email, !.image = image].email = email
BY DEF Rows

LEMMA RegisterKeepsReads ==
    ASSUME TypeOK, ReadsHold, NEW u \in Users, NEW email \in Emails \cup {Absent},
           NEW image \in Images, Register(u, email, image)
    PROVE  TypeOK' /\ ReadsHold'
<1>1. /\ Write(u, [rows[u] EXCEPT !.email = email, !.image = image], Absent)
      /\ intended' = [intended EXCEPT ![u] = rows'[u]]
      /\ registered' = registered \cup {u}
      /\ doubled' = doubled \/ doubled' = doubled \cup {u}
      /\ UNCHANGED <<overtaken, raced, received>>
  BY DEF Register
<1>2. [rows[u] EXCEPT !.email = email, !.image = image] \in Rows
  BY RegisterRow DEF TypeOK
<1>3. /\ rows' \in [Users -> Rows]
      /\ request' \in [Requests -> RequestRecords]
      /\ \A p \in Requests : WellFormed(request'[p])
      /\ ReadsHold'
  BY <1>1, <1>2, WriteOvertakes
<1>4. QED
  BY <1>1, <1>3 DEF TypeOK, WellFormed, Serving

LEMMA ReputationRow ==
    ASSUME NEW row \in Rows, NEW reputation \in 1..MaxReputation
    PROVE  /\ [row EXCEPT !.reputation = reputation] \in Rows
           /\ [row EXCEPT !.reputation = reputation].email = row.email
           /\ [row EXCEPT !.reputation = reputation].reputation = reputation
           /\ SameButReputation([row EXCEPT !.reputation = reputation], row)
<1>1. PICK new \in Rows : new = [row EXCEPT !.reputation = reputation]
  BY DEF Rows
<1>2. new.email = row.email /\ new.reputation = reputation
  BY <1>1 DEF Rows
<1>3. QED
  BY <1>1, <1>2 DEF SameButReputation

\* A profile made from a row stays current when only the reputation changes.
LEMMA ReputationKeepsReads ==
    ASSUME TypeOK, ReadsHold, NEW u \in Users, NEW reputation \in 1..MaxReputation,
           UpdateReputation(u, reputation)
    PROVE  TypeOK' /\ ReadsHold'
<1>1. /\ rows' = [rows EXCEPT ![u] = [rows[u] EXCEPT !.reputation = reputation]]
      /\ intended' = [intended EXCEPT ![u] = [intended[u] EXCEPT !.reputation = reputation]]
      /\ UNCHANGED <<registered, request, overtaken, raced, doubled, received>>
  BY DEF UpdateReputation
<1>2. /\ [rows[u] EXCEPT !.reputation = reputation] \in Rows
      /\ [intended[u] EXCEPT !.reputation = reputation] \in Rows
      /\ [rows[u] EXCEPT !.reputation = reputation].email = rows[u].email
      /\ SameButReputation([rows[u] EXCEPT !.reputation = reputation], rows[u])
  BY ReputationRow DEF TypeOK
<1>3. TypeOK'
  BY <1>1, <1>2 DEF TypeOK, Serving
<1>4. \A v \in Users : /\ rows[v] \in Rows /\ rows'[v] \in Rows
                       /\ rows'[v].email = rows[v].email
                       /\ SameButReputation(rows'[v], rows[v])
  <2>1. \A v \in Users : rows[v] \in Rows
    BY DEF TypeOK
  <2>2. \A v \in Users \ {u} : rows'[v] = rows[v] /\ SameButReputation(rows[v], rows[v])
    BY <1>1, <2>1, SameColumns DEF TypeOK
  <2>3. rows'[u] = [rows[u] EXCEPT !.reputation = reputation]
    BY <1>1 DEF TypeOK
  <2>4. QED
    BY <1>2, <2>1, <2>2, <2>3
<1>5. ASSUME NEW p \in Requests
      PROVE  ReadIsCurrent(p)' /\ AddressIsFree(p)'
  <2> DEFINE r == request[p]
  <2>1. /\ request'[p] = r /\ WellFormed(r) /\ ReadIsCurrent(p) /\ AddressIsFree(p)
    BY <1>1, RequestType DEF ReadsHold
  <2>2. ReadIsCurrent(p)'
    <3>1. SUFFICES ASSUME r.step \in {"check", "update"}, ~r.stale
                   PROVE  SameButReputation(r.profile, Apply(rows'[r.user], r.change))
      BY <2>1 DEF ReadIsCurrent, SameButReputation
    <3>2. /\ SameButReputation(r.profile, Apply(rows[r.user], r.change))
          /\ r.user \in Users /\ r.change \in Changes /\ r.profile \in Rows
      BY <2>1, <3>1 DEF ReadIsCurrent, WellFormed
    <3>3. /\ rows[r.user] \in Rows /\ rows'[r.user] \in Rows
          /\ SameButReputation(rows'[r.user], rows[r.user])
      BY <1>4, <3>2
    <3>4. SameButReputation(r.profile, Apply(rows'[r.user], r.change))
      BY <3>2, <3>3, SameApplied
    <3>5. QED
      BY <3>4
  <2>3. AddressIsFree(p)'
    <3>1. SUFFICES ASSUME r.step \in {"check", "update"}, r.change.kind = "form"
                   PROVE  /\ r.step = "check" \/ r.late
                               \/ \A v \in Users \ {r.user} : rows'[v].email # r.profile.email
                          /\ r.profile.email = r.change.body.email
      BY <2>1 DEF AddressIsFree
    <3>2. QED
      BY <1>4, <2>1, <3>1 DEF AddressIsFree
  <2>4. QED
    BY <2>2, <2>3
<1>6. QED
  BY <1>3, <1>5 DEF ReadsHold


-----------------------------------------------------------------------------
(* What each step does to what has been written.                           *)

\* A step that writes no row and no history.
LEMMA QuietStepsKeepHistory ==
    ASSUME UpdatesAreLostOnlyToOverlaps, ReputationSurvivesSaves, NoFormSharesAnAddress,
           UNCHANGED <<registered, rows, intended, overtaken, raced, doubled>>
    PROVE  /\ UpdatesAreLostOnlyToOverlaps' /\ ReputationSurvivesSaves'
           /\ NoFormSharesAnAddress'
BY DEF UpdatesAreLostOnlyToOverlaps, ReputationSurvivesSaves, NoFormSharesAnAddress

\* One row and what was meant for it change, to the same or overtaken; its address
\* stays as it was, and so does the user's mark, or it is missing, or nobody else
\* has it, or the user is marked.
LEMMA WriteKeepsHistory ==
    ASSUME TypeOK, UpdatesAreLostOnlyToOverlaps, ReputationSurvivesSaves,
           NoFormSharesAnAddress,
           NEW u \in Users, NEW row \in Rows, NEW meant \in Rows,
           rows' = [rows EXCEPT ![u] = row], intended' = [intended EXCEPT ![u] = meant],
           overtaken \subseteq overtaken', raced \subseteq raced',
           doubled \ {u} \subseteq doubled',
           u \in overtaken' \/ row = meant,
           row.reputation = meant.reputation,
           \/ u \in doubled' \cup raced' \cup overtaken'
           \/ row.email = rows[u].email /\ doubled \subseteq doubled'
           \/ row.email = Absent
           \/ \A v \in Users \ {u} : rows[v].email # row.email
    PROVE  /\ UpdatesAreLostOnlyToOverlaps' /\ ReputationSurvivesSaves'
           /\ NoFormSharesAnAddress'
<1>1. /\ rows'[u] = row /\ intended'[u] = meant
      /\ \A v \in Users \ {u} : rows'[v] = rows[v] /\ intended'[v] = intended[v]
  BY DEF TypeOK
<1>2. UpdatesAreLostOnlyToOverlaps'
  BY <1>1 DEF UpdatesAreLostOnlyToOverlaps
<1>3. ReputationSurvivesSaves'
  BY <1>1 DEF ReputationSurvivesSaves
<1>4. ASSUME NEW v \in Users, NEW w \in Users, v # w,
             rows'[v].email = rows'[w].email, rows'[v].email # Absent
      PROVE  {v, w} \cap (doubled' \cup raced' \cup overtaken') # {}
  <2>1. CASE u \in doubled' \cup raced' \cup overtaken' /\ u \in {v, w}
    BY <2>1
  <2>2. CASE row.email = rows[u].email /\ doubled \subseteq doubled'
    <3>1. rows[v].email = rows[w].email /\ rows[v].email # Absent
      BY <1>1, <1>4, <2>2
    <3>2. {v, w} \cap (doubled \cup raced \cup overtaken) # {}
      BY <1>4, <3>1 DEF NoFormSharesAnAddress
    <3>3. QED
      BY <2>2, <3>2
  <2>3. CASE u \notin {v, w}
    <3>1. rows[v].email = rows[w].email /\ rows[v].email # Absent
      BY <1>1, <1>4, <2>3
    <3>2. {v, w} \cap (doubled \cup raced \cup overtaken) # {}
      BY <1>4, <3>1 DEF NoFormSharesAnAddress
    <3>3. QED
      BY <2>3, <3>2
  <2>4. CASE row.email = Absent
    <3>1. u \notin {v, w}
      BY <1>1, <1>4, <2>4
    <3>2. QED
      BY <2>3, <3>1
  <2>5. CASE \A x \in Users \ {u} : rows[x].email # row.email
    <3>1. u \notin {v, w}
      BY <1>1, <1>4, <2>5
    <3>2. QED
      BY <2>3, <3>1
  <2>6. QED
    BY <2>1, <2>2, <2>3, <2>4, <2>5
<1>5. NoFormSharesAnAddress'
  BY <1>4 DEF NoFormSharesAnAddress
<1>6. QED
  BY <1>2, <1>3, <1>5

\* A registration is what is meant, and marked if the address is somebody's.
LEMMA RegisterKeepsHistory ==
    ASSUME ProfileInvariant, NEW u \in Users, NEW email \in Emails \cup {Absent},
           NEW image \in Images, Register(u, email, image)
    PROVE  /\ UpdatesAreLostOnlyToOverlaps' /\ ReputationSurvivesSaves'
           /\ NoFormSharesAnAddress'
<1> DEFINE row == [rows[u] EXCEPT !.email = email, !.image = image]
<1>1. /\ TypeOK /\ UpdatesAreLostOnlyToOverlaps /\ ReputationSurvivesSaves
      /\ NoFormSharesAnAddress
  BY DEF ProfileInvariant
<1>2. row \in Rows /\ row.email = email
  BY <1>1, RegisterRow DEF TypeOK
<1>3. /\ rows' = [rows EXCEPT ![u] = row]
      /\ intended' = [intended EXCEPT ![u] = rows'[u]]
      /\ UNCHANGED <<overtaken, raced>>
      /\ doubled \subseteq doubled'
      /\ \/ u \in doubled' \/ email = Absent
         \/ \A v \in Users \ {u} : rows[v].email # email
  BY DEF Register, Write
<1> HIDE DEF row
<1>4. rows'[u] = row
  BY <1>1, <1>3 DEF TypeOK
<1>5. QED
  BY <1>1, <1>2, <1>3, <1>4, WriteKeepsHistory

LEMMA UpdateUserKeepsHistory ==
    ASSUME ProfileInvariant, NEW q \in Requests, UpdateUser(q)
    PROVE  /\ UpdatesAreLostOnlyToOverlaps' /\ ReputationSurvivesSaves'
           /\ NoFormSharesAnAddress'
<1> DEFINE r == request[q]
<1>1. /\ TypeOK /\ ReadIsCurrent(q) /\ AddressIsFree(q)
      /\ UpdatesAreLostOnlyToOverlaps /\ ReputationSurvivesSaves
      /\ NoFormSharesAnAddress
  BY DEF ProfileInvariant
<1>2. PICK u \in Users, change \in Changes, profile \in Rows :
        /\ u = r.user /\ change = r.change /\ profile = r.profile /\ r.step = "update"
  BY <1>1, UpdateUserMoves
<1>3. PICK old \in Rows, meant \in Rows : old = rows[u] /\ meant = intended[u]
  BY <1>1 DEF TypeOK
<1>4. /\ rows' = [rows EXCEPT ![u] = Picked(old, profile)]
      /\ intended' = [intended EXCEPT ![u] = Apply(meant, change)]
      /\ overtaken \subseteq overtaken' /\ raced \subseteq raced'
      /\ r.stale => u \in overtaken'
      /\ r.late => u \in raced'
      /\ doubled \ {u} \subseteq doubled'
      /\ change.kind # "form" => doubled' = doubled
  BY <1>2, <1>3 DEF UpdateUser, Write
<1>5. Picked(old, profile) \in Rows /\ Apply(meant, change) \in Rows
  BY PickedColumns, ApplyColumns
<1>6. Picked(old, profile).reputation = Apply(meant, change).reputation
  <2>1. old.reputation = meant.reputation
    BY <1>1, <1>3 DEF ReputationSurvivesSaves
  <2>2. QED
    BY <2>1, PickedColumns, ApplyColumns
<1>7. ~r.stale => Picked(old, profile) = Apply(old, change)
  <2>1. ~r.stale => SameButReputation(profile, Apply(old, change))
    BY <1>1, <1>2, <1>3 DEF ReadIsCurrent
  <2>2. QED
    BY <2>1, PickedIsApply
<1>8. u \in overtaken' \/ Picked(old, profile) = Apply(meant, change)
  BY <1>1, <1>3, <1>4, <1>7 DEF UpdatesAreLostOnlyToOverlaps
<1>9. \/ u \in doubled' \cup raced' \cup overtaken'
      \/ Picked(old, profile).email = rows[u].email /\ doubled \subseteq doubled'
      \/ \A v \in Users \ {u} : rows[v].email # Picked(old, profile).email
  <2>1. CASE r.stale \/ r.late
    BY <1>4, <2>1
  <2>2. CASE ~r.stale /\ ~r.late
    <3>1. Picked(old, profile).email = Apply(old, change).email
      BY <1>7, <2>2
    <3>2. CASE change.kind = "form"
      <4>1. Picked(old, profile).email = profile.email
        BY <1>1, <1>2, <3>1, <3>2, ApplyColumns DEF AddressIsFree
      <4>2. \A v \in Users \ {u} : rows[v].email # profile.email
        BY <1>1, <1>2, <2>2, <3>2 DEF AddressIsFree
      <4>3. \A v \in Users \ {u} : rows[v].email # Picked(old, profile).email
        BY <4>1, <4>2
      <4>4. QED
        BY <4>3
    <3>3. CASE change.kind # "form"
      BY <1>3, <1>4, <3>1, <3>3, ApplyColumns
    <3>4. QED
      BY <3>2, <3>3
  <2>3. QED
    BY <2>1, <2>2
<1>10. QED
  BY <1>1, <1>4, <1>5, <1>6, <1>8, <1>9, WriteKeepsHistory

LEMMA IpnKeepsHistory ==
    ASSUME ProfileInvariant, NEW u \in Users, NEW premium \in BOOLEAN, Ipn(u, premium)
    PROVE  /\ UpdatesAreLostOnlyToOverlaps' /\ ReputationSurvivesSaves'
           /\ NoFormSharesAnAddress'
<1>1. /\ TypeOK /\ UpdatesAreLostOnlyToOverlaps /\ ReputationSurvivesSaves
      /\ NoFormSharesAnAddress
  BY DEF ProfileInvariant
<1>2. PICK old \in Rows, meant \in Rows : old = rows[u] /\ meant = intended[u]
  BY <1>1 DEF TypeOK
<1>3. /\ rows' = [rows EXCEPT ![u] = [old EXCEPT !.premium = premium]]
      /\ intended' = [intended EXCEPT ![u] = [meant EXCEPT !.premium = premium]]
      /\ UNCHANGED <<registered, overtaken, raced, doubled>>
  BY <1>2 DEF Ipn, Write
<1>4. u \in overtaken \/ old = meant
  BY <1>1, <1>2 DEF UpdatesAreLostOnlyToOverlaps
<1>5. old.reputation = meant.reputation
  BY <1>1, <1>2 DEF ReputationSurvivesSaves
<1>6. PICK row \in Rows : /\ row = [old EXCEPT !.premium = premium]
                        /\ row.email = old.email /\ row.reputation = old.reputation
  BY PremiumRow
<1>7. PICK wanted \in Rows : /\ wanted = [meant EXCEPT !.premium = premium]
                           /\ wanted.reputation = meant.reputation
  BY PremiumRow
<1>8. /\ rows' = [rows EXCEPT ![u] = row] /\ intended' = [intended EXCEPT ![u] = wanted]
      /\ overtaken \subseteq overtaken' /\ raced \subseteq raced'
      /\ doubled \subseteq doubled' /\ doubled \ {u} \subseteq doubled'
      /\ u \in overtaken' \/ row = wanted
  BY <1>3, <1>4, <1>6, <1>7
<1>9. row.reputation = wanted.reputation /\ row.email = rows[u].email
  BY <1>2, <1>5, <1>6, <1>7
<1>10. QED
  BY <1>1, <1>8, <1>9, WriteKeepsHistory

LEMMA ReputationKeepsHistory ==
    ASSUME ProfileInvariant, NEW u \in Users, NEW reputation \in 1..MaxReputation,
           UpdateReputation(u, reputation)
    PROVE  /\ UpdatesAreLostOnlyToOverlaps' /\ ReputationSurvivesSaves'
           /\ NoFormSharesAnAddress'
<1>1. /\ TypeOK /\ UpdatesAreLostOnlyToOverlaps /\ ReputationSurvivesSaves
      /\ NoFormSharesAnAddress
  BY DEF ProfileInvariant
<1>2. PICK old \in Rows, meant \in Rows : old = rows[u] /\ meant = intended[u]
  BY <1>1 DEF TypeOK
<1>3. /\ rows' = [rows EXCEPT ![u] = [old EXCEPT !.reputation = reputation]]
      /\ intended' = [intended EXCEPT ![u] = [meant EXCEPT !.reputation = reputation]]
      /\ UNCHANGED <<registered, overtaken, raced, doubled>>
  BY <1>2 DEF UpdateReputation
<1>4. u \in overtaken \/ old = meant
  BY <1>1, <1>2 DEF UpdatesAreLostOnlyToOverlaps
<1>5. /\ [old EXCEPT !.reputation = reputation] \in Rows
      /\ [meant EXCEPT !.reputation = reputation] \in Rows
      /\ [old EXCEPT !.reputation = reputation].email = old.email
      /\ [old EXCEPT !.reputation = reputation].reputation = reputation
      /\ [meant EXCEPT !.reputation = reputation].reputation = reputation
  BY ReputationRow
<1> DEFINE row == [old EXCEPT !.reputation = reputation]
           goal == [meant EXCEPT !.reputation = reputation]
<1>6. /\ rows' = [rows EXCEPT ![u] = row] /\ intended' = [intended EXCEPT ![u] = goal]
      /\ row \in Rows /\ goal \in Rows /\ row.email = rows[u].email
      /\ row.reputation = goal.reputation
      /\ u \in overtaken' \/ row = goal
      /\ overtaken \subseteq overtaken' /\ raced \subseteq raced'
      /\ doubled \subseteq doubled' /\ doubled \ {u} \subseteq doubled'
  BY <1>2, <1>3, <1>4, <1>5
<1> HIDE DEF row, goal
<1>7. QED
  BY <1>1, <1>6, WriteKeepsHistory

-----------------------------------------------------------------------------
(* The inductive invariant, and what follows from it.                      *)

LEMMA InvariantIsReads ==
    ProfileInvariant <=> /\ TypeOK /\ ReadsHold /\ UpdatesAreLostOnlyToOverlaps
                         /\ ReputationSurvivesSaves /\ NoFormSharesAnAddress
BY DEF ProfileInvariant, ReadsHold

LEMMA InitHolds == Init => ProfileInvariant
<1> SUFFICES ASSUME Init PROVE ProfileInvariant
  OBVIOUS
<1>1. Idle.step = "idle"
  BY DEF Idle
<1>2. PICK image \in Images :
        rows = [u \in Users |->
                  [email |-> Absent, username |-> Absent, image |-> image, premium |-> FALSE,
                   infoConfirmed |-> FALSE, acceptedMarketing |-> TRUE, reputation |-> 1]]
  BY DEF Init
<1>3. rows \in [Users -> Rows] /\ \A u \in Users : rows[u].email = Absent
  BY <1>2, ProfileAssumption DEF Rows
<1>4. TypeOK
  <2>1. /\ registered = {} /\ overtaken = {} /\ raced = {} /\ doubled = {}
        /\ received = 0 /\ intended = rows /\ request = [q \in Requests |-> Idle]
    BY DEF Init
  <2>2. \A q \in Requests : request[q] = Idle
    BY <2>1
  <2>3. request \in [Requests -> RequestRecords]
    BY <2>1, IdleType
  <2>4. \A q \in Requests : WellFormed(request[q])
    BY <1>1, <2>2, IdleType DEF WellFormed
  <2>5. QED
    BY <1>3, <2>1, <2>3, <2>4, RequestType, ProfileAssumption
<1>5. ReadsHold
  BY <1>1 DEF Init, ReadsHold, ReadIsCurrent, AddressIsFree
<1>6. /\ UpdatesAreLostOnlyToOverlaps /\ ReputationSurvivesSaves
      /\ NoFormSharesAnAddress
  BY <1>3 DEF Init, UpdatesAreLostOnlyToOverlaps, ReputationSurvivesSaves,
              NoFormSharesAnAddress
<1>7. QED
  BY <1>4, <1>5, <1>6, InvariantIsReads

LEMMA StepHolds == ProfileInvariant /\ [Next]_vars => ProfileInvariant'
<1> SUFFICES ASSUME ProfileInvariant, [Next]_vars PROVE ProfileInvariant'
  OBVIOUS
<1>1. /\ TypeOK /\ ReadsHold /\ UpdatesAreLostOnlyToOverlaps /\ ReputationSurvivesSaves
      /\ NoFormSharesAnAddress
  BY InvariantIsReads
<1> DEFINE Holds == /\ TypeOK' /\ ReadsHold' /\ UpdatesAreLostOnlyToOverlaps'
                    /\ ReputationSurvivesSaves' /\ NoFormSharesAnAddress'
<1>2. ASSUME NEW q \in Requests, NEW u \in Users, NEW change \in Changes, Arrive(q, u, change)
      PROVE  Holds
  <2>1. UNCHANGED <<registered, rows, intended, overtaken, raced, doubled>>
    BY <1>2 DEF Arrive
  <2>2. QED
    BY <1>1, <1>2, <2>1, ArriveKeepsReads, QuietStepsKeepHistory
<1>3. ASSUME NEW q \in Requests, GetUser(q)
      PROVE  Holds
  <2>1. UNCHANGED <<registered, rows, intended, overtaken, raced, doubled>>
    BY <1>3 DEF GetUser
  <2>2. QED
    BY <1>1, <1>3, <2>1, GetKeepsReads, QuietStepsKeepHistory
<1>4. ASSUME NEW q \in Requests, CheckDuplicateEmail(q)
      PROVE  Holds
  <2>1. UNCHANGED <<registered, rows, intended, overtaken, raced, doubled>>
    BY <1>4 DEF CheckDuplicateEmail
  <2>2. QED
    BY <1>1, <1>4, <2>1, CheckKeepsReads, QuietStepsKeepHistory
<1>5. ASSUME NEW q \in Requests, UpdateUser(q)
      PROVE  Holds
  BY <1>1, <1>5, UpdateUserKeepsReads, UpdateUserKeepsHistory
<1>6. ASSUME NEW q \in Requests, UpdateRefused(q) \/ Die(q)
      PROVE  Holds
  <2>1. UNCHANGED <<registered, rows, intended, overtaken, raced, doubled>>
    BY <1>6 DEF UpdateRefused, Die
  <2>2. QED
    BY <1>1, <1>6, <2>1, EndsKeepReads, QuietStepsKeepHistory
<1>7. ASSUME NEW u \in Users, NEW premium \in BOOLEAN, Ipn(u, premium)
      PROVE  Holds
  BY <1>1, <1>7, IpnKeepsReads, IpnKeepsHistory
<1>8. ASSUME NEW u \in Users, NEW r \in 1..MaxReputation, UpdateReputation(u, r)
      PROVE  Holds
  BY <1>1, <1>8, ReputationKeepsReads, ReputationKeepsHistory
<1>9. ASSUME NEW u \in Users, NEW email \in Emails \cup {Absent}, NEW i \in Images,
             Register(u, email, i)
      PROVE  Holds
  BY <1>1, <1>9, RegisterKeepsReads, RegisterKeepsHistory
<1>10. ASSUME UNCHANGED vars
      PROVE  Holds
  <2>1. TypeOK'
    BY <1>1, <1>10 DEF vars, TypeOK, Serving
  <2>2. ReadsHold'
    BY <1>1, <1>10 DEF vars, ReadsHold, ReadIsCurrent, AddressIsFree, SameButReputation
  <2>3. QED
    BY <1>1, <1>10, <2>1, <2>2, QuietStepsKeepHistory DEF vars
<1>11. Holds
  BY <1>2, <1>3, <1>4, <1>5, <1>6, <1>7, <1>8, <1>9, <1>10 DEF Next, RequestStep
<1>12. QED
  BY <1>11, InvariantIsReads DEF ProfileInvariant, ReadsHold

\* Whatever the requests, payments and events, and however they interleave, each
\* profile about to be written was made from the row as it is unless its request is
\* marked, and nothing was lost or taken that the history does not name.
THEOREM InvariantHolds == Spec => []ProfileInvariant
BY InitHolds, StepHolds, PTL DEF Spec

\* Rows, changes and profiles keep their types.
THEOREM TypeCorrect == Spec => []TypeOK
<1>1. ProfileInvariant => TypeOK
  BY DEF ProfileInvariant
<1>2. QED
  BY <1>1, InvariantHolds, PTL

\* A save loses another writer's update only if it overlaps it: PUT /me, POST
\* /me/image, /premium/ipn and updateReputation otherwise all have their effect.
THEOREM UpdatesHold == Spec => []UpdatesAreLostOnlyToOverlaps
<1>1. ProfileInvariant => UpdatesAreLostOnlyToOverlaps
  BY DEF ProfileInvariant
<1>2. QED
  BY <1>1, InvariantHolds, PTL

\* No save brings an old reputation back, overlap or not.
THEOREM ReputationHolds == Spec => []ReputationSurvivesSaves
<1>1. ProfileInvariant => ReputationSurvivesSaves
  BY DEF ProfileInvariant
<1>2. QED
  BY <1>1, InvariantHolds, PTL

\* Although no index keeps addresses unique and registering compares them with
\* nothing, checkDuplicateEmail keeps a form from ending with somebody's address, but
\* for the users who raced it or were overtaken.
THEOREM AddressesHold == Spec => []NoFormSharesAnAddress
<1>1. ProfileInvariant => NoFormSharesAnAddress
  BY DEF ProfileInvariant
<1>2. QED
  BY <1>1, InvariantHolds, PTL

=============================================================================
