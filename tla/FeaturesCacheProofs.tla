------------------------- MODULE FeaturesCacheProofs -------------------------
(***************************************************************************)
(* What is proved of FeaturesCache, for all tracking ids, boots and        *)
(* workers, and any number of changes of the flags and of faults.          *)
(***************************************************************************)
EXTENDS FeaturesCache, TLAPS

-----------------------------------------------------------------------------
(* Records.                                                                *)

LEMMA IdleType ==
    Idle \in RequestRecords /\ Idle.step = "idle"
BY DEF Idle, RequestRecords

LEMMA WaitingType ==
    /\ Waiting \in ScanRecords
    /\ Waiting.reset = NoReset /\ Waiting.left = {} /\ Waiting.sent = {}
BY FeaturesAssumption DEF Waiting, ScanRecords, Versions, NoReset

\* Only worker w changes, to new.
OnlyScans(w, new) ==
    /\ scan' \in [Workers -> ScanRecords]
    /\ \A v \in Workers \ {w} : scan'[v] = scan[v]
    /\ scan'[w] = new

LEMMA ScanMoves ==
    ASSUME TypeOK, NEW w \in Workers, NEW new \in ScanRecords,
           scan' = [scan EXCEPT ![w] = new]
    PROVE  OnlyScans(w, new)
BY DEF TypeOK, OnlyScans

LEMMA StartMoves ==
    ASSUME TypeOK, NEW w \in Workers, NEW reset \in resets, Start(w, reset)
    PROVE  \E new \in ScanRecords :
              /\ OnlyScans(w, new)
              /\ new.reset = reset /\ new.left = Keys /\ new.sent = scan[w].sent
<1>1. scan[w] \in ScanRecords /\ reset \in Versions
  BY FeaturesAssumption DEF TypeOK, Versions
<1>2. PICK new \in ScanRecords : new = [scan[w] EXCEPT !.reset = reset, !.left = Keys]
  BY <1>1 DEF ScanRecords
<1>3. new.reset = reset /\ new.left = Keys /\ new.sent = scan[w].sent
  BY <1>1, <1>2 DEF ScanRecords
<1>4. OnlyScans(w, new)
  BY <1>2, ScanMoves DEF Start
<1>5. QED
  BY <1>3, <1>4

LEMMA PageMoves ==
    ASSUME TypeOK, NEW w \in Workers, NEW page \in SUBSET Keys, Page(w, page)
    PROVE  \E new \in ScanRecords :
              /\ OnlyScans(w, new)
              /\ new.reset = scan[w].reset /\ new.left = scan[w].left \ page
              /\ new.sent = {k \in page : cache[k] # Empty}
<1> DEFINE sent == {k \in page : cache[k] # Empty}
           left == scan[w].left \ page
<1>1. scan[w] \in ScanRecords
  BY DEF TypeOK
<1>2. sent \in SUBSET Keys /\ left \in SUBSET Keys
  BY <1>1 DEF ScanRecords
<1>3. scan' = [scan EXCEPT ![w] = [scan[w] EXCEPT !.left = left, !.sent = sent]]
  BY DEF Page
<1> HIDE DEF sent, left
<1>4. PICK new \in ScanRecords : new = [scan[w] EXCEPT !.left = left, !.sent = sent]
  BY <1>1, <1>2 DEF ScanRecords
<1>5. new.reset = scan[w].reset /\ new.left = left /\ new.sent = sent
  BY <1>1, <1>4 DEF ScanRecords
<1>6. OnlyScans(w, new)
  BY <1>3, <1>4, ScanMoves
<1>7. QED
  BY <1>5, <1>6 DEF sent, left

LEMMA UnlinkMoves ==
    ASSUME TypeOK, NEW w \in Workers, scan' = [scan EXCEPT ![w].sent = {}]
    PROVE  \E new \in ScanRecords :
              /\ OnlyScans(w, new)
              /\ new.reset = scan[w].reset /\ new.left = scan[w].left /\ new.sent = {}
<1>1. scan[w] \in ScanRecords
  BY DEF TypeOK
<1>2. PICK new \in ScanRecords : new = [scan[w] EXCEPT !.sent = {}]
  BY <1>1 DEF ScanRecords
<1>3. new.reset = scan[w].reset /\ new.left = scan[w].left /\ new.sent = {}
  BY <1>1, <1>2 DEF ScanRecords
<1>4. OnlyScans(w, new)
  BY <1>2, ScanMoves
<1>5. QED
  BY <1>3, <1>4

LEMMA EndMoves ==
    ASSUME TypeOK, NEW w \in Workers, scan' = [scan EXCEPT ![w].reset = NoReset]
    PROVE  \E new \in ScanRecords :
              /\ OnlyScans(w, new)
              /\ new.reset = NoReset /\ new.left = scan[w].left /\ new.sent = scan[w].sent
<1>1. scan[w] \in ScanRecords /\ NoReset \in Versions
  BY FeaturesAssumption DEF TypeOK, NoReset, Versions
<1>2. PICK new \in ScanRecords : new = [scan[w] EXCEPT !.reset = NoReset]
  BY <1>1 DEF ScanRecords
<1>3. new.reset = NoReset /\ new.left = scan[w].left /\ new.sent = scan[w].sent
  BY <1>1, <1>2 DEF ScanRecords
<1>4. OnlyScans(w, new)
  BY <1>2, ScanMoves
<1>5. QED
  BY <1>3, <1>4

\* A boot that goes on or ends keeps the requests well typed.
LEMMA RequestMoves ==
    ASSUME TypeOK, NEW q \in Requests, NEW new \in RequestRecords,
           request' = [request EXCEPT ![q] = new],
           new.step = "idle" \/ new.key \in Keys,
           new.step = "set" => new.got \in Versions
    PROVE  /\ request' \in [Requests -> RequestRecords]
           /\ request'[q] = new /\ \A p \in Requests \ {q} : request'[p] = request[p]
           /\ \A p \in Requests : request'[p].step = "idle" \/ request'[p].key \in Keys
           /\ \A p \in Requests : request'[p].step = "set" => request'[p].got \in Versions
BY DEF TypeOK

LEMMA FaultType ==
    ASSUME TypeOK, Fault \/ UNCHANGED faults
    PROVE  faults' \in 0..MaxFaults
BY FeaturesAssumption DEF TypeOK, Fault


-----------------------------------------------------------------------------
(* Types, and what nobody has yet.                                         *)

LEMMA ResetsAreVersions ==
    ASSUME TypeOK
    PROVE  /\ resets \subseteq Versions \ {NoReset} /\ calls \subseteq Versions \ {NoReset}
           /\ flags + 1 \notin calls \cup resets
BY FeaturesAssumption DEF TypeOK, Versions, NoReset

LEMMA TypePreserved ==
    ASSUME TypeOK, NothingIsAhead, [Next]_vars
    PROVE  TypeOK' /\ NothingIsAhead'
<1> USE DEF NothingIsAhead
<1>1. CASE Change
  <2>1. flags' = flags + 1 /\ flags' \in Versions
    BY <1>1, FeaturesAssumption DEF Change, TypeOK, Versions
  <2>2. calls' \subseteq 1..flags' /\ resets' \subseteq 1..flags'
    BY <1>1, FeaturesAssumption DEF Change, TypeOK, Versions
  <2>3. NothingIsAhead'
    <3>1. \A v \in Workers : scan[v].reset \in Nat
      BY DEF TypeOK, ScanRecords, Versions
    <3>2. \A k \in Keys : cache[k] = Empty \/ cache[k] \in Nat
      BY DEF TypeOK, Versions
    <3>3. \A q \in Requests : request[q].step = "set" => request[q].got \in Nat
      BY DEF TypeOK, Versions
    <3>4. flags \in Nat /\ UNCHANGED <<scan, cache, request>>
      BY <1>1 DEF Change, TypeOK, Versions
    <3>5. QED
      BY <2>1, <3>1, <3>2, <3>3, <3>4
  <2>4. QED
    BY <1>1, <2>1, <2>2, <2>3 DEF Change, TypeOK, Scanning
<1>2. ASSUME NEW change \in calls, Reset(change)
      PROVE  TypeOK' /\ NothingIsAhead'
  <2>1. faults' \in 0..MaxFaults
    BY <1>2, FaultType DEF Reset
  <2>2. /\ calls' \subseteq 1..flags /\ resets' \subseteq 1..flags /\ missed' \in BOOLEAN
        /\ UNCHANGED <<flags, cache, request, scan, cleared, excused>>
    BY <1>2 DEF Reset, TypeOK
  <2>3. QED
    BY <2>1, <2>2 DEF TypeOK, Scanning
<1>3. ASSUME NEW q \in Requests, NEW k \in Keys, Miss(q, k)
      PROVE  TypeOK' /\ NothingIsAhead'
  <2> DEFINE new == [step |-> "fetch", key |-> k, got |-> Empty]
  <2>1. new \in RequestRecords /\ new.step = "fetch" /\ new.key = k
    BY DEF RequestRecords
  <2>2. request' = [request EXCEPT ![q] = new]
    BY <1>3 DEF Miss
  <2> HIDE DEF new
  <2>3. /\ request' \in [Requests -> RequestRecords]
        /\ request'[q] = new /\ \A p \in Requests \ {q} : request'[p] = request[p]
        /\ \A p \in Requests : request'[p].step = "idle" \/ request'[p].key \in Keys
        /\ \A p \in Requests : request'[p].step = "set" => request'[p].got \in Versions
    BY <2>1, <2>2, RequestMoves
  <2>4. UNCHANGED <<server, resets, cache, scan, cleared, excused, faults>>
    BY <1>3 DEF Miss
  <2>5. QED
    BY <2>1, <2>3, <2>4 DEF TypeOK, Scanning, server
<1>4. ASSUME NEW q \in Requests, Fetch(q)
      PROVE  TypeOK' /\ NothingIsAhead'
  <2>1. /\ request[q] \in RequestRecords /\ request[q].step = "fetch"
        /\ flags \in Versions /\ request[q].key \in Keys
    BY <1>4 DEF Fetch, TypeOK
  <2>2. PICK new \in RequestRecords : new = [request[q] EXCEPT !.step = "set", !.got = flags]
    BY <2>1 DEF RequestRecords
  <2>3. new.step = "set" /\ new.got = flags /\ new.key = request[q].key
    BY <2>1, <2>2 DEF RequestRecords
  <2>4. request' = [request EXCEPT ![q] = new]
    BY <1>4, <2>2 DEF Fetch
  <2>5. /\ request' \in [Requests -> RequestRecords]
        /\ request'[q] = new /\ \A p \in Requests \ {q} : request'[p] = request[p]
        /\ \A p \in Requests : request'[p].step = "idle" \/ request'[p].key \in Keys
        /\ \A p \in Requests : request'[p].step = "set" => request'[p].got \in Versions
    BY <2>1, <2>3, <2>4, RequestMoves
  <2>6. UNCHANGED <<server, resets, cache, scan, cleared, excused, faults>>
    BY <1>4 DEF Fetch
  <2>7. flags <= flags
    BY <2>1 DEF Versions
  <2>8. QED
    BY <2>3, <2>5, <2>6, <2>7 DEF TypeOK, Scanning, server
<1>5. ASSUME NEW q \in Requests, SetCache(q) \/ GiveUp(q)
      PROVE  TypeOK' /\ NothingIsAhead'
  <2>1. request' = [request EXCEPT ![q] = Idle]
    BY <1>5 DEF SetCache, GiveUp
  <2>2. /\ request' \in [Requests -> RequestRecords]
        /\ request'[q] = Idle /\ \A p \in Requests \ {q} : request'[p] = request[p]
        /\ \A p \in Requests : request'[p].step = "idle" \/ request'[p].key \in Keys
        /\ \A p \in Requests : request'[p].step = "set" => request'[p].got \in Versions
    BY <2>1, IdleType, RequestMoves
  <2>3. UNCHANGED <<server, resets, scan, cleared, faults>>
    BY <1>5 DEF SetCache, GiveUp
  <2>4. /\ cache' \in [Keys -> Versions \cup {Empty}] /\ excused' \in SUBSET Keys
        /\ \A k \in Keys : cache'[k] = Empty \/ cache'[k] <= flags
    <3>1. CASE GiveUp(q)
      BY <3>1 DEF GiveUp, TypeOK
    <3>2. CASE SetCache(q)
      <4>1. /\ request[q].key \in Keys /\ request[q].got \in Versions
            /\ request[q].got <= flags
        BY <3>2 DEF SetCache, TypeOK
      <4>2. cache' = [cache EXCEPT ![request[q].key] = request[q].got]
        BY <3>2 DEF SetCache
      <4>3. excused' \in SUBSET Keys
        BY <3>2, <4>1 DEF SetCache, TypeOK
      <4>4. QED
        BY <4>1, <4>2, <4>3 DEF TypeOK
    <3>3. QED
      BY <1>5, <3>1, <3>2
  <2>5. QED
    BY <2>2, <2>3, <2>4, IdleType DEF TypeOK, Scanning, server
<1>6. ASSUME NEW k \in Keys, Expire(k)
      PROVE  TypeOK' /\ NothingIsAhead'
  BY <1>6 DEF Expire, Remove, TypeOK, Scanning, server
<1>7. ASSUME NEW w \in Workers, NEW reset \in resets, Start(w, reset)
      PROVE  TypeOK' /\ NothingIsAhead'
  <2>1. PICK new \in ScanRecords :
          /\ OnlyScans(w, new)
          /\ new.reset = reset /\ new.left = Keys /\ new.sent = scan[w].sent
    BY <1>7, StartMoves
  <2>2. UNCHANGED <<server, resets, cache, request, cleared, excused, faults>>
    BY <1>7 DEF Start
  <2>3. reset # NoReset
    BY ResetsAreVersions
  <2>4. QED
    BY <2>1, <2>2, <2>3 DEF TypeOK, Scanning, server, OnlyScans
<1>8. ASSUME NEW w \in Workers, NEW page \in SUBSET Keys, Page(w, page)
      PROVE  TypeOK' /\ NothingIsAhead'
  <2>1. PICK new \in ScanRecords :
          /\ OnlyScans(w, new)
          /\ new.reset = scan[w].reset /\ new.left = scan[w].left \ page
          /\ new.sent = {k \in page : cache[k] # Empty}
    BY <1>8, PageMoves
  <2>2. UNCHANGED <<server, resets, cache, request, excused, faults>>
    BY <1>8 DEF Page
  <2>3. cleared' \in [Keys -> Versions]
    BY <1>8 DEF Page, TypeOK
  <2>4. NothingIsAhead'
    BY <2>1, <2>2 DEF server, OnlyScans
  <2>5. TypeOK'
    BY <1>8, <2>1, <2>2, <2>3 DEF TypeOK, Scanning, server, OnlyScans, Page
  <2>6. QED
    BY <2>4, <2>5
<1>9. ASSUME NEW w \in Workers, Unlink(w)
      PROVE  TypeOK' /\ NothingIsAhead'
  <2>1. PICK new \in ScanRecords :
          /\ OnlyScans(w, new)
          /\ new.reset = scan[w].reset /\ new.left = scan[w].left /\ new.sent = {}
    BY <1>9, UnlinkMoves DEF Unlink
  <2>2. /\ UNCHANGED <<server, resets, request, cleared, faults>>
        /\ cache' \in [Keys -> Versions \cup {Empty}] /\ excused' \in SUBSET Keys
        /\ \A k \in Keys : cache'[k] = Empty \/ cache'[k] = cache[k]
    BY <1>9 DEF Unlink, Remove, TypeOK
  <2>3. QED
    BY <2>1, <2>2 DEF TypeOK, Scanning, server, OnlyScans
<1>10. ASSUME NEW w \in Workers, End(w)
       PROVE  TypeOK' /\ NothingIsAhead'
  <2>1. PICK new \in ScanRecords :
          /\ OnlyScans(w, new)
          /\ new.reset = NoReset /\ new.left = scan[w].left /\ new.sent = scan[w].sent
    BY <1>10, EndMoves DEF End
  <2>2. UNCHANGED <<server, cache, request, cleared, excused>> /\ resets' \subseteq resets
    BY <1>10 DEF End
  <2>3. faults' \in 0..MaxFaults
    BY <1>10, FaultType DEF End
  <2>4. scan[w].left = {} /\ NoReset <= flags
    BY <1>10 DEF End, NoReset, TypeOK, Versions
  <2>5. NothingIsAhead'
    BY <2>1, <2>2, <2>4 DEF server, OnlyScans
  <2>6. TypeOK'
    BY <2>1, <2>2, <2>3, <2>4 DEF TypeOK, Scanning, server, OnlyScans
  <2>7. QED
    BY <2>5, <2>6
<1>11. ASSUME NEW w \in Workers, Fail(w)
       PROVE  TypeOK' /\ NothingIsAhead'
  <2>1. \E new \in ScanRecords :
          /\ OnlyScans(w, new)
          /\ \/ new.left = {} /\ new.reset = NoReset
             \/ new.reset = scan[w].reset /\ new.left = scan[w].left
    <3>1. CASE scan' = [scan EXCEPT ![w].sent = {}]
      BY <3>1, UnlinkMoves
    <3>2. CASE scan' = [scan EXCEPT ![w] = Waiting]
      BY <3>2, WaitingType, ScanMoves
    <3>3. QED
      BY <1>11, <3>1, <3>2 DEF Fail
  <2>2. UNCHANGED <<server, resets, cache, request, cleared>>
    BY <1>11 DEF Fail
  <2>3. faults' \in 0..MaxFaults
    BY <1>11, FaultType DEF Fail
  <2>4. excused' \in SUBSET Keys
    <3>1. scan[w].sent \in SUBSET Keys
      BY DEF TypeOK, ScanRecords
    <3>2. QED
      BY <1>11, <3>1 DEF Fail, TypeOK
  <2>5. NoReset <= flags
    BY DEF NoReset, TypeOK, Versions
  <2>6. NothingIsAhead'
    BY <2>1, <2>2, <2>5 DEF server, OnlyScans
  <2>7. TypeOK'
    BY <2>1, <2>2, <2>3, <2>4 DEF TypeOK, Scanning, server, OnlyScans
  <2>8. QED
    BY <2>6, <2>7
<1>12. CASE UNCHANGED vars
  BY <1>12 DEF vars, server, TypeOK, Scanning
<1>13. QED
  BY <1>1, <1>2, <1>3, <1>4, <1>5, <1>6, <1>7, <1>8, <1>9, <1>10, <1>11, <1>12
     DEF Next, WorkerStep


-----------------------------------------------------------------------------
(* Resets are not lost.                                                    *)

\* The steps of a worker, seen from outside: a reset begins, the scan goes on
\* without having passed k or having just looked at it, or the worker stops.
LEMMA ScanSteps ==
    ASSUME TypeOK, NEW w \in Workers, Next, WorkerStep(w) \/ Fail(w)
    PROVE  /\ UNCHANGED <<server, request>>
           /\ \E new \in ScanRecords :
                /\ OnlyScans(w, new)
                /\ \/ new.reset \in resets /\ new.left = Keys /\ resets' = resets
                      /\ cleared' = cleared
                   \/ /\ new.reset = scan[w].reset /\ resets' = resets
                      /\ cleared' \in [Keys -> Versions]
                      /\ \A k \in Keys : \/ cleared'[k] = flags
                                         \/ /\ cleared'[k] = cleared[k]
                                            /\ k \in scan[w].left => k \in new.left
                   \/ /\ new.reset = NoReset /\ cleared' = cleared
                      /\ \/ resets' = resets
                         \/ resets' = resets \ {scan[w].reset} /\ scan[w].left = {}
<1>1. ASSUME NEW reset \in resets, Start(w, reset)
      PROVE  /\ UNCHANGED <<server, request, resets, cleared>>
             /\ \E new \in ScanRecords :
                  OnlyScans(w, new) /\ new.reset \in resets /\ new.left = Keys
  BY <1>1, StartMoves DEF Start
<1>2. ASSUME NEW page \in SUBSET Keys, Page(w, page)
      PROVE  /\ UNCHANGED <<server, request, resets>>
             /\ cleared' \in [Keys -> Versions]
             /\ \E new \in ScanRecords :
                  /\ OnlyScans(w, new) /\ new.reset = scan[w].reset
                  /\ \A k \in Keys : \/ cleared'[k] = flags
                                     \/ /\ cleared'[k] = cleared[k]
                                        /\ k \in scan[w].left => k \in new.left
  <2>1. PICK new \in ScanRecords :
          /\ OnlyScans(w, new)
          /\ new.reset = scan[w].reset /\ new.left = scan[w].left \ page
    BY <1>2, PageMoves
  <2>2. cleared' = [k \in Keys |-> IF k \in page THEN flags ELSE cleared[k]]
    BY <1>2 DEF Page
  <2>3. cleared' \in [Keys -> Versions]
    BY <2>2 DEF TypeOK
  <2>4. QED
    BY <1>2, <2>1, <2>2, <2>3 DEF Page
<1>3. ASSUME Unlink(w)
      PROVE  /\ UNCHANGED <<server, request, resets, cleared>>
             /\ \E new \in ScanRecords :
                  /\ OnlyScans(w, new) /\ new.reset = scan[w].reset
                  /\ new.left = scan[w].left
  BY <1>3, UnlinkMoves DEF Unlink
<1>4. ASSUME End(w)
      PROVE  /\ UNCHANGED <<server, request, cleared>>
             /\ \E new \in ScanRecords : OnlyScans(w, new) /\ new.reset = NoReset
             /\ \/ resets' = resets
                \/ resets' = resets \ {scan[w].reset} /\ scan[w].left = {}
  BY <1>4, EndMoves DEF End
<1>5. ASSUME Fail(w)
      PROVE  /\ UNCHANGED <<server, request, resets, cleared>>
             /\ \E new \in ScanRecords :
                  /\ OnlyScans(w, new)
                  /\ \/ new.reset = scan[w].reset /\ new.left = scan[w].left
                     \/ new.reset = NoReset
  <2>1. CASE scan' = [scan EXCEPT ![w].sent = {}]
    BY <1>5, <2>1, UnlinkMoves DEF Fail
  <2>2. CASE scan' = [scan EXCEPT ![w] = Waiting]
    BY <1>5, <2>2, WaitingType, ScanMoves DEF Fail
  <2>3. QED
    BY <1>5, <2>1, <2>2 DEF Fail
<1>6. cleared \in [Keys -> Versions]
  BY DEF TypeOK
<1>7. CASE \E reset \in resets : Start(w, reset)
  BY <1>1, <1>7
<1>8. CASE \E page \in SUBSET Keys : Page(w, page)
  BY <1>2, <1>8
<1>9. CASE Unlink(w)
  BY <1>3, <1>6, <1>9
<1>10. CASE End(w)
  BY <1>4, <1>10
<1>11. CASE Fail(w)
  BY <1>5, <1>6, <1>11
<1>12. QED
  BY <1>7, <1>8, <1>9, <1>10, <1>11 DEF WorkerStep

\* Steps of boots and expiring entries have no part in it.
LEMMA BootSteps ==
    ASSUME \/ \E q \in Requests : \/ \E k \in Keys : Miss(q, k)
                                  \/ Fetch(q) \/ SetCache(q) \/ GiveUp(q)
           \/ \E k \in Keys : Expire(k)
           \/ UNCHANGED vars
    PROVE  UNCHANGED <<flags, calls, missed, resets, scan, cleared>>
BY DEF Miss, Fetch, SetCache, GiveUp, Expire, vars, server

LEMMA ReportsPreserved ==
    ASSUME TypeOK, NothingIsAhead, ReportedOnce, [Next]_vars
    PROVE  ReportedOnce'
<1>1. CASE Change
  <2>1. flags + 1 \notin calls \cup resets /\ calls' = calls \cup {flags + 1}
        /\ UNCHANGED <<resets, scan>>
    BY <1>1, ResetsAreVersions DEF Change
  <2>2. \A w \in Workers : scan[w].reset # flags + 1
    BY FeaturesAssumption DEF NothingIsAhead, TypeOK, ScanRecords, Versions
  <2>3. QED
    BY <2>1, <2>2 DEF ReportedOnce
<1>2. ASSUME NEW change \in calls, Reset(change)
      PROVE  ReportedOnce'
  BY <1>2 DEF Reset, ReportedOnce
<1>3. ASSUME NEW w \in Workers, Next, WorkerStep(w) \/ Fail(w)
      PROVE  ReportedOnce'
  <2>1. PICK new \in ScanRecords :
          /\ OnlyScans(w, new) /\ new.reset \in resets \cup {scan[w].reset, NoReset}
          /\ resets' = resets \/ resets' = resets \ {scan[w].reset}
    BY <1>3, ScanSteps
  <2>2. calls' = calls /\ NoReset \notin calls
    BY <1>3, ScanSteps, ResetsAreVersions DEF server
  <2>3. QED
    BY <2>1, <2>2 DEF ReportedOnce, OnlyScans
<1>4. CASE UNCHANGED <<flags, calls, missed, resets, scan, cleared>>
  BY <1>4 DEF ReportedOnce
<1>5. QED
  BY <1>1, <1>2, <1>3, <1>4, BootSteps DEF Next

LEMMA ResetsPreserved ==
    ASSUME TypeOK, NothingIsAhead, ReportedOnce, NEW k \in Keys, WillBeScanned(k),
           [Next]_vars
    PROVE  WillBeScanned(k)'
<1>1. CASE Change
  BY <1>1 DEF Change, WillBeScanned
<1>2. ASSUME NEW change \in calls, Reset(change)
      PROVE  WillBeScanned(k)'
  <2>1. /\ calls' = calls \ {change} /\ UNCHANGED <<flags, scan, cleared>>
        /\ \/ resets' = resets \cup {change} /\ missed' = FALSE
           \/ resets' = resets /\ missed' = TRUE
    BY <1>2 DEF Reset
  <2>2. QED
    BY <2>1 DEF ReportedOnce, WillBeScanned
<1>3. ASSUME NEW w \in Workers, Next, WorkerStep(w) \/ Fail(w)
      PROVE  WillBeScanned(k)'
  <2>1. PICK new \in ScanRecords :
          /\ OnlyScans(w, new)
          /\ \/ new.reset \in resets /\ new.left = Keys /\ resets' = resets
                /\ cleared' = cleared
             \/ /\ new.reset = scan[w].reset /\ resets' = resets
                /\ cleared' \in [Keys -> Versions]
                /\ \A j \in Keys : \/ cleared'[j] = flags
                                   \/ /\ cleared'[j] = cleared[j]
                                      /\ j \in scan[w].left => j \in new.left
             \/ /\ new.reset = NoReset /\ cleared' = cleared
                /\ \/ resets' = resets
                   \/ resets' = resets \ {scan[w].reset} /\ scan[w].left = {}
    BY <1>3, ScanSteps
  <2>2. UNCHANGED <<flags, calls, missed>>
    BY <1>3, ScanSteps DEF server
  <2>3. NoReset \notin calls /\ NoReset \notin resets
    BY ResetsAreVersions
  <2>4. CASE missed \/ calls # {}
    BY <2>2, <2>4 DEF WillBeScanned
  <2>5. CASE cleared[k] = flags
    BY <2>1, <2>2, <2>5 DEF WillBeScanned
  <2>6. ASSUME NEW reset \in resets,
               \A v \in Workers : scan[v].reset = reset => k \in scan[v].left
        PROVE  WillBeScanned(k)'
    <3>1. reset \in resets'
      BY <2>1, <2>6
    <3>2. cleared'[k] = flags \/ (new.reset = reset => k \in new.left)
      BY <2>1, <2>3, <2>6
    <3>3. QED
      BY <2>1, <2>2, <2>6, <3>1, <3>2 DEF WillBeScanned, OnlyScans
  <2>7. QED
    BY <2>4, <2>5, <2>6 DEF WillBeScanned
<1>4. CASE UNCHANGED <<flags, calls, missed, resets, scan, cleared>>
  BY <1>4 DEF WillBeScanned
<1>5. QED
  BY <1>1, <1>2, <1>3, <1>4, BootSteps DEF Next


-----------------------------------------------------------------------------
(* Entries older than a scan are unlinked.                                 *)

LEMMA UnlinksPreserved ==
    ASSUME TypeOK, NEW k \in Keys, IsUnlinked(k), [Next]_vars
    PROVE  IsUnlinked(k)'
<1>1. CASE UNCHANGED <<cache, scan, cleared, excused>>
  BY <1>1 DEF IsUnlinked
<1>2. ASSUME NEW q \in Requests, SetCache(q)
      PROVE  IsUnlinked(k)'
  <2>1. /\ request[q].key \in Keys /\ UNCHANGED <<scan, cleared>>
        /\ cache' = [cache EXCEPT ![request[q].key] = request[q].got]
        /\ IF request[q].got < cleared[request[q].key]
           THEN excused' = excused \cup {request[q].key}
           ELSE excused' = excused \ {request[q].key}
    BY <1>2 DEF SetCache, TypeOK
  <2>2. CASE k = request[q].key
    BY <2>1, <2>2 DEF IsUnlinked, TypeOK
  <2>3. CASE k # request[q].key
    BY <2>1, <2>3 DEF IsUnlinked, TypeOK
  <2>4. QED
    BY <2>2, <2>3
<1>3. ASSUME NEW j \in Keys, Expire(j)
      PROVE  IsUnlinked(k)'
  BY <1>3 DEF Expire, Remove, IsUnlinked
<1>4. ASSUME NEW w \in Workers, NEW reset \in resets, Start(w, reset)
      PROVE  IsUnlinked(k)'
  <2>1. PICK new \in ScanRecords : OnlyScans(w, new) /\ new.sent = scan[w].sent
    BY <1>4, StartMoves
  <2>2. UNCHANGED <<cache, cleared, excused>>
    BY <1>4 DEF Start
  <2>3. QED
    BY <2>1, <2>2 DEF IsUnlinked, OnlyScans
<1>5. ASSUME NEW w \in Workers, NEW page \in SUBSET Keys, Page(w, page)
      PROVE  IsUnlinked(k)'
  <2>1. PICK new \in ScanRecords :
          OnlyScans(w, new) /\ new.sent = {j \in page : cache[j] # Empty}
    BY <1>5, PageMoves
  <2>2. /\ scan[w].sent = {} /\ UNCHANGED <<cache, excused>>
        /\ k \notin page => cleared'[k] = cleared[k]
    BY <1>5 DEF Page
  <2>3. CASE k \in page
    BY <2>1, <2>2, <2>3 DEF IsUnlinked, OnlyScans
  <2>4. CASE k \notin page
    BY <2>1, <2>2, <2>4 DEF IsUnlinked, OnlyScans
  <2>5. QED
    BY <2>3, <2>4
<1>6. ASSUME NEW w \in Workers, Unlink(w)
      PROVE  IsUnlinked(k)'
  <2>1. PICK new \in ScanRecords : OnlyScans(w, new)
    BY <1>6, UnlinkMoves DEF Unlink
  <2>2. /\ cleared' = cleared
        /\ k \in scan[w].sent => cache'[k] = Empty
        /\ k \notin scan[w].sent => cache'[k] = cache[k] /\ (k \in excused => k \in excused')
    BY <1>6 DEF Unlink, Remove
  <2>3. QED
    BY <2>1, <2>2 DEF IsUnlinked, OnlyScans
<1>7. ASSUME NEW w \in Workers, End(w)
      PROVE  IsUnlinked(k)'
  <2>1. PICK new \in ScanRecords : OnlyScans(w, new) /\ new.sent = scan[w].sent
    BY <1>7, EndMoves DEF End
  <2>2. UNCHANGED <<cache, cleared, excused>>
    BY <1>7 DEF End
  <2>3. QED
    BY <2>1, <2>2 DEF IsUnlinked, OnlyScans
<1>8. ASSUME NEW w \in Workers, Fail(w)
      PROVE  IsUnlinked(k)'
  <2>1. \E new \in ScanRecords : OnlyScans(w, new)
    <3>1. CASE scan' = [scan EXCEPT ![w].sent = {}]
      BY <3>1, UnlinkMoves
    <3>2. CASE scan' = [scan EXCEPT ![w] = Waiting]
      BY <3>2, WaitingType, ScanMoves
    <3>3. QED
      BY <1>8, <3>1, <3>2 DEF Fail
  <2>2. UNCHANGED <<cache, cleared>> /\ excused' = excused \cup scan[w].sent
    BY <1>8 DEF Fail
  <2>3. QED
    BY <2>1, <2>2 DEF IsUnlinked, OnlyScans
<1>9. CASE Change \/ (\E change \in calls : Reset(change)) \/ UNCHANGED vars
  BY <1>1, <1>9 DEF Change, Reset, vars
<1>10. ASSUME NEW q \in Requests, (\E j \in Keys : Miss(q, j)) \/ Fetch(q) \/ GiveUp(q)
       PROVE  IsUnlinked(k)'
  BY <1>1, <1>10 DEF Miss, Fetch, GiveUp
<1>11. QED
  BY <1>2, <1>3, <1>4, <1>5, <1>6, <1>7, <1>8, <1>9, <1>10 DEF Next, WorkerStep

-----------------------------------------------------------------------------
(* The inductive invariant, and what follows from it.                      *)

LEMMA InitHolds == Init => FeaturesInvariant
<1> SUFFICES ASSUME Init PROVE FeaturesInvariant
  OBVIOUS
<1>1. \A w \in Workers : scan[w] = Waiting
  BY DEF Init
<1>2. \A q \in Requests : request[q] = Idle
  BY DEF Init
<1>3. 0 \in Versions /\ 0 \in 0..MaxFaults
  BY FeaturesAssumption DEF Versions
<1>4. TypeOK
  BY <1>1, <1>2, <1>3, IdleType, WaitingType DEF Init, TypeOK, Scanning
<1>5. NothingIsAhead
  BY <1>1, <1>2, IdleType, WaitingType DEF Init, NothingIsAhead, NoReset
<1>6. ReportedOnce
  BY DEF Init, ReportedOnce
<1>7. \A k \in Keys : WillBeScanned(k) /\ IsUnlinked(k)
  BY DEF Init, WillBeScanned, IsUnlinked
<1>8. QED
  BY <1>4, <1>5, <1>6, <1>7 DEF FeaturesInvariant

LEMMA StepHolds == FeaturesInvariant /\ [Next]_vars => FeaturesInvariant'
<1> SUFFICES ASSUME FeaturesInvariant, [Next]_vars PROVE FeaturesInvariant'
  OBVIOUS
<1>1. /\ TypeOK /\ NothingIsAhead /\ ReportedOnce
      /\ \A k \in Keys : WillBeScanned(k) /\ IsUnlinked(k)
  BY DEF FeaturesInvariant
<1>2. TypeOK' /\ NothingIsAhead'
  BY <1>1, TypePreserved
<1>3. ReportedOnce'
  BY <1>1, ReportsPreserved
<1>4. \A k \in Keys : WillBeScanned(k)' /\ IsUnlinked(k)'
  BY <1>1, ResetsPreserved, UnlinksPreserved
<1>5. QED
  BY <1>2, <1>3, <1>4 DEF FeaturesInvariant

\* Every change is scanned for or will be, and what a scan has seen is unlinked,
\* whatever boots store meanwhile and wherever workers stop.
THEOREM InvariantHolds == Spec => []FeaturesInvariant
BY InitHolds, StepHolds, PTL DEF Spec

\* Versions, boots and scans keep their types.
THEOREM TypeCorrect == Spec => []TypeOK
<1>1. FeaturesInvariant => TypeOK
  BY DEF FeaturesInvariant
<1>2. QED
  BY <1>1, InvariantHolds, PTL

\* Once every reset has been dealt with, no tracking id keeps old flags, but for the
\* boots that stored what they had fetched before the scan, lost unlinks and a last
\* change that the webhook did not report.
THEOREM FlagsSettle == Spec => []StaleFlagsAreExcused
<1>1. ASSUME FeaturesInvariant, Settled, ~missed, NEW k \in Keys, Stale(k)
      PROVE  k \in excused
  <2>1. \A w \in Workers : scan[w].sent = {}
    BY <1>1, WaitingType DEF Settled
  <2>2. cleared[k] = flags
    BY <1>1 DEF Settled, FeaturesInvariant, WillBeScanned
  <2>3. cache[k] # Empty /\ cache[k] # flags /\ cache[k] <= flags
    BY <1>1 DEF Stale, FeaturesInvariant, NothingIsAhead
  <2>4. cache[k] \in Nat /\ flags \in Nat
    BY <1>1, <2>3 DEF FeaturesInvariant, TypeOK, Versions
  <2>5. cache[k] < cleared[k]
    BY <2>2, <2>3, <2>4
  <2>6. QED
    BY <1>1, <2>1, <2>3, <2>5 DEF FeaturesInvariant, IsUnlinked
<1>2. FeaturesInvariant => StaleFlagsAreExcused
  BY <1>1 DEF StaleFlagsAreExcused
<1>3. QED
  BY <1>2, InvariantHolds, PTL

=============================================================================
