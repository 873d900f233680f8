---------------------------- MODULE FeaturesCache ----------------------------
(***************************************************************************)
(* The feature flags of each tracking id, fetched by boot from Flagsmith   *)
(* and kept in Redis for a month.  When flags change, Flagsmith calls      *)
(* POST /flagsmith/reset; the event this publishes makes the worker        *)
(* clearFeaturesCache scan for the entries and unlink them.                *)
(*                                                                         *)
(* The worker unlinks a page of the scan without waiting for it.  Redis    *)
(* does what comes over one connection in order, so a page is gone before  *)
(* the next is scanned, but the event is acknowledged while the last one   *)
(* may still be there.  Boots fill the cache at any time.                  *)
(***************************************************************************)
EXTENDS Naturals, FiniteSets

CONSTANTS Keys,          \* tracking ids: features:<...>
          Requests,      \* boots under way at once
          Workers,       \* background instances
          NoKey,
          MaxChanges,    \* bound on the changes of the flags
          MaxFaults      \* bound on lost calls and deaths

ASSUME FeaturesAssumption ==
    /\ NoKey \notin Keys
    /\ MaxChanges \in Nat /\ MaxFaults \in Nat

VARIABLES
    flags,        \* the version of the flags at Flagsmith
    calls,        \* the changes that the webhook has not reported
    resets,       \* events in the subscription clear-features-cache
    cache,        \* Redis: the version cached for each key, or Empty
    request,      \* the local state of each boot
    scan,         \* the local state of each worker
    cleared,      \* history: the version of the flags when a key was last scanned
    excused,      \* history: keys whose entry is older than that, or whose unlink
                  \* was lost
    missed,       \* history: a change was not reported
    faults

server == <<flags, calls, missed>>
vars   == <<server, resets, cache, request, scan, cleared, excused, faults>>

Versions == 0..MaxChanges
Empty    == MaxChanges + 1
Idle     == [step |-> "idle", key |-> NoKey, got |-> Empty]
NoReset  == 0
Waiting  == [reset |-> NoReset, left |-> {}, sent |-> {}]

RequestRecords == [step : {"idle", "fetch", "set"}, key : Keys \cup {NoKey},
                   got : Versions \cup {Empty}]
ScanRecords    == [reset : Versions, left : SUBSET Keys, sent : SUBSET Keys]

Fault == faults < MaxFaults /\ faults' = faults + 1

-----------------------------------------------------------------------------
(* Flagsmith and its webhook.                                              *)

Change ==
    /\ flags < MaxChanges
    /\ flags' = flags + 1
    /\ calls' = calls \cup {flags + 1}
    /\ UNCHANGED <<resets, cache, request, scan, cleared, excused, missed, faults>>

\* POST /flagsmith/reset publishes an event, or (a fault) fails.
Reset(change) ==
    /\ calls' = calls \ {change}
    /\ \/ resets' = resets \cup {change} /\ missed' = FALSE /\ UNCHANGED faults
       \/ Fault /\ missed' = TRUE /\ UNCHANGED resets
    /\ UNCHANGED <<flags, cache, request, scan, cleared, excused>>

-----------------------------------------------------------------------------
(* getFlagsForUser.  (An entry that is there is answered.)                 *)

Miss(q, k) ==
    /\ request[q] = Idle
    /\ cache[k] = Empty
    /\ request' = [request EXCEPT ![q] = [step |-> "fetch", key |-> k, got |-> Empty]]
    /\ UNCHANGED <<server, resets, cache, scan, cleared, excused, faults>>

Fetch(q) ==
    /\ request[q].step = "fetch"
    /\ request' = [request EXCEPT ![q] = [@ EXCEPT !.step = "set", !.got = flags]]
    /\ UNCHANGED <<server, resets, cache, scan, cleared, excused, faults>>

SetCache(q) ==
    LET k == request[q].key
        value == request[q].got
    IN  /\ request[q].step = "set"
        /\ cache' = [cache EXCEPT ![k] = value]
        /\ excused' = IF value < cleared[k] THEN excused \cup {k} ELSE excused \ {k}
        /\ request' = [request EXCEPT ![q] = Idle]
        /\ UNCHANGED <<server, resets, scan, cleared, faults>>

\* Flagsmith or Redis does not answer: boot goes without flags.
GiveUp(q) ==
    /\ request[q] # Idle
    /\ request' = [request EXCEPT ![q] = Idle]
    /\ UNCHANGED <<server, resets, cache, scan, cleared, excused, faults>>

Remove(keys) ==
    /\ cache' = [k \in Keys |-> IF k \in keys THEN Empty ELSE cache[k]]
    /\ excused' = excused \ keys

Expire(k) ==
    /\ cache[k] # Empty
    /\ Remove({k})
    /\ UNCHANGED <<server, resets, request, scan, cleared, faults>>

-----------------------------------------------------------------------------
(* The worker clearFeaturesCache: deleteKeysByPattern.                     *)

Scanning(w) == scan[w].reset # NoReset

Start(w, reset) ==
    /\ ~Scanning(w)
    /\ scan' = [scan EXCEPT ![w] = [@ EXCEPT !.reset = reset, !.left = Keys]]
    /\ UNCHANGED <<server, resets, cache, request, cleared, excused, faults>>

\* The next page comes in, and the keys in it are sent to be unlinked.
Page(w, page) ==
    /\ Scanning(w) /\ page \subseteq scan[w].left /\ scan[w].sent = {}
    /\ scan' = [scan EXCEPT ![w] = [@ EXCEPT !.left = scan[w].left \ page,
                                             !.sent = {k \in page : cache[k] # Empty}]]
    /\ cleared' = [k \in Keys |-> IF k \in page THEN flags ELSE cleared[k]]
    /\ UNCHANGED <<server, resets, cache, request, excused, faults>>

Unlink(w) ==
    /\ scan[w].sent # {}
    /\ Remove(scan[w].sent)
    /\ scan' = [scan EXCEPT ![w].sent = {}]
    /\ UNCHANGED <<server, resets, request, cleared, faults>>

\* A faulty variant: the promise resolves before the last page is there.
EndEarly(w) ==
    /\ Scanning(w)
    /\ scan' = [scan EXCEPT ![w].reset = NoReset]
    /\ resets' = resets \ {scan[w].reset}
    /\ UNCHANGED <<server, cache, request, cleared, excused, faults>>

\* After the last page the event is acknowledged, or (a fault) comes again.
End(w) ==
    /\ Scanning(w) /\ scan[w].left = {}
    /\ scan' = [scan EXCEPT ![w].reset = NoReset]
    /\ \/ resets' = resets \ {scan[w].reset} /\ UNCHANGED faults
       \/ UNCHANGED resets /\ Fault
    /\ UNCHANGED <<server, cache, request, cleared, excused>>

\* Redis refuses an unlink, and nobody looks; or the instance dies or its scan
\* fails, and an event that is not acknowledged stays.
Fail(w) ==
    /\ scan[w] # Waiting
    /\ Fault
    /\ scan' \in {[scan EXCEPT ![w].sent = {}], [scan EXCEPT ![w] = Waiting]}
    /\ excused' = excused \cup scan[w].sent
    /\ UNCHANGED <<server, resets, cache, request, cleared>>

-----------------------------------------------------------------------------
Init ==
    /\ flags = 0 /\ calls = {} /\ resets = {} /\ missed = FALSE /\ faults = 0
    /\ cache = [k \in Keys |-> Empty]
    /\ request = [q \in Requests |-> Idle]
    /\ scan = [w \in Workers |-> Waiting]
    /\ cleared = [k \in Keys |-> 0] /\ excused = {}

WorkerStep(w) ==
    \/ \E reset \in resets : Start(w, reset)
    \/ \E page \in SUBSET Keys \ {{}} : Page(w, page)
    \/ Unlink(w)
    \/ End(w)

Next ==
    \/ Change
    \/ \E change \in calls : Reset(change)
    \/ \E q \in Requests : \/ \E k \in Keys : Miss(q, k)
                           \/ Fetch(q) \/ SetCache(q) \/ GiveUp(q)
    \/ \E k \in Keys : Expire(k)
    \/ \E w \in Workers : WorkerStep(w) \/ Fail(w)

\* Flagsmith calls, Pub/Sub delivers, and a scan comes to its end.
Spec == Init /\ [][Next]_vars /\ WF_vars(\E change \in calls : Reset(change))
             /\ \A w \in Workers : WF_vars(WorkerStep(w))

-----------------------------------------------------------------------------
(* Properties.                                                             *)

\* A worker without an event has nothing left to scan.
TypeOK ==
    /\ flags \in Versions
    /\ calls \subseteq 1..flags /\ resets \subseteq 1..flags
    /\ cache \in [Keys -> Versions \cup {Empty}]
    /\ request \in [Requests -> RequestRecords]
    /\ \A q \in Requests : request[q].step = "idle" \/ request[q].key \in Keys
    /\ \A q \in Requests : request[q].step = "set" => request[q].got \in Versions
    /\ scan \in [Workers -> ScanRecords]
    /\ \A w \in Workers : Scanning(w) \/ scan[w].left = {}
    /\ cleared \in [Keys -> Versions] /\ excused \in SUBSET Keys
    /\ missed \in BOOLEAN /\ faults \in 0..MaxFaults

Stale(k) == cache[k] \notin {flags, Empty}

\* The resets have been dealt with.
Settled == calls = {} /\ resets = {} /\ scan = [w \in Workers |-> Waiting]

\* An entry that will stay for a month is current, unless a boot stored what it had
\* fetched before the scan that should have removed it, an unlink was lost, or the
\* last change was not reported: pages, deaths in the middle of a scan, scans side
\* by side and resets that come twice leave nothing stale.
StaleFlagsAreExcused ==
    Settled => missed \/ \A k \in Keys : Stale(k) => k \in excused

\* Nobody has flags that Flagsmith has not had yet, or deals with a change before it
\* was made.
NothingIsAhead ==
    /\ \A k \in Keys : cache[k] = Empty \/ cache[k] <= flags
    /\ \A q \in Requests : request[q].step = "set" => request[q].got <= flags
    /\ \A w \in Workers : scan[w].reset <= flags

\* A change is reported once: what is still to be reported is neither waiting in the
\* subscription nor being dealt with.
ReportedOnce ==
    /\ calls \cap resets = {}
    /\ \A w \in Workers : scan[w].reset \notin calls

\* A key is scanned after the last change, or will be: some reset is waiting that no
\* worker dealing with it has gone past that key.
WillBeScanned(k) ==
    \/ cleared[k] = flags \/ missed \/ calls # {}
    \/ \E reset \in resets :
          \A w \in Workers : scan[w].reset = reset => k \in scan[w].left

\* An entry older than the last scan of its key is being unlinked, or excused.
IsUnlinked(k) ==
    (cache[k] # Empty /\ cache[k] < cleared[k])
        => k \in excused \/ \E w \in Workers : k \in scan[w].sent

FeaturesInvariant ==
    /\ TypeOK
    /\ NothingIsAhead
    /\ ReportedOnce
    /\ \A k \in Keys : WillBeScanned(k) /\ IsUnlinked(k)

\* A stale entry does not stay, with the same exceptions.
StaleFlagsGo ==
    \A k \in Keys : Stale(k) ~> ~Stale(k) \/ k \in excused \/ missed
=============================================================================
