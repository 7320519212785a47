--------------------------- MODULE UsageTelemetry ---------------------------
(***************************************************************************)
(* lib/usage-telemetry.js: the worker's usage reporter.                    *)
(*                                                                         *)
(* Events are buffered in memory (rows as they are, features merged into   *)
(* one bucket per key), the whole state is written to the session storage  *)
(* behind every change by one writer, and an alarm turns the buffer into a *)
(* batch with an identifier of its own, which is stored, posted, and       *)
(* posted again until the service acknowledges it.                         *)
(*                                                                         *)
(* Events are numbered in the order they are recorded, so the buffer is a  *)
(* set and its oldest member the smallest.  A feature bucket is the set of *)
(* the events its count adds up.                                           *)
(***************************************************************************)
EXTENDS Naturals, FiniteSets

CONSTANTS Keys,             \* feature keys (feature, source, transport, ok)
          Capacity,         \* CAPACITY: rows the buffer holds
          FeatureCapacity,  \* FEATURE_CAPACITY: buckets held
          MaxEvents, MaxBatches, MaxFaults  \* bounds of the model

ASSUME UsageAssumption ==
    /\ IsFiniteSet(Keys)
    /\ Capacity \in Nat \ {0} /\ FeatureCapacity \in Nat \ {0}
    /\ MaxEvents \in Nat /\ MaxBatches \in Nat /\ MaxFaults \in Nat

VARIABLES
    mem,        \* what stateSnapshot() takes: rows, buckets, dropped, pending
    hydrated,   \* the saved state has been read
    dirty, writing, outgoing,  \* the writer: again?, busy?, what it writes
    pc,         \* the flush under way
    reply,      \* the answer to its request
    disk,       \* chrome.storage.session
    sent,       \* requests on their way
    counted,    \* batches the service has booked
    reported,   \* the drops they add up to
    recorded, evictions, lastBatch,  \* events, drops and batches so far
    refused,    \* a storage write was refused
    faults

worker  == <<mem, hydrated, dirty, writing, outgoing, pc, reply>>
service == <<sent, counted, reported>>
history == <<recorded, evictions, lastBatch, refused>>
vars    == <<worker, disk, service, history, faults>>

NoBatch == [id |-> 0, events |-> {}, dropped |-> 0]

NoBuckets == [k \in Keys |-> {}]

Empty == [rows |-> {}, buckets |-> NoBuckets, dropped |-> 0, pending |-> NoBatch]

(* The events a state holds outside its pending batch.                     *)
Buffered(s) == s.rows \cup UNION {s.buckets[k] : k \in Keys}

Init ==
    /\ mem = Empty /\ disk = Empty /\ outgoing = Empty
    /\ hydrated = FALSE /\ dirty = FALSE /\ writing = FALSE
    /\ pc = "idle" /\ reply = "none"
    /\ sent = {} /\ counted = {} /\ reported = 0
    /\ recorded = 0 /\ evictions = 0 /\ lastBatch = 0
    /\ refused = FALSE /\ faults = 0

FaultLeft == faults < MaxFaults /\ faults' = faults + 1
-----------------------------------------------------------------------------
(* The buffer.                                                             *)

Newest(rows) == {e \in rows : Cardinality({f \in rows : f > e}) < Capacity}

Excess(rows) == Cardinality(rows \ Newest(rows))

Used(buckets) == {k \in Keys : buckets[k] # {}}

Oldest(buckets) ==
    CHOOSE k \in Used(buckets) : \A l \in Used(buckets) :
        \E e \in buckets[k] : \A f \in buckets[l] : e <= f

Full(buckets) == Cardinality(Used(buckets)) > FeatureCapacity

(* queuePersist(): one writer; a change made while it is busy is written   *)
(* when it is done.  Before the saved state was read nothing is written.   *)
QueuePersist ==
    IF hydrated' /\ ~writing
    THEN writing' = TRUE /\ outgoing' = mem' /\ dirty' = FALSE
    ELSE dirty' = TRUE /\ UNCHANGED <<writing, outgoing>>

RecordRow ==
    /\ recorded < MaxEvents
    /\ recorded' = recorded + 1
    /\ LET rows == mem.rows \cup {recorded + 1} IN
         /\ mem' = [mem EXCEPT !.rows = Newest(rows),
                               !.dropped = @ + Excess(rows)]
         /\ evictions' = evictions + Excess(rows)
    /\ hydrated' = hydrated
    /\ QueuePersist
    /\ UNCHANGED <<pc, reply, disk, service, lastBatch, refused, faults>>

RecordFeature(k) ==
    /\ recorded < MaxEvents
    /\ recorded' = recorded + 1
    /\ LET buckets == [mem.buckets EXCEPT ![k] = @ \cup {recorded + 1}] IN
         \/ /\ ~Full(buckets)
            /\ mem' = [mem EXCEPT !.buckets = buckets]
            /\ evictions' = evictions
         \/ /\ Full(buckets)
            /\ mem' = [mem EXCEPT
                         !.buckets = [buckets EXCEPT ![Oldest(buckets)] = {}],
                         !.dropped = @ + 1]
            /\ evictions' = evictions + 1
    /\ hydrated' = hydrated
    /\ QueuePersist
    /\ UNCHANGED <<pc, reply, disk, service, lastBatch, refused, faults>>

(* The writer's storageWrite() resolves, also when the write was refused.  *)
WriteEnds ==
    /\ writing
    /\ \/ disk' = outgoing /\ UNCHANGED <<refused, faults>>
       \/ disk' = disk /\ refused' = TRUE /\ FaultLeft
    /\ IF dirty THEN outgoing' = mem /\ dirty' = FALSE /\ writing' = TRUE
                ELSE outgoing' = Empty /\ writing' = FALSE /\ dirty' = FALSE
    /\ UNCHANGED <<mem, hydrated, pc, reply, service>>
    /\ UNCHANGED <<recorded, evictions, lastBatch>>
-----------------------------------------------------------------------------
(* Reading the saved state (the promise `ready`).                          *)

(* Saved and current buckets, merged one by one in their order.  When they *)
(* do not all fit, each key keeps everything, what came after its bucket   *)
(* was evicted, or nothing, and one eviction is counted per bucket lost.   *)
MergedBuckets(saved, now) ==
    LET all == [k \in Keys |-> saved[k] \cup now[k]]
        lost == (Cardinality(Used(saved)) + Cardinality(Used(now)))
    IN  IF ~Full(all) THEN {[buckets |-> all, evicted |-> 0]}
        ELSE {m \in [buckets : [Keys -> SUBSET UNION {all[k] : k \in Keys}],
                     evicted : 1..lost] :
                /\ \A k \in Keys : m.buckets[k] \in {{}, now[k], all[k]}
                /\ Cardinality(Used(m.buckets)) = FeatureCapacity
                /\ m.evicted + FeatureCapacity <= lost}

Restore(m) ==
    LET rows == disk.rows \cup mem.rows IN
      /\ mem' = [rows |-> Newest(rows), buckets |-> m.buckets,
                 dropped |-> mem.dropped + disk.dropped
                               + Excess(rows) + m.evicted,
                 pending |-> disk.pending]
      /\ evictions' = evictions + Excess(rows) + m.evicted

(* A state saved by another installation is not restored, only overwritten.*)
Hydrate ==
    /\ ~hydrated
    /\ hydrated' = TRUE
    /\ \/ /\ \E m \in MergedBuckets(disk.buckets, mem.buckets) : Restore(m)
          /\ faults' = faults
       \/ UNCHANGED <<mem, evictions>> /\ FaultLeft
    /\ QueuePersist
    /\ UNCHANGED <<pc, reply, disk, service, recorded, lastBatch, refused>>
-----------------------------------------------------------------------------
(* flush(): one at a time, started by the alarm or by flushSoon().         *)

FlushBegins ==
    /\ pc = "idle"
    /\ pc' = "waiting"
    /\ UNCHANGED <<mem, hydrated, dirty, writing, outgoing, reply>>
    /\ UNCHANGED <<disk, service, history, faults>>

Post ==
    /\ sent' = sent \cup {mem.pending}
    /\ pc' = "posting" /\ reply' = "none"
    /\ UNCHANGED <<mem, hydrated, dirty, writing, outgoing>>
    /\ UNCHANGED <<disk, counted, reported, history, faults>>

FlushBuildsKeepingDrops ==
    /\ pc = "waiting" /\ hydrated /\ ~writing
    /\ mem.pending = NoBatch
    /\ lastBatch < MaxBatches
    /\ lastBatch' = lastBatch + 1
    /\ mem' = [Empty EXCEPT !.dropped = mem.dropped, !.pending =
                 [id |-> lastBatch + 1, events |-> Buffered(mem),
                  dropped |-> mem.dropped]]
    /\ pc' = "storing"
    /\ hydrated' = hydrated
    /\ QueuePersist
    /\ UNCHANGED <<reply, disk, service, recorded, evictions, refused, faults>>

(* An empty buffer makes an empty batch.                                   *)
FlushBuilds ==
    /\ pc = "waiting" /\ hydrated /\ ~writing
    /\ mem.pending = NoBatch
    /\ lastBatch < MaxBatches
    /\ lastBatch' = lastBatch + 1
    /\ mem' = [Empty EXCEPT !.pending =
                 [id |-> lastBatch + 1, events |-> Buffered(mem),
                  dropped |-> mem.dropped]]
    /\ pc' = "storing"
    /\ hydrated' = hydrated
    /\ QueuePersist
    /\ UNCHANGED <<reply, disk, service, recorded, evictions, refused, faults>>

FlushReplaysMore ==
    /\ pc = "waiting" /\ hydrated /\ ~writing
    /\ mem.pending # NoBatch
    /\ mem' = [Empty EXCEPT !.pending =
                 [mem.pending EXCEPT !.events = @ \cup Buffered(mem)]]
    /\ pc' = "storing"
    /\ hydrated' = hydrated
    /\ QueuePersist
    /\ UNCHANGED <<reply, disk, service, history, faults>>

FlushReplays ==
    /\ pc = "waiting" /\ hydrated /\ ~writing
    /\ mem.pending # NoBatch
    /\ Post

FlushPostsUnstored == pc = "storing" /\ Post

FlushPosts ==
    /\ pc = "storing" /\ ~writing
    /\ Post

(* An acknowledgement that matches the batch clears it.                    *)
FlushSucceeds ==
    /\ pc = "posting" /\ reply = "ok"
    /\ mem' = [mem EXCEPT !.pending = NoBatch]
    /\ pc' = "settling" /\ reply' = "none"
    /\ hydrated' = hydrated
    /\ QueuePersist
    /\ UNCHANGED <<disk, service, history, faults>>

FlushFailsRequeues ==
    /\ pc = "posting"
    /\ \/ reply = "bad" /\ faults' = faults
       \/ FaultLeft
    /\ pc' = "idle" /\ reply' = "none"
    /\ mem' = [mem EXCEPT !.rows = @ \cup mem.pending.events,
                          !.pending = NoBatch]
    /\ hydrated' = hydrated
    /\ QueuePersist
    /\ UNCHANGED <<disk, service, history>>

FlushFailsStuck ==
    /\ pc = "posting"
    /\ \/ reply = "bad" /\ faults' = faults
       \/ FaultLeft
    /\ pc' = "failed" /\ reply' = "none"
    /\ UNCHANGED <<mem, hydrated, dirty, writing, outgoing>>
    /\ UNCHANGED <<disk, service, history>>

(* Anything else, or no answer in time, keeps it for the next alarm.       *)
FlushFails ==
    /\ pc = "posting"
    /\ \/ reply = "bad" /\ faults' = faults
       \/ FaultLeft
    /\ pc' = "idle" /\ reply' = "none"
    /\ UNCHANGED <<mem, hydrated, dirty, writing, outgoing>>
    /\ UNCHANGED <<disk, service, history>>

FlushEnds ==
    /\ pc = "settling" /\ ~writing
    /\ pc' = "idle"
    /\ UNCHANGED <<mem, hydrated, dirty, writing, outgoing, reply>>
    /\ UNCHANGED <<disk, service, history, faults>>
-----------------------------------------------------------------------------
(* The service, and what may happen to the worker.                         *)

Answer(b, r) ==
    reply' = IF pc = "posting" /\ mem.pending = b THEN r ELSE reply

Books(b) ==
    IF \E c \in counted : c.id = b.id THEN UNCHANGED <<counted, reported>>
    ELSE /\ counted' = counted \cup {b}
         /\ reported' = reported + b.dropped

(* The service books a batch once per identifier and acknowledges it.      *)
ServiceTakes(b) ==
    /\ b \in sent
    /\ sent' = sent \ {b}
    /\ Books(b)
    /\ Answer(b, "ok")
    /\ UNCHANGED <<mem, hydrated, dirty, writing, outgoing, pc>>
    /\ UNCHANGED <<disk, history, faults>>

(* The request is lost, refused or answered with something else.           *)
ServiceRefuses(b) ==
    /\ b \in sent
    /\ sent' = sent \ {b}
    /\ Answer(b, "bad")
    /\ FaultLeft
    /\ UNCHANGED <<mem, hydrated, dirty, writing, outgoing, pc>>
    /\ UNCHANGED <<disk, counted, reported, history>>

(* The worker is stopped, with or without the browser: a write under way   *)
(* may still land, requests may still arrive, and a new worker starts.     *)
Stop ==
    /\ FaultLeft
    /\ \/ disk' \in {disk, Empty}
       \/ writing /\ disk' = outgoing
    /\ mem' = Empty /\ outgoing' = Empty
    /\ hydrated' = FALSE /\ dirty' = FALSE /\ writing' = FALSE
    /\ pc' = "idle" /\ reply' = "none"
    /\ UNCHANGED <<service, history>>

Next ==
    \/ RecordRow \/ \E k \in Keys : RecordFeature(k)
    \/ WriteEnds \/ Hydrate
    \/ FlushBegins \/ FlushBuilds \/ FlushReplays \/ FlushPosts
    \/ FlushSucceeds \/ FlushFails \/ FlushEnds
    \/ \E b \in sent : ServiceTakes(b) \/ ServiceRefuses(b)
    \/ Stop

Spec == Init /\ [][Next]_vars

(* Promises settle, the alarm keeps ringing, and the service answers a     *)
(* request that is neither lost nor refused.                               *)
FairSpec ==
    /\ Spec
    /\ WF_vars(WriteEnds) /\ WF_vars(Hydrate)
    /\ WF_vars(FlushBegins) /\ WF_vars(FlushBuilds) /\ WF_vars(FlushReplays)
    /\ WF_vars(FlushPosts) /\ WF_vars(FlushSucceeds) /\ WF_vars(FlushEnds)
    /\ WF_vars(pc = "posting" /\ reply = "bad" /\ FlushFails)
    /\ WF_vars(\E b \in sent : ServiceTakes(b))
-----------------------------------------------------------------------------
(* Properties.                                                             *)

Events == 1..recorded

Batch == [id : 1..lastBatch, events : SUBSET Events, dropped : Nat]

State == [rows : SUBSET Events, buckets : [Keys -> SUBSET Events],
          dropped : Nat, pending : Batch \cup {NoBatch}]

(* Every variable keeps its type: nothing holds an event or a batch        *)
(* identifier that was not handed out.                                     *)
TypeOK ==
    /\ recorded \in Nat /\ evictions \in Nat /\ lastBatch \in Nat
    /\ mem \in State /\ disk \in State /\ outgoing \in State
    /\ hydrated \in BOOLEAN /\ dirty \in BOOLEAN /\ writing \in BOOLEAN
    /\ pc \in {"idle", "waiting", "storing", "posting", "settling"}
    /\ reply \in {"none", "ok", "bad"}
    /\ sent \subseteq Batch /\ counted \subseteq Batch
    /\ reported \in Nat /\ refused \in BOOLEAN /\ faults \in Nat

(* No event is counted twice, whenever the worker stops, a request or an   *)
(* answer is lost, or a batch is posted again, as long as the browser      *)
(* stores what it is given: the batch leaves the buffer in the same write  *)
(* that precedes its request (flush, lines 324-327).                       *)
CountedOnce ==
    ~refused => \A b, c \in counted : b # c => b.events \cap c.events = {}

Pendings == {mem.pending, disk.pending, outgoing.pending} \ {NoBatch}

(* An identifier stands for the same events wherever the batch is: a retry *)
(* that took newer events along would have them ignored by the service.    *)
BatchIdNamesItsEvents ==
    \A b, c \in counted \cup sent \cup Pendings : b.id = c.id => b = c

(* The drops reported, about to be reported and still counted never exceed *)
(* the evictions that happened.                                            *)
DropsNotInvented ==
    ~refused =>
      reported + mem.dropped
        + (IF mem.pending \in counted THEN 0 ELSE mem.pending.dropped)
        <= evictions

(* The reporter implements the ledger.                                     *)
Ledger == INSTANCE UsageLedger WITH
    recorded <- recorded, excused <- refused,
    reports <- {[id |-> b.id, events |-> b.events] : b \in counted}

ImplementsLedger == Ledger!Spec

InBatch(e, batches) == \E b \in batches : e \in b.events

(* The event is nowhere any more: evicted, or lost with the worker.        *)
Gone(e) ==
    /\ \A s \in {mem, disk, outgoing} : e \notin Buffered(s)
    /\ ~InBatch(e, sent \cup Pendings)

(* Every event is counted in the end unless it is evicted, lost with the   *)
(* worker or left over when the model has no batch identifier left.        *)
EveryEventCounted ==
    \A e \in 1..MaxEvents :
      e \in Buffered(mem) ~>
        \/ InBatch(e, counted)
        \/ Gone(e)
        \/ lastBatch = MaxBatches /\ ~InBatch(e, sent \cup Pendings)
=============================================================================
