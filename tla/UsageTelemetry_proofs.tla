------------------------ MODULE UsageTelemetry_proofs ------------------------
(***************************************************************************)
(* Theorems about UsageTelemetry, for every capacity, every set of feature *)
(* keys and every number of events, batches and faults.                    *)
(*                                                                         *)
(* That no event is counted twice rests on the writer: once the saved      *)
(* state was read, an idle writer means that the storage holds what the    *)
(* memory holds (InStep).  So when a request is sent, no state a later     *)
(* worker could read has the events of the batch in its buffer (Separate). *)
(* That no drop is invented is a sum over the batches not yet booked, for  *)
(* which DropInv states the partial sums.                                  *)
(***************************************************************************)
EXTENDS UsageTelemetry, FiniteSetTheorems, TLAPS

Phases ==
    /\ ~writing => outgoing = Empty
    /\ ~hydrated => /\ ~writing
                    /\ mem.pending = NoBatch
                    /\ pc \in {"idle", "waiting"}
    /\ pc \in {"storing", "posting"} => mem.pending # NoBatch

Snapshots == {mem, disk, outgoing}

AllBatches == counted \cup sent \cup Pendings

InStep ==
    hydrated => /\ writing \/ disk = mem
                /\ writing /\ ~dirty => outgoing = mem

(* What a worker recorded before it read the saved state is new.           *)
Fresh == ~hydrated => Buffered(mem) \cap disk.pending.events = {}

Separate ==
    \A s \in Snapshots :
      /\ Buffered(s) \cap s.pending.events = {}
      /\ \A b \in counted \cup sent : Buffered(s) \cap b.events = {}

Disjoint ==
    \A b, c \in AllBatches : b.id # c.id => b.events \cap c.events = {}

StoreInv == ~refused => InStep /\ Fresh /\ Separate /\ Disjoint

IdInv == TypeOK /\ Phases /\ BatchIdNamesItsEvents

IInv == IdInv /\ StoreInv
-----------------------------------------------------------------------------
USE DEF worker, service, history

LEMMA NewestSubset == ASSUME NEW S PROVE Newest(S) \subseteq S
BY DEF Newest

LEMMA ExcessType ==
    ASSUME NEW n \in Nat, NEW S \in SUBSET (1..n) PROVE Excess(S) \in Nat
<1>1. IsFiniteSet(1..n)
  BY FS_Interval
<1>2. S \ Newest(S) \subseteq 1..n
  OBVIOUS
<1>3. IsFiniteSet(S \ Newest(S))
  BY <1>1, <1>2, FS_Subset
<1> QED
  BY <1>3, FS_CardinalityType DEF Excess

(* More events and more batches only widen the types.                      *)
LEMMA TypesGrow ==
    ASSUME TypeOK, recorded' \in Nat, lastBatch' \in Nat,
           recorded <= recorded', lastBatch <= lastBatch'
    PROVE  /\ Events \subseteq Events' /\ Batch \subseteq Batch'
           /\ State \subseteq State'
<1>1. Events \subseteq Events' /\ 1..lastBatch \subseteq 1..lastBatch'
  BY DEF TypeOK, Events
<1>2. Batch \subseteq Batch'
  BY <1>1 DEF Batch
<1> QED
  BY <1>1, <1>2 DEF State

LEMMA EmptyType == Empty \in State
BY DEF Empty, State, NoBuckets

LEMMA BufferedType == ASSUME NEW s \in State PROVE Buffered(s) \subseteq Events
BY DEF Buffered, State

LEMMA MergedType ==
    ASSUME NEW n \in Nat,
           NEW a \in [Keys -> SUBSET (1..n)], NEW b \in [Keys -> SUBSET (1..n)],
           NEW m \in MergedBuckets(a, b)
    PROVE  /\ m.buckets \in [Keys -> SUBSET (1..n)] /\ m.evicted \in Nat
           /\ \A k \in Keys : m.buckets[k] \subseteq a[k] \cup b[k]
<1> DEFINE all == [k \in Keys |-> a[k] \cup b[k]]
           lost == Cardinality(Used(a)) + Cardinality(Used(b))
<1>1. Cardinality(Used(a)) \in Nat /\ Cardinality(Used(b)) \in Nat
  <2>1. Used(a) \subseteq Keys /\ Used(b) \subseteq Keys
    BY DEF Used
  <2> QED
    BY <2>1, UsageAssumption, FS_Subset, FS_CardinalityType
<1>2. lost \in Nat
  BY <1>1
<1>3. CASE ~Full(all)
  BY <1>3 DEF MergedBuckets
<1>4. CASE Full(all)
  <2>1. /\ m.buckets \in [Keys -> SUBSET UNION {all[k] : k \in Keys}]
        /\ m.evicted \in 1..lost
        /\ \A k \in Keys : m.buckets[k] \in {{}, b[k], all[k]}
    BY <1>4 DEF MergedBuckets
  <2>2. \A k \in Keys : m.buckets[k] \subseteq a[k] \cup b[k]
    BY <2>1
  <2>3. m.evicted \in Nat
    BY <2>1, <1>2
  <2> QED
    BY <2>1, <2>2, <2>3
<1> QED
  BY <1>3, <1>4
-----------------------------------------------------------------------------
(* The type of the writer's variables follows from the type of the memory. *)
LEMMA PersistType ==
    ASSUME TypeOK, QueuePersist, mem' \in State', State \subseteq State'
    PROVE  /\ writing' \in BOOLEAN /\ dirty' \in BOOLEAN
           /\ outgoing' \in State'
<1>1. CASE hydrated' /\ ~writing
  BY <1>1 DEF QueuePersist
<1>2. CASE ~(hydrated' /\ ~writing)
  BY <1>2 DEF QueuePersist, TypeOK
<1> QED
  BY <1>1, <1>2

LEMMA StateParts ==
    ASSUME NEW s \in State
    PROVE  /\ s.rows \in SUBSET Events
           /\ s.buckets \in [Keys -> SUBSET Events]
           /\ s.dropped \in Nat
           /\ s.pending \in Batch \cup {NoBatch}
BY DEF State

LEMMA FaultType == ASSUME faults \in Nat, FaultLeft PROVE faults' \in Nat
BY DEF FaultLeft

LEMMA TypeInit == Init => TypeOK
<1> SUFFICES ASSUME Init PROVE TypeOK
  OBVIOUS
<1>1. mem \in State /\ disk \in State /\ outgoing \in State
  BY EmptyType DEF Init
<1>2. sent \subseteq Batch /\ counted \subseteq Batch
  BY DEF Init
<1> QED
  BY <1>1, <1>2 DEF Init, TypeOK

LEMMA TypeRecordRow == ASSUME TypeOK, RecordRow PROVE TypeOK'
<1> USE DEF RecordRow
<1> DEFINE rows == mem.rows \cup {recorded + 1}
<1>1. recorded' \in Nat /\ lastBatch' = lastBatch
  BY DEF TypeOK
<1>2. State \subseteq State' /\ Batch \subseteq Batch'
  BY <1>1, TypesGrow DEF TypeOK
<1>3. rows \in SUBSET (1..recorded')
  BY DEF TypeOK, State, Events
<1>4. Excess(rows) \in Nat /\ Newest(rows) \subseteq 1..recorded'
  BY <1>1, <1>3, ExcessType, NewestSubset
<1>5. mem \in State'
  BY <1>2 DEF TypeOK
<1>6. mem' = [rows |-> Newest(rows), buckets |-> mem.buckets,
              dropped |-> mem.dropped + Excess(rows), pending |-> mem.pending]
  BY DEF TypeOK, State
<1>7. mem' \in State'
  <2>1. /\ mem.buckets \in [Keys -> SUBSET (1..recorded')]
        /\ mem.dropped + Excess(rows) \in Nat
        /\ mem.pending \in Batch' \cup {NoBatch}
    BY <1>4, <1>5 DEF State, Events
  <2> HIDE DEF RecordRow, rows
  <2> QED
    BY <1>4, <1>6, <2>1 DEF State, Events
<1>8. evictions' \in Nat
  BY <1>4 DEF TypeOK
<1> QED
  BY <1>1, <1>2, <1>7, <1>8, PersistType DEF TypeOK

LEMMA TypeRecordFeature ==
    ASSUME TypeOK, NEW k \in Keys, RecordFeature(k) PROVE TypeOK'
<1> DEFINE buckets == [mem.buckets EXCEPT ![k] = @ \cup {recorded + 1}]
           kept == [buckets EXCEPT ![Oldest(buckets)] = {}]
<1>1. recorded' = recorded + 1 /\ recorded' \in Nat /\ lastBatch' = lastBatch
  BY DEF RecordFeature, TypeOK
<1>2. State \subseteq State' /\ Batch \subseteq Batch'
  BY <1>1, TypesGrow DEF TypeOK
<1>3. /\ buckets \in [Keys -> SUBSET (1..recorded')]
      /\ kept \in [Keys -> SUBSET (1..recorded')]
  <2>1. mem.buckets \in [Keys -> SUBSET (1..recorded)] /\ recorded \in Nat
    BY StateParts DEF TypeOK, Events
  <2>2. buckets \in [Keys -> SUBSET (1..recorded')]
    BY <1>1, <2>1
  <2>3. \A o : [buckets EXCEPT ![o] = {}] \in [Keys -> SUBSET (1..recorded')]
    <3> HIDE DEF buckets
    <3> QED
      BY <2>2
  <2> QED
    BY <2>2, <2>3
<1>4. mem \in State' /\ mem.dropped \in Nat /\ evictions \in Nat
  BY <1>2 DEF TypeOK, State
<1>5. /\ evictions' \in {evictions, evictions + 1}
      /\ mem' \in {[mem EXCEPT !.buckets = buckets],
                   [mem EXCEPT !.buckets = kept, !.dropped = @ + 1]}
  BY DEF RecordFeature
<1>6. mem' \in State'
  <2> HIDE DEF buckets, kept
  <2>1. CASE mem' = [mem EXCEPT !.buckets = buckets]
    BY <1>3, <1>4, <2>1 DEF State, Events
  <2>2. CASE mem' = [mem EXCEPT !.buckets = kept, !.dropped = @ + 1]
    <3>1. mem.dropped + 1 \in Nat
      BY <1>4
    <3> QED
      BY <1>3, <1>4, <2>2, <3>1 DEF State, Events
  <2> QED
    BY <1>5, <2>1, <2>2
<1> QED
  BY <1>1, <1>2, <1>4, <1>5, <1>6, PersistType DEF TypeOK, RecordFeature

LEMMA TypeHydrate == ASSUME TypeOK, Hydrate PROVE TypeOK'
<1>1. UNCHANGED <<recorded, lastBatch>> /\ hydrated' = TRUE /\ QueuePersist
  BY DEF Hydrate
<1>2. State \subseteq State' /\ Batch \subseteq Batch'
  BY <1>1, TypesGrow DEF TypeOK
<1>3. mem' \in State /\ evictions' \in Nat /\ faults' \in Nat
  <2>1. CASE UNCHANGED <<mem, evictions>> /\ FaultLeft
    BY <2>1 DEF TypeOK, FaultLeft
  <2>2. ASSUME NEW m \in MergedBuckets(disk.buckets, mem.buckets), Restore(m),
               faults' = faults
        PROVE  mem' \in State /\ evictions' \in Nat /\ faults' \in Nat
    <3> DEFINE rows == disk.rows \cup mem.rows
    <3>1. /\ recorded \in Nat /\ rows \in SUBSET (1..recorded)
          /\ disk.buckets \in [Keys -> SUBSET (1..recorded)]
          /\ mem.buckets \in [Keys -> SUBSET (1..recorded)]
          /\ mem.dropped \in Nat /\ disk.dropped \in Nat
          /\ disk.pending \in Batch \cup {NoBatch}
      BY DEF TypeOK, State, Events
    <3>2. m.buckets \in [Keys -> SUBSET (1..recorded)] /\ m.evicted \in Nat
      BY <3>1, MergedType
    <3>3. Excess(rows) \in Nat /\ Newest(rows) \subseteq 1..recorded
      BY <3>1, ExcessType, NewestSubset
    <3>4. mem' = [rows |-> Newest(rows), buckets |-> m.buckets,
                  dropped |-> mem.dropped + disk.dropped
                                + Excess(rows) + m.evicted,
                  pending |-> disk.pending]
      BY <2>2 DEF Restore
    <3>5. mem' \in State
      <4> HIDE DEF rows
      <4> QED
        BY <3>1, <3>2, <3>3, <3>4 DEF State, Events
    <3>6. evictions' = evictions + Excess(rows) + m.evicted
      BY <2>2 DEF Restore
    <3> QED
      BY <2>2, <3>2, <3>3, <3>5, <3>6 DEF TypeOK
  <2> QED
    BY <2>1, <2>2 DEF Hydrate
<1> QED
  BY <1>1, <1>2, <1>3, PersistType DEF Hydrate, TypeOK

LEMMA TypeFlushBuilds == ASSUME TypeOK, FlushBuilds PROVE TypeOK'
<1> DEFINE batch == [id |-> lastBatch + 1, events |-> Buffered(mem),
                     dropped |-> mem.dropped]
<1>1. recorded' = recorded /\ lastBatch' = lastBatch + 1 /\ lastBatch' \in Nat
  BY DEF FlushBuilds, TypeOK
<1>2. State \subseteq State' /\ Batch \subseteq Batch' /\ Events' = Events
  BY <1>1, TypesGrow DEF TypeOK, Events
<1>3. batch \in Batch'
  BY <1>1, <1>2, BufferedType DEF TypeOK, State, Batch
<1>4. mem' = [Empty EXCEPT !.pending = batch]
  BY DEF FlushBuilds
<1>5. mem' \in State'
  <2> HIDE DEF batch
  <2> QED
    BY <1>2, <1>3, <1>4, EmptyType DEF State
<1> QED
  BY <1>1, <1>2, <1>5, PersistType DEF FlushBuilds, TypeOK

LEMMA TypeFlushSucceeds == ASSUME TypeOK, FlushSucceeds PROVE TypeOK'
<1>1. UNCHANGED <<recorded, lastBatch>>
  BY DEF FlushSucceeds
<1>2. State' = State /\ Batch' = Batch
  BY <1>1 DEF State, Batch, Events
<1>3. mem' \in State
  BY DEF FlushSucceeds, TypeOK, State
<1> QED
  BY <1>1, <1>2, <1>3, PersistType DEF FlushSucceeds, TypeOK

LEMMA TypePost ==
    ASSUME TypeOK, mem.pending # NoBatch, Post PROVE TypeOK'
<1>1. State' = State /\ Batch' = Batch
  BY DEF Post, State, Batch, Events
<1>2. mem.pending \in Batch
  BY DEF TypeOK, State
<1> QED
  BY <1>1, <1>2 DEF Post, TypeOK

(* The steps that change neither the memory nor the counters.              *)
LEMMA TypeWriteEnds == ASSUME TypeOK, WriteEnds PROVE TypeOK'
<1>1. State' = State /\ Batch' = Batch
  BY DEF WriteEnds, State, Batch, Events
<1>2. disk' \in State /\ refused' \in BOOLEAN /\ faults' \in Nat
  BY FaultType DEF WriteEnds, TypeOK
<1>3. outgoing' \in State /\ writing' \in BOOLEAN /\ dirty' \in BOOLEAN
  BY EmptyType DEF WriteEnds, TypeOK
<1> QED
  BY <1>1, <1>2, <1>3 DEF WriteEnds, TypeOK

LEMMA TypeService ==
    ASSUME TypeOK, NEW b \in sent, ServiceTakes(b) \/ ServiceRefuses(b)
    PROVE  TypeOK'
<1>1. State' = State /\ Batch' = Batch
  BY DEF ServiceTakes, ServiceRefuses, State, Batch, Events
<1>2. b \in Batch /\ b.dropped \in Nat
  BY DEF TypeOK, Batch
<1>3. reply' \in {"none", "ok", "bad"}
  BY DEF ServiceTakes, ServiceRefuses, Answer, TypeOK
<1>4. counted' \subseteq Batch /\ reported' \in Nat /\ sent' \subseteq Batch
  BY <1>2 DEF ServiceTakes, ServiceRefuses, Books, TypeOK
<1>5. faults' \in Nat
  BY DEF ServiceTakes, ServiceRefuses, FaultLeft, TypeOK
<1> QED
  BY <1>1, <1>3, <1>4, <1>5 DEF ServiceTakes, ServiceRefuses, TypeOK

LEMMA TypeStop == ASSUME TypeOK, Stop PROVE TypeOK'
<1>1. State' = State /\ Batch' = Batch
  BY DEF Stop, State, Batch, Events
<1>2. mem' \in State /\ disk' \in State /\ outgoing' \in State
  BY EmptyType DEF Stop, TypeOK
<1>3. faults' \in Nat
  BY FaultType DEF Stop, TypeOK
<1> QED
  BY <1>1, <1>2, <1>3 DEF Stop, TypeOK

LEMMA TypeStutter == ASSUME TypeOK, UNCHANGED vars PROVE TypeOK'
<1>1. State' = State /\ Batch' = Batch
  BY DEF vars, State, Batch, Events
<1> QED
  BY <1>1 DEF vars, TypeOK

LEMMA TypeStep == TypeOK /\ Phases /\ [Next]_vars => TypeOK'
<1> SUFFICES ASSUME TypeOK, Phases, [Next]_vars PROVE TypeOK'
  OBVIOUS
<1>1. CASE RecordRow
  BY <1>1, TypeRecordRow
<1>2. CASE \E k \in Keys : RecordFeature(k)
  BY <1>2, TypeRecordFeature
<1>3. CASE WriteEnds
  BY <1>3, TypeWriteEnds
<1>4. CASE Hydrate
  BY <1>4, TypeHydrate
<1>5. CASE FlushBegins \/ FlushFails \/ FlushEnds
  <2>1. State' = State /\ Batch' = Batch
    BY <1>5 DEF FlushBegins, FlushFails, FlushEnds, State, Batch, Events
  <2>2. faults' \in Nat
    BY <1>5, FaultType DEF FlushBegins, FlushFails, FlushEnds, TypeOK
  <2> QED
    BY <1>5, <2>1, <2>2 DEF FlushBegins, FlushFails, FlushEnds, TypeOK
<1>6. CASE FlushBuilds
  BY <1>6, TypeFlushBuilds
<1>7. CASE FlushReplays \/ FlushPosts
  <2>1. mem.pending # NoBatch /\ Post
    BY <1>7 DEF FlushReplays, FlushPosts, Phases
  <2> QED
    BY <2>1, TypePost
<1>8. CASE FlushSucceeds
  BY <1>8, TypeFlushSucceeds
<1>9. CASE \E b \in sent : ServiceTakes(b) \/ ServiceRefuses(b)
  BY <1>9, TypeService
<1>10. CASE Stop
  BY <1>10, TypeStop
<1>11. CASE UNCHANGED vars
  BY <1>11, TypeStutter
<1> QED
  BY <1>1, <1>2, <1>3, <1>4, <1>5, <1>6, <1>7, <1>8, <1>9, <1>10, <1>11
     DEF Next
-----------------------------------------------------------------------------
(* The writer and the flush keep step.                                     *)

LEMMA EmptyFacts == Empty.pending = NoBatch /\ Buffered(Empty) = {}
BY DEF Empty, Buffered, NoBuckets

LEMMA PhasesInit == Init => Phases
BY EmptyFacts DEF Init, Phases

LEMMA PhasesStep == TypeOK /\ TypeOK' /\ Phases /\ [Next]_vars => Phases'
<1> SUFFICES ASSUME TypeOK, TypeOK', Phases, [Next]_vars PROVE Phases'
  OBVIOUS
<1> USE DEF Phases
<1>1. CASE RecordRow
  <2>1. mem'.pending = mem.pending
    BY <1>1 DEF RecordRow, TypeOK, State
  <2> QED
    BY <1>1, <2>1 DEF RecordRow, QueuePersist
<1>2. ASSUME NEW k \in Keys, RecordFeature(k) PROVE Phases'
  <2>1. mem'.pending = mem.pending
    BY <1>2 DEF RecordFeature, TypeOK, State
  <2> QED
    BY <1>2, <2>1 DEF RecordFeature, QueuePersist
<1>3. CASE WriteEnds
  BY <1>3 DEF WriteEnds
<1>4. CASE Hydrate
  BY <1>4 DEF Hydrate, QueuePersist
<1>5. CASE FlushBegins \/ FlushFails \/ FlushEnds
  BY <1>5 DEF FlushBegins, FlushFails, FlushEnds
<1>6. CASE FlushBuilds
  <2>1. mem'.pending.id = lastBatch + 1 /\ lastBatch + 1 # 0
    BY <1>6 DEF FlushBuilds, TypeOK, Empty
  <2>2. mem'.pending # NoBatch
    BY <2>1 DEF NoBatch
  <2> QED
    BY <1>6, <2>2 DEF FlushBuilds, QueuePersist
<1>7. CASE FlushReplays \/ FlushPosts
  BY <1>7 DEF FlushReplays, FlushPosts, Post
<1>8. CASE FlushSucceeds
  BY <1>8 DEF FlushSucceeds, QueuePersist
<1>9. CASE \E b \in sent : ServiceTakes(b) \/ ServiceRefuses(b)
  BY <1>9 DEF ServiceTakes, ServiceRefuses
<1>10. CASE Stop
  BY <1>10, EmptyFacts DEF Stop
<1>11. CASE UNCHANGED vars
  BY <1>11 DEF vars
<1> QED
  BY <1>1, <1>2, <1>3, <1>4, <1>5, <1>6, <1>7, <1>8, <1>9, <1>10, <1>11
     DEF Next

(* Every variable keeps its type: no batch and no buffer, in memory, in    *)
(* the storage or on its way, names an event that was not recorded.        *)
THEOREM TypeCorrect == Spec => []TypeOK
<1>1. Init => TypeOK /\ Phases
  BY TypeInit, PhasesInit
<1>2. TypeOK /\ Phases /\ [Next]_vars => (TypeOK /\ Phases)'
  BY TypeStep, PhasesStep
<1> QED
  BY <1>1, <1>2, PTL DEF Spec
-----------------------------------------------------------------------------
(* One identifier, one batch.                                              *)

LEMMA BatchesType == TypeOK => AllBatches \subseteq Batch
BY DEF TypeOK, State, AllBatches, Pendings

(* Only FlushBuilds makes a batch; every other step moves batches about.   *)
LEMMA RecordKeepsPending ==
    ASSUME TypeOK, RecordRow \/ \E k \in Keys : RecordFeature(k)
    PROVE  /\ mem'.pending = mem.pending
           /\ outgoing' \in {outgoing, mem'}
           /\ UNCHANGED <<disk, sent, counted, refused, hydrated, lastBatch>>
<1>1. CASE RecordRow
  BY <1>1 DEF RecordRow, QueuePersist, TypeOK, State
<1>2. ASSUME NEW k \in Keys, RecordFeature(k)
      PROVE  /\ mem'.pending = mem.pending
             /\ outgoing' \in {outgoing, mem'}
             /\ UNCHANGED <<disk, sent, counted, refused, hydrated, lastBatch>>
  BY <1>2 DEF RecordFeature, QueuePersist, TypeOK, State
<1> QED
  BY <1>1, <1>2

LEMMA BatchesMove ==
    ASSUME TypeOK, Phases, Next, ~FlushBuilds
    PROVE  AllBatches' \subseteq AllBatches /\ counted \subseteq counted'
<1> USE DEF AllBatches, Pendings
<1>1. CASE RecordRow \/ \E k \in Keys : RecordFeature(k)
  BY <1>1, RecordKeepsPending
<1>3. CASE WriteEnds
  BY <1>3, EmptyFacts DEF WriteEnds
<1>4. CASE Hydrate
  <2>1. mem'.pending \in {mem.pending, disk.pending}
    BY <1>4 DEF Hydrate, Restore
  <2> QED
    BY <1>4, <2>1 DEF Hydrate, QueuePersist
<1>5. CASE FlushBegins \/ FlushFails \/ FlushEnds
  BY <1>5 DEF FlushBegins, FlushFails, FlushEnds
<1>7. CASE FlushReplays \/ FlushPosts
  BY <1>7 DEF FlushReplays, FlushPosts, Post, Phases
<1>8. CASE FlushSucceeds
  <2>1. mem'.pending = NoBatch
    BY <1>8 DEF FlushSucceeds, TypeOK, State
  <2> QED
    BY <1>8, <2>1 DEF FlushSucceeds, QueuePersist
<1>9. ASSUME NEW b \in sent, ServiceTakes(b) \/ ServiceRefuses(b)
      PROVE  AllBatches' \subseteq AllBatches /\ counted \subseteq counted'
  BY <1>9 DEF ServiceTakes, ServiceRefuses, Books
<1>10. CASE Stop
  <2>1. /\ mem'.pending = NoBatch /\ outgoing'.pending = NoBatch
        /\ disk' \in {disk, Empty, outgoing}
        /\ UNCHANGED <<sent, counted>>
    BY <1>10, EmptyFacts DEF Stop
  <2> QED
    BY <2>1, EmptyFacts
<1> QED
  BY <1>1, <1>3, <1>4, <1>5, <1>7, <1>8, <1>9, <1>10 DEF Next

LEMMA NewBatch ==
    ASSUME TypeOK, Phases, FlushBuilds
    PROVE  /\ mem'.pending = [id |-> lastBatch + 1, events |-> Buffered(mem),
                              dropped |-> mem.dropped]
           /\ mem'.rows = {} /\ mem'.buckets = NoBuckets
           /\ outgoing' = mem' /\ writing' = TRUE /\ dirty' = FALSE
           /\ UNCHANGED <<disk, sent, counted, refused, hydrated>>
           /\ \A b \in AllBatches : b.id # mem'.pending.id
<1>1. mem' = [rows |-> {}, buckets |-> NoBuckets, dropped |-> 0,
              pending |-> [id |-> lastBatch + 1, events |-> Buffered(mem),
                           dropped |-> mem.dropped]]
  BY DEF FlushBuilds, Empty
<1>2. \A b \in AllBatches : b.id \in 1..lastBatch
  BY BatchesType DEF Batch
<1>3. lastBatch \in Nat
  BY DEF TypeOK
<1>4. /\ outgoing' = mem' /\ writing' = TRUE /\ dirty' = FALSE
      /\ UNCHANGED <<disk, sent, counted, refused, hydrated>>
  BY DEF FlushBuilds, QueuePersist
<1>5. \A b \in AllBatches : b.id # lastBatch + 1
  BY <1>2, <1>3
<1> QED
  BY <1>1, <1>4, <1>5

LEMMA IdsInit == Init => BatchIdNamesItsEvents
BY EmptyFacts DEF Init, BatchIdNamesItsEvents, Pendings

LEMMA IdsStep == IdInv /\ [Next]_vars => BatchIdNamesItsEvents'
<1> SUFFICES ASSUME IdInv, [Next]_vars PROVE BatchIdNamesItsEvents'
  OBVIOUS
<1> USE DEF IdInv
<1>1. \A b, c \in AllBatches : b.id = c.id => b = c
  BY DEF BatchIdNamesItsEvents, AllBatches
<1>2. \A b, c \in AllBatches' : b.id = c.id => b = c
  <2>1. CASE FlushBuilds
    <3>1. AllBatches' \subseteq AllBatches \cup {mem'.pending}
      BY <2>1, NewBatch DEF AllBatches, Pendings
    <3> QED
      BY <1>1, <2>1, <3>1, NewBatch
  <2>2. CASE Next /\ ~FlushBuilds
    BY <1>1, <2>2, BatchesMove
  <2>3. CASE UNCHANGED vars
    BY <1>1, <2>3 DEF vars, AllBatches, Pendings
  <2> QED
    BY <2>1, <2>2, <2>3
<1> QED
  BY <1>2 DEF BatchIdNamesItsEvents, AllBatches

LEMMA IdInvHolds == Spec => []IdInv
<1>1. Init => IdInv
  BY TypeInit, PhasesInit, IdsInit DEF IdInv
<1>2. IdInv /\ [Next]_vars => IdInv'
  BY TypeStep, PhasesStep, IdsStep DEF IdInv
<1> QED
  BY <1>1, <1>2, PTL DEF Spec

(* A batch identifier names the same events in the memory, the storage,    *)
(* the requests and the books of the service: a retry never adds events.   *)
THEOREM OneIdOneBatch == Spec => []BatchIdNamesItsEvents
<1>1. IdInv => BatchIdNamesItsEvents
  BY DEF IdInv
<1> QED
  BY <1>1, IdInvHolds, PTL
-----------------------------------------------------------------------------
(* No event is counted twice.                                              *)

LEMMA StoreInit == Init => StoreInv
<1> SUFFICES ASSUME Init PROVE StoreInv
  OBVIOUS
<1>1. AllBatches = {} /\ Snapshots = {Empty} /\ counted \cup sent = {}
  BY EmptyFacts DEF Init, AllBatches, Pendings, Snapshots
<1>2. Separate
  BY <1>1, EmptyFacts DEF Separate
<1>3. Fresh /\ InStep /\ Disjoint
  BY <1>1, EmptyFacts DEF Init, Fresh, InStep, Disjoint
<1> QED
  BY <1>2, <1>3 DEF StoreInv

LEMMA RefusedStays == Next /\ ~refused' => ~refused
<1> SUFFICES ASSUME Next, ~refused' PROVE ~refused
  OBVIOUS
<1>1. CASE WriteEnds
  BY <1>1 DEF WriteEnds
<1>2. CASE ~WriteEnds
  BY <1>2 DEF Next, RecordRow, RecordFeature, Hydrate, FlushBegins,
     FlushBuilds, FlushReplays, FlushPosts, Post, FlushSucceeds, FlushFails,
     FlushEnds, ServiceTakes, ServiceRefuses, Stop
<1> QED
  BY <1>1, <1>2

(* A recorded event is new: no batch and no other snapshot has it.         *)
LEMMA RecordAddsOne ==
    ASSUME TypeOK, RecordRow \/ \E k \in Keys : RecordFeature(k)
    PROVE  Buffered(mem') \subseteq Buffered(mem) \cup {recorded + 1}
<1>1. CASE RecordRow
  <2>1. /\ mem'.rows \subseteq mem.rows \cup {recorded + 1}
        /\ mem'.buckets = mem.buckets
    BY <1>1, NewestSubset DEF RecordRow, TypeOK, State
  <2> QED
    BY <2>1 DEF Buffered
<1>2. ASSUME NEW k \in Keys, RecordFeature(k)
      PROVE  Buffered(mem') \subseteq Buffered(mem) \cup {recorded + 1}
  <2> DEFINE buckets == [mem.buckets EXCEPT ![k] = @ \cup {recorded + 1}]
             kept == [buckets EXCEPT ![Oldest(buckets)] = {}]
  <2>1. mem'.rows = mem.rows /\ mem'.buckets \in {buckets, kept}
    BY <1>2 DEF RecordFeature, TypeOK, State
  <2>2. \A l \in Keys : buckets[l] \subseteq mem.buckets[l] \cup {recorded + 1}
    BY DEF TypeOK, State
  <2>3. \A o : \A l \in Keys : [buckets EXCEPT ![o] = {}][l] \subseteq buckets[l]
    <3>1. DOMAIN buckets = Keys
      BY DEF TypeOK, State
    <3> HIDE DEF buckets
    <3> QED
      BY <3>1
  <2>4. \A l \in Keys :
          mem'.buckets[l] \subseteq mem.buckets[l] \cup {recorded + 1}
    <3> HIDE DEF buckets
    <3> QED
      BY <2>1, <2>2, <2>3
  <2> QED
    BY <2>1, <2>4 DEF Buffered
<1> QED
  BY <1>1, <1>2

LEMMA RecordedIsNew ==
    ASSUME TypeOK
    PROVE  /\ \A b \in AllBatches : recorded + 1 \notin b.events
           /\ \A s \in Snapshots : recorded + 1 \notin s.pending.events
           /\ \A s \in Snapshots : recorded + 1 \notin Buffered(s)
<1>1. recorded + 1 \notin Events
  BY DEF TypeOK, Events
<1>2. \A b \in AllBatches : b.events \subseteq Events
  BY BatchesType DEF Batch
<1>3. \A s \in Snapshots : s.pending.events \subseteq Events
  BY DEF Snapshots, TypeOK, State, Batch, NoBatch
<1>4. \A s \in Snapshots : Buffered(s) \subseteq Events
  BY BufferedType DEF Snapshots, TypeOK
<1> QED
  BY <1>1, <1>2, <1>3, <1>4

LEMMA InStepStep ==
    ASSUME IdInv, InStep, Next, ~refused' PROVE InStep'
<1> USE DEF InStep
<1>1. CASE RecordRow
  BY <1>1 DEF RecordRow, QueuePersist
<1>2. CASE \E k \in Keys : RecordFeature(k)
  BY <1>2 DEF RecordFeature, QueuePersist
<1>3. CASE WriteEnds
  BY <1>3 DEF WriteEnds
<1>4. CASE Hydrate
  BY <1>4 DEF Hydrate, QueuePersist, IdInv, Phases
<1>5. CASE FlushBegins \/ FlushFails \/ FlushEnds
  BY <1>5 DEF FlushBegins, FlushFails, FlushEnds
<1>6. CASE FlushBuilds
  BY <1>6, NewBatch DEF IdInv
<1>7. CASE FlushReplays \/ FlushPosts
  BY <1>7 DEF FlushReplays, FlushPosts, Post
<1>8. CASE FlushSucceeds
  BY <1>8 DEF FlushSucceeds, QueuePersist
<1>9. ASSUME NEW b \in sent, ServiceTakes(b) \/ ServiceRefuses(b)
      PROVE  InStep'
  <2>1. UNCHANGED <<mem, hydrated, dirty, writing, outgoing, disk>>
    BY <1>9 DEF ServiceTakes, ServiceRefuses
  <2> QED
    BY <2>1
<1>10. CASE Stop
  BY <1>10 DEF Stop
<1> QED
  BY <1>1, <1>2, <1>3, <1>4, <1>5, <1>6, <1>7, <1>8, <1>9, <1>10 DEF Next

LEMMA FreshStep ==
    ASSUME IdInv, Fresh, Next, ~refused' PROVE Fresh'
<1> USE DEF Fresh, IdInv
<1>1. CASE RecordRow \/ \E k \in Keys : RecordFeature(k)
  <2>1. recorded + 1 \notin disk.pending.events
    BY RecordedIsNew DEF Snapshots
  <2>2. Buffered(mem') \subseteq Buffered(mem) \cup {recorded + 1}
    BY <1>1, RecordAddsOne
  <2>3. hydrated' = hydrated /\ disk' = disk
    BY <1>1, RecordKeepsPending
  <2> QED
    BY <2>1, <2>2, <2>3
<1>3. CASE WriteEnds
  BY <1>3 DEF WriteEnds, Phases
<1>4. CASE Hydrate
  BY <1>4 DEF Hydrate
<1>5. CASE FlushBegins \/ FlushFails \/ FlushEnds
  BY <1>5 DEF FlushBegins, FlushFails, FlushEnds
<1>6. CASE FlushBuilds
  BY <1>6 DEF FlushBuilds
<1>7. CASE FlushReplays \/ FlushPosts
  BY <1>7 DEF FlushReplays, FlushPosts, Post
<1>8. CASE FlushSucceeds
  BY <1>8 DEF FlushSucceeds, Phases
<1>9. CASE \E b \in sent : ServiceTakes(b) \/ ServiceRefuses(b)
  BY <1>9 DEF ServiceTakes, ServiceRefuses
<1>10. CASE Stop
  BY <1>10, EmptyFacts DEF Stop
<1> QED
  BY <1>1, <1>3, <1>4, <1>5, <1>6, <1>7, <1>8, <1>9, <1>10 DEF Next

LEMMA DisjointStep ==
    ASSUME IdInv, ~refused, StoreInv, Next PROVE Disjoint'
<1> USE DEF StoreInv, IdInv
<1>1. CASE ~FlushBuilds
  BY <1>1, BatchesMove DEF Disjoint
<1>2. CASE FlushBuilds
  <2>1. hydrated /\ ~writing /\ mem.pending = NoBatch
    BY <1>2 DEF FlushBuilds
  <2>2. disk = mem /\ outgoing = Empty
    BY <2>1 DEF InStep, Phases
  <2>3. AllBatches' = counted \cup sent \cup {mem'.pending}
    <3>1. mem'.pending # NoBatch
      <4>1. lastBatch + 1 # 0
        BY DEF TypeOK
      <4>2. mem'.pending.id = lastBatch + 1
        BY <1>2, NewBatch
      <4> QED
        BY <4>1, <4>2 DEF NoBatch
    <3>2. Pendings' = {mem'.pending}
      BY <1>2, <2>1, <2>2, <3>1, NewBatch DEF Pendings
    <3> QED
      BY <1>2, <3>2, NewBatch DEF AllBatches
  <2>4. mem'.pending.events = Buffered(mem)
    BY <1>2, NewBatch
  <2>5. \A b \in counted \cup sent : Buffered(mem) \cap b.events = {}
    BY DEF Separate, Snapshots
  <2>6. \A b, c \in counted \cup sent :
          b.id # c.id => b.events \cap c.events = {}
    BY DEF Disjoint, AllBatches
  <2> QED
    BY <2>3, <2>4, <2>5, <2>6 DEF Disjoint
<1> QED
  BY <1>1, <1>2

(* What Separate asks of one state.                                        *)
Apart(s, batches) ==
    /\ Buffered(s) \cap s.pending.events = {}
    /\ \A b \in batches : Buffered(s) \cap b.events = {}

LEMMA SeparateApart ==
    Separate <=> \A s \in Snapshots : Apart(s, counted \cup sent)
BY DEF Separate, Apart

LEMMA EmptyApart == \A batches : Apart(Empty, batches)
BY EmptyFacts DEF Apart

LEMMA RestoredSubset ==
    ASSUME TypeOK, NEW m \in MergedBuckets(disk.buckets, mem.buckets), Restore(m)
    PROVE  /\ Buffered(mem') \subseteq Buffered(disk) \cup Buffered(mem)
           /\ mem'.pending = disk.pending
<1> DEFINE rows == disk.rows \cup mem.rows
<1>1. /\ recorded \in Nat
      /\ disk.buckets \in [Keys -> SUBSET (1..recorded)]
      /\ mem.buckets \in [Keys -> SUBSET (1..recorded)]
  BY DEF TypeOK, State, Events
<1>2. \A k \in Keys : m.buckets[k] \subseteq disk.buckets[k] \cup mem.buckets[k]
  BY <1>1, MergedType
<1>3. /\ mem'.rows = Newest(rows) /\ mem'.buckets = m.buckets
      /\ mem'.pending = disk.pending
  BY DEF Restore
<1>4. mem'.rows \subseteq rows
  BY <1>3, NewestSubset
<1>5. \A k \in Keys : mem'.buckets[k] \subseteq Buffered(disk) \cup Buffered(mem)
  BY <1>2, <1>3 DEF Buffered
<1>6. mem'.rows \subseteq Buffered(disk) \cup Buffered(mem)
  BY <1>4 DEF Buffered
<1>7. Buffered(mem') \subseteq Buffered(disk) \cup Buffered(mem)
  BY <1>5, <1>6 DEF Buffered
<1> QED
  BY <1>3, <1>7

LEMMA SeparateStep ==
    ASSUME IdInv, ~refused, StoreInv, Next PROVE Separate'
<1> DEFINE B == counted \cup sent
<1> USE DEF IdInv
<1>1. \A s \in Snapshots : Apart(s, B)
  BY SeparateApart DEF StoreInv
<1>2. SUFFICES \A s \in Snapshots' : Apart(s, B')
  BY DEF Separate, Apart
<1>a. CASE RecordRow \/ \E k \in Keys : RecordFeature(k)
  <2>1. B' = B /\ Snapshots' \subseteq {mem'} \cup Snapshots
    BY <1>a, RecordKeepsPending DEF Snapshots
  <2>2. Apart(mem', B)
    <3>1. /\ \A b \in B : recorded + 1 \notin b.events
          /\ recorded + 1 \notin mem.pending.events
      BY RecordedIsNew DEF Snapshots, AllBatches
    <3>2. Apart(mem, B)
      BY <1>1 DEF Snapshots
    <3> QED
      BY <1>a, <3>1, <3>2, RecordAddsOne, RecordKeepsPending DEF Apart
  <2> QED
    BY <1>1, <2>1, <2>2
<1>b. CASE WriteEnds
  <2>1. B' = B /\ Snapshots' \subseteq {Empty} \cup Snapshots
    BY <1>b DEF WriteEnds, Snapshots
  <2> QED
    BY <1>1, <2>1, EmptyApart
<1>c. CASE Hydrate
  <2>1. B' = B /\ Snapshots' \subseteq {mem'} \cup Snapshots
    BY <1>c DEF Hydrate, QueuePersist, Snapshots
  <2>2. Apart(mem', B)
    <3>1. CASE mem' = mem
      BY <1>1, <3>1 DEF Snapshots
    <3>2. ASSUME NEW m \in MergedBuckets(disk.buckets, mem.buckets), Restore(m)
          PROVE  Apart(mem', B)
      <4>1. /\ Buffered(mem') \subseteq Buffered(disk) \cup Buffered(mem)
            /\ mem'.pending = disk.pending
        BY <3>2, RestoredSubset
      <4>2. Apart(disk, B) /\ Apart(mem, B)
        BY <1>1 DEF Snapshots
      <4>3. Buffered(mem) \cap disk.pending.events = {}
        BY <1>c DEF Hydrate, StoreInv, Fresh
      <4> QED
        BY <4>1, <4>2, <4>3 DEF Apart
    <3> QED
      BY <1>c, <3>1, <3>2 DEF Hydrate
  <2> QED
    BY <1>1, <2>1, <2>2
<1>d. CASE FlushBegins \/ FlushFails \/ FlushEnds
  <2>1. B' = B /\ Snapshots' = Snapshots
    BY <1>d DEF FlushBegins, FlushFails, FlushEnds, Snapshots
  <2> QED
    BY <1>1, <2>1
<1>e. CASE FlushBuilds
  <2>1. /\ B' = B /\ Snapshots' = {mem', disk} /\ Buffered(mem') = {}
    BY <1>e, NewBatch DEF Snapshots, Buffered, NoBuckets
  <2> QED
    BY <1>1, <2>1 DEF Apart, Snapshots
<1>f. CASE FlushReplays \/ FlushPosts
  <2>1. /\ B' = B \cup {mem.pending} /\ Snapshots' = Snapshots
        /\ hydrated /\ ~writing
    BY <1>f DEF FlushReplays, FlushPosts, Post, Snapshots, Phases
  <2>2. Snapshots = {mem, Empty}
    BY <2>1 DEF StoreInv, InStep, Phases, Snapshots
  <2>3. Apart(mem, B \cup {mem.pending})
    BY <1>1 DEF Apart, Snapshots
  <2> QED
    BY <2>1, <2>2, <2>3, EmptyApart
<1>g. CASE FlushSucceeds
  <2>1. B' = B /\ Snapshots' \subseteq {mem'} \cup Snapshots
    BY <1>g DEF FlushSucceeds, QueuePersist, Snapshots
  <2>2. mem'.pending = NoBatch /\ Buffered(mem') = Buffered(mem)
    BY <1>g DEF FlushSucceeds, TypeOK, State, Buffered
  <2>3. Apart(mem', B)
    BY <1>1, <2>2 DEF Apart, Snapshots, NoBatch
  <2> QED
    BY <1>1, <2>1, <2>3
<1>h. ASSUME NEW b \in sent, ServiceTakes(b) \/ ServiceRefuses(b)
      PROVE  \A s \in Snapshots' : Apart(s, B')
  <2>1. B' \subseteq B /\ Snapshots' = Snapshots
    BY <1>h DEF ServiceTakes, ServiceRefuses, Books, Snapshots
  <2> QED
    BY <1>1, <2>1 DEF Apart
<1>i. CASE Stop
  <2>1. B' = B /\ Snapshots' \subseteq {Empty} \cup Snapshots
    BY <1>i DEF Stop, Snapshots
  <2> QED
    BY <1>1, <2>1, EmptyApart
<1> QED
  BY <1>a, <1>b, <1>c, <1>d, <1>e, <1>f, <1>g, <1>h, <1>i DEF Next

LEMMA IInvHolds == Spec => []IInv
<1>1. Init => IInv
  BY TypeInit, PhasesInit, IdsInit, StoreInit DEF IdInv, IInv
<1>2. IInv /\ [Next]_vars => IInv'
  <2> SUFFICES ASSUME IInv, [Next]_vars PROVE IInv'
    OBVIOUS
  <2>1. IdInv'
    BY TypeStep, PhasesStep, IdsStep DEF IdInv, IInv
  <2>2. CASE UNCHANGED vars
    <3>1. StoreInv'
      BY <2>2 DEF vars, IInv, StoreInv, InStep, Fresh, Separate, Disjoint,
         Snapshots, AllBatches, Pendings
    <3> QED
      BY <2>1, <3>1 DEF IInv
  <2>3. CASE Next
    <3>1. ASSUME ~refused'
          PROVE  InStep' /\ Fresh' /\ Separate' /\ Disjoint'
      <4>1. ~refused
        BY <2>3, <3>1, RefusedStays
      <4>2. InStep /\ Fresh
        BY <4>1 DEF IInv, StoreInv
      <4> QED
        BY <2>3, <3>1, <4>1, <4>2, InStepStep, FreshStep, SeparateStep,
           DisjointStep DEF IInv
    <3> QED
      BY <2>1, <3>1 DEF IInv, StoreInv
  <2> QED
    BY <2>2, <2>3
<1> QED
  BY <1>1, <1>2, PTL DEF Spec

(* As long as the browser stores what it is given, no event is counted     *)
(* twice, wherever the worker stops and whatever request is repeated.      *)
THEOREM NoDoubleCount == Spec => []CountedOnce
<1>1. IInv => CountedOnce
  <2> SUFFICES ASSUME IInv, ~refused, NEW b \in counted, NEW c \in counted,
                      b # c
               PROVE  b.events \cap c.events = {}
    BY DEF CountedOnce
  <2>1. b.id # c.id
    BY DEF IInv, IdInv, BatchIdNamesItsEvents
  <2> QED
    BY <2>1 DEF IInv, StoreInv, Disjoint, AllBatches
<1> QED
  BY <1>1, IInvHolds, PTL

(* The reporter implements the ledger: the only step that books a report   *)
(* is the service taking a batch it does not know, and that batch shares   *)
(* no event with the others unless a write was refused.                    *)
THEOREM TelemetryImplementsLedger == Spec => ImplementsLedger
<1> DEFINE Reports == {[id |-> b.id, events |-> b.events] : b \in counted}
<1>1. Init => Ledger!Init
  BY DEF Init, Ledger!Init
<1>2. IInv /\ [Next]_vars => [Ledger!Next]_(Ledger!vars)
  <2> SUFFICES ASSUME IInv, [Next]_vars PROVE [Ledger!Next]_(Ledger!vars)
    OBVIOUS
  <2>1. CASE RecordRow \/ \E k \in Keys : RecordFeature(k)
    <3>1. recorded' = recorded + 1 /\ UNCHANGED <<counted, refused>>
      BY <2>1 DEF RecordRow, RecordFeature
    <3> QED
      BY <3>1 DEF Ledger!Next, Ledger!Record
  <2>2. CASE WriteEnds
    <3>1. /\ UNCHANGED <<recorded, counted>>
          /\ refused' = refused \/ refused' = TRUE
      BY <2>2 DEF WriteEnds
    <3> QED
      BY <3>1 DEF Ledger!Next, Ledger!Excuse, Ledger!vars
  <2>3. CASE Hydrate \/ FlushBegins \/ FlushBuilds \/ FlushReplays \/ FlushPosts
             \/ FlushSucceeds \/ FlushFails \/ FlushEnds \/ Stop
             \/ UNCHANGED vars
    <3>1. UNCHANGED <<recorded, counted, refused>>
      BY <2>3 DEF Hydrate, FlushBegins, FlushBuilds, FlushReplays, FlushPosts,
         Post, FlushSucceeds, FlushFails, FlushEnds, Stop, vars
    <3> QED
      BY <3>1 DEF Ledger!vars
  <2>4. ASSUME NEW b \in sent, ServiceTakes(b) \/ ServiceRefuses(b)
        PROVE  [Ledger!Next]_(Ledger!vars)
    <3>1. /\ UNCHANGED <<recorded, refused>>
          /\ \/ counted' = counted
             \/ counted' = counted \cup {b} /\ \A c \in counted : c.id # b.id
      BY <2>4 DEF ServiceTakes, ServiceRefuses, Books
    <3>2. CASE counted' = counted
      BY <3>1, <3>2 DEF Ledger!vars
    <3>3. CASE counted' = counted \cup {b} /\ \A c \in counted : c.id # b.id
      <4> DEFINE r == [id |-> b.id, events |-> b.events]
      <4>1. b \in Batch /\ lastBatch \in Nat
        BY DEF IInv, IdInv, TypeOK
      <4>2. r \in [id : Nat, events : SUBSET (1..recorded)]
        BY <4>1 DEF Batch, Events
      <4>3. \A c \in counted : refused \/ c.events \cap b.events = {}
        BY <3>3 DEF IInv, StoreInv, Disjoint, AllBatches
      <4>4. Reports' = Reports \cup {r}
        BY <3>3
      <4>5. \A q \in Reports :
              q.id # r.id /\ (refused \/ q.events \cap r.events = {})
        BY <3>3, <4>3
      <4>6. r \in Reports'
        BY <4>4
      <4> HIDE DEF Reports, r
      <4>7. \E x \in Reports' :
              /\ x \in [id : Nat, events : SUBSET (1..recorded)]
              /\ \A q \in Reports :
                   q.id # x.id /\ (refused \/ q.events \cap x.events = {})
              /\ Reports' = Reports \cup {x}
        BY <4>2, <4>4, <4>5, <4>6
      <4> QED
        BY <3>1, <4>7 DEF Ledger!Next, Ledger!Book, Reports
    <3> QED
      BY <3>1, <3>2, <3>3
  <2> QED
    BY <2>1, <2>2, <2>3, <2>4 DEF Next
<1> QED
  BY <1>1, <1>2, IInvHolds, PTL DEF Spec, ImplementsLedger, Ledger!Spec
-----------------------------------------------------------------------------
(* The drops.  A batch no one has booked may still be: the one in memory,  *)
(* the one a later worker would restore, and those whose request was left  *)
(* behind by a worker that stopped.  Batches are numbered, so a sum over   *)
(* them is given by its partial sums S.                                    *)

Fits(last, batches, used, total) ==
    \E S \in [0..last -> Nat] :
      /\ \A i, j \in 0..last : i <= j => S[i] <= S[j]
      /\ \A b \in batches : S[b.id - 1] + b.dropped <= S[b.id]
      /\ used + S[last] <= total

Unbooked(s) == (sent \cup {s.pending}) \ (counted \cup {NoBatch})

(* What a worker that has s could report, with its own drops on top.       *)
Covered(s, own) ==
    Fits(lastBatch, Unbooked(s), reported + s.dropped + own, evictions)

DropInv ==
    ~refused => IF hydrated THEN \A s \in Snapshots : Covered(s, 0)
                            ELSE Covered(disk, mem.dropped)

Numbered(batches, last) ==
    \A b \in batches : b.id \in 1..last /\ b.dropped \in Nat

LEMMA FitsFewer ==
    ASSUME NEW n \in Nat, NEW A, NEW B \in SUBSET A,
           NEW u \in Nat, NEW v \in Nat, NEW t \in Nat, NEW w \in Nat,
           Fits(n, A, u, t), v + t <= u + w
    PROVE  Fits(n, B, v, w)
<1>1. PICK S \in [0..n -> Nat] :
          /\ \A i, j \in 0..n : i <= j => S[i] <= S[j]
          /\ \A b \in A : S[b.id - 1] + b.dropped <= S[b.id]
          /\ u + S[n] <= t
  BY DEF Fits
<1>2. v + S[n] <= w
  <2>1. S[n] \in Nat
    BY <1>1
  <2> QED
    BY <1>1, <2>1
<1> QED
  BY <1>1, <1>2 DEF Fits

LEMMA FitsOne ==
    ASSUME NEW n \in Nat, NEW B, NEW u \in Nat, NEW t \in Nat,
           Fits(n, B, u, t), Numbered(B, n), NEW b \in B
    PROVE  u + b.dropped <= t
<1>1. PICK S \in [0..n -> Nat] :
          /\ \A i, j \in 0..n : i <= j => S[i] <= S[j]
          /\ \A c \in B : S[c.id - 1] + c.dropped <= S[c.id]
          /\ u + S[n] <= t
  BY DEF Fits
<1>2. b.id \in 1..n /\ b.dropped \in Nat
  BY DEF Numbered
<1>3. /\ S[b.id - 1] \in Nat /\ S[b.id] \in Nat /\ S[n] \in Nat
      /\ S[b.id] <= S[n]
  BY <1>1, <1>2
<1>4. S[b.id - 1] + b.dropped <= S[b.id] /\ u + S[n] <= t
  BY <1>1
<1> DEFINE x == S[b.id - 1]
           y == S[b.id]
           z == S[n]
<1>5. x \in Nat /\ y \in Nat /\ z \in Nat /\ b.dropped \in Nat
  BY <1>2, <1>3
<1>6. y <= z /\ x + b.dropped <= y /\ u + z <= t
  BY <1>3, <1>4
<1> HIDE DEF x, y, z
<1> QED
  BY <1>5, <1>6

(* A batch is made of the drops counted so far.                            *)
LEMMA FitsNew ==
    ASSUME NEW n \in Nat, NEW A, NEW B, NEW u \in Nat, NEW t \in Nat,
           NEW d \in Nat, NEW v \in Nat, Fits(n, A, u, t), Numbered(A, n),
           \A b \in B : b \in A \/ (b.id = n + 1 /\ b.dropped <= d),
           \A b \in B : b.dropped \in Nat, v + d <= u
    PROVE  Fits(n + 1, B, v, t)
<1>1. PICK S \in [0..n -> Nat] :
          /\ \A i, j \in 0..n : i <= j => S[i] <= S[j]
          /\ \A b \in A : S[b.id - 1] + b.dropped <= S[b.id]
          /\ u + S[n] <= t
  BY DEF Fits
<1> DEFINE T == [i \in 0..(n + 1) |-> IF i <= n THEN S[i] ELSE S[n] + d]
<1>2. S[n] \in Nat /\ \A i \in 0..n : S[i] \in Nat
  BY <1>1
<1>3. T \in [0..(n + 1) -> Nat]
  BY <1>2
<1>4. /\ \A i \in 0..n : T[i] = S[i]
      /\ T[n + 1] = S[n] + d
  OBVIOUS
<1> HIDE DEF T
<1>5. ASSUME NEW i \in 0..(n + 1), NEW j \in 0..(n + 1), i <= j
      PROVE  T[i] <= T[j]
  <2>1. CASE j <= n
    BY <1>1, <1>4, <1>5, <2>1
  <2>2. CASE i <= n /\ j = n + 1
    <3>1. S[i] <= S[n] /\ S[i] \in Nat
      BY <1>1, <2>2
    <3> QED
      BY <1>2, <1>4, <2>2, <3>1
  <2>3. CASE i = n + 1 /\ j = n + 1
    BY <1>2, <1>4, <2>3
  <2> QED
    BY <1>5, <2>1, <2>2, <2>3
<1>6. ASSUME NEW b \in B PROVE T[b.id - 1] + b.dropped <= T[b.id]
  <2>1. CASE b \in A
    <3>1. b.id \in 0..n /\ b.id - 1 \in 0..n
      BY <2>1 DEF Numbered
    <3> QED
      BY <1>1, <1>4, <2>1, <3>1
  <2>2. CASE b.id = n + 1 /\ b.dropped <= d
    <3>1. T[b.id - 1] = S[n] /\ T[b.id] = S[n] + d
      BY <1>4, <2>2
    <3> QED
      BY <1>2, <2>2, <3>1
  <2> QED
    BY <2>1, <2>2
<1>7. v + T[n + 1] <= t
  BY <1>1, <1>2, <1>4
<1> QED
  BY <1>3, <1>5, <1>6, <1>7 DEF Fits

(* A batch that is booked moves from the sum to the reported drops.        *)
LEMMA FitsBooked ==
    ASSUME NEW n \in Nat, NEW A, NEW B, NEW u \in Nat, NEW t \in Nat,
           NEW b \in A, Fits(n, A, u, t), Numbered(A, n),
           B \subseteq A, \A c \in B : c.id # b.id
    PROVE  Fits(n, B, u + b.dropped, t)
<1>1. PICK S \in [0..n -> Nat] :
          /\ \A i, j \in 0..n : i <= j => S[i] <= S[j]
          /\ \A c \in A : S[c.id - 1] + c.dropped <= S[c.id]
          /\ u + S[n] <= t
  BY DEF Fits
<1> DEFINE k == b.id
           d == b.dropped
           T == [i \in 0..n |-> IF i < k THEN S[i] ELSE S[i] - d]
<1>2. k \in 1..n /\ d \in Nat
  BY DEF Numbered
<1>3. /\ \A i \in 0..n : S[i] \in Nat
      /\ S[k - 1] + d <= S[k]
  BY <1>1
<1> HIDE DEF k, d
<1>4. ASSUME NEW i \in 0..n
      PROVE  /\ i < k => T[i] = S[i] /\ S[i] <= S[k - 1]
             /\ i >= k => T[i] = S[i] - d /\ S[k] <= S[i]
  <2>1. k \in 0..n /\ k - 1 \in 0..n
    BY <1>2
  <2>2. i < k => i <= k - 1
    BY <1>2
  <2>3. i < k => S[i] <= S[k - 1]
    BY <1>1, <2>1, <2>2
  <2>4. i >= k => S[k] <= S[i]
    BY <1>1, <2>1
  <2> QED
    BY <1>2, <2>3, <2>4
<1>5. T \in [0..n -> Nat]
  <2>1. ASSUME NEW i \in 0..n PROVE T[i] \in Nat
    <3>1. S[i] \in Nat /\ S[k] \in Nat /\ S[k - 1] \in Nat
      BY <1>2, <1>3
    <3> HIDE DEF T
    <3>2. CASE i < k
      BY <1>4, <3>1, <3>2
    <3>3. CASE i >= k
      <4>1. T[i] = S[i] - d /\ S[k] <= S[i] /\ S[k - 1] + d <= S[k]
        BY <1>3, <1>4, <3>3
      <4>2. S[i] - d \in Nat
        BY <1>2, <3>1, <4>1
      <4> QED
        BY <4>1, <4>2
    <3> QED
      BY <1>2, <3>2, <3>3
  <2> QED
    BY <2>1
<1>6. ASSUME NEW i \in 0..n, NEW j \in 0..n, i <= j PROVE T[i] <= T[j]
  <2>1. /\ S[i] \in Nat /\ S[j] \in Nat /\ S[k] \in Nat /\ S[k - 1] \in Nat
        /\ S[i] <= S[j]
    BY <1>1, <1>2, <1>3, <1>6
  <2> HIDE DEF T
  <2>2. CASE i < k /\ j >= k
    BY <1>2, <1>3, <1>4, <2>1, <2>2
  <2>3. CASE i < k /\ j < k
    BY <1>2, <1>4, <2>1, <2>3
  <2>4. CASE i >= k /\ j >= k
    BY <1>2, <1>4, <2>1, <2>4
  <2> QED
    BY <1>2, <1>6, <2>2, <2>3, <2>4
<1>7. ASSUME NEW c \in B PROVE T[c.id - 1] + c.dropped <= T[c.id]
  <2>1. c.id \in 1..n /\ c.dropped \in Nat /\ c.id # k
    BY DEF Numbered, k
  <2>2. /\ S[c.id - 1] + c.dropped <= S[c.id]
        /\ S[c.id - 1] \in Nat /\ S[c.id] \in Nat
    BY <1>1, <1>3, <2>1
  <2>3. /\ c.id - 1 \in 0..n /\ c.id \in 0..n
        /\ c.id < k <=> c.id - 1 < k
    BY <1>2, <2>1
  <2> HIDE DEF T
  <2>4. CASE c.id < k
    <3>1. T[c.id - 1] = S[c.id - 1] /\ T[c.id] = S[c.id]
      BY <1>4, <2>3, <2>4
    <3> QED
      BY <2>2, <3>1
  <2>5. CASE ~(c.id < k)
    <3>1. c.id >= k /\ c.id - 1 >= k
      BY <1>2, <2>1, <2>3, <2>5
    <3>2. T[c.id - 1] = S[c.id - 1] - d /\ T[c.id] = S[c.id] - d
      BY <1>4, <2>3, <3>1
    <3>3. \A x, y, e \in Nat : x + e <= y => x - d + e <= y - d
      BY <1>2
    <3>4. S[c.id - 1] - d + c.dropped <= S[c.id] - d
      BY <2>1, <2>2, <3>3
    <3> QED
      BY <3>2, <3>4
  <2> QED
    BY <2>4, <2>5
<1>8. u + d + T[n] <= t
  <2>1. S[n] \in Nat /\ n \in 0..n /\ n >= k
    BY <1>2, <1>3
  <2>2. T[n] = S[n] - d
    BY <1>4, <2>1
  <2> HIDE DEF T
  <2> QED
    BY <1>1, <1>2, <2>1, <2>2
<1> HIDE DEF T
<1>9. Fits(n, B, u + d, t)
  BY <1>5, <1>6, <1>7, <1>8 DEF Fits
<1> QED
  BY <1>9 DEF d

(* Covered after a step.                                                   *)
Later(s, own) ==
    Fits(lastBatch', (sent' \cup {s.pending}) \ (counted' \cup {NoBatch}),
         reported' + s.dropped + own, evictions')

LEMMA CoveredLater ==
    ASSUME \A s \in Snapshots' : hydrated' => Later(s, 0),
           ~hydrated' => Later(disk', mem'.dropped)
    PROVE  DropInv'
BY DEF DropInv, Covered, Later, Unbooked

LEMMA EmptyOwes == Empty \in State /\ Empty.dropped = 0 /\ NoBatch.dropped = 0
BY EmptyType DEF Empty, NoBatch

LEMMA SnapshotTypes ==
    ASSUME TypeOK
    PROVE  /\ \A s \in Snapshots : s \in State /\ s.dropped \in Nat
           /\ mem \in Snapshots /\ disk \in Snapshots /\ outgoing \in Snapshots
           /\ \A s \in Snapshots : Numbered(Unbooked(s), lastBatch)
<1>1. \A s \in Snapshots : s \in State /\ s.dropped \in Nat
  BY DEF Snapshots, TypeOK, State
<1>2. \A s \in Snapshots : Unbooked(s) \subseteq Batch
  BY <1>1 DEF Unbooked, TypeOK, State
<1>3. lastBatch \in Nat
  BY DEF TypeOK
<1>4. \A b \in Batch : b.id \in 1..lastBatch /\ b.dropped \in Nat
  BY DEF Batch
<1> QED
  BY <1>1, <1>2, <1>4 DEF Snapshots, Numbered

(* A step that neither makes nor books a batch, and evicts what it drops.  *)
LEMMA DropsCarry ==
    ASSUME TypeOK, TypeOK', NEW s \in Snapshots, NEW a \in Nat, Covered(s, a),
           NEW r, NEW c \in Nat, r.dropped \in Nat, lastBatch' = lastBatch,
           (sent' \cup {r.pending}) \ (counted' \cup {NoBatch})
             \subseteq Unbooked(s),
           reported' + r.dropped + c + evictions
             <= reported + s.dropped + a + evictions'
    PROVE  Later(r, c)
<1>1. /\ s.dropped \in Nat /\ reported \in Nat /\ reported' \in Nat
      /\ evictions \in Nat /\ evictions' \in Nat /\ lastBatch \in Nat
  BY SnapshotTypes DEF TypeOK
<1>2. /\ reported + s.dropped + a \in Nat
      /\ reported' + r.dropped + c \in Nat
  BY <1>1
<1>3. Fits(lastBatch, Unbooked(s), reported + s.dropped + a, evictions)
  BY DEF Covered
<1>4. Fits(lastBatch, (sent' \cup {r.pending}) \ (counted' \cup {NoBatch}),
           reported' + r.dropped + c, evictions')
  <2> DEFINE B == (sent' \cup {r.pending}) \ (counted' \cup {NoBatch})
  <2>1. B \in SUBSET Unbooked(s)
    OBVIOUS
  <2> HIDE DEF B
  <2>2. Fits(lastBatch, B, reported' + r.dropped + c, evictions')
    BY <1>1, <1>2, <1>3, <2>1, FitsFewer
  <2> QED
    BY <2>2 DEF B
<1> QED
  BY <1>4 DEF Later

LEMMA RecordDrops ==
    ASSUME TypeOK, RecordRow \/ \E k \in Keys : RecordFeature(k)
    PROVE  \E x \in Nat : /\ mem'.dropped = mem.dropped + x
                          /\ evictions' = evictions + x
<1>1. CASE RecordRow
  <2> DEFINE rows == mem.rows \cup {recorded + 1}
  <2>1. rows \in SUBSET (1..(recorded + 1)) /\ recorded + 1 \in Nat
    BY DEF TypeOK, State, Events
  <2>2. Excess(rows) \in Nat
    BY <2>1, ExcessType
  <2>3. /\ mem'.dropped = mem.dropped + Excess(rows)
        /\ evictions' = evictions + Excess(rows)
    BY <1>1 DEF RecordRow, TypeOK, State
  <2> QED
    BY <2>2, <2>3
<1>2. ASSUME NEW k \in Keys, RecordFeature(k)
      PROVE  \E x \in Nat : /\ mem'.dropped = mem.dropped + x
                            /\ evictions' = evictions + x
  <2> DEFINE buckets == [mem.buckets EXCEPT ![k] = @ \cup {recorded + 1}]
             kept == [buckets EXCEPT ![Oldest(buckets)] = {}]
  <2>1. \/ mem' = [mem EXCEPT !.buckets = buckets] /\ evictions' = evictions
        \/ /\ mem' = [mem EXCEPT !.buckets = kept, !.dropped = @ + 1]
           /\ evictions' = evictions + 1
    BY <1>2 DEF RecordFeature
  <2>2. mem \in State /\ mem.dropped \in Nat /\ evictions \in Nat
    BY DEF TypeOK, State
  <2> HIDE DEF buckets, kept
  <2>3. CASE mem' = [mem EXCEPT !.buckets = buckets] /\ evictions' = evictions
    <3>1. mem'.dropped = mem.dropped + 0 /\ evictions' = evictions + 0
      BY <2>2, <2>3 DEF State
    <3> QED
      BY <3>1
  <2>4. CASE /\ mem' = [mem EXCEPT !.buckets = kept, !.dropped = @ + 1]
             /\ evictions' = evictions + 1
    <3>1. mem'.dropped = mem.dropped + 1
      BY <2>2, <2>4 DEF State
    <3> QED
      BY <2>4, <3>1
  <2> QED
    BY <2>1, <2>3, <2>4
<1> QED
  BY <1>1, <1>2

LEMMA RestoreDrops ==
    ASSUME TypeOK, NEW m \in MergedBuckets(disk.buckets, mem.buckets), Restore(m)
    PROVE  \E x \in Nat : /\ mem'.dropped = mem.dropped + disk.dropped + x
                          /\ evictions' = evictions + x
<1> DEFINE rows == disk.rows \cup mem.rows
<1>1. /\ recorded \in Nat /\ rows \in SUBSET (1..recorded)
      /\ disk.buckets \in [Keys -> SUBSET (1..recorded)]
      /\ mem.buckets \in [Keys -> SUBSET (1..recorded)]
      /\ mem.dropped \in Nat /\ disk.dropped \in Nat /\ evictions \in Nat
  BY DEF TypeOK, State, Events
<1>2. Excess(rows) \in Nat /\ m.evicted \in Nat
  BY <1>1, ExcessType, MergedType
<1>3. /\ mem'.dropped = mem.dropped + disk.dropped + Excess(rows) + m.evicted
      /\ evictions' = evictions + Excess(rows) + m.evicted
  BY DEF Restore
<1> HIDE DEF rows
<1>4. /\ mem'.dropped = mem.dropped + disk.dropped + (Excess(rows) + m.evicted)
      /\ evictions' = evictions + (Excess(rows) + m.evicted)
      /\ Excess(rows) + m.evicted \in Nat
  BY <1>1, <1>2, <1>3
<1> QED
  BY <1>4

LEMMA DropsRecord ==
    ASSUME TypeOK, TypeOK', ~refused, DropInv,
           RecordRow \/ \E k \in Keys : RecordFeature(k)
    PROVE  DropInv'
<1>1. PICK x \in Nat : mem'.dropped = mem.dropped + x
                       /\ evictions' = evictions + x
  BY RecordDrops
<1>2. /\ mem'.pending = mem.pending /\ outgoing' \in {outgoing, mem'}
      /\ UNCHANGED <<disk, sent, counted, reported, hydrated, lastBatch>>
  BY RecordKeepsPending DEF RecordRow, RecordFeature
<1>3. /\ evictions \in Nat /\ reported \in Nat /\ mem.dropped \in Nat
      /\ \A s \in Snapshots : s.dropped \in Nat
  BY SnapshotTypes DEF TypeOK
<1>4. ASSUME hydrated, NEW s \in Snapshots' PROVE Later(s, 0)
  <2>1. s \in Snapshots \/ s = mem'
    BY <1>2 DEF Snapshots
  <2>2. \A q \in Snapshots : Covered(q, 0)
    BY <1>4 DEF DropInv
  <2>3. CASE s \in Snapshots
    <3>1. (sent' \cup {s.pending}) \ (counted' \cup {NoBatch}) \subseteq Unbooked(s)
      BY <1>2 DEF Unbooked
    <3>2. reported' + s.dropped + 0 + evictions
            <= reported + s.dropped + 0 + evictions'
      BY <1>1, <1>2, <1>3, <2>3
    <3> QED
      BY <1>2, <1>3, <2>2, <2>3, <3>1, <3>2, DropsCarry
  <2>4. CASE s = mem'
    <3>1. (sent' \cup {s.pending}) \ (counted' \cup {NoBatch}) \subseteq Unbooked(mem)
      BY <1>2, <2>4 DEF Unbooked
    <3>2. reported' + s.dropped + 0 + evictions
            <= reported + mem.dropped + 0 + evictions'
      BY <1>1, <1>2, <1>3, <2>4
    <3>3. s.dropped \in Nat /\ mem \in Snapshots
      BY <1>1, <1>3, <2>4 DEF Snapshots
    <3> QED
      BY <1>2, <2>2, <3>1, <3>2, <3>3, DropsCarry
  <2> QED
    BY <2>1, <2>3, <2>4
<1>5. ASSUME ~hydrated PROVE Later(disk', mem'.dropped)
  <2>1. Covered(disk, mem.dropped)
    BY <1>5 DEF DropInv
  <2>2. (sent' \cup {disk'.pending}) \ (counted' \cup {NoBatch})
          \subseteq Unbooked(disk)
    BY <1>2 DEF Unbooked
  <2>3. disk \in Snapshots /\ disk.dropped \in Nat
    BY <1>3 DEF Snapshots
  <2>4. reported' + disk'.dropped + mem'.dropped + evictions
          <= reported + disk.dropped + mem.dropped + evictions'
    BY <1>1, <1>2, <1>3, <2>3
  <2>5. mem'.dropped \in Nat
    BY <1>1, <1>3
  <2> QED
    BY <1>2, <1>3, <2>1, <2>2, <2>3, <2>4, <2>5, DropsCarry
<1> QED
  BY <1>2, <1>4, <1>5, CoveredLater

(* Steps that leave the counters alone: a snapshot that is left owes what  *)
(* it owed, or nothing.                                                    *)
LEMMA DropsMove ==
    ASSUME TypeOK, TypeOK', ~refused, DropInv, hydrated, hydrated',
           UNCHANGED <<reported, evictions, lastBatch>>,
           sent' \subseteq sent, counted \subseteq counted',
           \A s \in Snapshots' :
             \/ s \in Snapshots
             \/ \E q \in Snapshots : /\ s.dropped \in Nat
                                     /\ s.dropped <= q.dropped
                                     /\ s.pending \in {q.pending, NoBatch}
    PROVE  DropInv'
<1>1. ASSUME NEW s \in Snapshots' PROVE Later(s, 0)
  <2>1. PICK q \in Snapshots : /\ s.dropped \in Nat
                               /\ s.dropped <= q.dropped
                               /\ s.pending \in {q.pending, NoBatch}
    <3>1. \A q \in Snapshots : q.dropped \in Nat
      BY SnapshotTypes
    <3> QED
      BY <3>1
  <2>2. Covered(q, 0)
    BY DEF DropInv
  <2>3. (sent' \cup {s.pending}) \ (counted' \cup {NoBatch}) \subseteq Unbooked(q)
    BY <2>1 DEF Unbooked
  <2>4. reported' + s.dropped + 0 + evictions
          <= reported + q.dropped + 0 + evictions'
    <3>1. q.dropped \in Nat /\ reported \in Nat /\ evictions \in Nat
      BY SnapshotTypes DEF TypeOK
    <3> QED
      BY <2>1, <3>1
  <2> QED
    BY <2>1, <2>2, <2>3, <2>4, DropsCarry
<1> QED
  BY <1>1, CoveredLater

LEMMA DropsHydrate ==
    ASSUME TypeOK, TypeOK', Phases, ~refused, DropInv, Hydrate PROVE DropInv'
<1>1. /\ ~hydrated /\ hydrated' /\ ~writing /\ mem.pending = NoBatch
      /\ UNCHANGED <<disk, sent, counted, reported, lastBatch>>
  BY DEF Hydrate, Phases
<1>2. Snapshots' = {mem', disk}
  BY <1>1 DEF Hydrate, QueuePersist, Snapshots
<1>3. Covered(disk, mem.dropped)
  BY <1>1 DEF DropInv
<1>4. \E x \in Nat : /\ mem'.dropped <= mem.dropped + disk.dropped + x
                     /\ evictions' = evictions + x
                     /\ mem'.pending \in {disk.pending, NoBatch}
  <2>1. CASE UNCHANGED <<mem, evictions>> /\ FaultLeft
    <3>1. mem.dropped \in Nat /\ disk.dropped \in Nat /\ evictions \in Nat
      BY DEF TypeOK, State
    <3>2. /\ mem'.dropped <= mem.dropped + disk.dropped + 0
          /\ evictions' = evictions + 0 /\ mem'.pending = NoBatch
      BY <1>1, <2>1, <3>1
    <3> QED
      BY <3>2
  <2>2. ASSUME NEW m \in MergedBuckets(disk.buckets, mem.buckets), Restore(m)
        PROVE  \E x \in Nat :
                 /\ mem'.dropped <= mem.dropped + disk.dropped + x
                 /\ evictions' = evictions + x
                 /\ mem'.pending \in {disk.pending, NoBatch}
    <3>1. PICK x \in Nat : /\ mem'.dropped = mem.dropped + disk.dropped + x
                           /\ evictions' = evictions + x
      BY <2>2, RestoreDrops
    <3>2. mem'.pending = disk.pending
      BY <2>2, RestoredSubset
    <3>3. mem.dropped \in Nat /\ disk.dropped \in Nat
      BY DEF TypeOK, State
    <3> QED
      BY <3>1, <3>2, <3>3
  <2> QED
    BY <2>1, <2>2 DEF Hydrate
<1>5. PICK x \in Nat : /\ mem'.dropped <= mem.dropped + disk.dropped + x
                       /\ evictions' = evictions + x
                       /\ mem'.pending \in {disk.pending, NoBatch}
  BY <1>4
<1>6. /\ mem'.dropped \in Nat /\ mem.dropped \in Nat /\ disk.dropped \in Nat
      /\ reported \in Nat /\ evictions \in Nat /\ disk \in Snapshots
  BY SnapshotTypes DEF TypeOK, State
<1>7. Later(mem', 0)
  <2>1. (sent' \cup {mem'.pending}) \ (counted' \cup {NoBatch})
          \subseteq Unbooked(disk)
    BY <1>1, <1>5 DEF Unbooked
  <2>2. reported' + mem'.dropped + 0 + evictions
          <= reported + disk.dropped + mem.dropped + evictions'
    BY <1>1, <1>5, <1>6
  <2> QED
    BY <1>1, <1>3, <1>6, <2>1, <2>2, DropsCarry
<1>8. Later(disk, 0)
  <2>1. (sent' \cup {disk.pending}) \ (counted' \cup {NoBatch})
          \subseteq Unbooked(disk)
    BY <1>1 DEF Unbooked
  <2>2. reported' + disk.dropped + 0 + evictions
          <= reported + disk.dropped + mem.dropped + evictions'
    BY <1>1, <1>5, <1>6
  <2> QED
    BY <1>1, <1>3, <1>6, <2>1, <2>2, DropsCarry
<1> QED
  BY <1>1, <1>2, <1>7, <1>8, CoveredLater

LEMMA DropsStop ==
    ASSUME TypeOK, TypeOK', Phases, ~refused, DropInv, Stop PROVE DropInv'
<1>1. /\ ~hydrated' /\ mem' = Empty
      /\ UNCHANGED <<sent, counted, reported, evictions, lastBatch>>
      /\ disk' \in Snapshots \cup {Empty}
      /\ ~writing => disk' \in {disk, Empty}
  BY DEF Stop, Snapshots
<1>2. \E s \in Snapshots : \E a \in Nat :
        Covered(s, a) /\ (disk' = s \/ disk' = Empty)
  <2>1. CASE hydrated
    BY <1>1, <2>1 DEF DropInv, Snapshots
  <2>2. CASE ~hydrated
    <3>1. disk' \in {disk, Empty} /\ Covered(disk, mem.dropped)
      BY <1>1, <2>2 DEF DropInv, Phases
    <3> QED
      BY <3>1, SnapshotTypes
  <2> QED
    BY <2>1, <2>2
<1>3. PICK s \in Snapshots, a \in Nat :
        Covered(s, a) /\ (disk' = s \/ disk' = Empty)
  BY <1>2
<1>4. /\ disk'.dropped \in Nat /\ mem'.dropped = 0 /\ s.dropped \in Nat
      /\ disk'.dropped <= s.dropped /\ disk'.pending \in {s.pending, NoBatch}
      /\ reported \in Nat /\ evictions \in Nat
  BY <1>1, <1>3, EmptyOwes, EmptyFacts, SnapshotTypes DEF TypeOK
<1>5. (sent' \cup {disk'.pending}) \ (counted' \cup {NoBatch})
        \subseteq Unbooked(s)
  BY <1>1, <1>4 DEF Unbooked
<1>6. reported' + disk'.dropped + mem'.dropped + evictions
        <= reported + s.dropped + a + evictions'
  BY <1>1, <1>4
<1>7. Later(disk', mem'.dropped)
  BY <1>1, <1>3, <1>4, <1>5, <1>6, DropsCarry
<1> QED
  BY <1>1, <1>7, CoveredLater

(* A request is sent when the storage holds what the memory holds: a later *)
(* worker knows of the batch.                                              *)
LEMMA DropsPost ==
    ASSUME TypeOK, TypeOK', Phases, InStep, ~refused, DropInv,
           FlushReplays \/ FlushPosts
    PROVE  DropInv'
<1>1. /\ hydrated /\ hydrated' /\ ~writing /\ sent' = sent \cup {mem.pending}
      /\ UNCHANGED <<mem, disk, outgoing, counted, reported>>
      /\ UNCHANGED <<evictions, lastBatch>>
  BY DEF FlushReplays, FlushPosts, Post, Phases
<1>2. disk = mem /\ outgoing = Empty
  BY <1>1 DEF InStep, Phases
<1>3. ASSUME NEW s \in {mem, Empty} PROVE Later(s, 0)
  <2>1. Covered(mem, 0) /\ mem \in Snapshots
    BY <1>1 DEF DropInv, Snapshots
  <2>2. (sent' \cup {s.pending}) \ (counted' \cup {NoBatch})
          \subseteq Unbooked(mem)
    BY <1>1, EmptyFacts DEF Unbooked
  <2>3. mem.dropped \in Nat /\ s.dropped \in Nat /\ s.dropped <= mem.dropped
    BY EmptyOwes, SnapshotTypes
  <2>4. reported' + s.dropped + 0 + evictions
          <= reported + mem.dropped + 0 + evictions'
    BY <1>1, <2>3 DEF TypeOK
  <2> QED
    BY <1>1, <2>1, <2>2, <2>3, <2>4, DropsCarry
<1>4. Snapshots' \subseteq {mem, Empty}
  BY <1>1, <1>2 DEF Snapshots
<1> QED
  BY <1>1, <1>3, <1>4, CoveredLater

LEMMA DropsBuild ==
    ASSUME TypeOK, TypeOK', Phases, ~refused, DropInv, FlushBuilds
    PROVE  DropInv'
<1>1. /\ hydrated /\ hydrated' /\ ~writing /\ outgoing' = mem'
      /\ lastBatch' = lastBatch + 1 /\ lastBatch \in Nat
      /\ UNCHANGED <<disk, sent, counted, reported, evictions>>
  BY DEF FlushBuilds, QueuePersist, TypeOK
<1>2. /\ mem'.dropped = 0 /\ mem'.pending.id = lastBatch + 1
      /\ mem'.pending.dropped = mem.dropped /\ mem.pending = NoBatch
  BY DEF FlushBuilds, Empty
<1>3. /\ reported \in Nat /\ evictions \in Nat /\ mem.dropped \in Nat
      /\ disk.dropped \in Nat
      /\ Numbered(Unbooked(mem), lastBatch)
      /\ Numbered(Unbooked(disk), lastBatch)
  BY SnapshotTypes DEF TypeOK, Snapshots
<1>4. /\ Fits(lastBatch, Unbooked(mem), reported + mem.dropped + 0, evictions)
      /\ Fits(lastBatch, Unbooked(disk), reported + disk.dropped + 0, evictions)
  BY <1>1 DEF DropInv, Snapshots, Covered
<1>5. Later(mem', 0)
  <2> DEFINE B == (sent' \cup {mem'.pending}) \ (counted' \cup {NoBatch})
  <2>1. \A b \in B : \/ b \in Unbooked(mem)
                     \/ b.id = lastBatch + 1 /\ b.dropped <= mem.dropped
    BY <1>1, <1>2, <1>3 DEF Unbooked
  <2>2. \A b \in B : b.dropped \in Nat
    BY <1>1, <1>2, <1>3 DEF Unbooked, Numbered
  <2>3. /\ reported + mem'.dropped + 0 \in Nat
        /\ reported + mem.dropped + 0 \in Nat
        /\ (reported + mem'.dropped + 0) + mem.dropped
             <= reported + mem.dropped + 0
    BY <1>2, <1>3
  <2> HIDE DEF B
  <2>4. Fits(lastBatch + 1, B, reported + mem'.dropped + 0, evictions)
    BY <1>1, <1>3, <1>4, <2>1, <2>2, <2>3, FitsNew
  <2> QED
    BY <1>1, <2>4 DEF Later, B
<1>6. Later(disk, 0)
  <2> DEFINE B == (sent' \cup {disk.pending}) \ (counted' \cup {NoBatch})
  <2>1. B = Unbooked(disk)
    BY <1>1 DEF Unbooked
  <2>2. \A b \in B : b \in Unbooked(disk) /\ b.dropped \in Nat
    BY <1>3, <2>1 DEF Numbered
  <2>3. /\ reported + disk.dropped + 0 \in Nat
        /\ (reported + disk.dropped + 0) + 0 <= reported + disk.dropped + 0
    BY <1>3
  <2> HIDE DEF B
  <2>4. Fits(lastBatch + 1, B, reported + disk.dropped + 0, evictions)
    BY <1>1, <1>3, <1>4, <2>2, <2>3, FitsNew
  <2> QED
    BY <1>1, <2>4 DEF Later, B
<1>7. Snapshots' = {mem', disk}
  BY <1>1 DEF Snapshots
<1> QED
  BY <1>1, <1>5, <1>6, <1>7, CoveredLater

(* A batch the service books is owed no more, whoever still has it.        *)
LEMMA DropsBook ==
    ASSUME TypeOK, TypeOK', BatchIdNamesItsEvents, ~refused, DropInv,
           NEW b \in sent, ServiceTakes(b), reported' # reported \/ counted' # counted
    PROVE  DropInv'
<1>1. /\ UNCHANGED <<mem, disk, outgoing, hydrated, evictions, lastBatch>>
      /\ sent' = sent \ {b} /\ counted' = counted \cup {b}
      /\ reported' = reported + b.dropped
      /\ \A c \in counted : c.id # b.id
  BY DEF ServiceTakes, Books
<1>2. b \in Batch /\ b # NoBatch /\ lastBatch \in Nat
  BY DEF TypeOK, Batch, NoBatch
<1>3. b.dropped \in Nat /\ reported \in Nat /\ evictions \in Nat
  BY <1>2 DEF TypeOK, Batch
<1>4. ASSUME NEW s \in Snapshots, NEW a \in Nat, Covered(s, a)
      PROVE  Later(s, a)
  <2> DEFINE B == (sent' \cup {s.pending}) \ (counted' \cup {NoBatch})
  <2>1. /\ s.dropped \in Nat /\ Numbered(Unbooked(s), lastBatch)
        /\ s.pending \in Pendings \cup {NoBatch}
    BY SnapshotTypes DEF Snapshots, Pendings
  <2>2. b \in Unbooked(s)
    BY <1>1, <1>2 DEF Unbooked
  <2>3. B \subseteq Unbooked(s) /\ b \notin B
    BY <1>1 DEF Unbooked
  <2>4. ASSUME NEW c \in B PROVE c.id # b.id
    <3>1. c \in sent \cup Pendings /\ c # b
      BY <2>1, <2>3, <2>4 DEF Unbooked
    <3> QED
      BY <3>1 DEF BatchIdNamesItsEvents
  <2>5. /\ Fits(lastBatch, Unbooked(s), reported + s.dropped + a, evictions)
        /\ reported + s.dropped + a \in Nat
    BY <1>3, <1>4, <2>1 DEF Covered
  <2> HIDE DEF B
  <2>6. Fits(lastBatch, B, reported + s.dropped + a + b.dropped, evictions)
    BY <1>2, <1>3, <2>1, <2>2, <2>3, <2>4, <2>5, FitsBooked
  <2>7. reported + s.dropped + a + b.dropped = reported' + s.dropped + a
    BY <1>1, <1>3, <2>1
  <2> QED
    BY <1>1, <2>6, <2>7 DEF Later, B
<1>5. Snapshots' = Snapshots
  BY <1>1 DEF Snapshots
<1>6. mem.dropped \in Nat /\ mem \in Snapshots /\ disk \in Snapshots
  BY SnapshotTypes
<1> QED
  BY <1>1, <1>4, <1>5, <1>6, CoveredLater DEF DropInv

LEMMA DropsStep ==
    ASSUME IInv, IInv', DropInv, Next, ~refused' PROVE DropInv'
<1>1. /\ ~refused /\ TypeOK /\ TypeOK' /\ Phases /\ InStep
      /\ BatchIdNamesItsEvents
  BY RefusedStays DEF IInv, IdInv, StoreInv
<1>a. CASE RecordRow \/ \E k \in Keys : RecordFeature(k)
  BY <1>1, <1>a, DropsRecord
<1>b. CASE WriteEnds
  <2>1. /\ hydrated /\ hydrated' /\ UNCHANGED <<sent, counted, reported>>
        /\ UNCHANGED <<evictions, lastBatch>>
        /\ Snapshots' \subseteq Snapshots \cup {Empty}
    BY <1>1, <1>b DEF WriteEnds, Phases, Snapshots
  <2>2. \A s \in Snapshots' :
          \/ s \in Snapshots
          \/ \E q \in Snapshots : /\ s.dropped \in Nat
                                  /\ s.dropped <= q.dropped
                                  /\ s.pending \in {q.pending, NoBatch}
    BY <1>1, <2>1, EmptyOwes, EmptyFacts, SnapshotTypes
  <2> QED
    BY <1>1, <2>1, <2>2, DropsMove
<1>c. CASE Hydrate
  BY <1>1, <1>c, DropsHydrate
<1>d. CASE FlushBegins \/ FlushFails \/ FlushEnds
  <2>1. UNCHANGED <<mem, disk, outgoing, hydrated, sent, counted, reported,
                    evictions, lastBatch, refused>>
    BY <1>d DEF FlushBegins, FlushFails, FlushEnds
  <2> QED
    BY <2>1 DEF DropInv, Covered, Unbooked, Snapshots
<1>e. CASE FlushBuilds
  BY <1>1, <1>e, DropsBuild
<1>f. CASE FlushReplays \/ FlushPosts
  BY <1>1, <1>f, DropsPost
<1>g. CASE FlushSucceeds
  <2>1. /\ hydrated /\ hydrated' /\ UNCHANGED <<sent, counted, reported>>
        /\ UNCHANGED <<evictions, lastBatch>>
        /\ Snapshots' \subseteq Snapshots \cup {mem'}
    BY <1>1, <1>g DEF FlushSucceeds, Phases, QueuePersist, Snapshots
  <2>2. mem'.dropped = mem.dropped /\ mem'.pending = NoBatch
    BY <1>1, <1>g DEF FlushSucceeds, TypeOK, State
  <2>3. \A s \in Snapshots' :
          \/ s \in Snapshots
          \/ \E q \in Snapshots : /\ s.dropped \in Nat
                                  /\ s.dropped <= q.dropped
                                  /\ s.pending \in {q.pending, NoBatch}
    BY <1>1, <2>1, <2>2, SnapshotTypes
  <2> QED
    BY <1>1, <2>1, <2>3, DropsMove
<1>h. ASSUME NEW b \in sent, ServiceTakes(b) \/ ServiceRefuses(b)
      PROVE  DropInv'
  <2>1. CASE ServiceTakes(b) /\ (reported' # reported \/ counted' # counted)
    BY <1>1, <2>1, DropsBook
  <2>2. CASE reported' = reported /\ counted' = counted
    <3>1. /\ UNCHANGED <<mem, disk, outgoing, hydrated, evictions, lastBatch>>
          /\ sent' \subseteq sent
      BY <1>h DEF ServiceTakes, ServiceRefuses
    <3>2. Snapshots' = Snapshots
      BY <3>1 DEF Snapshots
    <3>3. CASE hydrated
      BY <1>1, <2>2, <3>1, <3>2, <3>3, DropsMove
    <3>4. CASE ~hydrated
      <4>1. Covered(disk, mem.dropped)
        BY <1>1, <3>4 DEF DropInv
      <4>2. (sent' \cup {disk.pending}) \ (counted' \cup {NoBatch})
              \subseteq Unbooked(disk)
        BY <2>2, <3>1 DEF Unbooked
      <4>3. disk.dropped \in Nat /\ mem.dropped \in Nat /\ disk \in Snapshots
        BY <1>1, SnapshotTypes
      <4>4. reported' + disk.dropped + mem.dropped + evictions
              <= reported + disk.dropped + mem.dropped + evictions'
        BY <1>1, <2>2, <3>1, <4>3 DEF TypeOK
      <4>5. Later(disk, mem.dropped)
        BY <1>1, <3>1, <4>1, <4>2, <4>3, <4>4, DropsCarry
      <4> QED
        BY <3>1, <3>4, <4>5, CoveredLater
    <3> QED
      BY <3>3, <3>4
  <2>3. CASE ServiceRefuses(b)
    BY <2>2, <2>3 DEF ServiceRefuses
  <2> QED
    BY <1>h, <2>1, <2>2, <2>3
<1>i. CASE Stop
  BY <1>1, <1>i, DropsStop
<1> QED
  BY <1>a, <1>b, <1>c, <1>d, <1>e, <1>f, <1>g, <1>h, <1>i DEF Next

(* The drops reported, about to be reported and still counted never exceed *)
(* the evictions that happened, whatever batch a stopped worker left       *)
(* behind and however often a batch is posted.                             *)
THEOREM DropsAreEvictions == Spec => []DropsNotInvented
<1>1. Init => DropInv
  <2> SUFFICES ASSUME Init PROVE Covered(disk, mem.dropped)
    BY DEF Init, DropInv
  <2>1. /\ lastBatch = 0 /\ reported = 0 /\ evictions = 0
        /\ disk.dropped = 0 /\ mem.dropped = 0 /\ Unbooked(disk) = {}
    BY EmptyOwes, EmptyFacts DEF Init, Unbooked
  <2>2. Fits(0, {}, 0, 0)
    <3> DEFINE S == [i \in 0..0 |-> 0]
    <3>1. S \in [0..0 -> Nat] /\ S[0] = 0 /\ \A i \in 0..0 : S[i] = 0
      OBVIOUS
    <3> HIDE DEF S
    <3>2. \A i, j \in 0..0 : i <= j => S[i] <= S[j]
      BY <3>1
    <3>3. 0 + S[0] <= 0
      BY <3>1
    <3> QED
      BY <3>1, <3>2, <3>3 DEF Fits
  <2> QED
    BY <2>1, <2>2 DEF Covered
<1>2. IInv /\ IInv' /\ DropInv /\ [Next]_vars => DropInv'
  <2>1. ASSUME IInv, IInv', DropInv, Next PROVE DropInv'
    <3>1. CASE refused'
      BY <3>1 DEF DropInv
    <3>2. CASE ~refused'
      BY <2>1, <3>2, DropsStep
    <3> QED
      BY <3>1, <3>2
  <2>2. ASSUME DropInv, UNCHANGED vars PROVE DropInv'
    BY <2>2 DEF vars, DropInv, Covered, Unbooked, Snapshots
  <2> QED
    BY <2>1, <2>2
<1>3. IInv /\ DropInv => DropsNotInvented
  <2> SUFFICES ASSUME IInv, DropInv, ~refused
               PROVE  reported + mem.dropped
                        + (IF mem.pending \in counted THEN 0
                           ELSE mem.pending.dropped) <= evictions
    BY DEF DropsNotInvented
  <2>1. TypeOK /\ Phases
    BY DEF IInv, IdInv
  <2>2. /\ reported \in Nat /\ evictions \in Nat /\ lastBatch \in Nat
        /\ mem.dropped \in Nat /\ disk.dropped \in Nat
        /\ Numbered(Unbooked(mem), lastBatch) /\ NoBatch.dropped = 0
    BY <2>1, SnapshotTypes, EmptyOwes DEF TypeOK
  <2>3. PICK s \in Snapshots, a \in Nat :
          /\ Covered(s, a)
          /\ s.dropped + a >= mem.dropped
          /\ s = mem \/ mem.pending = NoBatch
    <3>1. CASE hydrated
      <4>1. Covered(mem, 0) /\ mem \in Snapshots /\ mem.dropped + 0 >= mem.dropped
        BY <2>2, <3>1 DEF DropInv, Snapshots
      <4> QED
        BY <4>1
    <3>2. CASE ~hydrated
      <4>1. /\ Covered(disk, mem.dropped) /\ disk \in Snapshots
            /\ disk.dropped + mem.dropped >= mem.dropped
            /\ mem.pending = NoBatch
        BY <2>1, <2>2, <3>2 DEF DropInv, Snapshots, Phases
      <4> QED
        BY <2>2, <4>1
    <3> QED
      BY <3>1, <3>2
  <2>4. /\ s.dropped \in Nat /\ Numbered(Unbooked(s), lastBatch)
        /\ Fits(lastBatch, Unbooked(s), reported + s.dropped + a, evictions)
        /\ reported + s.dropped + a \in Nat
    BY <2>1, <2>2, <2>3, SnapshotTypes DEF Covered
  <2>5. reported + s.dropped + a <= evictions
    <3>1. PICK S \in [0..lastBatch -> Nat] :
            reported + s.dropped + a + S[lastBatch] <= evictions
      BY <2>4 DEF Fits
    <3>2. S[lastBatch] \in Nat
      BY <2>2, <3>1
    <3> QED
      BY <2>2, <2>4, <3>1, <3>2
  <2>6. CASE mem.pending \in counted \/ mem.pending = NoBatch
    <3>1. (IF mem.pending \in counted THEN 0 ELSE mem.pending.dropped) = 0
      BY <2>2, <2>6
    <3> QED
      BY <2>2, <2>3, <2>4, <2>5, <3>1
  <2>7. CASE ~(mem.pending \in counted \/ mem.pending = NoBatch)
    <3>1. s = mem /\ mem.pending \in Unbooked(mem)
      BY <2>3, <2>7 DEF Unbooked
    <3>2. reported + s.dropped + a + mem.pending.dropped <= evictions
      BY <2>2, <2>4, <3>1, FitsOne
    <3>3. mem.pending.dropped \in Nat
      BY <2>2, <3>1 DEF Numbered
    <3> QED
      BY <2>2, <2>3, <2>4, <2>7, <3>1, <3>2, <3>3
  <2> QED
    BY <2>6, <2>7
<1> QED
  BY <1>1, <1>2, <1>3, IInvHolds, PTL DEF Spec
=============================================================================
