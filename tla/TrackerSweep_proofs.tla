------------------------ MODULE TrackerSweep_proofs ------------------------
(***************************************************************************)
(* The cursor of the order tracker speaks only for orders that were read   *)
(* and given to the table, for any contacts, page size, page limit,        *)
(* retention and number of orders, failures, refused writes, rewinds and   *)
(* kills, and with two sweeps at a time.                                   *)
(*                                                                         *)
(* What a cursor speaks for stays true as the index and the table change   *)
(* (Later): a row of the index only moves to the front with a newer day,   *)
(* and a stored row gives way only to newer ones, or to a write that loses *)
(* it, which the history remembers.  So it may be said of every copy of    *)
(* the scheduler state that somebody holds (Spoken), and of a search that  *)
(* what it has passed was read (Progress).                                 *)
(***************************************************************************)
EXTENDS TrackerSweep, FiniteSetTheorems, SequenceTheorems, TLAPS

Covers(from, to) ==
    \A r \in Rows : r.contact \notin Unreadable /\ from <= r.day /\ r.day < to => Banked(r)

(* The rows come newest first, one for a contact.                          *)
Sorted ==
    \A i, k \in DOMAIN index :
        /\ index[i].day <= today
        /\ i < k => index[k].day <= index[i].day /\ index[i].contact # index[k].contact

(* A state of the scheduler that is stored, or that somebody will store.   *)
Spoken(s) == s.cursor <= today /\ Covers(s.from, s.cursor)

(* What the search of job j asks for and its cursor may speak for.         *)
Within(j, r) == SinceDay(j.since, j.now) <= r.day /\ r.day < j.now

Begun(j) ==
    /\ j.since = 0 => j.from = j.now - Lookback
    /\ j.since <= today
    /\ Covers(j.from, j.since)

(* Rows move behind the place the search is at, never before it.           *)
Passed(j) ==
    \A i \in DOMAIN index : i <= Len(j.docs) /\ Within(j, index[i]) =>
        \E k \in DOMAIN j.docs : j.docs[k] = index[i]

Collected(j) == j.complete => \A r \in Rows : Within(j, r) => r \in j.docs

Progress(j) ==
    /\ j.pc \notin {"idle", "marked", "cursor", "patch", "patched"} => j.now <= today
    /\ j.pc = "search" => Begun(j) /\ Passed(j)
    /\ j.pc \in {"upsert", "store"} => Begun(j) /\ Collected(j)
    /\ j.pc = "store" => Mapped(j.docs) \subseteq j.new
    /\ (j.pc = "mark" /\ j.complete) => Covers(j.from, j.now)
    /\ j.pc \in {"marked", "cursor", "patch"} => j.to <= today /\ Covers(j.from, j.to)
    /\ j.pc \in {"marked", "patched"} => Spoken(j.new)

IInv ==
    /\ TypeOK
    /\ Sorted
    /\ Spoken(state)
    /\ setter.pc = "write" => Spoken(setter.new)
    /\ \A s \in Sweeps : Progress(job[s])
-----------------------------------------------------------------------------
(* The bounds and the sets of numbers and rows.                            *)

LEMMA ConstantFacts ==
    /\ PageRows \in Nat /\ PageRows > 0 /\ MaxPages \in Nat /\ Lookback \in Nat
    /\ MaxRecords \in Nat /\ MaxFailures \in Nat /\ MaxFailures > 0
    /\ MaxDay \in Nat /\ MaxDay >= 2 /\ MaxEvents \in Nat /\ MaxMishaps \in Nat
    /\ IsFiniteSet(Contacts) /\ Unreadable \subseteq Contacts /\ Earlier \subseteq Contacts
BY TrackerAssumption

(* A set of numbers has a least one, by the well-foundedness of inclusion. *)
LEMMA Least ==
    ASSUME NEW T \in SUBSET Nat, T # {}
    PROVE  \E m \in T : \A k \in T : m <= k
<1> DEFINE Up == {1..d : d \in T}
<1>1. Up \subseteq FiniteSubsetsOf(Nat)
  <2>1. ASSUME NEW d \in T PROVE 1..d \in FiniteSubsetsOf(Nat)
    <3>1. IsFiniteSet(1..d)
      BY FS_Interval
    <3> QED
      BY <3>1 DEF FiniteSubsetsOf
  <2> QED
    BY <2>1
<1>2. PICK x \in Up : \A y \in Up : ~(<<y, x>> \in StrictSubsetOrdering(Nat))
  <2>1. IsWellFoundedOn(StrictSubsetOrdering(Nat), FiniteSubsetsOf(Nat))
    BY FS_StrictSubsetOrderingWellFounded
  <2>2. Up # {}
    OBVIOUS
  <2> HIDE DEF Up
  <2> QED
    BY <1>1, <2>1, <2>2, WFMin
<1>3. PICK m \in T : x = 1..m
  OBVIOUS
<1>4. ASSUME NEW k \in T, k < m PROVE FALSE
  <2>1. 1..k \in Up /\ 1..k \subseteq 1..m /\ 1..k # 1..m
    BY <1>4
  <2>2. 1..k \in SUBSET Nat /\ 1..m \in SUBSET Nat
    OBVIOUS
  <2>3. <<1..k, 1..m>> \in StrictSubsetOrdering(Nat)
    BY <2>1, <2>2 DEF StrictSubsetOrdering
  <2> QED
    BY <1>2, <1>3, <2>1, <2>3
<1> QED
  BY <1>4

LEMMA RowsFinite == IsFiniteSet(IndexRow) /\ IsFiniteSet(Record)
<1> DEFINE pairs == Contacts \X Days
           row   == [p \in pairs |-> [contact |-> p[1], day |-> p[2]]]
<1>1. IsFiniteSet(pairs)
  <2>1. IsFiniteSet(Days)
    BY ConstantFacts, FS_Interval DEF Days
  <2> QED
    BY <2>1, ConstantFacts, FS_Product
<1>2. row \in Surjection(pairs, IndexRow)
  <2>1. row \in [pairs -> IndexRow]
    BY DEF IndexRow
  <2>2. ASSUME NEW r \in IndexRow PROVE \E p \in pairs : row[p] = r
    <3>1. <<r.contact, r.day>> \in pairs /\ row[<<r.contact, r.day>>] = r
      BY DEF IndexRow
    <3> QED
      BY <3>1
  <2> QED
    BY <2>1, <2>2 DEF Surjection
<1>3. IsFiniteSet(IndexRow)
  BY <1>1, <1>2, FS_Surjection
<1>4. Record \subseteq IndexRow
  BY DEF Record, IndexRow
<1> QED
  BY <1>3, <1>4, FS_Subset

(* The oldest of some rows.                                                *)
LEMMA FloorType ==
    ASSUME NEW rows \in SUBSET IndexRow
    PROVE  /\ Floor(rows) \in 0..MaxDay
           /\ \A r \in rows : Floor(rows) <= r.day
<1> DEFINE ds == {r.day : r \in rows}
<1>1. ds \in SUBSET Days /\ Days \subseteq Nat
  BY DEF IndexRow, Days
<1>2. CASE rows = {}
  BY <1>2, ConstantFacts DEF Floor
<1>3. CASE rows # {}
  <2>1. ds # {} /\ ds \in SUBSET Nat
    BY <1>1, <1>3
  <2>2. \E d \in ds : \A r \in rows : d <= r.day
    <3>1. PICK d \in ds : \A k \in ds : d <= k
      <4> HIDE DEF ds
      <4> QED
        BY <2>1, Least
    <3> QED
      BY <3>1
  <2>3. Floor(rows) = CHOOSE d \in ds : \A r \in rows : d <= r.day
    BY <1>3 DEF Floor
  <2> HIDE DEF ds
  <2>4. Floor(rows) \in ds /\ \A r \in rows : Floor(rows) <= r.day
    BY <2>2, <2>3
  <2>5. Floor(rows) \in Days
    BY <1>1, <2>4
  <2> QED
    BY <2>4, <2>5, ConstantFacts DEF Days
<1> QED
  BY <1>2, <1>3
-----------------------------------------------------------------------------
(* Types.                                                                  *)

(* What a job holds is known from where it is.                             *)
LEMMA JobKinds ==
    ASSUME NEW j \in JobType
    PROVE  /\ j.pc = "idle" => j = Idle
           /\ j.pc \in {"start", "entered"} => j \in Started
           /\ j.pc \in {"list", "poll"} => j \in Entered
           /\ j.pc \in {"ask", "put"} => j \in Asking
           /\ j.pc = "putWrite" => j \in Putting
           /\ j.pc = "search" => j \in Searching
           /\ j.pc \in {"upsert", "mark"} => j \in Searched
           /\ j.pc = "store" => j \in Storing
           /\ j.pc = "marked" => j \in Marking
           /\ j.pc \in {"cursor", "patch"} => j \in Marked
           /\ j.pc = "patched" => j \in Patched
<1>1. /\ j = Idle => j.pc = "idle"
      /\ j \in Started => j.pc \in {"start", "entered"}
      /\ j \in Entered => j.pc \in {"list", "poll"}
      /\ j \in Asking => j.pc \in {"ask", "put"}
      /\ j \in Putting => j.pc = "putWrite"
      /\ j \in Searching => j.pc = "search"
      /\ j \in Searched => j.pc \in {"upsert", "mark"}
      /\ j \in Storing => j.pc = "store"
      /\ j \in Marking => j.pc = "marked"
      /\ j \in Marked => j.pc \in {"cursor", "patch"}
      /\ j \in Patched => j.pc = "patched"
  BY DEF Idle, Started, Entered, Asking, Putting, Searching, Searched, Storing, Marking,
         Marked, Patched
<1> QED
  BY <1>1 DEF JobType

LEMMA Kinds ==
    /\ Idle \in JobType /\ Started \subseteq JobType /\ Entered \subseteq JobType
    /\ Asking \subseteq JobType /\ Putting \subseteq JobType /\ Searching \subseteq JobType
    /\ Searched \subseteq JobType /\ Storing \subseteq JobType /\ Marking \subseteq JobType
    /\ Marked \subseteq JobType /\ Patched \subseteq JobType
BY DEF JobType

LEMMA TypeFacts ==
    ASSUME TypeOK
    PROVE  /\ today \in Days /\ index \in Seq(IndexRow)
           /\ state \in StateType /\ state.on \in SUBSET Trackers
           /\ state.cursor \in 0..MaxDay /\ state.from \in Cursors
           /\ orders \subseteq Record /\ lost \subseteq Record /\ table \in Table
           /\ \A o \in Opps : table[o] \in RowType
           /\ job \in [Sweeps -> JobType] /\ \A s \in Sweeps : job[s] \in JobType
BY DEF TypeOK, StateType, Table

(* A step of sweep s leaves the other one alone.                           *)
LEMMA GoesFacts ==
    ASSUME TypeOK, NEW s \in Sweeps, NEW next \in JobType, Goes(s, next)
    PROVE  /\ job' \in [Sweeps -> JobType]
           /\ job'[s] = next
           /\ \A q \in Sweeps \ {s} : job'[q] = job[q]
BY TypeFacts DEF Goes

LEMMA RowFacts ==
    /\ NoRow \in RowType
    /\ \A status \in Stages : Captured(status) \in RowType /\ Answered(NoRow, status) \in RowType
    /\ \A row \in RowType, status \in Stages : Answered(row, status) \in RowType
    /\ \A row \in RowType : ~row.settled => Failed(row) \in RowType
<1>1. ASSUME NEW row \in RowType, ~row.settled PROVE Failed(row) \in RowType
  <2>1. row.failures \in 0..MaxFailures /\ row.failures < MaxFailures
    BY <1>1 DEF RowType
  <2>2. /\ row.failures + 1 \in 0..MaxFailures
        /\ ~(row.failures + 1 >= MaxFailures) => row.failures + 1 < MaxFailures
    BY <2>1, ConstantFacts
  <2> DEFINE over == row.failures + 1 >= MaxFailures
  <2>3. over \in BOOLEAN
    BY <2>1, ConstantFacts
  <2>4. Failed(row) = [row EXCEPT !.failures = row.failures + 1, !.settled = over]
    BY DEF Failed
  <2>5. ~over => row.failures + 1 < MaxFailures
    BY <2>2
  <2> HIDE DEF over
  <2>6. Failed(row) = [status |-> row.status, settled |-> over, failures |-> row.failures + 1]
    BY <2>4 DEF RowType
  <2> QED
    BY <2>2, <2>3, <2>5, <2>6 DEF RowType
<1>2. 0 \in 0..MaxFailures /\ 0 < MaxFailures
  BY ConstantFacts
<1> QED
  BY <1>1, <1>2 DEF NoRow, Captured, Answered, RowType, Stages

LEMMA MarkType ==
    ASSUME NEW j \in Searched
    PROVE  CursorTo(j) \in 0..MaxDay
<1>1. Mapped(j.docs) \in SUBSET IndexRow
  BY DEF Searched, Mapped
<1>2. Floor(Mapped(j.docs)) \in 0..MaxDay /\ j.now \in 0..MaxDay
  BY <1>1, FloorType DEF Searched, Days
<1> QED
  BY <1>2, ConstantFacts DEF CursorTo

LEMMA MappedType ==
    ASSUME NEW docs \in SUBSET IndexRow
    PROVE  Mapped(docs) \subseteq Record /\ Mapped(docs) \subseteq docs
BY DEF Mapped, Record, IndexRow

LEMMA DayFacts ==
    ASSUME NEW d \in Days
    PROVE  /\ d \in Nat /\ d >= 1 /\ d <= MaxDay /\ d \in 0..MaxDay
           /\ d - Lookback \in Cursors
BY ConstantFacts DEF Days, Cursors

LEMMA BoundsType ==
    ASSUME TypeOK, UNCHANGED bounds \/ Mishap \/ (Event /\ UNCHANGED mishaps)
    PROVE  events' \in 0..MaxEvents /\ mishaps' \in 0..MaxMishaps
<1>1. events \in 0..MaxEvents /\ mishaps \in 0..MaxMishaps
  BY DEF TypeOK
<1> QED
  BY <1>1, ConstantFacts DEF bounds, Mishap, Event

LEMMA SweepType ==
    ASSUME TypeOK, NEW s \in Sweeps, NEW next \in JobType, Goes(s, next),
           UNCHANGED <<crm, flag, capture, setter>>,
           state' \in StateType, orders' \subseteq Record, table' \in Table,
           sweeping' \in BOOLEAN, lost' \subseteq Record,
           UNCHANGED bounds \/ Mishap
    PROVE  TypeOK'
<1>1. job' \in [Sweeps -> JobType]
  BY GoesFacts
<1>2. events' \in 0..MaxEvents /\ mishaps' \in 0..MaxMishaps
  BY BoundsType
<1> QED
  BY <1>1, <1>2 DEF TypeOK, crm

(* A step of a sweep that writes nothing but its own job and the guard.    *)
LEMMA ReadType ==
    ASSUME TypeOK, NEW s \in Sweeps, NEW next \in JobType, Goes(s, next),
           UNCHANGED <<sweepOnly, storage, lost>>,
           sweeping' \in BOOLEAN, UNCHANGED bounds \/ Mishap
    PROVE  TypeOK'
<1>1. UNCHANGED <<crm, flag, capture, setter, state, orders, table, lost>>
  BY DEF sweepOnly, storage
<1>2. state' \in StateType /\ orders' \subseteq Record /\ table' \in Table /\ lost' \subseteq Record
  BY <1>1 DEF TypeOK
<1> QED
  BY <1>1, <1>2, SweepType

LEMMA StartType ==
    ASSUME TypeOK, NEW s \in Sweeps, SweepStarts(s) \/ SweepEnters(s) \/ SweepCollects(s)
    PROVE  TypeOK'
<1>0. sweeping \in BOOLEAN /\ today \in Days
  BY DEF TypeOK
<1>1. CASE SweepStarts(s)
  <2>1. [pc |-> "start", now |-> today] \in JobType
    BY <1>0, Kinds DEF Started
  <2>2. UNCHANGED bounds \/ Mishap
    BY <1>1 DEF SweepStarts
  <2>3. /\ Goes(s, [pc |-> "start", now |-> today])
        /\ UNCHANGED <<sweepOnly, storage, lost>> /\ sweeping' = sweeping
    BY <1>1 DEF SweepStarts, sweepOnly
  <2> QED
    BY <1>0, <2>1, <2>2, <2>3, ReadType
<1>2. CASE SweepEnters(s)
  <2>1. job[s] \in Started
    BY <1>2, TypeFacts, JobKinds DEF SweepEnters
  <2>2. [pc |-> "entered", now |-> job[s].now] \in JobType
    BY <2>1, Kinds DEF Started
  <2>3. /\ UNCHANGED <<sweepOnly, storage, lost>> /\ UNCHANGED bounds
        /\ sweeping' \in BOOLEAN
        /\ Goes(s, [pc |-> "entered", now |-> job[s].now]) \/ Goes(s, Idle)
    BY <1>2, <1>0 DEF SweepEnters
  <2> QED
    BY <2>2, <2>3, Kinds, ReadType
<1>3. CASE SweepCollects(s)
  <2>1. job[s] \in Started
    BY <1>3, TypeFacts, JobKinds DEF SweepCollects
  <2>2. [pc |-> "list", now |-> job[s].now, on |-> state.on] \in JobType
    BY <2>1, TypeFacts, Kinds DEF Started, Entered
  <2>3. /\ UNCHANGED <<sweepOnly, storage, lost>> /\ UNCHANGED bounds
        /\ sweeping' \in BOOLEAN
        /\ Goes(s, [pc |-> "list", now |-> job[s].now, on |-> state.on])
    BY <1>3, <1>0 DEF SweepCollects
  <2> QED
    BY <2>2, <2>3, ReadType
<1> QED
  BY <1>1, <1>2, <1>3

LEMMA RefreshStep ==
    ASSUME TypeOK, NEW s \in Sweeps,
           (\E due \in SUBSET Opps : Lists(s, due)) \/ Asks(s) \/ PutReads(s) \/ PutWrites(s)
    PROVE  TypeOK'
<1>0. sweeping \in BOOLEAN /\ lost \subseteq Record /\ stage \in [Opps -> Stages]
  BY DEF TypeOK
<1>1. ASSUME NEW due \in SUBSET Opps, Lists(s, due) PROVE TypeOK'
  <2>1. job[s] \in Entered /\ \A o \in due : ~table[o].settled
    BY <1>1, TypeFacts, JobKinds DEF Lists
  <2>2. [job[s] EXCEPT !.pc = "poll"] \in JobType
    BY <2>1, Kinds DEF Entered
  <2>3. [pc |-> "ask", now |-> job[s].now, on |-> job[s].on, left |-> due,
         rows |-> [o \in due |-> table[o]]] \in JobType
    <3>1. [o \in due |-> table[o]] \in [due -> RowType]
      BY TypeFacts
    <3> QED
      BY <2>1, <3>1, Kinds DEF Entered, Asking
  <2>4. \E next \in JobType : Goes(s, next)
    BY <1>1, <2>2, <2>3 DEF Lists
  <2>5. UNCHANGED <<sweepOnly, storage, lost>> /\ sweeping' = sweeping /\ UNCHANGED bounds
    BY <1>1 DEF Lists
  <2> QED
    BY <1>0, <2>4, <2>5, ReadType
<1>2. CASE Asks(s)
  <2> DEFINE asked(o, row) == [job[s] EXCEPT !.left = @ \ {o}, !.rows[o] = row,
                                 !.pc = IF job[s].left = {o} THEN "put" ELSE "ask"]
  <2>1. job[s] \in Asking
    BY <1>2, TypeFacts, JobKinds DEF Asks
  <2>2. ASSUME NEW o \in job[s].left, NEW row \in RowType PROVE asked(o, row) \in JobType
    <3>1. PICK due \in SUBSET Opps : job[s].rows \in [due -> RowType]
      BY <2>1 DEF Asking
    <3>2. job[s].left \in SUBSET Opps /\ o \in due
      BY <2>1, <3>1 DEF Asking
    <3>3. [job[s].rows EXCEPT ![o] = row] \in [due -> RowType]
      BY <3>1
    <3> DEFINE at   == IF job[s].left = {o} THEN "put" ELSE "ask"
               rest == job[s].left \ {o}
               rows == [job[s].rows EXCEPT ![o] = row]
    <3>4. asked(o, row) = [pc |-> at, now |-> job[s].now, on |-> job[s].on, left |-> rest,
                           rows |-> rows]
      <4>1. asked(o, row) = [job[s] EXCEPT !.left = rest, !.rows = rows, !.pc = at]
        OBVIOUS
      <4>2. job[s] \in [pc : {"ask", "put"}, now : Days, on : SUBSET Trackers, left : SUBSET Opps,
                        rows : UNION {[d -> RowType] : d \in SUBSET Opps}]
        BY <2>1 DEF Asking
      <4> HIDE DEF asked, at, rest, rows
      <4> QED
        BY <4>1, <4>2
    <3>5. \A p \in job[s].left \ {o} : p \in due /\ ~[job[s].rows EXCEPT ![o] = row][p].settled
      BY <2>1, <3>1 DEF Asking
    <3> HIDE DEF asked
    <3> QED
      BY <2>1, <3>1, <3>2, <3>3, <3>4, <3>5, Kinds DEF Asking
  <2>3. PICK o \in job[s].left : /\ \/ Goes(s, asked(o, Answered(job[s].rows[o], stage[o])))
                                    \/ Goes(s, asked(o, Failed(job[s].rows[o])))
                                 /\ UNCHANGED bounds \/ Mishap
    BY <1>2 DEF Asks
  <2>4. job[s].rows[o] \in RowType /\ ~job[s].rows[o].settled /\ o \in Opps
    BY <2>1 DEF Asking
  <2>5. /\ Answered(job[s].rows[o], stage[o]) \in RowType
        /\ Failed(job[s].rows[o]) \in RowType
    BY <1>0, <2>4, RowFacts
  <2>6. \E next \in JobType : Goes(s, next)
    BY <2>2, <2>3, <2>5
  <2>7. UNCHANGED <<sweepOnly, storage, lost>> /\ sweeping' = sweeping
    BY <1>2 DEF Asks
  <2> QED
    BY <1>0, <2>3, <2>6, <2>7, ReadType
<1>3. CASE PutReads(s)
  <2> DEFINE new == [o \in Opps |-> IF o \in DOMAIN job[s].rows /\ table[o] # NoRow
                                    THEN job[s].rows[o] ELSE table[o]]
  <2>1. job[s] \in Asking
    BY <1>3, TypeFacts, JobKinds DEF PutReads
  <2>2. new \in Table
    <3>1. \A o \in DOMAIN job[s].rows : job[s].rows[o] \in RowType
      BY <2>1 DEF Asking
    <3> QED
      BY <3>1, TypeFacts DEF Table
  <2>3. Goes(s, [pc |-> "putWrite", now |-> job[s].now, on |-> job[s].on, new |-> new])
    BY <1>3 DEF PutReads
  <2> HIDE DEF new
  <2>4. [pc |-> "putWrite", now |-> job[s].now, on |-> job[s].on, new |-> new] \in JobType
    BY <2>1, <2>2, Kinds DEF Asking, Putting
  <2>5. UNCHANGED <<sweepOnly, storage, lost>> /\ sweeping' = sweeping /\ UNCHANGED bounds
    BY <1>3 DEF PutReads
  <2> QED
    BY <1>0, <2>3, <2>4, <2>5, ReadType
<1>4. CASE PutWrites(s)
  <2>1. job[s] \in Putting
    BY <1>4, TypeFacts, JobKinds DEF PutWrites
  <2>2. /\ [pc |-> "poll", now |-> job[s].now, on |-> job[s].on] \in JobType
        /\ job[s].new \in Table
    BY <2>1, Kinds DEF Putting, Entered
  <2>3. /\ Goes(s, [pc |-> "poll", now |-> job[s].now, on |-> job[s].on])
        /\ table' = job[s].new \/ table' = table
        /\ UNCHANGED <<crm, flag, capture, setter, state, orders, sweeping, lost>>
        /\ UNCHANGED bounds \/ Mishap
    BY <1>4 DEF PutWrites, Written, sweepOnly
  <2>4. /\ state' \in StateType /\ orders' \subseteq Record /\ table' \in Table
        /\ sweeping' \in BOOLEAN /\ lost' \subseteq Record
    BY <2>2, <2>3, <1>0, TypeFacts
  <2> QED
    BY <2>2, <2>3, <2>4, SweepType
<1> QED
  BY <1>1, <1>2, <1>3, <1>4
-----------------------------------------------------------------------------
(* The search: the window is a prefix of the index, a page a piece of it.  *)

LEMMA SinceFacts ==
    ASSUME NEW since \in 0..MaxDay, NEW now \in Days
    PROVE  SinceDay(since, now) \in Int
BY ConstantFacts DEF SinceDay, Days

LEMMA WindowShape ==
    ASSUME index \in Seq(IndexRow), NEW day \in Int
    PROVE  /\ Window(day) \in Seq(IndexRow)
           /\ Len(Window(day)) \in 0..Len(index)
           /\ Len(Window(day)) = Cardinality({i \in DOMAIN index : index[i].day >= day})
           /\ \A i \in 1..Len(Window(day)) : Window(day)[i] = index[i]
<1> DEFINE found == {i \in DOMAIN index : index[i].day >= day}
           c     == Cardinality(found)
<1>1. Len(index) \in Nat /\ DOMAIN index = 1..Len(index)
  BY LenProperties
<1>2. c \in 0..Len(index)
  <2>1. IsFiniteSet(1..Len(index)) /\ Cardinality(1..Len(index)) = Len(index)
    BY <1>1, FS_Interval
  <2>2. found \in SUBSET (1..Len(index))
    BY <1>1
  <2> HIDE DEF found
  <2>3. IsFiniteSet(found) /\ Cardinality(found) <= Len(index)
    BY <2>1, <2>2, FS_Subset
  <2> QED
    BY <1>1, <2>3, FS_CardinalityType
<1>3. Window(day) = SubSeq(index, 1, c)
  BY DEF Window
<1> HIDE DEF c
<1>4. \A i \in 1..c : index[i] \in IndexRow
  BY <1>1, <1>2, ElementOfSeq
<1>5. /\ SubSeq(index, 1, c) \in Seq(IndexRow)
      /\ Len(SubSeq(index, 1, c)) = IF 1 <= c THEN c - 1 + 1 ELSE 0
      /\ \A i \in 1..(c - 1 + 1) : SubSeq(index, 1, c)[i] = index[1 + i - 1]
  BY <1>1, <1>2, <1>4, SubSeqProperties
<1>6. Len(SubSeq(index, 1, c)) = c
  BY <1>1, <1>2, <1>5
<1>7. \A i \in 1..c : SubSeq(index, 1, c)[i] = index[i]
  BY <1>1, <1>2, <1>5
<1> QED
  BY <1>2, <1>3, <1>5, <1>6, <1>7 DEF c

LEMMA WindowEnds ==
    ASSUME TypeOK, Sorted, NEW day \in Int, NEW i \in DOMAIN index
    PROVE  i <= Len(Window(day)) <=> index[i].day >= day
<1> DEFINE found == {k \in DOMAIN index : index[k].day >= day}
           c     == Cardinality(found)
<1>1. index \in Seq(IndexRow)
  BY TypeFacts
<1>2. Len(index) \in Nat /\ DOMAIN index = 1..Len(index) /\ i \in 1..Len(index)
  BY <1>1, LenProperties
<1>3. Len(Window(day)) = c
  BY <1>1, WindowShape
<1>4. \A k \in DOMAIN index : index[k].day \in Int
  <2>1. \A k \in DOMAIN index : index[k] \in IndexRow
    BY <1>1, <1>2, ElementOfSeq
  <2> QED
    BY <2>1 DEF IndexRow, Days
<1>5. IsFiniteSet(found)
  <2>1. IsFiniteSet(1..Len(index)) /\ found \in SUBSET (1..Len(index))
    BY <1>2, FS_Interval
  <2> HIDE DEF found
  <2> QED
    BY <2>1, FS_Subset
<1>6. CASE index[i].day >= day
  <2>1. 1..i \in SUBSET found
    <3>1. ASSUME NEW k \in 1..i PROVE k \in found
      <4>1. k \in DOMAIN index /\ (k = i \/ k < i)
        BY <1>2
      <4>2. k < i => index[i].day <= index[k].day
        BY <4>1 DEF Sorted
      <4> QED
        BY <1>4, <1>6, <4>1, <4>2
    <3> QED
      BY <3>1
  <2> HIDE DEF found
  <2>2. Cardinality(1..i) <= c /\ c \in Nat
    BY <1>5, <2>1, FS_Subset, FS_CardinalityType
  <2>3. Cardinality(1..i) = i
    BY <1>2, FS_Interval
  <2> QED
    BY <1>3, <1>6, <2>2, <2>3
<1>7. CASE ~(index[i].day >= day)
  <2>1. found \in SUBSET (1..(i - 1))
    <3>1. ASSUME NEW k \in found PROVE k \in 1..(i - 1)
      <4>1. k \in DOMAIN index /\ index[k].day >= day /\ k \in 1..Len(index)
        BY <1>2, <3>1
      <4>2. k # i /\ (i < k => index[k].day <= index[i].day)
        BY <1>7, <4>1 DEF Sorted
      <4>3. ~(i < k)
        BY <1>4, <1>7, <4>1, <4>2
      <4> QED
        BY <1>2, <4>1, <4>2, <4>3
    <3> QED
      BY <3>1
  <2> HIDE DEF found
  <2>2. IsFiniteSet(1..(i - 1)) /\ Cardinality(1..(i - 1)) = i - 1
    <3>1. PICK k \in Nat : k = i - 1
      BY <1>2
    <3>2. IsFiniteSet(1..k) /\ Cardinality(1..k) = k
      BY FS_Interval
    <3> QED
      BY <3>1, <3>2
  <2>3. c <= i - 1 /\ c \in Nat
    BY <1>5, <2>1, <2>2, FS_Subset, FS_CardinalityType
  <2> HIDE DEF c
  <2> QED
    BY <1>2, <1>3, <1>7, <2>3
<1> QED
  BY <1>6, <1>7

(* What a page adds to the documents of the search.                        *)
Page(docs, window) ==
    SubSeq(window, Len(docs) + 1,
           IF Len(docs) + PageRows < Len(window) THEN Len(docs) + PageRows ELSE Len(window))

LEMMA PageShape ==
    ASSUME NEW docs \in Seq(IndexRow), NEW window \in Seq(IndexRow)
    PROVE  /\ docs \o Page(docs, window) \in Seq(IndexRow)
           /\ Len(docs \o Page(docs, window)) >= Len(docs)
           /\ \A i \in 1..Len(docs \o Page(docs, window)) :
                  (docs \o Page(docs, window))[i] =
                      IF i <= Len(docs) THEN docs[i] ELSE window[i]
           /\ Page(docs, window) = <<>> => Len(docs) >= Len(window)
<1> DEFINE n    == Len(docs)
           L    == Len(window)
           m    == IF n + PageRows < L THEN n + PageRows ELSE L
           page == SubSeq(window, n + 1, m)
<1>1. n \in Nat /\ L \in Nat
  BY LenProperties
<1>2. m \in Nat /\ m <= L /\ (n < L => n < m)
  BY <1>1, ConstantFacts
<1>3. Page(docs, window) = page
  BY DEF Page
<1> HIDE DEF m
<1>4. \A i \in (n + 1)..m : window[i] \in IndexRow
  BY <1>1, <1>2, ElementOfSeq
<1>5. /\ page \in Seq(IndexRow)
      /\ Len(page) = IF n + 1 <= m THEN m - (n + 1) + 1 ELSE 0
      /\ \A i \in 1..(m - (n + 1) + 1) : page[i] = window[n + 1 + i - 1]
  BY <1>1, <1>2, <1>4, SubSeqProperties
<1>6. Len(page) = IF n < m THEN m - n ELSE 0
  BY <1>1, <1>2, <1>5
<1>7. \A i \in 1..Len(page) : page[i] = window[n + i]
  BY <1>1, <1>2, <1>5, <1>6
<1> HIDE DEF page, n
<1>8. /\ docs \o page \in Seq(IndexRow)
      /\ Len(docs \o page) = n + Len(page)
      /\ \A i \in 1..(n + Len(page)) :
             (docs \o page)[i] = IF i <= n THEN docs[i] ELSE page[i - n]
  BY <1>5, ConcatProperties DEF n
<1>9. Len(page) \in Nat
  BY <1>1, <1>2, <1>6
<1>10. ASSUME NEW i \in 1..Len(docs \o page)
       PROVE  (docs \o page)[i] = IF i <= n THEN docs[i] ELSE window[i]
  <2>1. i \in 1..(n + Len(page))
    BY <1>8
  <2>2. CASE i <= n
    BY <1>8, <2>1, <2>2
  <2>3. CASE ~(i <= n)
    <3>1. i - n \in 1..Len(page) /\ n + (i - n) = i
      BY <1>1, <1>9, <2>1, <2>3
    <3>2. page[i - n] = window[i]
      BY <1>7, <3>1
    <3> QED
      BY <1>8, <2>1, <2>3, <3>2
  <2> QED
    BY <2>2, <2>3
<1>11. page = <<>> => n >= L
  <2>1. page = <<>> => Len(page) = 0
    BY EmptySeq
  <2> QED
    BY <1>1, <1>2, <1>6, <2>1
<1>12. Len(docs \o page) >= n
  BY <1>1, <1>8, <1>9
<1> QED
  BY <1>3, <1>8, <1>10, <1>11, <1>12 DEF n

LEMMA SearchType ==
    ASSUME TypeOK, NEW s \in Sweeps,
           PollDue(s) \/ PollNotDue(s) \/ SearchPage(s) \/ SearchFails(s)
    PROVE  TypeOK'
<1>0. /\ sweeping \in BOOLEAN /\ state.cursor \in 0..MaxDay /\ state.from \in Cursors
      /\ index \in Seq(IndexRow)
  BY TypeFacts DEF TypeOK
<1>1. CASE PollDue(s)
  <2> DEFINE from == IF state.cursor = 0 THEN job[s].now - Lookback ELSE state.from
  <2>1. job[s].now \in Days
    BY <1>1, TypeFacts, JobKinds DEF PollDue, Entered
  <2>2. from \in Cursors /\ <<>> \in Seq(IndexRow)
    BY <1>0, <2>1, DayFacts, EmptySeq
  <2>3. Goes(s, [pc |-> "search", now |-> job[s].now, since |-> state.cursor, docs |-> <<>>,
                 from |-> from])
    BY <1>1 DEF PollDue
  <2> HIDE DEF from
  <2>4. [pc |-> "search", now |-> job[s].now, since |-> state.cursor, docs |-> <<>>,
         from |-> from] \in JobType
    BY <1>0, <2>1, <2>2, Kinds DEF Searching
  <2>5. UNCHANGED <<sweepOnly, storage, lost>> /\ sweeping' = sweeping /\ UNCHANGED bounds
    BY <1>1 DEF PollDue
  <2> QED
    BY <1>0, <2>3, <2>4, <2>5, ReadType
<1>2. CASE PollNotDue(s) \/ SearchFails(s)
  <2>1. /\ Goes(s, Idle) /\ sweeping' = FALSE /\ UNCHANGED <<sweepOnly, storage, lost>>
        /\ UNCHANGED bounds \/ Mishap
    BY <1>2 DEF PollNotDue, SearchFails, Ends
  <2> QED
    BY <2>1, Kinds, ReadType
<1>3. CASE SearchPage(s)
  <2> DEFINE window == Window(SinceDay(job[s].since, job[s].now))
             docs   == job[s].docs \o Page(job[s].docs, window)
             complete == Len(docs) >= Len(window)
             found  == {docs[i] : i \in DOMAIN docs}
  <2>1. job[s] \in Searching
    BY <1>3, TypeFacts, JobKinds DEF SearchPage
  <2>2. window \in Seq(IndexRow)
    BY <1>0, <2>1, SinceFacts, WindowShape DEF Searching
  <2>3. docs \in Seq(IndexRow)
    BY <2>1, <2>2, PageShape DEF Searching
  <2>4. found \in SUBSET IndexRow
    <3> HIDE DEF docs
    <3>1. \A i \in DOMAIN docs : docs[i] \in IndexRow
      BY <2>3, LenProperties, ElementOfSeq
    <3> QED
      BY <3>1
  <2>5. \/ Goes(s, [pc |-> "upsert", now |-> job[s].now, since |-> job[s].since, from |-> job[s].from,
                    docs |-> found, complete |-> complete])
        \/ Goes(s, [job[s] EXCEPT !.docs = docs])
    BY <1>3 DEF SearchPage, Page
  <2>6. complete \in BOOLEAN
    BY <2>2, <2>3, LenProperties
  <2> HIDE DEF found, docs, complete
  <2>7. [pc |-> "upsert", now |-> job[s].now, since |-> job[s].since, from |-> job[s].from,
         docs |-> found, complete |-> complete] \in JobType
    BY <2>1, <2>4, <2>6, Kinds DEF Searching, Searched
  <2>8. [job[s] EXCEPT !.docs = docs] \in JobType
    BY <2>1, <2>3, Kinds DEF Searching
  <2>9. UNCHANGED <<sweepOnly, storage, lost>> /\ sweeping' = sweeping /\ UNCHANGED bounds
    BY <1>3 DEF SearchPage
  <2> QED
    BY <1>0, <2>5, <2>7, <2>8, <2>9, ReadType
<1> QED
  BY <1>1, <1>2, <1>3

LEMMA UpsertType ==
    ASSUME TypeOK, NEW s \in Sweeps, UpsertReads(s) \/ UpsertWrites(s) \/ UpsertRefused(s)
    PROVE  TypeOK'
<1>0. sweeping \in BOOLEAN /\ lost \subseteq Record /\ orders \subseteq Record
  BY DEF TypeOK
<1>1. CASE UpsertReads(s)
  <2> DEFINE new == orders \cup Mapped(job[s].docs)
  <2>1. job[s] \in Searched /\ job[s].docs \in SUBSET IndexRow
    BY <1>1, TypeFacts, JobKinds DEF UpsertReads, Searched
  <2>2. new \in SUBSET Record
    BY <1>0, <2>1, MappedType
  <2>3. \/ Goes(s, [job[s] EXCEPT !.pc = "mark"])
        \/ Goes(s, [pc |-> "store", now |-> job[s].now, since |-> job[s].since, from |-> job[s].from,
                    docs |-> job[s].docs, complete |-> job[s].complete, new |-> new])
    BY <1>1 DEF UpsertReads
  <2> HIDE DEF new
  <2>4. [job[s] EXCEPT !.pc = "mark"] \in JobType
    BY <2>1, Kinds DEF Searched
  <2>5. [pc |-> "store", now |-> job[s].now, since |-> job[s].since, from |-> job[s].from,
         docs |-> job[s].docs, complete |-> job[s].complete, new |-> new] \in JobType
    BY <2>1, <2>2, Kinds DEF Searched, Storing
  <2>6. UNCHANGED <<sweepOnly, storage, lost>> /\ sweeping' = sweeping /\ UNCHANGED bounds
    BY <1>1 DEF UpsertReads
  <2> QED
    BY <1>0, <2>3, <2>4, <2>5, <2>6, ReadType
<1>2. CASE UpsertWrites(s)
  <2>1. job[s] \in Storing
    BY <1>2, TypeFacts, JobKinds DEF UpsertWrites
  <2>2. orders' \subseteq Record
    <3>1. orders' \in Retained(job[s].new) /\ job[s].new \subseteq Record
      BY <1>2, <2>1 DEF UpsertWrites, Storing
    <3> QED
      BY <3>1 DEF Retained
  <2>3. [pc |-> "mark", now |-> job[s].now, since |-> job[s].since, from |-> job[s].from,
         docs |-> job[s].docs, complete |-> job[s].complete] \in JobType
    BY <2>1, Kinds DEF Storing, Searched
  <2>4. lost' \subseteq Record
    BY <1>0, <1>2 DEF UpsertWrites
  <2>5. /\ Goes(s, [pc |-> "mark", now |-> job[s].now, since |-> job[s].since, from |-> job[s].from,
                    docs |-> job[s].docs, complete |-> job[s].complete])
        /\ UNCHANGED <<crm, flag, capture, setter, state, table, sweeping>> /\ UNCHANGED bounds
    BY <1>2 DEF UpsertWrites, Upserted, sweepOnly
  <2>6. state' \in StateType /\ table' \in Table /\ sweeping' \in BOOLEAN
    BY <1>0, <2>5, TypeFacts
  <2> QED
    BY <2>2, <2>3, <2>4, <2>5, <2>6, SweepType
<1>3. CASE UpsertRefused(s)
  <2>1. job[s] \in Storing /\ job[s].docs \in SUBSET IndexRow
    BY <1>3, TypeFacts, JobKinds DEF UpsertRefused, Storing
  <2>2. [pc |-> "mark", now |-> job[s].now, since |-> job[s].since, from |-> job[s].from,
         docs |-> job[s].docs, complete |-> job[s].complete] \in JobType
    BY <2>1, Kinds DEF Storing, Searched
  <2>3. lost' \subseteq Record
    BY <1>0, <1>3, <2>1, MappedType DEF UpsertRefused
  <2>4. /\ Goes(s, [pc |-> "mark", now |-> job[s].now, since |-> job[s].since, from |-> job[s].from,
                    docs |-> job[s].docs, complete |-> job[s].complete])
        /\ UNCHANGED <<crm, flag, capture, setter, state, orders, table, sweeping>> /\ Mishap
    BY <1>3 DEF UpsertRefused, Upserted, sweepOnly, storage
  <2>5. /\ state' \in StateType /\ orders' \subseteq Record /\ table' \in Table
        /\ sweeping' \in BOOLEAN
    BY <1>0, <2>4, TypeFacts
  <2> QED
    BY <2>2, <2>3, <2>4, <2>5, SweepType
<1> QED
  BY <1>1, <1>2, <1>3

LEMMA CursorType ==
    ASSUME TypeOK, NEW s \in Sweeps,
           \/ MarkReads(s) \/ MarkWrites(s)
           \/ CursorReads(s) \/ CursorPatches(s) \/ CursorWrites(s)
    PROVE  TypeOK'
<1>0. sweeping \in BOOLEAN /\ lost \subseteq Record /\ state \in StateType
  BY DEF TypeOK
<1>1. CASE MarkReads(s)
  <2> DEFINE to   == CursorTo(job[s])
             from == IF job[s].complete THEN job[s].from ELSE to
  <2>1. job[s] \in Searched
    BY <1>1, TypeFacts, JobKinds DEF MarkReads
  <2>2. to \in 0..MaxDay
    BY <2>1, MarkType
  <2> HIDE DEF to
  <2>3. from \in Cursors
    BY <2>1, <2>2, ConstantFacts DEF Searched, Cursors
  <2>4. Goes(s, [pc |-> "marked", to |-> to, new |-> state, from |-> from])
    BY <1>1 DEF MarkReads, to
  <2> HIDE DEF from
  <2>5. [pc |-> "marked", to |-> to, new |-> state, from |-> from] \in JobType
    BY <1>0, <2>2, <2>3, Kinds DEF Marking
  <2>6. UNCHANGED <<sweepOnly, storage, lost>> /\ sweeping' = sweeping /\ UNCHANGED bounds
    BY <1>1 DEF MarkReads
  <2> QED
    BY <1>0, <2>4, <2>5, <2>6, ReadType
<1>2. CASE MarkWrites(s)
  <2>1. job[s] \in Marking
    BY <1>2, TypeFacts, JobKinds DEF MarkWrites
  <2>2. [pc |-> "cursor", to |-> job[s].to, from |-> job[s].from] \in JobType
    BY <2>1, Kinds DEF Marking, Marked
  <2>3. /\ Goes(s, [pc |-> "cursor", to |-> job[s].to, from |-> job[s].from])
        /\ UNCHANGED <<crm, flag, capture, setter, orders, table, sweeping, lost>>
        /\ UNCHANGED bounds \/ Mishap
        /\ state' = job[s].new \/ state' = state
    BY <1>2 DEF MarkWrites, Written, sweepOnly
  <2>4. /\ state' \in StateType /\ orders' \subseteq Record /\ table' \in Table
        /\ sweeping' \in BOOLEAN /\ lost' \subseteq Record
    BY <1>0, <2>1, <2>3, TypeFacts DEF Marking
  <2> QED
    BY <2>2, <2>3, <2>4, SweepType
<1>3. CASE CursorReads(s)
  <2>1. job[s] \in Marked
    BY <1>3, TypeFacts, JobKinds DEF CursorReads
  <2>2. [job[s] EXCEPT !.pc = "patch"] \in JobType
    BY <2>1, Kinds DEF Marked
  <2>3. /\ Goes(s, Idle) \/ Goes(s, [job[s] EXCEPT !.pc = "patch"])
        /\ sweeping' \in BOOLEAN
        /\ UNCHANGED <<sweepOnly, storage, lost>> /\ UNCHANGED bounds
    BY <1>0, <1>3 DEF CursorReads, Ends
  <2> QED
    BY <2>2, <2>3, Kinds, ReadType
<1>4. CASE CursorPatches(s)
  <2> DEFINE new == [state EXCEPT !.cursor = job[s].to, !.from = job[s].from]
  <2>1. job[s] \in Marked
    BY <1>4, TypeFacts, JobKinds DEF CursorPatches
  <2>2. new \in StateType
    BY <1>0, <2>1 DEF StateType, Marked
  <2>3. /\ Goes(s, [pc |-> "patched", new |-> new])
        /\ sweeping' \in BOOLEAN
        /\ UNCHANGED <<sweepOnly, storage, lost>> /\ UNCHANGED bounds
    BY <1>0, <1>4 DEF CursorPatches
  <2> HIDE DEF new
  <2>4. [pc |-> "patched", new |-> new] \in JobType
    BY <2>2, Kinds DEF Patched
  <2> QED
    BY <2>3, <2>4, ReadType
<1>5. CASE CursorWrites(s)
  <2>1. job[s] \in Patched
    BY <1>5, TypeFacts, JobKinds DEF CursorWrites
  <2>2. /\ Goes(s, Idle) /\ sweeping' = FALSE
        /\ state' = job[s].new \/ state' = state
        /\ UNCHANGED <<crm, flag, capture, setter, orders, table, lost>>
        /\ UNCHANGED bounds \/ Mishap
    BY <1>5 DEF CursorWrites, Written, Ends, sweepOnly
  <2>3. /\ state' \in StateType /\ orders' \subseteq Record /\ table' \in Table
        /\ sweeping' \in BOOLEAN /\ lost' \subseteq Record
    BY <1>0, <2>1, <2>2, TypeFacts DEF Patched
  <2> QED
    BY <2>2, <2>3, Kinds, SweepType
<1> QED
  BY <1>1, <1>2, <1>3, <1>4, <1>5

(* The index after an order: the new row first, then the other ones in     *)
(* their order.                                                            *)
LEMMA Shifted ==
    ASSUME NEW old \in Seq(IndexRow), NEW row \in IndexRow
    PROVE  /\ Cons(row, old) \in Seq(IndexRow)
           /\ Len(Cons(row, old)) = Len(old) + 1 /\ Len(old) \in Nat
           /\ Cons(row, old)[1] = row
           /\ \A k \in 2..(Len(old) + 1) : Cons(row, old)[k] = old[k - 1]
<1>1. <<row>> \in Seq(IndexRow) /\ Len(<<row>>) = 1 /\ <<row>>[1] = row
  OBVIOUS
<1>2. Len(old) \in Nat
  BY LenProperties
<1>3. /\ <<row>> \o old \in Seq(IndexRow)
      /\ Len(<<row>> \o old) = 1 + Len(old)
      /\ \A i \in 1..(1 + Len(old)) : (<<row>> \o old)[i] =
             IF i <= 1 THEN <<row>>[i] ELSE old[i - 1]
  BY <1>1, ConcatProperties
<1>4. \A k \in 2..(Len(old) + 1) : k \in 1..(1 + Len(old)) /\ ~(k <= 1)
  BY <1>2
<1> QED
  BY <1>1, <1>2, <1>3, <1>4 DEF Cons

LEMMA Removed ==
    ASSUME NEW old \in Seq(IndexRow), NEW i \in 1..Len(old)
    PROVE  /\ RemoveAt(old, i) \in Seq(IndexRow)
           /\ Len(RemoveAt(old, i)) = Len(old) - 1
           /\ \A k \in 1..(Len(old) - 1) :
                  RemoveAt(old, i)[k] = IF k < i THEN old[k] ELSE old[k + 1]
<1> DEFINE L == Len(old)
           front == SubSeq(old, 1, i - 1)
           back  == SubSeq(old, i + 1, L)
<1>1. L \in Nat /\ \A k \in 1..L : old[k] \in IndexRow
  BY LenProperties, ElementOfSeq
<1>2. PICK f \in Nat : f = i - 1
  BY <1>1
<1>3. /\ front \in Seq(IndexRow) /\ Len(front) = f
      /\ \A k \in 1..f : front[k] = old[k]
  <2>1. \A k \in 1..f : old[k] \in IndexRow
    BY <1>1, <1>2
  <2>2. /\ SubSeq(old, 1, f) \in Seq(IndexRow)
        /\ Len(SubSeq(old, 1, f)) = IF 1 <= f THEN f - 1 + 1 ELSE 0
        /\ \A k \in 1..(f - 1 + 1) : SubSeq(old, 1, f)[k] = old[1 + k - 1]
    BY <2>1, SubSeqProperties
  <2> QED
    BY <1>2, <2>2
<1>4. PICK b \in Nat : b = i + 1
  BY <1>1
<1>5. /\ back \in Seq(IndexRow) /\ Len(back) = L - i
      /\ \A k \in 1..(L - i) : back[k] = old[i + k]
  <2>1. \A k \in b..L : old[k] \in IndexRow
    BY <1>1, <1>4
  <2>2. /\ SubSeq(old, b, L) \in Seq(IndexRow)
        /\ Len(SubSeq(old, b, L)) = IF b <= L THEN L - b + 1 ELSE 0
        /\ \A k \in 1..(L - b + 1) : SubSeq(old, b, L)[k] = old[b + k - 1]
    BY <1>1, <2>1, SubSeqProperties
  <2> QED
    BY <1>1, <1>4, <2>2
<1> HIDE DEF front, back
<1>6. /\ front \o back \in Seq(IndexRow)
      /\ Len(front \o back) = Len(front) + Len(back)
      /\ \A k \in 1..(Len(front) + Len(back)) : (front \o back)[k] =
             IF k <= Len(front) THEN front[k] ELSE back[k - Len(front)]
  BY <1>3, <1>5, ConcatProperties
<1>7. RemoveAt(old, i) = front \o back
  BY DEF RemoveAt, front, back
<1>8. Len(front \o back) = L - 1
  BY <1>1, <1>2, <1>3, <1>5, <1>6
<1>9. ASSUME NEW k \in 1..(L - 1)
      PROVE  (front \o back)[k] = IF k < i THEN old[k] ELSE old[k + 1]
  <2>1. k \in 1..(Len(front) + Len(back)) /\ (k <= f <=> k < i)
    BY <1>1, <1>2, <1>3, <1>5
  <2>2. CASE k < i
    BY <1>2, <1>3, <1>6, <2>1, <2>2
  <2>3. CASE ~(k < i)
    <3>1. k - f \in 1..(L - i) /\ i + (k - f) = k + 1
      BY <1>1, <1>2, <2>3
    <3>2. (front \o back)[k] = back[k - f] /\ back[k - f] = old[i + (k - f)]
      BY <1>3, <1>5, <1>6, <2>1, <2>3, <3>1
    <3> QED
      BY <2>3, <3>1, <3>2
  <2> QED
    BY <2>2, <2>3
<1> QED
  BY <1>6, <1>7, <1>8, <1>9

LEMMA OrderShape ==
    ASSUME TypeOK, NEW c \in Contacts, Order(c)
    PROVE  /\ index' \in Seq(IndexRow)
           /\ 1 \in DOMAIN index' /\ index'[1] = [contact |-> c, day |-> today]
<1> DEFINE row == [contact |-> c, day |-> today]
<1>1. row \in IndexRow /\ index \in Seq(IndexRow)
  BY TypeFacts DEF IndexRow
<1>2. \E old \in Seq(IndexRow) : index' = Cons(row, old)
  <2>1. CASE index' = Cons(row, index)
    BY <1>1, <2>1
  <2>2. ASSUME NEW i \in DOMAIN index, index' = Cons(row, RemoveAt(index, i))
        PROVE  \E old \in Seq(IndexRow) : index' = Cons(row, old)
    <3>1. i \in 1..Len(index)
      BY <1>1, <2>2, LenProperties
    <3>2. RemoveAt(index, i) \in Seq(IndexRow)
      BY <1>1, <3>1, Removed
    <3> QED
      BY <2>2, <3>2
  <2> QED
    BY <2>1, <2>2 DEF Order
<1>3. PICK old \in Seq(IndexRow) : index' = Cons(row, old)
  BY <1>2
<1> HIDE DEF row
<1>4. /\ index' \in Seq(IndexRow) /\ Len(index') = Len(old) + 1 /\ Len(old) \in Nat
      /\ index'[1] = row
  BY <1>1, <1>3, Shifted
<1>5. DOMAIN index' = 1..Len(index') /\ 1 \in 1..Len(index')
  BY <1>4, LenProperties
<1> QED
  BY <1>4, <1>5 DEF row

(* Where the row that is at place k after an order was before.             *)
LEMMA OrderMoves ==
    ASSUME TypeOK, Sorted, NEW c \in Contacts, Order(c)
    PROVE  \E was \in [2..Len(index') -> DOMAIN index] :
               \A k \in 2..Len(index') :
                   /\ was[k] <= k
                   /\ index'[k] = index[was[k]] /\ index[was[k]].contact # c
                   /\ \A m \in 2..Len(index') : k < m => was[k] < was[m]
<1> DEFINE row == [contact |-> c, day |-> today]
           L   == Len(index)
<1>1. row \in IndexRow /\ index \in Seq(IndexRow)
  BY TypeFacts DEF IndexRow
<1>2. L \in Nat /\ DOMAIN index = 1..L
  BY <1>1, LenProperties
<1> HIDE DEF row
<1>3. CASE index' = Cons(row, index) /\ \A i \in DOMAIN index : index[i].contact # c
  <2> DEFINE was == [k \in 2..Len(index') |-> k - 1]
  <2>1. Len(index') = L + 1 /\ \A k \in 2..(L + 1) : index'[k] = index[k - 1]
    BY <1>1, <1>3, Shifted
  <2>2. \A k \in 2..(L + 1) : was[k] = k - 1 /\ was[k] \in 1..L
    BY <1>2, <2>1
  <2>3. was \in [2..Len(index') -> DOMAIN index]
    BY <1>2, <2>1
  <2> HIDE DEF was
  <2>4. ASSUME NEW k \in 2..Len(index')
        PROVE  /\ was[k] <= k
               /\ index'[k] = index[was[k]] /\ index[was[k]].contact # c
               /\ \A m \in 2..Len(index') : k < m => was[k] < was[m]
    BY <1>2, <1>3, <2>1, <2>2
  <2> QED
    BY <2>3, <2>4
<1>4. ASSUME NEW i \in DOMAIN index, index[i].contact = c, index' = Cons(row, RemoveAt(index, i))
      PROVE  \E was \in [2..Len(index') -> DOMAIN index] :
               \A k \in 2..Len(index') :
                   /\ was[k] <= k
                   /\ index'[k] = index[was[k]] /\ index[was[k]].contact # c
                   /\ \A m \in 2..Len(index') : k < m => was[k] < was[m]
  <2> DEFINE was == [k \in 2..Len(index') |-> IF k - 1 < i THEN k - 1 ELSE k]
             old == RemoveAt(index, i)
  <2>1. i \in 1..L
    BY <1>2
  <2>2. /\ old \in Seq(IndexRow) /\ Len(old) = L - 1
        /\ \A k \in 1..(L - 1) : old[k] = IF k < i THEN index[k] ELSE index[k + 1]
    BY <1>1, <2>1, Removed
  <2> HIDE DEF old
  <2>3. Len(index') = Len(old) + 1 /\ \A k \in 2..(Len(old) + 1) : index'[k] = old[k - 1]
    BY <1>1, <1>4, <2>2, Shifted DEF old
  <2>4. Len(index') = L
    BY <1>2, <2>1, <2>2, <2>3
  <2>5. \A k \in 2..L : was[k] = IF k - 1 < i THEN k - 1 ELSE k
    BY <2>4
  <2>6. was \in [2..Len(index') -> DOMAIN index]
    BY <1>2, <2>4
  <2> HIDE DEF was
  <2>7. ASSUME NEW k \in 2..L PROVE index'[k] = index[was[k]] /\ was[k] # i /\ was[k] \in 1..L
    <3>1. k \in 2..(Len(old) + 1) /\ k - 1 \in 1..(L - 1) /\ (k - 1) + 1 = k
      BY <1>2, <2>1, <2>2
    <3>2. index'[k] = old[k - 1]
      BY <2>3, <3>1
    <3>3. old[k - 1] = IF k - 1 < i THEN index[k - 1] ELSE index[k]
      BY <2>2, <3>1
    <3>4. was[k] # i /\ was[k] \in 1..L
      BY <1>2, <2>1, <2>5
    <3> QED
      BY <2>5, <3>2, <3>3, <3>4
  <2>8. ASSUME NEW k \in 2..L PROVE index[was[k]].contact # c
    <3>1. was[k] \in DOMAIN index /\ (was[k] < i \/ i < was[k])
      BY <1>2, <2>1, <2>7
    <3> QED
      BY <1>4, <3>1 DEF Sorted
  <2>9. ASSUME NEW k \in 2..L, NEW m \in 2..L PROVE was[k] <= k /\ (k < m => was[k] < was[m])
    BY <1>2, <2>1, <2>5
  <2> QED
    BY <2>4, <2>6, <2>7, <2>8, <2>9
<1>5. \/ index' = Cons(row, index) /\ \A i \in DOMAIN index : index[i].contact # c
      \/ \E i \in DOMAIN index : index[i].contact = c /\ index' = Cons(row, RemoveAt(index, i))
  BY DEF Order, row
<1> QED
  BY <1>3, <1>4, <1>5

CaptureType ==
    {Idle} \cup [pc : {"read"}, opp : Opps, status : Stages \ {"none"}]
           \cup [pc : {"write"}, new : Table]

SetterType == {Idle} \cup [pc : {"write"}, new : StateType]

LEMMA CRMType ==
    ASSUME TypeOK,
           \/ \E c \in Contacts : Order(c)
           \/ Midnight
           \/ \E t \in Tabs, o \in Opps : Save(t, o)
           \/ \E o \in Opps : Close(o)
    PROVE  TypeOK'
<1>1. ASSUME NEW c \in Contacts, Order(c) PROVE TypeOK'
  <2>1. index' \in Seq(IndexRow)
    BY <1>1, OrderShape
  <2>2. events' \in 0..MaxEvents /\ mishaps' \in 0..MaxMishaps
    BY <1>1, BoundsType DEF Order
  <2>3. UNCHANGED <<today, stage, storage, worker, lost>>
    BY <1>1 DEF Order
  <2> QED
    BY <2>1, <2>2, <2>3 DEF TypeOK, storage, worker
<1>2. CASE Midnight
  <2>1. today' \in Days
    BY <1>2, ConstantFacts DEF Midnight, TypeOK, Days
  <2>2. UNCHANGED <<index, stage, storage, worker, lost, bounds>>
    BY <1>2 DEF Midnight
  <2> QED
    BY <2>1, <2>2 DEF TypeOK, storage, worker, bounds
<1>3. ASSUME NEW t \in Tabs, NEW o \in Opps, Save(t, o) PROVE TypeOK'
  <2>1. PICK new \in {"open", "closed"} :
            /\ stage' = [stage EXCEPT ![o] = new]
            /\ capture' = [capture EXCEPT ![t] = [pc |-> "read", opp |-> o, status |-> new]]
    BY <1>3 DEF Save
  <2>2. stage' \in [Opps -> Stages]
    BY <2>1 DEF TypeOK, Stages
  <2>3. capture' \in [Tabs -> CaptureType]
    <3>1. [pc |-> "read", opp |-> o, status |-> new] \in CaptureType
      BY <2>1 DEF CaptureType, Stages
    <3>2. capture \in [Tabs -> CaptureType]
      BY DEF TypeOK, CaptureType
    <3> QED
      BY <2>1, <3>1, <3>2
  <2>4. events' \in 0..MaxEvents /\ mishaps' \in 0..MaxMishaps
    BY <1>3, BoundsType DEF Save
  <2>5. UNCHANGED <<today, index, storage, sweeping, job, setter, lost>>
    BY <1>3 DEF Save
  <2> QED
    BY <2>2, <2>3, <2>4, <2>5 DEF TypeOK, storage, CaptureType
<1>4. ASSUME NEW o \in Opps, Close(o) PROVE TypeOK'
  <2>1. stage' \in [Opps -> Stages]
    BY <1>4 DEF Close, TypeOK, Stages
  <2>2. UNCHANGED <<today, index, storage, worker, lost, bounds>>
    BY <1>4 DEF Close
  <2> QED
    BY <2>1, <2>2 DEF TypeOK, storage, worker, bounds
<1> QED
  BY <1>1, <1>2, <1>3, <1>4

LEMMA CaptureStepType ==
    ASSUME TypeOK, NEW t \in Tabs, Captures(t)
    PROVE  TypeOK'
<1>0. capture \in [Tabs -> CaptureType] /\ Idle \in CaptureType
  BY DEF TypeOK, CaptureType
<1>1. CASE CaptureReads(t)
  <2> DEFINE new == [table EXCEPT ![capture[t].opp] = Captured(capture[t].status)]
  <2>1. capture[t] \in [pc : {"read"}, opp : Opps, status : Stages \ {"none"}]
    <3>1. capture[t] \in CaptureType /\ capture[t].pc = "read"
      BY <1>0, <1>1 DEF CaptureReads
    <3> QED
      BY <3>1 DEF CaptureType, Idle
  <2>2. new \in Table
    <3>1. Captured(capture[t].status) \in RowType
      BY <2>1, RowFacts
    <3> QED
      BY <3>1, TypeFacts DEF Table
  <2>3. \/ capture' = [capture EXCEPT ![t] = [pc |-> "write", new |-> new]]
        \/ capture' = [capture EXCEPT ![t] = Idle]
    BY <1>1 DEF CaptureReads
  <2> HIDE DEF new
  <2>4. [pc |-> "write", new |-> new] \in CaptureType
    BY <2>2 DEF CaptureType
  <2>5. capture' \in [Tabs -> CaptureType]
    BY <1>0, <2>3, <2>4
  <2>6. UNCHANGED <<crm, storage, sweeping, job, setter, lost, bounds>>
    BY <1>1 DEF CaptureReads
  <2> QED
    BY <2>5, <2>6 DEF TypeOK, crm, storage, bounds, CaptureType
<1>2. CASE CaptureWrites(t)
  <2>1. capture[t] \in [pc : {"write"}, new : Table]
    <3>1. capture[t] \in CaptureType /\ capture[t].pc = "write"
      BY <1>0, <1>2 DEF CaptureWrites
    <3> QED
      BY <3>1 DEF CaptureType, Idle
  <2>2. table' \in Table /\ capture' \in [Tabs -> CaptureType]
    BY <1>0, <1>2, <2>1, TypeFacts DEF CaptureWrites, Written
  <2>3. UNCHANGED <<crm, flag, state, orders, sweeping, job, setter, lost>>
    BY <1>2 DEF CaptureWrites
  <2>4. events' \in 0..MaxEvents /\ mishaps' \in 0..MaxMishaps
    BY <1>2, BoundsType DEF CaptureWrites, Written
  <2> QED
    BY <2>2, <2>3, <2>4 DEF TypeOK, crm, CaptureType
<1> QED
  BY <1>1, <1>2 DEF Captures

LEMMA SwitchType ==
    ASSUME TypeOK, (\E on \in BOOLEAN : SetFlag(on)) \/ SetterReads \/ SetterWrites
    PROVE  TypeOK'
<1>1. ASSUME NEW on \in BOOLEAN, SetFlag(on) PROVE TypeOK'
  <2>1. events' \in 0..MaxEvents /\ mishaps' \in 0..MaxMishaps
    BY <1>1, BoundsType DEF SetFlag
  <2>2. flag' = on /\ UNCHANGED <<crm, state, orders, table, worker, lost>>
    BY <1>1 DEF SetFlag
  <2> QED
    BY <2>1, <2>2 DEF TypeOK, crm, worker
<1>2. CASE SetterReads
  <2>1. \A tracker \in Trackers : Switched(state, tracker) \in StateType
    BY TypeFacts DEF Switched, StateType
  <2>2. Rewound(state) \in StateType
    BY TypeFacts, ConstantFacts DEF Rewound, StateType
  <2>3. setter' \in SetterType
    BY <1>2, <2>1, <2>2 DEF SetterReads, SetterType
  <2>4. events' \in 0..MaxEvents /\ mishaps' \in 0..MaxMishaps
    BY <1>2, BoundsType DEF SetterReads
  <2>5. UNCHANGED <<crm, storage, sweeping, job, capture, lost>>
    BY <1>2 DEF SetterReads
  <2> QED
    BY <2>3, <2>4, <2>5 DEF TypeOK, crm, storage, SetterType
<1>3. CASE SetterWrites
  <2>1. setter.new \in StateType
    <3>1. setter \in SetterType /\ setter.pc = "write"
      BY <1>3 DEF TypeOK, SetterType, SetterWrites
    <3> QED
      BY <3>1 DEF SetterType, Idle
  <2>2. state' \in StateType /\ setter' = Idle
    BY <1>3, <2>1, TypeFacts DEF SetterWrites, Written
  <2>3. UNCHANGED <<crm, flag, orders, table, sweeping, job, capture, lost>>
    BY <1>3 DEF SetterWrites
  <2>4. events' \in 0..MaxEvents /\ mishaps' \in 0..MaxMishaps
    BY <1>3, BoundsType DEF SetterWrites, Written
  <2> QED
    BY <2>2, <2>3, <2>4 DEF TypeOK, crm
<1> QED
  BY <1>1, <1>2, <1>3

LEMMA KillType ==
    ASSUME TypeOK, Kill
    PROVE  TypeOK'
<1>1. events' \in 0..MaxEvents /\ mishaps' \in 0..MaxMishaps
  BY BoundsType DEF Kill
<1>2. /\ job' \in [Sweeps -> JobType] /\ sweeping' = FALSE /\ setter' = Idle
      /\ capture' = [t \in Tabs |-> Idle]
      /\ UNCHANGED <<crm, storage, lost>>
  BY Kinds DEF Kill
<1> QED
  BY <1>1, <1>2 DEF TypeOK, crm, storage

LEMMA InitType == Init => TypeOK /\ \A i \in DOMAIN index : index[i].day = 1
<1> SUFFICES ASSUME Init PROVE TypeOK /\ \A i \in DOMAIN index : index[i].day = 1
  OBVIOUS
<1> DEFINE first == [contact : Earlier, day : {1}]
<1>1. first \in SUBSET IndexRow
  BY ConstantFacts DEF IndexRow, Days
<1>2. Cardinality(first) \in Nat
  <2> HIDE DEF first
  <2> QED
    BY <1>1, RowsFinite, FS_Subset, FS_CardinalityType
<1>3. index \in [1..Cardinality(first) -> first]
  BY DEF Init, SetToSeqs
<1>4. index \in Seq(IndexRow)
  <2> HIDE DEF first
  <2>1. index \in [1..Cardinality(first) -> IndexRow]
    BY <1>1, <1>3
  <2> QED
    BY <1>2, <2>1, SeqDef
<1>5. \A i \in DOMAIN index : index[i].day = 1
  BY <1>3
<1>6. state \in StateType
  BY ConstantFacts DEF Init, StateType, Cursors
<1>7. table \in Table
  BY RowFacts DEF Init, Table
<1>8. today \in Days /\ events \in 0..MaxEvents /\ mishaps \in 0..MaxMishaps
  BY ConstantFacts DEF Init, Days
<1>9. /\ stage \in [Opps -> Stages] /\ job \in [Sweeps -> JobType]
      /\ capture = [t \in Tabs |-> Idle] /\ setter = Idle /\ orders = {}
      /\ flag = TRUE /\ sweeping = FALSE /\ lost = {}
  BY Kinds DEF Init, Stages
<1> QED
  BY <1>4, <1>5, <1>6, <1>7, <1>8, <1>9 DEF TypeOK

LEMMA SweepStepType ==
    ASSUME TypeOK, NEW s \in Sweeps, SweepStarts(s) \/ Proceeds(s)
    PROVE  TypeOK'
BY StartType, RefreshStep, SearchType, UpsertType, CursorType DEF Proceeds

LEMMA TypeStep ==
    ASSUME TypeOK, [Next]_vars
    PROVE  TypeOK'
<1>1. CASE UNCHANGED vars
  BY <1>1 DEF TypeOK, vars, crm, storage, worker, bounds
<1>2. CASE Next
  BY <1>2, CRMType, CaptureStepType, SwitchType, SweepStepType, KillType DEF Next
<1> QED
  BY <1>1, <1>2

(* The day, the search index, the stored switches, cursor, orders and      *)
(* opportunities, and what every sweep, capture and setter holds between   *)
(* two awaits, are of the kinds lib/tracker-store.js and                   *)
(* lib/tracker-runtime.js give them.                                       *)
THEOREM TypeCorrect == Spec => []TypeOK
<1>1. Init => TypeOK
  BY InitType
<1>2. TypeOK /\ [Next]_vars => TypeOK'
  BY TypeStep
<1> QED
  BY <1>1, <1>2, PTL DEF Spec
-----------------------------------------------------------------------------
(* What was once true of the index and of the stored orders.               *)

Later ==
    /\ today <= today'
    /\ \A r \in IndexRow : Banked(r) => Banked(r)'
    /\ \A i \in DOMAIN index' :
           \/ index'[i].day >= today
           \/ \E k \in DOMAIN index : k <= i /\ index[k] = index'[i]

LEMMA RowsType ==
    ASSUME TypeOK
    PROVE  /\ Rows \subseteq IndexRow
           /\ \A r \in IndexRow : r.day \in Int /\ r.day >= 1
           /\ \A i \in DOMAIN index : index[i] \in IndexRow /\ i \in Nat
           /\ today \in Int /\ today >= 1
<1>1. \A i \in DOMAIN index : index[i] \in IndexRow /\ i \in Nat
  BY TypeFacts, LenProperties, ElementOfSeq
<1>2. Rows \subseteq IndexRow
  BY <1>1 DEF Rows
<1>3. \A r \in IndexRow : r.day \in Int /\ r.day >= 1
  BY DEF IndexRow, Days
<1> QED
  BY <1>1, <1>2, <1>3, TypeFacts, DayFacts

LEMMA OldRows ==
    ASSUME TypeOK, TypeOK', Later, NEW r \in Rows', r.day < today
    PROVE  r \in Rows
<1>1. PICK i \in DOMAIN index' : r = index'[i]
  BY DEF Rows
<1>2. r \in IndexRow /\ r.day \in Int /\ today \in Int
  <2>1. r \in IndexRow
    <3>1. index' \in Seq(IndexRow)
      BY DEF TypeOK
    <3> QED
      BY <1>1, <3>1, LenProperties, ElementOfSeq
  <2> QED
    BY <2>1, RowsType
<1>3. PICK k \in DOMAIN index : index[k] = index'[i]
  BY <1>1, <1>2 DEF Later
<1> QED
  BY <1>1, <1>3 DEF Rows

LEMMA CoversStays ==
    ASSUME TypeOK, TypeOK', Later, NEW from \in Int, NEW to \in Int, to <= today,
           Covers(from, to)
    PROVE  Covers(from, to)'
<1> SUFFICES ASSUME NEW r \in Rows', r.contact \notin Unreadable,
                    from <= r.day, r.day < to
             PROVE  Banked(r)'
  BY DEF Covers
<1>1. r \in IndexRow /\ r.day \in Int /\ today \in Int
  <2>1. index' \in Seq(IndexRow)
    BY DEF TypeOK
  <2>2. r \in IndexRow
    BY <2>1, LenProperties, ElementOfSeq DEF Rows
  <2> QED
    BY <2>2, RowsType
<1>2. r \in Rows
  BY <1>1, OldRows
<1>3. Banked(r)
  BY <1>2 DEF Later, Covers
<1> QED
  BY <1>1, <1>3 DEF Later

LEMMA SpokenStays ==
    ASSUME TypeOK, TypeOK', Later, NEW s \in StateType, Spoken(s)
    PROVE  Spoken(s)'
<1>1. s.from \in Int /\ s.cursor \in Int /\ today \in Int /\ today' \in Int
  BY TypeFacts, ConstantFacts DEF StateType, Cursors, TypeOK, Days
<1>2. s.cursor <= today /\ Covers(s.from, s.cursor)
  BY DEF Spoken
<1>3. Covers(s.from, s.cursor)'
  BY <1>1, <1>2, CoversStays
<1>4. s.cursor <= today'
  BY <1>1, <1>2 DEF Later
<1> QED
  BY <1>3, <1>4 DEF Spoken

(* The numbers a job holds.                                                *)
LEMMA JobNumbers ==
    ASSUME NEW j \in JobType
    PROVE  /\ j.pc \notin {"idle", "marked", "cursor", "patch", "patched"} => j.now \in Days
           /\ j.pc \in {"search", "upsert", "mark", "store"} =>
                  /\ j.now \in Int /\ j.from \in Int
                  /\ j.since \in 0..MaxDay /\ SinceDay(j.since, j.now) \in Int
           /\ j.pc = "search" => j.docs \in Seq(IndexRow)
           /\ j.pc \in {"upsert", "mark", "store"} =>
                  j.docs \in SUBSET IndexRow /\ j.complete \in BOOLEAN
           /\ j.pc = "store" => j.new \in SUBSET Record
           /\ j.pc \in {"marked", "cursor", "patch"} => j.from \in Int /\ j.to \in Int
           /\ j.pc \in {"marked", "patched"} => j.new \in StateType
<1>0. Days \subseteq Int /\ Cursors \subseteq Int /\ 0..MaxDay \subseteq Int
  BY ConstantFacts DEF Days, Cursors
<1>1. CASE j.pc \in {"idle", "start", "entered", "list", "poll", "ask", "put", "putWrite"}
  <2>1. j.pc # "idle" => j.now \in Days
    BY <1>1, JobKinds DEF Started, Entered, Asking, Putting
  <2> QED
    BY <1>1, <2>1
<1>2. CASE j.pc = "search"
  <2>1. j \in Searching
    BY <1>2, JobKinds
  <2>2. j.now \in Days /\ j.since \in 0..MaxDay /\ j.from \in Cursors /\ j.docs \in Seq(IndexRow)
    BY <2>1 DEF Searching
  <2> QED
    BY <1>0, <1>2, <2>2, SinceFacts
<1>3. CASE j.pc \in {"upsert", "mark", "store"}
  <2>1. /\ j.now \in Days /\ j.since \in 0..MaxDay /\ j.from \in Cursors
        /\ j.docs \in SUBSET IndexRow /\ j.complete \in BOOLEAN
        /\ j.pc = "store" => j.new \in SUBSET Record
    BY <1>3, JobKinds DEF Searched, Storing
  <2> QED
    BY <1>0, <1>3, <2>1, SinceFacts
<1>4. CASE j.pc \in {"marked", "cursor", "patch", "patched"}
  <2>1. /\ j.pc \in {"marked", "cursor", "patch"} => j.from \in Cursors /\ j.to \in 0..MaxDay
        /\ j.pc \in {"marked", "patched"} => j.new \in StateType
    BY <1>4, JobKinds DEF Marking, Marked, Patched
  <2> QED
    BY <1>0, <1>4, <2>1
<1>5. j.pc \in {"idle", "start", "entered", "list", "poll", "ask", "put", "putWrite", "search",
               "upsert", "mark", "store", "marked", "cursor", "patch", "patched"}
  BY DEF JobType, Idle, Started, Entered, Asking, Putting, Searching, Searched, Storing, Marking,
         Marked, Patched
<1> QED
  BY <1>1, <1>2, <1>3, <1>4, <1>5

LEMMA BegunStays ==
    ASSUME TypeOK, TypeOK', Later, NEW j \in JobType, j.pc \in {"search", "upsert", "store"}, Begun(j)
    PROVE  Begun(j)'
<1>1. j.from \in Int /\ j.since \in Int
  BY JobNumbers, ConstantFacts
<1>2. j.since <= today /\ today \in Int /\ today' \in Int /\ today <= today'
  BY TypeFacts DEF Begun, Later, TypeOK, Days
<1>3. Covers(j.from, j.since)'
  BY <1>1, <1>2, CoversStays DEF Begun
<1> QED
  BY <1>1, <1>2, <1>3 DEF Begun

(* What is true of a job stays so, whatever else happens.                  *)
LEMMA ProgressStays ==
    ASSUME TypeOK, TypeOK', Later, NEW j \in JobType, Progress(j)
    PROVE  Progress(j)'
<1>0. today \in Int /\ today' \in Int /\ today <= today'
  BY TypeFacts DEF Later, TypeOK, Days
<1>1. ASSUME j.pc \notin {"idle", "marked", "cursor", "patch", "patched"}
      PROVE  j.now <= today /\ j.now <= today' /\ j.now \in Int
  <2>1. j.now \in Int
    BY <1>1, JobNumbers DEF Days
  <2> QED
    BY <1>0, <1>1, <2>1 DEF Progress
<1>2. ASSUME j.pc = "search" PROVE Begun(j)' /\ Passed(j)'
  <2>1. Begun(j)'
    BY <1>2, BegunStays DEF Progress
  <2>2. j.docs \in Seq(IndexRow) /\ Len(j.docs) \in Nat
    BY <1>2, JobNumbers, LenProperties
  <2>3. ASSUME NEW i \in DOMAIN index', i <= Len(j.docs), Within(j, index'[i])
        PROVE  \E k \in DOMAIN j.docs : j.docs[k] = index'[i]
    <3>1. index'[i] \in IndexRow /\ i \in Nat /\ index'[i].day \in Int
      <4>1. index' \in Seq(IndexRow)
        BY DEF TypeOK
      <4> QED
        BY <4>1, LenProperties, ElementOfSeq, RowsType
    <3>2. index'[i].day < today
      BY <1>0, <1>1, <1>2, <2>3, <3>1 DEF Within
    <3>3. PICK k \in DOMAIN index : k <= i /\ index[k] = index'[i]
      BY <1>0, <3>1, <3>2 DEF Later
    <3>4. k <= Len(j.docs)
      BY <2>2, <2>3, <3>1, <3>3, RowsType
    <3>5. Within(j, index[k])
      BY <2>3, <3>3 DEF Within
    <3> QED
      BY <1>2, <3>3, <3>4, <3>5 DEF Progress, Passed
  <2>4. Passed(j)'
    BY <2>3 DEF Passed, Within
  <2> QED
    BY <2>1, <2>4
<1>3. ASSUME j.pc \in {"upsert", "store"} PROVE Begun(j)' /\ Collected(j)'
  <2>1. Begun(j)'
    BY <1>3, BegunStays DEF Progress
  <2>2. ASSUME j.complete, NEW r \in Rows', Within(j, r) PROVE r \in j.docs
    <3>1. r \in IndexRow /\ r.day \in Int
      <4>1. index' \in Seq(IndexRow)
        BY DEF TypeOK
      <4> QED
        BY <4>1, LenProperties, ElementOfSeq, RowsType DEF Rows
    <3>2. r \in Rows
      BY <1>0, <1>1, <1>3, <2>2, <3>1, OldRows DEF Within
    <3> QED
      BY <1>3, <2>2, <3>2 DEF Progress, Collected
  <2>3. Collected(j)'
    BY <2>2 DEF Collected, Within
  <2> QED
    BY <2>1, <2>3
<1>4. ASSUME j.pc = "mark", j.complete PROVE Covers(j.from, j.now)'
  <2>1. j.from \in Int /\ j.now \in Int /\ j.now <= today
    BY <1>1, <1>4, JobNumbers
  <2>2. Covers(j.from, j.now)
    BY <1>4 DEF Progress
  <2> QED
    BY <2>1, <2>2, CoversStays
<1>5. ASSUME j.pc \in {"marked", "cursor", "patch"}
      PROVE  j.to <= today' /\ Covers(j.from, j.to)'
  <2>1. j.from \in Int /\ j.to \in Int
    BY <1>5, JobNumbers
  <2>2. j.to <= today /\ Covers(j.from, j.to)
    BY <1>5 DEF Progress
  <2> QED
    BY <1>0, <2>1, <2>2, CoversStays
<1>6. ASSUME j.pc \in {"marked", "patched"} PROVE Spoken(j.new)'
  <2>1. j.new \in StateType /\ Spoken(j.new)
    BY <1>6, JobNumbers DEF Progress
  <2> QED
    BY <2>1, SpokenStays
<1>7. j.pc = "store" => Mapped(j.docs) \subseteq j.new
  BY DEF Progress
<1> QED
  BY <1>1, <1>2, <1>3, <1>4, <1>5, <1>6, <1>7 DEF Progress

LEMMA LaterSame ==
    ASSUME TypeOK, UNCHANGED <<today, index, orders, lost>>
    PROVE  Later
<1>1. \A r \in IndexRow : Banked(r) => Banked(r)'
  BY DEF Banked, Among
<1>2. \A i \in DOMAIN index : i <= i
  BY RowsType
<1> QED
  BY <1>1, <1>2, RowsType DEF Later

LEMMA SortedSame ==
    ASSUME Sorted, UNCHANGED <<today, index>>
    PROVE  Sorted'
BY DEF Sorted

(* More rows are known, or retention has filled the table with newer ones. *)
LEMMA AmongGrows ==
    ASSUME NEW held \in SUBSET Record, NEW more \in SUBSET Record, held \subseteq more,
           NEW r \in IndexRow, Among(held, r)
    PROVE  Among(more, r)
<1> DEFINE old == {q \in held : q.day >= r.day}
           new == {q \in more : q.day >= r.day}
<1>1. CASE r \in held
  BY <1>1 DEF Among
<1>2. CASE Cardinality(old) >= MaxRecords
  <2>1. old \subseteq new /\ new \subseteq Record
    OBVIOUS
  <2>2. Cardinality(old) >= MaxRecords
    BY <1>2
  <2>3. Cardinality(new) >= MaxRecords
    <3> HIDE DEF old, new
    <3>1. IsFiniteSet(new) /\ IsFiniteSet(old)
      BY <2>1, RowsFinite, FS_Subset
    <3>2. /\ Cardinality(old) \in Nat /\ Cardinality(new) \in Nat
          /\ Cardinality(old) <= Cardinality(new)
      BY <2>1, <3>1, FS_Subset, FS_CardinalityType
    <3> QED
      BY <2>2, <3>2, ConstantFacts
  <2> QED
    BY <2>3 DEF Among
<1> QED
  BY <1>1, <1>2 DEF Among

(* Retention keeps a row, or fills the table with rows as new.             *)
LEMMA RetainedFull ==
    ASSUME NEW rows \in SUBSET Record, NEW kept \in Retained(rows), NEW q \in rows \ kept,
           NEW more \in SUBSET Record, kept \subseteq more,
           NEW r \in IndexRow, q.day >= r.day
    PROVE  Among(more, r)
<1>1. /\ Cardinality(kept) = MaxRecords /\ kept \in SUBSET rows
      /\ \A x \in kept : x.day >= q.day
  BY DEF Retained
<1>2. /\ \A x \in rows : x.day \in Int
      /\ r.day \in Int
  BY DEF Record, IndexRow, Days
<1>3. kept = {x \in kept : x.day >= r.day}
  BY <1>1, <1>2
<1>4. Among(kept, r)
  BY <1>1, <1>3, ConstantFacts DEF Among
<1> QED
  BY <1>1, <1>4, AmongGrows

(* What was banked, or is written, is banked when the table is written.    *)
LEMMA RetainedBanks ==
    ASSUME NEW rows \in SUBSET Record, NEW kept \in Retained(rows),
           NEW held \in SUBSET Record, NEW more \in SUBSET Record,
           kept \subseteq more, held \ rows \subseteq more,
           NEW r \in IndexRow, r \in rows \/ Among(held, r)
    PROVE  Among(more, r)
<1>0. r.day >= r.day /\ (rows \subseteq Record)
  BY DEF IndexRow, Days
<1>1. CASE r \in rows
  <2>1. CASE r \in kept
    BY <2>1 DEF Among
  <2>2. CASE r \notin kept
    BY <1>0, <1>1, <2>2, RetainedFull
  <2> QED
    BY <2>1, <2>2
<1>2. CASE r \in held /\ r \notin rows
  BY <1>2 DEF Among
<1>3. CASE Cardinality({q \in held : q.day >= r.day}) >= MaxRecords
  <2> DEFINE newer == {q \in held : q.day >= r.day}
  <2>1. CASE newer \subseteq more
    <3>1. newer = {q \in newer : q.day >= r.day} /\ newer \in SUBSET Record
      OBVIOUS
    <3>2. Among(newer, r)
      BY <1>3, <3>1 DEF Among
    <3> HIDE DEF newer
    <3> QED
      BY <2>1, <3>1, <3>2, AmongGrows
  <2>2. ASSUME NEW q \in newer, q \notin more PROVE Among(more, r)
    <3>1. q \in rows \ kept /\ q.day >= r.day
      BY <2>2
    <3> HIDE DEF newer
    <3> QED
      BY <3>1, RetainedFull
  <2> QED
    BY <2>1, <2>2
<1> QED
  BY <1>1, <1>2, <1>3 DEF Among

(* The write of an upsert, taken or refused.                               *)
LEMMA UpsertBanks ==
    ASSUME TypeOK, NEW s \in Sweeps, UpsertWrites(s) \/ UpsertRefused(s),
           Mapped(job[s].docs) \subseteq job[s].new
    PROVE  \A r \in IndexRow : Banked(r) \/ r \in Mapped(job[s].docs) => Banked(r)'
<1>0. /\ job[s] \in JobType /\ job[s].pc = "store" /\ orders \subseteq Record /\ lost \subseteq Record
  BY TypeFacts DEF UpsertWrites, UpsertRefused
<1>1. job[s].new \in SUBSET Record /\ Mapped(job[s].docs) \in SUBSET Record
  BY <1>0, JobNumbers
<1> DEFINE held == orders \cup lost
           more == orders' \cup lost'
<1>2. CASE UpsertWrites(s)
  <2>1. orders' \in Retained(job[s].new) /\ lost' = (lost \cup orders) \ job[s].new
    BY <1>2 DEF UpsertWrites
  <2>2. orders' \subseteq job[s].new
    BY <2>1 DEF Retained
  <2>3. /\ held \in SUBSET Record /\ more \in SUBSET Record
        /\ orders' \subseteq more /\ held \ job[s].new \subseteq more
    BY <1>0, <1>1, <2>1, <2>2
  <2>4. ASSUME NEW r \in IndexRow, r \in job[s].new \/ Among(held, r) PROVE Among(more, r)
    <3> HIDE DEF held, more
    <3> QED
      BY <1>1, <2>1, <2>3, <2>4, RetainedBanks
  <2> QED
    BY <2>4 DEF Banked, Among
<1>3. CASE UpsertRefused(s)
  <2>1. orders' = orders /\ lost' = lost \cup (Mapped(job[s].docs) \ orders)
    BY <1>3 DEF UpsertRefused, storage
  <2>2. /\ held \in SUBSET Record /\ more \in SUBSET Record
        /\ held \subseteq more /\ Mapped(job[s].docs) \subseteq more
    BY <1>0, <1>1, <2>1
  <2>3. ASSUME NEW r \in IndexRow, r \in Mapped(job[s].docs) \/ Among(held, r)
        PROVE  Among(more, r)
    <3>1. CASE r \in Mapped(job[s].docs)
      <4>1. r \in more
        BY <2>2, <3>1
      <4> QED
        BY <4>1 DEF Among
    <3>2. CASE Among(held, r)
      <4> HIDE DEF held, more
      <4> QED
        BY <2>2, <3>2, AmongGrows
    <3> QED
      BY <2>3, <3>1, <3>2
  <2> QED
    BY <2>3 DEF Banked, Among
<1> QED
  BY <1>2, <1>3

LEMMA UpsertLater ==
    ASSUME TypeOK, NEW s \in Sweeps, UpsertWrites(s) \/ UpsertRefused(s),
           Mapped(job[s].docs) \subseteq job[s].new
    PROVE  Later
<1>1. today' = today /\ index' = index
  BY DEF UpsertWrites, UpsertRefused, sweepOnly, crm
<1>2. \A r \in IndexRow : Banked(r) => Banked(r)'
  BY UpsertBanks
<1>3. \A i \in DOMAIN index : i <= i
  BY RowsType
<1>4. today <= today'
  BY <1>1, RowsType
<1>5. \A i \in DOMAIN index' : \E k \in DOMAIN index : k <= i /\ index[k] = index'[i]
  BY <1>1, <1>3
<1> QED
  BY <1>2, <1>4, <1>5 DEF Later

LEMMA OrderLater ==
    ASSUME TypeOK, Sorted, NEW c \in Contacts, Order(c)
    PROVE  Later /\ Sorted'
<1>1. PICK was \in [2..Len(index') -> DOMAIN index] :
          \A k \in 2..Len(index') :
              /\ was[k] <= k
              /\ index'[k] = index[was[k]] /\ index[was[k]].contact # c
              /\ \A m \in 2..Len(index') : k < m => was[k] < was[m]
  BY OrderMoves
<1>2. index' \in Seq(IndexRow) /\ index'[1] = [contact |-> c, day |-> today]
  BY OrderShape
<1>3. DOMAIN index' = 1..Len(index') /\ Len(index') \in Nat
  BY <1>2, LenProperties
<1>4. UNCHANGED <<today, orders, lost>>
  BY DEF Order, storage
<1>5. \A i \in DOMAIN index' : i = 1 \/ i \in 2..Len(index')
  BY <1>3
<1>6. Later
  <2>1. \A r \in IndexRow : Banked(r) => Banked(r)'
    BY <1>4 DEF Banked, Among
  <2>2. today >= today
    BY RowsType
  <2>3. ASSUME NEW i \in DOMAIN index'
        PROVE  index'[i].day >= today \/ \E k \in DOMAIN index : k <= i /\ index[k] = index'[i]
    BY <1>1, <1>2, <1>5, <2>2
  <2> QED
    BY <1>4, <2>1, <2>2, <2>3 DEF Later
<1>7. ASSUME NEW i \in DOMAIN index', NEW k \in DOMAIN index'
      PROVE  /\ index'[i].day <= today
             /\ i < k => index'[k].day <= index'[i].day /\ index'[i].contact # index'[k].contact
  <2>1. \A m \in 2..Len(index') : was[m] \in DOMAIN index
    BY <1>1
  <2>2. index'[i].day <= today
    <3>1. CASE i = 1
      BY <1>2, <3>1, RowsType
    <3>2. CASE i \in 2..Len(index')
      BY <1>1, <2>1, <3>2 DEF Sorted
    <3> QED
      BY <1>5, <3>1, <3>2
  <2>3. ASSUME i < k
        PROVE  index'[k].day <= index'[i].day /\ index'[i].contact # index'[k].contact
    <3>1. k \in 2..Len(index')
      BY <1>3, <2>3
    <3>2. CASE i = 1
      <4>1. index'[k].day <= today /\ index'[k].contact # c
        BY <1>1, <2>1, <3>1 DEF Sorted
      <4> QED
        BY <1>2, <3>2, <4>1
    <3>3. CASE i \in 2..Len(index')
      <4>1. /\ was[i] < was[k] /\ was[i] \in DOMAIN index /\ was[k] \in DOMAIN index
            /\ index'[i] = index[was[i]] /\ index'[k] = index[was[k]]
        BY <1>1, <2>1, <2>3, <3>1, <3>3
      <4> QED
        BY <4>1 DEF Sorted
    <3> QED
      BY <1>5, <3>2, <3>3
  <2> QED
    BY <2>2, <2>3
<1>8. Sorted'
  BY <1>4, <1>7 DEF Sorted
<1> QED
  BY <1>6, <1>8

LEMMA MidnightLater ==
    ASSUME TypeOK, Sorted, Midnight
    PROVE  Later /\ Sorted'
<1>1. today' = today + 1 /\ UNCHANGED <<index, orders, lost>>
  BY DEF Midnight, storage
<1>2. \A r \in IndexRow : Banked(r) => Banked(r)'
  BY <1>1 DEF Banked, Among
<1>3. /\ \A i \in DOMAIN index : i <= i /\ index[i].day \in Int
      /\ today \in Int /\ today <= today'
  BY <1>1, RowsType
<1>4. Later
  BY <1>1, <1>2, <1>3 DEF Later
<1>5. Sorted'
  BY <1>1, <1>3 DEF Sorted
<1> QED
  BY <1>4, <1>5
-----------------------------------------------------------------------------
(* The steps.                                                              *)

LEMMA SpokenOrders ==
    ASSUME TypeOK, TypeOK', Later, Spoken(state), state' = state
    PROVE  Spoken(state)'
<1>1. PICK st \in StateType : st = state
  BY TypeFacts
<1>2. Spoken(st)'
  BY <1>1, SpokenStays
<1> QED
  BY <1>1, <1>2 DEF Spoken

(* The state is written, or the write of it refused.                       *)
LEMMA SpokenWritten ==
    ASSUME TypeOK, TypeOK', Later, Spoken(state), NEW new \in StateType, Spoken(new),
           state' = new \/ state' = state
    PROVE  Spoken(state)'
<1>1. CASE state' = new
  <2>1. Spoken(new)'
    BY SpokenStays
  <2> QED
    BY <1>1, <2>1 DEF Spoken
<1>2. CASE state' = state
  BY <1>2, SpokenOrders
<1> QED
  BY <1>1, <1>2

LEMMA SetterStays ==
    ASSUME TypeOK, TypeOK', Later, setter.pc = "write" => Spoken(setter.new), setter' = setter,
           setter'.pc = "write"
    PROVE  Spoken(setter.new)'
<1>1. setter.new \in StateType
  BY DEF TypeOK, Idle
<1>2. PICK st \in StateType : st = setter.new
  BY <1>1
<1>3. Spoken(st)'
  BY <1>2, SpokenStays
<1>4. setter'.new = st
  BY <1>2
<1> QED
  BY <1>3, <1>4 DEF Spoken

LEMMA JobStays ==
    ASSUME TypeOK, TypeOK', Later, NEW s \in Sweeps, Progress(job[s]), job'[s] = job[s]
    PROVE  Progress(job[s])'
<1>1. PICK j \in JobType : j = job[s]
  BY TypeFacts
<1>2. Progress(j)'
  BY <1>1, ProgressStays
<1>3. job'[s] = j
  BY <1>1
<1> QED
  BY <1>2, <1>3 DEF Progress

(* A step that leaves the sweeps, the state and the setter alone.          *)
LEMMA Elsewhere ==
    ASSUME IInv, TypeOK', Later, Sorted', UNCHANGED <<state, setter, job>>
    PROVE  IInv'
<1>1. Spoken(state)' /\ (setter'.pc = "write" => Spoken(setter.new)')
  BY SpokenOrders, SetterStays DEF IInv
<1>2. ASSUME NEW s \in Sweeps PROVE Progress(job[s])'
  <2>1. job'[s] = job[s] /\ Progress(job[s])
    BY DEF IInv
  <2> QED
    BY <2>1, JobStays DEF IInv
<1> QED
  BY <1>1, <1>2 DEF IInv

(* A step of a sweep, when what it does to its own job is known.           *)
LEMMA SweepKeeps ==
    ASSUME IInv, TypeOK', Later, NEW s \in Sweeps, NEW next \in JobType, Goes(s, next),
           UNCHANGED <<today, index, setter>>, Progress(next)', Spoken(state)'
    PROVE  IInv'
<1>1. Sorted' /\ (setter'.pc = "write" => Spoken(setter.new)')
  BY SortedSame, SetterStays DEF IInv
<1>2. ASSUME NEW q \in Sweeps PROVE Progress(job[q])'
  <2>1. CASE q = s
    <3>1. job'[q] = next
      BY <2>1, GoesFacts DEF IInv
    <3> QED
      BY <3>1 DEF Progress
  <2>2. CASE q # s
    <3>1. job'[q] = job[q] /\ Progress(job[q])
      BY <2>2, GoesFacts DEF IInv
    <3> QED
      BY <3>1, JobStays DEF IInv
  <2> QED
    BY <2>1, <2>2
<1> QED
  BY <1>1, <1>2 DEF IInv

(* ... and when it writes nothing of it.                                   *)
LEMMA SweepReads ==
    ASSUME IInv, TypeOK', NEW s \in Sweeps, NEW next \in JobType, Goes(s, next),
           UNCHANGED <<today, index, orders, lost, setter, state>>, Progress(next)
    PROVE  IInv'
<1>1. Later
  BY LaterSame DEF IInv
<1>2. Progress(next)' /\ Spoken(state)'
  BY <1>1, ProgressStays, SpokenOrders DEF IInv
<1> QED
  BY <1>1, <1>2, SweepKeeps

Early == {"start", "entered", "list", "poll", "ask", "put", "putWrite"}

LEMMA EarlyProgress ==
    /\ Progress(Idle)
    /\ \A j \in JobType : j.pc \in Early /\ j.now <= today => Progress(j)
BY DEF Progress, Idle, Early

(* The steps before the search.                                            *)
LEMMA EarlyStep ==
    ASSUME IInv, TypeOK', NEW s \in Sweeps,
           \/ SweepStarts(s) \/ SweepEnters(s) \/ SweepCollects(s)
           \/ PollNotDue(s) \/ SearchFails(s)
           \/ \E due \in SUBSET Opps : Lists(s, due)
           \/ Asks(s) \/ PutReads(s) \/ PutWrites(s)
    PROVE  IInv'
<1>0. /\ UNCHANGED <<today, index, orders, lost, setter, state>>
      /\ job[s] \in JobType /\ Progress(job[s])
  BY TypeFacts DEF SweepStarts, SweepEnters, SweepCollects, PollNotDue, SearchFails, Lists, Asks,
                   PutReads, PutWrites, sweepOnly, crm, storage, IInv
<1>1. job'[s] \in JobType /\ job' = [job EXCEPT ![s] = job'[s]]
  <2>1. \E next : job' = [job EXCEPT ![s] = next]
    BY DEF SweepStarts, SweepEnters, SweepCollects, PollNotDue, SearchFails, Ends, Lists, Asks,
           PutReads, PutWrites, Goes
  <2> QED
    BY <2>1, TypeFacts DEF TypeOK, IInv
<1>2. job'[s] = Idle \/ (job'[s].pc \in Early /\ job'[s].now <= today)
  <2>1. CASE SweepStarts(s)
    <3>1. Goes(s, [pc |-> "start", now |-> today])
      BY <2>1 DEF SweepStarts
    <3> QED
      BY <3>1, TypeFacts, RowsType DEF Goes, Early, IInv
  <2>2. CASE PollNotDue(s) \/ SearchFails(s)
    BY <2>2, TypeFacts DEF PollNotDue, SearchFails, Ends, Goes, IInv
  <2>3. CASE SweepEnters(s) \/ SweepCollects(s)
    <3>1. job[s].now <= today
      BY <1>0, <2>3 DEF SweepEnters, SweepCollects, Progress
    <3> QED
      BY <2>3, <3>1, TypeFacts DEF SweepEnters, SweepCollects, Goes, Early, IInv
  <2>4. ASSUME NEW due \in SUBSET Opps, Lists(s, due)
        PROVE  job'[s].pc \in Early /\ job'[s].now <= today
    <3>1. job[s].now <= today /\ job[s] \in Entered
      BY <1>0, <2>4, JobKinds DEF Lists, Progress
    <3> DEFINE poll == [job[s] EXCEPT !.pc = "poll"]
               ask  == [pc |-> "ask", now |-> job[s].now, on |-> job[s].on,
                        left |-> due, rows |-> [o \in due |-> table[o]]]
    <3>2. poll.pc = "poll" /\ poll.now = job[s].now
      BY <3>1 DEF Entered
    <3>3. ask.pc = "ask" /\ ask.now = job[s].now
      OBVIOUS
    <3>4. job'[s] = poll \/ job'[s] = ask
      BY <2>4, TypeFacts DEF Lists, Goes, IInv
    <3> HIDE DEF poll, ask
    <3> QED
      BY <3>1, <3>2, <3>3, <3>4 DEF Early
  <2>5. CASE Asks(s)
    <3>1. job[s].now <= today /\ job[s] \in Asking
      BY <1>0, <2>5, JobKinds DEF Asks, Progress
    <3>2. PICK o, row :
              /\ o \in job[s].left
              /\ job'[s] = [job[s] EXCEPT !.left = @ \ {o}, !.rows[o] = row,
                               !.pc = IF job[s].left = {o} THEN "put" ELSE "ask"]
      BY <2>5, TypeFacts DEF Asks, Goes, IInv
    <3>3. job'[s].pc = (IF job[s].left = {o} THEN "put" ELSE "ask") /\ job'[s].now = job[s].now
      BY <3>1, <3>2 DEF Asking
    <3> QED
      BY <3>1, <3>3 DEF Early
  <2>6. CASE PutReads(s)
    <3>1. job[s].now <= today
      BY <1>0, <2>6 DEF PutReads, Progress
    <3> QED
      BY <2>6, <3>1, TypeFacts DEF PutReads, Goes, Early, IInv
  <2>7. CASE PutWrites(s)
    <3>1. job[s].now <= today
      BY <1>0, <2>7 DEF PutWrites, Progress
    <3> QED
      BY <2>7, <3>1, TypeFacts DEF PutWrites, Goes, Early, IInv
  <2> QED
    BY <2>1, <2>2, <2>3, <2>4, <2>5, <2>6, <2>7
<1>3. PICK next \in JobType : next = job'[s]
  BY <1>1
<1>4. Goes(s, next)
  BY <1>1, <1>3 DEF Goes
<1>5. Progress(next)
  BY <1>2, <1>3, EarlyProgress
<1> QED
  BY <1>0, <1>4, <1>5, SweepReads

(* The search begins where the cursor is.                                  *)
LEMMA PollStep ==
    ASSUME IInv, TypeOK', NEW s \in Sweeps, PollDue(s)
    PROVE  IInv'
<1> DEFINE first == IF state.cursor = 0 THEN job[s].now - Lookback ELSE state.from
           begun == [pc |-> "search", now |-> job[s].now, since |-> state.cursor, docs |-> <<>>,
                     from |-> first]
<1>0. /\ UNCHANGED <<today, index, orders, lost, setter, state>>
      /\ Goes(s, begun) /\ job[s].pc = "poll"
  BY DEF PollDue, sweepOnly, crm, storage
<1>1. job[s].now <= today
  BY <1>0 DEF IInv, Progress
<1>2. begun \in JobType
  <2>1. job'[s] = begun
    BY <1>0, TypeFacts DEF Goes, IInv
  <2> QED
    BY <2>1, TypeFacts DEF TypeOK
<1> DEFINE next == begun
<1>3. state.cursor <= today /\ Covers(first, state.cursor)
  <2>1. state.cursor <= today
    BY DEF IInv, Spoken
  <2>2. CASE state.cursor = 0
    <3>1. \A r \in Rows : ~(r.day < 0)
      BY RowsType DEF IInv
    <3> QED
      BY <2>1, <2>2, <3>1 DEF Covers
  <2>3. CASE state.cursor # 0
    BY <2>1, <2>3 DEF IInv, Spoken
  <2> QED
    BY <2>2, <2>3
<1>4. Begun(begun)
  <2>1. state.cursor = 0 => first = job[s].now - Lookback
    OBVIOUS
  <2> HIDE DEF first
  <2> QED
    BY <1>3, <2>1 DEF Begun
<1>5. Passed(begun)
  <2>1. \A i \in DOMAIN index : ~(i <= Len(<<>>))
    <3>1. \A i \in DOMAIN index : i \in Nat /\ i >= 1
      <4>1. index \in Seq(IndexRow)
        BY DEF IInv, TypeOK
      <4> QED
        BY <4>1, LenProperties
    <3> QED
      BY <3>1, EmptySeq
  <2> QED
    BY <2>1 DEF Passed
<1>6. Progress(begun)
  <2> HIDE DEF first
  <2>1. begun.pc = "search" /\ begun.now = job[s].now
    OBVIOUS
  <2> HIDE DEF begun
  <2> QED
    BY <1>1, <1>4, <1>5, <2>1 DEF Progress
<1> HIDE DEF begun
<1> QED
  BY <1>0, <1>2, <1>6, SweepReads

(* What was passed was read, and to the end of the window everything.      *)
LEMMA PageStep ==
    ASSUME IInv, TypeOK', NEW s \in Sweeps, SearchPage(s)
    PROVE  IInv'
<1> DEFINE day    == SinceDay(job[s].since, job[s].now)
           window == Window(day)
           docs   == job[s].docs \o Page(job[s].docs, window)
           complete == Len(docs) >= Len(window)
           found  == {docs[i] : i \in DOMAIN docs}
           on     == [job[s] EXCEPT !.docs = docs]
           over   == [pc |-> "upsert", now |-> job[s].now, since |-> job[s].since,
                      from |-> job[s].from, docs |-> found, complete |-> complete]
<1>0. /\ UNCHANGED <<today, index, orders, lost, setter, state>>
      /\ Goes(s, over) \/ Goes(s, on)
      /\ job[s].pc = "search" /\ job[s] \in JobType
  BY TypeFacts DEF SearchPage, Page, sweepOnly, crm, storage, IInv
<1>1. /\ job[s].docs \in Seq(IndexRow) /\ day \in Int /\ index \in Seq(IndexRow)
      /\ job[s] \in Searching
  BY <1>0, JobNumbers, JobKinds, TypeFacts DEF IInv
<1>2. job[s].now <= today /\ Begun(job[s]) /\ Passed(job[s])
  BY <1>0 DEF IInv, Progress
<1> HIDE DEF day
<1>3. /\ window \in Seq(IndexRow) /\ Len(window) \in Nat
      /\ \A i \in 1..Len(window) : window[i] = index[i]
      /\ \A i \in DOMAIN index : i <= Len(window) <=> index[i].day >= day
  <2>1. /\ window \in Seq(IndexRow)
        /\ \A i \in 1..Len(window) : window[i] = index[i]
    BY <1>1, WindowShape
  <2>2. \A i \in DOMAIN index : i <= Len(window) <=> index[i].day >= day
    BY <1>1, WindowEnds DEF IInv
  <2> QED
    BY <2>1, <2>2, LenProperties
<1> HIDE DEF window
<1>4. /\ docs \in Seq(IndexRow) /\ Len(docs) >= Len(job[s].docs)
      /\ \A i \in 1..Len(docs) :
             docs[i] = IF i <= Len(job[s].docs) THEN job[s].docs[i] ELSE window[i]
  BY <1>1, <1>3, PageShape
<1> HIDE DEF docs
<1>5. /\ Len(docs) \in Nat /\ DOMAIN docs = 1..Len(docs)
      /\ Len(job[s].docs) \in Nat /\ DOMAIN job[s].docs = 1..Len(job[s].docs)
      /\ \A i \in DOMAIN index : i \in Nat /\ i >= 1
  BY <1>1, <1>4, LenProperties
<1>6. ASSUME NEW i \in DOMAIN index, i <= Len(docs), Within(job[s], index[i])
      PROVE  \E k \in DOMAIN docs : docs[k] = index[i]
  <2>1. CASE i <= Len(job[s].docs)
    <3>1. PICK k \in DOMAIN job[s].docs : job[s].docs[k] = index[i]
      BY <1>2, <1>6, <2>1 DEF Passed
    <3>2. k \in 1..Len(docs) /\ k <= Len(job[s].docs)
      BY <1>4, <1>5
    <3> QED
      BY <1>4, <1>5, <3>1, <3>2
  <2>2. CASE ~(i <= Len(job[s].docs))
    <3>1. index[i].day >= day
      BY <1>6, <1>1, RowsType DEF Within, day, IInv
    <3>2. i \in 1..Len(window) /\ i \in 1..Len(docs)
      BY <1>3, <1>5, <1>6, <3>1
    <3> QED
      BY <1>3, <1>4, <1>5, <2>2, <3>2
  <2> QED
    BY <2>1, <2>2
<1>7. CASE Goes(s, on)
  <2>1. /\ on.pc = "search" /\ on.now = job[s].now /\ on.since = job[s].since
        /\ on.from = job[s].from /\ on.docs = docs
    BY <1>0, <1>1 DEF Searching
  <2> HIDE DEF on
  <2>2. on \in JobType
    <3>1. job'[s] = on
      BY <1>7, TypeFacts DEF Goes, IInv
    <3> QED
      BY <3>1, TypeFacts DEF TypeOK
  <2>3. Begun(on)
    BY <1>2, <2>1 DEF Begun
  <2>4. Passed(on)
    BY <1>6, <2>1 DEF Passed, Within
  <2>5. Progress(on)
    BY <1>2, <2>1, <2>3, <2>4 DEF Progress
  <2> QED
    BY <1>0, <1>7, <2>2, <2>5, SweepReads
<1>8. CASE Goes(s, over)
  <2> HIDE DEF found, complete
  <2>1. /\ over.pc = "upsert" /\ over.now = job[s].now /\ over.since = job[s].since
        /\ over.from = job[s].from /\ over.docs = found /\ over.complete = complete
    OBVIOUS
  <2> HIDE DEF over
  <2>2. over \in JobType
    <3>1. job'[s] = over
      BY <1>8, TypeFacts DEF Goes, IInv
    <3> QED
      BY <3>1, TypeFacts DEF TypeOK
  <2>3. Begun(over)
    BY <1>2, <2>1 DEF Begun
  <2>4. ASSUME complete, NEW r \in Rows, Within(job[s], r) PROVE r \in found
    <3>1. PICK i \in DOMAIN index : r = index[i]
      BY DEF Rows
    <3>2. i <= Len(window)
      <4>1. index[i].day >= day
        BY <2>4, <3>1, <1>1, RowsType DEF Within, day, IInv
      <4> QED
        BY <1>3, <4>1
    <3>3. i <= Len(docs)
      BY <1>3, <1>5, <2>4, <3>2 DEF complete
    <3>4. PICK k \in DOMAIN docs : docs[k] = index[i]
      BY <1>6, <2>4, <3>1, <3>3
    <3> QED
      BY <3>1, <3>4 DEF found
  <2>5. Collected(over)
    BY <2>1, <2>4 DEF Collected, Within
  <2>6. Progress(over)
    BY <1>2, <2>1, <2>3, <2>5 DEF Progress
  <2> QED
    BY <1>0, <1>8, <2>2, <2>6, SweepReads
<1> HIDE DEF on, over
<1> QED
  BY <1>0, <1>7, <1>8

(* A row the cursor may speak for is spoken for already, or was read.      *)
LEMMA ReadOrSpoken ==
    ASSUME TypeOK, NEW j \in JobType, j.pc \in {"upsert", "store"}, Begun(j), Collected(j),
           j.complete, NEW r \in Rows, r.contact \notin Unreadable,
           j.from <= r.day, r.day < j.now
    PROVE  Banked(r) \/ r \in Mapped(j.docs)
<1>1. j.now \in Int /\ j.from \in Int /\ j.since \in Int /\ r.day \in Int
  BY JobNumbers, RowsType, ConstantFacts
<1>2. CASE r.day < j.since
  BY <1>1, <1>2 DEF Begun, Covers
<1>3. CASE ~(r.day < j.since)
  <2>1. SinceDay(j.since, j.now) <= r.day
    BY <1>1, <1>3 DEF SinceDay, Begun
  <2>2. r \in j.docs
    BY <2>1 DEF Collected, Within
  <2> QED
    BY <2>2 DEF Mapped
<1> QED
  BY <1>1, <1>2, <1>3

LEMMA UpsertReadStep ==
    ASSUME IInv, TypeOK', NEW s \in Sweeps, UpsertReads(s)
    PROVE  IInv'
<1> DEFINE new   == orders \cup Mapped(job[s].docs)
           none  == [job[s] EXCEPT !.pc = "mark"]
           store == [pc |-> "store", now |-> job[s].now, since |-> job[s].since,
                     from |-> job[s].from, docs |-> job[s].docs, complete |-> job[s].complete,
                     new |-> new]
<1>0. /\ UNCHANGED <<today, index, orders, lost, setter, state>>
      /\ (Mapped(job[s].docs) = {} /\ Goes(s, none)) \/ Goes(s, store)
      /\ job[s].pc = "upsert" /\ job[s] \in JobType /\ job[s] \in Searched
  BY TypeFacts, JobKinds DEF UpsertReads, sweepOnly, crm, storage, IInv
<1>1. job[s].now <= today /\ Begun(job[s]) /\ Collected(job[s])
  BY <1>0 DEF IInv, Progress
<1>2. CASE Mapped(job[s].docs) = {} /\ Goes(s, none)
  <2>1. /\ none.pc = "mark" /\ none.now = job[s].now /\ none.from = job[s].from
        /\ none.complete = job[s].complete
    BY <1>0 DEF Searched
  <2> HIDE DEF none
  <2>2. none \in JobType
    <3>1. job'[s] = none
      BY <1>2, TypeFacts DEF Goes, IInv
    <3> QED
      BY <3>1, TypeFacts DEF TypeOK
  <2>3. ASSUME job[s].complete PROVE Covers(job[s].from, job[s].now)
    BY <1>0, <1>1, <1>2, <2>3, ReadOrSpoken DEF Covers, IInv
  <2>4. Progress(none)
    BY <1>1, <2>1, <2>3 DEF Progress
  <2> QED
    BY <1>0, <1>2, <2>2, <2>4, SweepReads
<1>3. CASE Goes(s, store)
  <2>1. Mapped(job[s].docs) \subseteq new
    OBVIOUS
  <2> HIDE DEF new
  <2>2. /\ store.pc = "store" /\ store.now = job[s].now /\ store.since = job[s].since
        /\ store.from = job[s].from /\ store.docs = job[s].docs
        /\ store.complete = job[s].complete /\ store.new = new
    OBVIOUS
  <2> HIDE DEF store
  <2>3. store \in JobType
    <3>1. job'[s] = store
      BY <1>3, TypeFacts DEF Goes, IInv
    <3> QED
      BY <3>1, TypeFacts DEF TypeOK
  <2>4. Begun(store) /\ Collected(store)
    BY <1>1, <2>2 DEF Begun, Collected, Within
  <2>5. Progress(store)
    BY <1>1, <2>1, <2>2, <2>4 DEF Progress
  <2> QED
    BY <1>0, <1>3, <2>3, <2>5, SweepReads
<1> HIDE DEF none, store
<1> QED
  BY <1>0, <1>2, <1>3

(* The rows that were read are banked, and the ones before them still are, *)
(* whether the browser takes the write or refuses it.                      *)
LEMMA UpsertWriteStep ==
    ASSUME IInv, TypeOK', NEW s \in Sweeps, UpsertWrites(s) \/ UpsertRefused(s)
    PROVE  IInv'
<1> DEFINE next == [pc |-> "mark", now |-> job[s].now, since |-> job[s].since, from |-> job[s].from,
                    docs |-> job[s].docs, complete |-> job[s].complete]
<1>0. /\ UNCHANGED <<today, index, setter, state>> /\ Goes(s, next)
      /\ job[s].pc = "store" /\ job[s] \in JobType
  BY TypeFacts DEF UpsertWrites, UpsertRefused, Upserted, sweepOnly, crm, storage, IInv
<1>1. /\ job[s].now <= today /\ Begun(job[s]) /\ Collected(job[s])
      /\ Mapped(job[s].docs) \subseteq job[s].new
  BY <1>0 DEF IInv, Progress
<1>2. /\ job[s].now \in Int /\ job[s].from \in Int
  BY <1>0, JobNumbers
<1>3. /\ next.pc = "mark" /\ next.now = job[s].now /\ next.from = job[s].from
      /\ next.complete = job[s].complete
  OBVIOUS
<1> HIDE DEF next
<1>4. next \in JobType
  <2>1. job'[s] = next
    BY <1>0, TypeFacts DEF Goes, IInv
  <2> QED
    BY <2>1, TypeFacts DEF TypeOK
<1>5. Later /\ Spoken(state)'
  <2>1. Later
    BY <1>1, UpsertLater DEF IInv
  <2> QED
    BY <1>0, <2>1, SpokenOrders DEF IInv
<1>6. ASSUME job[s].complete, NEW r \in Rows, r.contact \notin Unreadable,
             job[s].from <= r.day, r.day < job[s].now
      PROVE  Banked(r)'
  <2>1. Banked(r) \/ r \in Mapped(job[s].docs)
    BY <1>0, <1>1, <1>6, ReadOrSpoken DEF IInv
  <2>2. r \in IndexRow
    BY RowsType DEF IInv
  <2> QED
    BY <1>1, <2>1, <2>2, UpsertBanks DEF IInv
<1>7. PICK j \in JobType : j = next
  BY <1>4
<1>8. ASSUME j.complete PROVE Covers(j.from, j.now)'
  <2>1. Rows' = Rows
    BY <1>0 DEF Rows
  <2> QED
    BY <1>3, <1>6, <1>7, <1>8, <2>1 DEF Covers
<1>9. j.now <= today'
  BY <1>0, <1>1, <1>3, <1>7
<1>10. Progress(j)'
  BY <1>3, <1>7, <1>8, <1>9 DEF Progress
<1>11. Goes(s, j)
  BY <1>0, <1>7
<1> QED
  BY <1>0, <1>5, <1>10, <1>11, SweepKeeps

(* The cursor may go no further than the sweep has read.                   *)
LEMMA MarkReadStep ==
    ASSUME IInv, TypeOK', NEW s \in Sweeps, MarkReads(s)
    PROVE  IInv'
<1> DEFINE to   == CursorTo(job[s])
           from == IF job[s].complete THEN job[s].from ELSE to
           next == [pc |-> "marked", to |-> to, new |-> state, from |-> from]
<1>0. /\ UNCHANGED <<today, index, orders, lost, setter, state>> /\ Goes(s, next)
      /\ job[s].pc = "mark" /\ job[s] \in JobType /\ job[s] \in Searched
  BY TypeFacts, JobKinds DEF MarkReads, sweepOnly, crm, storage, IInv
<1>1. /\ job[s].now <= today /\ job[s].now \in Int /\ today \in Int /\ today >= 1
      /\ job[s].complete => Covers(job[s].from, job[s].now)
  BY <1>0, JobNumbers, RowsType DEF IInv, Progress
<1>2. to \in 0..MaxDay /\ to \in Int
  BY <1>0, MarkType, ConstantFacts
<1>3. to <= today
  <2>1. Floor(Mapped(job[s].docs)) \in Int
    BY <1>0, MappedType, FloorType, ConstantFacts DEF Searched
  <2> QED
    BY <1>1, <2>1 DEF CursorTo
<1>4. job[s].complete => to = 0 \/ to = job[s].now
  BY DEF CursorTo
<1> HIDE DEF to
<1>5. Covers(from, to)
  <2>1. CASE ~job[s].complete
    <3>1. \A r \in Rows : ~(to <= r.day /\ r.day < to)
      BY <1>2, RowsType DEF IInv
    <3> QED
      BY <2>1, <3>1 DEF Covers
  <2>2. CASE job[s].complete /\ to = 0
    <3>1. \A r \in Rows : ~(r.day < 0)
      BY RowsType DEF IInv
    <3> QED
      BY <2>2, <3>1 DEF Covers
  <2>3. CASE job[s].complete /\ to = job[s].now
    BY <1>1, <2>3
  <2> QED
    BY <1>4, <2>1, <2>2, <2>3
<1> HIDE DEF from
<1>6. next.pc = "marked" /\ next.to = to /\ next.from = from /\ next.new = state
  OBVIOUS
<1> HIDE DEF next
<1>7. next \in JobType
  <2>1. job'[s] = next
    BY <1>0, TypeFacts DEF Goes, IInv
  <2> QED
    BY <2>1, TypeFacts DEF TypeOK
<1>8. Progress(next)
  BY <1>3, <1>5, <1>6 DEF Progress, IInv
<1> QED
  BY <1>0, <1>7, <1>8, SweepReads

LEMMA MarkWriteStep ==
    ASSUME IInv, TypeOK', NEW s \in Sweeps, MarkWrites(s)
    PROVE  IInv'
<1> DEFINE next == [pc |-> "cursor", to |-> job[s].to, from |-> job[s].from]
<1>0. /\ UNCHANGED <<today, index, orders, lost, setter>> /\ Goes(s, next)
      /\ job[s].pc = "marked" /\ job[s] \in JobType
      /\ state' = job[s].new \/ state' = state
  BY TypeFacts DEF MarkWrites, Written, sweepOnly, crm, IInv
<1>1. /\ job[s].to <= today /\ Covers(job[s].from, job[s].to)
      /\ Spoken(job[s].new) /\ job[s].new \in StateType
  BY <1>0, JobNumbers DEF IInv, Progress
<1>2. Later
  BY <1>0, LaterSame DEF IInv
<1>3. Spoken(state)'
  BY <1>0, <1>1, <1>2, SpokenWritten DEF IInv
<1>4. next.pc = "cursor" /\ next.to = job[s].to /\ next.from = job[s].from
  OBVIOUS
<1> HIDE DEF next
<1>5. next \in JobType
  <2>1. job'[s] = next
    BY <1>0, TypeFacts DEF Goes, IInv
  <2> QED
    BY <2>1, TypeFacts DEF TypeOK
<1>6. Progress(next)
  BY <1>1, <1>4 DEF Progress
<1>7. PICK j \in JobType : j = next
  BY <1>5
<1>8. Progress(j)'
  BY <1>2, <1>6, <1>7, ProgressStays DEF IInv
<1> QED
  BY <1>0, <1>2, <1>3, <1>7, <1>8, SweepKeeps

LEMMA CursorReadStep ==
    ASSUME IInv, TypeOK', NEW s \in Sweeps, CursorReads(s)
    PROVE  IInv'
<1> DEFINE next == [job[s] EXCEPT !.pc = "patch"]
<1>0. /\ UNCHANGED <<today, index, orders, lost, setter, state>>
      /\ Goes(s, Idle) \/ Goes(s, next)
      /\ job[s].pc = "cursor" /\ job[s] \in JobType /\ job[s] \in Marked
  BY TypeFacts, JobKinds DEF CursorReads, Ends, sweepOnly, crm, storage, IInv
<1>1. job[s].to <= today /\ Covers(job[s].from, job[s].to)
  BY <1>0 DEF IInv, Progress
<1>2. next.pc = "patch" /\ next.to = job[s].to /\ next.from = job[s].from
  BY <1>0 DEF Marked
<1>3. next \in JobType
  BY <1>0, Kinds DEF Marked
<1> HIDE DEF next
<1>4. Progress(next)
  BY <1>1, <1>2 DEF Progress
<1>5. CASE Goes(s, next)
  BY <1>0, <1>3, <1>4, <1>5, SweepReads
<1>6. CASE Goes(s, Idle)
  BY <1>0, <1>6, Kinds, EarlyProgress, SweepReads
<1> QED
  BY <1>0, <1>5, <1>6

LEMMA CursorPatchStep ==
    ASSUME IInv, TypeOK', NEW s \in Sweeps, CursorPatches(s)
    PROVE  IInv'
<1> DEFINE new  == [state EXCEPT !.cursor = job[s].to, !.from = job[s].from]
           next == [pc |-> "patched", new |-> new]
<1>0. /\ UNCHANGED <<today, index, orders, lost, setter, state>>
      /\ Goes(s, next)
      /\ job[s].pc = "patch" /\ job[s] \in JobType
  BY TypeFacts DEF CursorPatches, sweepOnly, crm, storage, IInv
<1>1. job[s].to <= today /\ Covers(job[s].from, job[s].to)
  BY <1>0 DEF IInv, Progress
<1>2. new.cursor = job[s].to /\ new.from = job[s].from
  BY TypeFacts DEF StateType, IInv
<1> HIDE DEF new
<1>3. Spoken(new)
  BY <1>1, <1>2 DEF Spoken
<1>4. next.pc = "patched" /\ next.new = new
  OBVIOUS
<1> HIDE DEF next
<1>5. Progress(next)
  BY <1>3, <1>4 DEF Progress
<1>6. next \in JobType
  <2>1. job'[s] = next
    BY <1>0, TypeFacts DEF Goes, IInv
  <2> QED
    BY <2>1, TypeFacts DEF TypeOK
<1> QED
  BY <1>0, <1>5, <1>6, SweepReads

LEMMA CursorWriteStep ==
    ASSUME IInv, TypeOK', NEW s \in Sweeps, CursorWrites(s)
    PROVE  IInv'
<1>0. /\ UNCHANGED <<today, index, orders, lost, setter>> /\ Goes(s, Idle)
      /\ job[s].pc = "patched" /\ job[s] \in JobType
      /\ state' = job[s].new \/ state' = state
  BY TypeFacts DEF CursorWrites, Written, Ends, sweepOnly, crm, IInv
<1>1. Spoken(job[s].new) /\ job[s].new \in StateType
  BY <1>0, JobNumbers DEF IInv, Progress
<1>2. Later
  BY <1>0, LaterSame DEF IInv
<1>3. Spoken(state)'
  BY <1>0, <1>1, <1>2, SpokenWritten DEF IInv
<1>4. Progress(Idle)'
  BY DEF Progress, Idle
<1> QED
  BY <1>0, <1>2, <1>3, <1>4, Kinds, SweepKeeps

LEMMA SetterReadStep ==
    ASSUME IInv, TypeOK', SetterReads
    PROVE  IInv'
<1>0. UNCHANGED <<today, index, orders, lost, state, job>>
  BY DEF SetterReads, crm, storage
<1>1. Later /\ Sorted'
  BY <1>0, LaterSame, SortedSame DEF IInv
<1>2. Spoken(state)'
  BY <1>0, <1>1, SpokenOrders DEF IInv
<1>3. setter'.new.cursor \in {0, state.cursor} /\ setter'.new.from = state.from
  BY TypeFacts DEF SetterReads, Switched, Rewound, StateType, IInv
<1>4. Spoken(setter.new)'
  <2>1. CASE setter'.new.cursor = state.cursor
    BY <1>0, <1>2, <1>3, <2>1 DEF Spoken
  <2>2. CASE setter'.new.cursor = 0
    <3>1. \A r \in Rows' : ~(r.day < 0)
      <4>1. Rows' = Rows
        BY <1>0 DEF Rows
      <4> QED
        BY <4>1, RowsType DEF IInv
    <3>2. 0 <= today'
      BY <1>0, RowsType DEF IInv
    <3> QED
      BY <2>2, <3>1, <3>2 DEF Spoken, Covers
  <2> QED
    BY <1>3, <2>1, <2>2
<1>5. ASSUME NEW s \in Sweeps PROVE Progress(job[s])'
  <2>1. job'[s] = job[s] /\ Progress(job[s])
    BY <1>0 DEF IInv
  <2> QED
    BY <1>1, <2>1, JobStays DEF IInv
<1> QED
  BY <1>1, <1>2, <1>4, <1>5 DEF IInv

LEMMA SetterWriteStep ==
    ASSUME IInv, TypeOK', SetterWrites
    PROVE  IInv'
<1>0. /\ UNCHANGED <<today, index, orders, lost, job>>
      /\ state' = setter.new \/ state' = state
      /\ setter' = Idle /\ setter.pc = "write"
  BY DEF SetterWrites, Written, crm
<1>1. Later /\ Sorted'
  BY <1>0, LaterSame, SortedSame DEF IInv
<1>2. Spoken(state)'
  <2>1. setter.new \in StateType /\ Spoken(setter.new) /\ Spoken(state)
    BY <1>0 DEF IInv, TypeOK, Idle
  <2> QED
    BY <1>0, <1>1, <2>1, SpokenWritten DEF IInv
<1>3. ~(setter'.pc = "write")
  BY <1>0 DEF Idle
<1>4. ASSUME NEW s \in Sweeps PROVE Progress(job[s])'
  <2>1. job'[s] = job[s] /\ Progress(job[s])
    BY <1>0 DEF IInv
  <2> QED
    BY <1>1, <2>1, JobStays DEF IInv
<1> QED
  BY <1>1, <1>2, <1>3, <1>4 DEF IInv

LEMMA KillStep ==
    ASSUME IInv, TypeOK', Kill
    PROVE  IInv'
<1>0. /\ UNCHANGED <<today, index, orders, lost, state>>
      /\ job' = [s \in Sweeps |-> Idle] /\ setter' = Idle
  BY DEF Kill, crm, storage
<1>1. Later /\ Sorted'
  BY <1>0, LaterSame, SortedSame DEF IInv
<1>2. Spoken(state)'
  BY <1>0, <1>1, SpokenOrders DEF IInv
<1>3. ~(setter'.pc = "write")
  BY <1>0 DEF Idle
<1>4. ASSUME NEW s \in Sweeps PROVE Progress(job[s])'
  <2>1. job'[s] = Idle
    BY <1>0
  <2> QED
    BY <2>1 DEF Progress, Idle
<1> QED
  BY <1>1, <1>2, <1>3, <1>4 DEF IInv

(* The steps of the CRM, of the captures and of the flag.                  *)
LEMMA OtherStep ==
    ASSUME IInv, TypeOK',
           \/ \E c \in Contacts : Order(c)
           \/ Midnight
           \/ \E t \in Tabs, o \in Opps : Save(t, o)
           \/ \E o \in Opps : Close(o)
           \/ \E t \in Tabs : Captures(t)
           \/ \E on \in BOOLEAN : SetFlag(on)
           \/ UNCHANGED vars
    PROVE  IInv'
<1>1. UNCHANGED <<state, setter, job>>
  BY DEF Order, Midnight, Save, Close, Captures, CaptureReads, CaptureWrites, SetFlag, vars, worker,
         storage
<1>2. Later /\ Sorted'
  <2>1. ASSUME NEW c \in Contacts, Order(c) PROVE Later /\ Sorted'
    BY <2>1, OrderLater DEF IInv
  <2>2. CASE Midnight
    BY <2>2, MidnightLater DEF IInv
  <2>3. CASE \/ \E t \in Tabs, o \in Opps : Save(t, o)
             \/ \E o \in Opps : Close(o)
             \/ \E t \in Tabs : Captures(t)
             \/ \E on \in BOOLEAN : SetFlag(on)
             \/ UNCHANGED vars
    <3>1. UNCHANGED <<today, index, orders, lost>>
      BY <2>3 DEF Save, Close, Captures, CaptureReads, CaptureWrites, SetFlag, vars, crm, storage
    <3> QED
      BY <3>1, LaterSame, SortedSame DEF IInv
  <2> QED
    BY <2>1, <2>2, <2>3
<1> QED
  BY <1>1, <1>2, Elsewhere

LEMMA Initial == Init => IInv
<1> SUFFICES ASSUME Init PROVE IInv
  OBVIOUS
<1>1. TypeOK /\ \A i \in DOMAIN index : index[i].day = 1
  BY InitType
<1>2. Sorted
  <2> DEFINE first == [contact : Earlier, day : {1}]
  <2>1. index \in [1..Cardinality(first) -> first]
        /\ \A i, k \in 1..Cardinality(first) : i # k => index[i] # index[k]
    BY DEF Init, SetToSeqs
  <2>2. DOMAIN index = 1..Cardinality(first) /\ \A i \in DOMAIN index : index[i] \in first
    BY <2>1
  <2>3. \A x, y \in first : x.contact = y.contact => x = y
    OBVIOUS
  <2> HIDE DEF first
  <2>4. ASSUME NEW i \in DOMAIN index, NEW k \in DOMAIN index, i < k
        PROVE  index[i].contact # index[k].contact
    <3>1. i # k
      BY <1>1, <2>4, RowsType
    <3> QED
      BY <2>1, <2>2, <2>3, <3>1
  <2>5. 1 <= today /\ 1 <= 1
    BY <1>1, RowsType
  <2> QED
    BY <1>1, <2>4, <2>5 DEF Sorted
<1>3. Spoken(state)
  <2>1. state.cursor = 0 /\ today >= 1
    BY <1>1, RowsType DEF Init
  <2>2. \A r \in Rows : ~(r.day < 0)
    BY <1>1, RowsType
  <2> QED
    BY <1>1, <2>1, <2>2, RowsType DEF Spoken, Covers
<1>4. ~(setter.pc = "write")
  BY DEF Init, Idle
<1>5. \A s \in Sweeps : Progress(job[s])
  BY EarlyProgress DEF Init
<1> QED
  BY <1>1, <1>2, <1>3, <1>4, <1>5 DEF IInv

(* What the sweeps, the setter and the stored state know of the index and  *)
(* the table is kept by every step of lib/tracker-runtime.js,              *)
(* lib/tracker-store.js and the CRM.                                       *)
THEOREM Inductive == IInv /\ [Next]_vars => IInv'
<1> SUFFICES ASSUME IInv, [Next]_vars PROVE IInv'
  OBVIOUS
<1>1. TypeOK'
  BY TypeStep DEF IInv
<1>2. ASSUME NEW s \in Sweeps, SweepStarts(s) \/ Proceeds(s) PROVE IInv'
  BY <1>1, <1>2, EarlyStep, PollStep, PageStep, UpsertReadStep, UpsertWriteStep, MarkReadStep,
     MarkWriteStep, CursorReadStep, CursorPatchStep, CursorWriteStep DEF Proceeds
<1> QED
  BY <1>1, <1>2, OtherStep, SetterReadStep, SetterWriteStep, KillStep DEF Next

(* The cursor lib/tracker-store.js marks never passes an order unread: of  *)
(* every readable row the index shows, from the first day the cursor       *)
(* speaks for to the day before it, the table was told.  It has the row,   *)
(* or newer ones fill it, or the write of just that row was refused or     *)
(* written over by a sweep that had not read it.                           *)
THEOREM CursorNeverSkips == Spec => []CursorBanked
<1>1. Init => IInv
  BY Initial
<1>2. IInv /\ [Next]_vars => IInv'
  BY Inductive
<1>3. IInv => CursorBanked
  BY DEF IInv, Spoken, Covers, CursorBanked
<1> QED
  BY <1>1, <1>2, <1>3, PTL DEF Spec
-----------------------------------------------------------------------------
(* The alarm by itself.                                                    *)

(* No sweep of the console or the dashboard beside the one of the alarm,   *)
(* and no write of the table of orders refused.                            *)
Alone == Init /\ [][Next /\ job'["console"] = Idle /\ ~UpsertRefused("alarm")]_vars

(* The rows an upsert is about to write hold all that is stored.           *)
Unshared ==
    /\ lost = {} /\ job["console"] = Idle
    /\ job["alarm"].pc = "store" => orders \subseteq job["alarm"].new

(* Only an upsert writes orders, and only a read of them begins one.       *)
LEMMA StoreFrame ==
    ASSUME TypeOK, Next
    PROVE  \/ /\ UNCHANGED <<orders, lost>>
              /\ job'["alarm"].pc = "store" =>
                    \/ job'["alarm"] = job["alarm"]
                    \/ orders \subseteq job'["alarm"].new
           \/ \E s \in Sweeps : UpsertWrites(s) \/ UpsertRefused(s)
<1>1. job \in [Sweeps -> JobType] /\ "alarm" \in Sweeps
  BY DEF TypeOK, Sweeps
<1>2. CASE \/ \E c \in Contacts : Order(c)
           \/ Midnight
           \/ \E t \in Tabs, o \in Opps : Save(t, o)
           \/ \E o \in Opps : Close(o)
           \/ \E t \in Tabs : Captures(t)
           \/ \E on \in BOOLEAN : SetFlag(on)
           \/ SetterReads \/ SetterWrites
  BY <1>2 DEF Order, Midnight, Save, Close, Captures, CaptureReads, CaptureWrites, SetFlag,
              SetterReads, SetterWrites, worker, storage
<1>3. CASE Kill
  BY <1>1, <1>3 DEF Kill, storage, Idle
<1>4. ASSUME NEW s \in Sweeps, SweepStarts(s) \/ Proceeds(s), ~UpsertWrites(s), ~UpsertRefused(s)
      PROVE  /\ UNCHANGED <<orders, lost>>
             /\ job'["alarm"].pc = "store" =>
                   \/ job'["alarm"] = job["alarm"]
                   \/ orders \subseteq job'["alarm"].new
  <2>1. UNCHANGED <<orders, lost>>
    BY <1>4 DEF SweepStarts, Proceeds, SweepEnters, SweepCollects, Lists, Asks, PutReads, PutWrites,
                PollDue, PollNotDue, SearchPage, SearchFails, UpsertReads, MarkReads, MarkWrites,
                CursorReads, CursorPatches, CursorWrites, sweepOnly, storage
  <2>2. CASE s # "alarm"
    <3>1. \E next : job' = [job EXCEPT ![s] = next]
      BY <1>4 DEF SweepStarts, Proceeds, SweepEnters, SweepCollects, Lists, Asks, PutReads,
                  PutWrites, PollDue, PollNotDue, SearchPage, SearchFails, UpsertReads, MarkReads,
                  MarkWrites, CursorReads, CursorPatches, CursorWrites, Ends, Goes
    <3> QED
      BY <1>1, <2>1, <2>2, <3>1
  <2>3. ASSUME s = "alarm", job'[s].pc = "store" PROVE orders \subseteq job'[s].new
    <3>1. job[s] \in JobType
      BY <1>1
    <3>2. CASE UpsertReads(s)
      <4> DEFINE new   == orders \cup Mapped(job[s].docs)
                 none  == [job[s] EXCEPT !.pc = "mark"]
                 store == [pc |-> "store", now |-> job[s].now, since |-> job[s].since,
                           from |-> job[s].from, docs |-> job[s].docs,
                           complete |-> job[s].complete, new |-> new]
      <4>1. job[s] \in Searched
        BY <3>1, <3>2, JobKinds DEF UpsertReads
      <4>2. job'[s] = none \/ job'[s] = store
        BY <1>1, <3>2 DEF UpsertReads, Goes
      <4>3. none.pc = "mark"
        BY <4>1 DEF Searched
      <4>4. store.new = new /\ orders \subseteq new
        OBVIOUS
      <4> HIDE DEF new, none, store
      <4> QED
        BY <2>3, <4>2, <4>3, <4>4
    <3>3. CASE \/ SweepStarts(s) \/ SweepEnters(s) \/ SweepCollects(s)
               \/ PutReads(s) \/ PutWrites(s) \/ PollDue(s) \/ PollNotDue(s) \/ SearchFails(s)
               \/ MarkReads(s) \/ MarkWrites(s) \/ CursorPatches(s) \/ CursorWrites(s)
      BY <1>1, <2>3, <3>3 DEF SweepStarts, SweepEnters, SweepCollects, PutReads, PutWrites, PollDue,
         PollNotDue, SearchFails, MarkReads, MarkWrites, CursorPatches, CursorWrites, Ends, Goes, Idle
    <3>7. CASE CursorReads(s)
      <4> DEFINE next == [job[s] EXCEPT !.pc = "patch"]
      <4>1. next.pc = "patch"
        BY <3>1, <3>7, JobKinds DEF CursorReads, Marked
      <4>2. job'[s] = next \/ job'[s] = Idle
        BY <1>1, <3>7 DEF CursorReads, Ends, Goes
      <4> HIDE DEF next
      <4>3. Idle.pc # "store"
        BY DEF Idle
      <4> QED
        BY <2>3, <4>1, <4>2, <4>3
    <3>4. ASSUME NEW due \in SUBSET Opps, Lists(s, due) PROVE FALSE
      <4>1. [job[s] EXCEPT !.pc = "poll"].pc = "poll"
        BY <3>1, <3>4, JobKinds DEF Lists, Entered
      <4>2. \/ job'[s] = [job[s] EXCEPT !.pc = "poll"]
            \/ job'[s].pc = "ask"
        BY <1>1, <3>4 DEF Lists, Goes
      <4> QED
        BY <2>3, <4>1, <4>2
    <3>5. CASE Asks(s)
      <4>1. PICK o, row :
                job'[s] = [job[s] EXCEPT !.left = @ \ {o}, !.rows[o] = row,
                              !.pc = IF job[s].left = {o} THEN "put" ELSE "ask"]
        BY <1>1, <3>5 DEF Asks, Goes
      <4>2. job[s] \in Asking
        BY <3>1, <3>5, JobKinds DEF Asks
      <4>3. job'[s].pc \in {"put", "ask"}
        BY <4>1, <4>2 DEF Asking
      <4> QED
        BY <2>3, <4>3
    <3>6. CASE SearchPage(s)
      <4>1. job[s] \in Searching
        BY <3>1, <3>6, JobKinds DEF SearchPage
      <4>2. \/ job'[s].pc = "upsert"
            \/ \E docs : job'[s] = [job[s] EXCEPT !.docs = docs]
        BY <1>1, <3>6 DEF SearchPage, Goes
      <4>3. job'[s].pc \in {"upsert", "search"}
        BY <4>1, <4>2 DEF Searching
      <4> QED
        BY <2>3, <4>3
    <3> QED
      BY <1>4, <3>2, <3>3, <3>4, <3>5, <3>6, <3>7 DEF Proceeds
  <2> QED
    BY <2>1, <2>2, <2>3
<1> QED
  BY <1>2, <1>3, <1>4 DEF Next

LEMMA UnsharedStep ==
    ASSUME TypeOK, Unshared, Next, job'["console"] = Idle, ~UpsertRefused("alarm")
    PROVE  Unshared'
<1>1. job \in [Sweeps -> JobType] /\ "alarm" \in Sweeps
  BY DEF TypeOK, Sweeps
<1>2. CASE /\ UNCHANGED <<orders, lost>>
           /\ job'["alarm"].pc = "store" =>
                 \/ job'["alarm"] = job["alarm"]
                 \/ orders \subseteq job'["alarm"].new
  BY <1>2 DEF Unshared
<1>3. ASSUME NEW s \in Sweeps, UpsertWrites(s) \/ UpsertRefused(s) PROVE Unshared'
  <2>1. s = "alarm" /\ UpsertWrites(s)
    BY <1>3 DEF UpsertWrites, UpsertRefused, Unshared, Idle, Sweeps
  <2>2. lost' = {}
    BY <2>1 DEF UpsertWrites, Unshared
  <2>3. job'["alarm"].pc = "mark"
    BY <1>1, <2>1 DEF UpsertWrites, Upserted, Goes
  <2> QED
    BY <2>2, <2>3 DEF Unshared
<1> QED
  BY <1>2, <1>3, StoreFrame

(* While no sweep of the console runs beside the alarm's and the browser   *)
(* refuses no write of the table, every readable row the cursor of         *)
(* lib/tracker-store.js speaks for is in the table, or newer ones fill it, *)
(* without the exception CursorBanked makes, whatever else fails, is       *)
(* truncated, switched, rewound or killed.                                 *)
THEOREM AlarmAloneSkipsNothing ==
    Alone => [](\A r \in Rows :
        r.contact \notin Unreadable /\ state.from <= r.day /\ r.day < state.cursor => Stored(r))
<1>1. Init => IInv /\ Unshared
  BY Initial DEF Init, Unshared, Idle, Sweeps
<1>2. IInv /\ Unshared /\ [Next /\ job'["console"] = Idle /\ ~UpsertRefused("alarm")]_vars
        => (IInv /\ Unshared)'
  <2> SUFFICES ASSUME IInv, Unshared,
                      [Next /\ job'["console"] = Idle /\ ~UpsertRefused("alarm")]_vars
               PROVE  IInv' /\ Unshared'
    OBVIOUS
  <2>1. IInv'
    BY Inductive
  <2>2. CASE UNCHANGED vars
    BY <2>1, <2>2 DEF vars, storage, worker, Unshared
  <2>3. CASE Next /\ job'["console"] = Idle /\ ~UpsertRefused("alarm")
    BY <2>1, <2>3, UnsharedStep DEF IInv
  <2> QED
    BY <2>2, <2>3
<1>3. IInv /\ Unshared => \A r \in Rows :
        r.contact \notin Unreadable /\ state.from <= r.day /\ r.day < state.cursor => Stored(r)
  <2> SUFFICES ASSUME IInv, Unshared, NEW r \in Rows, r.contact \notin Unreadable,
                      state.from <= r.day, r.day < state.cursor
               PROVE  Stored(r)
    OBVIOUS
  <2>1. Banked(r) /\ orders \cup lost = orders
    BY DEF IInv, Spoken, Covers, Unshared
  <2> QED
    BY <2>1 DEF Banked, Stored
<1> QED
  BY <1>1, <1>2, <1>3, PTL DEF Alone
=============================================================================
