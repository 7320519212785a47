---------------------------- MODULE TrackerSweep ----------------------------
(***************************************************************************)
(* lib/tracker-runtime.js over lib/tracker-store.js and                    *)
(* lib/tracker-registry.js: the trackers of the worker.                    *)
(*                                                                         *)
(* An alarm runs a sweep.  It asks the CRM again about the opportunities   *)
(* that captures of the CRM's own requests have put into a table, and it   *)
(* reads the search index, newest first and page by page, for the orders   *)
(* since a cursor.  Every write of a table or of the shared scheduler      *)
(* state is an unserialised read, change and write, the guard against a    *)
(* second sweep is only set behind the first awaits, and a write that the  *)
(* browser refuses looks like one it took: write() resolves either way,    *)
(* and whoever awaits it goes on.                                          *)
(*                                                                         *)
(* Time is the day: the index stamps orders with midnight and is asked     *)
(* from midnight, so two instants of a day differ in nothing below.  When  *)
(* a poll or a row is due again is left open, and only fairness says that  *)
(* it is due again and again; lastPolledAt is then no part of the state,   *)
(* but the write of it is.                                                 *)
(***************************************************************************)
EXTENDS Integers, Sequences, FiniteSets, SequencesExt

CONSTANTS Contacts,   \* contacts of the rep
          Unreadable, \* the ones whose search row maps to no record
          Earlier,    \* the ones that ordered on the day before the first
          Opps,       \* opportunities
          Tabs,       \* CRM tabs that capture
          PageRows, MaxPages,  \* ROWS and MAX_PAGES of the CRM page
          Lookback,   \* RECENT_ORDERS_LOOKBACK_DAYS
          MaxRecords, \* retention.maxRecords of the orders
          MaxFailures,  \* refresh.maxFailures
          MaxDay, MaxEvents, MaxMishaps  \* bounds

ASSUME TrackerAssumption ==
    /\ IsFiniteSet(Contacts) /\ {Unreadable, Earlier} \subseteq SUBSET Contacts
    /\ PageRows \in Nat \ {0} /\ MaxPages \in Nat \ {0}
    /\ Lookback \in Nat /\ MaxRecords \in Nat \ {0} /\ MaxFailures \in Nat \ {0}
    /\ MaxDay \in Nat \ {0, 1} /\ {MaxEvents, MaxMishaps} \subseteq Nat

VARIABLES
    today, index, stage,  \* the CRM: the day, the search index, the stages
    flag,      \* featureFlags.trackersEnabled
    state,     \* gbTrackerState: the switches, the data cursor, and (history)
               \* the first day the cursor speaks for
    orders,    \* gbTracker:recent-orders
    table,     \* gbTracker:opportunities
    sweeping,  \* the guard of sweep()
    job,       \* the sweeps under way
    capture,   \* the capture under way for each tab
    setter,    \* setEnabled or resetCursor under way
    lost,      \* history: the orders an upsert was to store when the browser
               \* refused the write, or wrote over without having read them
    events, mishaps  \* orders, saves, mishaps so far; the mishaps of them

crm     == <<today, index, stage>>
storage == <<flag, state, orders, table>>
worker  == <<sweeping, job, capture, setter>>
bounds  == <<events, mishaps>>
vars    == <<crm, storage, worker, lost, bounds>>

Sweeps   == {"alarm", "console"}
Trackers == {"opportunities", "orders"}

NoRow == [status |-> "none", settled |-> FALSE, failures |-> 0]

Captured(status) == [status |-> status, settled |-> FALSE, failures |-> 0]

Idle == [pc |-> "idle"]

Init ==
    /\ today = 2 /\ index \in SetToSeqs([contact : Earlier, day : {1}]) /\ stage = [o \in Opps |-> "none"]
    /\ flag = TRUE
    /\ state = [on |-> Trackers, cursor |-> 0, from |-> 0]
    /\ orders = {} /\ table = [o \in Opps |-> NoRow]
    /\ sweeping = FALSE /\ job = [s \in Sweeps |-> Idle]
    /\ capture = [t \in Tabs |-> Idle] /\ setter = Idle
    /\ lost = {}
    /\ events = 0 /\ mishaps = 0

Event  == events < MaxEvents /\ events' = events + 1
Mishap == Event /\ mishaps < MaxMishaps /\ mishaps' = mishaps + 1

(* write(): the key holds the new value, or the browser refused it.        *)
Written(next, old, new) ==
    \/ next = new /\ UNCHANGED bounds
    \/ next = old /\ Mishap
-----------------------------------------------------------------------------
(* The CRM.                                                                *)

(* A contact orders: its row comes to the front of the index.              *)
Order(c) ==
    LET row == [contact |-> c, day |-> today]
    IN  /\ Event
        /\ \/ /\ \A i \in DOMAIN index : index[i].contact # c
              /\ index' = Cons(row, index)
           \/ \E i \in DOMAIN index : /\ index[i].contact = c /\ index[i] # row
                                      /\ index' = Cons(row, RemoveAt(index, i))
        /\ UNCHANGED <<today, stage, storage, worker, lost, mishaps>>

Midnight ==
    /\ today < MaxDay
    /\ today' = today + 1
    /\ UNCHANGED <<index, stage, storage, worker, lost, bounds>>

(* The rep creates or updates an opportunity in a tab, whose request the   *)
(* page hook forwards to the worker.                                       *)
Save(t, o) ==
    /\ Event
    /\ capture[t] = Idle
    /\ \E new \in (IF stage[o] = "none" THEN {"open"} ELSE {"open", "closed"}) :
        /\ stage' = [stage EXCEPT ![o] = new]
        /\ capture' = [capture EXCEPT ![t] = [pc |-> "read", opp |-> o, status |-> new]]
    /\ UNCHANGED <<today, index, storage, sweeping, job, setter, lost, mishaps>>

(* Somebody else closes it; no request of the rep says so.                 *)
Close(o) ==
    /\ stage[o] = "open"
    /\ stage' = [stage EXCEPT ![o] = "closed"]
    /\ UNCHANGED <<today, index, storage, worker, lost, bounds>>
-----------------------------------------------------------------------------
(* capture(): the flag and the switches, then upsert().                    *)

CaptureReads(t) ==
    /\ capture[t].pc = "read"
    /\ capture' = [capture EXCEPT ![t] =
           IF flag /\ "opportunities" \in state.on
           THEN [pc |-> "write", new |-> [table EXCEPT ![capture[t].opp] = Captured(capture[t].status)]]
           ELSE Idle]
    /\ UNCHANGED <<crm, storage, sweeping, job, setter, lost, bounds>>

(* mergeRecord() gives a stored row the captured status and the empty      *)
(* refresh history of a new one, also if it had settled.                   *)
CaptureWrites(t) ==
    /\ capture[t].pc = "write"
    /\ Written(table', table, capture[t].new)
    /\ capture' = [capture EXCEPT ![t] = Idle]
    /\ UNCHANGED <<crm, flag, state, orders, sweeping, job, setter, lost>>
-----------------------------------------------------------------------------
(* The switches.                                                           *)

SetFlag(on) ==
    /\ Mishap
    /\ flag # on /\ flag' = on
    /\ UNCHANGED <<crm, state, orders, table, worker, lost>>

Switched(s, tracker) ==
    [s EXCEPT !.on = IF tracker \in @ THEN @ \ {tracker} ELSE @ \cup {tracker}]

Rewound(s) == [s EXCEPT !.cursor = 0]

(* setEnabled() and resetCursor() read the whole state ...                 *)
SetterReads ==
    /\ Mishap
    /\ setter = Idle
    /\ \/ \E tracker \in Trackers : setter' = [pc |-> "write", new |-> Switched(state, tracker)]
       \/ setter' = [pc |-> "write", new |-> Rewound(state)]
    /\ UNCHANGED <<crm, storage, sweeping, job, capture, lost>>

(* ... and write it back.                                                  *)
SetterWrites ==
    /\ setter.pc = "write"
    /\ Written(state', state, setter.new)
    /\ setter' = Idle
    /\ UNCHANGED <<crm, flag, orders, table, sweeping, job, capture, lost>>
-----------------------------------------------------------------------------
(* sweep().                                                                *)

sweepOnly == <<crm, capture, setter>>

Goes(s, next) == job' = [job EXCEPT ![s] = next]

Ends(s) == Goes(s, Idle) /\ sweeping' = FALSE

(* The alarm, or the console or the dashboard beside it.                   *)
SweepStarts(s) ==
    /\ job[s] = Idle
    /\ ~sweeping
    /\ IF s = "console" THEN Mishap ELSE UNCHANGED bounds
    /\ Goes(s, [pc |-> "start", now |-> today])
    /\ UNCHANGED <<crm, storage, sweeping, capture, setter, lost>>

(* The flag was read, and the guard is set.                                *)
SweepEnters(s) ==
    /\ job[s].pc = "start"
    /\ IF flag
       THEN sweeping' = TRUE /\ Goes(s, [pc |-> "entered", now |-> job[s].now])
       ELSE Goes(s, Idle) /\ UNCHANGED sweeping
    /\ UNCHANGED <<sweepOnly, storage, lost, bounds>>

(* The switches are read once.                                             *)
SweepCollects(s) ==
    /\ job[s].pc = "entered"
    /\ Goes(s, [pc |-> "list", now |-> job[s].now, on |-> state.on])
    /\ UNCHANGED <<sweepOnly, storage, sweeping, lost, bounds>>

(* refreshTracker(): the rows that are due.                                *)
Lists(s, due) ==
    /\ job[s].pc = "list"
    /\ due \subseteq {o \in Opps : table[o] # NoRow /\ ~table[o].settled}
    /\ "opportunities" \in job[s].on \/ due = {}
    /\ Goes(s, IF due = {} THEN [job[s] EXCEPT !.pc = "poll"]
               ELSE [pc |-> "ask", now |-> job[s].now, on |-> job[s].on,
                     left |-> due, rows |-> [o \in due |-> table[o]]])
    /\ UNCHANGED <<sweepOnly, storage, sweeping, lost, bounds>>

(* Mutant: any answer settles the row.                                     *)
AnsweredOnce(row, status) == [status |-> status, settled |-> TRUE, failures |-> 0]

(* applyRefresh() of the answer to one row, or of a failure.               *)
Answered(row, status) ==
    [status |-> status, settled |-> status = "closed", failures |-> 0]

Failed(row) ==
    [row EXCEPT !.failures = @ + 1, !.settled = row.failures + 1 >= MaxFailures]

Asks(s) ==
    /\ job[s].pc = "ask"
    /\ \E o \in job[s].left :
        LET asked(row) == Goes(s, [job[s] EXCEPT
                !.left = @ \ {o}, !.rows[o] = row, !.pc = IF job[s].left = {o} THEN "put" ELSE "ask"])
        IN  \/ asked(Answered(job[s].rows[o], stage[o])) /\ UNCHANGED bounds
            \/ Mishap /\ asked(Failed(job[s].rows[o]))
    /\ UNCHANGED <<sweepOnly, storage, sweeping, lost>>

(* put(): rows that are still stored are replaced.                         *)
PutReads(s) ==
    /\ job[s].pc = "put"
    /\ Goes(s, [pc |-> "putWrite", now |-> job[s].now, on |-> job[s].on, new |->
           [o \in Opps |-> IF o \in DOMAIN job[s].rows /\ table[o] # NoRow
                           THEN job[s].rows[o] ELSE table[o]]])
    /\ UNCHANGED <<sweepOnly, storage, sweeping, lost, bounds>>

PutWrites(s) ==
    /\ job[s].pc = "putWrite"
    /\ Written(table', table, job[s].new)
    /\ Goes(s, [pc |-> "poll", now |-> job[s].now, on |-> job[s].on])
    /\ UNCHANGED <<sweepOnly, flag, state, orders, sweeping, lost>>
-----------------------------------------------------------------------------
(* pollTracker().                                                          *)

PollDue(s) ==
    /\ job[s].pc = "poll"
    /\ "orders" \in job[s].on
    /\ Goes(s, [pc |-> "search", now |-> job[s].now, since |-> state.cursor, docs |-> <<>>,
                from |-> IF state.cursor = 0 THEN job[s].now - Lookback ELSE state.from])
    /\ UNCHANGED <<sweepOnly, storage, sweeping, lost, bounds>>

PollNotDue(s) ==
    /\ job[s].pc = "poll"
    /\ Ends(s)
    /\ UNCHANGED <<sweepOnly, storage, lost, bounds>>

(* recentOrdersSinceDay(): an unset cursor looks back.                     *)
SinceDay(cursor, now) ==
    IF cursor = 0 THEN now - Lookback ELSE IF cursor < now THEN cursor ELSE now

(* The rows that match are the first ones, as the newest come first.       *)
Window(day) == SubSeq(index, 1, Cardinality({i \in DOMAIN index : index[i].day >= day}))

(* One page of the search, counted from what was returned so far.          *)
SearchPage(s) ==
    LET window == Window(SinceDay(job[s].since, job[s].now))
        n      == Len(job[s].docs)
        page   == SubSeq(window, n + 1, IF n + PageRows < Len(window) THEN n + PageRows ELSE Len(window))
        docs   == job[s].docs \o page
        done   == page = <<>> \/ Len(docs) >= Len(window) \/ Len(docs) >= PageRows * MaxPages
    IN  /\ job[s].pc = "search"
        /\ Goes(s, IF done
                   THEN [pc |-> "upsert", now |-> job[s].now, since |-> job[s].since, from |-> job[s].from,
                         docs |-> {docs[i] : i \in DOMAIN docs}, complete |-> Len(docs) >= Len(window)]
                   ELSE [job[s] EXCEPT !.docs = docs])
        /\ UNCHANGED <<sweepOnly, storage, sweeping, lost, bounds>>

(* Mutant: the guard stays up behind a failed read.                        *)
SearchFailsGuarded(s) ==
    /\ job[s].pc = "search"
    /\ Mishap
    /\ Goes(s, Idle)
    /\ UNCHANGED <<sweepOnly, storage, sweeping, lost>>

(* No CRM tab, no employee, a failed page or no answer in time: nothing is *)
(* marked.                                                                 *)
SearchFails(s) ==
    /\ job[s].pc = "search"
    /\ Mishap
    /\ Ends(s)
    /\ UNCHANGED <<sweepOnly, storage, lost>>

Mapped(docs) == {r \in docs : r.contact \notin Unreadable}

(* upsert() of the mapped rows; without one nothing is written.            *)
UpsertReads(s) ==
    /\ job[s].pc = "upsert"
    /\ Goes(s, IF Mapped(job[s].docs) = {} THEN [job[s] EXCEPT !.pc = "mark"]
               ELSE [pc |-> "store", now |-> job[s].now, since |-> job[s].since, from |-> job[s].from,
                     docs |-> job[s].docs, complete |-> job[s].complete,
                     new |-> orders \cup Mapped(job[s].docs)])
    /\ UNCHANGED <<sweepOnly, storage, sweeping, lost, bounds>>

(* retain(): the newest records.  (None gets as old as maxAgeDays here.)   *)
Retained(rows) ==
    IF Cardinality(rows) <= MaxRecords THEN {rows}
    ELSE {kept \in SUBSET rows : /\ Cardinality(kept) = MaxRecords
                                 /\ \A r \in kept, q \in rows \ kept : r.day >= q.day}

Upserted(s) ==
    Goes(s, [pc |-> "mark", now |-> job[s].now, since |-> job[s].since, from |-> job[s].from,
             docs |-> job[s].docs, complete |-> job[s].complete])

UpsertWrites(s) ==
    /\ job[s].pc = "store"
    /\ \E kept \in Retained(job[s].new) : orders' = kept
    /\ lost' = (lost \cup orders) \ job[s].new
    /\ Upserted(s)
    /\ UNCHANGED <<sweepOnly, flag, state, table, sweeping, bounds>>

(* The browser refuses the write; the poll goes on as if it had not.       *)
UpsertRefused(s) ==
    /\ job[s].pc = "store"
    /\ Mishap
    /\ lost' = lost \cup (Mapped(job[s].docs) \ orders)
    /\ Upserted(s)
    /\ UNCHANGED <<sweepOnly, storage, sweeping>>

(* The oldest stored row.                                                  *)
Floor(rows) ==
    IF rows = {} THEN 0 ELSE CHOOSE d \in {r.day : r \in rows} : \A r \in rows : d <= r.day

(* Mutant: the time is taken when the cursor is marked.                    *)
CursorToMarked(j) ==
    LET floor == Floor(Mapped(j.docs))
    IN  IF j.docs # {} /\ Mapped(j.docs) = {} THEN 0
        ELSE IF j.complete THEN today
        ELSE IF floor > j.since /\ floor <= j.now THEN floor ELSE 0

(* Where the cursor may go: to the time the sweep began if the window was  *)
(* read to its end, to the oldest stored row if not, nowhere (0) if rows   *)
(* were read and none could be mapped.                                     *)
CursorTo(j) ==
    LET floor == Floor(Mapped(j.docs))
    IN  IF j.docs # {} /\ Mapped(j.docs) = {} THEN 0
        ELSE IF j.complete THEN j.now
        ELSE IF floor > j.since /\ floor <= j.now THEN floor ELSE 0

(* markPolled() reads the whole state and writes it back.                  *)
MarkReads(s) ==
    /\ job[s].pc = "mark"
    /\ Goes(s, [pc |-> "marked", to |-> CursorTo(job[s]), new |-> state,
                from |-> IF job[s].complete THEN job[s].from ELSE CursorTo(job[s])])
    /\ UNCHANGED <<sweepOnly, storage, sweeping, lost, bounds>>

MarkWrites(s) ==
    /\ job[s].pc = "marked"
    /\ Written(state', state, job[s].new)
    /\ Goes(s, [pc |-> "cursor", to |-> job[s].to, from |-> job[s].from])
    /\ UNCHANGED <<sweepOnly, flag, orders, table, sweeping, lost>>

(* markCursor(): never backwards from where it was when it looked ...      *)
CursorReads(s) ==
    /\ job[s].pc = "cursor"
    /\ IF job[s].to <= state.cursor THEN Ends(s)
       ELSE Goes(s, [job[s] EXCEPT !.pc = "patch"]) /\ UNCHANGED sweeping
    /\ UNCHANGED <<sweepOnly, storage, lost, bounds>>

(* ... and patchState() reads the whole state once more.                   *)
CursorPatches(s) ==
    /\ job[s].pc = "patch"
    /\ Goes(s, [pc |-> "patched",
                new |-> [state EXCEPT !.cursor = job[s].to, !.from = job[s].from]])
    /\ UNCHANGED <<sweepOnly, storage, sweeping, lost, bounds>>

CursorWrites(s) ==
    /\ job[s].pc = "patched"
    /\ Written(state', state, job[s].new)
    /\ Ends(s)
    /\ UNCHANGED <<sweepOnly, flag, orders, table, lost>>
-----------------------------------------------------------------------------
(* The browser stops the worker.                                           *)
Kill ==
    /\ Mishap
    /\ sweeping' = FALSE /\ job' = [s \in Sweeps |-> Idle]
    /\ capture' = [t \in Tabs |-> Idle] /\ setter' = Idle
    /\ UNCHANGED <<crm, storage, lost>>

Proceeds(s) ==
    \/ SweepEnters(s) \/ SweepCollects(s) \/ \E due \in SUBSET Opps : Lists(s, due)
    \/ Asks(s) \/ PutReads(s) \/ PutWrites(s)
    \/ PollDue(s) \/ PollNotDue(s) \/ SearchPage(s) \/ SearchFails(s)
    \/ UpsertReads(s) \/ UpsertWrites(s) \/ UpsertRefused(s) \/ MarkReads(s) \/ MarkWrites(s)
    \/ CursorReads(s) \/ CursorPatches(s) \/ CursorWrites(s)

Captures(t) == CaptureReads(t) \/ CaptureWrites(t)

Next ==
    \/ \E c \in Contacts : Order(c)
    \/ Midnight
    \/ \E t \in Tabs, o \in Opps : Save(t, o)
    \/ \E o \in Opps : Close(o)
    \/ \E t \in Tabs : Captures(t)
    \/ \E on \in BOOLEAN : SetFlag(on)
    \/ SetterReads \/ SetterWrites
    \/ \E s \in Sweeps : SweepStarts(s) \/ Proceeds(s)
    \/ Kill

Spec == Init /\ [][Next]_vars

(* The alarm recurs while the flag is on, every await is answered or times *)
(* out, and a poll and a row that is not settled are due again and again.  *)
FairSpec ==
    /\ Spec
    /\ WF_vars(SweepStarts("alarm")) /\ WF_vars(SetterWrites)
    /\ \A s \in Sweeps : WF_vars(Proceeds(s))
    /\ \A t \in Tabs : WF_vars(Captures(t))
    /\ SF_vars(PollDue("alarm"))
    /\ \A o \in Opps : SF_vars(\E due \in SUBSET Opps : o \in due /\ Lists("alarm", due))
-----------------------------------------------------------------------------
Days      == 1..MaxDay
Cursors   == -Lookback..MaxDay
IndexRow  == [contact : Contacts, day : Days]
Record    == [contact : Contacts \ Unreadable, day : Days]
StateType == [on : SUBSET Trackers, cursor : 0..MaxDay, from : Cursors]
Stages    == {"none", "open", "closed"}

RowType == {row \in [status : Stages, settled : BOOLEAN, failures : 0..MaxFailures] :
              ~row.settled => row.failures < MaxFailures}

Table == [Opps -> RowType]

Started   == [pc : {"start", "entered"}, now : Days]
Entered   == [pc : {"list", "poll"}, now : Days, on : SUBSET Trackers]
Asking    == {j \in [pc : {"ask", "put"}, now : Days, on : SUBSET Trackers, left : SUBSET Opps,
                     rows : UNION {[due -> RowType] : due \in SUBSET Opps}] :
                \A o \in j.left : o \in DOMAIN j.rows /\ ~j.rows[o].settled}
Putting   == [pc : {"putWrite"}, now : Days, on : SUBSET Trackers, new : Table]
Searching == [pc : {"search"}, now : Days, since : 0..MaxDay, from : Cursors,
              docs : Seq(IndexRow)]
Searched  == [pc : {"upsert", "mark"}, now : Days, since : 0..MaxDay, from : Cursors,
              docs : SUBSET IndexRow, complete : BOOLEAN]
Storing   == [pc : {"store"}, now : Days, since : 0..MaxDay, from : Cursors,
              docs : SUBSET IndexRow, complete : BOOLEAN, new : SUBSET Record]
Marking   == [pc : {"marked"}, to : 0..MaxDay, new : StateType, from : Cursors]
Marked    == [pc : {"cursor", "patch"}, to : 0..MaxDay, from : Cursors]
Patched   == [pc : {"patched"}, new : StateType]

JobType == {Idle} \cup Started \cup Entered \cup Asking \cup Putting \cup Searching
           \cup Searched \cup Storing \cup Marking \cup Marked \cup Patched

TypeOK ==
    /\ today \in Days /\ index \in Seq(IndexRow) /\ stage \in [Opps -> Stages]
    /\ flag \in BOOLEAN /\ state \in StateType
    /\ orders \subseteq Record /\ lost \subseteq Record /\ table \in Table
    /\ sweeping \in BOOLEAN
    /\ job \in [Sweeps -> JobType]
    /\ capture \in [Tabs -> {Idle}
                      \cup [pc : {"read"}, opp : Opps, status : Stages \ {"none"}]
                      \cup [pc : {"write"}, new : Table]]
    /\ setter \in {Idle} \cup [pc : {"write"}, new : StateType]
    /\ events \in 0..MaxEvents /\ mishaps \in 0..MaxMishaps

Rows == {index[i] : i \in DOMAIN index}

(* Retention keeps as many orders as the table takes, the newest ones.     *)
Among(rows, r) ==
    r \in rows \/ Cardinality({q \in rows : q.day >= r.day}) >= MaxRecords

(* The order is in the table, or newer ones fill the table.                *)
Stored(r) == Among(orders, r)

(* ... or would, had no write been lost.                                   *)
Banked(r) == Among(orders \cup lost, r)

(* The data cursor of lib/tracker-store.js passes no order unread or       *)
(* unasked for: every readable order the index shows from the first day it *)
(* speaks for up to the day before it was read and given to the table,     *)
(* whatever failed, was truncated, moved between two pages, was switched,  *)
(* rewound or killed, and with two sweeps at once too.  The table has it,  *)
(* unless the very write that was to store it was refused, or the write of *)
(* another sweep that had not read it took it away: the comment there      *)
(* ("only past data we hold") says more than the code does.                *)
CursorBanked ==
    \A r \in Rows :
        r.contact \notin Unreadable /\ state.from <= r.day /\ r.day < state.cursor => Banked(r)

(* Where the next search begins, or what the cursor has spoken for.        *)
Reach == IF state.cursor = 0 THEN today - Lookback ELSE state.from

(* "A sweep that learns nothing simply asks again": in the end every order *)
(* the search can reach is stored while the tracker is on.  Only one whose *)
(* write was lost, and that the cursor has passed since, is not asked for  *)
(* again; one that was lost and not passed is stored in the end.           *)
OrdersArrive ==
    <>[](\/ ~flag \/ "orders" \notin state.on
         \/ \A i \in DOMAIN index :
                \/ index[i].contact \in Unreadable \/ index[i].day < Reach
                \/ i > PageRows * MaxPages \/ Stored(index[i])
                \/ index[i].day < state.cursor /\ Banked(index[i]))

(* refreshTracker() and applyRefresh(): a stored opportunity that is       *)
(* closed in the CRM is closed in the table in the end, or was given up    *)
(* after maxFailures, although captures, refreshes and stale rows that are *)
(* written back set it again.                                              *)
ClosedRowsSettle ==
    <>[](\/ ~flag \/ "opportunities" \notin state.on
         \/ \A o \in Opps : table[o] # NoRow /\ stage[o] = "closed" =>
                \/ table[o].status = "closed" \/ table[o].failures >= MaxFailures)
=============================================================================
