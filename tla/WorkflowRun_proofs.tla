------------------------- MODULE WorkflowRun_proofs -------------------------
(***************************************************************************)
(* The cap, stop, pause and summaries of workflow runs for any audience,   *)
(* any number of runs at a time and any bounds.                            *)
(*                                                                         *)
(* What a step of a run must preserve is said of its record alone, of the  *)
(* number of its writes that the CRM has carried out and of the pause      *)
(* flag: the flags and the CRM are all that the runs share.                *)
(***************************************************************************)
EXTENDS WorkflowRun, FiniteSetTheorems, TLAPS

\* The writes of a run that the CRM has carried out.
Of(r) == {w \in written : w[1] = r}

\* A run has a contact from its preparation on, and a write that is under way is
\* one of the trace.
Placed(n) ==
    /\ n.pc \in {"prepare", "record", "delay", "slice", "act"} => n.contact \in Contacts
    /\ n.pc \in {"delay", "slice", "act"} => n.writes > 0

\* The writes of a run are the effects it has counted and the ones it took for failed;
\* a write is only under way while there is room below the cap.
Counted(n, count) ==
    /\ Cap > 0 => n.effects <= Cap
    /\ Cap > 0 /\ n.pc \in {"delay", "slice", "act"} => n.effects < Cap
    /\ n.pc \in {"idle", "confirmed"} => n.effects = 0 /\ n.lost = 0
    /\ n.pc # "ended" => count <= n.effects + n.lost
    /\ Cap > 0 => count <= Cap + n.lost

\* Nothing was sent under stop.  Before its first write a run sent none since the pause;
\* a last slice that is running under a pause began before it.
Heeded(n, paused) ==
    /\ n.late = 0
    /\ n.held <= 1
    /\ ~n.attempted => n.held = 0
    /\ paused /\ n.pc = "slice" => n.held = 0

Good(n, count, paused) ==
    n \in RunType /\ Placed(n) /\ Counted(n, count) /\ Heeded(n, paused)

Shared ==
    /\ screen \in {"edit", "running", "complete"}
    /\ control \in [paused : BOOLEAN, stopped : BOOLEAN]
    /\ lastArgs \in BOOLEAN
    /\ mishaps \in 0..MaxMishaps

IInv ==
    /\ TypeOK
    /\ IsFiniteSet(written)
    /\ \A r \in Runs : Good(run[r], Cardinality(Of(r)), control.paused)

LEMMA ConstantFacts ==
    /\ Cap \in Nat /\ MaxRuns \in Nat /\ MaxWrites \in Nat /\ MaxMishaps \in Nat
    /\ Audience \in Seq(Contacts)
BY WorkflowAssumption

\* The writes of a run are finitely many.
LEMMA OfFacts ==
    ASSUME NEW r, IsFiniteSet(written)
    PROVE  IsFiniteSet(Of(r)) /\ Cardinality(Of(r)) \in Nat
<1>1. Of(r) \in SUBSET written
  BY DEF Of
<1> QED
  BY <1>1, FS_Subset, FS_CardinalityType

\* What a run is before and at its start.
LEMMA FreshFacts ==
    ASSUME NEW live \in BOOLEAN
    PROVE  /\ NewRun(live) \in RunType
           /\ NewRun(live).pc = "loop" /\ ~NewRun(live).attempted
           /\ NewRun(live).effects = 0 /\ NewRun(live).lost = 0
           /\ NewRun(live).held = 0 /\ NewRun(live).late = 0
<1>1. Audience \in Seq(Contacts) /\ 0 \in 0..MaxWrites /\ 0 \in 0..2 /\ 0 \in Nat
  BY ConstantFacts
<1>2. NewRun(live) \in RunType
  BY <1>1, SMTT(60) DEF NewRun, RunType
<1>3. NewRun(live).pc = "loop" /\ ~NewRun(live).attempted
  BY DEF NewRun
<1>4. /\ NewRun(live).effects = 0 /\ NewRun(live).lost = 0
      /\ NewRun(live).held = 0 /\ NewRun(live).late = 0
  BY DEF NewRun
<1> QED
  BY <1>2, <1>3, <1>4

LEMMA IdleFacts ==
    /\ Idle \in RunType
    /\ Idle.pc = "idle" /\ ~Idle.attempted
    /\ Idle.effects = 0 /\ Idle.lost = 0 /\ Idle.held = 0 /\ Idle.late = 0
<1>1. Idle \in RunType
  BY FreshFacts DEF Idle, RunType
<1>2. Idle.pc = "idle" /\ ~Idle.attempted
  BY DEF Idle, NewRun
<1>3. Idle.effects = 0 /\ Idle.lost = 0 /\ Idle.held = 0 /\ Idle.late = 0
  BY DEF Idle, NewRun
<1> QED
  BY <1>1, <1>2, <1>3

\* What the steps of a run make of its record is a record of a run.
LEMMA LoopType ==
    \A m \in RunType :
        [m EXCEPT !.pc = "loop", !.contact = "none",
                  !.ran = FALSE, !.failed = FALSE, !.gaps = FALSE] \in RunType
BY DEF RunType

LEMMA SkipType ==
    \A m \in RunType, w \in 0..MaxWrites :
        /\ [m EXCEPT !.pc = "record", !.writes = w, !.gaps = TRUE] \in RunType
        /\ [m EXCEPT !.pc = "record", !.attempted = TRUE, !.writes = w] \in RunType
        /\ [m EXCEPT !.writes = w, !.failed = TRUE, !.gaps = TRUE] \in RunType
<1> SUFFICES ASSUME NEW m \in RunType, NEW w \in 0..MaxWrites
             PROVE  /\ [m EXCEPT !.pc = "record", !.writes = w, !.gaps = TRUE] \in RunType
                    /\ [m EXCEPT !.pc = "record", !.attempted = TRUE, !.writes = w] \in RunType
                    /\ [m EXCEPT !.writes = w, !.failed = TRUE, !.gaps = TRUE] \in RunType
  OBVIOUS
<1>1. [m EXCEPT !.pc = "record", !.writes = w, !.gaps = TRUE] \in RunType
  BY DEF RunType
<1>2. [m EXCEPT !.pc = "record", !.attempted = TRUE, !.writes = w] \in RunType
  BY DEF RunType
<1>3. [m EXCEPT !.writes = w, !.failed = TRUE, !.gaps = TRUE] \in RunType
  BY DEF RunType
<1> QED
  BY <1>1, <1>2, <1>3

LEMMA SendType ==
    \A m \in RunType, held, late \in 0..2 :
        [m EXCEPT !.pc = "act", !.attempted = TRUE, !.held = held,
                  !.late = late] \in RunType
BY DEF RunType

LEMMA DelayType ==
    \A m \in RunType, pc \in {"delay", "slice"} : [m EXCEPT !.pc = pc] \in RunType
BY DEF RunType

LEMMA TraceType ==
    \A m \in RunType, w \in 0..MaxWrites, b \in BOOLEAN, count \in Nat :
        /\ [m EXCEPT !.pc = "record", !.writes = w, !.ran = b] \in RunType
        /\ [m EXCEPT !.writes = w, !.ran = b, !.effects = count] \in RunType
<1> SUFFICES ASSUME NEW m \in RunType, NEW w \in 0..MaxWrites, NEW b \in BOOLEAN, NEW count \in Nat
             PROVE  /\ [m EXCEPT !.pc = "record", !.writes = w, !.ran = b] \in RunType
                    /\ [m EXCEPT !.writes = w, !.ran = b, !.effects = count] \in RunType
  OBVIOUS
<1>1. [m EXCEPT !.pc = "record", !.writes = w, !.ran = b] \in RunType
  BY DEF RunType
<1>2. [m EXCEPT !.writes = w, !.ran = b, !.effects = count] \in RunType
  BY DEF RunType
<1> QED
  BY <1>1, <1>2

LEMMA AnswerType ==
    \A m \in RunType, w \in 0..MaxWrites, count \in Nat :
        /\ [m EXCEPT !.pc = "record", !.writes = w, !.ran = TRUE, !.effects = count] \in RunType
        /\ [m EXCEPT !.pc = "record", !.writes = w,
                     !.failed = TRUE, !.gaps = TRUE, !.lost = count] \in RunType
        /\ [m EXCEPT !.pc = "record", !.writes = w, !.failed = TRUE, !.gaps = TRUE] \in RunType
<1> SUFFICES ASSUME NEW m \in RunType, NEW w \in 0..MaxWrites, NEW count \in Nat
             PROVE  /\ [m EXCEPT !.pc = "record", !.writes = w, !.ran = TRUE, !.effects = count] \in RunType
                    /\ [m EXCEPT !.pc = "record", !.writes = w, !.failed = TRUE, !.gaps = TRUE, !.lost = count] \in RunType
                    /\ [m EXCEPT !.pc = "record", !.writes = w, !.failed = TRUE, !.gaps = TRUE] \in RunType
  OBVIOUS
<1>1. [m EXCEPT !.pc = "record", !.writes = w, !.ran = TRUE, !.effects = count] \in RunType
  BY DEF RunType
<1>2. [m EXCEPT !.pc = "record", !.writes = w, !.failed = TRUE, !.gaps = TRUE, !.lost = count] \in RunType
  BY DEF RunType
<1>3. [m EXCEPT !.pc = "record", !.writes = w, !.failed = TRUE, !.gaps = TRUE] \in RunType
  BY DEF RunType
<1> QED
  BY <1>1, <1>2, <1>3

\* A step of one run that carries out no write and raises no pause.
LEMMA RunSteps ==
    ASSUME IInv, NEW r \in Runs, NEW n, Goes(r, n),
           Good(n, Cardinality(Of(r)), control'.paused), UNCHANGED written,
           control'.paused => control.paused, Shared',
           result' \in [Runs -> [Contacts -> Statuses]]
    PROVE  IInv'
<1>1. TypeOK'
  BY DEF IInv, TypeOK, Goes, Good, Shared
<1>2. ASSUME NEW q \in Runs
      PROVE  Good(run'[q], Cardinality(Of(q)'), control'.paused)
  <2>1. Of(q)' = Of(q)
    BY DEF Of
  <2>2. CASE q = r
    BY <2>1, <2>2 DEF IInv, TypeOK, Goes
  <2>3. CASE q # r
    <3>1. run'[q] = run[q] /\ Good(run[q], Cardinality(Of(q)), control.paused)
      BY <2>3 DEF IInv, TypeOK, Goes
    <3> QED
      BY <2>1, <3>1 DEF Good, Heeded
  <2> QED
    BY <2>2, <2>3
<1> QED
  BY <1>1, <1>2 DEF IInv

\* A step of one run that carries out its write.
LEMMA RunWrites ==
    ASSUME IInv, NEW r \in Runs, NEW n, Goes(r, n), run[r].pc = "act",
           \A count \in Nat : count <= Cardinality(Of(r)) + 1 => Good(n, count, control.paused),
           written' = written \cup {Write(r)}, UNCHANGED <<screens, result>>,
           mishaps' \in 0..MaxMishaps
    PROVE  IInv'
<1>1. Write(r) \in Runs \X Contacts \X (1..MaxWrites)
  BY ConstantFacts DEF IInv, Good, Placed, RunType, Write
<1>2. n \in RunType
  <2>1. 0 <= Cardinality(Of(r)) + 1
    BY OfFacts DEF IInv
  <2> QED
    BY <2>1 DEF Good
<1>3. TypeOK'
  BY <1>1, <1>2 DEF IInv, TypeOK, Goes, screens
<1>4. IsFiniteSet(written')
  BY FS_AddElement DEF IInv
<1>5. ASSUME NEW q \in Runs
      PROVE  Good(run'[q], Cardinality(Of(q)'), control'.paused)
  <2>1. CASE q = r
    <3>1. Of(r)' = Of(r) \cup {Write(r)}
      BY DEF Of, Write
    <3>2. IsFiniteSet(Of(r)) /\ Cardinality(Of(r)) \in Nat
      BY OfFacts DEF IInv
    <3>3. Cardinality(Of(r) \cup {Write(r)}) =
              IF Write(r) \in Of(r) THEN Cardinality(Of(r)) ELSE Cardinality(Of(r)) + 1
      BY <3>2, FS_AddElement
    <3>4. Cardinality(Of(r)') \in Nat /\ Cardinality(Of(r)') <= Cardinality(Of(r)) + 1
      BY <3>1, <3>2, <3>3
    <3> QED
      BY <2>1, <3>4 DEF IInv, TypeOK, Goes, screens
  <2>2. CASE q # r
    <3>1. Of(q)' = Of(q)
      BY <2>2 DEF Of, Write
    <3>2. run'[q] = run[q]
      BY <2>2 DEF IInv, TypeOK, Goes
    <3> QED
      BY <3>1, <3>2 DEF IInv, screens
  <2> QED
    BY <2>1, <2>2
<1> QED
  BY <1>3, <1>4, <1>5 DEF IInv

\* No run has begun and no write has been carried out.
LEMMA InitHolds == Init => IInv
<1> SUFFICES ASSUME Init PROVE IInv
  OBVIOUS
<1>1. TypeOK
  BY ConstantFacts, IdleFacts DEF Init, TypeOK, Fresh, Statuses
<1>2. IsFiniteSet(written)
  BY FS_EmptySet DEF Init
<1>3. ASSUME NEW r \in Runs PROVE Good(run[r], Cardinality(Of(r)), control.paused)
  <2>1. Of(r) = {} /\ run[r] = Idle
    BY DEF Of, Init
  <2>2. Cardinality(Of(r)) = 0
    BY <2>1, FS_EmptySet
  <2> QED
    BY <2>1, <2>2, ConstantFacts, IdleFacts DEF Good, Placed, Counted, Heeded
<1> QED
  BY <1>1, <1>2, <1>3 DEF IInv

\* A start replaces the flags by ones that raise no pause.
LEMMA StartHolds ==
    ASSUME IInv, NEW r \in Runs, NEW live \in BOOLEAN, Starts(r, live),
           run[r].pc \in {"idle", "confirmed"}, UNCHANGED <<result, written, mishaps>>
    PROVE  IInv'
<1>1. Goes(r, NewRun(live))
  BY DEF Starts, Goes
<1>2. Shared' /\ ~control'.paused
  BY DEF IInv, TypeOK, Starts, Shared, Fresh
<1>3. Cardinality(Of(r)) \in Nat /\ Cardinality(Of(r)) <= 0
  BY OfFacts DEF IInv, Good, Counted
<1>4. Good(NewRun(live), Cardinality(Of(r)), control'.paused)
  BY <1>2, <1>3, ConstantFacts, FreshFacts DEF Good, Placed, Counted, Heeded
<1>5. result' \in [Runs -> [Contacts -> Statuses]]
  BY DEF IInv, TypeOK
<1> QED
  BY <1>1, <1>2, <1>4, <1>5, RunSteps

\* A confirmed run has no flags yet.
LEMMA ConfirmHolds ==
    ASSUME IInv, NEW r \in Runs, Confirm(r)
    PROVE  IInv'
<1> DEFINE n == [run[r] EXCEPT !.pc = "confirmed"]
<1>1. Goes(r, n) /\ run[r] = Idle
  BY DEF Confirm, Goes, Unused
<1>2. n \in RunType /\ n.pc = "confirmed" /\ ~n.attempted
  BY <1>1, IdleFacts DEF RunType
<1>3. n.effects = 0 /\ n.lost = 0 /\ n.held = 0 /\ n.late = 0
  BY <1>1, IdleFacts DEF RunType
<1>4. Cardinality(Of(r)) \in Nat /\ Cardinality(Of(r)) <= 0
  BY <1>1, IdleFacts, OfFacts DEF IInv, Good, Counted
<1>5. Good(n, Cardinality(Of(r)), control'.paused)
  BY <1>2, <1>3, <1>4, ConstantFacts DEF Good, Placed, Counted, Heeded
<1>6. Shared' /\ result' \in [Runs -> [Contacts -> Statuses]] /\ UNCHANGED <<control, written>>
  BY DEF Confirm, IInv, TypeOK, Shared
<1> QED
  BY <1>1, <1>5, <1>6, RunSteps

\* A click on pause clears what was sent since the last one of every run under way.
LEMMA PauseHolds == ASSUME IInv, Pause PROVE IInv'
<1> DEFINE n(r) == IF Active(r) THEN [run[r] EXCEPT !.held = 0] ELSE run[r]
<1>1. ASSUME NEW r \in Runs PROVE Good(n(r), Cardinality(Of(r)), TRUE)
  <2>1. CASE Active(r)
    BY <2>1 DEF IInv, Good, Placed, Counted, Heeded, RunType
  <2>2. CASE ~Active(r)
    BY <2>2 DEF IInv, Good, Placed, Counted, Heeded, Active
  <2> QED
    BY <2>1, <2>2
<1>2. run' = [r \in Runs |-> n(r)] /\ control' = [control EXCEPT !.paused = TRUE]
  BY DEF Pause
<1>3. \A r \in Runs : n(r) \in RunType
  BY <1>1 DEF Good
<1> HIDE DEF n
<1>4. run' \in [Runs -> RunType]
  BY <1>2, <1>3
<1>5. TypeOK'
  <2>1. mishaps' \in 0..MaxMishaps
    BY ConstantFacts DEF Pause, Mishap, IInv, TypeOK
  <2>2. control' \in [paused : BOOLEAN, stopped : BOOLEAN]
    BY <1>2 DEF IInv, TypeOK
  <2> QED
    BY <1>4, <2>1, <2>2 DEF Pause, IInv, TypeOK
<1>6. ASSUME NEW r \in Runs PROVE Good(run'[r], Cardinality(Of(r)'), control'.paused)
  <2>1. Of(r)' = Of(r) /\ control'.paused = TRUE
    BY DEF Of, Pause, IInv, TypeOK
  <2> QED
    BY <1>1, <1>2, <2>1
<1> QED
  BY <1>5, <1>6 DEF IInv, Pause

LEMMA ResumeHolds == ASSUME IInv, Resume PROVE IInv'
<1>1. TypeOK' /\ ~control'.paused
  BY DEF Resume, IInv, TypeOK
<1>2. ASSUME NEW r \in Runs PROVE Good(run'[r], Cardinality(Of(r)'), control'.paused)
  <2>1. Of(r)' = Of(r)
    BY DEF Of, Resume
  <2> QED
    BY <1>1, <2>1 DEF Resume, IInv, Good, Heeded
<1> QED
  BY <1>1, <1>2 DEF IInv, Resume

LEMMA StopHolds == ASSUME IInv, StopAndEdit PROVE IInv'
<1> DEFINE n(r) == IF Active(r) THEN [run[r] EXCEPT !.told = TRUE] ELSE run[r]
<1>1. ASSUME NEW r \in Runs PROVE Good(n(r), Cardinality(Of(r)), control.paused)
  BY DEF IInv, Good, Placed, Counted, Heeded, RunType
<1>2. run' = [r \in Runs |-> n(r)] /\ control' = [control EXCEPT !.stopped = TRUE]
  BY DEF StopAndEdit
<1>3. \A r \in Runs : n(r) \in RunType
  BY <1>1 DEF Good
<1> HIDE DEF n
<1>4. run' \in [Runs -> RunType]
  BY <1>2, <1>3
<1>5. TypeOK'
  BY <1>4 DEF StopAndEdit, IInv, TypeOK
<1>6. ASSUME NEW r \in Runs PROVE Good(run'[r], Cardinality(Of(r)'), control'.paused)
  <2>1. Of(r)' = Of(r) /\ control'.paused = control.paused
    BY DEF Of, StopAndEdit, IInv, TypeOK
  <2> QED
    BY <1>1, <1>2, <2>1
<1> QED
  BY <1>5, <1>6 DEF IInv, StopAndEdit

\* What is known of a run before its step.
LEMMA RunFacts ==
    ASSUME IInv, NEW r \in Runs
    PROVE  /\ run[r] \in RunType /\ Placed(run[r]) /\ Counted(run[r], Cardinality(Of(r)))
           /\ Heeded(run[r], control.paused) /\ Cardinality(Of(r)) \in Nat
           /\ control.paused \in BOOLEAN /\ control.stopped \in BOOLEAN
           /\ result \in [Runs -> [Contacts -> Statuses]]
BY OfFacts DEF IInv, Good, TypeOK

\* A step that changes the record of a run only, and perhaps the count of mishaps.
LEMMA QuietSteps ==
    ASSUME IInv, NEW r \in Runs, NEW n, Goes(r, n), UNCHANGED <<screens, result, written>>,
           UNCHANGED mishaps \/ Mishap, Good(n, Cardinality(Of(r)), control.paused)
    PROVE  IInv'
<1>1. mishaps' \in 0..MaxMishaps
  BY ConstantFacts DEF IInv, TypeOK, Mishap
<1>2. Shared' /\ result' \in [Runs -> [Contacts -> Statuses]] /\ UNCHANGED control
  BY <1>1 DEF IInv, TypeOK, Shared, screens
<1> QED
  BY <1>2, RunSteps

\* The summary of a contact, with which a run goes on to the next one.
LEMMA DoneHolds ==
    ASSUME IInv, NEW r \in Runs, NEW status \in Statuses, Done(r, status),
           run[r].contact \in Contacts, run[r].pc \in {"prepare", "record"},
           UNCHANGED <<screens, written>>, UNCHANGED mishaps \/ Mishap
    PROVE  IInv'
<1> DEFINE n == [run[r] EXCEPT !.pc = "loop", !.contact = "none",
                               !.ran = FALSE, !.failed = FALSE, !.gaps = FALSE]
<1>1. Goes(r, n)
  BY DEF Done
<1>2. Good(n, Cardinality(Of(r)), control.paused)
  <2>1. n \in RunType
    BY RunFacts, LoopType
  <2>2. /\ n.pc = "loop" /\ n.effects = run[r].effects /\ n.lost = run[r].lost
        /\ n.held = run[r].held /\ n.late = run[r].late /\ n.attempted = run[r].attempted
    BY RunFacts DEF RunType
  <2> HIDE DEF n
  <2> QED
    BY <2>1, <2>2, RunFacts DEF Good, Placed, Counted, Heeded
<1>3. result' \in [Runs -> [Contacts -> Statuses]]
  BY RunFacts DEF Done
<1>4. mishaps' \in 0..MaxMishaps
  BY ConstantFacts DEF IInv, TypeOK, Mishap
<1>5. Shared' /\ UNCHANGED <<control, written>>
  BY <1>4 DEF IInv, TypeOK, Shared, screens
<1> QED
  BY <1>1, <1>2, <1>3, <1>5, RunSteps

\* The end of a run, which keeps what it took for failed.
LEMMA EndsHolds ==
    ASSUME IInv, NEW r \in Runs, Ends(r), result' \in [Runs -> [Contacts -> Statuses]]
    PROVE  IInv'
<1> DEFINE n == [Idle EXCEPT !.pc = "ended", !.live = run[r].live,
                             !.lost = run[r].lost, !.told = run[r].told]
<1>1. Goes(r, n)
  BY DEF Ends
<1>2. n \in RunType /\ n.pc = "ended" /\ n.lost = run[r].lost
  BY RunFacts, IdleFacts DEF RunType
<1>3. n.effects = 0 /\ n.held = 0 /\ n.late = 0
  BY IdleFacts DEF RunType
<1>4. Good(n, Cardinality(Of(r)), control.paused)
  BY <1>2, <1>3, RunFacts, ConstantFacts DEF Good, Placed, Counted, Heeded
<1>5. Shared' /\ UNCHANGED <<control, written>>
  BY DEF Ends, IInv, TypeOK, Shared
<1> QED
  BY <1>1, <1>4, <1>5, RunSteps

\* A write is skipped.
LEMMA SkippedHolds ==
    ASSUME IInv, NEW r \in Runs, Skipped(r), run[r].writes > 0,
           run[r].pc \in {"record", "delay", "slice"},
           UNCHANGED <<screens, result, written, mishaps>>
    PROVE  IInv'
<1> DEFINE n == [run[r] EXCEPT !.pc = "record", !.writes = @ - 1, !.gaps = TRUE]
<1>1. Goes(r, n)
  BY DEF Skipped
<1>2. n \in RunType
  <2>1. run[r].writes - 1 \in 0..MaxWrites
    BY RunFacts, ConstantFacts DEF RunType
  <2> QED
    BY <2>1, RunFacts, SkipType
<1>3. Good(n, Cardinality(Of(r)), control.paused)
  <2>1. /\ n.pc = "record" /\ n.effects = run[r].effects /\ n.lost = run[r].lost
        /\ n.held = run[r].held /\ n.late = run[r].late /\ n.attempted = run[r].attempted
        /\ n.contact = run[r].contact
    BY RunFacts DEF RunType
  <2> HIDE DEF n
  <2> QED
    BY <1>2, <2>1, RunFacts DEF Good, Placed, Counted, Heeded
<1> QED
  BY <1>1, <1>3, QuietSteps

\* A write is allowed: it is the first of its run, or its delay is over without a stop.
LEMMA AllowedHolds ==
    ASSUME IInv, NEW r \in Runs, Allowed(r), run[r].writes > 0,
           \/ run[r].pc = "record" /\ ~Capped(r) /\ ~run[r].attempted
           \/ run[r].pc = "slice" /\ ~control.stopped,
           UNCHANGED <<screens, result, written, mishaps>>
    PROVE  IInv'
<1> DEFINE sent == [run[r] EXCEPT !.pc = "act", !.attempted = TRUE,
                        !.held = Tally(@, control.paused),
                        !.late = Tally(@, control.stopped /\ run[r].attempted)]
           blocked == [run[r] EXCEPT !.pc = "record", !.attempted = TRUE, !.writes = @ - 1]
<1>1. Tally(run[r].late, control.stopped /\ run[r].attempted) = 0
  BY RunFacts DEF Tally, Heeded
<1>2. Tally(run[r].held, control.paused) \in 0..1
  BY RunFacts DEF Tally, Heeded, RunType
<1>3. CASE Goes(r, sent)
  <2>1. sent \in RunType
    <3>1. /\ Tally(run[r].held, control.paused) \in 0..2
          /\ Tally(run[r].late, control.stopped /\ run[r].attempted) \in 0..2
      BY <1>1, <1>2
    <3> QED
      BY <3>1, RunFacts, SendType, Zenon
  <2>2. sent.pc = "act" /\ sent.attempted /\ sent.late = 0 /\ sent.held \in 0..1
    BY <1>1, <1>2, RunFacts DEF RunType
  <2>3. /\ sent.contact = run[r].contact /\ sent.writes = run[r].writes
        /\ sent.effects = run[r].effects /\ sent.lost = run[r].lost
    BY RunFacts DEF RunType
  <2>4. Placed(sent)
    BY <2>2, <2>3, RunFacts DEF Placed
  <2>5. Counted(sent, Cardinality(Of(r)))
    BY <2>2, <2>3, RunFacts, ConstantFacts DEF Counted, Capped, RunType
  <2>6. Heeded(sent, control.paused)
    BY <2>2 DEF Heeded
  <2> QED
    BY <1>3, <2>1, <2>4, <2>5, <2>6, QuietSteps DEF Good
<1>4. CASE Goes(r, blocked)
  <2>1. blocked \in RunType
    <3>1. run[r].writes - 1 \in 0..MaxWrites
      BY RunFacts, ConstantFacts DEF RunType
    <3> QED
      BY <3>1, RunFacts, SkipType
  <2>2. Good(blocked, Cardinality(Of(r)), control.paused)
    BY <2>1, RunFacts DEF Good, Placed, Counted, Heeded, RunType
  <2> QED
    BY <1>4, <2>2, QuietSteps
<1> QED
  BY <1>3, <1>4 DEF Allowed

\* The next contact of the audience.
LEMMA TakesHolds == ASSUME IInv, NEW r \in Runs, TakesContact(r) PROVE IInv'
<1> DEFINE n == [run[r] EXCEPT !.pc = "prepare", !.left = Tail(@), !.contact = Head(run[r].left)]
<1>1. Goes(r, n)
  BY DEF TakesContact
<1>2. run[r].left \in Seq(Contacts) /\ run[r].left # <<>>
  BY RunFacts DEF RunType, TakesContact
<1>3. Tail(run[r].left) \in Seq(Contacts) /\ Head(run[r].left) \in Contacts
  BY <1>2
<1>4. n \in RunType
  BY <1>3, RunFacts DEF RunType
<1>5. /\ n.pc = "prepare" /\ n.effects = run[r].effects /\ n.lost = run[r].lost
      /\ n.held = run[r].held /\ n.late = run[r].late /\ n.attempted = run[r].attempted
      /\ n.contact \in Contacts
  BY <1>3, RunFacts DEF RunType
<1> HIDE DEF n
<1>6. Good(n, Cardinality(Of(r)), control.paused)
  BY <1>4, <1>5, RunFacts DEF TakesContact, Good, Placed, Counted, Heeded
<1> QED
  BY <1>1, <1>6, QuietSteps DEF TakesContact

LEMMA PreparedHolds == ASSUME IInv, NEW r \in Runs, Prepared(r) PROVE IInv'
<1>1. PICK w \in 0..MaxWrites, b \in BOOLEAN :
          Goes(r, [run[r] EXCEPT !.pc = "record", !.writes = w, !.ran = b])
  BY WorkflowAssumption DEF Prepared
<1> DEFINE n == [run[r] EXCEPT !.pc = "record", !.writes = w, !.ran = b]
<1>2. n \in RunType
  BY RunFacts, TraceType
<1>3. /\ n.pc = "record" /\ n.effects = run[r].effects /\ n.lost = run[r].lost
      /\ n.held = run[r].held /\ n.late = run[r].late /\ n.attempted = run[r].attempted
      /\ n.contact = run[r].contact
  BY RunFacts DEF RunType
<1>4. Goes(r, n)
  BY <1>1
<1> HIDE DEF n
<1>5. Good(n, Cardinality(Of(r)), control.paused)
  BY <1>2, <1>3, RunFacts DEF Prepared, Good, Placed, Counted, Heeded
<1> QED
  BY <1>4, <1>5, QuietSteps DEF Prepared

\* A dry run counts up to the cap.
LEMMA RecordDryHolds == ASSUME IInv, NEW r \in Runs, RecordDry(r) PROVE IInv'
<1> DEFINE room == IF Cap = 0 THEN MaxWrites ELSE Cap - run[r].effects
           k == IF run[r].writes < room THEN run[r].writes ELSE room
           n == [run[r] EXCEPT !.writes = 0, !.ran = @ \/ k > 0, !.effects = @ + k]
<1>1. Goes(r, n)
  BY DEF RecordDry
<1>2. run[r].effects \in Nat /\ run[r].writes \in 0..MaxWrites
  BY RunFacts DEF RunType
<1>3. Cap > 0 => run[r].effects <= Cap
  BY RunFacts DEF Counted
<1>4. k \in Nat /\ (Cap > 0 => run[r].effects + k <= Cap)
  BY <1>2, <1>3, ConstantFacts
<1> HIDE DEF k
<1>5. run[r].effects + k \in Nat /\ 0 \in 0..MaxWrites /\ (run[r].ran \/ k > 0) \in BOOLEAN
  BY <1>2, <1>4, ConstantFacts
<1>6. n \in RunType
  BY <1>5, RunFacts, TraceType
<1>7. /\ n.pc = "record" /\ n.effects = run[r].effects + k /\ n.lost = run[r].lost
      /\ n.held = run[r].held /\ n.late = run[r].late /\ n.attempted = run[r].attempted
      /\ n.contact = run[r].contact
  BY RunFacts DEF RunType, RecordDry
<1> HIDE DEF n
<1>8. Placed(n) /\ Heeded(n, control.paused)
  BY <1>7, RunFacts DEF RecordDry, Placed, Heeded
<1>9. Counted(n, Cardinality(Of(r)))
  <2>1. run[r].lost \in Nat
    BY RunFacts DEF RunType
  <2>2. run[r].pc = "record"
    BY DEF RecordDry
  <2> QED
    BY <1>2, <1>4, <1>7, <2>1, <2>2, RunFacts DEF Counted
<1> QED
  BY <1>1, <1>6, <1>8, <1>9, QuietSteps DEF RecordDry, Good

\* A write whose input is refused.
LEMMA InvalidHolds == ASSUME IInv, NEW r \in Runs, Invalid(r) PROVE IInv'
<1>1. CASE Skipped(r) /\ UNCHANGED mishaps
  BY <1>1, SkippedHolds DEF Invalid, screens
<1>2. CASE Mishap /\ Goes(r, [run[r] EXCEPT !.writes = @ - 1, !.failed = TRUE, !.gaps = TRUE])
  <2> DEFINE n == [run[r] EXCEPT !.writes = @ - 1, !.failed = TRUE, !.gaps = TRUE]
  <2>1. run[r].writes - 1 \in 0..MaxWrites
    BY RunFacts, ConstantFacts DEF RunType, Invalid
  <2>2. n \in RunType
    BY <2>1, RunFacts, SkipType
  <2>3. /\ n.pc = "record" /\ n.effects = run[r].effects /\ n.lost = run[r].lost
        /\ n.held = run[r].held /\ n.late = run[r].late /\ n.attempted = run[r].attempted
        /\ n.contact = run[r].contact
    BY RunFacts DEF RunType, Invalid
  <2>4. Goes(r, n)
    BY <1>2
  <2> HIDE DEF n
  <2>5. Good(n, Cardinality(Of(r)), control.paused)
    BY <2>2, <2>3, RunFacts DEF Invalid, Good, Placed, Counted, Heeded
  <2> QED
    BY <1>2, <2>4, <2>5, QuietSteps DEF Invalid
<1> QED
  BY <1>1, <1>2 DEF Invalid

\* A delay begins below the cap, and its last slice when nothing is paused.
LEMMA DelayHolds ==
    ASSUME IInv, NEW r \in Runs, NEW pc \in {"delay", "slice"},
           Goes(r, [run[r] EXCEPT !.pc = pc]),
           \/ pc = "delay" /\ run[r].pc = "record" /\ run[r].writes > 0 /\ ~Capped(r)
           \/ pc = "slice" /\ run[r].pc = "delay" /\ ~control.paused,
           UNCHANGED <<screens, result, written, mishaps>>
    PROVE  IInv'
<1> DEFINE n == [run[r] EXCEPT !.pc = pc]
<1>1. n \in RunType
  BY RunFacts, DelayType
<1>2. /\ n.pc = pc /\ n.effects = run[r].effects /\ n.lost = run[r].lost
      /\ n.held = run[r].held /\ n.late = run[r].late /\ n.attempted = run[r].attempted
      /\ n.contact = run[r].contact /\ n.writes = run[r].writes
  BY RunFacts DEF RunType
<1>3. run[r].effects \in Nat /\ run[r].lost \in Nat
  BY RunFacts DEF RunType
<1> HIDE DEF n
<1>4. Placed(n) /\ Heeded(n, control.paused)
  BY <1>2, RunFacts DEF Placed, Heeded
<1>5. Counted(n, Cardinality(Of(r)))
  BY <1>2, <1>3, RunFacts, ConstantFacts DEF Counted, Capped
<1> QED
  BY <1>1, <1>4, <1>5, QuietSteps DEF n, Good

LEMMA RecordHolds == ASSUME IInv, NEW r \in Runs, Record(r) PROVE IInv'
<1>1. CASE Capped(r)
  BY <1>1, SkippedHolds DEF Record
<1>2. CASE ~Capped(r) /\ run[r].attempted
  BY <1>2, DelayHolds DEF Record
<1>3. CASE ~Capped(r) /\ ~run[r].attempted
  BY <1>3, AllowedHolds DEF Record
<1> QED
  BY <1>1, <1>2, <1>3

\* The answer to a write finds room below the cap.
LEMMA AnsweredHolds == ASSUME IInv, NEW r \in Runs, Answered(r) PROVE IInv'
<1> DEFINE n == [run[r] EXCEPT !.pc = "record", !.writes = @ - 1, !.ran = TRUE, !.effects = @ + 1]
<1>1. Goes(r, n) /\ run[r].pc = "act"
  BY DEF Answered
<1>2. run[r].effects \in Nat /\ run[r].lost \in Nat /\ run[r].writes - 1 \in 0..MaxWrites
  BY <1>1, RunFacts, ConstantFacts DEF RunType, Placed
<1>3. n \in RunType
  <2>1. run[r].effects + 1 \in Nat
    BY <1>2
  <2> QED
    BY <1>2, <2>1, RunFacts, AnswerType
<1>4. /\ n.pc = "record" /\ n.effects = run[r].effects + 1 /\ n.lost = run[r].lost
      /\ n.held = run[r].held /\ n.late = run[r].late /\ n.attempted = run[r].attempted
      /\ n.contact = run[r].contact
  BY RunFacts DEF RunType
<1> HIDE DEF n
<1>5. Placed(n) /\ Heeded(n, control.paused)
  BY <1>1, <1>4, RunFacts DEF Placed, Heeded
<1>6. ASSUME NEW count \in Nat, count <= Cardinality(Of(r)) + 1
      PROVE  Counted(n, count)
  <2>1. /\ Cardinality(Of(r)) \in Nat /\ Cardinality(Of(r)) <= run[r].effects + run[r].lost
        /\ Cap > 0 => run[r].effects < Cap
    BY <1>1, RunFacts DEF Counted
  <2>2. count <= run[r].effects + run[r].lost + 1
    BY <1>2, <1>6, <2>1
  <2> QED
    BY <1>2, <1>4, <2>1, <2>2, ConstantFacts DEF Counted
<1>7. mishaps' \in 0..MaxMishaps
  BY DEF Answered, IInv, TypeOK
<1> QED
  BY <1>1, <1>3, <1>5, <1>6, <1>7, RunWrites DEF Answered, Good

LEMMA RefusedHolds == ASSUME IInv, NEW r \in Runs, Refused(r) PROVE IInv'
<1>1. /\ run[r].effects \in Nat /\ run[r].lost \in Nat /\ run[r].writes - 1 \in 0..MaxWrites
      /\ run[r].pc = "act"
  BY RunFacts, ConstantFacts DEF RunType, Placed, Refused
<1>2. mishaps' \in 0..MaxMishaps
  BY ConstantFacts DEF Refused, Mishap, IInv, TypeOK
<1>3. ASSUME Goes(r, [run[r] EXCEPT !.pc = "record", !.writes = @ - 1,
                                    !.failed = TRUE, !.gaps = TRUE, !.lost = @ + 1]),
             written' = written \cup {Write(r)}
      PROVE  IInv'
  <2> DEFINE n == [run[r] EXCEPT !.pc = "record", !.writes = @ - 1,
                                 !.failed = TRUE, !.gaps = TRUE, !.lost = @ + 1]
  <2>1. n \in RunType
    <3>1. run[r].lost + 1 \in Nat
      BY <1>1
    <3> QED
      BY <1>1, <3>1, RunFacts, AnswerType
  <2>2. /\ n.pc = "record" /\ n.effects = run[r].effects /\ n.lost = run[r].lost + 1
        /\ n.held = run[r].held /\ n.late = run[r].late /\ n.attempted = run[r].attempted
        /\ n.contact = run[r].contact
    BY RunFacts DEF RunType
  <2>3. Goes(r, n)
    BY <1>3
  <2> HIDE DEF n
  <2>4. Placed(n) /\ Heeded(n, control.paused)
    BY <1>1, <2>2, RunFacts DEF Placed, Heeded
  <2>5. ASSUME NEW count \in Nat, count <= Cardinality(Of(r)) + 1
        PROVE  Counted(n, count)
    <3>1. /\ Cardinality(Of(r)) \in Nat /\ Cardinality(Of(r)) <= run[r].effects + run[r].lost
          /\ Cap > 0 => run[r].effects < Cap
      BY <1>1, RunFacts DEF Counted
    <3>2. count <= run[r].effects + run[r].lost + 1
      BY <1>1, <2>5, <3>1
    <3> QED
      BY <1>1, <2>2, <3>1, <3>2, ConstantFacts DEF Counted
  <2> QED
    BY <1>1, <1>2, <1>3, <2>1, <2>3, <2>4, <2>5, RunWrites DEF Refused, Good
<1>4. ASSUME Goes(r, [run[r] EXCEPT !.pc = "record", !.writes = @ - 1,
                                    !.failed = TRUE, !.gaps = TRUE]),
             UNCHANGED written
      PROVE  IInv'
  <2> DEFINE n == [run[r] EXCEPT !.pc = "record", !.writes = @ - 1,
                                 !.failed = TRUE, !.gaps = TRUE]
  <2>1. n \in RunType
    BY <1>1, RunFacts, AnswerType
  <2>2. /\ n.pc = "record" /\ n.effects = run[r].effects /\ n.lost = run[r].lost
        /\ n.held = run[r].held /\ n.late = run[r].late /\ n.attempted = run[r].attempted
        /\ n.contact = run[r].contact
    BY RunFacts DEF RunType
  <2>3. Goes(r, n)
    BY <1>4
  <2> HIDE DEF n
  <2>4. Good(n, Cardinality(Of(r)), control.paused)
    BY <1>1, <2>1, <2>2, RunFacts DEF Good, Placed, Counted, Heeded
  <2> QED
    BY <1>4, <2>3, <2>4, QuietSteps DEF Refused, screens
<1> QED
  BY <1>3, <1>4 DEF Refused

\* The ends of a run and of its contacts.
LEMMA EndingHolds ==
    ASSUME IInv, NEW r \in Runs,
           LoopEnds(r) \/ LoopCapped(r) \/ Guarded(r) \/ ContactFails(r) \/ TraceEnds(r)
    PROVE  IInv'
<1>1. CASE LoopEnds(r)
  <2>1. result' \in [Runs -> [Contacts -> Statuses]]
    BY <1>1, RunFacts DEF LoopEnds
  <2> QED
    BY <1>1, <2>1, EndsHolds DEF LoopEnds
<1>2. CASE LoopCapped(r)
  <2>1. result' \in [Runs -> [Contacts -> Statuses]]
    BY <1>2, RunFacts DEF LoopCapped, Statuses
  <2> QED
    BY <1>2, <2>1, EndsHolds DEF LoopCapped
<1>3. CASE Guarded(r)
  BY <1>3, RunFacts, DoneHolds DEF Guarded, Placed, Statuses, screens
<1>4. CASE ContactFails(r)
  BY <1>4, RunFacts, DoneHolds DEF ContactFails, Placed, Statuses
<1>5. CASE TraceEnds(r)
  <2>1. PICK status \in Statuses : Done(r, status)
    BY <1>5 DEF TraceEnds, Statuses
  <2> QED
    BY <1>5, <2>1, RunFacts, DoneHolds DEF TraceEnds, Placed, screens
<1> QED
  BY <1>1, <1>2, <1>3, <1>4, <1>5

\* The invariant is inductive, one step for each action.
LEMMA NextHolds == IInv /\ [Next]_vars => IInv'
<1> SUFFICES ASSUME IInv, [Next]_vars PROVE IInv'
  OBVIOUS
<1>1. ASSUME NEW r \in Runs, StartDry(r) PROVE IInv'
  BY <1>1, StartHolds, IdleFacts DEF StartDry, Unused
<1>2. ASSUME NEW r \in Runs, Confirm(r) PROVE IInv'
  BY <1>2, ConfirmHolds
<1>3. ASSUME NEW r \in Runs, DepsReady(r) PROVE IInv'
  BY <1>3, StartHolds DEF DepsReady
<1>4. ASSUME NEW r \in Runs,
             LoopEnds(r) \/ LoopCapped(r) \/ Guarded(r) \/ ContactFails(r) \/ TraceEnds(r)
      PROVE  IInv'
  BY <1>4, EndingHolds
<1>5. ASSUME NEW r \in Runs, TakesContact(r) PROVE IInv'
  BY <1>5, TakesHolds
<1>6. ASSUME NEW r \in Runs, Prepared(r) PROVE IInv'
  BY <1>6, PreparedHolds
<1>7. ASSUME NEW r \in Runs, Invalid(r) PROVE IInv'
  BY <1>7, InvalidHolds
<1>8. ASSUME NEW r \in Runs, Record(r) PROVE IInv'
  BY <1>8, RecordHolds
<1>9. ASSUME NEW r \in Runs, RecordDry(r) PROVE IInv'
  BY <1>9, RecordDryHolds
<1>10. ASSUME NEW r \in Runs, DelayStops(r) PROVE IInv'
  BY <1>10, RunFacts, SkippedHolds DEF DelayStops, Placed
<1>11. ASSUME NEW r \in Runs, DelaySlice(r) PROVE IInv'
  BY <1>11, DelayHolds DEF DelaySlice
<1>12. ASSUME NEW r \in Runs, DelayElapses(r) PROVE IInv'
  BY <1>12, RunFacts, AllowedHolds DEF DelayElapses, Placed
<1>13. ASSUME NEW r \in Runs, Answered(r) PROVE IInv'
  BY <1>13, AnsweredHolds
<1>14. ASSUME NEW r \in Runs, Refused(r) PROVE IInv'
  BY <1>14, RefusedHolds
<1>15. CASE Pause \/ Resume \/ StopAndEdit
  BY <1>15, PauseHolds, ResumeHolds, StopHolds
<1>16. CASE UNCHANGED vars
  BY <1>16 DEF vars, IInv, TypeOK, Of, Good, Placed, Counted, Heeded
<1> QED
  BY <1>1, <1>2, <1>3, <1>4, <1>5, <1>6, <1>7, <1>8, <1>9, <1>10, <1>11, <1>12, <1>13,
     <1>14, <1>15, <1>16 DEF Next, Steps

LEMMA Invariant == Spec => []IInv
BY InitHolds, NextHolds, PTL DEF Spec

\* Every state is one of the declared shape: a write is under way for a contact of the
\* audience's type and for a write of its trace.
THEOREM TypeCorrect == Spec => []TypeOK
<1>1. IInv => TypeOK
  BY DEF IInv
<1> QED
  BY <1>1, Invariant, PTL

\* A run writes no more than its cap, except in place of writes that it took for failed
\* (beforeEffect and onEffect of the code runner).
THEOREM CapIsKept == Spec => []CapKept
<1>1. IInv => CapKept
  BY DEF IInv, Good, Counted, CapKept, Of
<1> QED
  BY <1>1, Invariant, PTL

\* While its flags say stop a run sends no write but its first (pauseAwareDelay).
THEOREM StopIsHeeded == Spec => []StopIsPrompt
<1>1. IInv => StopIsPrompt
  BY DEF IInv, Good, Heeded, StopIsPrompt
<1> QED
  BY <1>1, Invariant, PTL

\* Until the resume a paused run sends one write at most (pauseAwareDelay and the wait
\* before a contact).
THEOREM PauseIsHeeded == Spec => []PauseIsPrompt
<1>1. IInv => PauseIsPrompt
  BY DEF IInv, Good, Heeded, PauseIsPrompt
<1> QED
  BY <1>1, Invariant, PTL
-----------------------------------------------------------------------------
(* The summaries.  What a run knows of a contact is in its summary, in the *)
(* contacts left or in the contact at hand, and a run that was not told to *)
(* stop goes through all of them.                                          *)

Elems(s) == {s[i] : i \in DOMAIN s}

Touched(c, writes) == \E w \in writes : w[2] = c

Acting == {"record", "delay", "slice", "act"}

\* The contacts left are untouched, and the audience is accounted for.
Waiting(n, summary, writes) ==
    n.pc # "ended" =>
      /\ n.pc \in {"idle", "confirmed"} => n.left = Audience
      /\ \A i, j \in DOMAIN n.left : n.left[i] = n.left[j] => i = j
      /\ \A c \in Elems(n.left) : summary[c] = "none" /\ ~Touched(c, writes)
      /\ \A c \in Elems(Audience) :
           \/ c \in Elems(n.left) \/ summary[c] # "none"
           \/ n.pc \in Acting \cup {"prepare"} /\ c = n.contact

\* The run knows whether it has written for the contact at hand.
AtHand(n, summary, writes) ==
    n.pc \in Acting \cup {"prepare"} =>
      /\ summary[n.contact] = "none" /\ n.contact \notin Elems(n.left)
      /\ Touched(n.contact, writes) => n.pc # "prepare" /\ (n.failed \/ n.ran)

\* The flags say stop only to runs that were told.
Over(n, summary, stopped) ==
    /\ stopped => n.pc \in {"idle", "confirmed", "ended"} \/ n.told
    /\ n.pc = "ended" /\ ~n.told => \A c \in Elems(Audience) : summary[c] # "none"

Honest(summary, writes) ==
    \A c \in Contacts : summary[c] = "skipped" => ~Touched(c, writes)

Summed(n, summary, writes, stopped) ==
    /\ Waiting(n, summary, writes)
    /\ AtHand(n, summary, writes)
    /\ Over(n, summary, stopped)
    /\ Honest(summary, writes)

SInv == \A r \in Runs : Summed(run[r], result[r], Of(r), control.stopped)

\* A step of one run leaves the others alone.
LEMMA OthersKeep ==
    ASSUME IInv, SInv, NEW r \in Runs, NEW n, Goes(r, n),
           control'.stopped => control.stopped,
           \A q \in Runs \ {r} : result'[q] = result[q] /\ Of(q)' = Of(q),
           Summed(n, result'[r], Of(r)', control'.stopped)
    PROVE  SInv'
<1>1. ASSUME NEW q \in Runs
      PROVE  Summed(run'[q], result'[q], Of(q)', control'.stopped)
  <2>1. CASE q = r
    BY <2>1 DEF IInv, TypeOK, Goes
  <2>2. CASE q # r
    <3>1. /\ run'[q] = run[q] /\ result'[q] = result[q] /\ Of(q)' = Of(q)
          /\ Summed(run[q], result[q], Of(q), control.stopped)
      BY <2>2 DEF IInv, TypeOK, Goes, SInv
    <3> QED
      BY <3>1 DEF Summed, Over
  <2> QED
    BY <2>1, <2>2
<1> QED
  BY <1>1 DEF SInv

LEMMA SummedFacts ==
    ASSUME SInv, NEW r \in Runs
    PROVE  /\ Waiting(run[r], result[r], Of(r)) /\ AtHand(run[r], result[r], Of(r))
           /\ Over(run[r], result[r], control.stopped) /\ Honest(result[r], Of(r))
BY DEF SInv, Summed

\* The steps between the preparation of a contact and its summary.
LEMMA ActingSteps ==
    ASSUME IInv, SInv, NEW r \in Runs, NEW n, Goes(r, n),
           run[r].pc \in Acting, n.pc \in Acting,
           n.left = run[r].left, n.contact = run[r].contact, n.told = run[r].told,
           run[r].failed \/ run[r].ran => n.failed \/ n.ran,
           UNCHANGED <<screens, result>>,
           \/ UNCHANGED written
           \/ written' = written \cup {Write(r)} /\ (n.failed \/ n.ran)
    PROVE  SInv'
<1>1. /\ \A q \in Runs \ {r} : Of(q)' = Of(q)
      /\ Of(r)' = Of(r) \/ Of(r)' = Of(r) \cup {Write(r)}
  BY DEF Of, Write
<1>2. \A c : Touched(c, Of(r)') =>
               \/ Touched(c, Of(r))
               \/ c = run[r].contact /\ (n.failed \/ n.ran)
  BY DEF Of, Write, Touched
<1>3. run[r].pc # "ended" /\ run[r].pc # "prepare" /\ run[r].contact \in Contacts
  BY RunFacts DEF Acting, Placed
<1>4. Waiting(n, result[r], Of(r)')
  BY <1>2, <1>3, SummedFacts DEF Waiting, AtHand, Acting
<1>5. AtHand(n, result[r], Of(r)')
  BY <1>2, <1>3, SummedFacts DEF AtHand, Acting
<1>6. Over(n, result[r], control'.stopped)
  BY <1>3, SummedFacts DEF Over, Acting, screens
<1>7. Honest(result[r], Of(r)')
  BY <1>2, <1>3, SummedFacts DEF Honest, AtHand, Acting
<1>8. Summed(n, result'[r], Of(r)', control'.stopped)
  BY <1>4, <1>5, <1>6, <1>7 DEF Summed
<1> QED
  BY <1>1, <1>8, OthersKeep DEF screens

\* A contact gets its summary, which is not "skipped" when it has a write.
LEMMA DoneSums ==
    ASSUME IInv, SInv, NEW r \in Runs, NEW status \in Statuses \ {"none"}, Done(r, status),
           run[r].pc \in {"prepare", "record"}, UNCHANGED <<screens, written>>,
           status = "skipped" => run[r].pc = "prepare" \/ ~(run[r].failed \/ run[r].ran)
    PROVE  SInv'
<1> DEFINE n == [run[r] EXCEPT !.pc = "loop", !.contact = "none",
                               !.ran = FALSE, !.failed = FALSE, !.gaps = FALSE]
<1>1. /\ n.pc = "loop" /\ n.left = run[r].left /\ n.told = run[r].told
      /\ Goes(r, n)
  BY RunFacts DEF RunType, Done
<1>2. /\ run[r].contact \in Contacts
      /\ result'[r] = [result[r] EXCEPT ![run[r].contact] = status]
      /\ \A q \in Runs \ {r} : result'[q] = result[q]
      /\ result[r] \in [Contacts -> Statuses]
  BY RunFacts DEF Placed, Done
<1> HIDE DEF n
<1>3. /\ result'[r][run[r].contact] = status
      /\ \A c : c # run[r].contact => result'[r][c] = result[r][c]
  BY <1>2
<1>4. \A q : Of(q)' = Of(q)
  BY DEF Of
<1>5. Waiting(n, result'[r], Of(r))
  BY <1>1, <1>3, SummedFacts DEF Waiting, AtHand, Acting
<1>6. AtHand(n, result'[r], Of(r))
  BY <1>1 DEF AtHand, Acting
<1>7. Over(n, result'[r], control.stopped)
  BY <1>1, SummedFacts DEF Over
<1>8. Honest(result'[r], Of(r))
  BY <1>3, SummedFacts DEF Honest, AtHand, Acting
<1>9. Summed(n, result'[r], Of(r)', control'.stopped)
  BY <1>4, <1>5, <1>6, <1>7, <1>8 DEF Summed, screens
<1> QED
  BY <1>1, <1>2, <1>4, <1>9, OthersKeep DEF screens

\* The end of a run: told to, or with a summary for every contact.
LEMMA EndsSums ==
    ASSUME IInv, SInv, NEW r \in Runs, run[r].pc = "loop", Ends(r),
           \A q \in Runs \ {r} : result'[q] = result[q],
           Honest(result'[r], Of(r)),
           control.stopped \/ \A c \in Elems(Audience) : result'[r][c] # "none"
    PROVE  SInv'
<1> DEFINE n == [Idle EXCEPT !.pc = "ended", !.live = run[r].live,
                             !.lost = run[r].lost, !.told = run[r].told]
<1>1. n.pc = "ended" /\ n.told = run[r].told /\ Goes(r, n)
  BY IdleFacts DEF RunType, Ends
<1> HIDE DEF n
<1>2. /\ \A q : Of(q)' = Of(q)
      /\ control' = control
  BY DEF Of, Ends
<1>3. Over(n, result'[r], control.stopped)
  BY <1>1, SummedFacts DEF Over
<1>4. Waiting(n, result'[r], Of(r)) /\ AtHand(n, result'[r], Of(r))
  BY <1>1 DEF Waiting, AtHand, Acting
<1>5. Summed(n, result'[r], Of(r)', control'.stopped)
  BY <1>2, <1>3, <1>4 DEF Summed
<1> QED
  BY <1>1, <1>2, <1>5, OthersKeep

LEMMA LoopEndsSums ==
    ASSUME IInv, SInv, NEW r \in Runs, LoopEnds(r) PROVE SInv'
<1>1. /\ run[r].pc = "loop" /\ Ends(r) /\ UNCHANGED result
      /\ control.stopped \/ run[r].left = <<>>
  BY DEF LoopEnds
<1>2. ASSUME run[r].left = <<>>
      PROVE  \A c \in Elems(Audience) : result[r][c] # "none"
  <2>1. Elems(run[r].left) = {}
    BY <1>2 DEF Elems
  <2> QED
    BY <1>1, <2>1, SummedFacts DEF Waiting, Acting
<1>3. Honest(result[r], Of(r))
  BY SummedFacts
<1> QED
  BY <1>1, <1>2, <1>3, EndsSums

LEMMA LoopCappedSums ==
    ASSUME IInv, SInv, NEW r \in Runs, LoopCapped(r) PROVE SInv'
<1> DEFINE left == run[r].left
<1>1. /\ run[r].pc = "loop" /\ Ends(r)
      /\ result' = [result EXCEPT ![r] = [c \in Contacts |->
             IF \E i \in DOMAIN left : left[i] = c THEN "skipped" ELSE @[c]]]
  BY DEF LoopCapped
<1>2. /\ left \in Seq(Contacts) /\ result \in [Runs -> [Contacts -> Statuses]]
      /\ Elems(left) \subseteq Contacts
  <2>1. left \in Seq(Contacts) /\ result \in [Runs -> [Contacts -> Statuses]]
    BY RunFacts DEF RunType
  <2> HIDE DEF left
  <2> QED
    BY <2>1 DEF Elems
<1> HIDE DEF left
<1>3. /\ \A q \in Runs \ {r} : result'[q] = result[q]
      /\ \A c \in Contacts : result'[r][c] = IF c \in Elems(left) THEN "skipped"
                                             ELSE result[r][c]
  BY <1>1, <1>2 DEF Elems
<1>4. Waiting(run[r], result[r], Of(r)) /\ Honest(result[r], Of(r))
  BY SummedFacts
<1>5. Honest(result'[r], Of(r))
  BY <1>1, <1>3, <1>4 DEF Honest, Waiting, left
<1>6. \A c \in Elems(Audience) : result'[r][c] # "none"
  <2>1. Elems(Audience) \subseteq Contacts
    BY ConstantFacts DEF Elems
  <2> QED
    BY <1>1, <1>3, <1>4, <2>1 DEF Waiting, Acting, left
<1> QED
  BY <1>1, <1>3, <1>5, <1>6, EndsSums

\* The first of the contacts left and the others.
LEMMA HeadApart ==
    ASSUME NEW s \in Seq(Contacts), s # <<>>,
           \A i, j \in DOMAIN s : s[i] = s[j] => i = j
    PROVE  /\ Head(s) \in Contacts /\ Tail(s) \in Seq(Contacts)
           /\ \A i, j \in DOMAIN Tail(s) : Tail(s)[i] = Tail(s)[j] => i = j
           /\ Elems(s) = Elems(Tail(s)) \cup {Head(s)}
           /\ Head(s) \notin Elems(Tail(s))
<1>1. /\ Head(s) = s[1] /\ 1 \in DOMAIN s /\ Tail(s) \in Seq(Contacts)
      /\ Len(Tail(s)) = Len(s) - 1 /\ Len(s) \in Nat
      /\ \A i \in 1..Len(Tail(s)) : Tail(s)[i] = s[i + 1]
  OBVIOUS
<1>2. DOMAIN s = 1..Len(s) /\ DOMAIN Tail(s) = 1..Len(Tail(s))
  BY <1>1
<1>3. \A i \in DOMAIN Tail(s) : i + 1 \in DOMAIN s /\ i + 1 # 1 /\ Tail(s)[i] = s[i + 1]
  BY <1>1, <1>2
<1>4. \A i, j \in DOMAIN Tail(s) : Tail(s)[i] = Tail(s)[j] => i = j
  <2> SUFFICES ASSUME NEW i \in DOMAIN Tail(s), NEW j \in DOMAIN Tail(s),
                      Tail(s)[i] = Tail(s)[j]
               PROVE  i = j
    OBVIOUS
  <2>1. i + 1 = j + 1 /\ i \in Nat /\ j \in Nat
    BY <1>1, <1>2, <1>3
  <2> QED
    BY <2>1
<1>5. Head(s) \notin Elems(Tail(s))
  BY <1>1, <1>3 DEF Elems
<1>6. \A i \in DOMAIN s : i = 1 \/ (i - 1 \in DOMAIN Tail(s) /\ (i - 1) + 1 = i)
  BY <1>1, <1>2
<1>7. Elems(s) = Elems(Tail(s)) \cup {Head(s)}
  <2>1. ASSUME NEW c \in Elems(s) PROVE c \in Elems(Tail(s)) \cup {Head(s)}
    <3>1. PICK i \in DOMAIN s : c = s[i]
      BY DEF Elems
    <3>2. CASE i = 1
      BY <1>1, <3>1, <3>2
    <3>3. CASE i # 1
      <4>1. i - 1 \in DOMAIN Tail(s) /\ Tail(s)[i - 1] = s[i]
        BY <1>3, <1>6, <3>3
      <4> QED
        BY <3>1, <4>1 DEF Elems
    <3> QED
      BY <3>2, <3>3
  <2>2. Elems(Tail(s)) \cup {Head(s)} \subseteq Elems(s)
    BY <1>1, <1>3 DEF Elems
  <2> QED
    BY <2>1, <2>2
<1> QED
  BY <1>1, <1>4, <1>5, <1>7

LEMMA TakesSums ==
    ASSUME IInv, SInv, NEW r \in Runs, TakesContact(r) PROVE SInv'
<1> DEFINE left == run[r].left
           n == [run[r] EXCEPT !.pc = "prepare", !.left = Tail(@), !.contact = Head(run[r].left)]
<1>1. /\ run[r].pc = "loop" /\ Goes(r, n) /\ left # <<>>
      /\ UNCHANGED <<control, result, written>>
  BY DEF TakesContact, screens
<1>2. /\ n.pc = "prepare" /\ n.left = Tail(left) /\ n.contact = Head(left)
      /\ n.told = run[r].told /\ left \in Seq(Contacts)
  BY RunFacts DEF RunType
<1> HIDE DEF n, left
<1>3. /\ Waiting(run[r], result[r], Of(r)) /\ Over(run[r], result[r], control.stopped)
      /\ Honest(result[r], Of(r))
  BY SummedFacts
<1>4. /\ \A i, j \in DOMAIN left : left[i] = left[j] => i = j
      /\ \A c \in Elems(left) : result[r][c] = "none" /\ ~Touched(c, Of(r))
      /\ \A c \in Elems(Audience) : c \in Elems(left) \/ result[r][c] # "none"
  BY <1>1, <1>3 DEF Waiting, Acting, left
<1>5. /\ \A i, j \in DOMAIN n.left : n.left[i] = n.left[j] => i = j
      /\ Elems(left) = Elems(n.left) \cup {n.contact}
      /\ n.contact \notin Elems(n.left)
  BY <1>1, <1>2, <1>4, HeadApart
<1>6. Waiting(n, result[r], Of(r))
  BY <1>2, <1>4, <1>5 DEF Waiting
<1>7. AtHand(n, result[r], Of(r))
  BY <1>2, <1>4, <1>5 DEF AtHand
<1>8. Over(n, result[r], control.stopped)
  BY <1>1, <1>2, <1>3 DEF Over
<1>9. Of(r)' = Of(r) /\ \A q : Of(q)' = Of(q)
  BY <1>1 DEF Of
<1>10. Summed(n, result'[r], Of(r)', control'.stopped)
  BY <1>1, <1>3, <1>6, <1>7, <1>8, <1>9 DEF Summed
<1> QED
  BY <1>1, <1>9, <1>10, OthersKeep

LEMMA PreparedSums ==
    ASSUME IInv, SInv, NEW r \in Runs, Prepared(r) PROVE SInv'
<1>1. PICK w \in 0..MaxWrites, b \in BOOLEAN :
          Goes(r, [run[r] EXCEPT !.pc = "record", !.writes = w, !.ran = b])
  BY WorkflowAssumption DEF Prepared
<1> DEFINE n == [run[r] EXCEPT !.pc = "record", !.writes = w, !.ran = b]
<1>2. /\ n.pc = "record" /\ n.left = run[r].left /\ n.contact = run[r].contact
      /\ n.told = run[r].told
  BY RunFacts DEF RunType
<1>3. Goes(r, n) /\ run[r].pc = "prepare" /\ UNCHANGED <<control, result, written>>
  BY <1>1 DEF Prepared, screens
<1> HIDE DEF n
<1>4. Waiting(n, result[r], Of(r)) /\ AtHand(n, result[r], Of(r))
  BY <1>2, <1>3, SummedFacts DEF Waiting, AtHand, Acting
<1>5. Over(n, result[r], control.stopped)
  BY <1>2, <1>3, SummedFacts DEF Over
<1>6. \A q : Of(q)' = Of(q)
  BY <1>3 DEF Of
<1>7. Summed(n, result'[r], Of(r)', control'.stopped)
  BY <1>3, <1>4, <1>5, <1>6, SummedFacts DEF Summed
<1> QED
  BY <1>3, <1>6, <1>7, OthersKeep

\* A run that has not begun has all of its audience before it.
LEMMA BeginSums ==
    ASSUME IInv, SInv, NEW r \in Runs, NEW n, Goes(r, n),
           run[r].pc \in {"idle", "confirmed"}, n.pc \in {"loop", "confirmed"},
           n.left = Audience, control'.stopped => control.stopped,
           control'.stopped => n.pc = "confirmed",
           UNCHANGED <<result, written>>
    PROVE  SInv'
<1>1. Waiting(n, result[r], Of(r)) /\ AtHand(n, result[r], Of(r))
  BY SummedFacts DEF Waiting, AtHand, Acting
<1>2. Over(n, result[r], control'.stopped)
  BY DEF Over
<1>3. \A q : Of(q)' = Of(q)
  BY DEF Of
<1>4. Summed(n, result'[r], Of(r)', control'.stopped)
  BY <1>1, <1>2, <1>3, SummedFacts DEF Summed
<1> QED
  BY <1>3, <1>4, OthersKeep

\* Starts replace the flags, and a confirmed run has none yet.
LEMMA StartsSums ==
    ASSUME IInv, SInv, NEW r \in Runs,
           StartDry(r) \/ Confirm(r) \/ DepsReady(r)
    PROVE  SInv'
<1>1. ASSUME NEW live \in BOOLEAN, Starts(r, live), run[r].pc \in {"idle", "confirmed"},
             UNCHANGED <<result, written>>
      PROVE  SInv'
  <2> DEFINE n == NewRun(live)
  <2>1. n.pc = "loop" /\ n.left = Audience
    BY DEF NewRun
  <2>2. Goes(r, n) /\ ~control'.stopped
    BY <1>1 DEF Starts, Goes, Fresh
  <2> HIDE DEF n
  <2> QED
    BY <1>1, <2>1, <2>2, BeginSums
<1>2. CASE StartDry(r)
  <2>1. run[r].pc = "idle"
    BY <1>2, IdleFacts DEF StartDry, Unused
  <2> QED
    BY <1>1, <1>2, <2>1 DEF StartDry
<1>3. CASE DepsReady(r)
  BY <1>1, <1>3 DEF DepsReady
<1>4. CASE Confirm(r)
  <2> DEFINE n == [run[r] EXCEPT !.pc = "confirmed"]
  <2>1. run[r] = Idle /\ Goes(r, n) /\ UNCHANGED <<control, result, written>>
    BY <1>4 DEF Confirm, Unused, Goes
  <2>2. n.pc = "confirmed" /\ n.left = Audience /\ run[r].pc = "idle"
    <3>1. Idle.left = Audience
      BY DEF Idle, NewRun
    <3> QED
      BY <2>1, <3>1, IdleFacts DEF RunType
  <2> HIDE DEF n
  <2> QED
    BY <2>1, <2>2, BeginSums
<1> QED
  BY <1>2, <1>3, <1>4

\* The clicks of the rep: a stop tells every run under way.
LEMMA ClicksSum ==
    ASSUME IInv, SInv, Pause \/ Resume \/ StopAndEdit
    PROVE  SInv'
<1>1. UNCHANGED <<result, written>>
  BY DEF Pause, Resume, StopAndEdit
<1>2. ASSUME NEW r \in Runs
      PROVE  /\ run'[r].pc = run[r].pc /\ run'[r].left = run[r].left
             /\ run'[r].contact = run[r].contact
             /\ run'[r].failed = run[r].failed /\ run'[r].ran = run[r].ran
             /\ run[r].pc = "ended" => run'[r].told = run[r].told
             /\ control'.stopped /\ Active(r) => run'[r].told
  <2>1. run[r] \in RunType /\ control \in [paused : BOOLEAN, stopped : BOOLEAN]
    BY RunFacts DEF IInv, TypeOK
  <2>2. control.stopped /\ Active(r) => run[r].told
    BY SummedFacts DEF Over, Active
  <2>3. CASE Pause
    <3>1. /\ run'[r] = IF Active(r) THEN [run[r] EXCEPT !.held = 0] ELSE run[r]
          /\ control'.stopped = control.stopped
      BY <2>1, <2>3 DEF Pause
    <3> QED
      BY <2>1, <2>2, <3>1 DEF RunType
  <2>4. CASE Resume
    <3>1. run'[r] = run[r] /\ control'.stopped = control.stopped
      BY <2>1, <2>4 DEF Resume
    <3> QED
      BY <2>2, <3>1
  <2>5. CASE StopAndEdit
    <3>1. run'[r] = IF Active(r) THEN [run[r] EXCEPT !.told = TRUE] ELSE run[r]
      BY <2>5 DEF StopAndEdit
    <3>2. run[r].pc = "ended" => ~Active(r)
      BY DEF Active
    <3> HIDE DEF Active
    <3> QED
      BY <2>1, <3>1, <3>2 DEF RunType
  <2> QED
    BY <2>3, <2>4, <2>5
<1>3. ASSUME NEW r \in Runs
      PROVE  Summed(run'[r], result'[r], Of(r)', control'.stopped)
  <2>1. Of(r)' = Of(r) /\ result'[r] = result[r]
    BY <1>1 DEF Of
  <2>2. Waiting(run'[r], result[r], Of(r)) /\ AtHand(run'[r], result[r], Of(r))
    BY <1>2, SummedFacts DEF Waiting, AtHand
  <2>3. Over(run'[r], result[r], control'.stopped)
    BY <1>2, SummedFacts DEF Over, Active
  <2> QED
    BY <2>1, <2>2, <2>3, SummedFacts DEF Summed
<1> QED
  BY <1>3 DEF SInv

\* The steps of a run with a contact at hand.
LEMMA TraceSums ==
    ASSUME IInv, SInv, NEW r \in Runs,
           \/ Invalid(r) \/ Record(r) \/ RecordDry(r)
           \/ DelayStops(r) \/ DelaySlice(r) \/ DelayElapses(r)
           \/ Answered(r) \/ Refused(r)
    PROVE  SInv'
<1> DEFINE Follows(n) ==
      /\ Goes(r, n) /\ n.pc \in Acting
      /\ n.left = run[r].left /\ n.contact = run[r].contact /\ n.told = run[r].told
      /\ run[r].failed \/ run[r].ran => n.failed \/ n.ran
<1>1. run[r].pc \in Acting /\ run[r] \in RunType
  BY RunFacts DEF Invalid, Record, RecordDry, DelayStops, DelaySlice,
     DelayElapses, Answered, Refused, Acting
<1>2. UNCHANGED <<screens, result>>
  BY DEF Invalid, Record, RecordDry, DelayStops, DelaySlice, DelayElapses,
     Answered, Refused
<1>3. ASSUME NEW n, Follows(n),
             \/ UNCHANGED written
             \/ written' = written \cup {Write(r)} /\ (n.failed \/ n.ran)
      PROVE  SInv'
  BY <1>1, <1>2, <1>3, ActingSteps
<1>4. ASSUME Skipped(r), UNCHANGED written PROVE SInv'
  <2> DEFINE n == [run[r] EXCEPT !.pc = "record", !.writes = @ - 1, !.gaps = TRUE]
  <2>1. Follows(n)
    BY <1>1, <1>4 DEF Skipped, RunType, Acting
  <2> HIDE DEF n, Follows
  <2> QED
    BY <1>3, <1>4, <2>1
<1>5. ASSUME Allowed(r), UNCHANGED written PROVE SInv'
  <2> DEFINE sent == [run[r] EXCEPT !.pc = "act", !.attempted = TRUE,
                          !.held = Tally(@, control.paused),
                          !.late = Tally(@, control.stopped /\ run[r].attempted)]
             blocked == [run[r] EXCEPT !.pc = "record", !.attempted = TRUE, !.writes = @ - 1]
  <2>1. Goes(r, sent) => Follows(sent)
    BY <1>1 DEF RunType, Acting
  <2>2. Goes(r, blocked) => Follows(blocked)
    BY <1>1 DEF RunType, Acting
  <2>3. Goes(r, sent) \/ Goes(r, blocked)
    BY <1>5 DEF Allowed
  <2> HIDE DEF sent, blocked, Follows
  <2> QED
    BY <1>3, <1>5, <2>1, <2>2, <2>3
<1>6. ASSUME NEW pc \in {"delay", "slice"}, Goes(r, [run[r] EXCEPT !.pc = pc]),
             UNCHANGED written
      PROVE  SInv'
  <2> DEFINE n == [run[r] EXCEPT !.pc = pc]
  <2>1. Follows(n)
    BY <1>1, <1>6 DEF RunType, Acting
  <2> HIDE DEF n, Follows
  <2> QED
    BY <1>3, <1>6, <2>1
<1>a. CASE Invalid(r)
  <2> DEFINE n == [run[r] EXCEPT !.writes = @ - 1, !.failed = TRUE, !.gaps = TRUE]
  <2>1. CASE Skipped(r)
    BY <1>4, <1>a, <2>1 DEF Invalid
  <2>2. CASE Goes(r, n)
    <3>1. Follows(n)
      BY <1>1, <2>2 DEF RunType, Acting
    <3>2. UNCHANGED written
      BY <1>a DEF Invalid
    <3> HIDE DEF n, Follows
    <3> QED
      BY <1>3, <3>1, <3>2
  <2> QED
    BY <1>a, <2>1, <2>2 DEF Invalid
<1>b. CASE Record(r)
  BY <1>4, <1>5, <1>6, <1>b DEF Record
<1>c. CASE RecordDry(r)
  <2> DEFINE room == IF Cap = 0 THEN MaxWrites ELSE Cap - run[r].effects
             k == IF run[r].writes < room THEN run[r].writes ELSE room
             n == [run[r] EXCEPT !.writes = 0, !.ran = @ \/ k > 0, !.effects = @ + k]
  <2>1. Goes(r, n) /\ UNCHANGED written
    BY <1>c DEF RecordDry
  <2> HIDE DEF k
  <2>2. Follows(n)
    BY <1>1, <2>1 DEF RunType, Acting
  <2> HIDE DEF n, Follows
  <2> QED
    BY <1>3, <2>1, <2>2
<1>d. CASE DelayStops(r)
  BY <1>4, <1>d DEF DelayStops
<1>e. CASE DelaySlice(r)
  BY <1>6, <1>e DEF DelaySlice
<1>f. CASE DelayElapses(r)
  BY <1>5, <1>f DEF DelayElapses
<1>g. CASE Answered(r)
  <2> DEFINE n == [run[r] EXCEPT !.pc = "record", !.writes = @ - 1,
                                 !.ran = TRUE, !.effects = @ + 1]
  <2>1. Goes(r, n) /\ written' = written \cup {Write(r)}
    BY <1>g DEF Answered
  <2>2. Follows(n) /\ n.ran
    BY <1>1, <2>1 DEF RunType, Acting
  <2> HIDE DEF n, Follows
  <2> QED
    BY <1>3, <2>1, <2>2
<1>h. CASE Refused(r)
  <2> DEFINE lost == [run[r] EXCEPT !.pc = "record", !.writes = @ - 1,
                          !.failed = TRUE, !.gaps = TRUE, !.lost = @ + 1]
             refused == [run[r] EXCEPT !.pc = "record", !.writes = @ - 1,
                             !.failed = TRUE, !.gaps = TRUE]
  <2>1. \/ Goes(r, lost) /\ written' = written \cup {Write(r)}
        \/ Goes(r, refused) /\ UNCHANGED written
    BY <1>h DEF Refused
  <2>2. Goes(r, lost) => Follows(lost) /\ lost.failed
    BY <1>1 DEF RunType, Acting
  <2>3. Goes(r, refused) => Follows(refused)
    BY <1>1 DEF RunType, Acting
  <2> HIDE DEF lost, refused, Follows
  <2> QED
    BY <1>3, <2>1, <2>2, <2>3
<1> QED
  BY <1>a, <1>b, <1>c, <1>d, <1>e, <1>f, <1>g, <1>h

\* The summaries of a contact: guarded, failed, or by what its trace came to.
LEMMA ContactSums ==
    ASSUME IInv, SInv, NEW r \in Runs, Guarded(r) \/ ContactFails(r) \/ TraceEnds(r)
    PROVE  SInv'
<1>1. CASE Guarded(r)
  BY <1>1, DoneSums DEF Guarded, Statuses
<1>2. CASE ContactFails(r)
  BY <1>2, DoneSums DEF ContactFails, Statuses
<1>3. CASE TraceEnds(r)
  <2>1. run[r].failed \in BOOLEAN /\ run[r].ran \in BOOLEAN
    BY RunFacts DEF RunType
  <2>2. \E status \in Statuses \ {"none"} :
          /\ Done(r, status)
          /\ status = "skipped" => ~(run[r].failed \/ run[r].ran)
    BY <1>3, <2>1 DEF TraceEnds, Statuses
  <2> QED
    BY <1>3, <2>2, DoneSums DEF TraceEnds
<1> QED
  BY <1>1, <1>2, <1>3

\* No contact that a run has written for is summed up as skipped, and a run that ends
\* without being stopped has summed up all of its audience, whatever the clicks, the
\* failures and the other runs (runCodeWorkflow and its finish of the contacts behind
\* the cap).
THEOREM SummariesHold == Spec => []SummariesAreTrue
<1>1. Init => SInv
  <2> SUFFICES ASSUME Init, NEW r \in Runs
               PROVE  Summed(run[r], result[r], Of(r), control.stopped)
    BY DEF SInv
  <2>1. /\ run[r] = Idle /\ Of(r) = {} /\ ~control.stopped
        /\ \A c \in Contacts : result[r][c] = "none"
    BY DEF Init, Of, Fresh
  <2>2. Idle.left = Audience /\ Idle.pc = "idle"
    BY DEF Idle, NewRun
  <2>3. /\ Elems(Audience) \subseteq Contacts
        /\ \A i, j \in DOMAIN Audience : Audience[i] = Audience[j] => i = j
    BY WorkflowAssumption DEF Elems
  <2>4. Waiting(run[r], result[r], Of(r))
    BY <2>1, <2>2, <2>3 DEF Waiting, Touched
  <2> QED
    BY <2>1, <2>2, <2>4 DEF Summed, AtHand, Acting, Over, Honest
<1>2. IInv /\ SInv /\ [Next]_vars => SInv'
  <2> SUFFICES ASSUME IInv, SInv, [Next]_vars PROVE SInv'
    OBVIOUS
  <2>1. ASSUME NEW r \in Runs, StartDry(r) \/ Confirm(r) \/ DepsReady(r) PROVE SInv'
    BY <2>1, StartsSums
  <2>2. ASSUME NEW r \in Runs, LoopEnds(r) \/ LoopCapped(r) \/ TakesContact(r) PROVE SInv'
    BY <2>2, LoopEndsSums, LoopCappedSums, TakesSums
  <2>3. ASSUME NEW r \in Runs, Prepared(r) PROVE SInv'
    BY <2>3, PreparedSums
  <2>4. ASSUME NEW r \in Runs, Guarded(r) \/ ContactFails(r) \/ TraceEnds(r) PROVE SInv'
    BY <2>4, ContactSums
  <2>5. ASSUME NEW r \in Runs,
               \/ Invalid(r) \/ Record(r) \/ RecordDry(r)
               \/ DelayStops(r) \/ DelaySlice(r) \/ DelayElapses(r)
               \/ Answered(r) \/ Refused(r)
        PROVE  SInv'
    BY <2>5, TraceSums
  <2>6. CASE Pause \/ Resume \/ StopAndEdit
    BY <2>6, ClicksSum
  <2>7. CASE UNCHANGED vars
    BY <2>7 DEF vars, SInv, Of
  <2> QED
    BY <2>1, <2>2, <2>3, <2>4, <2>5, <2>6, <2>7 DEF Next, Steps
<1>3. SInv => SummariesAreTrue
  <2> SUFFICES ASSUME SInv, NEW r \in Runs
               PROVE  /\ \A c \in Contacts : result[r][c] = "skipped" =>
                            ~\E w \in written : w[1] = r /\ w[2] = c
                      /\ run[r].pc = "ended" /\ ~run[r].told =>
                            \A i \in DOMAIN Audience : result[r][Audience[i]] # "none"
    BY DEF SummariesAreTrue
  <2>1. \A c \in Contacts : result[r][c] = "skipped" =>
            ~\E w \in written : w[1] = r /\ w[2] = c
    BY SummedFacts DEF Honest, Touched, Of
  <2>2. run[r].pc = "ended" /\ ~run[r].told =>
            \A i \in DOMAIN Audience : result[r][Audience[i]] # "none"
    BY SummedFacts DEF Over, Elems
  <2> QED
    BY <2>1, <2>2
<1> QED
  BY <1>1, <1>2, <1>3, Invariant, PTL DEF Spec
=============================================================================
