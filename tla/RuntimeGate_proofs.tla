-------------------------- MODULE RuntimeGate_proofs --------------------------
(***************************************************************************)
(* The safety of the access decision for any number of concurrent starts,  *)
(* any grace period and any bounds.                                        *)
(*                                                                         *)
(* A pass writes what it read in an earlier step, so the records the       *)
(* passes hold must satisfy what the stored record satisfies: IInv says of *)
(* every record read by a start, by the check under way and by a close     *)
(* that its stamp is the time of a yes the worker has taken.               *)
(***************************************************************************)
EXTENDS RuntimeGate, TLAPS

\* A record that is stored, or that some pass holds and may write back.
Sound(r) == r \in Records /\ r.stamp <= lastYes /\ (r.open => r.stamp > 0)

Held ==
    /\ \A i \in Starts : Sound(start[i].prev)
    /\ Sound(sync.prev) /\ Sound(closer.prev)

Accepted == sync.pc = "read" /\ sync.answer = "yes" => sync.at > 0 /\ sync.at <= lastYes

Agree == openState => record.open \/ unsaved

IInv == TypeOK /\ Sound(record) /\ Agree /\ Held /\ Accepted

\* An answer that was taken as no, or is not yet, is the last word of the backend.
Heard == sync.pc \in {"answered", "read"} /\ denied => sync.answer = "no"

\* A revocation the worker has heard is in force, or a pass is under way that ends
\* behind a health check: the check itself, or a start, which asks for one.
Shut == ~openState /\ (~record.open \/ unsaved)
Pending == sync.pc # "none" \/ \E i \in Starts : start[i].pc # "none"
Revoked == NoFault /\ denied => Shut \/ Pending

RInv == Heard /\ Revoked

\* The bounds are naturals.
LEMMA ConstantFacts ==
    /\ Grace \in Nat /\ Grace > 0 /\ MaxClock \in Nat /\ MaxClock > 0
BY GateConstants

\* No record and every decision with a stamp in range are records.
LEMMA RecordFacts ==
    /\ NoRecord \in Records
    /\ \A open \in BOOLEAN, stamp \in 0 .. MaxClock :
          /\ Decision(open, stamp) \in Records
          /\ Decision(open, stamp).open = open
          /\ Decision(open, stamp).stamp = stamp
BY ConstantFacts DEF NoRecord, Decision, Records

\* What a pass is before it has read anything.
LEMMA IdleFacts ==
    /\ NoSync \in [pc : {"none", "asked", "answered", "read"}, answer : {"none", "yes", "no"},
                    prev : Records, at : 0 .. MaxClock]
    /\ [NoSync EXCEPT !.pc = "asked"] \in
           [pc : {"none", "asked", "answered", "read"}, answer : {"none", "yes", "no"},
            prev : Records, at : 0 .. MaxClock]
    /\ Idle \in [pc : {"none", "called", "read"}, prev : Records]
    /\ Idle \in [pc : {"none", "read"}, prev : Records]
    /\ NoSync.prev = NoRecord /\ [NoSync EXCEPT !.pc = "asked"].prev = NoRecord
    /\ Idle.prev = NoRecord /\ NoSync.pc = "none" /\ [NoSync EXCEPT !.pc = "asked"].pc = "asked"
BY ConstantFacts, RecordFacts DEF NoSync, Idle

LEMMA NoRecordSound == ClockOK => Sound(NoRecord)
BY ConstantFacts, RecordFacts DEF ClockOK, Sound, NoRecord

\* A decision with an earned stamp keeps the record sound and the worker in agreement,
\* or is known to be unsaved.
LEMMA DecideSound ==
    ASSUME ClockOK, CountOK, Sound(record), lastYes' = lastYes,
           NEW open \in BOOLEAN, NEW stamp \in Nat,
           stamp <= lastYes, open => stamp > 0, Decide(open, stamp)
    PROVE  /\ Sound(record)' /\ Agree' /\ CountOK'
           /\ unsaved' \in BOOLEAN /\ count'.faults = count.faults
<1>1. CASE record' = Decision(open, stamp) /\ unsaved' = FALSE /\ UNCHANGED count
  <2>1. stamp \in 0 .. MaxClock
    BY ConstantFacts DEF ClockOK
  <2>2. record' \in Records /\ record'.open = open /\ record'.stamp = stamp
    BY <1>1, <2>1, RecordFacts
  <2>3. record'.open => record'.stamp > 0
    BY <2>2
  <2>4. openState' => record'.open
    BY <2>2, Zenon DEF Decide
  <2> QED
    BY <1>1, <2>2, <2>3, <2>4 DEF Sound, Agree, CountOK
<1>2. CASE Spend("refused") /\ UNCHANGED record /\ unsaved' = TRUE
  BY <1>2 DEF Sound, Agree, CountOK, Spend
<1> QED
  BY <1>1, <1>2 DEF Decide

\* Every pass is idle or about to read, and what it holds is no record.
LEMMA InitHolds == Init => IInv
<1> SUFFICES ASSUME Init PROVE IInv
  OBVIOUS
<1>1. Sound(record) /\ Sound(NoRecord) /\ RecordOK
  BY ConstantFacts, RecordFacts DEF Init, Sound, NoRecord, Decision, Records, RecordOK
<1>2. FlagsOK
  BY Zenon DEF Init, FlagsOK
<1>3. PassesOK
  BY ConstantFacts, RecordFacts DEF Init, PassesOK, Idle, NoSync
<1>4. ClockOK /\ CountOK
  BY ConstantFacts DEF Init, ClockOK, CountOK
<1>5. Held /\ Accepted
  BY <1>1 DEF Init, Held, Accepted, Idle, NoSync
<1>6. Agree
  BY DEF Init, Agree
<1> QED
  BY <1>1, <1>2, <1>3, <1>4, <1>5, <1>6 DEF IInv, TypeOK

\* A record read or written stays sound: the last yes only moves forward.
LEMMA SoundStays ==
    ASSUME ClockOK, lastYes' \in Nat, lastYes <= lastYes', NEW r, Sound(r)
    PROVE  r \in Records /\ r.stamp <= lastYes' /\ (r.open => r.stamp > 0)
BY ConstantFacts DEF ClockOK, Sound, Records

\* The invariant is inductive, one step for each action.
LEMMA NextHolds == IInv /\ [Next]_vars => IInv'
<1> SUFFICES ASSUME IInv, [Next]_vars PROVE IInv'
  OBVIOUS
<1>1. CASE KeyChanges \/ Tick
  <2>1. FlagsOK'
    BY <1>1, Zenon DEF KeyChanges, Tick, decision, IInv, TypeOK, FlagsOK
  <2>2. ClockOK' /\ CountOK'
    BY <1>1, ConstantFacts DEF KeyChanges, Tick, IInv, TypeOK, ClockOK, CountOK, Spend
  <2> QED
    BY <1>1, <2>1, <2>2 DEF KeyChanges, Tick, decision, IInv, TypeOK, RecordOK, PassesOK,
       Sound, Agree, Held, Accepted
<1>2. CASE Alarm \/ CheckFails \/ Stray401 \/ Stray403
  <2> USE DEF Alarm, CheckFails, Stray401, Stray403, AskHealth, world, decision
  <2>1. FlagsOK'
    BY <1>2, Zenon DEF IInv, TypeOK, FlagsOK
  <2>2. PassesOK' /\ RecordOK'
    BY <1>2, IdleFacts DEF IInv, TypeOK, PassesOK, RecordOK, Sound
  <2>3. ClockOK' /\ CountOK'
    BY <1>2 DEF IInv, TypeOK, ClockOK, CountOK, Spend
  <2>4. Sound(record)' /\ Held'
    BY <1>2, IdleFacts, NoRecordSound DEF IInv, TypeOK, Held, Sound
  <2>5. Accepted' /\ Agree'
    BY <1>2, IdleFacts DEF IInv, Accepted, Agree
  <2> QED
    BY <2>1, <2>2, <2>3, <2>4, <2>5 DEF IInv, TypeOK
<1>3. CASE Answered
  <2>1. FlagsOK'
    BY <1>3, Zenon DEF Answered, decision, world, IInv, TypeOK, FlagsOK
  <2>2. PassesOK' /\ sync'.prev = sync.prev /\ sync'.pc = "answered"
    BY <1>3 DEF Answered, IInv, TypeOK, PassesOK
  <2> QED
    BY <1>3, <2>1, <2>2 DEF Answered, decision, world, IInv, TypeOK, RecordOK, ClockOK, CountOK,
       Sound, Agree, Held, Accepted
<1>4. CASE SyncReads
  <2>1. FlagsOK'
    BY <1>4, Zenon DEF SyncReads, decision, world, IInv, TypeOK, FlagsOK
  <2>2. ClockOK' /\ lastYes <= lastYes' /\ lastYes' \in Nat
    BY <1>4, ConstantFacts DEF SyncReads, decision, world, IInv, TypeOK, ClockOK
  <2>3. PassesOK' /\ sync'.prev = record /\ sync'.at = clock /\ sync'.answer = sync.answer
    <3>1. clock \in 0 .. MaxClock /\ record \in Records
      BY <1>4, ConstantFacts DEF IInv, TypeOK, Sound, ClockOK
    <3> QED
      BY <1>4, <3>1 DEF SyncReads, IInv, TypeOK, PassesOK
  <2>4. Sound(record)' /\ Held'
    BY <1>4, <2>2, <2>3, SoundStays DEF SyncReads, decision, IInv, TypeOK, Held, Sound
  <2>5. Accepted'
    BY <1>4, <2>3 DEF SyncReads, IInv, TypeOK, ClockOK, Accepted
  <2> QED
    BY <1>4, <2>1, <2>2, <2>3, <2>4, <2>5
       DEF SyncReads, decision, world, IInv, TypeOK, RecordOK, CountOK, Agree
<1>5. CASE Accept \/ Revoke
  <2> USE DEF Accept, Revoke, world
  <2>1. PassesOK' /\ sync' = NoSync
    BY <1>5, IdleFacts DEF IInv, TypeOK, PassesOK
  <2>2. Sound(record)' /\ Agree' /\ CountOK' /\ unsaved' \in BOOLEAN
    <3>1. CASE Accept
      <4>1. sync.at \in Nat /\ sync.at <= lastYes /\ sync.at > 0
        BY <3>1, ConstantFacts DEF IInv, TypeOK, PassesOK, Accepted
      <4>2. Decide(TRUE, sync.at) /\ lastYes' = lastYes /\ ClockOK /\ CountOK /\ Sound(record)
        BY <3>1 DEF IInv, TypeOK
      <4> QED
        BY <4>1, <4>2, DecideSound
    <3>2. CASE Revoke
      <4>1. sync.prev.stamp \in Nat /\ sync.prev.stamp <= lastYes
        BY ConstantFacts DEF IInv, Held, Sound, Records
      <4>2. /\ Decide(FALSE, sync.prev.stamp) /\ lastYes' = lastYes
            /\ ClockOK /\ CountOK /\ Sound(record)
        BY <3>2 DEF IInv, TypeOK
      <4> QED
        BY <4>1, <4>2, DecideSound
    <3> QED
      BY <1>5, <3>1, <3>2
  <2>3. FlagsOK'
    BY <1>5, <2>2, Zenon DEF Decide, IInv, TypeOK, FlagsOK
  <2>4. Held' /\ Accepted'
    BY <1>5, <2>1, IdleFacts, NoRecordSound DEF IInv, TypeOK, Held, Accepted, Sound
  <2> QED
    BY <1>5, <2>1, <2>2, <2>3, <2>4 DEF IInv, TypeOK, RecordOK, Sound, ClockOK
<1>6. CASE CloserCloses
  <2>1. PassesOK' /\ closer' = Idle
    BY <1>6, IdleFacts DEF CloserCloses, IInv, TypeOK, PassesOK
  <2>2. Sound(record)' /\ Agree' /\ CountOK' /\ unsaved' \in BOOLEAN
    <3>1. closer.prev.stamp \in Nat /\ closer.prev.stamp <= lastYes
      BY ConstantFacts DEF IInv, Held, Sound, Records
    <3>2. /\ Decide(FALSE, closer.prev.stamp) /\ lastYes' = lastYes
          /\ ClockOK /\ CountOK /\ Sound(record)
      BY <1>6 DEF CloserCloses, IInv, TypeOK
    <3> QED
      BY <3>1, <3>2, DecideSound
  <2>3. FlagsOK'
    BY <1>6, <2>2, Zenon DEF CloserCloses, Decide, world, IInv, TypeOK, FlagsOK
  <2>4. Held' /\ Accepted'
    BY <1>6, <2>1, IdleFacts, NoRecordSound
       DEF CloserCloses, IInv, TypeOK, Held, Accepted, Sound
  <2> QED
    BY <1>6, <2>1, <2>2, <2>3, <2>4
       DEF CloserCloses, world, IInv, TypeOK, RecordOK, Sound, ClockOK
<1>7. ASSUME NEW i \in Starts, StartReads(i) PROVE IInv'
  <2>1. FlagsOK'
    BY <1>7, Zenon DEF StartReads, decision, world, IInv, TypeOK, FlagsOK
  <2>2. PassesOK'
    BY <1>7 DEF StartReads, decision, IInv, TypeOK, PassesOK, Sound
  <2>3. Held'
    BY <1>7 DEF StartReads, decision, IInv, TypeOK, PassesOK, Held, Sound
  <2> QED
    BY <1>7, <2>1, <2>2, <2>3
       DEF StartReads, decision, world, IInv, TypeOK, RecordOK, ClockOK, CountOK, Sound, Agree, Accepted
<1>8. ASSUME NEW i \in Starts, StartDecides(i) PROVE IInv'
  <2>1. PassesOK'
    BY <1>8, IdleFacts DEF StartDecides, AskHealth, IInv, TypeOK, PassesOK
  <2>2. Sound(record)' /\ Agree' /\ CountOK' /\ unsaved' \in BOOLEAN
    <3> DEFINE prev == start[i].prev
    <3>1. Sound(prev)
      BY <1>8 DEF IInv, Held
    <3>2. CASE Reusable(prev)
      <4>1. prev.stamp \in Nat /\ prev.stamp <= lastYes /\ prev.stamp > 0
        BY <3>1, <3>2 DEF Sound, Records, Reusable
      <4>2. Decide(TRUE, prev.stamp) /\ lastYes' = lastYes /\ ClockOK /\ CountOK /\ Sound(record)
        BY <1>8, <3>2 DEF StartDecides, IInv, TypeOK
      <4> QED
        BY <4>1, <4>2, DecideSound
    <3>3. CASE ~Reusable(prev)
      <4>1. StayClosed /\ lastYes' = lastYes
        BY <1>8, <3>3 DEF StartDecides
      <4>2. Agree'
        BY <4>1 DEF StayClosed, Agree
      <4>3. unsaved' \in BOOLEAN
        BY <4>1, Zenon DEF StayClosed, IInv, TypeOK, FlagsOK
      <4> QED
        BY <4>1, <4>2, <4>3 DEF StayClosed, IInv, TypeOK, CountOK, Sound
    <3> QED
      BY <3>2, <3>3
  <2>3. FlagsOK'
    <3>1. openState' \in BOOLEAN
      BY <1>8, Zenon DEF StartDecides, StayClosed, Decide
    <3> QED
      BY <1>8, <2>2, <3>1, Zenon DEF StartDecides, world, IInv, TypeOK, FlagsOK
  <2>4. Held' /\ Accepted'
    BY <1>8, IdleFacts, NoRecordSound
       DEF StartDecides, AskHealth, IInv, TypeOK, PassesOK, Held, Accepted, Sound
  <2> QED
    BY <1>8, <2>1, <2>2, <2>3, <2>4
       DEF StartDecides, world, IInv, TypeOK, RecordOK, Sound, ClockOK
<1>9. CASE Restart
  <2>1. FlagsOK'
    BY <1>9, Zenon DEF Restart, IInv, TypeOK, FlagsOK
  <2>2. PassesOK' /\ CountOK'
    <3>1. start' \in [Starts -> [pc : {"none", "called", "read"}, prev : Records]]
      BY <1>9, IdleFacts DEF Restart
    <3> QED
      BY <1>9, <3>1, IdleFacts DEF Restart, Spend, IInv, TypeOK, PassesOK, CountOK
  <2>3. Held' /\ Accepted'
    <3>1. \A i \in Starts : start'[i].prev = NoRecord
      BY <1>9, IdleFacts DEF Restart
    <3> QED
      BY <1>9, <3>1, IdleFacts, NoRecordSound
         DEF Restart, IInv, TypeOK, Held, Accepted, Sound
  <2> QED
    BY <1>9, <2>1, <2>2, <2>3 DEF Restart, IInv, TypeOK, RecordOK, Sound, ClockOK, Agree
<1>10. CASE UNCHANGED vars
  BY <1>10 DEF vars, IInv, TypeOK, FlagsOK, RecordOK, PassesOK, ClockOK, CountOK,
     Sound, Agree, Held, Accepted
<1> QED
  BY <1>1, <1>2, <1>3, <1>4, <1>5, <1>6, <1>7, <1>8, <1>9, <1>10
     DEF Next, SyncNext, StartNext

\* The inductive invariant holds of every reachable state.
THEOREM InvariantHolds == Spec => []IInv
BY InitHolds, NextHolds, PTL DEF Spec

\* Every variable keeps its type and an open record carries a stamp, however the
\* passes of runtime-bootstrap.js interleave.
THEOREM TypeCorrect == Spec => []TypeOK
<1>1. IInv => TypeOK
  BY DEF IInv
<1> QED
  BY <1>1, InvariantHolds, PTL

\* The stamp the grace period is counted from is the time of a yes of the backend:
\* no restart, reuse, close or late write renews it.
THEOREM GraceIsEarned == Spec => []StampIsVerified
<1>1. IInv => StampIsVerified
  BY DEF IInv, Sound, StampIsVerified
<1> QED
  BY <1>1, InvariantHolds, PTL

\* The worker serves messages only while the stored record is open, or after a
\* decision that the browser refused to store.
THEOREM ClosedRecordClosesWorker == Spec => []ClosedIsClosed
<1>1. IInv => ClosedIsClosed
  BY DEF IInv, Agree, ClosedIsClosed
<1> QED
  BY <1>1, InvariantHolds, PTL

-----------------------------------------------------------------------------
(* Revocations.                                                            *)

\* A check that is asked for is under way.
LEMMA AskFacts == AskHealth => sync'.pc # "none" /\ (sync' = sync \/ sync'.pc = "asked")
BY DEF AskHealth, NoSync

LEMMA InitRevoked == Init => RInv
BY DEF Init, RInv, Heard, Revoked, NoSync

LEMMA RevokedSteps == IInv /\ RInv /\ [Next]_vars => RInv'
<1> SUFFICES ASSUME IInv, RInv, [Next]_vars PROVE RInv'
  OBVIOUS
<1>1. CASE KeyChanges \/ Tick
  BY <1>1 DEF KeyChanges, Tick, decision, Spend, RInv, Heard, Revoked, NoFault, Shut, Pending,
     IInv, TypeOK, CountOK
<1>2. CASE Alarm \/ Stray403
  <2>1. AskHealth /\ denied' = denied
    BY <1>2 DEF Alarm, Stray403
  <2> QED
    BY <2>1, AskFacts DEF RInv, Heard, Revoked, Pending
<1>3. CASE Stray401
  BY <1>3 DEF Stray401, decision, Spend, RInv, Heard, Revoked, NoFault, Shut, Pending, IInv, TypeOK, CountOK
<1>4. CASE CheckFails
  <2>1. sync'.pc = "none"
    BY <1>4 DEF CheckFails, NoSync
  <2>2. count.faults \in Nat /\ count'.faults = count.faults + 1
    BY <1>4 DEF CheckFails, Spend, IInv, TypeOK, CountOK
  <2>3. ~NoFault'
    BY <2>2 DEF NoFault
  <2> QED
    BY <2>1, <2>3 DEF RInv, Heard, Revoked
<1>5. CASE Answered
  <2>1. sync'.pc = "answered" /\ sync'.answer = IF enabled THEN "yes" ELSE "no"
    BY <1>5 DEF Answered, IInv, TypeOK, PassesOK
  <2>2. denied' = ~enabled
    BY <1>5 DEF Answered
  <2>3. Heard'
    BY <2>1, <2>2, Zenon DEF Heard
  <2> QED
    BY <2>1, <2>3 DEF RInv, Revoked, Pending
<1>6. CASE SyncReads
  <2>1. sync'.pc = "read" /\ sync'.answer = sync.answer /\ denied' = denied
    BY <1>6 DEF SyncReads, IInv, TypeOK, PassesOK
  <2> QED
    BY <1>6, <2>1 DEF SyncReads, RInv, Heard, Revoked, Pending
<1>7. CASE Accept
  \* What the worker takes for a yes is the last word of the backend.
  <2>1. ~denied /\ denied' = denied /\ sync'.pc = "none"
    BY <1>7 DEF Accept, RInv, Heard, NoSync
  <2> QED
    BY <2>1 DEF RInv, Heard, Revoked
<1>8. CASE Revoke \/ CloserCloses
  <2>1. Shut'
    <3>1. ~openState'
      BY <1>8, Zenon DEF Revoke, CloserCloses, Decide
    <3>2. ~record'.open \/ unsaved'
      BY <1>8 DEF Revoke, CloserCloses, Decide, Decision
    <3> QED
      BY <3>1, <3>2, Zenon DEF Shut
  <2>2. sync' = NoSync \/ sync' = sync
    BY <1>8 DEF Revoke, CloserCloses
  <2>3. denied' = denied
    BY <1>8 DEF Revoke, CloserCloses
  <2>4. NoFault' => NoFault
    BY <1>8 DEF Revoke, CloserCloses, Decide, Spend, NoFault, IInv, TypeOK, CountOK
  <2> QED
    BY <2>1, <2>2, <2>3, <2>4, IdleFacts DEF RInv, Heard, Revoked
<1>9. ASSUME NEW i \in Starts, StartReads(i) PROVE RInv'
  <2>1. start'[i].pc = "read"
    BY <1>9 DEF StartReads, IInv, TypeOK, PassesOK
  <2> QED
    BY <1>9, <2>1 DEF StartReads, RInv, Heard, Revoked, Pending
<1>10. ASSUME NEW i \in Starts, StartDecides(i) PROVE RInv'
  \* Whatever it writes back, a check follows.
  <2>1. AskHealth /\ denied' = denied
    BY <1>10 DEF StartDecides
  <2> QED
    BY <2>1, AskFacts DEF RInv, Heard, Revoked, Pending
<1>11. CASE Restart
  <2>1. \A i \in Starts : start'[i].pc = "called"
    BY <1>11 DEF Restart, Idle
  <2>2. Pending' /\ sync'.pc = "none"
    BY <1>11, <2>1, GateConstants DEF Restart, NoSync, Pending
  <2> QED
    BY <2>2 DEF RInv, Heard, Revoked
<1>12. CASE UNCHANGED vars
  BY <1>12 DEF vars, RInv, Heard, Revoked, NoFault, Shut, Pending
<1> QED
  BY <1>1, <1>2, <1>3, <1>4, <1>5, <1>6, <1>7, <1>8, <1>9, <1>10, <1>11, <1>12
     DEF Next, SyncNext, StartNext

\* A revocation the worker has heard is in force when no pass is under way: an older
\* record that a start writes back is open for the length of its check only.
THEOREM RevocationIsKept == Spec => []RevocationHolds
<1>1. RInv => RevocationHolds
  BY DEF RInv, Revoked, Pending, Shut, RevocationHolds, Quiet, NoSync, Idle
<1> QED
  BY <1>1, InitRevoked, RevokedSteps, InvariantHolds, PTL DEF Spec
===============================================================================
