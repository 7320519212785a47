------------------------ MODULE Notifications_proofs ------------------------
(***************************************************************************)
(* Theorems about NotificationDelivery and about BounceQueue, which works  *)
(* off the bounces it captures: for every number of rows and page size,    *)
(* every number of jobs, addresses, tabs and page flows, every attempt     *)
(* limit, and every number of crashes, faults, timeouts and clicks.        *)
(*                                                                         *)
(* Delivery.  The acknowledgement invariant is not inductive by itself: it *)
(* needs to know that the batch in flight starts at the stored cursor      *)
(* (Frame), that what applyAll has passed is settled (Progress), and that  *)
(* a count of failures, stored or in flight, never exceeds the failures    *)
(* that really happened (Counts), so that giving up means                  *)
(* MAX_APPLY_ATTEMPTS of them.                                             *)
(*                                                                         *)
(* Bounces.  capture() and drain() each hold a copy of the queue and of    *)
(* the ledger which they write back later, so what is claimed of the       *)
(* stored ones must hold of every copy (CopiesReal, CopiesDistinct), and a *)
(* refusal already answered must be ahead of the count that is about to be *)
(* raised for it (RefusedNow).  Tasks are counted together with the flows  *)
(* that are about to create one (TaskInv): no more than the strays and the *)
(* one drain() waits for can have found that there is none.                *)
(***************************************************************************)
EXTENDS NotificationDelivery, BounceQueue, FiniteSetTheorems, TLAPS

Fetched == {"apply", "merge", "capture", "receipt", "save", "toast"}
AppliedPhase == {"merge", "capture", "receipt", "save"}

Frame ==
    /\ cursor <= published
    /\ pc \in {"fetch"} \cup (Fetched \ {"toast"}) => after = cursor
    /\ pc \in Fetched => after <= upto /\ upto <= published
    /\ pc = "apply" => after < row /\ row <= upto + 1

Progress ==
    /\ pc = "apply" => \A r \in (after + 1)..(row - 1) : EventSettled(r)
    /\ pc \in AppliedPhase => \A r \in Batch : EventSettled(r)

Counts == \A r \in Rows : failures[r] <= tries[r] /\ fail[r] <= tries[r]

IInv == TypeOK /\ Frame /\ Progress /\ Counts /\ SettledBeforeAcknowledged

Kept == {"capture", "receipt", "save"}

StoreProgress == pc \in Kept => \A r \in Batch : Stored(r)

StoreInv == IInv /\ StoreProgress /\ NoVisibleRowLost

ToastInv ==
    /\ added \subseteq cache \cup unsaved
    /\ \A r \in Rows :
         r \notin unsaved =>
           /\ toasts[r] <= 1
           /\ (r \notin cache \/ r \in added) => toasts[r] = 0

-----------------------------------------------------------------------------
USE DEF backend, storage, worker, history, budgets

LEMMA NoFailuresType == NoFailures \in [Rows -> Nat]
BY DEF NoFailures

LEMMA ConstantFacts ==
    /\ MaxRow \in Nat /\ PageLimit \in Nat /\ MaxMishaps \in Nat
    /\ EventRows \subseteq Rows /\ VisibleRows \subseteq Rows
    /\ BounceRows \subseteq VisibleRows
BY DeliveryAssumption

(* A batch lies within the published rows it was cut from.                 *)
LEMMA BatchRows == StorageOK /\ WorkerOK => Batch \subseteq Rows
BY ConstantFacts DEF StorageOK, WorkerOK, Batch, Rows

(* Every variable keeps its type: counters stay numbers, every set a set   *)
(* of rows of its kind, the cursor and the batch within the outbox.        *)
THEOREM TypeCorrect == Spec => []TypeOK
<1> USE ConstantFacts, NoFailuresType
<1>1. Init => TypeOK
  <2> USE DEF Init
  <2>1. Init => StorageOK
    BY DEF StorageOK
  <2>2. Init => WorkerOK
    BY DEF WorkerOK
  <2>3. Init => HistoryOK
    BY DEF HistoryOK
  <2>4. Init => OutsideOK
    BY DEF OutsideOK
  <2>5. Init => FlagsOK
    BY DEF FlagsOK
  <2> QED
    BY <2>1, <2>2, <2>3, <2>4, <2>5 DEF TypeOK
<1>2. TypeOK /\ [Next]_vars => TypeOK'
  <2> SUFFICES ASSUME TypeOK, [Next]_vars PROVE TypeOK'
    OBVIOUS
  <2> USE DEF TypeOK
  <2>1. CASE Publish
    <3> USE <2>1 DEF Publish
    <3>1. StorageOK'
      BY DEF StorageOK, WorkerOK
    <3>2. WorkerOK'
      BY DEF StorageOK, WorkerOK, OutsideOK
    <3>3. HistoryOK'
      BY DEF HistoryOK, WorkerOK
    <3>4. OutsideOK'
      BY DEF OutsideOK
    <3>5. FlagsOK'
      BY DEF FlagsOK
    <3> QED
      BY <3>1, <3>2, <3>3, <3>4, <3>5
  <2>2. CASE ToggleNotifications
    <3> USE <2>2 DEF ToggleNotifications
    <3>1. StorageOK'
      BY DEF StorageOK, WorkerOK
    <3>2. WorkerOK'
      BY DEF StorageOK, WorkerOK, OutsideOK
    <3>3. HistoryOK'
      BY DEF HistoryOK, WorkerOK
    <3>4. OutsideOK'
      BY DEF OutsideOK
    <3>5. FlagsOK'
      BY DEF FlagsOK
    <3> QED
      BY <3>1, <3>2, <3>3, <3>4, <3>5
  <2>3. CASE Crash
    <3> USE <2>3 DEF Crash, Forget, MishapLeft
    <3>1. StorageOK'
      BY DEF StorageOK, WorkerOK
    <3>2. WorkerOK'
      BY DEF StorageOK, WorkerOK, OutsideOK
    <3>3. HistoryOK'
      BY DEF HistoryOK, WorkerOK
    <3>4. OutsideOK'
      BY DEF OutsideOK
    <3>5. FlagsOK'
      BY DEF FlagsOK
    <3> QED
      BY <3>1, <3>2, <3>3, <3>4, <3>5
  <2>4. CASE EnsureLoop
    <3> USE <2>4 DEF EnsureLoop
    <3>1. StorageOK'
      BY DEF StorageOK, WorkerOK
    <3>2. WorkerOK'
      BY DEF StorageOK, WorkerOK, OutsideOK
    <3>3. HistoryOK'
      BY DEF HistoryOK, WorkerOK
    <3>4. OutsideOK'
      BY DEF OutsideOK
    <3>5. FlagsOK'
      BY DEF FlagsOK
    <3> QED
      BY <3>1, <3>2, <3>3, <3>4, <3>5
  <2>5. CASE StartPoll
    <3> USE <2>5 DEF StartPoll
    <3>1. StorageOK'
      BY DEF StorageOK, WorkerOK
    <3>2. WorkerOK'
      BY DEF StorageOK, WorkerOK, OutsideOK
    <3>3. HistoryOK'
      BY DEF HistoryOK, WorkerOK
    <3>4. OutsideOK'
      BY DEF OutsideOK
    <3>5. FlagsOK'
      BY DEF FlagsOK
    <3> QED
      BY <3>1, <3>2, <3>3, <3>4, <3>5
  <2>6. CASE FetchFails
    <3> USE <2>6 DEF FetchFails, AbandonPoll, Forget
    <3>1. StorageOK'
      BY DEF StorageOK, WorkerOK
    <3>2. WorkerOK'
      BY DEF StorageOK, WorkerOK, OutsideOK
    <3>3. HistoryOK'
      BY DEF HistoryOK, WorkerOK
    <3>4. OutsideOK'
      BY DEF OutsideOK
    <3>5. FlagsOK'
      BY DEF FlagsOK
    <3> QED
      BY <3>1, <3>2, <3>3, <3>4, <3>5
  <2>7. CASE FetchReturns
    <3> USE <2>7 DEF FetchReturns
    <3>1. StorageOK'
      BY DEF StorageOK, WorkerOK
    <3>2. WorkerOK'
      BY DEF StorageOK, WorkerOK, OutsideOK
    <3>3. HistoryOK'
      BY DEF HistoryOK, WorkerOK
    <3>4. OutsideOK'
      BY DEF OutsideOK
    <3>5. FlagsOK'
      BY DEF FlagsOK
    <3> QED
      BY <3>1, <3>2, <3>3, <3>4, <3>5
  <2>8. CASE ApplyPlain
    <3> USE <2>8 DEF ApplyPlain
    <3>1. StorageOK'
      BY DEF StorageOK, WorkerOK
    <3>2. WorkerOK'
      BY DEF StorageOK, WorkerOK, OutsideOK
    <3>3. HistoryOK'
      BY DEF HistoryOK, WorkerOK
    <3>4. OutsideOK'
      BY DEF OutsideOK
    <3>5. FlagsOK'
      BY DEF FlagsOK
    <3> QED
      BY <3>1, <3>2, <3>3, <3>4, <3>5
  <2>9. CASE ApplySucceeds
    <3> USE <2>9 DEF ApplySucceeds
    <3>1. StorageOK'
      BY DEF StorageOK, WorkerOK
    <3>2. WorkerOK'
      BY DEF StorageOK, WorkerOK, OutsideOK
    <3>3. HistoryOK'
      BY DEF HistoryOK, WorkerOK
    <3>4. OutsideOK'
      BY DEF OutsideOK
    <3>5. FlagsOK'
      BY DEF FlagsOK
    <3> QED
      BY <3>1, <3>2, <3>3, <3>4, <3>5
  <2>10. CASE ApplyFails
    <3> USE <2>10 DEF ApplyFails, AbandonPoll, Forget, MishapLeft
    <3>1. StorageOK'
      BY DEF StorageOK, WorkerOK
    <3>2. WorkerOK'
      BY DEF StorageOK, WorkerOK, OutsideOK
    <3>3. HistoryOK'
      BY DEF HistoryOK, WorkerOK
    <3>4. OutsideOK'
      BY DEF OutsideOK
    <3>5. FlagsOK'
      BY DEF FlagsOK
    <3> QED
      BY <3>1, <3>2, <3>3, <3>4, <3>5
  <2>11. CASE GiveUp
    <3> USE <2>11 DEF GiveUp
    <3>1. StorageOK'
      BY DEF StorageOK, WorkerOK
    <3>2. WorkerOK'
      BY DEF StorageOK, WorkerOK, OutsideOK
    <3>3. HistoryOK'
      BY DEF HistoryOK, WorkerOK
    <3>4. OutsideOK'
      BY DEF OutsideOK
    <3>5. FlagsOK'
      BY DEF FlagsOK
    <3> QED
      BY <3>1, <3>2, <3>3, <3>4, <3>5
  <2>12. CASE FinishApply
    <3> USE <2>12 DEF FinishApply, AbandonPoll, Forget, MishapLeft
    <3>1. StorageOK'
      BY DEF StorageOK, WorkerOK
    <3>2. WorkerOK'
      BY DEF StorageOK, WorkerOK, OutsideOK
    <3>3. HistoryOK'
      BY DEF HistoryOK, WorkerOK
    <3>4. OutsideOK'
      BY DEF OutsideOK
    <3>5. FlagsOK'
      BY DEF FlagsOK
    <3> QED
      BY <3>1, <3>2, <3>3, <3>4, <3>5
  <2>13. CASE Merge
    <3> USE <2>13 DEF Merge, MishapLeft
    <3>1. StorageOK'
      BY DEF StorageOK, WorkerOK
    <3>2. WorkerOK'
      BY DEF StorageOK, WorkerOK, OutsideOK
    <3>3. HistoryOK'
      BY DEF HistoryOK, WorkerOK
    <3>4. OutsideOK'
      BY DEF OutsideOK
    <3>5. FlagsOK'
      BY DEF FlagsOK
    <3> QED
      BY <3>1, <3>2, <3>3, <3>4, <3>5
  <2>14. CASE Capture
    <3> USE <2>14 DEF Capture, MishapLeft
    <3>1. StorageOK'
      BY DEF StorageOK, WorkerOK
    <3>2. WorkerOK'
      BY DEF StorageOK, WorkerOK, OutsideOK
    <3>3. HistoryOK'
      BY DEF HistoryOK, WorkerOK
    <3>4. OutsideOK'
      BY DEF OutsideOK
    <3>5. FlagsOK'
      BY DEF FlagsOK
    <3> QED
      BY <3>1, <3>2, <3>3, <3>4, <3>5
  <2>15. CASE SendReceipt
    <3> USE <2>15 DEF SendReceipt, Batch
    <3>1. StorageOK'
      BY DEF StorageOK, WorkerOK
    <3>2. WorkerOK'
      BY DEF StorageOK, WorkerOK, OutsideOK
    <3>3. HistoryOK'
      BY DEF HistoryOK, WorkerOK
    <3>4. OutsideOK'
      BY BatchRows DEF OutsideOK
    <3>5. FlagsOK'
      BY DEF FlagsOK
    <3> QED
      BY <3>1, <3>2, <3>3, <3>4, <3>5
  <2>16. CASE SaveCursor
    <3> USE <2>16 DEF SaveCursor, MishapLeft
    <3>1. StorageOK'
      BY DEF StorageOK, WorkerOK
    <3>2. WorkerOK'
      BY DEF StorageOK, WorkerOK, OutsideOK
    <3>3. HistoryOK'
      BY DEF HistoryOK, WorkerOK
    <3>4. OutsideOK'
      BY DEF OutsideOK
    <3>5. FlagsOK'
      BY DEF FlagsOK
    <3> QED
      BY <3>1, <3>2, <3>3, <3>4, <3>5
  <2>17. CASE Toast
    <3> USE <2>17 DEF Toast, Forget
    <3>1. StorageOK'
      BY DEF StorageOK, WorkerOK
    <3>2. WorkerOK'
      BY DEF StorageOK, WorkerOK, OutsideOK
    <3>3. HistoryOK'
      BY DEF HistoryOK, WorkerOK
    <3>4. OutsideOK'
      BY DEF OutsideOK
    <3>5. FlagsOK'
      BY DEF FlagsOK
    <3> QED
      BY <3>1, <3>2, <3>3, <3>4, <3>5
  <2>18. CASE UNCHANGED vars
    BY <2>18 DEF vars, StorageOK, WorkerOK, HistoryOK, OutsideOK, FlagsOK
  <2> QED
    BY <2>1, <2>2, <2>3, <2>4, <2>5, <2>6, <2>7, <2>8, <2>9, <2>10, <2>11, <2>12, <2>13,
       <2>14, <2>15, <2>16, <2>17, <2>18 DEF Next
<1> QED
  BY <1>1, <1>2, PTL DEF Spec
-----------------------------------------------------------------------------
(* Acknowledgement.                                                        *)

(* What is settled stays settled: refreshes are never undone and a count   *)
(* of real failures never shrinks.                                         *)
LEMMA SettledStays ==
    TypeOK /\ [Next]_vars => \A r \in Rows : EventSettled(r) => EventSettled(r)'
<1> SUFFICES ASSUME TypeOK, [Next]_vars, NEW r \in Rows, EventSettled(r)
             PROVE  EventSettled(r)'
  OBVIOUS
<1>1. /\ applied \subseteq applied' /\ gaveUp \subseteq gaveUp'
      /\ tries[r] \in Nat /\ tries'[r] \in Nat /\ tries[r] <= tries'[r]
  <2> USE DEF TypeOK, HistoryOK
  <2>1. CASE ApplySucceeds
    BY <2>1 DEF ApplySucceeds
  <2>2. CASE ApplyFails
    BY <2>2 DEF ApplyFails
  <2>3. CASE GiveUp
    BY <2>3 DEF GiveUp
  <2>4. CASE UNCHANGED <<applied, gaveUp, tries>>
    BY <2>4
  <2>5. [Next]_vars /\ ~ApplySucceeds /\ ~ApplyFails /\ ~GiveUp
          => UNCHANGED <<applied, gaveUp, tries>>
    BY DEF Next, vars, Publish, ToggleNotifications, Crash, EnsureLoop,
           StartPoll, FetchFails, FetchReturns, ApplyPlain, FinishApply,
           Merge, Capture, SendReceipt, SaveCursor, Toast
  <2> QED
    BY <2>1, <2>2, <2>3, <2>4, <2>5
<1> QED
  BY <1>1, DeliveryAssumption DEF EventSettled

LEMMA InitEstablishes == Init => Frame /\ Progress /\ Counts /\ SettledBeforeAcknowledged
<1> SUFFICES ASSUME Init PROVE Frame /\ Progress /\ Counts /\ SettledBeforeAcknowledged
  OBVIOUS
<1> USE DEF Init
<1>1. Frame /\ Progress
  BY DEF Frame, Progress, Fetched, AppliedPhase
<1>2. Counts
  BY DEF Counts, NoFailures
<1>3. SettledBeforeAcknowledged
  BY DEF SettledBeforeAcknowledged
<1> QED
  BY <1>1, <1>2, <1>3

LEMMA StepPreserves ==
    IInv /\ TypeOK' /\ [Next]_vars => Frame' /\ Progress' /\ Counts' /\ SettledBeforeAcknowledged'
<1> SUFFICES ASSUME IInv, TypeOK', [Next]_vars
             PROVE  Frame' /\ Progress' /\ Counts' /\ SettledBeforeAcknowledged'
  OBVIOUS
<1> USE ConstantFacts DEF IInv, TypeOK
<1>0. \A r \in Rows : EventSettled(r) => EventSettled(r)'
  BY SettledStays
<1>1. CASE Publish
  <2> USE <1>1 DEF Publish
  <2>1. Frame'
    BY DEF Frame, Fetched, StorageOK, WorkerOK, OutsideOK
  <2>2. Progress'
    BY <1>0 DEF Progress, Frame, Batch, AppliedPhase, Fetched, StorageOK,
         WorkerOK, OutsideOK, Rows
  <2>3. Counts'
    BY DEF Counts, StorageOK, WorkerOK, HistoryOK
  <2>4. SettledBeforeAcknowledged'
    BY <1>0 DEF SettledBeforeAcknowledged, Frame, StorageOK, OutsideOK, Rows
  <2> QED
    BY <2>1, <2>2, <2>3, <2>4
<1>2. CASE ToggleNotifications
  <2> USE <1>2 DEF ToggleNotifications
  <2>1. Frame'
    BY DEF Frame, Fetched, StorageOK, WorkerOK, OutsideOK
  <2>2. Progress'
    BY <1>0 DEF Progress, Frame, Batch, AppliedPhase, Fetched, StorageOK,
         WorkerOK, OutsideOK, Rows
  <2>3. Counts'
    BY DEF Counts, StorageOK, WorkerOK, HistoryOK
  <2>4. SettledBeforeAcknowledged'
    BY <1>0 DEF SettledBeforeAcknowledged, Frame, StorageOK, OutsideOK, Rows
  <2> QED
    BY <2>1, <2>2, <2>3, <2>4
<1>3. CASE Crash
  <2> USE <1>3 DEF Crash, Forget
  <2>1. Frame'
    BY DEF Frame, Fetched, StorageOK, WorkerOK, OutsideOK
  <2>2. Progress'
    BY <1>0 DEF Progress, Frame, Batch, AppliedPhase, Fetched, StorageOK,
         WorkerOK, OutsideOK, Rows
  <2>3. Counts'
    BY NoFailuresType DEF Counts, NoFailures, StorageOK, WorkerOK, HistoryOK
  <2>4. SettledBeforeAcknowledged'
    BY <1>0 DEF SettledBeforeAcknowledged, Frame, StorageOK, OutsideOK, Rows
  <2> QED
    BY <2>1, <2>2, <2>3, <2>4
<1>4. CASE EnsureLoop
  <2> USE <1>4 DEF EnsureLoop
  <2>1. Frame'
    BY DEF Frame, Fetched, StorageOK, WorkerOK, OutsideOK
  <2>2. Progress'
    BY <1>0 DEF Progress, Frame, Batch, AppliedPhase, Fetched, StorageOK,
         WorkerOK, OutsideOK, Rows
  <2>3. Counts'
    BY DEF Counts, StorageOK, WorkerOK, HistoryOK
  <2>4. SettledBeforeAcknowledged'
    BY <1>0 DEF SettledBeforeAcknowledged, Frame, StorageOK, OutsideOK, Rows
  <2> QED
    BY <2>1, <2>2, <2>3, <2>4
<1>5. CASE StartPoll
  <2> USE <1>5 DEF StartPoll
  <2>1. Frame'
    BY DEF Frame, Fetched, StorageOK, WorkerOK, OutsideOK
  <2>2. Progress'
    BY <1>0 DEF Progress, Frame, Batch, AppliedPhase, Fetched, StorageOK,
         WorkerOK, OutsideOK, Rows
  <2>3. Counts'
    BY DEF Counts, StorageOK, WorkerOK, HistoryOK
  <2>4. SettledBeforeAcknowledged'
    BY <1>0 DEF SettledBeforeAcknowledged, Frame, StorageOK, OutsideOK, Rows
  <2> QED
    BY <2>1, <2>2, <2>3, <2>4
<1>6. CASE FetchFails
  <2> USE <1>6 DEF FetchFails, AbandonPoll, Forget
  <2>1. Frame'
    BY DEF Frame, Fetched, StorageOK, WorkerOK, OutsideOK
  <2>2. Progress'
    BY <1>0 DEF Progress, Frame, Batch, AppliedPhase, Fetched, StorageOK,
         WorkerOK, OutsideOK, Rows
  <2>3. Counts'
    BY NoFailuresType DEF Counts, NoFailures, StorageOK, WorkerOK, HistoryOK
  <2>4. SettledBeforeAcknowledged'
    BY <1>0 DEF SettledBeforeAcknowledged, Frame, StorageOK, OutsideOK, Rows
  <2> QED
    BY <2>1, <2>2, <2>3, <2>4
<1>7. CASE FetchReturns
  <2> USE <1>7 DEF FetchReturns
  <2>1. Frame'
    BY DEF Frame, Fetched, StorageOK, WorkerOK, OutsideOK
  <2>2. Progress'
    BY <1>0 DEF Progress, Frame, Batch, AppliedPhase, Fetched, StorageOK,
         WorkerOK, OutsideOK, Rows
  <2>3. Counts'
    BY DEF Counts, StorageOK, WorkerOK, HistoryOK
  <2>4. SettledBeforeAcknowledged'
    BY <1>0 DEF SettledBeforeAcknowledged, Frame, StorageOK, OutsideOK, Rows
  <2> QED
    BY <2>1, <2>2, <2>3, <2>4
<1>8. CASE ApplyPlain
  <2> USE <1>8 DEF ApplyPlain
  <2>1. Frame'
    BY DEF Frame, Fetched, StorageOK, WorkerOK, OutsideOK
  <2>2. Progress'
    <3>1. \A r \in (after + 1)..(row - 1) : EventSettled(r)'
      BY <1>0 DEF Progress, Frame, Fetched, StorageOK, WorkerOK, OutsideOK, Rows
    <3>2. \A r \in Rows : r = row => EventSettled(r)'
      BY DEF EventSettled
    <3>3. row \in Nat /\ after \in Nat
      BY DEF WorkerOK
    <3>4. pc = "apply" /\ row <= upto /\ row' = row + 1 /\ UNCHANGED <<pc, after, upto>>
      OBVIOUS
    <3> HIDE DEF ApplyPlain
    <3>5. ASSUME NEW r \in (after' + 1)..(row' - 1) PROVE EventSettled(r)'
      <4>1. r \in (after + 1)..(row - 1) \/ (r = row /\ r \in Rows)
        BY <3>3, <3>4 DEF Rows, WorkerOK
      <4> QED
        BY <4>1, <3>1, <3>2
    <3> QED
      BY <3>4, <3>5 DEF Progress, AppliedPhase
  <2>3. Counts'
    BY DEF Counts, StorageOK, WorkerOK, HistoryOK
  <2>4. SettledBeforeAcknowledged'
    BY <1>0 DEF SettledBeforeAcknowledged, Frame, StorageOK, OutsideOK, Rows
  <2> QED
    BY <2>1, <2>2, <2>3, <2>4
<1>9. CASE ApplySucceeds
  <2> USE <1>9 DEF ApplySucceeds
  <2>1. Frame'
    BY DEF Frame, Fetched, StorageOK, WorkerOK, OutsideOK
  <2>2. Progress'
    <3>1. \A r \in (after + 1)..(row - 1) : EventSettled(r)'
      BY <1>0 DEF Progress, Frame, Fetched, StorageOK, WorkerOK, OutsideOK, Rows
    <3>2. \A r \in Rows : r = row => EventSettled(r)'
      BY DEF EventSettled
    <3>3. row \in Nat /\ after \in Nat
      BY DEF WorkerOK
    <3>4. pc = "apply" /\ row <= upto /\ row' = row + 1 /\ UNCHANGED <<pc, after, upto>>
      OBVIOUS
    <3> HIDE DEF ApplySucceeds
    <3>5. ASSUME NEW r \in (after' + 1)..(row' - 1) PROVE EventSettled(r)'
      <4>1. r \in (after + 1)..(row - 1) \/ (r = row /\ r \in Rows)
        BY <3>3, <3>4 DEF Rows, WorkerOK
      <4> QED
        BY <4>1, <3>1, <3>2
    <3> QED
      BY <3>4, <3>5 DEF Progress, AppliedPhase
  <2>3. Counts'
    BY DEF Counts, StorageOK, WorkerOK, HistoryOK
  <2>4. SettledBeforeAcknowledged'
    BY <1>0 DEF SettledBeforeAcknowledged, Frame, StorageOK, OutsideOK, Rows
  <2> QED
    BY <2>1, <2>2, <2>3, <2>4
<1>10. CASE ApplyFails
  <2> USE <1>10 DEF ApplyFails, AbandonPoll, Forget
  <2>1. Frame'
    BY DEF Frame, Fetched, StorageOK, WorkerOK, OutsideOK
  <2>2. Progress'
    BY <1>0 DEF Progress, Frame, Batch, AppliedPhase, Fetched, StorageOK,
         WorkerOK, OutsideOK, Rows
  <2>3. Counts'
    BY NoFailuresType DEF Counts, NoFailures, StorageOK, WorkerOK, HistoryOK
  <2>4. SettledBeforeAcknowledged'
    BY <1>0 DEF SettledBeforeAcknowledged, Frame, StorageOK, OutsideOK, Rows
  <2> QED
    BY <2>1, <2>2, <2>3, <2>4
<1>11. CASE GiveUp
  <2> USE <1>11 DEF GiveUp
  <2>1. Frame'
    BY DEF Frame, Fetched, StorageOK, WorkerOK, OutsideOK
  <2>2. Progress'
    <3>1. \A r \in (after + 1)..(row - 1) : EventSettled(r)'
      BY <1>0 DEF Progress, Frame, Fetched, StorageOK, WorkerOK, OutsideOK, Rows
    <3>2. \A r \in Rows : r = row => EventSettled(r)'
      BY DeliveryAssumption DEF EventSettled, Exhausted, Counts, StorageOK, WorkerOK, HistoryOK
    <3>3. row \in Nat /\ after \in Nat
      BY DEF WorkerOK
    <3>4. pc = "apply" /\ row <= upto /\ row' = row + 1 /\ UNCHANGED <<pc, after, upto>>
      OBVIOUS
    <3> HIDE DEF GiveUp
    <3>5. ASSUME NEW r \in (after' + 1)..(row' - 1) PROVE EventSettled(r)'
      <4>1. r \in (after + 1)..(row - 1) \/ (r = row /\ r \in Rows)
        BY <3>3, <3>4 DEF Rows, WorkerOK
      <4> QED
        BY <4>1, <3>1, <3>2
    <3> QED
      BY <3>4, <3>5 DEF Progress, AppliedPhase
  <2>3. Counts'
    BY DEF Counts, StorageOK, WorkerOK, HistoryOK
  <2>4. SettledBeforeAcknowledged'
    BY <1>0 DEF SettledBeforeAcknowledged, Frame, StorageOK, OutsideOK, Rows
  <2> QED
    BY <2>1, <2>2, <2>3, <2>4
<1>12. CASE FinishApply
  <2> USE <1>12 DEF FinishApply, AbandonPoll, Forget
  <2>1. Frame'
    BY DEF Frame, Fetched, StorageOK, WorkerOK, OutsideOK
  <2>2. Progress'
    <3>1. \A r \in (after + 1)..(row - 1) : EventSettled(r)'
      BY <1>0 DEF Progress, Frame, Fetched, StorageOK, WorkerOK, OutsideOK, Rows
    <3>2. upto = row - 1 /\ after \in Nat /\ row \in Nat
      BY DEF Frame, Fetched, WorkerOK
    <3> QED
      BY <3>1, <3>2 DEF Progress, AppliedPhase, Batch
  <2>3. Counts'
    BY NoFailuresType DEF Counts, NoFailures, StorageOK, WorkerOK, HistoryOK
  <2>4. SettledBeforeAcknowledged'
    BY <1>0 DEF SettledBeforeAcknowledged, Frame, StorageOK, OutsideOK, Rows
  <2> QED
    BY <2>1, <2>2, <2>3, <2>4
<1>13. CASE Merge
  <2> USE <1>13 DEF Merge
  <2>1. Frame'
    BY DEF Frame, Fetched, StorageOK, WorkerOK, OutsideOK
  <2>2. Progress'
    BY <1>0 DEF Progress, Frame, Batch, AppliedPhase, Fetched, StorageOK,
         WorkerOK, OutsideOK, Rows
  <2>3. Counts'
    BY DEF Counts, StorageOK, WorkerOK, HistoryOK
  <2>4. SettledBeforeAcknowledged'
    BY <1>0 DEF SettledBeforeAcknowledged, Frame, StorageOK, OutsideOK, Rows
  <2> QED
    BY <2>1, <2>2, <2>3, <2>4
<1>14. CASE Capture
  <2> USE <1>14 DEF Capture
  <2>1. Frame'
    BY DEF Frame, Fetched, StorageOK, WorkerOK, OutsideOK
  <2>2. Progress'
    BY <1>0 DEF Progress, Frame, Batch, AppliedPhase, Fetched, StorageOK,
         WorkerOK, OutsideOK, Rows
  <2>3. Counts'
    BY DEF Counts, StorageOK, WorkerOK, HistoryOK
  <2>4. SettledBeforeAcknowledged'
    BY <1>0 DEF SettledBeforeAcknowledged, Frame, StorageOK, OutsideOK, Rows
  <2> QED
    BY <2>1, <2>2, <2>3, <2>4
<1>15. CASE SendReceipt
  <2> USE <1>15 DEF SendReceipt
  <2>1. Frame'
    BY DEF Frame, Fetched, StorageOK, WorkerOK, OutsideOK
  <2>2. Progress'
    BY <1>0 DEF Progress, Frame, Batch, AppliedPhase, Fetched, StorageOK,
         WorkerOK, OutsideOK, Rows
  <2>3. Counts'
    BY DEF Counts, StorageOK, WorkerOK, HistoryOK
  <2>4. SettledBeforeAcknowledged'
    <3>1. \A r \in Batch : EventSettled(r)'
      BY <1>0, BatchRows DEF Progress, AppliedPhase
    <3>2. \A r \in delivered \cup 1..cursor : EventSettled(r)'
      BY <1>0 DEF SettledBeforeAcknowledged, StorageOK, OutsideOK, Rows
    <3> QED
      <4> SUFFICES ASSUME NEW r \in delivered' \cup 1..cursor'
                   PROVE  EventSettled(r)'
        BY DEF SettledBeforeAcknowledged
      <4>1. r \in Batch \/ r \in delivered \cup 1..cursor
        BY DEF Frame, Fetched, Batch, StorageOK, WorkerOK
      <4> QED
        BY <4>1, <3>1, <3>2
  <2> QED
    BY <2>1, <2>2, <2>3, <2>4
<1>16. CASE SaveCursor
  <2> USE <1>16 DEF SaveCursor
  <2>1. Frame'
    BY DEF Frame, Fetched, StorageOK, WorkerOK, OutsideOK
  <2>2. Progress'
    BY <1>0 DEF Progress, Frame, Batch, AppliedPhase, Fetched, StorageOK,
         WorkerOK, OutsideOK, Rows
  <2>3. Counts'
    BY DEF Counts, StorageOK, WorkerOK, HistoryOK
  <2>4. SettledBeforeAcknowledged'
    <3>1. \A r \in Batch : EventSettled(r)'
      BY <1>0, BatchRows DEF Progress, AppliedPhase
    <3>2. \A r \in delivered \cup 1..cursor : EventSettled(r)'
      BY <1>0 DEF SettledBeforeAcknowledged, StorageOK, OutsideOK, Rows
    <3> QED
      <4> SUFFICES ASSUME NEW r \in delivered' \cup 1..cursor'
                   PROVE  EventSettled(r)'
        BY DEF SettledBeforeAcknowledged
      <4>1. r \in Batch \/ r \in delivered \cup 1..cursor
        BY DEF Frame, Fetched, Batch, StorageOK, WorkerOK
      <4> QED
        BY <4>1, <3>1, <3>2
  <2> QED
    BY <2>1, <2>2, <2>3, <2>4
<1>17. CASE Toast
  <2> USE <1>17 DEF Toast, Forget
  <2>1. Frame'
    BY DEF Frame, Fetched, StorageOK, WorkerOK, OutsideOK
  <2>2. Progress'
    BY <1>0 DEF Progress, Frame, Batch, AppliedPhase, Fetched, StorageOK,
         WorkerOK, OutsideOK, Rows
  <2>3. Counts'
    BY NoFailuresType DEF Counts, NoFailures, StorageOK, WorkerOK, HistoryOK
  <2>4. SettledBeforeAcknowledged'
    BY <1>0 DEF SettledBeforeAcknowledged, Frame, StorageOK, OutsideOK, Rows
  <2> QED
    BY <2>1, <2>2, <2>3, <2>4
<1>18. CASE UNCHANGED vars
  BY <1>18 DEF vars, Frame, Progress, Counts, SettledBeforeAcknowledged,
     EventSettled, Batch
<1> QED
  BY <1>1, <1>2, <1>3, <1>4, <1>5, <1>6, <1>7, <1>8, <1>9, <1>10, <1>11, <1>12, <1>13,
     <1>14, <1>15, <1>16, <1>17, <1>18 DEF Next

THEOREM Acknowledgement == Spec => []SettledBeforeAcknowledged
<1>1. Init /\ TypeOK => IInv
  BY InitEstablishes DEF IInv
<1>2. IInv /\ TypeOK' /\ [Next]_vars => IInv'
  BY StepPreserves DEF IInv
<1>3. IInv => SettledBeforeAcknowledged
  BY DEF IInv
<1> QED
  BY <1>1, <1>2, <1>3, TypeCorrect, PTL DEF Spec

-----------------------------------------------------------------------------
(* The notification center and the toasts.                                 *)

LEMMA StoredStays ==
    TypeOK /\ [Next]_vars => \A r \in Rows : Stored(r) => Stored(r)'
<1> SUFFICES ASSUME [Next]_vars
             PROVE  /\ cache \subseteq cache' /\ suppressed \subseteq suppressed'
                    /\ unsaved \subseteq unsaved'
  BY DEF Stored
<1>1. CASE Merge
  BY <1>1 DEF Merge
<1>2. CASE UNCHANGED <<cache, suppressed, unsaved>>
  BY <1>2
<1>3. [Next]_vars /\ ~Merge => UNCHANGED <<cache, suppressed, unsaved>>
  BY DEF Next, vars, Publish, ToggleNotifications, Crash, EnsureLoop,
         StartPoll, FetchFails, FetchReturns, ApplyPlain, ApplySucceeds,
         ApplyFails, GiveUp, FinishApply, Capture, SendReceipt, SaveCursor,
         Toast
<1> QED
  BY <1>1, <1>2, <1>3

(* Only Merge enters the phases in which the batch is already stored, and  *)
(* only SaveCursor extends the acknowledged rows, by that batch.           *)
LEMMA StorePreserved ==
    StoreInv /\ TypeOK' /\ [Next]_vars => StoreProgress' /\ NoVisibleRowLost'
<1> SUFFICES ASSUME StoreInv, TypeOK', [Next]_vars
             PROVE  StoreProgress' /\ NoVisibleRowLost'
  OBVIOUS
<1> USE ConstantFacts DEF StoreInv, IInv, TypeOK
<1>0. \A r \in Rows : Stored(r) => Stored(r)'
  BY StoredStays
<1>1. Batch \subseteq Rows /\ 1..cursor \subseteq Rows
  BY BatchRows DEF StorageOK, Rows
<1>2. CASE Merge
  <2> USE <1>2 DEF Merge
  <2>1. \A r \in Batch : Stored(r)'
    BY <1>1 DEF Stored
  <2>2. UNCHANGED <<after, upto, cursor>>
    OBVIOUS
  <2>3. StoreProgress'
    BY <2>1, <2>2 DEF StoreProgress, Batch
  <2>4. NoVisibleRowLost'
    BY <1>0, <1>1, <2>2 DEF NoVisibleRowLost
  <2> QED
    BY <2>3, <2>4
<1>3. CASE SaveCursor
  <2> USE <1>3 DEF SaveCursor
  <2>1. StoreProgress'
    BY DEF StoreProgress, Kept
  <2>2. \A r \in Batch \cup 1..cursor : Stored(r)'
    BY <1>0, <1>1 DEF StoreProgress, Kept, NoVisibleRowLost
  <2>3. 1..cursor' \subseteq Batch \cup 1..cursor
    BY DEF Frame, Fetched, Batch, StorageOK, WorkerOK
  <2> QED
    BY <2>1, <2>2, <2>3 DEF NoVisibleRowLost
<1>4. CASE ~Merge /\ ~SaveCursor
  <2>1. UNCHANGED cursor
    BY <1>4 DEF Next, vars, Publish, ToggleNotifications, Crash, EnsureLoop,
       StartPoll, FetchFails, FetchReturns, ApplyPlain, ApplySucceeds,
       ApplyFails, GiveUp, FinishApply, Capture, SendReceipt, Toast
  <2>2. pc' \in Kept => pc \in Kept /\ UNCHANGED <<after, upto>>
    BY <1>4 DEF Next, vars, Publish, ToggleNotifications, Crash, EnsureLoop,
       StartPoll, FetchFails, FetchReturns, ApplyPlain, ApplySucceeds,
       ApplyFails, GiveUp, FinishApply, Capture, SendReceipt, Toast,
       AbandonPoll, Forget, Kept
  <2>3. StoreProgress'
    BY <1>0, <1>1, <2>2 DEF StoreProgress, Batch
  <2> QED
    BY <1>0, <1>1, <2>1, <2>3 DEF NoVisibleRowLost
<1> QED
  BY <1>2, <1>3, <1>4

(* A visible row behind the cursor is in the notification center unless    *)
(* notifications were off or storage refused the write.                    *)
THEOREM NothingVisibleLost == Spec => []NoVisibleRowLost
<1>1. Init /\ TypeOK => StoreInv
  BY InitEstablishes DEF Init, StoreInv, IInv, StoreProgress, Kept, NoVisibleRowLost
<1>2. StoreInv /\ TypeOK' /\ [Next]_vars => StoreInv'
  BY StepPreserves, StorePreserved DEF StoreInv, IInv
<1>3. StoreInv => NoVisibleRowLost
  BY DEF StoreInv
<1> QED
  BY <1>1, <1>2, <1>3, TypeCorrect, PTL DEF Spec

(* However often a row is fetched again, a second toast about it needs a   *)
(* refused write of its cached copy.                                       *)
THEOREM OneToast == Spec => []ToastedAtMostOnce
<1>1. Init => ToastInv
  BY DEF Init, ToastInv
<1>2. ToastInv /\ TypeOK /\ [Next]_vars => ToastInv'
  <2> SUFFICES ASSUME ToastInv, TypeOK, [Next]_vars PROVE ToastInv'
    OBVIOUS
  <2> USE DEF TypeOK, HistoryOK, ToastInv
  <2>1. CASE Merge
    BY <2>1 DEF Merge
  <2>2. CASE Toast
    BY <2>2 DEF Toast, Forget
  <2>3. CASE ~Merge /\ ~Toast
    <3>1. UNCHANGED <<cache, unsaved, toasts>> /\ added' \in {added, {}}
      BY <2>3 DEF Next, vars, Publish, ToggleNotifications, Crash, EnsureLoop,
         StartPoll, FetchFails, FetchReturns, ApplyPlain, ApplySucceeds,
         ApplyFails, GiveUp, FinishApply, Capture, SendReceipt, SaveCursor,
         AbandonPoll, Forget
    <3> QED
      BY <3>1
  <2> QED
    BY <2>1, <2>2, <2>3
<1>3. ToastInv /\ TypeOK => ToastedAtMostOnce
  BY DEF ToastInv, ToastedAtMostOnce, TypeOK, HistoryOK
<1> QED
  BY <1>1, <1>2, <1>3, TypeCorrect, PTL DEF Spec

-----------------------------------------------------------------------------
(* Every step of the worker is a step of the outbox contract or invisible  *)
(* to it: settled rows stay settled and the cursor moves only over them.   *)
THEOREM DeliveryImplementsOutbox == Spec => ImplementsOutbox
<1>1. Init => Contract!Init
  BY DEF Init, Contract!Init, SettledRows
<1>2. StoreInv /\ TypeOK' /\ [Next]_vars => [Contract!Next]_Contract!vars
  <2> SUFFICES ASSUME StoreInv, TypeOK', [Next]_vars
               PROVE  Contract!Next
    BY DEF Contract!vars
  <2> USE ConstantFacts DEF StoreInv, IInv, TypeOK
  <2>0. \A r \in Rows : EventSettled(r) /\ Stored(r) => EventSettled(r)' /\ Stored(r)'
    BY SettledStays, StoredStays
  <2>1. published \in Nat /\ published' \in Nat /\ 1..published \subseteq Rows
    BY DEF OutsideOK, Rows
  <2>2. CASE Publish
    <3>1. UNCHANGED <<applied, gaveUp, tries, cache, suppressed, unsaved>>
      BY <2>2 DEF Publish
    <3>2. 1..published' = 1..published \cup {published + 1} /\ published' = published + 1
      BY <2>1, <2>2 DEF Publish
    <3>3. SettledRows' = {r \in 1..published' : EventSettled(r) /\ Stored(r)}
      BY <3>1 DEF SettledRows, EventSettled, Stored
    <3>4. SettledRows' \in {SettledRows, SettledRows \cup {published + 1}}
      BY <3>2, <3>3 DEF SettledRows
    <3> QED
      BY <2>2, <3>2, <3>4 DEF Publish, Contract!Next, Contract!Send
  <2>3. CASE SaveCursor
    <3>1. UNCHANGED SettledRows
      BY <2>3 DEF SaveCursor, SettledRows, EventSettled, Stored
    <3>2. \A r \in Batch \cup 1..cursor : EventSettled(r) /\ Stored(r)
      BY <2>3 DEF SaveCursor, Progress, AppliedPhase, StoreProgress, Kept,
         SettledBeforeAcknowledged, NoVisibleRowLost
    <3>3. cursor' \in cursor..published /\ 1..cursor' \subseteq Batch \cup 1..cursor
      BY <2>3 DEF SaveCursor, Frame, Fetched, Batch, StorageOK, WorkerOK, OutsideOK
    <3>4. 1..cursor' \subseteq SettledRows
      BY <3>2, <3>3, <2>1 DEF SettledRows, StorageOK
    <3> QED
      BY <2>3, <3>1, <3>3, <3>4 DEF SaveCursor, Contract!Next, Contract!Acknowledge
  <2>4. CASE ~Publish /\ ~SaveCursor
    <3>1. UNCHANGED <<published, cursor>>
      BY <2>4 DEF Next, vars, ToggleNotifications, Crash, EnsureLoop,
         StartPoll, FetchFails, FetchReturns, ApplyPlain, ApplySucceeds,
         ApplyFails, GiveUp, FinishApply, Merge, Capture, SendReceipt, Toast
    <3>2. SettledRows \subseteq SettledRows' /\ SettledRows' \subseteq 1..published
      <4>1. SettledRows' = {r \in 1..published : EventSettled(r)' /\ Stored(r)'}
        BY <3>1 DEF SettledRows
      <4>2. SettledRows' \subseteq 1..published
        BY <3>1 DEF SettledRows
      <4> QED
        BY <4>1, <4>2, <2>0, <2>1 DEF SettledRows
    <3> QED
      BY <3>1, <3>2 DEF Contract!Next, Contract!Settle
  <2> QED
    BY <2>2, <2>3, <2>4
<1>3. Init /\ TypeOK => StoreInv
  BY InitEstablishes DEF Init, StoreInv, IInv, StoreProgress, Kept, NoVisibleRowLost
<1>4. StoreInv /\ TypeOK' /\ [Next]_vars => StoreInv'
  BY StepPreserves, StorePreserved DEF StoreInv, IInv
<1> QED
  BY <1>1, <1>2, <1>3, <1>4, TypeCorrect, PTL DEF Spec, ImplementsOutbox, Contract!Spec

-----------------------------------------------------------------------------
(* BounceQueue.                                                            *)

LEMMA BounceConstants ==
    /\ Jobs \subseteq Nat /\ Address \in [Jobs -> Addresses]
    /\ Tabs \in Nat /\ MaxAttempts \in Nat /\ MaxAttempts > 0 /\ MaxFlows \in Nat
    /\ FlowIds \subseteq Nat /\ 0 \notin FlowIds
BY BounceAssumption DEF FlowIds

LEMMA FreeFlowTyped ==
    NoFlow \in [step : {"free", "check", "create"}, address : Addresses] /\ NoFlow.step = "free"
<1>1. (CHOOSE a \in Addresses : TRUE) \in Addresses
  BY BounceAssumption
<1>2. QED
  BY <1>1 DEF NoFlow

(* A queue is a function on some of the jobs.                              *)
LEMMA QueueTyped ==
    ASSUME NEW A, NEW q \in Queues(A)
    PROVE  DOMAIN q \subseteq Jobs /\ q \in [DOMAIN q -> A]
BY DEF Queues

LEMMA QueueMade ==
    ASSUME NEW A, NEW S \in SUBSET Jobs, NEW q \in [S -> A]
    PROVE  q \in Queues(A)
BY DEF Queues

LEMMA NoJobsTyped ==
    ASSUME NEW A PROVE NoJobs \in Queues(A) /\ DOMAIN NoJobs = {}
<1>1. NoJobs \in [{} -> A] /\ DOMAIN NoJobs = {}
  BY DEF NoJobs
<1>2. QED
  BY <1>1, QueueMade

LEMMA RestrictTyped ==
    ASSUME NEW A, NEW q \in Queues(A), NEW S, S \subseteq DOMAIN q
    PROVE  /\ Restrict(q, S) \in Queues(A)
           /\ DOMAIN Restrict(q, S) = S
           /\ \A j \in S : Restrict(q, S)[j] = q[j]
<1>1. DOMAIN q \subseteq Jobs /\ q \in [DOMAIN q -> A]
  BY QueueTyped
<1>2. /\ DOMAIN Restrict(q, S) = S
      /\ \A j \in S : Restrict(q, S)[j] = q[j]
      /\ Restrict(q, S) \in [S -> A]
  BY <1>1 DEF Restrict
<1>3. QED
  BY <1>1, <1>2, QueueMade

(* mergeJobs keeps the unexpired jobs as they are and adds new ones with   *)
(* no attempt, none of them for an address that is already there.          *)
Distinct(q) == \A i, j \in DOMAIN q : Address[i] = Address[j] => i = j

LEMMA MergedTyped ==
    ASSUME NEW q \in StorableQueues, NEW fresh \in SUBSET Jobs
    PROVE  /\ Merged(q, fresh) \in StorableQueues
           /\ DOMAIN Merged(q, fresh) \subseteq DOMAIN q \cup fresh
           /\ \A j \in DOMAIN Merged(q, fresh) :
                \/ j \in DOMAIN q /\ Merged(q, fresh)[j] = q[j]
                \/ Merged(q, fresh)[j] = 0
           /\ Distinct(q) => Distinct(Merged(q, fresh))
<1> DEFINE kept == Fresh(q)
           new == {j \in fresh : \A i \in DOMAIN kept \cup {k \in fresh : k < j} :
                                   Address[i] # Address[j]}
           m == [j \in DOMAIN kept \cup new |-> IF j \in DOMAIN kept THEN kept[j] ELSE 0]
<1>1. /\ kept \in StorableQueues
      /\ DOMAIN kept = DOMAIN q \ expired
      /\ \A j \in DOMAIN kept : kept[j] = q[j]
  BY RestrictTyped DEF Fresh, StorableQueues
<1>2. DOMAIN kept \subseteq Jobs /\ kept \in [DOMAIN kept -> 0..(MaxAttempts - 1)]
  BY <1>1, QueueTyped DEF StorableQueues
<1>3. Merged(q, fresh) = m
  BY DEF Merged
<1> HIDE DEF kept
<1>4. 0 \in 0..(MaxAttempts - 1)
  BY BounceConstants
<1>5. /\ DOMAIN m = DOMAIN kept \cup new
      /\ \A j \in DOMAIN kept \cup new : m[j] = IF j \in DOMAIN kept THEN kept[j] ELSE 0
      /\ m \in [DOMAIN kept \cup new -> 0..(MaxAttempts - 1)]
  BY <1>2, <1>4
<1>6. m \in StorableQueues
  <2>1. DOMAIN kept \cup new \in SUBSET Jobs
    BY <1>2
  <2>2. QED
    BY <1>5, <2>1, QueueMade DEF StorableQueues
<1>7. Distinct(q) => Distinct(m)
  <2> SUFFICES ASSUME Distinct(q), NEW i \in DOMAIN m, NEW j \in DOMAIN m,
                      Address[i] = Address[j]
               PROVE  i = j
    BY DEF Distinct
  <2>1. CASE i \in DOMAIN kept /\ j \in DOMAIN kept
    BY <2>1, <1>1 DEF Distinct
  <2>2. CASE i \in new /\ j \in DOMAIN kept
    BY <2>2
  <2>3. CASE i \in DOMAIN kept /\ j \in new
    BY <2>3
  <2>4. CASE i \in new /\ j \in new
    <3>1. i \in Nat /\ j \in Nat
      BY <2>4, BounceConstants
    <3>2. ~(i < j) /\ ~(j < i)
      BY <2>4
    <3>3. QED
      BY <3>1, <3>2
  <2>5. QED
    BY <2>1, <2>2, <2>3, <2>4, <1>5
<1>8. \A j \in DOMAIN m : \/ j \in DOMAIN q /\ m[j] = q[j]
                          \/ m[j] = 0
  BY <1>1, <1>5
<1>9. DOMAIN m \subseteq DOMAIN q \cup fresh
  BY <1>1, <1>5
<1>10. QED
  BY <1>3, <1>6, <1>7, <1>8, <1>9

-----------------------------------------------------------------------------
(* Type correctness, action by action.                                     *)

LEMMA BounceTypeInit == BounceInit => BounceTypeOK
<1> SUFFICES ASSUME BounceInit PROVE BounceTypeOK
  OBVIOUS
<1> USE DEF BounceInit
<1>1. NoLedger \in Ledgers
  BY DEF NoLedger, Ledgers
<1>2. Idle \in Drains
  BY <1>1, NoJobsTyped, BounceConstants DEF Idle, Drains
<1>3. BounceWorkerOK
  BY <1>1, <1>2, NoJobsTyped DEF BounceWorkerOK, DrainOK, Idle, NoCapture, StorableQueues
<1>4. PagesOK
  BY FreeFlowTyped, BounceAssumption DEF PagesOK
<1>5. JobHistoryOK
  BY NoJobsTyped DEF JobHistoryOK, NoCapture, Idle
<1>6. CountsOK
  BY DEF CountsOK
<1>7. QED
  BY <1>3, <1>4, <1>5, <1>6 DEF BounceTypeOK

LEMMA DrainParts ==
    ASSUME drain \in Drains
    PROVE  /\ drain.jobs \in Queues(0..MaxAttempts) /\ drain.ledger \in Ledgers
           /\ drain.settled \in SUBSET Jobs /\ drain.todo \in SUBSET Jobs
           /\ drain.left \in 0..Tabs /\ drain.refused \in BOOLEAN
           /\ DOMAIN drain.jobs \subseteq Jobs
           /\ drain.jobs \in [DOMAIN drain.jobs -> 0..MaxAttempts]
<1>1. /\ drain.jobs \in Queues(0..MaxAttempts) /\ drain.ledger \in Ledgers
      /\ drain.settled \in SUBSET Jobs /\ drain.todo \in SUBSET Jobs
      /\ drain.left \in 0..Tabs /\ drain.refused \in BOOLEAN
  BY DEF Drains
<1>2. QED
  BY <1>1, QueueTyped

(* A step that leaves the stored queue and ledger and capture() alone.     *)
LEMMA WorkerStepTyped ==
    ASSUME BounceTypeOK, PagesOK', CountsOK', drain' \in Drains, DrainOK',
           DOMAIN drain'.jobs \subseteq DOMAIN drain.jobs \cup DOMAIN bounceQueue,
           refusals' \in [Jobs -> Nat],
           UNCHANGED <<bounceStorage, offered, expired, capture, captured, dropped>>
    PROVE  BounceTypeOK'
<1> USE DEF BounceTypeOK
<1>1. BounceWorkerOK'
  BY DEF BounceWorkerOK, bounceStorage
<1>2. JobHistoryOK'
  BY DEF JobHistoryOK, bounceStorage
<1>3. QED
  BY <1>1, <1>2

LEMMA CaptureReadTyped ==
    ASSUME BounceTypeOK, NEW batch \in SUBSET Jobs, CaptureRead(batch)
    PROVE  BounceTypeOK'
<1> USE DEF BounceTypeOK
<1> DEFINE fresh == {j \in batch : ledger[Address[j]] = "none"}
<1>1. capture' = [fresh |-> fresh, queue |-> bounceQueue, ledger |-> ledger]
  BY DEF CaptureRead
<1>2. BounceWorkerOK'
  <2>1. capture' \in [fresh : SUBSET Jobs, queue : StorableQueues, ledger : Ledgers]
    BY <1>1 DEF BounceWorkerOK
  <2>2. QED
    BY <2>1 DEF CaptureRead, BounceWorkerOK, DrainOK, bounceStorage
<1>3. PagesOK' /\ CountsOK'
  BY DEF CaptureRead, PagesOK, CountsOK, bounceBudgets
<1>4. JobHistoryOK'
  BY <1>1 DEF CaptureRead, JobHistoryOK, bounceStorage, bounceHistory
<1>5. QED
  BY <1>2, <1>3, <1>4

LEMMA CaptureWriteTyped ==
    ASSUME BounceTypeOK, CaptureWrite
    PROVE  BounceTypeOK'
<1> USE DEF BounceTypeOK
<1>1. /\ capture.fresh \in SUBSET Jobs /\ capture.queue \in StorableQueues
      /\ capture.ledger \in Ledgers
  BY DEF BounceWorkerOK
<1>2. /\ bounceQueue' \in StorableQueues
      /\ DOMAIN bounceQueue' \subseteq DOMAIN capture.queue \cup capture.fresh
  BY <1>1, MergedTyped DEF CaptureWrite
<1>3. NoCapture \in [fresh : SUBSET Jobs, queue : StorableQueues, ledger : Ledgers]
  BY NoJobsTyped DEF NoCapture, StorableQueues, NoLedger, Ledgers
<1>4. BounceWorkerOK'
  BY <1>1, <1>2, <1>3 DEF CaptureWrite, BounceWorkerOK, DrainOK
<1>5. PagesOK' /\ CountsOK'
  BY DEF CaptureWrite, PagesOK, CountsOK, bounceBudgets
<1>6. JobHistoryOK'
  <2>1. capture'.fresh = {} /\ DOMAIN capture'.queue = {}
    BY NoJobsTyped DEF CaptureWrite, NoCapture
  <2>2. QED
    BY <1>2, <2>1 DEF CaptureWrite, JobHistoryOK
<1>7. QED
  BY <1>4, <1>5, <1>6

LEMMA DrainStartTyped ==
    ASSUME BounceTypeOK, DrainStart
    PROVE  BounceTypeOK'
<1> USE DEF BounceTypeOK
<1>1. /\ Pending \in StorableQueues
      /\ DOMAIN Pending \subseteq DOMAIN bounceQueue
      /\ DOMAIN Pending \subseteq Jobs
      /\ Pending \in [DOMAIN Pending -> 0..(MaxAttempts - 1)]
  <2>1. Pending \in StorableQueues /\ DOMAIN Pending = DOMAIN bounceQueue \ expired
    BY RestrictTyped DEF BounceWorkerOK, Pending, Fresh, StorableQueues
  <2>2. QED
    BY <2>1, QueueTyped DEF StorableQueues
<1>2. Pending \in Queues(0..MaxAttempts)
  <2>1. Pending \in [DOMAIN Pending -> 0..MaxAttempts]
    BY <1>1, BounceConstants
  <2>2. QED
    BY <1>1, <2>1, QueueMade
<1>3. Share(Pending) \subseteq DOMAIN Pending
  BY DEF Share
<1>4. /\ drain'.pc \in {"clear", "next"} /\ drain'.jobs = Pending
      /\ drain'.todo = Share(Pending) /\ drain'.settled = {}
      /\ drain' \in Drains
  <2> DEFINE place == IF DOMAIN Pending = {} \/ ~autoFlag THEN "clear" ELSE "next"
  <2>1. drain' = [pc |-> place, jobs |-> Pending, ledger |-> ledger, settled |-> {},
                  todo |-> Share(Pending), job |-> 0, left |-> 0, refused |-> FALSE,
                  flow |-> 0]
    BY DEF DrainStart, Idle
  <2>2. ledger \in Ledgers /\ Share(Pending) \in SUBSET Jobs /\ 0 \in 0..Tabs
    BY <1>1, <1>3, BounceConstants DEF BounceWorkerOK
  <2>3. place \in {"clear", "next"}
    OBVIOUS
  <2> HIDE DEF place
  <2>4. QED
    BY <1>2, <2>1, <2>2, <2>3 DEF Drains
<1>5. DrainOK'
  <2>1. \A j \in DOMAIN Pending : Pending[j] < MaxAttempts
    BY <1>1, BounceConstants
  <2>2. QED
    BY <1>3, <1>4, <2>1 DEF DrainOK
<1>6. PagesOK' /\ CountsOK'
  BY DEF DrainStart, PagesOK, CountsOK, bounceBudgets
<1>7. QED
  BY <1>1, <1>4, <1>5, <1>6, WorkerStepTyped DEF DrainStart, JobHistoryOK, bounceHistory

(* The worker starts over: Idle, after a wake or with a new worker.        *)
LEMMA IdleTyped ==
    Idle \in Drains /\ DOMAIN Idle.jobs = {} /\ (drain' = Idle => DrainOK')
<1>1. NoLedger \in Ledgers
  BY DEF NoLedger, Ledgers
<1>2. Idle \in Drains /\ DOMAIN Idle.jobs = {}
  BY <1>1, NoJobsTyped, BounceConstants DEF Idle, Drains
<1>3. drain' = Idle => DrainOK'
  BY <1>2 DEF DrainOK, Idle
<1>4. QED
  BY <1>2, <1>3

LEMMA DrainClearTyped ==
    ASSUME BounceTypeOK, DrainClear
    PROVE  BounceTypeOK'
<1> USE DEF BounceTypeOK
<1>1. BounceWorkerOK'
  BY IdleTyped, NoJobsTyped, DrainParts
  DEF DrainClear, BounceWorkerOK, StorableQueues
<1>2. PagesOK' /\ CountsOK'
  BY DEF DrainClear, PagesOK, CountsOK, bounceBudgets
<1>3. JobHistoryOK'
  BY IdleTyped, NoJobsTyped DEF DrainClear, JobHistoryOK
<1>4. QED
  BY <1>1, <1>2, <1>3

LEMMA DrainWriteTyped ==
    ASSUME BounceTypeOK, DrainWrite
    PROVE  BounceTypeOK'
<1> USE DEF BounceTypeOK
<1> DEFINE left == DOMAIN drain.jobs \ drain.settled
<1>1. /\ bounceQueue' \in Queues(0..MaxAttempts)
      /\ DOMAIN bounceQueue' = left
      /\ \A j \in left : bounceQueue'[j] = drain.jobs[j]
  <2>1. drain.jobs \in Queues(0..MaxAttempts)
    BY DrainParts DEF BounceWorkerOK
  <2>2. QED
    BY <2>1, RestrictTyped DEF DrainWrite
<1>2. bounceQueue' \in StorableQueues
  <2>1. left \in SUBSET Jobs /\ \A j \in left : drain.jobs[j] \in 0..(MaxAttempts - 1)
    BY DrainParts, BounceConstants DEF BounceWorkerOK, DrainOK
  <2>2. bounceQueue' \in [left -> 0..(MaxAttempts - 1)]
    <3>1. bounceQueue' \in [left -> 0..MaxAttempts]
      BY <1>1, QueueTyped
    <3>2. QED
      BY <1>1, <2>1, <3>1
  <2>3. QED
    BY <2>1, <2>2, QueueMade DEF StorableQueues
<1>3. BounceWorkerOK'
  BY <1>2, IdleTyped, DrainParts DEF DrainWrite, BounceWorkerOK
<1>4. PagesOK' /\ CountsOK'
  BY DEF DrainWrite, PagesOK, CountsOK, bounceBudgets
<1>5. JobHistoryOK'
  BY <1>1, IdleTyped DEF DrainWrite, JobHistoryOK
<1>6. QED
  BY <1>3, <1>4, <1>5

LEMMA NextJobTyped ==
    ASSUME BounceTypeOK, NextJob
    PROVE  BounceTypeOK'
<1> USE DEF BounceTypeOK
<1>1. PICK j \in drain.todo :
         drain' = IF drain.ledger[Address[j]] # "none"
                  THEN [drain EXCEPT !.settled = @ \cup {j}, !.todo = @ \ {j}]
                  ELSE [drain EXCEPT !.pc = "ask", !.job = j, !.todo = @ \ {j},
                                     !.left = Tabs, !.refused = FALSE]
  BY DEF NextJob
<1>2. /\ drain \in Drains /\ DrainOK
      /\ j \in Jobs /\ j \in DOMAIN drain.jobs \ drain.settled
  BY DrainParts DEF BounceWorkerOK, DrainOK
<1>3. drain' \in Drains /\ DrainOK' /\ drain'.jobs = drain.jobs
  <2>1. CASE drain.ledger[Address[j]] # "none"
    <3>1. drain' = [drain EXCEPT !.settled = @ \cup {j}, !.todo = @ \ {j}]
      BY <1>1, <2>1
    <3>2. drain' \in Drains
      BY <1>2, <3>1 DEF Drains
    <3>3. /\ drain'.pc = "next" /\ drain'.jobs = drain.jobs
          /\ drain'.settled = drain.settled \cup {j} /\ drain'.todo = drain.todo \ {j}
      BY <1>2, <3>1 DEF Drains, NextJob
    <3>4. QED
      BY <1>2, <3>2, <3>3 DEF DrainOK
  <2>2. CASE drain.ledger[Address[j]] = "none"
    <3>1. drain' = [drain EXCEPT !.pc = "ask", !.job = j, !.todo = @ \ {j},
                                 !.left = Tabs, !.refused = FALSE]
      BY <1>1, <2>2
    <3>2. drain' \in Drains
      <4>1. Tabs \in 0..Tabs
        BY BounceConstants
      <4>2. QED
        BY <1>2, <3>1, <4>1 DEF Drains
    <3>3. /\ drain'.pc = "ask" /\ drain'.jobs = drain.jobs /\ drain'.job = j
          /\ drain'.settled = drain.settled /\ drain'.todo = drain.todo \ {j}
      BY <1>2, <3>1 DEF Drains
    <3>4. QED
      BY <1>2, <3>2, <3>3 DEF DrainOK
  <2>3. QED
    BY <2>1, <2>2
<1>4. PagesOK' /\ CountsOK'
  BY DEF NextJob, PagesOK, CountsOK, bounceBudgets
<1>5. QED
  BY <1>3, <1>4, WorkerStepTyped DEF NextJob, JobHistoryOK, bounceHistory

(* The steps of a wake that leave its jobs alone.                          *)
SameJobs ==
    /\ drain'.jobs = drain.jobs /\ drain'.settled = drain.settled
    /\ drain'.todo = drain.todo /\ drain'.job = drain.job
    /\ drain'.pc = "ask" => drain.pc \in {"ask", "wait"}
    /\ drain'.pc = "wait" => drain.pc = "ask" /\ drain'.flow \in FlowIds /\ drain'.left > 0

LEMMA SameJobsOK ==
    ASSUME BounceTypeOK, SameJobs PROVE DrainOK' /\ drain'.jobs = drain.jobs
<1>1. DrainOK
  BY DEF BounceTypeOK, BounceWorkerOK
<1>2. QED
  BY <1>1 DEF DrainOK, SameJobs

LEMMA QuietStepTyped ==
    ASSUME BounceTypeOK, NoMoreJobs \/ TabSilent \/ NoAnswer
    PROVE  BounceTypeOK'
<1>1. drain \in Drains /\ DrainOK
  BY DEF BounceTypeOK, BounceWorkerOK
<1>2. drain' \in Drains /\ SameJobs
  <2>1. CASE NoMoreJobs
    BY <1>1, <2>1 DEF NoMoreJobs, Drains, SameJobs
  <2>2. CASE NoAnswer
    BY <1>1, <2>2 DEF NoAnswer, Drains, SameJobs
  <2>3. CASE TabSilent
    <3>1. drain.left - 1 \in 0..Tabs
      BY <1>1, <2>3, BounceConstants DEF TabSilent, Drains
    <3>2. QED
      BY <1>1, <2>3, <3>1 DEF TabSilent, Drains, SameJobs
  <2>4. QED
    BY <2>1, <2>2, <2>3
<1>3. PagesOK' /\ CountsOK'
  BY DEF NoMoreJobs, TabSilent, NoAnswer, BounceTypeOK, PagesOK, CountsOK, bounceBudgets
<1>4. QED
  BY <1>2, <1>3, SameJobsOK, WorkerStepTyped
  DEF NoMoreJobs, TabSilent, NoAnswer, BounceTypeOK, JobHistoryOK, bounceHistory

LEMMA AskTabTyped ==
    ASSUME BounceTypeOK, NEW f \in FlowIds, AskTab(f)
    PROVE  BounceTypeOK'
<1>1. drain \in Drains /\ DrainOK
  BY DEF BounceTypeOK, BounceWorkerOK
<1>2. drain' \in Drains /\ SameJobs
  BY <1>1, BounceConstants DEF AskTab, Drains, SameJobs
<1>3. Address[drain.job] \in Addresses
  BY <1>1, DrainParts, BounceConstants DEF AskTab, DrainOK
<1>4. PagesOK' /\ CountsOK'
  BY <1>3 DEF AskTab, BounceTypeOK, PagesOK, CountsOK, bounceBudgets
<1>5. QED
  BY <1>2, <1>4, SameJobsOK, WorkerStepTyped
  DEF AskTab, BounceTypeOK, JobHistoryOK, bounceHistory

LEMMA TabTimeoutTyped ==
    ASSUME BounceTypeOK, TabTimeout
    PROVE  BounceTypeOK'
<1>1. drain \in Drains /\ DrainOK
  BY DEF BounceTypeOK, BounceWorkerOK
<1>2. drain.left - 1 \in 0..Tabs
  BY <1>1, BounceConstants DEF TabTimeout, Drains, DrainOK
<1>3. drain' \in Drains /\ SameJobs
  BY <1>1, <1>2 DEF TabTimeout, Drains, SameJobs
<1>4. PagesOK' /\ CountsOK'
  BY DEF TabTimeout, BounceTypeOK, PagesOK, CountsOK
<1>5. QED
  BY <1>3, <1>4, SameJobsOK, WorkerStepTyped
  DEF TabTimeout, BounceTypeOK, JobHistoryOK, bounceHistory

LEMMA BurnAttemptTyped ==
    ASSUME BounceTypeOK, BurnAttempt
    PROVE  /\ BounceTypeOK'
           /\ DOMAIN drain'.jobs = DOMAIN drain.jobs
           /\ drain.job \in DOMAIN drain.jobs /\ drain.jobs[drain.job] \in Nat
           /\ \A j \in DOMAIN drain.jobs :
                drain'.jobs[j] = IF j = drain.job THEN drain.jobs[j] + 1 ELSE drain.jobs[j]
           /\ \A a \in Addresses :
                drain'.ledger[a] = IF a = Address[drain.job]
                                      /\ drain.jobs[drain.job] + 1 >= MaxAttempts
                                   THEN "failed" ELSE drain.ledger[a]
           /\ drain'.pc = "next"
<1> DEFINE tried == drain.jobs[drain.job] + 1
           spent == tried >= MaxAttempts
           jobs == [drain.jobs EXCEPT ![drain.job] = tried]
           closed == [drain.ledger EXCEPT ![Address[drain.job]] =
                        IF spent THEN "failed" ELSE @]
           settled == IF spent THEN drain.settled \cup {drain.job} ELSE drain.settled
<1>1. /\ drain \in Drains /\ DrainOK
      /\ drain.job \in DOMAIN drain.jobs \ (drain.settled \cup drain.todo)
      /\ drain.job \in Jobs
  BY DrainParts DEF BurnAttempt, BounceTypeOK, BounceWorkerOK, DrainOK
<1>2. /\ drain.jobs \in [DOMAIN drain.jobs -> 0..MaxAttempts] /\ drain.ledger \in Ledgers
      /\ drain.settled \in SUBSET Jobs /\ DOMAIN drain.jobs \subseteq Jobs
  BY <1>1, DrainParts
<1>3. tried \in 1..MaxAttempts
  BY <1>1, <1>2, BounceConstants DEF DrainOK
<1>4. drain' = [drain EXCEPT !.pc = "next", !.jobs = jobs, !.ledger = closed,
                             !.settled = settled]
  BY DEF BurnAttempt
<1>5. /\ jobs \in Queues(0..MaxAttempts) /\ DOMAIN jobs = DOMAIN drain.jobs
      /\ \A j \in DOMAIN drain.jobs :
           jobs[j] = IF j = drain.job THEN tried ELSE drain.jobs[j]
  <2>1. jobs \in [DOMAIN drain.jobs -> 0..MaxAttempts]
    <3>1. tried \in 0..MaxAttempts
      BY <1>3, BounceConstants
    <3> HIDE DEF tried
    <3>2. QED
      BY <1>2, <3>1
  <2>2. QED
    BY <1>2, <2>1, QueueMade
<1>6. /\ closed \in Ledgers
      /\ \A a \in Addresses : closed[a] = IF a = Address[drain.job] /\ spent
                                          THEN "failed" ELSE drain.ledger[a]
  BY <1>2 DEF Ledgers, Statuses
<1>7. settled \in SUBSET Jobs
  BY <1>1, <1>2
<1> HIDE DEF jobs, closed, settled
<1>8. /\ drain' \in Drains
      /\ drain'.pc = "next" /\ drain'.jobs = jobs /\ drain'.ledger = closed
      /\ drain'.settled = settled /\ drain'.todo = drain.todo
  BY <1>1, <1>4, <1>5, <1>6, <1>7 DEF Drains
<1>9. DrainOK'
  <2>1. drain.todo \subseteq DOMAIN jobs \ settled
    BY <1>1, <1>5 DEF DrainOK, settled
  <2>2. \A j \in DOMAIN jobs \ settled : jobs[j] < MaxAttempts
    BY <1>1, <1>3, <1>5, BounceConstants DEF DrainOK, settled
  <2>3. QED
    BY <1>8, <2>1, <2>2 DEF DrainOK
<1>10. PagesOK' /\ CountsOK'
  BY DEF BurnAttempt, BounceTypeOK, PagesOK, CountsOK, bounceBudgets
<1>11. BounceTypeOK'
  BY <1>5, <1>8, <1>9, <1>10, WorkerStepTyped
  DEF BurnAttempt, BounceTypeOK, JobHistoryOK, bounceHistory
<1>12. QED
  BY <1>1, <1>2, <1>5, <1>6, <1>8, <1>11

(* An answer settles the job drain() waits about, with the page's status.  *)
LEMMA AnswerTyped ==
    ASSUME BounceTypeOK, NEW f \in FlowIds, NEW status \in Statuses, Answer(f, status)
    PROVE  /\ drain' \in Drains /\ DrainOK' /\ drain'.jobs = drain.jobs
           /\ \/ drain' = drain
              \/ /\ drain'.pc = "next"
                 /\ \A a \in Addresses : drain'.ledger[a] \in {drain.ledger[a], status}
           /\ Asked(f) => drain'.pc = "next"
           /\ flows' = [flows EXCEPT ![f] = NoFlow]
<1>1. drain \in Drains /\ DrainOK
  BY DEF BounceTypeOK, BounceWorkerOK
<1>2. CASE ~Asked(f)
  BY <1>1, <1>2 DEF Answer, DrainOK
<1>3. CASE Asked(f)
  <2> DEFINE closed == [drain.ledger EXCEPT ![Address[drain.job]] = status]
             settled == drain.settled \cup {drain.job}
  <2>1. /\ drain.job \in DOMAIN drain.jobs \ (drain.settled \cup drain.todo)
        /\ drain.job \in Jobs
    BY <1>1, <1>3, DrainParts DEF Asked, DrainOK
  <2>2. /\ closed \in Ledgers
        /\ \A a \in Addresses : closed[a] \in {drain.ledger[a], status}
    BY <1>1, DrainParts DEF Ledgers
  <2>3. settled \in SUBSET Jobs
    BY <1>1, <2>1, DrainParts
  <2>4. drain' = [drain EXCEPT !.pc = "next", !.flow = 0, !.ledger = closed,
                               !.settled = settled]
    BY <1>3 DEF Answer
  <2> HIDE DEF closed
  <2>5. /\ drain' \in Drains
        /\ drain'.pc = "next" /\ drain'.jobs = drain.jobs /\ drain'.ledger = closed
        /\ drain'.settled = settled /\ drain'.todo = drain.todo
    BY <1>1, <2>2, <2>3, <2>4 DEF Drains
  <2>6. DrainOK'
    BY <1>1, <2>1, <2>5 DEF DrainOK
  <2>7. QED
    BY <2>2, <2>5, <2>6 DEF Answer
<1>4. QED
  BY <1>2, <1>3

LEMMA FlowFreed ==
    ASSUME BounceTypeOK, NEW f \in FlowIds, flows' = [flows EXCEPT ![f] = NoFlow]
    PROVE  /\ flows' \in [FlowIds -> [step : {"free", "check", "create"},
                                      address : Addresses]]
           /\ flows'[f].step = "free"
           /\ \A g \in FlowIds : g # f => flows'[g] = flows[g]
BY FreeFlowTyped DEF BounceTypeOK, PagesOK

LEMMA AnsweredTyped ==
    ASSUME BounceTypeOK, NEW f \in FlowIds, Unresolved(f) \/ Existing(f) \/ Created(f)
    PROVE  BounceTypeOK'
<1>1. PICK status \in Statuses : Answer(f, status)
  BY DEF Unresolved, Existing, Created, Statuses
<1>2. /\ drain' \in Drains /\ DrainOK' /\ drain'.jobs = drain.jobs
      /\ flows' = [flows EXCEPT ![f] = NoFlow]
  BY <1>1, AnswerTyped
<1>3. /\ tasks' \in [Addresses -> Nat]
      /\ \A a \in Addresses \ Contacts : tasks'[a] = 0
  <2>1. CASE Created(f)
    BY <2>1 DEF Created, BounceTypeOK, PagesOK
  <2>2. CASE Unresolved(f) \/ Existing(f)
    BY <2>2 DEF Unresolved, Existing, BounceTypeOK, PagesOK
  <2>3. QED
    BY <2>1, <2>2
<1>4. PagesOK'
  BY <1>2, <1>3, FlowFreed DEF BounceTypeOK, PagesOK
<1>5. CountsOK' /\ refusals' = refusals
      /\ UNCHANGED <<bounceStorage, offered, expired, capture, captured, dropped>>
  BY <1>1 DEF Answer, BounceTypeOK, CountsOK, bounceBudgets
<1>6. QED
  BY <1>2, <1>4, <1>5, WorkerStepTyped DEF BounceTypeOK, JobHistoryOK

LEMMA CheckedNoneTyped ==
    ASSUME BounceTypeOK, NEW f \in FlowIds, CheckedNone(f)
    PROVE  BounceTypeOK'
<1>1. PagesOK'
  BY DEF CheckedNone, BounceTypeOK, PagesOK
<1>2. drain' \in Drains /\ DrainOK' /\ drain'.jobs = drain.jobs /\ CountsOK'
  BY DEF CheckedNone, BounceTypeOK, BounceWorkerOK, DrainOK, CountsOK, bounceBudgets
<1>3. QED
  BY <1>1, <1>2, WorkerStepTyped DEF CheckedNone, BounceTypeOK, JobHistoryOK, bounceHistory

LEMMA ClickTyped ==
    ASSUME BounceTypeOK, NEW f \in FlowIds, NEW a \in Addresses, Click(f, a)
    PROVE  BounceTypeOK'
<1>1. PagesOK'
  BY DEF Click, BounceTypeOK, PagesOK
<1>2. drain' \in Drains /\ DrainOK' /\ drain'.jobs = drain.jobs /\ CountsOK'
  BY DEF Click, BounceTypeOK, BounceWorkerOK, DrainOK, CountsOK
<1>3. QED
  BY <1>1, <1>2, WorkerStepTyped DEF Click, BounceTypeOK, JobHistoryOK, bounceHistory

LEMMA RefusesTyped ==
    ASSUME BounceTypeOK, NEW f \in FlowIds, Refuses(f)
    PROVE  /\ BounceTypeOK'
           /\ drain'.jobs = drain.jobs /\ drain'.ledger = drain.ledger
           /\ drain'.job = drain.job
           /\ Asked(f) => drain'.pc = "ask"
           /\ Asked(f) => /\ drain.job \in Jobs
                          /\ refusals' = [refusals EXCEPT ![drain.job] = @ + 1]
           /\ ~Asked(f) => drain' = drain /\ refusals' = refusals
<1>1. drain \in Drains /\ DrainOK /\ refusals \in [Jobs -> Nat]
  BY DEF BounceTypeOK, BounceWorkerOK, JobHistoryOK
<1>2. /\ Asked(f) => /\ drain' = [drain EXCEPT !.pc = "ask", !.left = @ - 1, !.flow = 0,
                                               !.refused = TRUE]
                     /\ refusals' = [refusals EXCEPT ![drain.job] = @ + 1]
      /\ ~Asked(f) => drain' = drain /\ refusals' = refusals
  BY DEF Refuses
<1>3. /\ drain' \in Drains /\ DrainOK' /\ refusals' \in [Jobs -> Nat]
      /\ drain'.jobs = drain.jobs /\ drain'.ledger = drain.ledger
      /\ drain'.job = drain.job
      /\ Asked(f) => drain'.pc = "ask" /\ drain.job \in Jobs
  <2>1. CASE Asked(f)
    <3>1. drain.job \in Jobs /\ drain.left - 1 \in 0..Tabs
      BY <1>1, <2>1, DrainParts, BounceConstants DEF Asked, DrainOK
    <3>2. drain' \in Drains /\ SameJobs /\ drain'.ledger = drain.ledger /\ drain'.pc = "ask"
      BY <1>1, <1>2, <2>1, <3>1 DEF Drains, SameJobs, Asked
    <3>3. refusals' \in [Jobs -> Nat]
      BY <1>1, <1>2, <2>1
    <3>4. QED
      BY <3>1, <3>2, <3>3, SameJobsOK DEF SameJobs
  <2>2. CASE ~Asked(f)
    <3>1. drain' = drain /\ refusals' = refusals
      BY <1>2, <2>2
    <3>2. DrainOK'
      BY <1>1, <3>1 DEF DrainOK
    <3>3. QED
      BY <1>1, <2>2, <3>1, <3>2
  <2>3. QED
    BY <2>1, <2>2
<1>4. tasks' \in [Addresses -> Nat] /\ \A a \in Addresses \ Contacts : tasks'[a] = 0
  BY DEF Refuses, BounceTypeOK, PagesOK
<1>5. PagesOK'
  <2>1. flows' = [flows EXCEPT ![f] = NoFlow]
    BY DEF Refuses
  <2>2. QED
    BY <1>4, <2>1, FlowFreed DEF BounceTypeOK, PagesOK
<1>6. CountsOK'
  BY DEF Refuses, BounceTypeOK, CountsOK
<1>7. BounceTypeOK'
  BY <1>3, <1>5, <1>6, WorkerStepTyped DEF Refuses, BounceTypeOK, JobHistoryOK
<1>8. QED
  BY <1>2, <1>3, <1>7

LEMMA AroundTyped ==
    ASSUME BounceTypeOK, WorkerDies \/ SwitchOff \/ \E j \in Jobs : Expire(j)
    PROVE  BounceTypeOK'
<1>1. NoCapture \in [fresh : SUBSET Jobs, queue : StorableQueues, ledger : Ledgers]
      /\ NoCapture.fresh = {} /\ DOMAIN NoCapture.queue = {}
  BY NoJobsTyped DEF NoCapture, StorableQueues, NoLedger, Ledgers
<1>2. BounceWorkerOK'
  BY <1>1, IdleTyped
  DEF WorkerDies, SwitchOff, Expire, BounceTypeOK, BounceWorkerOK, DrainOK, bounceStorage
<1>3. PagesOK' /\ CountsOK'
  <2>1. PagesOK'
    BY DEF WorkerDies, SwitchOff, Expire, BounceTypeOK, PagesOK
  <2>2. CountsOK'
    <3>1. autoFlag' \in BOOLEAN
      <4>1. CASE SwitchOff
        BY <4>1 DEF SwitchOff
      <4>2. CASE WorkerDies \/ \E j \in Jobs : Expire(j)
        BY <4>2 DEF WorkerDies, Expire, BounceTypeOK, CountsOK
      <4>3. QED
        BY <4>1, <4>2
    <3>2. timeouts' \in Nat /\ deaths' \in Nat /\ clicks' \in Nat /\ errors' \in Nat
      BY DEF WorkerDies, SwitchOff, Expire, BounceTypeOK, CountsOK, bounceBudgets
    <3>3. QED
      BY <3>1, <3>2 DEF CountsOK
  <2>3. QED
    BY <2>1, <2>2
<1>4. JobHistoryOK'
  BY <1>1, IdleTyped
  DEF WorkerDies, SwitchOff, Expire, BounceTypeOK, JobHistoryOK, bounceStorage, bounceHistory
<1>5. QED
  BY <1>2, <1>3, <1>4 DEF BounceTypeOK

LEMMA BounceTypeStep ==
    ASSUME BounceTypeOK, [BounceNext]_bounceVars
    PROVE  BounceTypeOK'
<1>1. CASE \E batch \in SUBSET Jobs : CaptureRead(batch)
  BY <1>1, CaptureReadTyped
<1>2. CASE CaptureWrite
  BY <1>2, CaptureWriteTyped
<1>3. CASE DrainStart
  BY <1>3, DrainStartTyped
<1>4. CASE DrainClear
  BY <1>4, DrainClearTyped
<1>5. CASE NextJob
  BY <1>5, NextJobTyped
<1>6. CASE NoMoreJobs \/ TabSilent \/ NoAnswer
  BY <1>6, QuietStepTyped
<1>7. CASE TabTimeout
  BY <1>7, TabTimeoutTyped
<1>8. CASE BurnAttempt
  BY <1>8, BurnAttemptTyped
<1>9. CASE DrainWrite
  BY <1>9, DrainWriteTyped
<1>10. ASSUME NEW f \in FlowIds, AskTab(f) PROVE BounceTypeOK'
  BY <1>10, AskTabTyped
<1>11. ASSUME NEW f \in FlowIds, Unresolved(f) \/ Existing(f) \/ Created(f)
       PROVE  BounceTypeOK'
  BY <1>11, AnsweredTyped
<1>12. ASSUME NEW f \in FlowIds, CheckedNone(f) PROVE BounceTypeOK'
  BY <1>12, CheckedNoneTyped
<1>13. ASSUME NEW f \in FlowIds, Refuses(f) PROVE BounceTypeOK'
  BY <1>13, RefusesTyped
<1>14. ASSUME NEW f \in FlowIds, NEW a \in Addresses, Click(f, a) PROVE BounceTypeOK'
  BY <1>14, ClickTyped
<1>15. CASE WorkerDies \/ SwitchOff \/ \E j \in Jobs : Expire(j)
  BY <1>15, AroundTyped
<1>16. CASE UNCHANGED bounceVars
  <2>1. BounceWorkerOK' /\ PagesOK'
    BY <1>16 DEF bounceVars, bounceStorage, BounceTypeOK, BounceWorkerOK, DrainOK, PagesOK
  <2>2. JobHistoryOK' /\ CountsOK'
    BY <1>16 DEF bounceVars, bounceStorage, bounceHistory, bounceBudgets, BounceTypeOK,
                 JobHistoryOK, CountsOK
  <2>3. QED
    BY <2>1, <2>2 DEF BounceTypeOK
<1>17. QED
  BY <1>1, <1>2, <1>3, <1>4, <1>5, <1>6, <1>7, <1>8, <1>9, <1>10, <1>11, <1>12, <1>13,
     <1>14, <1>15, <1>16 DEF BounceNext

-----------------------------------------------------------------------------
(* Every copy of the queue, stored or held by capture() or drain(), names  *)
(* each address once.                                                      *)
OneJobPerAddress == Distinct(bounceQueue)

CopiesDistinct == Distinct(bounceQueue) /\ Distinct(capture.queue) /\ Distinct(drain.jobs)

LEMMA DistinctPart ==
    ASSUME NEW q, NEW r, Distinct(q), DOMAIN r \subseteq DOMAIN q PROVE Distinct(r)
BY DEF Distinct

LEMMA WorkerParts ==
    ASSUME BounceTypeOK
    PROVE  /\ bounceQueue \in StorableQueues /\ DOMAIN bounceQueue \subseteq Jobs
           /\ capture.queue \in StorableQueues /\ DOMAIN capture.queue \subseteq Jobs
           /\ capture.fresh \in SUBSET Jobs
           /\ ledger \in Ledgers /\ capture.ledger \in Ledgers /\ drain.ledger \in Ledgers
           /\ drain.jobs \in Queues(0..MaxAttempts) /\ DOMAIN drain.jobs \subseteq Jobs
           /\ drain \in Drains /\ DrainOK
BY QueueTyped, DrainParts DEF BounceTypeOK, BounceWorkerOK, StorableQueues

(* What each step may do to the three copies of the queue: leave one as it *)
(* is, empty it, copy a part of another, or merge what capture() read.     *)
FromStored(q) == DOMAIN q \subseteq DOMAIN bounceQueue /\ \A j \in DOMAIN q : q[j] = bounceQueue[j]
FromDrain(q) == DOMAIN q \subseteq DOMAIN drain.jobs /\ \A j \in DOMAIN q : q[j] = drain.jobs[j]

LEMMA StoredQueueStep ==
    ASSUME BounceTypeOK, [BounceNext]_bounceVars
    PROVE  \/ FromStored(bounceQueue')
           \/ FromDrain(bounceQueue')
           \/ bounceQueue' = Merged(capture.queue, capture.fresh)
<1>1. CASE DrainClear
  BY <1>1, NoJobsTyped DEF DrainClear, FromStored
<1>2. CASE DrainWrite
  <2>1. /\ DOMAIN bounceQueue' = DOMAIN drain.jobs \ drain.settled
        /\ \A j \in DOMAIN bounceQueue' : bounceQueue'[j] = drain.jobs[j]
    BY <1>2, WorkerParts, RestrictTyped DEF DrainWrite
  <2>2. QED
    BY <2>1 DEF FromDrain
<1>3. CASE CaptureWrite
  BY <1>3 DEF CaptureWrite
<1>4. CASE UNCHANGED bounceQueue
  BY <1>4 DEF FromStored
<1>5. QED
  BY <1>1, <1>2, <1>3, <1>4
  DEF BounceNext, bounceVars, bounceStorage, CaptureRead, DrainStart, NextJob, NoMoreJobs,
      TabSilent, TabTimeout, NoAnswer, BurnAttempt, AskTab, Unresolved, Existing,
      CheckedNone, Created, Answer, Refuses, Click, WorkerDies, SwitchOff, Expire

LEMMA StoredLedgerStep ==
    ASSUME [BounceNext]_bounceVars
    PROVE  ledger' \in {ledger, capture.ledger, drain.ledger}
<1>1. CASE DrainClear \/ DrainWrite
  BY <1>1 DEF DrainClear, DrainWrite
<1>2. CASE CaptureWrite
  BY <1>2 DEF CaptureWrite
<1>3. CASE UNCHANGED ledger
  BY <1>3
<1>4. QED
  BY <1>1, <1>2, <1>3
  DEF BounceNext, bounceVars, bounceStorage, CaptureRead, DrainStart, NextJob, NoMoreJobs,
      TabSilent, TabTimeout, NoAnswer, BurnAttempt, AskTab, Unresolved, Existing,
      CheckedNone, Created, Answer, Refuses, Click, WorkerDies, SwitchOff, Expire

LEMMA CaptureStep ==
    ASSUME BounceTypeOK, [BounceNext]_bounceVars
    PROVE  \/ capture' = capture
           \/ capture'.queue = bounceQueue /\ capture'.ledger = ledger
           \/ DOMAIN capture'.queue = {} /\ capture'.ledger = NoLedger
<1>1. CASE \E batch \in SUBSET Jobs : CaptureRead(batch)
  BY <1>1 DEF CaptureRead
<1>2. CASE CaptureWrite \/ WorkerDies
  BY <1>2, NoJobsTyped DEF CaptureWrite, WorkerDies, NoCapture
<1>3. CASE UNCHANGED capture
  BY <1>3
<1>4. QED
  BY <1>1, <1>2, <1>3
  DEF BounceNext, bounceVars, DrainStart, DrainClear, NextJob, NoMoreJobs, TabSilent,
      TabTimeout, NoAnswer, BurnAttempt, DrainWrite, AskTab, Unresolved, Existing,
      CheckedNone, Created, Answer, Refuses, Click, SwitchOff, Expire

AskedAgain == drain.pc \in {"ask", "wait"} /\ drain.refused

DrainStays ==
    /\ drain'.jobs = drain.jobs /\ drain'.ledger = drain.ledger
    /\ AskedAgain' => AskedAgain /\ drain'.job = drain.job

Answers(f, status) == Answer(f, status) /\ status \in Statuses \ {"failed"}

LEMMA DrainSteps ==
    ASSUME BounceTypeOK, [BounceNext]_bounceVars
    PROVE  \/ DrainStays
           \/ drain' = Idle
           \/ DrainStart
           \/ BurnAttempt
           \/ \E f \in FlowIds, status \in Statuses : Answers(f, status)
           \/ \E f \in FlowIds : Refuses(f)
<1>1. drain \in Drains
  BY WorkerParts
<1>2. CASE NextJob
  BY <1>1, <1>2 DEF NextJob, Drains, DrainStays, AskedAgain
<1>3. CASE NoMoreJobs \/ TabSilent \/ NoAnswer \/ TabTimeout
  BY <1>1, <1>3 DEF NoMoreJobs, TabSilent, NoAnswer, TabTimeout, Drains, DrainStays, AskedAgain
<1>4. ASSUME NEW f \in FlowIds, AskTab(f) PROVE DrainStays
  BY <1>1, <1>4 DEF AskTab, Drains, DrainStays, AskedAgain
<1>5. CASE DrainClear \/ DrainWrite \/ WorkerDies
  BY <1>5 DEF DrainClear, DrainWrite, WorkerDies
<1>6. ASSUME NEW f \in FlowIds, Unresolved(f) \/ Existing(f) \/ Created(f)
      PROVE  \E status \in Statuses : Answers(f, status)
  BY <1>6 DEF Unresolved, Existing, Created, Answers, Statuses
<1>7. CASE UNCHANGED drain
  BY <1>7 DEF DrainStays, AskedAgain
<1>8. QED
  BY <1>2, <1>3, <1>4, <1>5, <1>6, <1>7
  DEF BounceNext, bounceVars, CaptureRead, CaptureWrite, CheckedNone, Click, SwitchOff, Expire

-----------------------------------------------------------------------------
(* One job per address.                                                    *)

DistinctInv == BounceTypeOK /\ CopiesDistinct

LEMMA DistinctStep ==
    ASSUME DistinctInv, [BounceNext]_bounceVars
    PROVE  CopiesDistinct'
<1> USE DEF DistinctInv, CopiesDistinct
<1>1. Distinct(bounceQueue)'
  <2>1. CASE FromStored(bounceQueue')
    BY <2>1 DEF FromStored, Distinct
  <2>2. CASE FromDrain(bounceQueue')
    BY <2>2 DEF FromDrain, Distinct
  <2>3. CASE bounceQueue' = Merged(capture.queue, capture.fresh)
    <3>1. Distinct(Merged(capture.queue, capture.fresh))
      BY WorkerParts, MergedTyped
    <3>2. QED
      BY <2>3, <3>1 DEF Distinct
  <2>4. QED
    BY <2>1, <2>2, <2>3, StoredQueueStep
<1>2. Distinct(capture.queue)'
  BY CaptureStep DEF Distinct
<1>3. Distinct(drain.jobs)'
  <2>1. DOMAIN drain'.jobs \subseteq DOMAIN drain.jobs
        \/ DOMAIN drain'.jobs \subseteq DOMAIN bounceQueue
    <3>1. CASE DrainStart
      <4>1. DOMAIN Pending = DOMAIN bounceQueue \ expired
        BY WorkerParts, RestrictTyped DEF Pending, Fresh, StorableQueues
      <4>2. drain'.jobs = Pending
        BY <3>1 DEF DrainStart, Idle
      <4>3. QED
        BY <4>1, <4>2
    <3>2. CASE \E f \in FlowIds, status \in Statuses : Answers(f, status)
      BY <3>2, AnswerTyped DEF Answers
    <3>3. CASE DrainStays \/ drain' = Idle \/ BurnAttempt \/ \E f \in FlowIds : Refuses(f)
      BY <3>3, IdleTyped, BurnAttemptTyped, RefusesTyped DEF DrainStays
    <3>4. QED
      BY <3>1, <3>2, <3>3, DrainSteps
  <2>2. QED
    BY <2>1 DEF Distinct
<1>4. QED
  BY <1>1, <1>2, <1>3

-----------------------------------------------------------------------------
(* Only refusals burn attempts.                                            *)

AttemptsReal(q) == \A j \in DOMAIN q : q[j] <= refusals[j]

FailuresReal(closed) ==
    \A a \in Addresses :
      closed[a] = "failed" => \E j \in Jobs : Address[j] = a /\ refusals[j] >= MaxAttempts

CopiesReal ==
    /\ AttemptsReal(bounceQueue) /\ AttemptsReal(capture.queue) /\ AttemptsReal(drain.jobs)
    /\ FailuresReal(ledger) /\ FailuresReal(capture.ledger) /\ FailuresReal(drain.ledger)

RefusedNow == AskedAgain => drain.jobs[drain.job] < refusals[drain.job]

RefusalInv == BounceTypeOK /\ CopiesReal /\ RefusedNow

LEMMA RefusalsGrow ==
    ASSUME BounceTypeOK, [BounceNext]_bounceVars
    PROVE  /\ refusals \in [Jobs -> Nat] /\ refusals' \in [Jobs -> Nat]
           /\ \A j \in Jobs : refusals[j] <= refusals'[j]
<1>1. refusals \in [Jobs -> Nat] /\ refusals' \in [Jobs -> Nat]
  BY BounceTypeStep DEF BounceTypeOK, JobHistoryOK
<1>2. CASE UNCHANGED refusals
  BY <1>1, <1>2
<1>3. ASSUME NEW f \in FlowIds, Refuses(f) PROVE \A j \in Jobs : refusals[j] <= refusals'[j]
  <2>1. \/ refusals' = refusals
        \/ refusals' = [refusals EXCEPT ![drain.job] = @ + 1]
    BY <1>3 DEF Refuses
  <2>2. QED
    BY <1>1, <2>1
<1>4. QED
  BY <1>1, <1>2, <1>3
  DEF BounceNext, bounceVars, bounceHistory, CaptureRead, CaptureWrite, DrainStart,
      DrainClear, NextJob, NoMoreJobs, TabSilent, TabTimeout, NoAnswer, BurnAttempt,
      DrainWrite, AskTab, Unresolved, Existing, CheckedNone, Created, Answer, Click,
      WorkerDies, SwitchOff, Expire

(* Refusals never shrink, so what was a real count or failure stays one.   *)
LEMMA StaysReal ==
    ASSUME BounceTypeOK, [BounceNext]_bounceVars
    PROVE  /\ \A q \in Queues(0..MaxAttempts) :
                AttemptsReal(q) => \A j \in DOMAIN q : q[j] <= refusals'[j]
           /\ \A closed \in Ledgers :
                FailuresReal(closed) =>
                  \A a \in Addresses : closed[a] = "failed" =>
                    \E j \in Jobs : Address[j] = a /\ refusals'[j] >= MaxAttempts
<1>1. /\ refusals \in [Jobs -> Nat] /\ refusals' \in [Jobs -> Nat]
      /\ \A j \in Jobs : refusals[j] <= refusals'[j]
  BY RefusalsGrow
<1>2. ASSUME NEW q \in Queues(0..MaxAttempts), AttemptsReal(q), NEW j \in DOMAIN q
      PROVE  q[j] <= refusals'[j]
  <2>1. j \in Jobs /\ q[j] \in 0..MaxAttempts
    BY <1>2, QueueTyped
  <2>2. QED
    BY <1>1, <1>2, <2>1 DEF AttemptsReal
<1>3. ASSUME NEW closed \in Ledgers, FailuresReal(closed), NEW a \in Addresses,
             closed[a] = "failed"
      PROVE  \E j \in Jobs : Address[j] = a /\ refusals'[j] >= MaxAttempts
  <2>1. PICK j \in Jobs : Address[j] = a /\ refusals[j] >= MaxAttempts
    BY <1>3 DEF FailuresReal
  <2>2. refusals'[j] >= MaxAttempts
    BY <1>1, <2>1, BounceConstants
  <2>3. QED
    BY <2>1, <2>2
<1>4. QED
  BY <1>2, <1>3

LEMMA StorableIsQueue ==
    ASSUME NEW q \in StorableQueues PROVE q \in Queues(0..MaxAttempts)
<1>1. DOMAIN q \in SUBSET Jobs /\ q \in [DOMAIN q -> 0..(MaxAttempts - 1)]
  BY QueueTyped DEF StorableQueues
<1>2. q \in [DOMAIN q -> 0..MaxAttempts]
  BY <1>1, BounceConstants
<1>3. QED
  BY <1>1, <1>2, QueueMade

LEMMA RealCopies ==
    ASSUME RefusalInv, [BounceNext]_bounceVars
    PROVE  /\ \A j \in DOMAIN bounceQueue : bounceQueue[j] <= refusals'[j]
           /\ \A j \in DOMAIN capture.queue : capture.queue[j] <= refusals'[j]
           /\ \A j \in DOMAIN drain.jobs : drain.jobs[j] <= refusals'[j]
           /\ \A closed \in {ledger, capture.ledger, drain.ledger, NoLedger} :
                \A a \in Addresses : closed[a] = "failed" =>
                  \E j \in Jobs : Address[j] = a /\ refusals'[j] >= MaxAttempts
<1>1. BounceTypeOK /\ CopiesReal
  BY DEF RefusalInv
<1>2. /\ bounceQueue \in Queues(0..MaxAttempts) /\ capture.queue \in Queues(0..MaxAttempts)
      /\ drain.jobs \in Queues(0..MaxAttempts)
  BY <1>1, WorkerParts, StorableIsQueue
<1>3. ledger \in Ledgers /\ capture.ledger \in Ledgers /\ drain.ledger \in Ledgers
  BY <1>1, WorkerParts
<1>4. \A a \in Addresses : NoLedger[a] # "failed"
  BY DEF NoLedger
<1>5. QED
  BY <1>1, <1>2, <1>3, <1>4, StaysReal DEF CopiesReal

LEMMA RefusalStep ==
    ASSUME RefusalInv, [BounceNext]_bounceVars
    PROVE  CopiesReal' /\ RefusedNow'
<1>1. BounceTypeOK /\ CopiesReal /\ RefusedNow
  BY DEF RefusalInv
<1>2. /\ refusals \in [Jobs -> Nat] /\ refusals' \in [Jobs -> Nat]
      /\ \A j \in Jobs : refusals[j] <= refusals'[j]
  BY <1>1, RefusalsGrow
<1>3. AttemptsReal(bounceQueue)'
  <2>1. CASE FromStored(bounceQueue')
    BY <2>1, RealCopies DEF FromStored, AttemptsReal
  <2>2. CASE FromDrain(bounceQueue')
    BY <2>2, RealCopies DEF FromDrain, AttemptsReal
  <2>3. CASE bounceQueue' = Merged(capture.queue, capture.fresh)
    <3>1. /\ DOMAIN bounceQueue' \subseteq DOMAIN capture.queue \cup capture.fresh
          /\ \A j \in DOMAIN bounceQueue' :
               \/ j \in DOMAIN capture.queue /\ bounceQueue'[j] = capture.queue[j]
               \/ bounceQueue'[j] = 0
      BY <1>1, <2>3, WorkerParts, MergedTyped
    <3>2. \A j \in DOMAIN bounceQueue' : j \in Jobs /\ refusals'[j] >= 0
      BY <1>1, <1>2, <3>1, WorkerParts
    <3>3. QED
      BY <3>1, <3>2, RealCopies DEF AttemptsReal
  <2>4. QED
    BY <1>1, <2>1, <2>2, <2>3, StoredQueueStep
<1>4. AttemptsReal(capture.queue)' /\ FailuresReal(capture.ledger)'
  BY <1>1, RealCopies, CaptureStep DEF AttemptsReal, FailuresReal
<1>5. FailuresReal(ledger)'
  BY <1>1, RealCopies, StoredLedgerStep DEF FailuresReal
<1>6. AttemptsReal(drain.jobs)' /\ FailuresReal(drain.ledger)' /\ RefusedNow'
  <2>1. CASE DrainStays
    <3>1. AttemptsReal(drain.jobs)' /\ FailuresReal(drain.ledger)'
      BY <2>1, RealCopies DEF DrainStays, AttemptsReal, FailuresReal
    <3>2. RefusedNow'
      <4> SUFFICES ASSUME AskedAgain'
                   PROVE  drain'.jobs[drain'.job] < refusals'[drain'.job]
        BY DEF RefusedNow
      <4>1. AskedAgain /\ drain'.job = drain.job /\ drain'.jobs = drain.jobs
        BY <2>1 DEF DrainStays
      <4>2. drain.job \in DOMAIN drain.jobs /\ drain.job \in Jobs
        BY <1>1, <4>1, WorkerParts DEF AskedAgain, DrainOK
      <4>3. drain.jobs[drain.job] < refusals[drain.job] /\ drain.jobs[drain.job] \in Nat
        BY <1>1, <4>1, <4>2, DrainParts, WorkerParts, BounceConstants DEF RefusedNow
      <4>4. QED
        BY <1>2, <4>1, <4>2, <4>3
    <3>3. QED
      BY <3>1, <3>2
  <2>2. CASE drain' = Idle
    BY <2>2, IdleTyped, RealCopies
    DEF Idle, AttemptsReal, FailuresReal, RefusedNow, AskedAgain
  <2>3. CASE DrainStart
    <3>1. /\ drain'.jobs = Pending /\ drain'.ledger = ledger
          /\ drain'.pc \in {"clear", "next"}
      BY <2>3 DEF DrainStart, Idle
    <3>2. DOMAIN Pending \subseteq DOMAIN bounceQueue
          /\ \A j \in DOMAIN Pending : Pending[j] = bounceQueue[j]
      BY <1>1, WorkerParts, RestrictTyped DEF Pending, Fresh, StorableQueues
    <3>3. QED
      BY <3>1, <3>2, RealCopies DEF AttemptsReal, FailuresReal, RefusedNow, AskedAgain
  <2>4. CASE BurnAttempt
    <3>1. AskedAgain /\ drain.job \in DOMAIN drain.jobs /\ drain.job \in Jobs
      BY <1>1, <2>4, BurnAttemptTyped, WorkerParts DEF BurnAttempt, AskedAgain
    <3>2. drain.jobs[drain.job] + 1 <= refusals'[drain.job]
      BY <1>1, <1>2, <2>4, <3>1, BurnAttemptTyped DEF RefusedNow
    <3>3. AttemptsReal(drain.jobs)'
      BY <1>1, <2>4, <3>2, BurnAttemptTyped, RealCopies DEF AttemptsReal
    <3>4. FailuresReal(drain.ledger)'
      <4> SUFFICES ASSUME NEW a \in Addresses, drain'.ledger[a] = "failed"
                   PROVE  \E j \in Jobs : Address[j] = a /\ refusals'[j] >= MaxAttempts
        BY DEF FailuresReal
      <4>1. CASE drain.ledger[a] = "failed"
        BY <4>1, RealCopies
      <4>2. CASE a = Address[drain.job] /\ drain.jobs[drain.job] + 1 >= MaxAttempts
        <5>1. refusals'[drain.job] >= MaxAttempts
          <6>1. drain.jobs[drain.job] \in Nat /\ refusals'[drain.job] \in Nat
            BY <1>1, <1>2, <2>4, <3>1, BurnAttemptTyped
          <6>2. QED
            BY <3>2, <4>2, <6>1, BounceConstants
        <5>2. QED
          BY <3>1, <4>2, <5>1
      <4>3. QED
        BY <1>1, <2>4, <4>1, <4>2, BurnAttemptTyped
    <3>5. RefusedNow'
      BY <1>1, <2>4, BurnAttemptTyped DEF RefusedNow, AskedAgain
    <3>6. QED
      BY <3>3, <3>4, <3>5
  <2>5. ASSUME NEW f \in FlowIds, NEW status \in Statuses, Answers(f, status)
        PROVE  AttemptsReal(drain.jobs)' /\ FailuresReal(drain.ledger)' /\ RefusedNow'
    <3>1. /\ drain'.jobs = drain.jobs
          /\ \/ drain' = drain
             \/ /\ drain'.pc = "next"
                /\ \A a \in Addresses : drain'.ledger[a] \in {drain.ledger[a], status}
      BY <1>1, <2>5, AnswerTyped DEF Answers
    <3>2. AttemptsReal(drain.jobs)'
      BY <3>1, RealCopies DEF AttemptsReal
    <3>3. FailuresReal(drain.ledger)'
      BY <2>5, <3>1, RealCopies DEF FailuresReal, Answers
    <3>4. RefusedNow'
      <4>1. CASE drain' = drain
        BY <1>1, <2>5, <4>1 DEF RefusedNow, AskedAgain, Answers, Answer
      <4>2. CASE drain'.pc = "next"
        BY <4>2 DEF RefusedNow, AskedAgain
      <4>3. QED
        BY <3>1, <4>1, <4>2
    <3>5. QED
      BY <3>2, <3>3, <3>4
  <2>6. ASSUME NEW f \in FlowIds, Refuses(f)
        PROVE  AttemptsReal(drain.jobs)' /\ FailuresReal(drain.ledger)' /\ RefusedNow'
    <3>1. /\ drain'.jobs = drain.jobs /\ drain'.ledger = drain.ledger
          /\ drain'.job = drain.job
          /\ Asked(f) => /\ drain.job \in Jobs
                         /\ refusals' = [refusals EXCEPT ![drain.job] = @ + 1]
          /\ ~Asked(f) => drain' = drain /\ refusals' = refusals
      BY <1>1, <2>6, RefusesTyped
    <3>2. AttemptsReal(drain.jobs)' /\ FailuresReal(drain.ledger)'
      BY <3>1, RealCopies DEF AttemptsReal, FailuresReal
    <3>3. RefusedNow'
      <4>1. CASE ~Asked(f)
        BY <1>1, <3>1, <4>1 DEF RefusedNow, AskedAgain
      <4>2. CASE Asked(f)
        <5>1. drain.job \in DOMAIN drain.jobs
          BY <1>1, <4>2, WorkerParts DEF Asked, DrainOK
        <5>2. drain.jobs[drain.job] <= refusals[drain.job] /\ drain.jobs[drain.job] \in Nat
          BY <1>1, <5>1, DrainParts, WorkerParts, BounceConstants
          DEF CopiesReal, AttemptsReal
        <5>3. drain.jobs[drain.job] < refusals'[drain.job]
          BY <1>2, <3>1, <4>2, <5>2
        <5>4. QED
          BY <3>1, <5>3 DEF RefusedNow
      <4>3. QED
        BY <4>1, <4>2
    <3>4. QED
      BY <3>2, <3>3
  <2>7. QED
    BY <1>1, <2>1, <2>2, <2>3, <2>4, <2>5, <2>6, DrainSteps
<1>7. QED
  BY <1>3, <1>4, <1>5, <1>6 DEF CopiesReal

-----------------------------------------------------------------------------
(* One task per address.                                                   *)

Upsets == timeouts + deaths + clicks

(* The page flows drain() does not wait for, and those that found no task. *)
Strays == {f \in FlowIds : flows[f].step # "free" /\ ~Asked(f)}
Creating(a) == {f \in FlowIds : flows[f].step = "create" /\ flows[f].address = a}

TaskInv ==
    /\ BounceTypeOK
    /\ Cardinality(Strays) <= Upsets
    /\ \A a \in Addresses : tasks[a] + Cardinality(Creating(a)) <= 1 + Upsets

LEMMA FlowTyped ==
    ASSUME BounceTypeOK
    PROVE  /\ flows \in [FlowIds -> [step : {"free", "check", "create"}, address : Addresses]]
           /\ tasks \in [Addresses -> Nat]
           /\ timeouts \in Nat /\ deaths \in Nat /\ clicks \in Nat
BY DEF BounceTypeOK, PagesOK, CountsOK

LEMMA FlowsFinite ==
    ASSUME NEW S \in SUBSET FlowIds
    PROVE  /\ IsFiniteSet(S) /\ Cardinality(S) \in Nat
           /\ \A T \in SUBSET S : Cardinality(T) <= Cardinality(S)
           /\ \A f \in S : Cardinality(S \ {f}) = Cardinality(S) - 1
<1>1. IsFiniteSet(FlowIds)
  BY BounceAssumption, FS_Interval DEF FlowIds
<1>2. IsFiniteSet(S) /\ Cardinality(S) \in Nat
  BY <1>1, FS_Subset, FS_CardinalityType
<1>3. \A T \in SUBSET S : Cardinality(T) <= Cardinality(S)
  BY <1>2, FS_Subset
<1>4. \A f \in S : Cardinality(S \ {f}) = Cardinality(S) - 1
  BY <1>2, FS_RemoveElement
<1>5. QED
  BY <1>2, <1>3, <1>4

LEMMA OneMore ==
    ASSUME NEW S \in SUBSET FlowIds, NEW T \in SUBSET FlowIds, NEW f, S \subseteq T \cup {f}
    PROVE  Cardinality(S) <= Cardinality(T) + 1
<1>1. S \ {f} \in SUBSET T /\ S \ {f} \in SUBSET FlowIds
  OBVIOUS
<1>2. /\ Cardinality(S \ {f}) <= Cardinality(T)
      /\ Cardinality(S \ {f}) \in Nat /\ Cardinality(T) \in Nat /\ Cardinality(S) \in Nat
  BY <1>1, FlowsFinite
<1>3. Cardinality(S) <= Cardinality(S \ {f}) + 1
  <2>1. CASE f \in S
    BY <1>2, <2>1, FlowsFinite
  <2>2. CASE f \notin S
    <3>1. S \ {f} = S
      BY <2>2
    <3>2. QED
      BY <1>2, <3>1
  <2>3. QED
    BY <2>1, <2>2
<1>4. QED
  BY <1>2, <1>3

(* A flow becomes a stray by an upset only.                                *)
LEMMA StraysStep ==
    ASSUME BounceTypeOK, [BounceNext]_bounceVars
    PROVE  \/ /\ Strays' \subseteq Strays
              /\ UNCHANGED <<timeouts, deaths, clicks>>
           \/ /\ \E f : Strays' \subseteq Strays \cup {f}
              /\ \/ timeouts' = timeouts + 1 /\ UNCHANGED <<deaths, clicks>>
                 \/ deaths' = deaths + 1 /\ UNCHANGED <<timeouts, clicks>>
                 \/ clicks' = clicks + 1 /\ UNCHANGED <<timeouts, deaths>>
<1> USE DEF Strays, Asked
<1>1. drain \in Drains
  BY WorkerParts
<1>2. CASE /\ UNCHANGED <<flows, timeouts, deaths, clicks>>
           /\ UNCHANGED drain \/ drain.pc # "wait"
  BY <1>2
<1>3. CASE TabTimeout
  <2>1. Strays' \subseteq Strays \cup {drain.flow}
    BY <1>3 DEF TabTimeout
  <2>2. QED
    BY <1>3, <2>1 DEF TabTimeout
<1>4. CASE WorkerDies
  <2>1. Strays' \subseteq Strays \cup {drain.flow}
    BY <1>4 DEF WorkerDies
  <2>2. QED
    BY <1>4, <2>1 DEF WorkerDies
<1>5. ASSUME NEW f \in FlowIds, NEW a \in Addresses, Click(f, a)
      PROVE  /\ Strays' \subseteq Strays \cup {f}
             /\ clicks' = clicks + 1 /\ UNCHANGED <<timeouts, deaths>>
  BY <1>5, FlowTyped DEF Click
<1>6. ASSUME NEW f \in FlowIds, AskTab(f)
      PROVE  Strays' \subseteq Strays /\ UNCHANGED <<timeouts, deaths, clicks>>
  <2>1. drain.pc = "ask" /\ drain'.pc = "wait" /\ drain'.flow = f
    BY <1>1, <1>6 DEF AskTab, Drains
  <2>2. \A g \in FlowIds : g # f => flows'[g] = flows[g]
    BY <1>6, FlowTyped DEF AskTab
  <2>3. QED
    BY <1>6, <2>1, <2>2 DEF AskTab, bounceBudgets
<1>7. ASSUME NEW f \in FlowIds, Unresolved(f) \/ Existing(f) \/ Created(f) \/ Refuses(f)
      PROVE  Strays' \subseteq Strays /\ UNCHANGED <<timeouts, deaths, clicks>>
  <2>1. flows' = [flows EXCEPT ![f] = NoFlow] /\ UNCHANGED <<timeouts, deaths, clicks>>
    BY <1>7 DEF Unresolved, Existing, Created, Answer, Refuses, bounceBudgets
  <2>2. flows'[f].step = "free" /\ \A g \in FlowIds : g # f => flows'[g] = flows[g]
    BY <2>1, FlowFreed
  <2>3. ~Asked(f) => drain' = drain
    BY <1>7 DEF Unresolved, Existing, Created, Answer, Refuses
  <2>4. \A g \in FlowIds : g # f /\ Asked(g) => drain' = drain
    BY <2>3
  <2>5. QED
    BY <2>1, <2>2, <2>4
<1>8. ASSUME NEW f \in FlowIds, CheckedNone(f)
      PROVE  Strays' \subseteq Strays /\ UNCHANGED <<timeouts, deaths, clicks>>
  <2>1. /\ \A g \in FlowIds : flows'[g].step = "free" <=> flows[g].step = "free"
        /\ drain' = drain
    BY <1>8, FlowTyped DEF CheckedNone
  <2>2. QED
    BY <1>8, <2>1 DEF CheckedNone, bounceBudgets
<1>9. QED
  BY <1>2, <1>3, <1>4, <1>5, <1>6, <1>7, <1>8
  DEF BounceNext, bounceVars, bounceBudgets, CaptureRead, CaptureWrite, DrainStart, DrainClear,
      NextJob, NoMoreJobs, TabSilent, NoAnswer, BurnAttempt, DrainWrite, SwitchOff, Expire

(* A task is created by a flow that has looked for one; such a flow joins  *)
(* the others only while the address has no task.                          *)
LEMMA CreatingStep ==
    ASSUME BounceTypeOK, [BounceNext]_bounceVars, NEW a \in Addresses
    PROVE  \/ Creating(a)' \subseteq Creating(a) /\ tasks'[a] = tasks[a]
           \/ /\ \E f \in Creating(a) : Creating(a)' \subseteq Creating(a) \ {f}
              /\ tasks'[a] = tasks[a] + 1
           \/ tasks'[a] = 0
<1> USE DEF Creating
<1>1. tasks \in [Addresses -> Nat]
  BY FlowTyped
<1>2. CASE UNCHANGED <<flows, tasks>>
  BY <1>2
<1>3. ASSUME NEW f \in FlowIds, AskTab(f) \/ \E b \in Addresses : Click(f, b)
      PROVE  Creating(a)' \subseteq Creating(a) /\ tasks'[a] = tasks[a]
  <2>1. /\ flows'[f].step = "check" /\ tasks' = tasks
        /\ \A g \in FlowIds : g # f => flows'[g] = flows[g]
    BY <1>3, FlowTyped DEF AskTab, Click
  <2>2. QED
    BY <2>1
<1>4. ASSUME NEW f \in FlowIds, Unresolved(f) \/ Existing(f) \/ Created(f) \/ Refuses(f)
      PROVE  \/ Creating(a)' \subseteq Creating(a) /\ tasks'[a] = tasks[a]
             \/ /\ f \in Creating(a) /\ Creating(a)' \subseteq Creating(a) \ {f}
                /\ tasks'[a] = tasks[a] + 1
  <2>1. /\ flows' = [flows EXCEPT ![f] = NoFlow]
        /\ \/ tasks' = tasks
           \/ /\ flows[f].step = "create"
              /\ tasks' = [tasks EXCEPT ![flows[f].address] = @ + 1]
    BY <1>4 DEF Unresolved, Existing, Created, Answer, Refuses
  <2>2. flows'[f].step = "free" /\ \A g \in FlowIds : g # f => flows'[g] = flows[g]
    BY <2>1, FlowFreed
  <2>3. Creating(a)' \subseteq Creating(a) \ {f}
    BY <2>2
  <2>4. \/ tasks'[a] = tasks[a]
        \/ f \in Creating(a) /\ tasks'[a] = tasks[a] + 1
    BY <1>1, <2>1
  <2>5. QED
    BY <2>3, <2>4
<1>5. ASSUME NEW f \in FlowIds, CheckedNone(f)
      PROVE  \/ Creating(a)' \subseteq Creating(a) /\ tasks'[a] = tasks[a]
             \/ tasks'[a] = 0
  <2>1. /\ flows'[f].address = flows[f].address /\ tasks[flows[f].address] = 0
        /\ \A g \in FlowIds : g # f => flows'[g] = flows[g]
        /\ tasks' = tasks
    BY <1>5, FlowTyped DEF CheckedNone
  <2>2. QED
    BY <2>1
<1>6. QED
  BY <1>2, <1>3, <1>4, <1>5
  DEF BounceNext, bounceVars, CaptureRead, CaptureWrite, DrainStart, DrainClear,
      NextJob, NoMoreJobs, TabSilent, TabTimeout, NoAnswer, BurnAttempt, DrainWrite, SwitchOff,
      Expire, WorkerDies

LEMMA TaskStep == TaskInv /\ [BounceNext]_bounceVars => TaskInv'
<1> SUFFICES ASSUME TaskInv, [BounceNext]_bounceVars PROVE TaskInv'
  OBVIOUS
<1>0. BounceTypeOK /\ BounceTypeOK'
  BY BounceTypeStep DEF TaskInv
<1>1. /\ Upsets \in Nat /\ Upsets' \in Nat
      /\ Cardinality(Strays) \in Nat /\ Cardinality(Strays') \in Nat
  <2>1. timeouts' \in Nat /\ deaths' \in Nat /\ clicks' \in Nat
    BY <1>0 DEF BounceTypeOK, CountsOK
  <2>2. Strays \in SUBSET FlowIds /\ Strays' \in SUBSET FlowIds
    BY DEF Strays
  <2>3. Cardinality(Strays) \in Nat /\ Cardinality(Strays') \in Nat
    BY <2>2, FlowsFinite
  <2>4. timeouts \in Nat /\ deaths \in Nat /\ clicks \in Nat
    BY <1>0, FlowTyped
  <2>5. Upsets \in Nat
    BY <2>4 DEF Upsets
  <2>6. Upsets' \in Nat
    <3>1. \A i, j, k \in Nat : i + j + k \in Nat
      OBVIOUS
    <3>2. QED
      BY <2>1, <3>1 DEF Upsets
  <2>7. QED
    BY <2>3, <2>5, <2>6
<1>2. Cardinality(Strays') <= Upsets' /\ Upsets <= Upsets'
  <2>1. Strays \in SUBSET FlowIds /\ Strays' \in SUBSET FlowIds
    BY DEF Strays
  <2>2. CASE Strays' \subseteq Strays /\ UNCHANGED <<timeouts, deaths, clicks>>
    <3>1. Cardinality(Strays') <= Cardinality(Strays) /\ Upsets' = Upsets
      BY <2>1, <2>2, FlowsFinite DEF Upsets
    <3>2. QED
      BY <1>1, <3>1 DEF TaskInv
  <2>3. ASSUME NEW f, Strays' \subseteq Strays \cup {f}, Upsets' = Upsets + 1
        PROVE  Cardinality(Strays') <= Upsets'
    <3>1. Cardinality(Strays') <= Cardinality(Strays) + 1
      BY <2>1, <2>3, OneMore
    <3>2. QED
      BY <1>1, <2>3, <3>1 DEF TaskInv
  <2>4. CASE /\ \E f : Strays' \subseteq Strays \cup {f}
             /\ \/ timeouts' = timeouts + 1 /\ UNCHANGED <<deaths, clicks>>
                \/ deaths' = deaths + 1 /\ UNCHANGED <<timeouts, clicks>>
                \/ clicks' = clicks + 1 /\ UNCHANGED <<timeouts, deaths>>
    <3>1. Upsets' = Upsets + 1
      BY <1>0, <2>4, FlowTyped DEF Upsets
    <3>2. QED
      BY <1>1, <2>3, <2>4, <3>1
  <2>5. QED
    BY <1>0, <2>2, <2>4, StraysStep
<1>3. ASSUME NEW a \in Addresses
      PROVE  tasks'[a] + Cardinality(Creating(a)') <= 1 + Upsets'
  <2>1. Creating(a) \in SUBSET FlowIds /\ Creating(a)' \in SUBSET FlowIds
    BY DEF Creating
  <2>2. Cardinality(Creating(a)) \in Nat /\ Cardinality(Creating(a)') \in Nat
        /\ tasks[a] \in Nat
    BY <1>0, <2>1, FlowTyped, FlowsFinite
  <2>3. tasks[a] + Cardinality(Creating(a)) <= 1 + Upsets
    BY DEF TaskInv
  <2>4. CASE Creating(a)' \subseteq Creating(a) /\ tasks'[a] = tasks[a]
    <3>1. Cardinality(Creating(a)') <= Cardinality(Creating(a))
      BY <2>1, <2>4, FlowsFinite
    <3>2. QED
      BY <1>1, <1>2, <2>2, <2>3, <2>4, <3>1
  <2>5. ASSUME NEW f \in Creating(a), Creating(a)' \subseteq Creating(a) \ {f},
               tasks'[a] = tasks[a] + 1
        PROVE  tasks'[a] + Cardinality(Creating(a)') <= 1 + Upsets'
    <3>1. Cardinality(Creating(a) \ {f}) = Cardinality(Creating(a)) - 1
      BY <2>1, FlowsFinite
    <3>2. Cardinality(Creating(a)') <= Cardinality(Creating(a) \ {f})
      <4>1. Creating(a) \ {f} \in SUBSET FlowIds
        BY <2>1
      <4>2. QED
        BY <2>5, <4>1, FlowsFinite
    <3>3. QED
      BY <1>1, <1>2, <2>2, <2>3, <2>5, <3>1, <3>2
  <2>6. CASE tasks'[a] = 0
    <3>1. Creating(a)' \subseteq Strays' \cup {drain'.flow}
      BY DEF Creating, Strays, Asked
    <3>2. Strays' \in SUBSET FlowIds
      BY DEF Strays
    <3>3. Cardinality(Creating(a)') <= Cardinality(Strays') + 1
      BY <2>1, <3>1, <3>2, OneMore
    <3>4. QED
      BY <1>1, <1>2, <2>2, <2>6, <3>3
  <2>7. QED
    BY <1>0, <2>4, <2>5, <2>6, CreatingStep
<1>4. QED
  BY <1>0, <1>2, <1>3 DEF TaskInv

-----------------------------------------------------------------------------
LEMMA BounceInitReal == BounceInit => CopiesDistinct /\ CopiesReal /\ RefusedNow
<1> SUFFICES ASSUME BounceInit PROVE CopiesDistinct /\ CopiesReal /\ RefusedNow
  OBVIOUS
<1>1. /\ DOMAIN bounceQueue = {} /\ DOMAIN capture.queue = {} /\ DOMAIN drain.jobs = {}
      /\ ledger = NoLedger /\ capture.ledger = NoLedger /\ drain.ledger = NoLedger
      /\ drain.pc = "idle"
  BY NoJobsTyped DEF BounceInit, Idle, NoCapture
<1>2. \A a \in Addresses : NoLedger[a] # "failed"
  BY DEF NoLedger
<1>3. QED
  BY <1>1, <1>2 DEF CopiesDistinct, CopiesReal, Distinct, AttemptsReal, FailuresReal,
                    RefusedNow, AskedAgain

LEMMA TaskInit == BounceInit => TaskInv
<1> SUFFICES ASSUME BounceInit PROVE TaskInv
  OBVIOUS
<1>1. BounceTypeOK
  BY BounceTypeInit
<1>2. \A f \in FlowIds : flows[f].step = "free"
  BY FreeFlowTyped DEF BounceInit
<1>3. Strays = {} /\ \A a \in Addresses : Creating(a) = {}
  BY <1>2 DEF Strays, Creating
<1>4. Upsets = 0 /\ \A a \in Addresses : tasks[a] \in {0, 1}
  BY DEF BounceInit, Upsets
<1>5. QED
  BY <1>1, <1>3, <1>4, FS_EmptySet DEF TaskInv

(* What the queue, the ledger, a wake and the pages hold stays well formed:*)
(* no stored job has used up its attempts, a wake works on jobs of its     *)
(* copy that are not settled, no task is created for an address without a  *)
(* contact (lib/bounce-queue.js, bounce-flag.entry.js).                    *)
THEOREM BouncesTypeCorrect == BounceSpec => []BounceTypeOK
BY BounceTypeInit, BounceTypeStep, PTL DEF BounceSpec

(* "The same dead address bouncing off three sent emails is one piece of   *)
(* work": however captures and drains overwrite each other's queue, it     *)
(* never holds two jobs for one address.                                   *)
THEOREM OneJobEach == BounceSpec => []OneJobPerAddress
<1>1. BounceInit => DistinctInv
  BY BounceTypeInit, BounceInitReal DEF DistinctInv
<1>2. DistinctInv /\ [BounceNext]_bounceVars => DistinctInv'
  BY BounceTypeStep, DistinctStep DEF DistinctInv
<1>3. DistinctInv => OneJobPerAddress
  BY DEF DistinctInv, CopiesDistinct, OneJobPerAddress
<1>4. QED
  BY <1>1, <1>2, <1>3, PTL DEF BounceSpec

(* "Only a tab that answered 'I could not' burns an attempt", for every    *)
(* number of jobs, tabs, flows, kills and timeouts.                        *)
THEOREM AttemptsAreRefusals == BounceSpec => []OnlyRefusalsBurnAttempts
<1>1. BounceInit => RefusalInv
  BY BounceTypeInit, BounceInitReal DEF RefusalInv
<1>2. RefusalInv /\ [BounceNext]_bounceVars => RefusalInv'
  BY BounceTypeStep, RefusalStep DEF RefusalInv
<1>3. RefusalInv => OnlyRefusalsBurnAttempts
  BY DEF RefusalInv, CopiesReal, AttemptsReal, FailuresReal, OnlyRefusalsBurnAttempts
<1>4. QED
  BY <1>1, <1>2, <1>3, PTL DEF BounceSpec

(* Rules 1 to 3, however slow pages are, often the worker dies or the rep  *)
(* clicks: beyond the first task of an address there is at most one for    *)
(* every flow drain() did not wait for to its end, whatever errors the CRM *)
(* answers (some of them after it created the task).                       *)
THEOREM OneTask == BounceSpec => []SingleTask
<1>1. TaskInv => SingleTask
  <2> SUFFICES ASSUME TaskInv, NEW a \in Addresses
               PROVE  tasks[a] <= 1 + timeouts + deaths + clicks
    BY DEF SingleTask
  <2>1. BounceTypeOK /\ tasks[a] + Cardinality(Creating(a)) <= 1 + Upsets
    BY DEF TaskInv
  <2>2. Cardinality(Creating(a)) \in Nat
    BY FlowsFinite DEF Creating
  <2>3. QED
    BY <2>1, <2>2, FlowTyped DEF Upsets
<1>2. QED
  BY <1>1, TaskInit, TaskStep, PTL DEF BounceSpec
=============================================================================
