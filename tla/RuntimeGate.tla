----------------------------- MODULE RuntimeGate -----------------------------
(***************************************************************************)
(* The access decision of one installation: lib/runtime-bootstrap.js with  *)
(* lib/runtime-state.js and lib/runtime-scripts.js, the closing and asking *)
(* that lib/installation-auth.js does when any other API call is answered  *)
(* 401 or 403, and the two readers of the decision: the pages, which read  *)
(* the stored record, and the worker's message listener, which reads       *)
(* openState.                                                              *)
(*                                                                         *)
(* A decision is read from storage in one task and flipped and written in  *)
(* a later one, so passes interleave between the two; the flip and the     *)
(* call of the write are in one task.  A write that the browser refuses    *)
(* resolves like one it took, so the worker then acts on a decision that   *)
(* the pages never see.  Time is a clock that moves by whole parts of the  *)
(* grace period.  The helper flag, the record's format and the migration   *)
(* of the previous slot are left out.                                      *)
(***************************************************************************)
EXTENDS Naturals

CONSTANTS
    Starts,      \* concurrent runs of start(): worker load, onInstalled, onStartup
    Fresh,       \* the installation has no record yet
    Grace,       \* INTERVAL * CAPACITY: 48 hours, in clock units
    MaxClock,    \* bound on the clock
    MaxFlips,    \* bound: times an administrator changes the key
    MaxFaults,   \* bound: health checks that fail for a passing reason
    MaxRefused,  \* bound: writes of the record that the browser refuses
    MaxStray,    \* bound: 401 and 403 answers of other API calls
    MaxRestarts  \* bound: ends of the service worker

ASSUME GateConstants ==
    /\ Grace \in Nat \ {0} /\ MaxClock \in Nat \ {0}
    /\ {MaxFlips, MaxFaults, MaxRefused, MaxStray, MaxRestarts} \subseteq Nat
    /\ Fresh \in BOOLEAN /\ Starts # {}

VARIABLES
    enabled,    \* the backend: the key of this installation is enabled
    record,     \* gbRuntimeState: [has, open, stamp]
    openState,  \* runtime-scripts.js: the worker's copy of the decision, by which
                \* background.js serves or refuses a message
    start,      \* start[i] = [pc, prev]: the runs of start()
    sync,       \* [pc, answer, prev, at]: `pending`, the health check under way
    closer,     \* [pc, prev]: a close() called outside the health check
    clock, count,
    lastYes,    \* history: the clock when the worker last took a yes of the backend
    denied,     \* history: the backend said disabled since it last said enabled
    unsaved     \* history: the write of the last decision was refused

vars == <<enabled, record, openState, start, sync, closer, clock, count, lastYes, denied,
          unsaved>>
world    == <<enabled, clock>>
decision == <<openState, record, unsaved>>

NoRecord == [has |-> FALSE, open |-> FALSE, stamp |-> 0]
Decision(open, stamp) == [has |-> TRUE, open |-> open, stamp |-> stamp]
Idle == [pc |-> "none", prev |-> NoRecord]
NoSync == [pc |-> "none", answer |-> "none", prev |-> NoRecord, at |-> 0]

\* The clock starts at 1: a stamp of 0 is no stamp.
Init ==
    /\ enabled = TRUE
    /\ record = IF Fresh THEN NoRecord ELSE Decision(TRUE, 1)
    /\ openState = FALSE
    /\ start = [i \in Starts |-> [Idle EXCEPT !.pc = "called"]]
    /\ sync = NoSync /\ closer = Idle
    /\ clock = 1
    /\ count = [flips |-> 0, faults |-> 0, refused |-> 0, stray |-> 0, restarts |-> 0]
    /\ lastYes = IF Fresh THEN 0 ELSE 1
    /\ denied = FALSE /\ unsaved = FALSE

Spend(what) == count' = [count EXCEPT ![what] = @ + 1]

\* runtime-state.js reusable: the worker trusts an open record for 48 hours.
Reusable(r) == r.has /\ r.open /\ r.stamp # 0 /\ clock - r.stamp < Grace

\* main.js and popup.jsx: the pages' gate, which fails open.
PageAllowed(r) == r.has => r.open /\ (r.stamp = 0 \/ clock - r.stamp < Grace)

\* The decision is flipped in memory and written, unless the browser refuses the write.
Decide(open, stamp) ==
    /\ openState' = open
    /\ \/ record' = Decision(open, stamp) /\ unsaved' = FALSE /\ UNCHANGED count
       \/ /\ count.refused < MaxRefused /\ Spend("refused")
          /\ UNCHANGED record /\ unsaved' = TRUE

\* The worker is closed without a word to the pages.
StayClosed == openState' = FALSE /\ UNCHANGED <<record, unsaved, count>>

----------------------------------------------------------------------------
(* The backend and time *)

KeyChanges ==
    /\ count.flips < MaxFlips
    /\ enabled' = ~enabled
    /\ Spend("flips")
    /\ UNCHANGED <<decision, start, sync, closer, clock, lastYes, denied>>

Tick ==
    /\ clock < MaxClock
    /\ clock' = clock + 1
    /\ UNCHANGED <<enabled, decision, start, sync, closer, count, lastYes, denied>>

----------------------------------------------------------------------------
(* sync: one health check at a time *)

\* A caller of sync() starts the check, or shares the one under way.
AskHealth == sync' = IF sync.pc = "none" THEN [NoSync EXCEPT !.pc = "asked"] ELSE sync

\* Mutant: the alarm is honoured only while the gate is open.
AlarmWhileOpen ==
    /\ sync.pc = "none" /\ openState
    /\ AskHealth
    /\ UNCHANGED <<decision, start, closer, lastYes, denied, count, world>>
\* The three-minute alarm.
Alarm ==
    /\ sync.pc = "none"
    /\ AskHealth
    /\ UNCHANGED <<decision, start, closer, lastYes, denied, count, world>>

\* The health endpoint answers: by a payload, or by 403 extension_disabled.
Answered ==
    /\ sync.pc = "asked"
    /\ sync' = [sync EXCEPT !.pc = "answered", !.answer = IF enabled THEN "yes" ELSE "no"]
    /\ denied' = ~enabled
    /\ UNCHANGED <<decision, start, closer, lastYes, count, world>>

\* Any other error, a 401 or 429 included, leaves the decision alone.
CheckFails ==
    /\ sync.pc = "asked" /\ count.faults < MaxFaults
    /\ sync' = NoSync
    /\ Spend("faults")
    /\ UNCHANGED <<enabled, decision, start, closer, clock, lastYes, denied>>

\* The answer is taken: accept notes the time, and both read the record first.
SyncReads ==
    /\ sync.pc = "answered"
    /\ sync' = [sync EXCEPT !.pc = "read", !.prev = record, !.at = clock]
    /\ lastYes' = IF sync.answer = "yes" THEN clock ELSE lastYes
    /\ UNCHANGED <<decision, start, closer, denied, count, world>>

\* accept: open, stamped with the time of the check.
Accept ==
    /\ sync.pc = "read" /\ sync.answer = "yes"
    /\ Decide(TRUE, sync.at)
    /\ sync' = NoSync
    /\ UNCHANGED <<start, closer, lastYes, denied, world>>

\* close, for a check that was denied: the stamp of the record stays.
Revoke ==
    /\ sync.pc = "read" /\ sync.answer = "no"
    /\ Decide(FALSE, sync.prev.stamp)
    /\ sync' = NoSync
    /\ UNCHANGED <<start, closer, lastYes, denied, world>>

----------------------------------------------------------------------------
(* Other API calls *)

\* A 401: close() runs beside whatever health check is under way.
Stray401 ==
    /\ count.stray < MaxStray /\ closer.pc = "none"
    /\ closer' = [pc |-> "read", prev |-> record]
    /\ Spend("stray")
    /\ UNCHANGED <<enabled, decision, start, sync, clock, lastYes, denied>>

\* Mutant: the record is closed and the worker is not.
CloserPersists ==
    /\ closer.pc = "read"
    /\ record' = Decision(FALSE, closer.prev.stamp)
    /\ closer' = Idle
    /\ UNCHANGED <<openState, unsaved, start, sync, lastYes, denied, count, world>>

CloserCloses ==
    /\ closer.pc = "read"
    /\ Decide(FALSE, closer.prev.stamp)
    /\ closer' = Idle
    /\ UNCHANGED <<start, sync, lastYes, denied, world>>

\* A 403 asks the health endpoint.
Stray403 ==
    /\ count.stray < MaxStray
    /\ AskHealth
    /\ Spend("stray")
    /\ UNCHANGED <<enabled, decision, start, closer, clock, lastYes, denied>>

----------------------------------------------------------------------------
(* start: the worker loads, is installed, or starts with the browser *)

StartReads(i) ==
    /\ start[i].pc = "called"
    /\ start' = [start EXCEPT ![i] = [pc |-> "read", prev |-> record]]
    /\ UNCHANGED <<decision, sync, closer, lastYes, denied, count, world>>

\* Mutants: the stamp of a reused record is renewed; a reused record needs no check.
StartRenews(i) ==
    LET prev == start[i].prev
    IN  /\ start[i].pc = "read"
        /\ IF Reusable(prev) THEN Decide(TRUE, clock) ELSE StayClosed
        /\ start' = [start EXCEPT ![i] = Idle]
        /\ AskHealth
        /\ UNCHANGED <<closer, lastYes, denied, world>>
StartTrusts(i) ==
    LET prev == start[i].prev
    IN  /\ start[i].pc = "read"
        /\ IF Reusable(prev) THEN Decide(TRUE, prev.stamp) /\ UNCHANGED sync
                             ELSE StayClosed /\ AskHealth
        /\ start' = [start EXCEPT ![i] = Idle]
        /\ UNCHANGED <<closer, lastYes, denied, world>>
\* A record that is still good is used before the check; otherwise the worker
\* stays closed and the record as it is.
StartDecides(i) ==
    LET prev == start[i].prev
    IN  /\ start[i].pc = "read"
        /\ IF Reusable(prev) THEN Decide(TRUE, prev.stamp) ELSE StayClosed
        /\ start' = [start EXCEPT ![i] = Idle]
        /\ AskHealth
        /\ UNCHANGED <<closer, lastYes, denied, world>>

\* The worker ends and is loaded again: openState is false until start is done.
Restart ==
    /\ count.restarts < MaxRestarts
    /\ openState' = FALSE
    /\ start' = [i \in Starts |-> [Idle EXCEPT !.pc = "called"]]
    /\ sync' = NoSync /\ closer' = Idle
    /\ Spend("restarts")
    /\ UNCHANGED <<enabled, record, unsaved, clock, lastYes, denied>>

SyncNext == Answered \/ SyncReads \/ Accept \/ Revoke
StartNext == \E i \in Starts : StartReads(i) \/ StartDecides(i)
Next ==
    \/ KeyChanges \/ Tick \/ Alarm \/ SyncNext \/ CheckFails
    \/ Stray401 \/ CloserCloses \/ Stray403 \/ StartNext \/ Restart

Spec == Init /\ [][Next]_vars

\* The alarm goes off again and again, checks and passes end.
Fairness == WF_vars(Alarm) /\ WF_vars(SyncNext) /\ WF_vars(StartNext) /\ WF_vars(CloserCloses)
FairSpec == Spec /\ Fairness

----------------------------------------------------------------------------
(* Properties *)

Records == [has : BOOLEAN, open : BOOLEAN, stamp : 0 .. MaxClock]
Quiet == sync = NoSync /\ closer = Idle /\ \A i \in Starts : start[i] = Idle

\* Types; a record is open only with the stamp of a check.
FlagsOK ==
    enabled \in BOOLEAN /\ openState \in BOOLEAN /\ denied \in BOOLEAN /\ unsaved \in BOOLEAN
PassesOK ==
    /\ start \in [Starts -> [pc : {"none", "called", "read"}, prev : Records]]
    /\ sync \in [pc : {"none", "asked", "answered", "read"}, answer : {"none", "yes", "no"},
                 prev : Records, at : 0 .. MaxClock]
    /\ closer \in [pc : {"none", "read"}, prev : Records]
ClockOK == clock \in 1 .. MaxClock /\ lastYes \in 0 .. clock
CountOK == count \in [{"flips", "faults", "refused", "stray", "restarts"} -> Nat]
RecordOK == record \in Records /\ (record.open => record.stamp > 0)
TypeOK == FlagsOK /\ RecordOK /\ PassesOK /\ ClockOK /\ CountOK

\* runtime-bootstrap.js:91-99: using a record offline never renews it.  The
\* grace period is counted from an answer of the backend.
StampIsVerified == record.stamp <= lastYes

\* Without a failed check the worker and the record are brought together again.
NoFault == count.faults = 0

\* A revocation the worker has heard is in force when the passes are over, whatever
\* older record a start wrote back and whatever restarts or closes came between; the
\* record is closed too, unless the write of that very decision was refused.
RevocationHolds == NoFault /\ Quiet /\ denied => ~openState /\ (~record.open \/ unsaved)

\* The worker serves nobody whom the record shuts out, unless the write of its last
\* decision was refused: start, accept and close flip what they go on to write, and
\* none of them leaves an older flip behind a newer record.
ClosedIsClosed == Quiet /\ openState => record.open \/ unsaved

\* The decision follows the backend: in the end the worker and the pages' gate say
\* what the key says, although a write was refused that nobody looks at.
GateFollowsKey ==
    /\ <>[]enabled => <>[](openState /\ PageAllowed(record))
    /\ <>[]~enabled => <>[](~openState /\ ~PageAllowed(record))
=============================================================================
