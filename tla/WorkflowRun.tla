---------------------------- MODULE WorkflowRun ----------------------------
(***************************************************************************)
(* src/lib/workflow/codeRunner.js as src/modals/WorkflowManager.jsx drives *)
(* it: an automation program run over an audience.                         *)
(*                                                                         *)
(* A run takes one contact after the other, loads its record, lets the     *)
(* sandbox turn the program into a trace and replays the trace as writes   *)
(* to the CRM, paced and up to a cap.  Pause and stop are two flags that   *)
(* the run looks at between its awaits.  The flags belong to the manager   *)
(* and not to the run: every start of a run replaces them, whether or not  *)
(* the run before has seen its stop.  (Closing the manager is as if the    *)
(* rep clicked no more: nothing tells the run.)                            *)
(*                                                                         *)
(* The delay between two writes is never zero (the slider starts at one    *)
(* second); what matters of it is whether a click falls before its last    *)
(* slice or into it.  The audience comes in the order the run takes it in. *)
(***************************************************************************)
EXTENDS Integers, Sequences, FiniteSets

CONSTANTS Contacts,    \* contacts
          Audience,    \* the ordered audience
          MaxRuns,     \* bound: starts of a run
          Cap,         \* sendCap; 0 is unlimited
          MaxWrites,   \* bound: writes in the trace of one contact
          Traces,      \* the numbers of writes the traces have
          MaxMishaps   \* bound: failures and clicks on pause

ASSUME WorkflowAssumption ==
    /\ IsFiniteSet(Contacts) /\ Audience \in Seq(Contacts)
    /\ \A i, j \in DOMAIN Audience : Audience[i] = Audience[j] => i = j
    /\ Cap \in Nat
    /\ {MaxRuns, MaxWrites, MaxMishaps} \subseteq Nat /\ Traces \subseteq 0..MaxWrites

VARIABLES
    screen,   \* what the manager shows: "edit", "running" or "complete"
    control,  \* its controlRef.current
    lastArgs, \* whether the run started last is live (its lastArgsRef)
    run,      \* the runs
    result,   \* the summary each run gave of each contact
    written,  \* the writes the CRM has carried out: run, contact, number
    mishaps   \* failures and clicks on pause so far

vars == <<screen, control, lastArgs, run, result, written, mishaps>>

Runs == 1..MaxRuns

Fresh == [paused |-> FALSE, stopped |-> FALSE]

(* What a run starts with.  The last line is history: lost counts writes   *)
(* it took for failed although the CRM carried them out, held those sent   *)
(* since a click on pause that still holds, late those sent while its      *)
(* flags say stop, the first write of the run excepted, and told remembers *)
(* that the rep stopped it.                                                *)
NewRun(live) ==
    [pc |-> "loop", live |-> live, left |-> Audience,
     effects |-> 0, attempted |-> FALSE,
     contact |-> "none", writes |-> 0, ran |-> FALSE, failed |-> FALSE, gaps |-> FALSE,
     lost |-> 0, held |-> 0, late |-> 0, told |-> FALSE]

Idle == [NewRun(FALSE) EXCEPT !.pc = "idle"]

Init ==
    /\ screen = "edit"
    /\ control = Fresh
    /\ lastArgs = TRUE
    /\ run = [r \in Runs |-> Idle]
    /\ result = [r \in Runs |-> [c \in Contacts |-> "none"]]
    /\ written = {}
    /\ mishaps = 0

Unused(r) == run[r] = Idle /\ \A q \in Runs : q < r => run[q] # Idle
Active(r) == run[r].pc \notin {"idle", "confirmed", "ended"}
Mishap    == mishaps < MaxMishaps /\ mishaps' = mishaps + 1
-----------------------------------------------------------------------------
(* The rep and the manager.                                                *)

(* start() of useCodeRunner().                                             *)
Starts(r, live) ==
    /\ control' = Fresh
    /\ lastArgs' = live
    /\ screen' = "running"
    /\ run' = [run EXCEPT ![r] = NewRun(live)]

(* A dry run begins at once, and may be run again when it is complete.     *)
StartDry(r) ==
    /\ Unused(r)
    /\ \/ screen = "edit"
       \/ screen = "complete" /\ ~lastArgs
    /\ Starts(r, FALSE)
    /\ UNCHANGED <<result, written, mishaps>>

(* A real one is confirmed and waits for the mail settings and the         *)
(* employee id; nothing keeps the rep from other clicks meanwhile.         *)
Confirm(r) ==
    /\ Unused(r)
    /\ screen = "edit"
    /\ run' = [run EXCEPT ![r].pc = "confirmed"]
    /\ UNCHANGED <<screen, control, lastArgs, result, written, mishaps>>

DepsReady(r) ==
    /\ run[r].pc = "confirmed"
    /\ Starts(r, TRUE)
    /\ UNCHANGED <<result, written, mishaps>>

Pause ==
    /\ screen = "running" /\ ~control.paused
    /\ Mishap
    /\ control' = [control EXCEPT !.paused = TRUE]
    /\ run' = [r \in Runs |-> IF Active(r) THEN [run[r] EXCEPT !.held = 0] ELSE run[r]]
    /\ UNCHANGED <<screen, lastArgs, result, written>>

Resume ==
    /\ screen \in {"running", "complete"} /\ control.paused
    /\ control' = [control EXCEPT !.paused = FALSE]
    /\ UNCHANGED <<screen, lastArgs, run, result, written, mishaps>>

(* "Stop & edit", and "Back to workflows" when the run is complete.        *)
StopAndEdit ==
    /\ screen \in {"running", "complete"}
    /\ control' = [control EXCEPT !.stopped = TRUE]
    /\ screen' = "edit"
    /\ run' = [r \in Runs |-> IF Active(r) THEN [run[r] EXCEPT !.told = TRUE] ELSE run[r]]
    /\ UNCHANGED <<lastArgs, result, written, mishaps>>
-----------------------------------------------------------------------------
(* runCodeWorkflow().                                                      *)

screens == <<screen, control, lastArgs>>

Goes(r, next) == run' = [run EXCEPT ![r] = next]

(* History: counts to two.                                                 *)
Tally(count, condition) == IF condition /\ count < 2 THEN count + 1 ELSE count

Capped(r) == Cap > 0 /\ run[r].effects >= Cap

(* The summary of the contact, and on to the next one.                     *)
Done(r, status) ==
    /\ result' = [result EXCEPT ![r][run[r].contact] = status]
    /\ Goes(r, [run[r] EXCEPT !.pc = "loop", !.contact = "none",
                              !.ran = FALSE, !.failed = FALSE, !.gaps = FALSE])

(* The output of the run: the manager says complete unless the flags say   *)
(* stop.                                                                   *)
Ends(r) ==
    /\ Goes(r, [Idle EXCEPT !.pc = "ended", !.live = run[r].live,
                            !.lost = run[r].lost, !.told = run[r].told])
    /\ screen' = IF screen = "running" /\ ~control.stopped
                 THEN "complete" ELSE screen
    /\ UNCHANGED <<control, lastArgs, written, mishaps>>

(* Mutant: the contacts behind the cap get no summary.                     *)
LoopCappedSilently(r) ==
    /\ run[r].pc = "loop" /\ ~control.stopped /\ run[r].left # <<>>
    /\ Capped(r)
    /\ Ends(r)
    /\ UNCHANGED result

(* Behind the cap every remaining contact is summed up as skipped.         *)
LoopCapped(r) ==
    /\ run[r].pc = "loop" /\ ~control.stopped /\ run[r].left # <<>>
    /\ Capped(r)
    /\ result' = [result EXCEPT ![r] = [c \in Contacts |->
           IF \E i \in DOMAIN run[r].left : run[r].left[i] = c THEN "skipped" ELSE @[c]]]
    /\ Ends(r)

(* Mutant: a paused run waits for the resume only.                         *)
LoopEndsUnpaused(r) ==
    /\ run[r].pc = "loop" /\ ~control.paused
    /\ control.stopped \/ run[r].left = <<>>
    /\ Ends(r)
    /\ UNCHANGED result

LoopEnds(r) ==
    /\ run[r].pc = "loop"
    /\ control.stopped \/ run[r].left = <<>>
    /\ Ends(r)
    /\ UNCHANGED result

(* The next contact, once the run is not paused.                           *)
TakesContact(r) ==
    /\ run[r].pc = "loop" /\ ~control.stopped /\ ~Capped(r)
    /\ ~control.paused
    /\ run[r].left # <<>>
    /\ Goes(r, [run[r] EXCEPT !.pc = "prepare", !.left = Tail(@), !.contact = Head(run[r].left)])
    /\ UNCHANGED <<screens, result, written, mishaps>>

(* prepareContact(), and the sandbox makes the trace of the program; no    *)
(* flag is looked at in between.  A template that the program evaluates is *)
(* an entry of its own, which is counted with the writes that ran.         *)
Prepared(r) ==
    /\ run[r].pc = "prepare"
    /\ \E n \in Traces, evaluates \in BOOLEAN :
           Goes(r, [run[r] EXCEPT !.pc = "record", !.writes = n, !.ran = evaluates])
    /\ UNCHANGED <<screens, result, written, mishaps>>

(* A delivery guard excludes the contact, by what its record says.         *)
Guarded(r) ==
    /\ run[r].pc = "prepare"
    /\ Done(r, "skipped")
    /\ UNCHANGED <<screens, written, mishaps>>

(* The record cannot be loaded, or the program throws in the sandbox,      *)
(* which is before any write of it.                                        *)
ContactFails(r) ==
    /\ run[r].pc = "prepare"
    /\ Mishap
    /\ Done(r, "failed")
    /\ UNCHANGED <<screens, written>>
-----------------------------------------------------------------------------
(* record() of one write of the trace, with beforeEffect().                *)

(* The write is skipped.                                                   *)
Skipped(r) == Goes(r, [run[r] EXCEPT !.pc = "record", !.writes = @ - 1, !.gaps = TRUE])

(* It is allowed: sent, or skipped after all because it needs the result   *)
(* of an earlier one that failed or was skipped.                           *)
Allowed(r) ==
    \/ Goes(r, [run[r] EXCEPT !.pc = "act", !.attempted = TRUE,
                   !.held = Tally(@, control.paused),
                   !.late = Tally(@, control.stopped /\ run[r].attempted)])
    \/ /\ run[r].gaps
       /\ Goes(r, [run[r] EXCEPT !.pc = "record", !.attempted = TRUE, !.writes = @ - 1])

(* Its input does not pass the check of its contract, which may be for     *)
(* want of the result of an earlier write.                                 *)
Invalid(r) ==
    /\ run[r].pc = "record" /\ run[r].writes > 0
    /\ \/ /\ Mishap
          /\ Goes(r, [run[r] EXCEPT !.writes = @ - 1, !.failed = TRUE, !.gaps = TRUE])
       \/ /\ run[r].gaps /\ run[r].live
          /\ Skipped(r)
          /\ UNCHANGED mishaps
    /\ UNCHANGED <<screens, result, written>>

(* Mutant: the cap is looked at between contacts only.                     *)
RecordUncapped(r) ==
    /\ run[r].pc = "record" /\ run[r].live /\ run[r].writes > 0
    /\ IF run[r].attempted THEN Goes(r, [run[r] EXCEPT !.pc = "delay"])
       ELSE Allowed(r)
    /\ UNCHANGED <<screens, result, written, mishaps>>

(* Up to the cap; the first write of a run is not paced.                   *)
Record(r) ==
    /\ run[r].pc = "record" /\ run[r].live /\ run[r].writes > 0
    /\ IF Capped(r) THEN Skipped(r)
       ELSE IF run[r].attempted THEN Goes(r, [run[r] EXCEPT !.pc = "delay"])
       ELSE Allowed(r)
    /\ UNCHANGED <<screens, result, written, mishaps>>

(* A dry run counts the writes of the trace and looks at no flag.          *)
RecordDry(r) ==
    /\ run[r].pc = "record" /\ ~run[r].live /\ run[r].writes > 0
    /\ LET room == IF Cap = 0 THEN MaxWrites ELSE Cap - run[r].effects
           n    == IF run[r].writes < room THEN run[r].writes ELSE room
       IN  Goes(r, [run[r] EXCEPT !.writes = 0, !.ran = @ \/ n > 0, !.effects = @ + n])
    /\ UNCHANGED <<screens, result, written, mishaps>>

(* pauseAwareDelay(): pause holds it before each slice, stop ends it.      *)
DelayStops(r) ==
    /\ run[r].pc \in {"delay", "slice"}
    /\ control.stopped
    /\ Skipped(r)
    /\ UNCHANGED <<screens, result, written, mishaps>>

(* Mutant: pause is looked at before the delay only.                       *)
DelaySliceAnyway(r) ==
    /\ run[r].pc = "delay"
    /\ ~control.stopped
    /\ Goes(r, [run[r] EXCEPT !.pc = "slice"])
    /\ UNCHANGED <<screens, result, written, mishaps>>

DelaySlice(r) ==
    /\ run[r].pc = "delay"
    /\ ~control.stopped /\ ~control.paused
    /\ Goes(r, [run[r] EXCEPT !.pc = "slice"])
    /\ UNCHANGED <<screens, result, written, mishaps>>

(* Mutant: the delay ends without a last look at stop.                     *)
DelayElapsesBlindly(r) ==
    /\ run[r].pc = "slice"
    /\ Allowed(r)
    /\ UNCHANGED <<screens, result, written, mishaps>>

DelayElapses(r) ==
    /\ run[r].pc = "slice"
    /\ ~control.stopped
    /\ Allowed(r)
    /\ UNCHANGED <<screens, result, written, mishaps>>

Write(r) == <<r, run[r].contact, run[r].writes>>

(* The answer to a write: carried out, refused, or carried out with the    *)
(* answer lost.  Only the first counts as an effect.                       *)
Answered(r) ==
    /\ run[r].pc = "act"
    /\ written' = written \cup {Write(r)}
    /\ Goes(r, [run[r] EXCEPT !.pc = "record", !.writes = @ - 1, !.ran = TRUE, !.effects = @ + 1])
    /\ UNCHANGED <<screens, result, mishaps>>

Refused(r) ==
    /\ run[r].pc = "act"
    /\ Mishap
    /\ \/ /\ written' = written \cup {Write(r)}
          /\ Goes(r, [run[r] EXCEPT !.pc = "record", !.writes = @ - 1,
                                    !.failed = TRUE, !.gaps = TRUE, !.lost = @ + 1])
       \/ /\ UNCHANGED written
          /\ Goes(r, [run[r] EXCEPT !.pc = "record", !.writes = @ - 1,
                                    !.failed = TRUE, !.gaps = TRUE])
    /\ UNCHANGED <<screens, result>>

TraceEnds(r) ==
    /\ run[r].pc = "record" /\ run[r].writes = 0
    /\ Done(r, IF run[r].failed THEN "failed" ELSE IF run[r].ran THEN "sent" ELSE "skipped")
    /\ UNCHANGED <<screens, written, mishaps>>
-----------------------------------------------------------------------------
Steps(r) ==
    \/ DepsReady(r)
    \/ LoopEnds(r) \/ LoopCapped(r) \/ TakesContact(r)
    \/ Prepared(r) \/ Guarded(r) \/ ContactFails(r)
    \/ Invalid(r) \/ Record(r) \/ RecordDry(r)
    \/ DelayStops(r) \/ DelaySlice(r) \/ DelayElapses(r)
    \/ Answered(r) \/ Refused(r) \/ TraceEnds(r)

Next ==
    \/ \E r \in Runs : StartDry(r) \/ Confirm(r) \/ Steps(r)
    \/ Pause \/ Resume \/ StopAndEdit

Spec == Init /\ [][Next]_vars

(* Every await of a run is answered and its timers fire; the rep need not  *)
(* do anything.  One of the runs going on is enough: they have finitely    *)
(* many steps.                                                             *)
FairSpec == Spec /\ WF_vars(\E r \in Runs : Steps(r))
-----------------------------------------------------------------------------
Statuses == {"none", "failed", "skipped", "sent"}

RunType ==
    [pc : {"idle", "confirmed", "loop", "prepare", "record", "delay", "slice", "act", "ended"},
     live : BOOLEAN, left : Seq(Contacts), effects : Nat, attempted : BOOLEAN,
     contact : Contacts \cup {"none"}, writes : 0..MaxWrites, ran : BOOLEAN, failed : BOOLEAN,
     gaps : BOOLEAN, lost : Nat, held : 0..2, late : 0..2, told : BOOLEAN]

TypeOK ==
    /\ screen \in {"edit", "running", "complete"}
    /\ control \in [paused : BOOLEAN, stopped : BOOLEAN]
    /\ lastArgs \in BOOLEAN
    /\ run \in [Runs -> RunType]
    /\ result \in [Runs -> [Contacts -> Statuses]]
    /\ written \subseteq Runs \X Contacts \X (1..MaxWrites)
    /\ mishaps \in 0..MaxMishaps

(* A run writes no more than its cap, except in place of writes that it    *)
(* took for failed: the check before a write, with the ones in between     *)
(* answered late, lost or refused (beforeEffect, onEffect).                *)
CapKept ==
    \A r \in Runs : Cap > 0 =>
        Cardinality({w \in written : w[1] = r}) <= Cap + run[r].lost

(* While its flags say stop a run sends no write, unless that is its very  *)
(* first one: beforeEffect looks at stop in the delay only.                *)
StopIsPrompt ==
    \A r \in Runs : run[r].late = 0

(* After a click on pause a run sends at most one write until the resume:  *)
(* the first one or the one whose last slice of delay had begun.           *)
PauseIsPrompt ==
    \A r \in Runs : run[r].held <= 1

(* The summaries are true: no write was carried out for a contact that is  *)
(* skipped, and a run that ends on its own has summed up every contact.    *)
SummariesAreTrue ==
    \A r \in Runs :
        /\ \A c \in Contacts : result[r][c] = "skipped" =>
               ~\E w \in written : w[1] = r /\ w[2] = c
        /\ run[r].pc = "ended" /\ ~run[r].told =>
               \A i \in DOMAIN Audience : result[r][Audience[i]] # "none"

(* The runs under way end, unless they are left paused.                    *)
RunEnds ==
    (\E r \in Runs : Active(r)) ~>
        (\A r \in Runs : ~Active(r)) \/ (control.paused /\ ~control.stopped)
=============================================================================
