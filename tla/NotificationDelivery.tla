------------------------ MODULE NotificationDelivery ------------------------
(***************************************************************************)
(* The service worker's notification cursor: lib/notifications-poll.js     *)
(* (poll, processResult, the loop and its alarm) with what it calls, the   *)
(* live-update applier (lib/live-updates.js applyAll), the durable cache   *)
(* (lib/notifications-store.js mergeRemote) and the capture of bounce work *)
(* (lib/bounce-queue.js capture).                                          *)
(*                                                                         *)
(* One poll is split at its awaits, and Chrome may kill the worker at each *)
(* of them: what is in chrome.storage.local survives, the rest is lost.    *)
(* Rows are numbered in outbox order.  Queries, texts and timestamps are   *)
(* abstracted away; a row is what it asks of the installation.             *)
(***************************************************************************)
EXTENDS Naturals, FiniteSets, TLC

CONSTANTS MaxRow,       \* bound: rows the backend publishes
          EventRows,    \* rows whose typed event apply() must refresh
          VisibleRows,  \* rows the center takes: visible !== false, with an
                        \* id, a title and a body (normalizeRemote)
          BounceRows,   \* visible rows carrying a hard, automatic bounce
          PageLimit,    \* limit=50 in the poll URL
          MaxApplyAttempts, \* MAX_APPLY_ATTEMPTS
          MaxMishaps    \* bound: worker terminations and failed
                        \* chrome.storage.local.set calls, together

Rows == 1..MaxRow

ASSUME DeliveryAssumption ==
    /\ MaxRow \in Nat /\ MaxMishaps \in Nat
    /\ PageLimit \in Nat \ {0}
    /\ MaxApplyAttempts \in Nat \ {0}
    /\ EventRows \subseteq Rows
    /\ VisibleRows \subseteq Rows
    /\ BounceRows \subseteq VisibleRows

VARIABLES
    published,   \* backend: rows 1..published are in the outbox
    delivered,   \* backend: rows with a 'delivered' receipt
    enabled,     \* featureFlags.notificationsEnabled !== false
    cursor,      \* gbNotificationCursor
    failures,    \* gbNotificationApplyFailures: row -> attempts
    cache,       \* gbNotifications: rows in the notification center
    queue,       \* gbBounceQueue: rows captured as bounce work
    pc,          \* where the worker is in poll(); "dead" when terminated
    looping,     \* pollLoop is running
    after, upto, \* the batch being processed: rows after+1..upto
    row,         \* applyAll: the next row of the batch to apply
    fail, dirty, \* applyAll: its copy of the failure counts, failuresChanged
    added,       \* rows mergeRemote found new
    applied,     \* history: event rows applied at least once
    gaveUp,      \* history: event rows skipped after exhausted retries
    tries,       \* history: failed applications per row
    suppressed,  \* history: visible rows processed while notifications were off
    unsaved,     \* history: visible rows whose cache write storage refused
    toasts,      \* history: toasts shown per row
    crashes, faults

backend  == <<published, delivered>>
storage  == <<cursor, failures, cache, queue>>
worker   == <<pc, looping, after, upto, row, fail, dirty, added>>
history  == <<applied, gaveUp, tries, suppressed, unsaved, toasts>>
budgets  == <<crashes, faults>>
vars     == <<backend, enabled, storage, worker, history, budgets>>

Batch == (after + 1)..upto
MishapLeft == crashes + faults < MaxMishaps
NoFailures == [r \in Rows |-> 0]

StorageOK ==
    /\ cursor \in 0..MaxRow
    /\ failures \in [Rows -> Nat]
    /\ cache \subseteq VisibleRows
    /\ queue \subseteq BounceRows

WorkerOK ==
    /\ pc \in {"dead", "idle", "fetch", "apply", "merge", "capture",
               "receipt", "save", "toast"}
    /\ after \in 0..MaxRow /\ upto \in 0..MaxRow /\ row \in Nat
    /\ fail \in [Rows -> Nat]
    /\ added \subseteq VisibleRows

HistoryOK ==
    /\ applied \subseteq EventRows /\ gaveUp \subseteq EventRows
    /\ tries \in [Rows -> Nat]
    /\ suppressed \subseteq VisibleRows /\ unsaved \subseteq VisibleRows
    /\ toasts \in [Rows -> Nat]

OutsideOK ==
    /\ published \in 0..MaxRow /\ delivered \subseteq Rows
    /\ crashes \in Nat /\ faults \in Nat /\ crashes + faults <= MaxMishaps

FlagsOK == enabled \in BOOLEAN /\ looping \in BOOLEAN /\ dirty \in BOOLEAN

TypeOK == StorageOK /\ WorkerOK /\ HistoryOK /\ OutsideOK /\ FlagsOK

Init ==
    /\ published = 0 /\ delivered = {}
    /\ enabled = TRUE
    /\ cursor = 0 /\ failures = NoFailures /\ cache = {} /\ queue = {}
    /\ pc = "idle" /\ looping = FALSE
    /\ after = 0 /\ upto = 0 /\ row = 0
    /\ fail = NoFailures /\ dirty = FALSE /\ added = {}
    /\ applied = {} /\ gaveUp = {} /\ tries = [r \in Rows |-> 0]
    /\ suppressed = {} /\ unsaved = {} /\ toasts = [r \in Rows |-> 0]
    /\ crashes = 0 /\ faults = 0

-----------------------------------------------------------------------------
(* Outside the worker.                                                     *)

Publish ==
    /\ published < MaxRow
    /\ published' = published + 1
    /\ UNCHANGED <<delivered, enabled, storage, worker, history, budgets>>

(* The rep flips the Notifications feature flag; storage.onChanged wakes   *)
(* the worker and reconcile() makes sure the loop runs.                    *)
ToggleNotifications ==
    /\ enabled' = ~enabled
    /\ pc' = IF pc = "dead" THEN "idle" ELSE pc
    /\ looping' = TRUE
    /\ UNCHANGED <<backend, storage, after, upto, row, fail, dirty, added,
                   history, budgets>>

-----------------------------------------------------------------------------
(* The loop.                                                               *)

Forget ==
    /\ after' = 0 /\ upto' = 0 /\ row' = 0
    /\ fail' = NoFailures /\ dirty' = FALSE /\ added' = {}

(* Chrome terminates the worker at any await; every module variable goes.  *)
Crash ==
    /\ MishapLeft
    /\ pc # "dead"
    /\ crashes' = crashes + 1
    /\ pc' = "dead" /\ looping' = FALSE
    /\ Forget
    /\ UNCHANGED <<backend, enabled, storage, history, faults>>

(* Mutant of EnsureLoop: the loop is started with the worker only.         *)
EnsureLoopAtStartup ==
    /\ pc = "dead"
    /\ pc' = "idle" /\ looping' = TRUE
    /\ UNCHANGED <<backend, enabled, storage, after, upto, row, fail, dirty,
                   added, history, budgets>>

(* The gbNotificationPoll alarm, or reconcile(): starts the worker if it   *)
(* is down and the loop if it is not running.                              *)
EnsureLoop ==
    /\ ~looping
    /\ pc' = IF pc = "dead" THEN "idle" ELSE pc
    /\ looping' = TRUE
    /\ UNCHANGED <<backend, enabled, storage, after, upto, row, fail, dirty,
                   added, history, budgets>>

(* poll() returning false leaves the loop until the next alarm.            *)
AbandonPoll ==
    /\ pc' = "idle" /\ looping' = FALSE
    /\ Forget

StartPoll ==
    /\ pc = "idle" /\ looping
    /\ pc' = "fetch"
    /\ after' = cursor
    /\ UNCHANGED <<backend, enabled, storage, looping, upto, row, fail, dirty,
                   added, history, budgets>>

FetchFails ==
    /\ pc = "fetch"
    /\ AbandonPoll
    /\ UNCHANGED <<backend, enabled, storage, history, budgets>>

(* The backend answers with at most PageLimit rows behind the cursor.      *)
FetchReturns ==
    /\ pc = "fetch"
    /\ upto' = IF published < after + PageLimit THEN published
                                                ELSE after + PageLimit
    /\ row' = after + 1
    /\ fail' = failures /\ dirty' = FALSE
    /\ pc' = "apply"
    /\ UNCHANGED <<backend, enabled, storage, looping, after, added, history,
                   budgets>>

-----------------------------------------------------------------------------
(* applyAll: one row at a time, in order.                                  *)

ApplyPlain ==
    /\ pc = "apply" /\ row <= upto
    /\ row \notin EventRows
    /\ row' = row + 1
    /\ UNCHANGED <<backend, enabled, storage, pc, looping, after, upto, fail,
                   dirty, added, history, budgets>>

ApplySucceeds ==
    /\ pc = "apply" /\ row <= upto
    /\ row \in EventRows
    /\ applied' = applied \cup {row}
    /\ fail' = [fail EXCEPT ![row] = 0]
    /\ dirty' = (dirty \/ fail[row] > 0)
    /\ row' = row + 1
    /\ UNCHANGED <<backend, enabled, storage, pc, looping, after, upto, added,
                   gaveUp, tries, suppressed, unsaved, toasts, budgets>>

(* Mutant of Exhausted: one attempt too few.                               *)
ExhaustedEarly == fail[row] + 2 >= MaxApplyAttempts

Exhausted == fail[row] + 1 >= MaxApplyAttempts

(* Retry later: the whole local copy is saved, then the error is rethrown  *)
(* and poll() returns false.  A rejected save rejects the same way.        *)
ApplyFails ==
    /\ pc = "apply" /\ row <= upto
    /\ row \in EventRows
    /\ ~Exhausted
    /\ tries' = [tries EXCEPT ![row] = @ + 1]
    /\ \/ /\ failures' = [fail EXCEPT ![row] = @ + 1]
          /\ UNCHANGED faults
       \/ /\ MishapLeft /\ faults' = faults + 1
          /\ UNCHANGED failures
    /\ AbandonPoll
    /\ UNCHANGED <<backend, enabled, cursor, cache, queue, applied, gaveUp,
                   suppressed, unsaved, toasts, crashes>>

(* Out of attempts: drop the count from the local copy and move on.        *)
GiveUp ==
    /\ pc = "apply" /\ row <= upto
    /\ row \in EventRows
    /\ Exhausted
    /\ tries' = [tries EXCEPT ![row] = @ + 1]
    /\ gaveUp' = gaveUp \cup {row}
    /\ fail' = [fail EXCEPT ![row] = 0]
    /\ dirty' = (dirty \/ fail[row] > 0)
    /\ row' = row + 1
    /\ UNCHANGED <<backend, enabled, storage, pc, looping, after, upto, added,
                   applied, suppressed, unsaved, toasts, budgets>>

(* Mutant of FinishApply: the cursor is saved as soon as the state events  *)
(* are applied.                                                            *)
FinishApplySavesCursor ==
    /\ pc = "apply" /\ row > upto
    /\ failures' = IF dirty THEN fail ELSE failures
    /\ cursor' = upto
    /\ pc' = "merge"
    /\ UNCHANGED <<backend, enabled, cache, queue, looping, after, upto, row,
                   fail, dirty, added, history, budgets>>

FinishApply ==
    /\ pc = "apply" /\ row > upto
    /\ \/ /\ failures' = IF dirty THEN fail ELSE failures
          /\ pc' = "merge"
          /\ UNCHANGED <<looping, after, upto, row, fail, dirty, added, faults>>
       \/ /\ dirty /\ MishapLeft /\ faults' = faults + 1
          /\ AbandonPoll
          /\ UNCHANGED failures
    /\ UNCHANGED <<backend, enabled, cursor, cache, queue, history, crashes>>

-----------------------------------------------------------------------------
(* The rest of processResult.                                              *)

(* Mutant of Merge: every row of the batch is reported as new.             *)
MergeReportsAll ==
    /\ pc = "merge" /\ enabled
    /\ added' = Batch \cap VisibleRows
    /\ cache' = cache \cup added'
    /\ pc' = "capture"
    /\ UNCHANGED <<backend, enabled, cursor, failures, queue, looping, after,
                   upto, row, fail, dirty, history, budgets>>

(* The flag decides whether the batch enters the notification center at    *)
(* all; mergeRemote reports which rows were new.  Its write resolves even  *)
(* when storage refused it.                                                *)
Merge ==
    /\ pc = "merge"
    /\ LET visible == Batch \cap VisibleRows IN
       IF enabled
       THEN /\ added' = visible \ cache
            /\ \/ /\ cache' = cache \cup visible
                  /\ UNCHANGED <<unsaved, faults>>
               \/ /\ MishapLeft /\ faults' = faults + 1
                  /\ unsaved' = unsaved \cup added'
                  /\ UNCHANGED cache
            /\ UNCHANGED suppressed
       ELSE /\ added' = {}
            /\ suppressed' = suppressed \cup visible
            /\ UNCHANGED <<cache, unsaved, faults>>
    /\ pc' = "capture"
    /\ UNCHANGED <<backend, enabled, cursor, failures, queue, looping, after,
                   upto, row, fail, dirty, applied, gaveUp, tries, toasts,
                   crashes>>

(* Only rows mergeRemote reported new become bounce work.                  *)
Capture ==
    /\ pc = "capture"
    /\ \/ /\ queue' = queue \cup (added \cap BounceRows)
          /\ UNCHANGED faults
       \/ /\ added \cap BounceRows # {}
          /\ MishapLeft /\ faults' = faults + 1
          /\ UNCHANGED queue
    /\ pc' = "receipt"
    /\ UNCHANGED <<backend, enabled, cursor, failures, cache, looping, after,
                   upto, row, fail, dirty, added, history, crashes>>

(* sendReceipt never rejects: a failed POST is simply not retried.         *)
SendReceipt ==
    /\ pc = "receipt"
    /\ \/ delivered' = delivered \cup Batch
       \/ UNCHANGED delivered
    /\ pc' = "save"
    /\ UNCHANGED <<published, enabled, storage, looping, after, upto, row,
                   fail, dirty, added, history, budgets>>

(* Mutant of SaveCursor: the newest row known to the backend is saved.     *)
SaveNewestCursor ==
    /\ pc = "save"
    /\ cursor' = published
    /\ pc' = "toast"
    /\ UNCHANGED <<backend, enabled, failures, cache, queue, looping, after,
                   upto, row, fail, dirty, added, history, budgets>>

SaveCursor ==
    /\ pc = "save"
    /\ \/ /\ cursor' = upto
          /\ UNCHANGED faults
       \/ /\ MishapLeft /\ faults' = faults + 1
          /\ UNCHANGED cursor
    /\ pc' = "toast"
    /\ UNCHANGED <<backend, enabled, failures, cache, queue, looping, after,
                   upto, row, fail, dirty, added, history, crashes>>

(* New rows are toasted in the active golfballs.com tab, if there is one;  *)
(* poll() returns true and the loop goes on.                               *)
Toast ==
    /\ pc = "toast"
    /\ \/ toasts' = [r \in Rows |-> IF r \in added THEN toasts[r] + 1
                                                   ELSE toasts[r]]
       \/ UNCHANGED toasts
    /\ pc' = "idle"
    /\ Forget
    /\ UNCHANGED <<backend, enabled, storage, looping, applied, gaveUp, tries,
                   suppressed, unsaved, budgets>>

-----------------------------------------------------------------------------
ApplyStep == ApplyPlain \/ ApplySucceeds \/ ApplyFails \/ GiveUp \/ FinishApply

ProcessStep == ApplyStep \/ Merge \/ Capture \/ SendReceipt \/ SaveCursor \/ Toast

Next ==
    \/ Publish \/ ToggleNotifications
    \/ Crash \/ EnsureLoop
    \/ StartPoll \/ FetchFails \/ FetchReturns
    \/ ApplyPlain \/ ApplySucceeds \/ ApplyFails \/ GiveUp \/ FinishApply
    \/ Merge \/ Capture \/ SendReceipt \/ SaveCursor \/ Toast

Spec == Init /\ [][Next]_vars

(* A periodic alarm restarts a dead worker and a stopped loop; a request   *)
(* that is retried forever is answered sometimes; a running handler goes   *)
(* on to its next await.                                                   *)
Fairness == /\ WF_vars(EnsureLoop)
            /\ WF_vars(StartPoll)
            /\ SF_vars(FetchReturns)
            /\ WF_vars(ProcessStep)

FairSpec == Spec /\ Fairness

-----------------------------------------------------------------------------
EventSettled(r) ==
    r \in EventRows => \/ r \in applied
                       \/ r \in gaveUp /\ tries[r] >= MaxApplyAttempts

Stored(r) == r \in VisibleRows => r \in cache \cup suppressed \cup unsaved

(* live-updates.js applies every state event before the cursor moves, and  *)
(* skips one only after MAX_APPLY_ATTEMPTS real failures: no crash, lost   *)
(* count or interleaving makes the worker acknowledge a row (by receipt or *)
(* by cursor) whose refresh it still owes.                                 *)
SettledBeforeAcknowledged ==
    \A r \in delivered \cup 1..cursor : EventSettled(r)

(* processResult stores the visible rows before it saves the cursor, so a  *)
(* worker killed anywhere in between re-reads them: a visible row behind   *)
(* the cursor is in the notification center, or notifications were off     *)
(* when it was processed, or storage refused that very write (which        *)
(* mergeRemote does not report).                                           *)
NoVisibleRowLost == \A r \in 1..cursor : Stored(r)

(* A row fetched again after a crash or an unsaved cursor is found in the  *)
(* cache by mergeRemote, so the rep is toasted twice about it only when    *)
(* storage refused the cached copy.                                        *)
ToastedAtMostOnce == \A r \in Rows : toasts[r] > 1 => r \in unsaved

(* However its refreshes fail, no row wedges the cursor: every published   *)
(* row is acknowledged in the end.                                         *)
EveryRowAcknowledged ==
    \A r \in Rows : (published >= r) ~> (cursor >= r)

(* The outbox contract: what is settled is read off the stored state.      *)
SettledRows == {r \in 1..published : EventSettled(r) /\ Stored(r)}

Contract == INSTANCE Outbox WITH sent <- published, settled <- SettledRows,
                                 acked <- cursor

ImplementsOutbox == Contract!Spec

-----------------------------------------------------------------------------
(* A statement of the repository's comments that the code does not keep.   *)
=============================================================================
