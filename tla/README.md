# TLA+ verification of the Golfballs.com extension

The repository is a Chrome MV3 extension for golfballs.com sales reps: a service worker (`background.js`,
`lib/`), page scripts and React screens (`src/`, `iframe/`, `help/`) and a settings registry, talking to one
backend. Chrome kills the service worker whenever it is idle, so what matters is kept in
`chrome.storage.local` and every handler can end at any `await`. This directory models the parts of the
extension whose correctness depends on that: the passes that bring server state, stored state and open pages
together.

Paths are relative to the repository: `lib/x.js` is the worker's code, `src/lib/x.js` the code shared by the
screens.

- [Inventory](#inventory)
- [Modules](#modules)
- [Runs, bounds, fairness](#runs-bounds-fairness)
- [Proofs](#proofs)
- [Where the code and its comments differ](#where-the-code-and-its-comments-differ)
- [What is not modelled](#what-is-not-modelled)
- [Plan](#plan)

## Inventory

| Component | State it keeps | Operations | What makes it hard | What makes it correct |
| --- | --- | --- | --- | --- |
| Notification delivery (`lib/notifications-poll.js`, `lib/live-updates.js`) | `gbNotificationCursor`, `gbNotificationApplyFailures`; loop and single-flight promise in memory | long-poll loop, alarm, `applyAll`, receipts, cursor, toast | kill between any two writes, refused storage writes, rows whose refresh throws | nothing is acknowledged before it is settled, nothing visible is lost, no row wedges the cursor |
| Notification store (`lib/notifications-store.js`) | `gbNotifications` (at most 200 rows) | `mergeRemote`, `add`, read/seen marks, badge | a row fetched twice; eviction | a known row is not new |
| Bounce queue (`lib/bounce-queue.js`, `src/lib/bouncedContacts.js`, `src/lib/crmTasks.js`) | `gbBounceQueue`, `gbBounceLedger` | `capture`, `drain`, `askCrm`; on the CRM page: find contact, find task, create task | asks a page and waits up to 30 s; capture and drain write the same keys; the page does not stop when the worker stops waiting | one task per address, attempts mean refusals, every job leaves |
| Managed settings policy (`lib/remote-settings-policy.js`, `src/lib/flags.js`, `src/lib/devSettings.js`) | `featureFlags`, `devSettings`, `gbRemoteSettingsPolicy`, `gbRemoteSettingsBackup` | `sync`, force, lift (bypass); page saves guarded by the policy | four awaited writes per pass, forced callers that share a promise, pages writing whole maps | a forced value can be lifted, the backup is the user's own, forced syncs are fresh |
| Managed email templates (`lib/managed-email-templates.js`) | `templates` array, `gbManagedEmailTemplateBucket` cache, merge base per row; timer, `applying` flag | `sync`, `publish`, `reconcile`, detach, share PATCH | editor, sync and publish write the same array; three-way merge at the service | a contribution survives, edits are not overwritten and arrive |
| Email template submissions (`lib/email-template-submissions.js`, `src/pages/TemplateEditor.jsx`) | `gbEmailTemplateSubmissions`; mutation chain, pending update | `update` (coalescing), `approve`, `sync`; the editor's autosave and version prediction | optimistic versions, coalescing, late requests | a resolved save is on the server, every caller is answered |
| Access decision (`lib/runtime-bootstrap.js`, `lib/runtime-state.js`, `lib/runtime-scripts.js`) | `gbRuntimeState`, `openState` in memory | `start`, `sync`, `accept`, `close`, 3-minute alarm; readers: pages, message listener | decision read in one task and written in another; worker reloads | the grace period is earned, a revocation holds |
| Usage telemetry (`lib/usage-telemetry.js`) | rows, feature buckets, drop count and one pending batch, in memory and in `chrome.storage.session` | `record`, hydration, the one writer, `flush` with its retry | lost answers, refused writes, a worker that restarts before or after it has read what was saved, full buffers | an identifier stands for one set of events, no event is counted twice, what is buffered arrives |
| Help assistant (`help/help-assistant.js`, `help/help-chat-state.js`) | the conversation, its active turn, stored approvals; the poll schedule in memory and as an alarm | `send`, `retry`, `poll`, `resume`, `cancel`, `resolveDataAccess`, `clearConversation` | every one awaits the network between reading and writing the conversation; a cancel, a resume and a late answer race each other | a retry finds the run of the first try, a cancelled turn gets no answer, data is shared under one identifier, every turn ends |
| Trackers (`lib/tracker-runtime.js`, `lib/tracker-store.js`, `lib/tracker-registry.js`, `lib/tracker-definitions.js`, `src/vanilla-build/recent-orders-sweep.entry.js`) | one table per tracker, `gbTrackerState` (switches and data cursors) | `sweep` (refresh, poll), `capture`, `setEnabled`, `resetCursor` | unserialised read-change-write of every key, writes whose refusal nobody sees, a guard set behind awaits, an index that moves between two pages | the cursor passes only orders that were read and given to the table, orders arrive, closed opportunities settle |
| Workflow runner (`src/lib/workflow/codeRunner.js`, `src/lib/codeEngine/simulate.js`, `src/modals/WorkflowManager.jsx`) | in the page: the flags in `controlRef`, the effects counted by each run | start, confirm, pause, resume, stop; contact loop, trace, paced writes | clicks between any two awaits, runs that outlive their stop, answers that are lost | stop, pause and the cap hold to the write, the summaries are true, a run ends |
| Installation identity (`lib/installation-auth.js`) | `gbApiInstallation`, cooldowns | enrol, identity sync, `apiFetch` | single flight, cooldown, stray 401 | see the access decision |
| Template share updates, send tracking, index stores, session broker | one store each | read, request, write | state used after an await | no lost record |
| Service worker shell, action language, code and page engine, calculations, CRM writers, sender, catalog, logo placement, page scripts, screens, settings registry, build | none that several actors change, or state owned by a component above | - | - | their unit tests |

`PROJECT.json` lists every component with its files and status.

### How they interact

```
 backend outbox --rows--> notification delivery --typed events--> settings policy   sync({force})
                              |      |                            managed templates sync
                              |      |                            submissions       sync({force})
                              |      +--new rows--> notification store --toast--> page
                              +--new bounces--> bounce queue --askTab--> CRM page --> CRM task
 chrome.alarms --> delivery loop, settings policy, access decision, telemetry, help polls, trackers
 every API call (installation-auth) --401/403--> access decision --openState--> every message handler
 editor pages --chrome.storage writes--> managed templates (onChanged), settings maps
 editor pages --runtime messages--> submissions update / approve
 CRM pages --captured requests--> trackers <--paged search of a CRM tab--
 workflow manager --runs--> code runner --writes--> CRM
 help pages --runtime messages--> help assistant --runs--> assistant service
 everything --record()--> usage telemetry --batches--> service
```

The delivery treats an applied event as one call that succeeds or throws. The three `sync` passes it calls
are modelled with the caller's side included: a forced or event-driven call that fails is made again,
exactly because `NotificationDelivery` retains the cursor (`SettledBeforeAcknowledged`).

## Modules

Conventions: an action ends where the code awaits something another actor can run during; where two awaits are one
step all the same, the module's paragraph says so. Variables marked *history* exist for the properties only.
`Mishap` bounds count together the rare events (worker kills, refused writes, timeouts, ...), so that a run with
`MaxMishaps = 1` explores each of them at every point. Operators marked *Mutant* are plausible wrong versions of the
operator behind them; no specification uses them.

### NotificationDelivery, Outbox

`pc` is where `poll()` is: `fetch`, `apply` (one row of `applyAll` at a time), `merge` (`mergeRemote`), `capture`
(`GBBounceQueue.capture`), `receipt`, `save` (cursor), `toast`. `cursor`, `failures`, `cache`, `queue` are storage
keys; `fail` and `dirty` are `applyAll`'s local copy of the counts and its `failuresChanged`. `Crash` drops
everything that is not storage. `ApplyFails`, `FinishApply`, `Merge`, `Capture` and `SaveCursor` have a branch for a
rejected `chrome.storage.local.set`, each with what the code does about it: `applyAll` rethrows, `mergeRemote` and
the cursor save resolve all the same. `VisibleRows` are the rows the notification center takes: a row without an id,
a title or a body is dropped by `normalizeRemote` and treated like an invisible one. `Outbox` is the contract: rows
are sent, become settled in any order and stay settled, and the acknowledged prefix moves forward over settled rows
only. `Contract` in NotificationDelivery instantiates it with `sent <- published, settled <- SettledRows, acked <-
cursor`.

### BounceQueue

A queue is a function from jobs to attempts; jobs are numbered in outbox order, which is the order `mergeJobs` sorts
them into (`at`). `capture` is read (`CaptureRead`, of a batch of new rows) and write (`CaptureWrite`, `Merged` is
`mergeJobs`); `drain` is `DrainStart`, `DrainClear` (the switch is off), and per job of its share `NextJob`,
`AskTab`, then an answer, a silent tab or `TabTimeout`, `NoAnswer` or `BurnAttempt`, and one `DrainWrite` of what it
read and changed. `flows` are `flagBouncedContact` calls in flight on pages, including those the worker no longer
waits for and those a rep clicked: check the contact and its open tasks, then create. An error may come before or
after the CRM carried the create out. Two sequences of awaits are one step each: the switch and the read of queue
and ledger at the start of `capture` (`lib/bounce-queue.js:160-175`) and those at the start of `drain` (`:236-253`).
What the later write goes by is read in one `get` in the code too; only the switch is read one await before it
(`capture`) or behind it (`drain`), so a switch turned off in exactly that await is seen a step later or earlier
than in the model. Left out: `MAX_JOBS`, `LEDGER_MAX` and the 30 days after which the ledger forgets an address.

### SettingsPolicy

One map stands for `featureFlags` and `devSettings`, which every pass reads and writes together. `own` tags a value
the user chose. `pass` is the pass behind `syncPromise`: `Fetch`, `Read`, then `BackUp`/`Enforce` or
`Restore`/`Bypass`/`DropBackup`, then `Finish`; `Settle` is how the promise resolves for the callers that share it
and how the first forced waiter starts a pass of its own. `Fault` fails any of the reads and writes and the
broadcast behind them; the removal of the backup never rejects, so `DropBackup` has a branch in which it is refused.
The panel reads, toggles and saves in the two storage callbacks of `saveFlags`.

### ManagedTemplates

One bucket row with four copies: `server`, `local` (with merge base and share), `cache`, `shared`. `sync` and `pub`
are the two passes. A sync reads the array when it starts (`fetch`) and writes it, with the cache, when the answer
comes (`SyncApplies`); a publish reads it once for its request (`PublishStarts`), again when the answer is there
(`PublishReads`) and writes it behind that await (`PublishWrites`). `share` is the PATCH of a share link, and
`acknowledgeShare` behind it reads the array (`SyncShared`, `PublishShared`) and writes it back (`SyncNotes`,
`PublishNotes`). From `write` to the end of `share` the flag `applying` mutes the storage listener. `Reconcile` is
the row that is stored for an answer; `ServerWrites` is the service's three-way merge by field, as its contract
tests describe it (external to `lib/`). The editor page may save in every one of these windows: `seen.last` is its
latest edit of each field and `seen.raced` the fields whose latest edit was saved while a pass held an array it had
read before. `Contested` are the fields other parents edit. The filter of `writes()` for rows without a name or a
known type (`:327-328`) is left out, as no row the editor saves is rejected by it; so is the removal of an imported
share.

### TemplateSubmissions

`revisions` is the server's history of accepted documents, a version is an index into it and `submissions` the
version in the worker's cache. `chain`, `mut`, `pending` are `mutationChain`, its running job and `pendingUpdates`;
`wire` holds requests that may outlive their worker. `editor` holds what the page compares: the version it knows,
the version it predicts for its own saves, the newest one it showed.

### RuntimeGate

`record` is the stored decision, `openState` the worker's, by which its message listener serves or refuses. `start[i]`,
`sync` and `closer` read the record in one step and decide in a later one: `Decide` flips `openState` and calls the
write, which is one task of the worker, as no other handler gets between the two. The browser may refuse the write;
`set` in `lib/runtime-state.js:67` resolves then too, and `unsaved` remembers that the last decision is not in the
record. The clock ticks in parts of the 48-hour grace period.

### UsageTelemetry, UsageLedger

`mem` is the state of a reporter (rows, buckets, `dropped`, `pending`), `disk` what the session storage holds.
`dirty`, `writing` and `outgoing` are the one writer of `queuePersist`, which writes again when a change came while
it was busy and writes nothing before the saved state was read. `Hydrate` merges what was saved behind what was
recorded meanwhile and trims both buffers. `pc` is the flush: read, build a batch, store it, post it, keep or forget
it. `sent` are requests that may outlive their worker. Events are numbered as they are recorded, so a buffer is a
set of events and a bucket the set its count adds up. `UsageLedger` is the contract: batches are booked once, with
events no other batch holds. `Ledger` in UsageTelemetry instantiates it with what the service has counted.

### HelpConversation

`chat` is the stored conversation: its bubbles, the active turn (request id, run id, status), the error a failed
turn leaves, and the approval of a message. `Send` is the first half of `send()`, `SendApplies`, `SendFails`
and `SendUnsaved` are its outcomes; the request in between belongs to the service (`Started`, `PostTaken`,
`PostRefused`), and `OrphanTaken` is a request of a worker that is gone. `PollBegins` to `PollBacksOff` are
`poll()`, `ResumeRuns` to `ResumeFails` are `resume()`, `CancelBegins` to `CancelApplies` are `cancel()`, and
`Decide` to `AllowEnds` are `resolveDataAccess()`. What is applied to the conversation behind a request is
guarded exactly as the code guards it, which is not everywhere by the turn it was made for. Three history variables
say what the properties speak of: `givenUp` (identifiers whose polls ran out), `shared[r]` (identifiers under which the
data of receipt r went out) and `forgotten` (receipts whose record a clear removed).

### TrackerSweep

`job[s]` is where a sweep is (one of the alarm and one of the console or the dashboard, which can both get past the
guard) and what it holds across its awaits: the stale rows of a refresh, the pages read so far, the copies of a
table or of `gbTrackerState` it will write back. `capture[t]` and `setter` are the same for captures and for the
switches. `index` is the search index, newest first, with one row per contact that moves to the front when the
contact orders; `SearchPage` reads it by offset, so a row can come twice, and `Window` is the prefix of the rows
that match. Time is the day, because the index stamps orders with midnight and is searched from midnight.
`state.from` is history: the first day the stored cursor speaks for, written with it and copied with it. `Written`
is `write()` of the store, which resolves whether the browser took the value or not; `UpsertRefused` is its refusal
for the orders table, and the poll goes on behind it as behind `UpsertWrites`. `lost` is history: the orders a
refused upsert was to store, and those an upsert wrote over because another sweep had stored them since it read the
table. The awaits of `sweep()` (`SweepEnters`, `SweepCollects`) and the two reads of `markCursor` (`CursorReads`,
`CursorPatches`) are steps of their own.

### WorkflowRun

`run[r]` is one call of `runCodeWorkflow` and where it is: between contacts (`loop`), loading and tracing a
contact (`prepare`), before the next write of its trace (`record`), in the delay before a write (`delay`, and
`slice` for the last 120 ms of it), waiting for the CRM (`act`). `control` is `controlRef.current`: it belongs to
the manager, every start replaces it and all runs read it. `Prepared` chooses the trace; `Record` with
`DelayStops`, `DelaySlice` and `DelayElapses` is `beforeEffect()`, `Answered` and `Refused` are the answer with
`onEffect()`, `Invalid` is a write whose input fails its check. `gaps` says that an earlier write of the contact
has no result, for which a later one may be skipped. `held`, `late`, `lost` and `told` are history.

## Runs, bounds, fairness

| Run | Kind | Instance | Shows |
| --- | --- | --- | --- |
| `delivery_contract` | pass | 3 rows (state event, visible state event, visible bounce), pages of 2, 2 attempts, 1 mishap | `SettledBeforeAcknowledged`, `NoVisibleRowLost`, `ToastedAtMostOnce`, `ImplementsOutbox`, `EveryRowAcknowledged` |
| `bounce_rules` | pass | 2 bounces of a contact, 1 of a stranger, 2 tabs, a share of 1 job per wake, 2 attempts, 2 refusals, 1 mishap | `OnlyRefusalsBurnAttempts`, `SingleTask`, `JobsLeaveQueue` |
| `bounce_kept` | violation | 2 bounces, no mishap | `JobKept` fails |
| `policy_contract` | pass | 2 settings, 2 published configurations out of 3, 2 forced callers and the alarm, 1 mishap or edit | `ForcedSyncIsFresh`, `ForcedCanBeLifted`, `PolicyInForce`, `PolicyConverges` |
| `bucket_contract` | pass | 2 fields, the row own (with or without a share) or another parent's; 2 edits and any 2 of a foreign edit, deletion, removal, manager opened, lost request, restart | `ContributionSurvives`, `RemovalIsMeant`, `OnlyRacedEditsAreLost`, `EditsArrive` |
| `bucket_stale` | violation | 1 field, one edit, one foreign edit, manager opened | `SyncKeepsEdits` fails |
| `subs_contract` | pass | 3 saves or approvals, a foreign edit, 1 mishap | `ResolvedHoldsNewest`, `CallsSettle` |
| `gate_contract` | pass | a fresh installation, 2 concurrent starts, grace 2, clock to 3, 2 key changes, one each of failed check, refused write, stray answer, restart | `StampIsVerified`, `ClosedIsClosed`, `RevocationHolds`, `GateFollowsKey` |
| `telemetry_contract` | pass | 3 events of 2 features or rows, buffers of 1, 2 batches, 2 faults | `CountedOnce`, `BatchIdNamesItsEvents`, `DropsNotInvented`, `ImplementsLedger`, `EveryEventCounted` |
| `help_contract` | pass | 3 turns, 3 requests, 2 decisions, 1 mishap | `RetryIsTheSameRun`, `ConversationInOrder`, `SharedUnderOneId`, `CancelledStaysCancelled`, `TurnEnds` |
| `workflow_contract` | pass | 2 runs, 2 contacts of no or 2 writes, cap 2, 1 failure or pause | `CapKept`, `StopIsPrompt`, `PauseIsPrompt`, `SummariesAreTrue`, `RunEnds` |
| `tracker_contract` | pass | 3 contacts (one unreadable, two ordered before), 2 pages of 1 row, 1 opportunity, 1 tab, 2 days, 2 events or mishaps | `CursorBanked`, `OrdersArrive`, `ClosedRowsSettle` |

Every module also states its type invariant `TypeOK`; where there is a theorem for it the proof uses it, and no
run spends a property on it. The passing runs take between half a minute and three and a half minutes each with
two workers.

### Why the bounds are enough

- *Delivery*: three rows with pages of two need a batch boundary; two event rows are needed for one to fail
  while the other is settled, and a visible bounce for every kind of durable write. Retries do not spend the
  mishap budget, so two attempts per row already make every mixture of failing, succeeding and giving up. The
  theorems hold for any number of rows and mishaps.
- *Bounces*: the second bounce of the address is what `mergeJobs` and the ledger are for; the stranger is the
  address that matches no contact; two flows make two pages race; two attempts separate "one refusal" from
    "failed". A share of one job per wake leaves the job of the other address behind whenever both are queued. Rows
  are offered in outbox order, and any of them may never be offered.
- *Policy*: two settings forced by different configurations, so that a policy after a policy must restore one
  and force the other. The user may save once, or one write or kill may go wrong.
- *Templates*: disjoint and overlapping edits need two fields, an edit behind the one in flight a second edit;
  two mishaps of any kinds let a removal meet a restart, or a foreign edit a lost answer. The two invariants
  were also run with one of everything on a row with a share.
- *Submissions*: the third document is the one that is coalesced over the second while the first is written.
- *Gate*: two starts (worker load and `onStartup`) suffice for one to write back what the other replaced; the
  clock passes the grace period.
- *Telemetry*: with buffers of one row and one bucket the second event of a kind already evicts or merges, and
  three leave one for the batch behind a lost one; two faults make a refused write meet a restart.
- *Help*: the third turn is the one that begins while the first is still waited for. A cancel, a cleared
  conversation, a lost answer, a refusal, a refused write and a kill share the mishap, so each of them is tried
  at every point of every turn.
- *Trackers*: three rows against two pages truncate a search, two rows do not, and an order in between moves
  one over the page boundary; an order before and one after midnight stand on the two sides of a cursor. The
  two events may both be mishaps, so that a refused write meets a failed page, a kill or a second sweep.
- *Workflows*: two runs let one outlive its stop into the next; two writes of a contact and a cap of two put the
  cap, a stop or a pause into the middle of a contact, and a lost answer lets one write more be sent than the cap.
  A trace of one write adds nothing to one of no and one of two writes; the invariants were also run with it,
  and the inductive invariant with two mishaps.

`CHECK_DEADLOCK FALSE` stands where the bounded world really stops: all rows delivered, all saves made. The
gate never stops (its alarm always comes back), so its runs check deadlock.

### Fairness

- Delivery: the alarm is periodic (`EnsureLoop`), a handler that runs reaches its next await
  (`ProcessStep`), and a request that is made for ever is answered now and then (strong fairness of
  `FetchReturns`). Nothing is assumed about `apply` succeeding.
- Bounces: every poll tick and CRM page load drains; a page flow goes on; if drains ask for ever, some CRM tab
  answers now and then (strong fairness of `AskTab`). Without an open CRM tab the job waits by design.
- Policy: the pass goes on, the alarm comes back, storage callbacks arrive. The server may never publish, a
  row may never come, a user never has to act.
- Templates, submissions: requests end, timers fire, promises run on. Losses are bounded, and after the last
  one the pass that is due is made.
- Telemetry: the writer and the flush go on, the alarm flushes again, requests end. Faults are bounded.
- Help: the service ends a run it has taken and answers a poll; the worker goes on, its alarms fire, and a page
  that is opened or a worker that starts resumes what is in progress again and again. People need not act.
- Trackers: the alarm comes back, every await is answered or times out (`REQUEST_TIMEOUT_MS`,
  `CRM_SEARCH_TIMEOUT_MS`), and a poll and an unsettled row are due again and again (strong fairness, because
  a sweep may find them not due). That some CRM tab answers in the end is part of it: failed reads are
  bounded, and without a tab orders wait by design.
- Workflows: every await of a run is answered and its timers fire (one weak fairness for the runs together, so no
  outcome is preferred; it is enough that some run goes on, because each has finitely many steps). The rep need not
  click: a run that is left paused need not end.
- Gate: the alarm comes back, checks and passes end; `CheckFails` is not fair and is bounded.

## Proofs

Eight modules hold the theorems. Each is about its component for every value of the constants that satisfies the
assumption of that component, and needs no other. (`Notifications_proofs` and `EmailTemplates_proofs` hold those of two
components each, side by side, which is why BounceQueue and TemplateSubmissions have names of their own: `BounceSpec`,
`SubmissionsSpec` and so on.)

| Module | Assumption | Free in it |
| --- | --- | --- |
| `Notifications_proofs` | `DeliveryAssumption` (NotificationDelivery) | rows, page size, attempt limit, kills, refused writes |
| | `BounceAssumption` (BounceQueue) | jobs, addresses, contacts, tabs, share of a wake, attempt limit, page flows, upsets, refusals |
| `RuntimeGate_proofs` | `GateConstants` | the set of starts (not empty), grace period, bounds |
| `UsageTelemetry_proofs` | `UsageAssumption` | features, buffer sizes, events, batches, faults |
| `WorkflowRun_proofs` | `WorkflowAssumption` | audience, cap, runs at a time, writes, mishaps |
| `EmailTemplates_proofs` | `BoundsAreNaturals` (ManagedTemplates) | document fields, edits, deletions, faults, restarts |
| | `SubmissionConstants` (TemplateSubmissions) | saves, foreign revisions, losses, whether the editor may approve |
| `SettingsPolicy_proofs` | `PolicyConstants` | settings, callers, what the server may publish, revisions, page saves, mishaps |
| `HelpConversation_proofs` | `HelpAssumption` | identifiers, turns, decisions, mishaps |
| `TrackerSweep_proofs` | `TrackerAssumption` | contacts, pages, retention, lookback, opportunities, tabs, days, orders, mishaps |

Each inductive invariant (`IInv`, and `RInv`, `DropInv`, `SInv` beside it; `RefusalInv`, `TaskInv`, `DistinctInv`)
was checked by TLC, in bounds wider than those of the runs where they mattered, before it was proved. That was not a
formality: `SharedUnderOneId` and `RetryIsTheSameRun` held in the bounds of `help_contract` as it was and turned out
too strong, the second by a counterexample of 28 steps; both now name the exception (see the Help entry below).

| Theorem | Statement |
| --- | --- |
| `Notifications_proofs!TypeCorrect` | `Spec => []TypeOK` |
| `Acknowledgement` | `Spec => []SettledBeforeAcknowledged` |
| `NothingVisibleLost` | `Spec => []NoVisibleRowLost` |
| `OneToast` | `Spec => []ToastedAtMostOnce` |
| `DeliveryImplementsOutbox` | `Spec => ImplementsOutbox` |
| `BouncesTypeCorrect` | `BounceSpec => []BounceTypeOK` |
| `AttemptsAreRefusals` | `BounceSpec => []OnlyRefusalsBurnAttempts` |
| `OneTask` | `BounceSpec => []SingleTask` (at most one task, and one more for each timeout, kill and click) |
| `OneJobEach` | `BounceSpec => []OneJobPerAddress` |
| `RuntimeGate_proofs!TypeCorrect` | `Spec => []TypeOK` |
| `GraceIsEarned` | `Spec => []StampIsVerified` |
| `ClosedRecordClosesWorker` | `Spec => []ClosedIsClosed` |
| `RevocationIsKept` | `Spec => []RevocationHolds` |
| `UsageTelemetry_proofs!TypeCorrect` | `Spec => []TypeOK` |
| `OneIdOneBatch` | `Spec => []BatchIdNamesItsEvents` |
| `NoDoubleCount` | `Spec => []CountedOnce` |
| `TelemetryImplementsLedger` | `Spec => ImplementsLedger` |
| `DropsAreEvictions` | `Spec => []DropsNotInvented` |
| `WorkflowRun_proofs!TypeCorrect` | `Spec => []TypeOK` |
| `CapIsKept` | `Spec => []CapKept` |
| `StopIsHeeded` | `Spec => []StopIsPrompt` |
| `PauseIsHeeded` | `Spec => []PauseIsPrompt` |
| `SummariesHold` | `Spec => []SummariesAreTrue` |
| `EmailTemplates_proofs!TypeCorrect` | `Spec => []TypeOK` |
| `ContributionKept` | `Spec => []ContributionSurvives` |
| `RemovalsAreMeant` | `Spec => []RemovalIsMeant` |
| `OnlyRacesLoseEdits` | `Spec => []OnlyRacedEditsAreLost` |
| `SubmissionsTypeCorrect` | `SubmissionsSpec => []SubmissionsTypeOK` |
| `NewestIsHeld` | `SubmissionsSpec => []ResolvedHoldsNewest` |
| `OneUpdateAtATime` | `SubmissionsSpec => []OneUpdate` |
| `SettingsPolicy_proofs!TypeCorrect` | `Spec => []TypeOK` |
| `AcknowledgedFresh` | `Spec => []ForcedSyncIsFresh` |
| `ForcedIsLiftable` | `Spec => []ForcedCanBeLifted` |
| `PolicyHolds` | `Spec => []PolicyInForce` |
| `HelpConversation_proofs!TypeCorrect` | `Spec => []TypeOK` |
| `MessagesInOrder` | `Spec => []ConversationInOrder` |
| `RetriesAreTheSameRun` | `Spec => []RetryIsTheSameRun` |
| `SharesOnce` | `Spec => []SharedUnderOneId` |
| `CancelledIsNotAnswered` | `Spec => CancelledStaysCancelled` (an action property) |
| `TrackerSweep_proofs!TypeCorrect` | `Spec => []TypeOK` |
| `CursorNeverSkips` | `Spec => []CursorBanked` |
| `AlarmAloneSkipsNothing` | `Alone => []` every readable order the cursor has passed is `Stored`, where `Alone` is a behaviour without console sweeps and without refused writes of the orders table |

*Delivery.* `SettledBeforeAcknowledged` says nothing about the batch in flight, so it is not inductive. `IInv`
adds three facts. `Frame`: the batch starts at the stored cursor and ends within what was published.
`Progress`: the rows `applyAll` has passed are settled, and after it the whole batch is. `Counts`: a stored or
local failure count never exceeds the failures that happened (`tries`), so reaching `MAX_APPLY_ATTEMPTS` means
that many real failures even when counts are lost. The proof has one step per action and one sub-step per
conjunct. `NothingVisibleLost` adds `StoreProgress` (behind `mergeRemote` the batch is stored);
`OneToast` rests on `ToastInv` (what is about to be toasted is in the cache or was refused, and was never
toasted). The refinement maps `Publish` to `Send`, `SaveCursor` to `Acknowledge` and every other step to
`Settle` or a stutter: `SettledStays` and `StoredStays` give that settled rows stay settled.

*Bounces.* `capture` and `drain` overwrite each other's queue and ledger with copies they read earlier, so nothing
can be said of the stored ones alone. `CopiesReal` says of all three queues (stored, read by `capture`, worked on by
`drain`) that no job has more attempts than refusals, and of all three ledgers that a failed address had a job
refused `MAX_ATTEMPTS` times. That survives every overwriting because refusals only grow (`StaysReal`), and because
the step lemmas (`StoredQueueStep`, `StoredLedgerStep`, `CaptureStep`, `DrainSteps`) give the few places a new copy
can come from. An attempt is counted when all tabs were asked, some time behind the refusal it is for: `RefusedNow`
keeps that refusal ahead of the count until then. `OneJobEach` needs the same three copies (`CopiesDistinct`) and
what `mergeJobs` does to one (`MergedTyped`). `SingleTask` is about the pages: two flows can pass the check for an
open task before either creates one, so `TaskInv` counts the tasks of an address together with the flows that are
about to create one for it (`Creating`). Of these, one is the flow `drain` waits for; every other one is a stray
(`Strays`), and a flow becomes a stray by a timeout, a kill or a click only (`StraysStep`). The property is that
bound, one and the `Upsets` so far, and not the absence of a second task, which the code does not give.

*Gate.* A pass writes back a record it read earlier, so the invariant must speak of the records held by passes:
`Sound(r)` (its stamp is at most the last yes taken, and it is open only with a stamp) for the stored record and, in
`Held`, for the copy of every start, check and close. `Accepted` says that the time noted for a yes is that yes;
`Agree` that an open worker has an open record or is known to be `unsaved`: the last decision flipped `openState`,
and only the refusal of its write leaves the record behind (`DecideSound`). That a revocation holds needs a second
invariant, `RInv`: an answer the worker has read and the latest word of the backend agree (`Heard`), and behind a
revocation the gate is shut (the worker in any case, the record unless the write was refused) unless a pass is under
way that ends behind a health check (`Revoked`). A start counts as such a pass because it asks for a check when it
is done; that is also why there must be a start to speak of (`Starts # {}`).

*Telemetry.* An event can be in memory, in what the writer holds, in the saved state, in a request and in what the
service has counted at the same time, so counting once is a statement about all copies. While no write was refused:
`InStep` says that behind hydration the storage, or the last state the writer was given, is the state in memory
unless a newer write is due; `Fresh` that what is recorded before hydration is in no saved batch; `Separate` that
the buffers of no snapshot (memory, writer, storage) share an event with its own pending batch or with any batch
sent or counted; `Disjoint` that batches of different identifiers share no event. `Phases` ties the flush to the
pending batch. `NoDoubleCount` follows from `Disjoint` and from one identifier standing for one batch
(`OneIdOneBatch`, which needs none of them and holds with refused writes too). With a refused write a restart can
bring an older buffer back, so the theorem, like `CountedOnce`, speaks of histories without one. `DropsNotInvented`
needs a sum over the batches that nobody has booked yet: the one in memory, the one a later worker would restore,
the ones in requests left behind. A sum is induction over data, so it is stated by its partial sums instead: batches
are numbered, and `Fits` asks for a function `S` on the numbers that grows by at least `b.dropped` at each such
batch `b` and ends within the evictions. `DropInv` says that of every snapshot a worker could go on from; the lemmas
on `Fits` give that fewer batches fit, that a new last number can take over the drops of the memory, and that a
booked batch moves from the sum to `reported`.

*Workflows.* `IInv` asks three things of the record of each run. `Counted`: the writes the CRM has carried out are
at most the effects counted and the answers taken for failed, and a write is under way only below the cap, so
that its answer still fits; this is needed because the cap is checked before a write and counted behind it.
`Heeded`: before its first write a run has sent nothing since a pause, and a last slice that runs during a pause
began before it, so the one write `PauseIsPrompt` allows is either of the two and never both. `Placed`: a write
under way has a contact and a number of its trace. What a step does to a record is stated of the record alone;
`RunSteps` and `RunWrites` carry it over to all runs, which share only the flags and the CRM.
The summaries have an invariant of their own, `SInv`: a contact of the audience is left, at hand or summarised, and
exactly one of them as the audience names it once (`Waiting`); the run knows that it has written for the contact at
hand, by `failed` or `ran` (`AtHand`); and the flags say stop only to runs that were told (`Over`), so that one that
ended without being told has gone through everybody.

*Templates.* Two facts carry the proofs. The bucket never takes a row back, so an answer without the row stays true
however late it is applied (`Final`). And every document that serves as a merge base, in the stored row, in the
array a sync goes by, in the copy a publish has sent or in an answer, is made of values the server took (`Known`),
so that what a merge may overwrite is never an edit nobody has. For `OnlyRacesLoseEdits` the arrays that passes hold
are added (`Kept`): each of them, like the stored one, has the latest edit of every field or the server took it,
unless the edit was saved while a pass held an older array, which `seen.raced` remembers until no pass holds one.
`Sending` says what a publish that removes, or one the server refused, was about; `Contributed` and `Untouched` say
of the copy held by a sync what the properties say of the stored row.

*Drafts.* The callers of an autosave are answered by a job they did not start, so `SubmissionsInv` follows the group
from the editor to the server. `OneUpdate`: while callers wait there is exactly one update job, running or queued.
`NewestLast`: the document that goes last, which is the waiting one or else that of the job, is as new as any a caller
sent. `Requested` and `Landed`: the one request somebody waits for is that of the running job, and the version it was
given is the place of its document in `revisions`, which only grow. `InLine` is needed because a pass wakes up whoever
waits for it: a job is among them only while it looks its row up or refreshes the cache, and once, so that no pass can
wake a job whose request is under way.

*Policy.* A pass reads the store once and writes at four later steps, so what is proved of the store rests on what
the pass still knows at each of them. `Steps`: its revision is not older than the stored policy, and the branches of
a bypass are taken for one. `Kept`, while no page writes: the user's own values are in the maps or in the backup, and
which of the two at each program counter, the copies `current` and `kept` of the pass included. `Fresh`: the reply a
pass has is at least as new as what its owner asked for; that a caller that waits gets such a pass is the loop of
`sync`, and the queue is a duplicate-free sequence of exactly the callers that wait.

*Help.* The stored conversation is reasoned about by itself. `Sound` says of a conversation and the identifiers made
so far: answers stand behind their questions (`InOrder`), the question of an active turn and of an error is the last
thing said (`Waiting`, `Failed`), and unless it shares data no later identifier asks the same (`Latest`). There is one
lemma for each function that `mutate()` applies to the conversation, and a step of the model then shows which function
it applied and that it only added identifiers. `Replaced` is the retry argument: of the identifiers of one question
only the latest can still have a run that goes on. For shared data, `Recorded` and `Resolving` say that a record and
the call that resolves it name the one question the data were sent under, until the record is removed behind its
state (`forgotten`). `CancelledStaysCancelled` follows from the lemmas on who may add an answer.

*Trackers.* A sweep holds what it read while captures, orders and another sweep go on, so one lemma, `Later`, says
what every step keeps: a stored row gives way only to newer ones that fill the table, or goes into `lost` when its
write is refused or it is written over, so what was `Banked` stays banked (`UpsertBanks`); and a row of the index
moves only to the front, with the day of today, which pushes the others back and never forward. A search that counts
from what it was given may therefore see a row twice and never passes one over: `Passed` says that each row of the
part behind it has been read, and `Collected` that a search that came to the end has all rows of its window before
the day it began. (A truncated one moves `from` up to its cursor and speaks for nothing below it.) `Spoken` says of
every copy of the scheduler state (the stored one, those of the setter, of `markPolled` and of `markCursor`) that
its cursor speaks only for banked rows, because each of them may be written back. `retain()` needs a cardinality
argument (`RetainedFull`, `RetainedBanks`: what was dropped is not newer than any of the `MaxRecords` rows kept),
and the oldest row of a page comes from well-founded inclusion (`Least`) in the place of an induction.
`CursorBanked` says no more of a refused or overwritten row than that it was read and given to the table.
`AlarmAloneSkipsNothing` shows that these are the only ways to lose one: in behaviours without a console or
dashboard sweep beside the alarm's, and without a refused write of that table, `Unshared` (what the upsert holds
contains the stored orders) keeps `lost` empty, so every order that was passed is stored. Both premises are needed;
with either event TLC finds an order that was passed and is not stored.

TLC only: the findings of the two violation runs, and all liveness (`EveryRowAcknowledged`, `JobsLeaveQueue`,
`PolicyConverges`, `CallsSettle`, `EditsArrive`, `GateFollowsKey`, `EveryEventCounted`, `TurnEnds`, `OrdersArrive`,
`ClosedRowsSettle`, `RunEnds`), because liveness under fairness and `ENABLED` are out of the prover's reach.

## Where the code and its comments differ

Two are checked by a violation run, each against the line it contradicts (`findings` in `PROJECT.json`):

- `bounce_kept`: `drain` saves the queue it read before asking pages and overwrites a job captured meanwhile
  ("So the worker keeps the job instead of dropping it", `lib/bounce-queue.js:6`).
- `bucket_stale`: a `sync` applies its answer to the array it read before the request, the very thing the
  comment in `publish` warns about (`lib/managed-email-templates.js:417`).

Others met while modelling. The behaviour is in the models (so the passing properties hold in spite of it, and
some state the exception in their condition); no run is spent on each:

- Delivery: a worker killed between `mergeRemote` and `capture` never queues the bounce, although "the queue keeps
  it until a CRM page can turn it into a task" (`lib/notifications-poll.js:228`). The header says events are
  *always* applied before the cursor advances; after `MAX_APPLY_ATTEMPTS` a row is skipped. Giving up deletes the
  row's count, so when a later row of the batch throws, the given-up row starts over with new attempts.
- Bounces: a page slower than `ASK_TIMEOUT_MS` is not stopped while the next tab is asked, so two tasks can be
  written (`SingleTask` allows one more for each timeout, kill and click); `capture` writes back the ledger it read,
  so an address closed in between is open again.
- Policy: `applyConfiguration` writes whole maps from a copy read before its awaits, so a setting saved
  meanwhile is put back; a page save whose policy was read one callback earlier overwrites a new policy until
  the next pass, or writes forced values back after a bypass restored the user's (`toggles = 0` in two properties).
- Templates: a row edited while its publish is in flight keeps the whole local document over a merged base, so
  another parent's field is written back; an answer that arrives after a removal adopts the detached copy again;
  overlapping sync and publish may store the older answer last; an edit made while the share PATCH is under way is
  not heard (`Alone` in `EditsArrive`); an edit saved between the second read of a publish and its write (`:423` to
  `:351`), or between the read and the write of `acknowledgeShare` (`:176` to `:197`), is overwritten like the one
  of `bucket_stale`, only in a shorter window (`seen.raced` in `OnlyRacedEditsAreLost`); a deleted row that is not
  yet published is stored again by the next answer.
- Submissions: the editor's predicted version takes a foreign edit for its own echo
  (`src/pages/TemplateEditor.jsx:369`); the update loop re-enters behind an approval that waits, so an older queued
  document is accepted over the approved one; answers are cached in arrival order; a refused write drops the newer
  document queued behind it.
- Gate: a 401 of any other call closes the gate, although only an explicit revocation may
  (`lib/runtime-bootstrap.js:64`); the message that wakes a worker is refused until `start` has read the record; a
  refused write of the record resolves like an accepted one (`lib/runtime-state.js:67-69`), so after a refused
  revocation the pages stay open beside a worker that is closed, and a restart opens the worker again until its
  check is answered (`unsaved` in `ClosedIsClosed` and `RevocationHolds`).
- Telemetry: a refused write resolves like an accepted one (`lib/usage-telemetry.js:156`), so a batch can be
  posted that no restart would find again.
- Help: a late failure of `send()` clears the poll schedule without looking at whose it is
  (`help/help-assistant.js:243`), so a newer run is not polled until something resumes it, although "The service
  worker keeps polling" (`docs/content/getting-started.json:94`); denying an approval that a kill has left pending
  records that nothing was shared although the request may have arrived; an approval whose send is ignored behind a
  cancel is recorded as submitted; allowing a pending approval again can repeat its bubble. Clearing stores the
  empty conversation before it removes the approvals (`help/help-assistant.js:443-449`), so an approval made between
  the two loses its record and its data can be shared under a second identifier (`forgotten` in `SharedUnderOneId`).
  Approved data that are allowed again go out under their first identifier although a later retry of them may have
  run (the last condition of `RetryIsTheSameRun`).
- Trackers: "A cursor that only advances over data it actually banked cannot skip" and "only past data we hold"
  (`lib/tracker-store.js:182`, `:194`): a refused write of the table resolves (`:37-40`), nobody reads the result,
  and the cursor passes the rows that were not stored; they are not asked for again unless the cursor is rewound
  (`lost` in `CursorBanked` and `OrdersArrive`). "ONE WRITER ... keeps two CRM tabs from clobbering each other's
  merge" (`lib/tracker-store.js:3-8`): one worker writes, but two captures, a capture and a refresh, or two sweeps
  can all read a table before either writes it (`lost`, and the stale rows of `ClosedRowsSettle`); "a rep who turned
  one off keeps that decision" (`:215`): `markPolled` and `markCursor` write back the switch they read, and a switch
  writes back the cursor it read; "the guard is what keeps two sweeps from double-spending"
  (`lib/tracker-runtime.js:460`): it is set behind two awaits, and the first sweep to end takes it down for the
  other.
- Workflows: a stop during the preparation of the first writing contact does not keep its first write back
  (`beforeEffect` looks at stop in the delay only; `StopIsPrompt` excepts it); a write whose answer is lost does
  not count towards the cap (`lost` in `CapKept`); closing the manager does not stop its run. The flags of a
  stopped run are replaced by the next start before it has looked at them, and it goes on writing, also below a
  view labelled "Dry-run · no CRM changes" (`src/modals/WorkflowManager.jsx:532` and `:728`; "The code runner now
  enforces audience order, suppression, pacing, pause/stop, and a run-wide action cap",
  `docs/workflow-code-engine.md:12`): `StopIsPrompt` speaks of the flags and not of the click. The trace entry of
  `page.evaluate` counts as one that ran, so a contact all of whose writes were skipped is reported as sent
  (what is not a CRM effect "must not inflate live-run action counts", `src/lib/workflow/codeRunner.js:168`).

## What is not modelled

- In modelled components: the notification store's limit of 200 rows, read marks and badge; the limit on
  toasts; the ledger's 30-day expiry and the week-old test as time (expiry is a step); one CRM contact per
  address; legacy key names and the `had` flags of the policy backup; broadcasts to tabs; enrolment of new
  local templates and the page's own copy of the array; `create` and the rendering side of submissions; the
  helper flag, record format and slot migration of the access record; reads of `chrome.storage` that fail and resolve to
  nothing (`lib/tracker-store.js:32-35`, `lib/notifications-poll.js:31-35`): a read that is made always answers.
- Components with status `not_modelled`: the stateful ones are in the plan below; the rest are parsers, views,
  single requests and calculations whose results do not depend on interleavings or failures.

- In the newer models: saved states of version 2 and the saturation of counts (telemetry); unread counts,
  ratings, the 40-message limit and health (help); the proposals tracker, which captures into a table of its own
  by the same code, rows older than the retention, orders the index stamps with a day that is over, and the log
  (trackers); the legacy step engine, the editor and its Simulate panel, the order of the audience, results that
  a later write uses, a pace of zero, which only an imported workflow can have and which does not look at pause,
  and a dry-run switch turned while a confirmed run waits for its settings (workflows).

The models cover a small share of the repository's lines, and cannot cover much of it: most of the roughly
168,000 lines are React screens, a three-dimensional viewer, guide texts, generated bundles, style and markup
conversion and product data, where a run of the code is one event handler that changes what is on the
screen. What several actors change, what has to outlive a worker and what crosses the network is in `lib/`,
`help/` and a few files of `src/lib/`, and that is what is modelled or planned.

`PROJECT.json` lists forty hazards; further ones in the modelled components are the predicted version of the editor
(`src/pages/TemplateEditor.jsx:389`), the guard of the sweep (`lib/tracker-runtime.js:482`), the answers of a sync
and a publish that overlap (`lib/managed-email-templates.js:397`), a refused write that resolves
(`lib/usage-telemetry.js:156`), a saved document whose answer is lost (`lib/email-template-submissions.js:108`), a
publish sent again (`lib/managed-email-templates.js:459`), a gate closed by mistake
(`lib/runtime-bootstrap.js:112`), a created task whose answer is unusable (`src/lib/crmTasks.js:262`) and the worker
that is reloaded with `openState` false (`background.js:1125`). Known for the planned ones: the migration outside
the write queue (`src/lib/emailTemplateTrackingStore.js:255`); eviction and "new" rows
(`lib/notifications-store.js:207`); a late 401 that clears renewed credentials
(`iframe/auth-session-broker.js:133`); templates that are read before a share request and written behind it
(`lib/live-updates.js:171`); an identity change that is answered by the promise of an older one
(`lib/installation-auth.js:585`).

## Plan

Done: 1 NotificationDelivery with Outbox and proofs, 2 BounceQueue with proofs, 3 SettingsPolicy with proofs, 4
TemplateSubmissions with proofs, 5 ManagedTemplates with proofs, 6 RuntimeGate with proofs, 7 UsageTelemetry with
UsageLedger and proofs, 8 HelpConversation with proofs, 9 TrackerSweep with proofs, 10 WorkflowRun with proofs.

Next, in this order:

11. `BulkEmail`, the runner of email campaigns (`src/modals/EmailRunner.jsx`, `src/lib/emailRunControl.js`):
    nothing is dispatched after a cancel, the send log and the recent-contact check agree.
12. `NotificationStore` with the limit, composed with the delivery's `Merge`.
13. `ShareUpdates`, identity enrolment and cooldowns, send tracking, index stores, session broker; a mailbox as
    the contract of TemplateSubmissions (each save is superseded or accepted).
