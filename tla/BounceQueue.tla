---------------------------- MODULE BounceQueue ----------------------------
(***************************************************************************)
(* Bounced-contact work: the service worker's durable queue and ledger     *)
(* (lib/bounce-queue.js) and the CRM page that does the work               *)
(* (src/vanilla-build/bounce-flag.entry.js).                               *)
(*                                                                         *)
(* capture() and drain() run in one worker but read and write the same two *)
(* storage keys around their awaits; a page checks the CRM and then writes *)
(* a task, and several of these flows may be in flight: one the worker     *)
(* stopped waiting for, one in another tab, one the rep clicked.           *)
(***************************************************************************)
EXTENDS Naturals, FiniteSets, Functions

CONSTANTS Jobs,         \* bounce notifications (remoteId), in outbox order
          Addresses,    \* the addresses a page may be asked about
          Address,      \* the address of each job
          Contacts,     \* addresses that match exactly one CRM contact
          Tabs,         \* number of open api.golfballs.com tabs
          PerDrain,     \* PER_DRAIN
          MaxAttempts,  \* MAX_ATTEMPTS
          MaxFlows,     \* bound: flows in flight on the pages
          MaxUpsets,    \* bound: askTab timeouts, worker terminations, manual
                        \* clicks on the notification's button, jobs that
                        \* expire and the switch turned off, together
          MaxRefusals   \* bound: flows that end in an error

ASSUME BounceAssumption ==
    /\ Jobs \subseteq Nat
    /\ Address \in [Jobs -> Addresses]
    /\ Addresses # {} /\ Contacts \subseteq Addresses
    /\ {Tabs, MaxUpsets, MaxRefusals} \subseteq Nat
    /\ {PerDrain, MaxAttempts, MaxFlows} \subseteq Nat \ {0}

Statuses == {"created", "existing", "unresolved", "failed"}
FlowIds == 1..MaxFlows

VARIABLES
    bounceQueue, \* gbBounceQueue: job -> attempts; worked in outbox order
    ledger,      \* gbBounceLedger: settled addresses
    autoFlag,    \* devSettings['bounce.autoFlag'] !== false
    expired,     \* jobs older than JOB_MAX_AGE_MS
    capture,     \* capture() between its read and its write
    drain,       \* drain(), and the askCrm loop inside it
    flows,       \* flagBouncedContact calls in flight on CRM pages
    tasks,       \* CRM: open bounce tasks per address
    offered,     \* notifications mergeRemote has reported as new
    captured,    \* history: jobs capture() stored
    dropped,     \* history: jobs removed by age or by the switch
    refusals,    \* history: errors answered to the worker about each job
    timeouts, deaths, clicks, errors

bounceStorage == <<bounceQueue, ledger>>
bounceHistory == <<captured, dropped, refusals>>
bounceBudgets == <<timeouts, deaths, clicks, errors>>
bounceVars == <<bounceStorage, offered, autoFlag, expired, capture, drain,
                flows, tasks, bounceHistory, bounceBudgets>>

NoLedger == [a \in Addresses |-> "none"]
NoJobs == [j \in {} |-> 0]
Idle == [pc |-> "idle", jobs |-> NoJobs, ledger |-> NoLedger, settled |-> {},
         todo |-> {}, job |-> 0, left |-> 0, refused |-> FALSE, flow |-> 0]
NoFlow == [step |-> "free", address |-> CHOOSE a \in Addresses : TRUE]
NoCapture == [fresh |-> {}, queue |-> NoJobs, ledger |-> NoLedger]

UpsetLeft ==
    timeouts + deaths + clicks + Cardinality(expired) + (IF autoFlag THEN 0 ELSE 1)
      < MaxUpsets
Fresh(queue) == Restrict(queue, DOMAIN queue \ expired)

Queues(attempts) == UNION {[held -> attempts] : held \in SUBSET Jobs}
(* A queue that is stored holds no job that used up its attempts.          *)
StorableQueues == Queues(0..(MaxAttempts - 1))
Ledgers == [Addresses -> Statuses \cup {"none"}]
Drains == [pc : {"idle", "clear", "next", "ask", "wait", "write"},
           jobs : Queues(0..MaxAttempts), ledger : Ledgers,
           settled : SUBSET Jobs, todo : SUBSET Jobs, job : Jobs \cup {0},
           left : 0..Tabs, refused : BOOLEAN, flow : FlowIds \cup {0}]

(* A drain works on jobs of its own copy that are neither settled nor      *)
(* spent, one at a time.                                                   *)
DrainOK ==
    /\ drain.todo \subseteq DOMAIN drain.jobs \ drain.settled
    /\ \A j \in DOMAIN drain.jobs \ drain.settled : drain.jobs[j] < MaxAttempts
    /\ drain.pc \in {"ask", "wait"} =>
           drain.job \in DOMAIN drain.jobs \ (drain.settled \cup drain.todo)
    /\ drain.pc = "wait" => drain.flow \in FlowIds /\ drain.left > 0

BounceWorkerOK ==
    /\ bounceQueue \in StorableQueues /\ ledger \in Ledgers
    /\ capture \in [fresh : SUBSET Jobs, queue : StorableQueues, ledger : Ledgers]
    /\ drain \in Drains /\ DrainOK

PagesOK ==
    /\ flows \in [FlowIds -> [step : {"free", "check", "create"}, address : Addresses]]
    /\ \A f \in FlowIds : flows[f].step = "create" => flows[f].address \in Contacts
    /\ tasks \in [Addresses -> Nat] /\ \A a \in Addresses \ Contacts : tasks[a] = 0

JobHistoryOK ==
    /\ offered \subseteq Jobs /\ captured \subseteq offered
    /\ expired \subseteq captured /\ dropped \subseteq captured
    /\ capture.fresh \subseteq offered
    /\ DOMAIN bounceQueue \cup DOMAIN capture.queue \cup DOMAIN drain.jobs \subseteq captured
    /\ refusals \in [Jobs -> Nat]

CountsOK ==
    /\ autoFlag \in BOOLEAN
    /\ timeouts \in Nat /\ deaths \in Nat /\ clicks \in Nat /\ errors \in Nat

BounceTypeOK == BounceWorkerOK /\ PagesOK /\ JobHistoryOK /\ CountsOK

BounceInit ==
    /\ bounceQueue = NoJobs /\ ledger = NoLedger
    /\ autoFlag = TRUE /\ expired = {}
    /\ capture = NoCapture /\ drain = Idle
    /\ flows = [f \in FlowIds |-> NoFlow]
    /\ \E held \in SUBSET Contacts :
         tasks = [a \in Addresses |-> IF a \in held THEN 1 ELSE 0]
    /\ offered = {}
    /\ captured = {} /\ dropped = {} /\ refusals = [j \in Jobs |-> 0]
    /\ timeouts = 0 /\ deaths = 0 /\ clicks = 0 /\ errors = 0

-----------------------------------------------------------------------------
(* The worker: capture.                                                    *)

(* A poll reports a batch of new rows, in outbox order, and may skip some  *)
(* for good.  Jobs whose address the ledger already holds are not taken.   *)
CaptureRead(batch) ==
    /\ capture = NoCapture
    /\ \A i \in offered, j \in batch : i < j
    /\ offered' = offered \cup batch
    /\ autoFlag
    /\ LET fresh == {j \in batch : ledger[Address[j]] = "none"} IN
       /\ fresh # {}
       /\ capture' = [fresh |-> fresh, queue |-> bounceQueue, ledger |-> ledger]
    /\ UNCHANGED <<bounceStorage, autoFlag, expired, drain, flows, tasks, bounceHistory,
                   bounceBudgets>>

(* mergeJobs: expired jobs go, and a new job joins unless a queued job or  *)
(* an earlier new one has its address.                                     *)
Merged(queue, fresh) ==
    LET kept == Fresh(queue)
        new == {j \in fresh : \A i \in DOMAIN kept \cup {k \in fresh : k < j} :
                                Address[i] # Address[j]}
    IN [j \in DOMAIN kept \cup new |-> IF j \in DOMAIN kept THEN kept[j] ELSE 0]

CaptureWrite ==
    /\ capture.fresh # {}
    /\ bounceQueue' = Merged(capture.queue, capture.fresh)
    /\ ledger' = capture.ledger
    /\ captured' = captured \cup (DOMAIN bounceQueue' \cap capture.fresh)
    /\ dropped' = dropped \cup (DOMAIN capture.queue \cap expired)
    /\ capture' = NoCapture
    /\ UNCHANGED <<offered, autoFlag, expired, drain, flows, tasks, refusals,
                   bounceBudgets>>

-----------------------------------------------------------------------------
(* The worker: drain.                                                      *)

Pending == Fresh(bounceQueue)

Before(queue, j) == {i \in DOMAIN queue : i < j}

(* Mutant of Share: slice(1, PER_DRAIN).                                   *)
ShareSkipsFirst(queue) ==
    {j \in DOMAIN queue : Cardinality(Before(queue, j)) \in 1..(PerDrain - 1)}

(* The jobs of one wake: the oldest PER_DRAIN of the queue.                *)
Share(queue) == {j \in DOMAIN queue : Cardinality(Before(queue, j)) < PerDrain}

(* `draining` admits one drain at a time.  An empty queue is only cleaned; *)
(* a queue found with the switch off is cleared.                           *)
DrainStart ==
    /\ drain.pc = "idle"
    /\ DOMAIN bounceQueue # {}
    /\ drain' = [Idle EXCEPT
           !.pc = IF DOMAIN Pending = {} \/ ~autoFlag THEN "clear" ELSE "next",
           !.jobs = Pending, !.todo = Share(Pending), !.ledger = ledger]
    /\ UNCHANGED <<bounceStorage, offered, autoFlag, expired, capture, flows, tasks,
                   bounceHistory, bounceBudgets>>

DrainClear ==
    /\ drain.pc = "clear"
    /\ bounceQueue' = NoJobs /\ ledger' = drain.ledger
    /\ dropped' = dropped \cup DOMAIN drain.jobs \cup (DOMAIN bounceQueue \cap expired)
    /\ drain' = Idle
    /\ UNCHANGED <<offered, autoFlag, expired, capture, flows, tasks, captured, refusals,
                   bounceBudgets>>

(* The next job of the share; one whose address is in the ledger by now is *)
(* settled unasked.                                                        *)
NextJob ==
    /\ drain.pc = "next"
    /\ \E j \in drain.todo :
         /\ \A i \in drain.todo : j <= i
         /\ drain' = IF drain.ledger[Address[j]] # "none"
                     THEN [drain EXCEPT !.settled = @ \cup {j}, !.todo = @ \ {j}]
                     ELSE [drain EXCEPT !.pc = "ask", !.job = j, !.todo = @ \ {j},
                                        !.left = Tabs, !.refused = FALSE]
    /\ UNCHANGED <<bounceStorage, offered, autoFlag, expired, capture, flows, tasks,
                   bounceHistory, bounceBudgets>>

NoMoreJobs ==
    /\ drain.pc = "next" /\ drain.todo = {}
    /\ drain' = [drain EXCEPT !.pc = "write"]
    /\ UNCHANGED <<bounceStorage, offered, autoFlag, expired, capture, flows, tasks,
                   bounceHistory, bounceBudgets>>

(* A tab mid-navigation has no listener: on to the next one.               *)
TabSilent ==
    /\ drain.pc = "ask" /\ drain.left > 0
    /\ drain' = [drain EXCEPT !.left = @ - 1]
    /\ UNCHANGED <<bounceStorage, offered, autoFlag, expired, capture, flows,
                   tasks, bounceHistory, bounceBudgets>>

AskTab(f) ==
    /\ drain.pc = "ask" /\ drain.left > 0
    /\ flows[f].step = "free"
    /\ flows' = [flows EXCEPT ![f] = [step |-> "check", address |-> Address[drain.job]]]
    /\ drain' = [drain EXCEPT !.pc = "wait", !.flow = f]
    /\ UNCHANGED <<bounceStorage, offered, autoFlag, expired, capture, tasks,
                   bounceHistory, bounceBudgets>>

(* ASK_TIMEOUT_MS: the worker moves on, the page does not stop.            *)
TabTimeout ==
    /\ drain.pc = "wait"
    /\ UpsetLeft
    /\ timeouts' = timeouts + 1
    /\ drain' = [drain EXCEPT !.pc = "ask", !.left = @ - 1, !.flow = 0]
    /\ UNCHANGED <<bounceStorage, offered, autoFlag, expired, capture, flows, tasks, bounceHistory,
                   deaths, clicks, errors>>

(* Every tab asked.  Without any answer the wake ends and keeps what is    *)
(* left; an error answered by a page costs the job an attempt.             *)
NoAnswer ==
    /\ drain.pc = "ask" /\ drain.left = 0 /\ ~drain.refused
    /\ drain' = [drain EXCEPT !.pc = "write"]
    /\ UNCHANGED <<bounceStorage, offered, autoFlag, expired, capture, flows,
                   tasks, bounceHistory, bounceBudgets>>

(* Mutant of BurnAttempt: a wake nobody answered costs an attempt too.     *)
BurnAttemptAlways ==
    /\ drain.pc = "ask" /\ drain.left = 0
    /\ LET tried == drain.jobs[drain.job] + 1
           spent == tried >= MaxAttempts
       IN drain' = [drain EXCEPT
              !.pc = "next",
              !.jobs[drain.job] = tried,
              !.ledger[Address[drain.job]] = IF spent THEN "failed" ELSE @,
              !.settled = IF spent THEN @ \cup {drain.job} ELSE @]
    /\ UNCHANGED <<bounceStorage, offered, autoFlag, expired, capture, flows, tasks, bounceHistory,
                   bounceBudgets>>

BurnAttempt ==
    /\ drain.pc = "ask" /\ drain.left = 0 /\ drain.refused
    /\ LET tried == drain.jobs[drain.job] + 1
           spent == tried >= MaxAttempts
       IN drain' = [drain EXCEPT
              !.pc = "next",
              !.jobs[drain.job] = tried,
              !.ledger[Address[drain.job]] = IF spent THEN "failed" ELSE @,
              !.settled = IF spent THEN @ \cup {drain.job} ELSE @]
    /\ UNCHANGED <<bounceStorage, offered, autoFlag, expired, capture, flows,
                   tasks, bounceHistory, bounceBudgets>>

DrainWrite ==
    /\ drain.pc = "write"
    /\ bounceQueue' = Restrict(drain.jobs, DOMAIN drain.jobs \ drain.settled)
    /\ ledger' = drain.ledger
    /\ dropped' = dropped \cup (DOMAIN bounceQueue \cap expired)
    /\ drain' = Idle
    /\ UNCHANGED <<offered, autoFlag, expired, capture, flows, tasks, captured,
                   refusals, bounceBudgets>>

-----------------------------------------------------------------------------
(* The CRM page: flagBouncedContact, between its CRM calls.                *)

Asked(f) == drain.pc = "wait" /\ drain.flow = f

(* An answer reaches drain() if it still waits for this flow: an outcome   *)
(* settles the job, an error sends it to the next tab.                     *)
Answer(f, status) ==
    /\ flows' = [flows EXCEPT ![f] = NoFlow]
    /\ IF Asked(f)
       THEN /\ drain' = [drain EXCEPT !.pc = "next", !.flow = 0,
                                      !.ledger[Address[drain.job]] = status,
                                      !.settled = @ \cup {drain.job}]
       ELSE UNCHANGED drain
    /\ UNCHANGED <<bounceStorage, offered, autoFlag, expired, capture, captured, dropped,
                   refusals, bounceBudgets>>

Unresolved(f) ==
    /\ flows[f].step = "check" /\ flows[f].address \notin Contacts
    /\ Answer(f, "unresolved")
    /\ UNCHANGED tasks

Existing(f) ==
    /\ flows[f].step = "check" /\ flows[f].address \in Contacts
    /\ tasks[flows[f].address] > 0
    /\ Answer(f, "existing")
    /\ UNCHANGED tasks

(* Mutant of CheckedNone: an open bounce task is not looked for.           *)
CheckedNothing(f) ==
    /\ flows[f].step = "check" /\ flows[f].address \in Contacts
    /\ flows' = [flows EXCEPT ![f].step = "create"]
    /\ UNCHANGED <<bounceStorage, offered, autoFlag, expired, capture, drain, tasks, bounceHistory,
                   bounceBudgets>>

CheckedNone(f) ==
    /\ flows[f].step = "check" /\ flows[f].address \in Contacts
    /\ tasks[flows[f].address] = 0
    /\ flows' = [flows EXCEPT ![f].step = "create"]
    /\ UNCHANGED <<bounceStorage, offered, autoFlag, expired, capture, drain,
                   tasks, bounceHistory, bounceBudgets>>

Created(f) ==
    /\ flows[f].step = "create"
    /\ tasks' = [tasks EXCEPT ![flows[f].address] = @ + 1]
    /\ Answer(f, "created")

(* A CRM call throws; the create may have been carried out all the same    *)
(* ("CRM accepted the request but no TaskId came back").                   *)
Refuses(f) ==
    /\ flows[f].step # "free"
    /\ errors < MaxRefusals /\ errors' = errors + 1
    /\ flows' = [flows EXCEPT ![f] = NoFlow]
    /\ \/ UNCHANGED tasks
       \/ /\ flows[f].step = "create"
          /\ tasks' = [tasks EXCEPT ![flows[f].address] = @ + 1]
    /\ IF Asked(f)
       THEN /\ drain' = [drain EXCEPT !.pc = "ask", !.left = @ - 1, !.flow = 0,
                                      !.refused = TRUE]
            /\ refusals' = [refusals EXCEPT ![drain.job] = @ + 1]
       ELSE UNCHANGED <<drain, refusals>>
    /\ UNCHANGED <<bounceStorage, offered, autoFlag, expired, capture, captured, dropped,
                   timeouts, deaths, clicks>>

(* The notification's own button runs the same flow.                       *)
Click(f, a) ==
    /\ UpsetLeft /\ clicks' = clicks + 1
    /\ flows[f].step = "free"
    /\ flows' = [flows EXCEPT ![f] = [step |-> "check", address |-> a]]
    /\ UNCHANGED <<bounceStorage, offered, autoFlag, expired, capture, drain, tasks, bounceHistory,
                   timeouts, deaths, errors>>

-----------------------------------------------------------------------------
(* Around them.                                                            *)

WorkerDies ==
    /\ UpsetLeft /\ deaths' = deaths + 1
    /\ capture' = NoCapture /\ drain' = Idle
    /\ UNCHANGED <<bounceStorage, offered, autoFlag, expired, flows, tasks, bounceHistory, timeouts,
                   clicks, errors>>

SwitchOff ==
    /\ UpsetLeft
    /\ autoFlag /\ autoFlag' = FALSE
    /\ UNCHANGED <<bounceStorage, offered, expired, capture, drain, flows,
                   tasks, bounceHistory, bounceBudgets>>

Expire(j) ==
    /\ UpsetLeft
    /\ j \in captured \ expired
    /\ expired' = expired \cup {j}
    /\ UNCHANGED <<bounceStorage, offered, autoFlag, capture, drain, flows,
                   tasks, bounceHistory, bounceBudgets>>

DrainStep ==
    \/ DrainClear \/ NextJob \/ NoMoreJobs \/ NoAnswer \/ BurnAttempt \/ DrainWrite
    \/ \E f \in FlowIds : AskTab(f)

PageStep(f) == Unresolved(f) \/ Existing(f) \/ CheckedNone(f) \/ Created(f)

BounceNext ==
    \/ \E batch \in SUBSET Jobs : CaptureRead(batch)
    \/ \E j \in Jobs : Expire(j)
    \/ CaptureWrite
    \/ DrainStart \/ DrainClear \/ NextJob \/ NoMoreJobs
    \/ TabSilent \/ TabTimeout \/ NoAnswer \/ BurnAttempt \/ DrainWrite
    \/ \E f \in FlowIds :
         \/ AskTab(f) \/ Unresolved(f) \/ Existing(f) \/ CheckedNone(f)
         \/ Created(f) \/ Refuses(f)
         \/ \E a \in Addresses : Click(f, a)
    \/ WorkerDies \/ SwitchOff

BounceSpec == BounceInit /\ [][BounceNext]_bounceVars

(* Every poll tick and every CRM page load drains; a CRM tab that is open  *)
(* gets to answer sometimes, and a page flow goes on.                      *)
BounceFairness == /\ WF_bounceVars(DrainStart) /\ WF_bounceVars(DrainStep)
            /\ SF_bounceVars(\E f \in FlowIds : AskTab(f))
            /\ \A f \in FlowIds : WF_bounceVars(PageStep(f))

BounceFairSpec == BounceSpec /\ BounceFairness

-----------------------------------------------------------------------------
(* "Only a tab that answered 'I could not' burns an attempt": silence,     *)
(* timeouts, restarts and overwritten queues never cost a job one, and an  *)
(* address is closed as failed only after MAX_ATTEMPTS real refusals.      *)
OnlyRefusalsBurnAttempts ==
    /\ \A j \in DOMAIN bounceQueue : bounceQueue[j] <= refusals[j]
    /\ \A a \in Addresses :
         ledger[a] = "failed" =>
           \E j \in Jobs : Address[j] = a /\ refusals[j] >= MaxAttempts

(* Rules 1 to 3: a task is written once.  A page the worker gave up on, a  *)
(* flow it does not remember after a kill and a click of the rep run       *)
(* beside the next ask, and each of them writes at most one task more,     *)
(* whatever is asked, refused, answered unusably and tried again meanwhile. *)
SingleTask == \A a \in Addresses : tasks[a] <= 1 + timeouts + deaths + clicks

(* A job whose turn comes again and again with a CRM page open leaves the  *)
(* queue, however its predecessors fail.                                   *)
JobsLeaveQueue == \A j \in Jobs : j \in DOMAIN bounceQueue ~> j \notin DOMAIN bounceQueue

(* lib/bounce-queue.js:6-7 "So the worker keeps the job instead of         *)
(* dropping it": a captured job is queued until its address is in the      *)
(* ledger, it is a week old, or the switch is off.                         *)
JobKept ==
    \A j \in captured : \/ j \in DOMAIN bounceQueue \cup dropped
                        \/ ledger[Address[j]] # "none"
=============================================================================
