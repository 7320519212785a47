-------------------------- MODULE HelpConversation --------------------------
(***************************************************************************)
(* help/help-assistant.js with help/help-chat-state.js: the conversation   *)
(* of a rep with the Help Companion, kept by the worker.                   *)
(*                                                                         *)
(* A turn is submitted under a request identifier, the service makes one   *)
(* run of it, and the worker polls the run until it ends.  A turn can be   *)
(* cancelled, can fail and be retried, and can be overtaken by a newer one *)
(* while its requests are still under way.  An answer may ask for saved    *)
(* data, which the rep allows or denies once.                              *)
(*                                                                         *)
(* Request identifiers are numbered as they are made, and a run is named   *)
(* by its request.  A question is named by the first identifier it had.    *)
(***************************************************************************)
EXTENDS Naturals, Sequences, SequencesExt

CONSTANTS MaxIds,      \* request identifiers made
          MaxTurns,    \* turns begun, retries included
          MaxDecisions,  \* clicks on allow and deny
          MaxMishaps     \* cancels, clears, lost answers, refusals, kills

ASSUME HelpAssumption ==
    /\ MaxIds \in Nat \ {0} /\ MaxTurns \in Nat \ {0}
    /\ MaxDecisions \in Nat /\ MaxMishaps \in Nat

VARIABLES
    chat,       \* gbHelpChatStateV1
    approvals,  \* gbHelpDataApprovalsV1: per answer that asks for data
    alarm,      \* the alarm and the timer of the next poll
    post,       \* per turn: its POST and the send() that waits for it
    poll, resume, cancel, resolve, clearing,  \* calls waiting at an await
    run,        \* the service: the run of each request identifier
    req, question, turns, ids,  \* what was submitted so far
    givenUp, shared, forgotten, \* history
    decisions, mishaps

calls   == <<post, poll, resume, cancel, resolve, clearing>>
asked   == <<req, question, turns, ids>>
history == <<givenUp, shared, forgotten>>
bounds  == <<decisions, mishaps>>
vars    == <<chat, approvals, alarm, calls, run, asked, history, bounds>>

Ids   == 1..MaxIds
Turns == 1..MaxTurns

Ended  == {"done", "failed", "cancelled"}
Status == {"live"} \cup Ended

NoError    == [id |-> 0, ask |-> 0, reuse |-> FALSE]
NoPoll     == [id |-> 0, answer |-> "none"]
NoCancel   == [stage |-> "none", id |-> 0, answer |-> "none"]
NoResolve  == [stage |-> "none", receipt |-> 0, id |-> 0, turn |-> 0]
NoApproval == [status |-> "none", id |-> 0]

EmptyChat == [messages |-> <<>>, active |-> 0, running |-> FALSE, error |-> NoError]

Init ==
    /\ chat = EmptyChat /\ alarm = FALSE
    /\ approvals = [i \in Ids |-> NoApproval]
    /\ post = [t \in Turns |-> "over"] /\ poll = NoPoll /\ resume = FALSE
    /\ cancel = NoCancel /\ resolve = NoResolve /\ clearing = FALSE
    /\ run = [i \in Ids |-> "none"]
    /\ req = [t \in Turns |-> 0] /\ question = [i \in Ids |-> 0]
    /\ turns = 0 /\ ids = 0
    /\ givenUp = {} /\ shared = [i \in Ids |-> {}] /\ forgotten = {}
    /\ decisions = 0 /\ mishaps = 0

Mishap == mishaps < MaxMishaps /\ mishaps' = mishaps + 1 /\ decisions' = decisions
-----------------------------------------------------------------------------
(* help-chat-state.js: the functions mutate() applies to the stored state. *)

Bubble(q)  == [role |-> "user", id |-> q]
Answer(id) == [role |-> "assistant", id |-> id]

LastAsked(messages) ==
    LET asks == {k \in DOMAIN messages : messages[k].role = "user"}
    IN  IF asks = {} THEN 0
        ELSE messages[CHOOSE k \in asks : \A l \in asks : l <= k].id

BeginTurn(c, id, q, reuseLastUser) ==
    LET again == reuseLastUser /\ c.messages # <<>> /\ Last(c.messages) = Bubble(q)
    IN  [messages |-> IF again THEN c.messages ELSE Append(c.messages, Bubble(q)),
         active |-> id, running |-> FALSE, error |-> NoError]

TurnOver(messages, error) ==
    [messages |-> messages, active |-> 0, running |-> FALSE, error |-> error]

FailTurn(c, q, reuse) ==
    TurnOver(c.messages, [id |-> c.active, ask |-> q, reuse |-> reuse])

(* id is the run the payload names.                                        *)
ApplyRun(c, id, status) ==
    CASE status = "live" ->
           IF c.active = 0 THEN c ELSE [c EXCEPT !.running = TRUE]
      [] status = "done" ->
           TurnOver(IF Answer(id) \in ToSet(c.messages) THEN c.messages
                    ELSE Append(c.messages, Answer(id)), NoError)
      [] status = "cancelled" -> TurnOver(c.messages, NoError)
      [] OTHER -> FailTurn(c, LastAsked(c.messages), FALSE)

(* schedulePoll(state) clears the poll and makes one only for a run.       *)
Schedules(c) == c.active # 0 /\ c.running
-----------------------------------------------------------------------------
(* send(): the turn begins and its POST leaves.                            *)

Send(id, q, retry) ==
    /\ chat.active = 0
    /\ turns < MaxTurns
    /\ turns' = turns + 1
    /\ chat' = BeginTurn(chat, id, q, retry)
    /\ req' = [req EXCEPT ![turns + 1] = id]
    /\ question' = [question EXCEPT ![id] = q]
    /\ post' = [post EXCEPT ![turns + 1] = "sent"]

Ask ==
    /\ ids < MaxIds
    /\ ids' = ids + 1
    /\ Send(ids + 1, ids + 1, FALSE)
    /\ UNCHANGED <<approvals, alarm, poll, resume, cancel, resolve, clearing, run,
                   history, bounds>>

Retry ==
    /\ chat.error.ask # 0
    /\ IF chat.error.reuse
       THEN ids' = ids /\ Send(chat.error.id, chat.error.ask, TRUE)
       ELSE /\ ids < MaxIds
            /\ ids' = ids + 1
            /\ Send(ids + 1, chat.error.ask, TRUE)
    /\ UNCHANGED <<approvals, alarm, poll, resume, cancel, resolve, clearing, run,
                   history, bounds>>

(* The service: one run for a request identifier, however often it comes.  *)
Started(id) == [run EXCEPT ![id] = IF @ = "none" THEN "live" ELSE @]

PostTaken(t) ==
    /\ post[t] = "sent"
    /\ run' = Started(req[t])
    /\ \/ post' = [post EXCEPT ![t] = run'[req[t]]] /\ UNCHANGED bounds
       \/ post' = [post EXCEPT ![t] = "error"] /\ Mishap
    /\ UNCHANGED <<chat, approvals, alarm, poll, resume, cancel, resolve, clearing,
                   asked, history>>

PostRefused(t) ==
    /\ post[t] = "sent"
    /\ post' = [post EXCEPT ![t] = "error"]
    /\ Mishap
    /\ UNCHANGED <<chat, approvals, alarm, poll, resume, cancel, resolve, clearing,
                   run, asked, history>>

(* The request of a worker that was killed.                                *)
OrphanTaken(t) ==
    /\ post[t] = "orphan"
    /\ run' = Started(req[t])
    /\ post' = [post EXCEPT ![t] = "over"]
    /\ UNCHANGED <<chat, approvals, alarm, poll, resume, cancel, resolve, clearing,
                   asked, history, bounds>>

RunEnds(i) ==
    /\ run[i] = "live"
    /\ \/ run' = [run EXCEPT ![i] = "done"] /\ UNCHANGED bounds
       \/ run' = [run EXCEPT ![i] = "failed"] /\ Mishap
    /\ UNCHANGED <<chat, approvals, alarm, calls, asked, history>>

(* What resolveDataAccess reads of the state its send() returned.          *)
Resolved(t) ==
    resolve' = IF resolve.stage = "sending" /\ resolve.turn = t
               THEN [resolve EXCEPT !.stage = IF chat'.error.id = resolve.id
                                              THEN "failed" ELSE "submitted"]
               ELSE resolve

(* Mutant: the answer is applied to whatever turn is active.               *)
SendAppliesLate(t) ==
    /\ post[t] \in Status
    /\ chat' = ApplyRun(chat, req[t], post[t])
    /\ alarm' = Schedules(chat')
    /\ post' = [post EXCEPT ![t] = "over"]
    /\ Resolved(t)
    /\ UNCHANGED <<approvals, poll, resume, cancel, clearing, run, asked, history, bounds>>

SendApplies(t) ==
    /\ post[t] \in Status
    /\ chat' = IF chat.active = req[t] THEN ApplyRun(chat, req[t], post[t]) ELSE chat
    /\ alarm' = Schedules(chat')
    /\ post' = [post EXCEPT ![t] = "over"]
    /\ Resolved(t)
    /\ UNCHANGED <<approvals, poll, resume, cancel, clearing, run, asked, history, bounds>>

(* The state is not saved: send() takes it for a failed request.           *)
SendUnsaved(t) ==
    /\ post[t] \in Status
    /\ post' = [post EXCEPT ![t] = "error"]
    /\ Mishap
    /\ UNCHANGED <<chat, approvals, alarm, poll, resume, cancel, resolve, clearing,
                   run, asked, history>>

(* Mutant: a failed request is retried under a new identifier.             *)
SendFailsAnew(t) ==
    /\ post[t] = "error"
    /\ chat' = IF chat.active = req[t] THEN FailTurn(chat, question[req[t]], FALSE) ELSE chat
    /\ alarm' = FALSE
    /\ post' = [post EXCEPT ![t] = "over"]
    /\ Resolved(t)
    /\ UNCHANGED <<approvals, poll, resume, cancel, clearing, run, asked, history, bounds>>

SendFails(t) ==
    /\ post[t] = "error"
    /\ chat' = IF chat.active = req[t] THEN FailTurn(chat, question[req[t]], TRUE) ELSE chat
    /\ alarm' = FALSE
    /\ post' = [post EXCEPT ![t] = "over"]
    /\ Resolved(t)
    /\ UNCHANGED <<approvals, poll, resume, cancel, clearing, run, asked, history, bounds>>
-----------------------------------------------------------------------------
(* poll(): one at a time.                                                  *)

PollBegins == poll' = IF poll = NoPoll /\ Schedules(chat)
                      THEN [id |-> chat.active, answer |-> "none"] ELSE poll

AlarmFires ==
    /\ alarm
    /\ alarm' = FALSE
    /\ PollBegins
    /\ UNCHANGED <<chat, approvals, post, resume, cancel, resolve, clearing, run,
                   asked, history, bounds>>

(* refused: an answer that ends the turn; broken: one that does not.       *)
PollAnswered ==
    /\ poll.id # 0 /\ poll.answer = "none"
    /\ \/ poll' = [poll EXCEPT !.answer = run[poll.id]] /\ UNCHANGED bounds
       \/ \E answer \in {"refused", "broken"} :
             poll' = [poll EXCEPT !.answer = answer] /\ Mishap
    /\ UNCHANGED <<chat, approvals, alarm, post, resume, cancel, resolve, clearing,
                   run, asked, history>>

Polled == chat.running /\ chat.active = poll.id

(* Mutant: the turn may have ended while the poll was under way.           *)
PollAppliesAnyway ==
    /\ poll.answer \in Status
    /\ chat' = ApplyRun(chat, poll.id, poll.answer)
    /\ alarm' = Schedules(chat')
    /\ poll' = NoPoll
    /\ UNCHANGED <<approvals, post, resume, cancel, resolve, clearing, run, asked,
                   history, bounds>>

PollApplies ==
    /\ poll.answer \in Status
    /\ chat' = IF Polled THEN ApplyRun(chat, poll.id, poll.answer) ELSE chat
    /\ alarm' = Schedules(chat')
    /\ poll' = NoPoll
    /\ UNCHANGED <<approvals, post, resume, cancel, resolve, clearing, run, asked,
                   history, bounds>>

PollGivesUp ==
    /\ poll.answer \in {"refused", "broken"}  \* broken: after twelve minutes
    /\ chat' = IF Polled THEN FailTurn(chat, LastAsked(chat.messages), FALSE) ELSE chat
    /\ givenUp' = IF Polled THEN givenUp \cup {poll.id} ELSE givenUp
    /\ alarm' = (poll.answer = "broken" /\ Schedules(chat'))
    /\ poll' = NoPoll
    /\ UNCHANGED <<approvals, post, resume, cancel, resolve, clearing, run, asked,
                   shared, forgotten, bounds>>

PollBacksOff ==
    /\ poll.answer = "broken"
    /\ alarm' = Schedules(chat)
    /\ poll' = NoPoll
    /\ UNCHANGED <<chat, approvals, post, resume, cancel, resolve, clearing, run,
                   asked, history, bounds>>
-----------------------------------------------------------------------------
(* resume(): whenever the worker starts or a page asks for the state.      *)

PollOrSchedule ==
    \/ PollBegins /\ alarm' = alarm
    \/ alarm' = TRUE /\ poll' = poll

ResumeRuns ==
    /\ ~resume /\ Schedules(chat)
    /\ PollOrSchedule
    /\ UNCHANGED <<chat, approvals, post, resume, cancel, resolve, clearing, run,
                   asked, history, bounds>>

(* A turn that has been submitting for thirty seconds.                     *)
ResumeFindsOld ==
    /\ ~resume /\ chat.active # 0 /\ ~chat.running
    /\ resume' = TRUE
    /\ UNCHANGED <<chat, approvals, alarm, post, poll, cancel, resolve, clearing,
                   run, asked, history, bounds>>

(* Mutant: a turn that never got its run is left to its request.           *)
ResumeWaits ==
    /\ resume
    /\ resume' = FALSE
    /\ chat' = chat
    /\ IF Schedules(chat) THEN PollOrSchedule ELSE UNCHANGED <<poll, alarm>>
    /\ UNCHANGED <<approvals, post, cancel, resolve, clearing, run, asked, history,
                   bounds>>

ResumeFails ==
    /\ resume
    /\ resume' = FALSE
    /\ chat' = IF chat.active # 0 /\ ~chat.running
               THEN FailTurn(chat, LastAsked(chat.messages), TRUE) ELSE chat
    /\ IF Schedules(chat) THEN PollOrSchedule ELSE UNCHANGED <<poll, alarm>>
    /\ UNCHANGED <<approvals, post, cancel, resolve, clearing, run, asked, history,
                   bounds>>
-----------------------------------------------------------------------------
(* cancel(): reads the state, then asks the service or ends the turn.      *)

CancelBegins ==
    /\ cancel = NoCancel /\ chat.active # 0
    /\ Mishap
    /\ cancel' = [stage |-> IF chat.running THEN "asking" ELSE "dropping",
                  id |-> chat.active, answer |-> "none"]
    /\ UNCHANGED <<chat, approvals, alarm, post, poll, resume, resolve, clearing, run,
                   asked, history>>

CancelDrops ==
    /\ cancel.stage = "dropping"
    /\ chat' = ApplyRun(chat, 0, "cancelled")
    /\ alarm' = FALSE
    /\ cancel' = NoCancel
    /\ UNCHANGED <<approvals, post, poll, resume, resolve, clearing, run, asked,
                   history, bounds>>

(* A run that ended before is reported as it ended.                        *)
CancelTaken ==
    /\ cancel.stage = "asking" /\ cancel.answer = "none"
    /\ run' = [run EXCEPT ![cancel.id] = IF @ = "live" THEN "cancelled" ELSE @]
    /\ \/ cancel' = [cancel EXCEPT !.answer = run'[cancel.id]] /\ UNCHANGED bounds
       \/ cancel' = NoCancel /\ Mishap
    /\ UNCHANGED <<chat, approvals, alarm, post, poll, resume, resolve, clearing,
                   asked, history>>

CancelApplies ==
    /\ cancel.answer # "none"
    /\ chat' = IF chat.running /\ chat.active = cancel.id
               THEN ApplyRun(chat, cancel.id, cancel.answer) ELSE chat
    /\ alarm' = FALSE
    /\ cancel' = NoCancel
    /\ UNCHANGED <<approvals, post, poll, resume, resolve, clearing, run, asked,
                   history, bounds>>
-----------------------------------------------------------------------------
(* resolveDataAccess(): one at a time on the approval queue.               *)

Decide == /\ resolve = NoResolve
          /\ decisions < MaxDecisions
          /\ decisions' = decisions + 1
          /\ mishaps' = mishaps

Open(r) == /\ Answer(r) \in ToSet(chat.messages)
           /\ approvals[r].status \notin {"submitted", "denied"}

Deny(r) ==
    /\ Decide /\ Open(r)
    /\ approvals' = [approvals EXCEPT ![r].status = "denied"]
    /\ UNCHANGED <<chat, alarm, calls, run, asked, history>>

(* Mutant: every approval makes an identifier of its own.                  *)
AllowAnew(r) ==
    /\ Decide /\ Open(r)
    /\ chat.active = 0
    /\ ids < MaxIds
    /\ ids' = ids + 1
    /\ question' = [question EXCEPT ![ids + 1] = ids + 1]
    /\ approvals' = [approvals EXCEPT ![r] = [status |-> "pending", id |-> ids + 1]]
    /\ resolve' = [stage |-> IF approvals[r].status = "failed" THEN "again" ELSE "new",
                   receipt |-> r, id |-> ids + 1, turn |-> 0]
    /\ UNCHANGED <<chat, alarm, post, poll, resume, cancel, clearing, run, req, turns,
                   history>>

(* The identifier of an earlier attempt is used again.                     *)
Allow(r) ==
    /\ Decide /\ Open(r)
    /\ chat.active = 0
    /\ LET known == approvals[r].id # 0
           id    == IF known THEN approvals[r].id ELSE ids + 1 IN
         /\ id \in Ids
         /\ ids' = IF known THEN ids ELSE ids + 1
         /\ question' = IF known THEN question ELSE [question EXCEPT ![id] = id]
         /\ approvals' = [approvals EXCEPT ![r] = [status |-> "pending", id |-> id]]
         /\ resolve' = [stage |-> IF approvals[r].status = "failed" THEN "again" ELSE "new",
                        receipt |-> r, id |-> id, turn |-> 0]
    /\ UNCHANGED <<chat, alarm, post, poll, resume, cancel, clearing, run, req, turns,
                   history>>

AllowSends ==
    /\ resolve.stage \in {"new", "again"}
    /\ \/ /\ Send(resolve.id, question[resolve.id], resolve.stage = "again")
          /\ resolve' = [resolve EXCEPT !.stage = "sending", !.turn = turns + 1]
          /\ shared' = [shared EXCEPT ![resolve.receipt] = @ \cup {resolve.id}]
       \/ /\ chat.active # 0
          /\ resolve' = NoResolve
          /\ UNCHANGED <<chat, turns, req, question, post, shared>>
    /\ UNCHANGED <<approvals, alarm, poll, resume, cancel, clearing, run, ids,
                   givenUp, forgotten, bounds>>

AllowEnds ==
    /\ resolve.stage \in {"submitted", "failed"}
    /\ approvals' = [approvals EXCEPT ![resolve.receipt] =
                        [status |-> resolve.stage, id |-> resolve.id]]
    /\ resolve' = NoResolve
    /\ UNCHANGED <<chat, alarm, post, poll, resume, cancel, clearing, run, asked,
                   history, bounds>>
-----------------------------------------------------------------------------
(* clearConversation(): the state first, the approvals behind it.          *)

Clear ==
    /\ ~clearing
    /\ chat.active = 0 /\ chat.messages # <<>>
    /\ chat' = EmptyChat
    /\ alarm' = FALSE
    /\ clearing' = TRUE
    /\ Mishap
    /\ UNCHANGED <<approvals, post, poll, resume, cancel, resolve, run, asked, history>>

ClearEnds ==
    /\ clearing
    /\ approvals' = [i \in Ids |-> NoApproval]
    /\ forgotten' = forgotten \cup {r \in Ids : approvals[r].id # 0}
    /\ clearing' = FALSE
    /\ UNCHANGED <<chat, alarm, post, poll, resume, cancel, resolve, run, asked,
                   givenUp, shared, bounds>>

(* The worker is killed; a request that has left may arrive all the same.  *)
Kill ==
    /\ Mishap
    /\ \E kept \in SUBSET {t \in Turns : post[t] = "sent"} :
         post' = [t \in Turns |-> IF t \in kept \/ post[t] = "orphan"
                                  THEN "orphan" ELSE "over"]
    /\ poll' = NoPoll /\ resume' = FALSE /\ cancel' = NoCancel
    /\ resolve' = NoResolve /\ clearing' = FALSE
    /\ UNCHANGED <<chat, approvals, alarm, run, asked, history>>

Next ==
    \/ Ask \/ Retry
    \/ \E t \in Turns : PostTaken(t) \/ PostRefused(t) \/ OrphanTaken(t)
                        \/ SendApplies(t) \/ SendUnsaved(t) \/ SendFails(t)
    \/ \E i \in Ids : RunEnds(i) \/ Deny(i) \/ Allow(i)
    \/ AlarmFires \/ PollAnswered \/ PollApplies \/ PollGivesUp \/ PollBacksOff
    \/ ResumeRuns \/ ResumeFindsOld \/ ResumeFails
    \/ CancelBegins \/ CancelDrops \/ CancelTaken \/ CancelApplies
    \/ AllowSends \/ AllowEnds \/ Clear \/ ClearEnds
    \/ Kill

Spec == Init /\ [][Next]_vars

(* Runs end, requests are answered, handlers run on, the alarm fires, and  *)
(* a page or a start of the worker asks for the state again and again.     *)
Fairness ==
    /\ \A t \in Turns : /\ WF_vars(PostTaken(t))
                        /\ WF_vars(SendApplies(t) \/ SendFails(t))
    /\ \A i \in Ids : WF_vars(RunEnds(i))
    /\ WF_vars(AlarmFires) /\ WF_vars(PollAnswered)
    /\ WF_vars(PollApplies \/ PollGivesUp \/ PollBacksOff)
    /\ WF_vars(ResumeRuns) /\ WF_vars(ResumeFindsOld) /\ WF_vars(ResumeFails)

FairSpec == Spec /\ Fairness
-----------------------------------------------------------------------------
TypeOK ==
    /\ chat \in [messages : Seq([role : {"user", "assistant"}, id : 0..MaxIds]),
                 active : 0..MaxIds, running : BOOLEAN,
                 error : [id : 0..MaxIds, ask : 0..MaxIds, reuse : BOOLEAN]]
    /\ approvals \in [Ids -> [status : {"none", "pending", "submitted", "denied", "failed"},
                              id : 0..MaxIds]]
    /\ alarm \in BOOLEAN /\ resume \in BOOLEAN /\ clearing \in BOOLEAN
    /\ post \in [Turns -> {"sent", "orphan", "error", "over"} \cup Status]
    /\ poll \in [id : 0..MaxIds, answer : {"none", "refused", "broken"} \cup Status]
    /\ cancel \in [stage : {"none", "asking", "dropping"}, id : 0..MaxIds,
                   answer : {"none"} \cup Status]
    /\ resolve \in [stage : {"none", "new", "again", "sending", "submitted", "failed"},
                    receipt : 0..MaxIds, id : 0..MaxIds, turn : 0..MaxTurns]
    /\ run \in [Ids -> {"none"} \cup Status]
    /\ req \in [Turns -> 0..MaxIds] /\ question \in [Ids -> 0..MaxIds]
    /\ turns \in 0..MaxTurns /\ ids \in 0..MaxIds
    /\ givenUp \subseteq Ids /\ shared \in [Ids -> SUBSET Ids] /\ forgotten \subseteq Ids
    /\ decisions \in 0..MaxDecisions
    /\ mishaps \in 0..MaxMishaps

(* The questions that share data the rep approved.                         *)
Continuations == UNION {shared[r] : r \in Ids}

(* A retried question is a second run at the service only when the first   *)
(* one failed there or the worker gave up on polling it: whatever became   *)
(* of the requests, the retry is made under the identifier the service     *)
(* knows (send, resume, failTurn).  Approved data that are allowed again   *)
(* go out under their first identifier although later retries of them may  *)
(* have run, so for them it is only the first run that is not repeated.    *)
RetryIsTheSameRun ==
    \A i, j \in Ids :
        (/\ i < j /\ run[i] # "none" /\ run[j] # "none" /\ question[i] = question[j]
         /\ i = question[i] \/ question[i] \notin Continuations)
        => run[i] = "failed" \/ i \in givenUp

(* Every answer stands right behind the question it answers, once, and a   *)
(* typed question has one bubble, whatever late answers of other turns,    *)
(* polls and retries do (the guards of send and poll, reuseLastUser).      *)
ConversationInOrder ==
    LET m == chat.messages IN
    \A k \in DOMAIN m :
        /\ m[k].role = "assistant" =>
             /\ k > 1 /\ m[k - 1] = Bubble(question[m[k].id])
             /\ \A l \in DOMAIN m : m[l] = m[k] => l = k
        /\ m[k].role = "user" /\ m[k].id \notin Continuations =>
             \A l \in DOMAIN m : m[l] = m[k] => l = k

(* No answer to a turn the rep has cancelled appears later, and none to a  *)
(* turn that was replaced: only the active turn is ever answered.          *)
CancelledStaysCancelled ==
    [][\A i \in Ids : /\ Answer(i) \in ToSet(chat'.messages)
                      /\ Answer(i) \notin ToSet(chat.messages)
                      => chat.active = i]_vars

(* Data the rep approved goes to the service under one identifier, so the  *)
(* service can tell a repetition from a second sharing, although the       *)
(* worker may be killed between storing the approval and its result.  Only *)
(* a clear that removes the record of it behind its state, whenever that   *)
(* lands, lets one answer's data be shared under a second identifier       *)
(* (resolveDataAccess, clearConversation).                                 *)
SharedUnderOneId == \A r \in Ids \ forgotten : \A i, j \in shared[r] : i = j

(* Every turn ends: with an answer, an error to retry, or a cancellation.  *)
TurnEnds == (chat.active # 0) ~> (chat.active = 0)
=============================================================================
