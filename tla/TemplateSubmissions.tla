-------------------------- MODULE TemplateSubmissions --------------------------
(***************************************************************************)
(* lib/email-template-submissions.js: one draft that waits for approval on *)
(* the server, the worker's cache of it, the queue its writes go through   *)
(* and the template editor that autosaves it (pages/TemplateEditor.jsx).   *)
(*                                                                         *)
(* The server's row is the sequence of the documents it accepted; a        *)
(* version is an index into it, so a payload and the cache are versions.   *)
(* A document is known by its author and its number, and the editor by the *)
(* versions it compares and the newest version it put on the screen.       *)
(***************************************************************************)
EXTENDS Naturals, Sequences

CONSTANTS
    MaxSaves,     \* bound: documents this editor sends
    MaxRevisions, \* bound: edits by somebody else
    MayApprove,   \* the editor belongs to a parent account
    MaxLosses     \* bound: worker terminations and failed requests, together

ASSUME SubmissionConstants ==
    /\ MaxSaves \in Nat /\ MaxRevisions \in Nat
    /\ MayApprove \in BOOLEAN
    /\ MaxLosses \in Nat

VARIABLES
    revisions, \* server: accepted documents, the version is the length
    wire,      \* requests on their way to the server
    events,    \* server: changes this installation has not been told yet
    submissions, \* chrome.storage: version of gbEmailTemplateSubmissions, 0 = none
    chain,     \* mutationChain: jobs that wait
    mut,       \* the job that runs, or NoJob
    pending,   \* pendingUpdates: [doc, waiters], or NoPending
    syncPromise, \* the pass behind it, or NoPass
    queue,     \* forced callers awaiting syncPromise
    telling,   \* an outbox row is being applied
    calls,     \* the editor's calls, by document number
    editor,    \* refs of the open editor
    saves, others, crashes, faults

service == <<revisions, wire, events>>
jobs == <<chain, mut, pending, calls>>
passes == <<syncPromise, queue, telling>>
page == <<editor, saves>>
bounds == <<others, crashes, faults>>
submissionVars == <<service, submissions, jobs, passes, page, bounds>>

Doc(by, n) == [by |-> by, n |-> n]
MishapLeft == crashes + faults < MaxLosses
NoDoc == Doc("nobody", 0)
NoJob == [kind |-> "none", doc |-> NoDoc, pc |-> "none", ver |-> 0]
Job(kind, doc) == [kind |-> kind, doc |-> doc, pc |-> "queued", ver |-> 0]
NoPending == [doc |-> NoDoc, waiters |-> {}]
NoPass == [pc |-> "none", owner |-> "none", ver |-> 0]
NewPass(owner) == [pc |-> "fetch", owner |-> owner, ver |-> 0]
Max2(a, b) == IF a > b THEN a ELSE b

\* The draft exists; the worker may have it cached, the editor shows it.
SubmissionsInit ==
    /\ revisions = <<Doc("other", 0)>>
    /\ wire = {} /\ events = 0
    /\ submissions \in {0, 1}
    /\ chain = <<>> /\ mut = NoJob /\ pending = NoPending
    /\ calls = [n \in 1..MaxSaves |-> [st |-> "none", ver |-> 0]]
    /\ syncPromise = NoPass /\ queue = <<>> /\ telling = FALSE
    /\ editor = [known |-> 1, own |-> 0, seen |-> 1]
    /\ saves = 0 /\ others = 0 /\ crashes = 0 /\ faults = 0

----------------------------------------------------------------------------
(* The server *)

\* Another window or the parent account revises the draft.
OtherRevises ==
    /\ others < MaxRevisions
    /\ others' = others + 1
    /\ revisions' = Append(revisions, Doc("other", others + 1))
    /\ events' = events + 1
    /\ UNCHANGED <<wire, submissions, jobs, passes, page, crashes, faults>>

\* A write is accepted on top of the version it names and refused otherwise.
\* A request whose worker is gone is handled all the same.
ServerHandles(r) ==
    /\ r \in wire
    /\ wire' = wire \ {r}
    /\ IF r.base = Len(revisions)
       THEN revisions' = Append(revisions, r.doc) /\ events' = events + 1
       ELSE UNCHANGED <<revisions, events>>
    /\ mut' = IF ~r.live THEN mut
              ELSE IF r.base = Len(revisions)
              THEN [mut EXCEPT !.pc = "accepted", !.ver = Len(revisions) + 1]
              ELSE [mut EXCEPT !.pc = "conflict"]
    /\ UNCHANGED <<submissions, chain, pending, calls, passes, page, bounds>>

----------------------------------------------------------------------------
(* The editor *)

\* Autosave: the editor predicts the version its document will get, the worker
\* starts a write or leaves the document with the write in flight.
Save ==
    /\ saves < MaxSaves
    /\ LET n == saves + 1
           doc == Doc("me", n)
       IN  /\ saves' = n
           /\ editor' = [editor EXCEPT !.own = Max2(editor.own, editor.known) + 1]
           /\ calls' = [calls EXCEPT ![n].st = "pending"]
           /\ IF pending = NoPending
              THEN /\ pending' = [doc |-> NoDoc, waiters |-> {n}]
                   /\ chain' = Append(chain, Job("update", doc))
              ELSE /\ pending' = [doc |-> doc, waiters |-> pending.waiters \cup {n}]
                   /\ UNCHANGED chain
    /\ UNCHANGED <<service, submissions, mut, passes, bounds>>

Approve ==
    /\ MayApprove
    /\ saves < MaxSaves
    /\ LET n == saves + 1
           doc == Doc("me", n)
       IN  /\ saves' = n
           /\ calls' = [calls EXCEPT ![n].st = "pending"]
           /\ chain' = Append(chain, Job("approve", doc))
    /\ UNCHANGED <<service, submissions, mut, pending, passes, editor, bounds>>

\* The cache changed: a version this editor may have produced is taken for its
\* own echo, a newer one replaces the fields.
EditorReconciles ==
    /\ submissions > editor.known
    /\ editor' = IF submissions <= editor.own
                 THEN [editor EXCEPT !.known = submissions]
                 ELSE [editor EXCEPT !.known = submissions, !.seen = submissions]
    /\ UNCHANGED <<service, submissions, jobs, passes, saves, bounds>>

----------------------------------------------------------------------------
(* sync: one pass at a time; a forced caller runs its own after it.        *)

Enter(who) ==
    IF syncPromise = NoPass
    THEN syncPromise' = NewPass(who) /\ UNCHANGED queue
    ELSE queue' = Append(queue, who) /\ UNCHANGED syncPromise

\* Worker start: served from the cache when there is one.
BootSync ==
    /\ submissions = 0 /\ syncPromise = NoPass
    /\ syncPromise' = NewPass("boot")
    /\ UNCHANGED <<service, submissions, jobs, queue, telling, page, bounds>>

\* live-updates: an email_template_submissions.changed row.
ApplyEvent ==
    /\ events > 0 /\ ~telling
    /\ telling' = TRUE
    /\ Enter("row")
    /\ UNCHANGED <<service, submissions, jobs, page, bounds>>

PassAnswered ==
    /\ syncPromise.pc = "fetch"
    /\ syncPromise' = [syncPromise EXCEPT !.pc = "reply", !.ver = Len(revisions)]
    /\ UNCHANGED <<service, submissions, jobs, queue, telling, page, bounds>>

\* Whom the settled promise wakes up: its owner, and on a failure the queue too.
Woken(ok) == {syncPromise.owner} \cup IF ok THEN {} ELSE {queue[i] : i \in DOMAIN queue}

Settle(ok) ==
    /\ syncPromise' = IF ok /\ queue # <<>> THEN NewPass(Head(queue)) ELSE NoPass
    /\ queue' = IF ok /\ queue # <<>> THEN Tail(queue) ELSE <<>>
    /\ telling' = (telling /\ "row" \notin Woken(ok))
    /\ events' = IF ok /\ syncPromise.owner = "row" THEN events - 1 ELSE events
    /\ mut' = IF "mut" \notin Woken(ok) THEN mut
              ELSE [mut EXCEPT !.pc = IF ok /\ mut.pc = "lookup" THEN "found" ELSE "failed"]

PassApplied ==
    /\ syncPromise.pc = "reply"
    /\ submissions' = syncPromise.ver
    /\ Settle(TRUE)
    /\ UNCHANGED <<revisions, wire, chain, pending, calls, page, bounds>>

PassFails ==
    /\ syncPromise # NoPass
    /\ MishapLeft
    /\ faults' = faults + 1
    /\ Settle(FALSE)
    /\ UNCHANGED <<revisions, wire, submissions, chain, pending, calls, page, others, crashes>>

----------------------------------------------------------------------------
(* writeUpdate and approve: jobs run one after another.                    *)

Send(job) ==
    /\ mut' = [job EXCEPT !.pc = "sent"]
    /\ wire' = wire \cup {[doc |-> job.doc, base |-> submissions, live |-> TRUE]}

\* A job starts: the cached version is the base, a missing row is looked up first.
JobStarts ==
    /\ mut = NoJob /\ chain # <<>>
    /\ chain' = Tail(chain)
    /\ IF submissions # 0
       THEN Send(Head(chain)) /\ UNCHANGED <<syncPromise, queue>>
       ELSE /\ mut' = [Head(chain) EXCEPT !.pc = "lookup"]
            /\ Enter("mut")
            /\ UNCHANGED wire
    /\ UNCHANGED <<revisions, events, submissions, pending, calls, telling, page, bounds>>

JobFound ==
    /\ mut.pc = "found"
    /\ Send(mut)
    /\ UNCHANGED <<revisions, events, submissions, chain, pending, calls, passes, page, bounds>>

\* 409: the cache is refreshed before the error goes on.
JobConflict ==
    /\ mut.pc = "conflict"
    /\ mut' = [mut EXCEPT !.pc = "refresh"]
    /\ Enter("mut")
    /\ UNCHANGED <<service, submissions, chain, pending, calls, telling, page, bounds>>

\* The request fails on its way there or on its way back.
RequestFails ==
    /\ mut.pc \in {"sent", "accepted", "conflict"}
    /\ MishapLeft
    /\ faults' = faults + 1
    /\ mut' = [mut EXCEPT !.pc = "failed"]
    /\ wire' \in {{r \in wire : ~r.live}, {[r EXCEPT !.live = FALSE] : r \in wire}}
    /\ UNCHANGED <<revisions, events, submissions, chain, pending, calls, passes, page>>
    /\ UNCHANGED <<others, crashes>>

\* The waiters of the update loop, all with the same outcome.
Resolve(ns, st, ver) ==
    [n \in DOMAIN calls |-> IF n \in ns THEN [st |-> st, ver |-> ver] ELSE calls[n]]

\* The approved row is cached and returned.
ApproveDone ==
    /\ mut.kind = "approve"
    /\ calls' = Resolve({mut.doc.n}, "ok", mut.ver)
    /\ UNCHANGED <<chain, pending>>

\* Mutant: the waiters are answered after the first write.
UpdateDoneEarly ==
    /\ mut.kind = "update"
    /\ calls' = Resolve(pending.waiters, "ok", mut.ver)
    /\ pending' = NoPending
    /\ UNCHANGED chain

\* The update loop takes the newest queued document ...
NextDocument ==
    /\ mut.kind = "update" /\ pending.doc # NoDoc
    /\ chain' = Append(chain, Job("update", pending.doc))
    /\ pending' = [pending EXCEPT !.doc = NoDoc]
    /\ UNCHANGED calls

\* ... or answers everybody with the last row.
UpdateDone ==
    /\ mut.kind = "update" /\ pending.doc = NoDoc
    /\ calls' = Resolve(pending.waiters, "ok", mut.ver)
    /\ pending' = NoPending
    /\ UNCHANGED chain

JobSucceeds ==
    /\ mut.pc = "accepted"
    /\ submissions' = mut.ver
    /\ mut' = NoJob
    /\ ApproveDone \/ NextDocument \/ UpdateDone
    /\ UNCHANGED <<service, passes, page, bounds>>

\* Mutant: the update loop forgets its waiters when a write throws.
JobFailsSilently ==
    /\ mut.pc = "failed"
    /\ mut' = NoJob
    /\ pending' = IF mut.kind = "update" THEN NoPending ELSE pending
    /\ UNCHANGED <<service, submissions, chain, calls, passes, page, bounds>>

JobFails ==
    /\ mut.pc = "failed"
    /\ mut' = NoJob
    /\ IF mut.kind = "approve"
       THEN calls' = Resolve({mut.doc.n}, "failed", 0) /\ UNCHANGED pending
       ELSE calls' = Resolve(pending.waiters, "failed", 0) /\ pending' = NoPending
    /\ UNCHANGED <<service, submissions, chain, passes, page, bounds>>

\* The worker is stopped; requests it sent may still arrive, its callers are told.
Crash ==
    /\ MishapLeft
    /\ mut # NoJob \/ syncPromise # NoPass
    /\ crashes' = crashes + 1
    /\ chain' = <<>> /\ mut' = NoJob /\ pending' = NoPending
    /\ syncPromise' = NoPass /\ queue' = <<>> /\ telling' = FALSE
    /\ wire' = {[r EXCEPT !.live = FALSE] : r \in wire}
    /\ calls' = Resolve({n \in DOMAIN calls : calls[n].st = "pending"}, "failed", 0)
    /\ UNCHANGED <<revisions, events, submissions, page, others, faults>>

Handle == \E r \in wire : ServerHandles(r)
Worker == \/ BootSync \/ ApplyEvent \/ PassAnswered \/ PassApplied
          \/ JobStarts \/ JobFound \/ JobConflict \/ JobSucceeds \/ JobFails

SubmissionsNext ==
    \/ OtherRevises \/ Handle \/ Save \/ Approve \/ EditorReconciles
    \/ Worker \/ PassFails \/ RequestFails \/ Crash

SubmissionsSpec == SubmissionsInit /\ [][SubmissionsNext]_submissionVars

\* Requests are answered, the poller keeps applying rows, jobs and promises run on.
SubmissionsFairness ==
    /\ WF_submissionVars(Handle)
    /\ WF_submissionVars(PassAnswered \/ PassApplied)
    /\ WF_submissionVars(JobStarts \/ JobFound \/ JobConflict \/ JobSucceeds \/ JobFails)

SubmissionsFairSpec == SubmissionsSpec /\ SubmissionsFairness

----------------------------------------------------------------------------
(* Properties *)

Documents == [by : {"me", "other"}, n : Nat]
Own == [by : {"me"}, n : 1..MaxSaves]
Steps == {"lookup", "found", "sent", "accepted", "conflict", "refresh", "failed"}
JobType(steps) == [kind : {"update", "approve"}, doc : Own, pc : steps, ver : Nat]

SubmissionsTypeOK ==
    /\ revisions \in Seq(Documents)
    /\ wire \subseteq [doc : Own, base : Nat, live : BOOLEAN]
    /\ submissions \in Nat
    /\ mut \in JobType(Steps) \cup {NoJob}
    /\ chain \in Seq(JobType({"queued"}))
    /\ pending \in [doc : Own \cup {NoDoc}, waiters : SUBSET (1..MaxSaves)]
    /\ syncPromise \in [pc : {"none", "fetch", "reply"},
                        owner : {"none", "boot", "row", "mut"}, ver : Nat]
    /\ queue \in Seq({"row", "mut"})
    /\ telling \in BOOLEAN /\ events \in Nat
    /\ calls \in [1..MaxSaves -> [st : {"none", "pending", "ok", "failed"}, ver : Nat]]
    /\ editor \in [known : Nat, own : Nat, seen : Nat]
    /\ saves \in 0..MaxSaves /\ others \in 0..MaxRevisions
    /\ crashes \in Nat /\ faults \in Nat

\* email-template-submissions.js:124-126: every caller resolves with the final
\* authoritative row, which holds its own document or a newer one of this editor.
ResolvedHoldsNewest ==
    \A n \in DOMAIN calls : calls[n].st = "ok" =>
        revisions[calls[n].ver].by = "me" /\ revisions[calls[n].ver].n >= n

\* Every save and approval is answered.
CallsSettle == \A n \in 1..MaxSaves : calls[n].st = "pending" ~> calls[n].st \in {"ok", "failed"}
=============================================================================
