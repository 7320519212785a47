-------------------------- MODULE ManagedTemplates --------------------------
(***************************************************************************)
(* One row of the managed email-template bucket, as one parent             *)
(* installation sees it (lib/managed-email-templates.js).                  *)
(*                                                                         *)
(* Four copies of the row exist: the server's, the one in the              *)
(* `templates` array of chrome.storage.local that the editor page edits,   *)
(* the worker's cache of the server's answer, and the copy behind the      *)
(* owner's share link.  The worker brings them together with two passes:   *)
(* `sync` fetches and reconciles, `publish` writes and reconciles.         *)
(*                                                                         *)
(* A document is a function from its fields to the number of the edit that *)
(* gave the field its value: the user's are numbered from 1, those of the  *)
(* other parents from MaxEdits + 1.  A step of a pass ends where the code awaits: the array it reads *)
(* and the array it writes back are two steps, and the page, a process of  *)
(* its own, can save between them.  The page's copy of the array is the    *)
(* stored one, and the account stays a parent account.                     *)
(***************************************************************************)
EXTENDS Naturals

CONSTANTS
    Fields,       \* fields of a template document
    Contested,    \* the ones other parents edit
    MaxEdits,     \* bound: edits saved by the user
    MaxOthers,    \* bound: edits made by other parents
    MaxDeletes,   \* bound: deletions by the user (0 or 1)
    MaxRemovals,  \* bound: removals by another parent (0 or 1)
    MaxOpens,     \* bound: times the template manager is opened
    MaxFaults,    \* bound: requests or answers lost
    MaxRestarts,  \* bound: ends of the service worker
    MaxMishaps    \* bound: all of these but the edits of the user together

ASSUME BoundsAreNaturals ==
    {MaxEdits, MaxOthers, MaxDeletes, MaxRemovals, MaxOpens, MaxFaults, MaxRestarts, MaxMishaps}
        \subseteq Nat

ASSUME FieldsAreContested == Contested \subseteq Fields

VARIABLES
    server,    \* [live, doc, by, mine]: the bucket row; by: who wrote each field,
               \* mine: this installation contributed it (created_by_current)
    local,     \* [st, doc, base, link, shared]: the stored row, its merge base and its share
    cache,     \* [live, doc]: CACHE_KEY, the last answer stored
    sync,      \* [pc, stored, payload, event, copy]: syncPromise
    pub,       \* [pc, sent, removes, payload, conflict]: the head of publishQueue; sent: the
               \* row sent, later the row it is about to write
    queued,    \* publishes queued behind it
    timer,     \* publishTimer is set
    applying,  \* the flag of the same name
    event,     \* an invalidation of the bucket waits in the outbox
    count,     \* the bounds' counters
    seen       \* history: what happened to the row, see Init

vars == <<server, local, cache, sync, pub, queued, timer, applying, event, count, seen>>

EditNumbers == 0 .. MaxEdits + MaxOthers
Docs == [Fields -> EditNumbers]
Blank == [f \in Fields |-> 0]
Original == [live |-> TRUE, doc |-> Blank]
NoRow == [st |-> "absent", doc |-> Blank, base |-> Blank, link |-> FALSE, shared |-> Blank]
NoSync == [pc |-> "none", stored |-> NoRow, payload |-> Original, event |-> FALSE,
           copy |-> NoRow]
NoPub == [pc |-> "none", sent |-> NoRow, removes |-> FALSE, payload |-> Original, conflict |-> FALSE]

\* The row is in agreement everywhere; its owner may have given it a share link.
Init ==
    /\ \E mine \in BOOLEAN :
           server = [live |-> TRUE, doc |-> Blank, by |-> [f \in Fields |-> "me"], mine |-> mine]
    /\ \E link \in {FALSE, server.mine} : local = [NoRow EXCEPT !.st = "managed", !.link = link]
    /\ cache = Original
    /\ sync = NoSync /\ pub = NoPub
    /\ queued = FALSE /\ timer = FALSE /\ applying = FALSE /\ event = FALSE
    /\ count = [edits |-> 0, others |-> 0, deletes |-> 0, removals |-> 0, opens |-> 0,
                faults |-> 0, restarts |-> 0]
    /\ seen = [accepted |-> [f \in Fields |-> {0}],  \* values the server took, by field
               removed |-> FALSE,                    \* another parent removed the row
               conflict |-> FALSE,                   \* the server refused the last write
               link |-> local.link,                  \* the row had a share link
               last |-> Blank,                       \* the user's latest edit, by field
               raced |-> {}]                         \* fields edited since a pass read, see Reads

NextEdit == count.edits + 1
TheirEdit == MaxEdits + count.others + 1

Mishaps == count.others + count.deletes + count.removals + count.opens + count.faults + count.restarts
Spend(what) ==
    /\ what = "edits" \/ Mishaps < MaxMishaps
    /\ count' = [count EXCEPT ![what] = @ + 1]

----------------------------------------------------------------------------
(* What the passes compute *)

IsManaged(row) == row.st = "managed"
Dirty(row) == row.doc # row.base
Answer == [live |-> server.live, doc |-> server.doc]

\* A publish would change something: a row the cache lists is gone, or the row
\* is not as the cache has it.
NeedsPublish(row, cached) ==
    IF IsManaged(row) THEN ~cached.live \/ row.doc # cached.doc ELSE cached.live

\* managedRecord: the answer's document, with the private share of the row before.
ManagedRecord(row, answer) ==
    [row EXCEPT !.st = "managed", !.doc = answer.doc, !.base = answer.doc]

\* Mutant: a row the bucket lost is dropped with the mirrors.
ReconcileDrops(row, answer, keep, ack) ==
    CASE ~answer.live -> NoRow
      [] answer.live /\ IsManaged(row) /\ keep /\ row.doc # row.base -> row
      [] OTHER -> ManagedRecord(row, answer)

\* The row stored for an answer.  keep: an unpublished edit is kept (not
\* acceptRemote, or listed in preserveLocalBucketIds); ack: the server took the
\* write this is the answer to, so the merge base moves to the answer.
Reconcile(row, answer, keep, ack) ==
    LET base == IF ack THEN answer.doc ELSE row.base
    IN  CASE answer.live /\ IsManaged(row) /\ keep /\ row.doc # base -> [row EXCEPT !.base = base]
          [] answer.live /\ ~(IsManaged(row) /\ keep /\ row.doc # base) -> ManagedRecord(row, answer)
          [] ~answer.live /\ IsManaged(row) /\ server.mine -> [row EXCEPT !.st = "detached"]
          [] ~answer.live /\ IsManaged(row) /\ ~server.mine -> NoRow
          [] ~answer.live /\ ~IsManaged(row) -> row

\* A pass holds an array that it has read and not yet written back.
CopyHeld == sync.pc \in {"fetch", "answer", "ack"} \/ pub.pc \in {"write", "ack"}

\* History: a pass reads the array.  If no other holds one, the edits that are
\* still stored are behind all races.
Reads == seen' = [seen EXCEPT !.raced =
            IF CopyHeld THEN @ ELSE {f \in @ : local.doc[f] # seen.last[f]}]

\* applyPayload: the reconciled array and the answer are stored in one write.
Store(row, answer) == local' = row /\ cache' = answer

\* The share link lags behind the row: a PATCH is due.
ShareDue(row) == row.link /\ server.mine /\ IsManaged(row) /\ row.shared # row.doc

----------------------------------------------------------------------------
(* The server *)

\* The document the service stores for a write: a field the writer changed from
\* its base is taken unless another parent changed it from that base as well.
Taken(w, f) == w.doc[f] # w.base[f]
Refused(w) == \E f \in Fields : /\ Taken(w, f)
                               /\ server.doc[f] \notin {w.base[f], w.doc[f]}
                               /\ server.by[f] = "other"
Merged(w) == [f \in Fields |-> IF Taken(w, f) THEN w.doc[f] ELSE server.doc[f]]

\* Another parent edits a field; every other installation is told.
OtherEdits(f) ==
    /\ server.live /\ count.others < MaxOthers
    /\ server' = [server EXCEPT !.doc[f] = TheirEdit, !.by[f] = "other"]
    /\ seen' = [seen EXCEPT !.accepted[f] = @ \cup {TheirEdit}]
    /\ event' = TRUE /\ Spend("others")
    /\ UNCHANGED <<local, cache, sync, pub, queued, timer, applying>>

\* Another parent takes the row out of the bucket.
OtherRemoves ==
    /\ server.live /\ count.removals < MaxRemovals
    /\ server' = [server EXCEPT !.live = FALSE]
    /\ seen' = [seen EXCEPT !.removed = TRUE]
    /\ event' = TRUE /\ Spend("removals")
    /\ UNCHANGED <<local, cache, sync, pub, queued, timer, applying>>

----------------------------------------------------------------------------
(* The editor page *)

\* storage.onChanged in the worker: a change of `templates` alone asks for a
\* publish, unless a pass of the worker is being applied.
Calls(row) == ~applying /\ NeedsPublish(row, cache)
Heard(row) == timer' = (timer \/ Calls(row))

\* An autosave of the editor.
UserEdits(f) ==
    /\ local.st # "absent" /\ count.edits < MaxEdits
    /\ local' = [local EXCEPT !.doc[f] = NextEdit]
    /\ seen' = [seen EXCEPT !.last[f] = NextEdit,
                            !.raced = IF CopyHeld THEN @ \cup {f} ELSE @ \ {f}]
    /\ Heard(local') /\ Spend("edits")
    /\ UNCHANGED <<server, cache, sync, pub, queued, applying, event>>

\* removeTemplateRecord: a parent may delete a managed template.
UserDeletes ==
    /\ local.st # "absent" /\ count.deletes < MaxDeletes
    /\ local' = NoRow
    /\ Heard(NoRow) /\ Spend("deletes")
    /\ UNCHANGED <<server, cache, sync, pub, queued, applying, event, seen>>

----------------------------------------------------------------------------
(* sync({force: true}) *)

\* The template manager is opened, or the notification of an invalidation is
\* applied.  A pass under way is waited for first.  The stored array is read
\* before the request is sent.
SyncStarts(told) ==
    /\ sync.pc = "none"
    /\ IF told THEN event /\ UNCHANGED count
               ELSE count.opens < MaxOpens /\ Spend("opens")
    /\ event' = (event /\ ~told)
    /\ sync' = [NoSync EXCEPT !.pc = "fetch", !.stored = local, !.event = told]
    /\ Reads
    /\ UNCHANGED <<server, local, cache, pub, queued, timer, applying>>

SyncAnswered ==
    /\ sync.pc = "fetch"
    /\ sync' = [sync EXCEPT !.pc = "answer", !.payload = Answer]
    /\ UNCHANGED <<server, local, cache, pub, queued, timer, applying, event, count, seen>>

\* The end of a pass: a publish is scheduled when the row still differs.
SyncEnds(row, answer) ==
    /\ sync' = NoSync
    /\ timer' = (timer \/ NeedsPublish(row, answer))
    /\ applying' = FALSE

\* The answer is reconciled with the array as it was read before the request.
SyncApplies ==
    LET row == Reconcile(sync.stored, sync.payload, TRUE, FALSE)
    IN  /\ sync.pc = "answer"
        /\ Store(row, sync.payload)
        /\ IF ShareDue(row)
           THEN /\ sync' = [sync EXCEPT !.pc = "share", !.stored = row]
                /\ applying' = TRUE /\ UNCHANGED timer
           ELSE SyncEnds(row, sync.payload)
        /\ UNCHANGED <<server, pub, queued, event, count, seen>>

\* acknowledgeShare: the snapshot sent is noted in the row stored now, if that
\* still has the link ...
Acknowledged(sent) == [local EXCEPT !.shared = sent.doc]

SyncShared ==
    /\ sync.pc = "share"
    /\ \/ /\ local.link
          /\ sync' = [sync EXCEPT !.pc = "ack", !.copy = Acknowledged(sync.stored)]
          /\ Reads /\ UNCHANGED <<timer, applying>>
       \/ ~local.link /\ SyncEnds(sync.stored, sync.payload) /\ UNCHANGED seen
    /\ UNCHANGED <<server, local, cache, pub, queued, event, count>>

\* ... and the array is written back, without the cache: the listener hears it
\* if the other pass has taken the flag down.
SyncNotes ==
    /\ sync.pc = "ack"
    /\ local' = sync.copy
    /\ timer' = (timer \/ Calls(sync.copy) \/ NeedsPublish(sync.stored, sync.payload))
    /\ sync' = NoSync /\ applying' = FALSE
    /\ UNCHANGED <<server, cache, pub, queued, event, count, seen>>

\* The fetch or the PATCH fails or a write is refused: the caller sees it, and the
\* outbox keeps the notification for a retry.
SyncFails ==
    /\ sync.pc \in {"fetch", "answer", "share", "ack"} /\ count.faults < MaxFaults
    /\ sync' = NoSync
    /\ event' = (event \/ sync.event)
    /\ \/ sync.pc \in {"fetch", "answer"} /\ UNCHANGED applying
       \/ sync.pc \in {"answer", "share", "ack"} /\ applying' = FALSE
    /\ Spend("faults")
    /\ UNCHANGED <<server, local, cache, pub, queued, timer, seen>>

----------------------------------------------------------------------------
(* publish *)

\* publishTimer fires: the publish takes its place behind the one under way.
TimerFires ==
    /\ timer /\ ~queued
    /\ timer' = FALSE /\ queued' = TRUE
    /\ UNCHANGED <<server, local, cache, sync, pub, applying, event, count, seen>>

\* Mutant: only the rows that changed are sent, and the ids are counted from those.
PublishStartsSmall ==
    /\ queued /\ pub.pc = "none"
    /\ queued' = FALSE
    /\ LET unsent == IsManaged(local) /\ local.doc # cache.doc
       IN  pub' = [NoPub EXCEPT !.pc = "sent", !.sent = IF unsent THEN local ELSE NoRow,
                                !.removes = cache.live /\ ~unsent]
    /\ UNCHANGED <<server, local, cache, sync, timer, applying, event, count, seen>>

\* publishOnce reads storage and sends its managed rows, and the ids the cache
\* lists and the array no longer has.
PublishStarts ==
    /\ queued /\ pub.pc = "none"
    /\ queued' = FALSE
    /\ pub' = [NoPub EXCEPT !.pc = "sent", !.sent = local,
                            !.removes = cache.live /\ ~IsManaged(local)]
    /\ UNCHANGED <<server, local, cache, sync, timer, applying, event, count, seen>>

\* The service handles the PUT; a row that left the bucket stays out.
ServerWrites ==
    LET w == pub.sent
        writes == server.live /\ IsManaged(w)
        ok == writes /\ ~Refused(w)
    IN  /\ pub.pc = "sent"
        /\ server' = CASE ok -> [server EXCEPT !.doc = Merged(w),
                                    !.by = [f \in Fields |-> IF Taken(w, f) THEN "me" ELSE @[f]]]
                       [] ~ok /\ pub.removes -> [server EXCEPT !.live = FALSE]
                       [] OTHER -> server
        /\ pub' = [pub EXCEPT !.pc = "answer", !.conflict = writes /\ ~ok,
                              !.payload = [live |-> server'.live, doc |-> server'.doc]]
        /\ seen' = [seen EXCEPT
               !.accepted = [f \in Fields |-> IF ok THEN @[f] \cup {server'.doc[f]} ELSE @[f]],
               !.conflict = writes /\ ~ok]
        /\ UNCHANGED <<local, cache, sync, queued, timer, applying, event, count>>

\* Mutant: the array read before the request is reconciled.
PublishReadsSent ==
    LET sent == IsManaged(pub.sent)
    IN  /\ pub.pc = "answer"
        /\ pub' = [NoPub EXCEPT !.pc = "write", !.payload = pub.payload, !.sent =
                Reconcile(pub.sent, pub.payload, pub.conflict, sent /\ ~pub.conflict)]
        /\ applying' = TRUE /\ Reads
        /\ UNCHANGED <<server, local, cache, sync, queued, timer, event, count>>

\* The array is read again and the answer reconciled with it; a row the server
\* refused, or that changed since it was sent, keeps what the editor saved.
PublishReads ==
    LET sent == IsManaged(pub.sent)
        keep == pub.conflict \/ (sent /\ IsManaged(local) /\ local.doc # pub.sent.doc)
    IN  /\ pub.pc = "answer"
        /\ pub' = [NoPub EXCEPT !.pc = "write", !.payload = pub.payload, !.sent =
                Reconcile(local, pub.payload, keep, sent /\ ~pub.conflict)]
        /\ applying' = TRUE /\ Reads
        /\ UNCHANGED <<server, local, cache, sync, queued, timer, event, count>>

PublishWrites ==
    /\ pub.pc = "write"
    /\ Store(pub.sent, pub.payload)
    /\ IF ShareDue(pub.sent)
       THEN pub' = [NoPub EXCEPT !.pc = "share", !.sent = pub.sent] /\ UNCHANGED applying
       ELSE pub' = NoPub /\ applying' = FALSE
    /\ UNCHANGED <<server, sync, queued, timer, event, count, seen>>

PublishShared ==
    /\ pub.pc = "share"
    /\ \/ /\ local.link
          /\ pub' = [pub EXCEPT !.pc = "ack", !.sent = Acknowledged(@)]
          /\ Reads /\ UNCHANGED applying
       \/ ~local.link /\ pub' = NoPub /\ applying' = FALSE /\ UNCHANGED seen
    /\ UNCHANGED <<server, local, cache, sync, queued, timer, event, count>>

PublishNotes ==
    /\ pub.pc = "ack"
    /\ local' = pub.sent
    /\ Heard(pub.sent)
    /\ pub' = NoPub /\ applying' = FALSE
    /\ UNCHANGED <<server, cache, sync, queued, event, count, seen>>

\* Mutant: the failed publish is left to its caller.
PublishFailsQuietly ==
    /\ pub.pc # "none" /\ count.faults < MaxFaults
    /\ pub' = NoPub
    /\ applying' = (applying /\ pub.pc \in {"sent", "answer"})
    /\ Spend("faults")
    /\ UNCHANGED <<server, local, cache, sync, queued, timer, event, seen>>

\* The PUT, its answer or the PATCH is lost or a write is refused: another publish
\* after 15 seconds.
PublishFails ==
    /\ pub.pc # "none" /\ count.faults < MaxFaults
    /\ pub' = NoPub /\ timer' = TRUE
    /\ applying' = (applying /\ pub.pc \in {"sent", "answer"})
    /\ Spend("faults")
    /\ UNCHANGED <<server, local, cache, sync, queued, event, seen>>

\* The browser ends the worker and a later event starts it: timers and requests
\* are gone, and the sync of the start trusts the cache.
Restart ==
    /\ count.restarts < MaxRestarts
    /\ sync' = NoSync /\ pub' = NoPub /\ queued' = FALSE /\ applying' = FALSE
    /\ timer' = NeedsPublish(local, cache)
    /\ event' = (event \/ sync.event)
    /\ Spend("restarts")
    /\ UNCHANGED <<server, local, cache, seen>>

PublishNext ==
    \/ TimerFires \/ PublishStarts \/ ServerWrites
    \/ PublishReads \/ PublishWrites \/ PublishShared \/ PublishNotes

Next ==
    \/ \E f \in Contested : OtherEdits(f)
    \/ \E f \in Fields : UserEdits(f)
    \/ OtherRemoves \/ UserDeletes
    \/ \E told \in BOOLEAN : SyncStarts(told)
    \/ SyncAnswered \/ SyncApplies \/ SyncShared \/ SyncNotes \/ SyncFails
    \/ PublishNext \/ PublishFails
    \/ Restart

Spec == Init /\ [][Next]_vars

\* The timer of a publish fires, and its request and its storage calls end.  Nothing
\* is owed by a sync, the user, other parents or the browser.
Fairness == WF_vars(PublishNext)
FairSpec == Spec /\ Fairness

----------------------------------------------------------------------------
(* Properties *)

RowType == [st : {"managed", "detached", "absent"}, doc : Docs, base : Docs,
            link : BOOLEAN, shared : Docs]
AnswerType == [live : BOOLEAN, doc : Docs]

\* Types, with what ties the passes to the flags: the array is being applied
\* only while a pass writes it or patches the share link.
TypeOK ==
    /\ server \in [live : BOOLEAN, doc : Docs, by : [Fields -> {"me", "other"}], mine : BOOLEAN]
    /\ local \in RowType
    /\ cache \in AnswerType
    /\ sync \in [pc : {"none", "fetch", "answer", "share", "ack"}, stored : RowType,
                 payload : AnswerType, event : BOOLEAN, copy : RowType]
    /\ pub \in [pc : {"none", "sent", "answer", "write", "share", "ack"}, sent : RowType,
                removes : BOOLEAN, payload : AnswerType, conflict : BOOLEAN]
    /\ {queued, timer, applying, event} \subseteq BOOLEAN
    /\ count \in [{"edits", "others", "deletes", "removals", "opens", "faults", "restarts"} -> Nat]
    /\ seen \in [accepted : [Fields -> SUBSET EditNumbers], removed : BOOLEAN, conflict : BOOLEAN,
                link : BOOLEAN, last : Docs, raced : SUBSET Fields]
    /\ applying => sync.pc \in {"share", "ack"} \/ pub.pc \in {"write", "share", "ack"}

\* managed-email-templates.js:417-422: an autosave that lands while a request is in
\* flight outlives the answer.  The array is read and written by sync, publish and
\* acknowledgeShare in turn or at once, and the latest edit of a field is always
\* stored or taken by the server, unless it was saved while a pass held an array
\* it had read before: from :384 to :351 for a sync, from :423 to :351 for a
\* publish, from :176 to :197 for a share.
OnlyRacedEditsAreLost ==
    ~seen.removed /\ count.deletes = 0 =>
        \A f \in Fields : \/ local.doc[f] = seen.last[f]
                          \/ seen.last[f] \in seen.accepted[f]
                          \/ f \in seen.raced

\* managed-email-templates.js:298-302: the template this installation contributed
\* is lost only when its user deletes it.
ContributionSurvives == server.mine /\ count.deletes = 0 => local.st # "absent"

\* The bucket loses the row only when a parent means it: the user deleted it here,
\* or another parent did.
RemovalIsMeant == server.live \/ seen.removed \/ count.deletes > 0

\* An edit the server has not taken and has not refused is still unsent.
Unsent(f) == local.doc[f] \notin seen.accepted[f]

\* The same line without the exception, of the other pass: a sync never replaces
\* an edit saved while its request was in flight.
SyncKeepsEdits ==
    [][sync.pc = "answer" /\ sync'.pc # "answer" =>
        \A f \in Fields : Unsent(f) => local'.doc[f] = local.doc[f]]_vars

\* As long as the row has no share link, nobody else changes it and the manager is
\* not opened: whatever differs from the bucket is published, whichever requests
\* are lost and however publishes queue, or it is named as a conflict.
Alone == ~seen.link /\ count.others + count.removals + count.opens = 0
EditsArrive ==
    Alone /\ NeedsPublish(local, cache)
        ~> ~NeedsPublish(local, cache) \/ seen.conflict \/ ~Alone
=============================================================================
