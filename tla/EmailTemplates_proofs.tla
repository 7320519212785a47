----------------------- MODULE EmailTemplates_proofs -----------------------
(***************************************************************************)
(* Theorems about the two ways an email template gets to the server: one   *)
(* row of the managed template bucket (ManagedTemplates), for any document *)
(* fields and any number of edits, deletions, faults and restarts, and a   *)
(* draft that waits for approval (TemplateSubmissions), for any number of  *)
(* saves, foreign revisions and losses.  The two share no state; each has  *)
(* an invariant of its own, TInv and IInv, and SubmissionsInv.             *)
(*                                                                         *)
(* Three facts carry the proofs about the bucket.  It never takes a row    *)
(* back, so an answer without the row stays true (Final).  Every document  *)
(* that is used as a merge base, wherever a pass holds it, is made of      *)
(* values the server took (Known): what a reconciliation replaces is never *)
(* an unsent edit of the array it was given.  And every array a pass holds *)
(* has the latest edits but those saved since it was read (Kept).          *)
(*                                                                         *)
(* A draft's caller is answered by the job its group has in the queue: the *)
(* group has exactly one (OneUpdate), whose last document is as new as any *)
(* the callers sent (NewestLast).                                          *)
(***************************************************************************)
EXTENDS ManagedTemplates, TemplateSubmissions, SequenceTheorems, TLAPS

Bounded == count.edits <= MaxEdits /\ count.others <= MaxOthers

Within(accepted, doc) == \A f \in Fields : doc[f] \in accepted[f]
Accepted(doc) == Within(seen.accepted, doc)

Known ==
    /\ Accepted(Blank) /\ Accepted(server.doc)
    /\ Accepted(local.base) /\ Accepted(pub.sent.base)
    /\ Accepted(sync.stored.base) /\ Accepted(sync.copy.base)
    /\ Accepted(sync.payload.doc) /\ Accepted(pub.payload.doc)

Final == server.live => cache.live /\ sync.payload.live /\ pub.payload.live

\* A publish without the row takes it out of the bucket; one the server took
\* has nothing that is unsent.
Sending ==
    /\ pub.pc = "sent" /\ ~IsManaged(pub.sent) => pub.removes \/ ~server.live
    /\ pub.pc = "answer" /\ ~IsManaged(pub.sent) => ~pub.payload.live /\ ~pub.conflict
    /\ pub.pc = "answer" /\ IsManaged(pub.sent) /\ ~pub.conflict /\ pub.payload.live
         => Accepted(pub.sent.doc)

\* A publish is past its read: sent is the row it writes or has written.
Reconciling == pub.pc \in {"write", "share", "ack"}

\* The contribution is in the stored array and in those the passes go by.
Contributed ==
    server.mine /\ count.deletes = 0 =>
      /\ local.st # "absent"
      /\ sync.pc # "none" => sync.stored.st # "absent"
      /\ sync.pc = "ack" => sync.copy.st # "absent"
      /\ Reconciling => pub.sent.st # "absent"

\* As long as nobody removed it, every copy of the row is a managed one.
Untouched ==
    ~seen.removed /\ count.deletes = 0 =>
      /\ server.live /\ IsManaged(local) /\ ~pub.removes
      /\ sync.pc # "none" => IsManaged(sync.stored)
      /\ sync.pc = "ack" => IsManaged(sync.copy)
      /\ Reconciling => IsManaged(pub.sent)

TInv == TypeOK /\ Bounded

IInv == TInv /\ Known /\ Final /\ Sending /\ Contributed /\ Untouched
-----------------------------------------------------------------------------
(* Types.                                                                  *)

LEMMA BlankType == Blank \in Docs /\ Original \in AnswerType /\ NoRow \in RowType
<1>1. 0 \in EditNumbers
  BY BoundsAreNaturals DEF EditNumbers
<1>2. Blank \in Docs
  BY <1>1 DEF Blank, Docs
<1> QED
  BY <1>2 DEF Original, NoRow, AnswerType, RowType

LEMMA NextEditType ==
    ASSUME TInv
    PROVE  /\ count.edits < MaxEdits => NextEdit \in EditNumbers
           /\ count.others < MaxOthers => TheirEdit \in EditNumbers
<1>1. count.edits \in Nat /\ count.others \in Nat
  BY DEF TInv, TypeOK
<1> QED
  BY <1>1, BoundsAreNaturals DEF TInv, Bounded, NextEdit, TheirEdit, EditNumbers

\* A mishap adds one to its counter only.
LEMMA SpendFacts ==
    ASSUME TypeOK,
           NEW what \in {"edits", "others", "deletes", "removals", "opens", "faults", "restarts"},
           Spend(what)
    PROVE  /\ count' \in [{"edits", "others", "deletes", "removals", "opens", "faults",
                           "restarts"} -> Nat]
           /\ count'[what] = count[what] + 1
           /\ \A x \in {"edits", "others", "deletes", "removals", "opens", "faults",
                        "restarts"} \ {what} : count'[x] = count[x]
BY DEF TypeOK, Spend

\* What the reconciliation of a row with an answer can be.
Reconciled(row, answer, new) ==
    /\ new \in RowType
    /\ new.base \in {row.base, answer.doc, Blank}
    /\ answer.live => IsManaged(new)
    /\ server.mine /\ row.st # "absent" => new.st # "absent"
    /\ IsManaged(row) /\ ~IsManaged(new) => ~answer.live

LEMMA ReconcileFacts ==
    ASSUME NEW row \in RowType, NEW answer \in AnswerType, NEW keep \in BOOLEAN,
           NEW ack \in BOOLEAN, server.mine \in BOOLEAN
    PROVE  Reconciled(row, answer, Reconcile(row, answer, keep, ack))
<1> DEFINE new == Reconcile(row, answer, keep, ack)
<1> HIDE DEF new
<1> SUFFICES Reconciled(row, answer, new)
  BY DEF new
<1> USE DEF Reconciled
<1> DEFINE base == IF ack THEN answer.doc ELSE row.base
           stays == IsManaged(row) /\ keep /\ row.doc # base
<1>1. /\ base \in Docs /\ base \in {row.base, answer.doc}
      /\ answer.live \in BOOLEAN /\ answer.doc \in Docs
  BY DEF RowType, AnswerType
<1>2. new = CASE answer.live /\ stays -> [row EXCEPT !.base = base]
              [] answer.live /\ ~stays -> ManagedRecord(row, answer)
              [] ~answer.live /\ IsManaged(row) /\ server.mine -> [row EXCEPT !.st = "detached"]
              [] ~answer.live /\ IsManaged(row) /\ ~server.mine -> NoRow
              [] ~answer.live /\ ~IsManaged(row) -> row
  BY DEF Reconcile, new
<1>3. stays => IsManaged(row)
  OBVIOUS
<1> HIDE DEF base, stays
<1>4. CASE answer.live /\ stays
  <2>1. new = [row EXCEPT !.base = base]
    BY <1>1, <1>2, <1>4
  <2> QED
    BY <1>1, <1>3, <1>4, <2>1 DEF RowType, IsManaged
<1>5. CASE answer.live /\ ~stays
  <2>1. new = ManagedRecord(row, answer)
    BY <1>1, <1>2, <1>5
  <2> QED
    BY <1>1, <1>5, <2>1 DEF ManagedRecord, RowType, IsManaged
<1>6. CASE ~answer.live /\ IsManaged(row) /\ server.mine
  <2>1. new = [row EXCEPT !.st = "detached"]
    BY <1>1, <1>2, <1>6
  <2> QED
    BY <1>1, <1>6, <2>1 DEF RowType, IsManaged
<1>7. CASE ~answer.live /\ IsManaged(row) /\ ~server.mine
  <2>1. new = NoRow
    BY <1>1, <1>2, <1>7
  <2> QED
    BY <1>7, <2>1, BlankType DEF NoRow
<1>8. CASE ~answer.live /\ ~IsManaged(row)
  <2>1. new = row
    BY <1>1, <1>2, <1>8
  <2> QED
    BY <1>8, <2>1
<1> QED
  BY <1>1, <1>4, <1>5, <1>6, <1>7, <1>8

LEMMA AnswerTyped == ASSUME TypeOK PROVE Answer \in AnswerType
BY DEF TypeOK, Answer, AnswerType

LEMMA MergedType ==
    ASSUME TypeOK, NEW w \in RowType PROVE Merged(w) \in Docs
BY DEF TypeOK, Merged, RowType, Docs

SyncPasses == {"none", "fetch", "answer", "share", "ack"}

SyncType == [pc : SyncPasses, stored : RowType, payload : AnswerType, event : BOOLEAN,
             copy : RowType]

PubPasses == {"none", "sent", "answer", "write", "share", "ack"}

PubType == [pc : PubPasses, sent : RowType, removes : BOOLEAN, payload : AnswerType,
            conflict : BOOLEAN]

SeenType == [accepted : [Fields -> SUBSET EditNumbers], removed : BOOLEAN, conflict : BOOLEAN,
             link : BOOLEAN, last : Docs, raced : SUBSET Fields]

\* The passes during which the flag may be up.
SyncApplying == sync.pc \in {"share", "ack"}
Applied == SyncApplying \/ Reconciling

Counters == {"edits", "others", "deletes", "removals", "opens", "faults", "restarts"}

LEMMA TypeFacts ==
    ASSUME TInv
    PROVE  /\ server \in [live : BOOLEAN, doc : Docs, by : [Fields -> {"me", "other"}],
                          mine : BOOLEAN]
           /\ local \in RowType /\ cache \in AnswerType
           /\ sync \in SyncType /\ pub \in PubType
           /\ queued \in BOOLEAN /\ timer \in BOOLEAN /\ applying \in BOOLEAN
           /\ event \in BOOLEAN
           /\ count \in [Counters -> Nat]
           /\ seen \in SeenType
           /\ applying => Applied
BY DEF TInv, TypeOK, SyncType, PubType, SyncPasses, PubPasses, Counters, SeenType, Applied,
       SyncApplying, Reconciling

LEMMA TypeMade ==
    ASSUME server' \in [live : BOOLEAN, doc : Docs, by : [Fields -> {"me", "other"}],
                        mine : BOOLEAN],
           local' \in RowType, cache' \in AnswerType,
           sync' \in SyncType, pub' \in PubType,
           queued' \in BOOLEAN, timer' \in BOOLEAN, applying' \in BOOLEAN, event' \in BOOLEAN,
           count' \in [Counters -> Nat],
           count'["edits"] <= MaxEdits, count'["others"] <= MaxOthers,
           seen' \in SeenType,
           applying' => Applied'
    PROVE  TInv'
<1>1. {queued', timer', applying', event'} \subseteq BOOLEAN
  OBVIOUS
<1> QED
  BY <1>1 DEF TInv, TypeOK, Bounded, SyncType, PubType, SyncPasses, PubPasses, Counters,
              SeenType, Applied, SyncApplying, Reconciling

\* A step that spends a mishap, or none, but no edit.
LEMMA CountKept ==
    ASSUME TInv,
           UNCHANGED count
             \/ \E what \in {"deletes", "removals", "opens", "faults", "restarts"} : Spend(what)
    PROVE  /\ count' \in [Counters -> Nat]
           /\ count'["edits"] <= MaxEdits /\ count'["others"] <= MaxOthers
           /\ count'["edits"] = count["edits"] /\ count'["others"] = count["others"]
           /\ count'["deletes"] \in {count["deletes"], count["deletes"] + 1}
           /\ ~Spend("deletes") => count'["deletes"] = count["deletes"]
<1>1. /\ count \in [Counters -> Nat]
      /\ count["edits"] <= MaxEdits /\ count["others"] <= MaxOthers
  BY TypeFacts DEF TInv, Bounded
<1>2. CASE UNCHANGED count
  BY <1>1, <1>2
<1>3. ASSUME NEW what \in {"deletes", "removals", "opens", "faults", "restarts"}, Spend(what)
      PROVE  /\ count' \in [Counters -> Nat]
             /\ count'["edits"] = count["edits"] /\ count'["others"] = count["others"]
             /\ count'["deletes"] \in {count["deletes"], count["deletes"] + 1}
             /\ ~Spend("deletes") => count'["deletes"] = count["deletes"]
  <2>1. count' = [count EXCEPT ![what] = @ + 1]
    BY <1>3 DEF Spend
  <2> QED
    BY <1>1, <1>3, <2>1 DEF Counters
<1> QED
  BY <1>1, <1>2, <1>3

LEMMA StartTypes == NoSync \in SyncType /\ NoPub \in PubType /\ NoSync.pc = "none" /\ NoPub.pc = "none"
BY BlankType DEF NoSync, NoPub, SyncType, PubType, SyncPasses, PubPasses

\* What a pass's read of the array does to the history.
LEMMA ReadsFacts ==
    ASSUME TInv, Reads
    PROVE  /\ seen' \in SeenType
           /\ seen'.accepted = seen.accepted /\ seen'.removed = seen.removed
           /\ seen'.last = seen.last /\ seen'.raced \subseteq seen.raced
           /\ CopyHeld => seen'.raced = seen.raced
           /\ \A f \in seen.raced \ seen'.raced : local.doc[f] = seen.last[f]
<1> DEFINE left == IF CopyHeld THEN seen.raced ELSE {f \in seen.raced : local.doc[f] # seen.last[f]}
<1>1. seen' = [seen EXCEPT !.raced = left]
  BY DEF Reads
<1>2. left \subseteq seen.raced /\ (CopyHeld => left = seen.raced)
      /\ \A f \in seen.raced \ left : local.doc[f] = seen.last[f]
  OBVIOUS
<1> HIDE DEF left
<1> QED
  BY <1>1, <1>2, TypeFacts DEF SeenType

LEMMA TypeInit == Init => TInv
<1> SUFFICES ASSUME Init PROVE TInv
  OBVIOUS
<1>1. /\ server \in [live : BOOLEAN, doc : Docs, by : [Fields -> {"me", "other"}],
                     mine : BOOLEAN]
      /\ local \in RowType /\ local.link \in BOOLEAN /\ cache \in AnswerType
  <2>1. PICK mine \in BOOLEAN :
          server = [live |-> TRUE, doc |-> Blank, by |-> [f \in Fields |-> "me"], mine |-> mine]
    BY DEF Init
  <2>2. PICK link \in {FALSE, server.mine} : local = [NoRow EXCEPT !.st = "managed", !.link = link]
    BY DEF Init
  <2>3. server.mine \in BOOLEAN /\ link \in BOOLEAN
    BY <2>1, <2>2
  <2>4. local \in RowType /\ local.link = link
    BY <2>2, <2>3, BlankType DEF RowType
  <2> QED
    BY <2>1, <2>3, <2>4, BlankType DEF Init
<1>2. sync \in SyncType /\ pub \in PubType
  BY StartTypes DEF Init
<1>3. {queued, timer, applying, event} \subseteq BOOLEAN /\ ~applying
  BY DEF Init
<1>4. /\ count \in [Counters -> Nat]
      /\ count.edits <= MaxEdits /\ count.others <= MaxOthers
  BY BoundsAreNaturals DEF Init, Counters
<1>5. seen \in SeenType
  <2>1. {0} \subseteq EditNumbers
    BY BoundsAreNaturals DEF EditNumbers
  <2> QED
    BY <1>1, <2>1, BlankType DEF Init, SeenType
<1> QED
  BY <1>1, <1>2, <1>3, <1>4, <1>5
     DEF TInv, TypeOK, Bounded, SyncType, PubType, SyncPasses, PubPasses, Counters, SeenType

LEMMA TypeOthers ==
    ASSUME TInv, OtherRemoves \/ \E f \in Contested : OtherEdits(f) PROVE TInv'
<1>1. CASE OtherRemoves
  <2>1. /\ UNCHANGED <<local, cache, sync, pub, queued, timer, applying>>
        /\ event' = TRUE /\ Spend("removals")
        /\ server' = [server EXCEPT !.live = FALSE]
        /\ seen' = [seen EXCEPT !.removed = TRUE]
    BY <1>1 DEF OtherRemoves
  <2>2. Applied' = Applied
    BY <2>1 DEF Applied, SyncApplying, Reconciling
  <2>3. seen' \in SeenType
    BY <2>1, TypeFacts DEF SeenType
  <2> QED
    BY <2>1, <2>2, <2>3, TypeFacts, CountKept, TypeMade
<1>2. ASSUME NEW f \in Contested, OtherEdits(f) PROVE TInv'
  <2>1. /\ UNCHANGED <<local, cache, sync, pub, queued, timer, applying>>
        /\ event' = TRUE /\ Spend("others") /\ count.others < MaxOthers
        /\ server' = [server EXCEPT !.doc[f] = TheirEdit, !.by[f] = "other"]
        /\ seen' = [seen EXCEPT !.accepted[f] = @ \cup {TheirEdit}]
    BY <1>2 DEF OtherEdits
  <2>2. TheirEdit \in EditNumbers
    BY <2>1, NextEditType
  <2>3. /\ count' \in [Counters -> Nat]
        /\ count'["edits"] <= MaxEdits /\ count'["others"] <= MaxOthers
    BY <2>1, SpendFacts, BoundsAreNaturals DEF TInv, TypeOK, Bounded, Counters
  <2>4. server' \in [live : BOOLEAN, doc : Docs, by : [Fields -> {"me", "other"}],
                     mine : BOOLEAN]
    BY <2>1, <2>2, TypeFacts DEF Docs
  <2>5. seen' \in SeenType
    BY <2>1, <2>2, TypeFacts DEF SeenType
  <2>6. Applied' = Applied
    BY <2>1 DEF Applied, SyncApplying, Reconciling
  <2> QED
    BY <2>1, <2>3, <2>4, <2>5, <2>6, TypeFacts, TypeMade
<1> QED
  BY <1>1, <1>2

LEMMA HeardType == ASSUME TInv, NEW row, Heard(row) PROVE timer' \in BOOLEAN
BY DEF Heard

LEMMA TypeUser ==
    ASSUME TInv, UserDeletes \/ \E f \in Fields : UserEdits(f) PROVE TInv'
<1>1. CASE UserDeletes
  <2>1. /\ UNCHANGED <<server, cache, sync, pub, queued, applying, event, seen>>
        /\ local' = NoRow /\ Heard(NoRow) /\ Spend("deletes")
    BY <1>1 DEF UserDeletes
  <2>2. Applied' = Applied
    BY <2>1 DEF Applied, SyncApplying, Reconciling
  <2> QED
    BY <2>1, <2>2, BlankType, HeardType, TypeFacts, CountKept, TypeMade
<1>2. ASSUME NEW f \in Fields, UserEdits(f) PROVE TInv'
  <2>1. /\ UNCHANGED <<server, cache, sync, pub, queued, applying, event>>
        /\ local' = [local EXCEPT !.doc[f] = NextEdit]
        /\ seen' = [seen EXCEPT !.last[f] = NextEdit,
                                !.raced = IF CopyHeld THEN @ \cup {f} ELSE @ \ {f}]
        /\ timer' \in BOOLEAN /\ Spend("edits") /\ count.edits < MaxEdits
    BY <1>2 DEF UserEdits, Heard
  <2>2. NextEdit \in EditNumbers
    BY <2>1, NextEditType
  <2>3. /\ count' \in [Counters -> Nat]
        /\ count'["edits"] <= MaxEdits /\ count'["others"] <= MaxOthers
    BY <2>1, SpendFacts, BoundsAreNaturals DEF TInv, TypeOK, Bounded, Counters
  <2>4. local' \in RowType
    BY <2>1, <2>2, TypeFacts DEF RowType, Docs
  <2>5. seen' \in SeenType
    BY <2>1, <2>2, TypeFacts DEF SeenType, Docs
  <2>6. Applied' = Applied
    BY <2>1 DEF Applied, SyncApplying, Reconciling
  <2> QED
    BY <2>1, <2>3, <2>4, <2>5, <2>6, TypeFacts, TypeMade
<1> QED
  BY <1>1, <1>2

LEMMA EndType ==
    ASSUME NEW row, NEW answer, SyncEnds(row, answer)
    PROVE  sync' = NoSync /\ timer' \in BOOLEAN /\ applying' = FALSE
BY DEF SyncEnds

LEMMA AcknowledgedFacts ==
    ASSUME TInv, NEW sent \in RowType
    PROVE  /\ Acknowledged(sent) \in RowType /\ Acknowledged(sent).st = local.st
           /\ Acknowledged(sent).doc = local.doc /\ Acknowledged(sent).base = local.base
<1>1. local \in RowType /\ sent.doc \in Docs
  BY TypeFacts DEF RowType
<1> QED
  BY <1>1 DEF RowType, Acknowledged

\* What a share in flight leads to.
LEMMA SyncSharedFacts ==
    ASSUME TInv, SyncShared
    PROVE  /\ sync' \in SyncType /\ timer' \in BOOLEAN /\ applying' \in BOOLEAN
           /\ sync.pc = "share"
           /\ seen' \in SeenType /\ (applying' => sync'.pc = "ack")
           /\ UNCHANGED <<server, local, cache, pub, queued, event, count>>
           /\ \/ /\ sync'.pc = "ack" /\ sync'.stored = sync.stored
                 /\ sync'.payload = sync.payload /\ sync'.copy.st = local.st
                 /\ sync'.copy.doc = local.doc /\ sync'.copy.base = local.base /\ Reads
              \/ sync' = NoSync /\ seen' = seen
<1>1. /\ sync.pc = "share" /\ sync \in SyncType /\ sync.stored \in RowType
      /\ UNCHANGED <<server, local, cache, pub, queued, event, count>>
  BY TypeFacts DEF SyncShared, SyncType
<1>2. CASE /\ sync' = [sync EXCEPT !.pc = "ack", !.copy = Acknowledged(sync.stored)]
           /\ Reads /\ UNCHANGED <<timer, applying>>
  BY <1>1, <1>2, AcknowledgedFacts, ReadsFacts, TypeFacts DEF SyncType, SyncPasses
<1>3. CASE SyncEnds(sync.stored, sync.payload) /\ UNCHANGED seen
  BY <1>1, <1>3, StartTypes, TypeFacts DEF SyncEnds
<1> QED
  BY <1>1, <1>2, <1>3 DEF SyncShared

LEMMA PublishSharedFacts ==
    ASSUME TInv, PublishShared
    PROVE  /\ pub' \in PubType /\ applying' \in BOOLEAN
           /\ pub.pc = "share"
           /\ seen' \in SeenType /\ (applying' => pub'.pc = "ack")
           /\ UNCHANGED <<server, local, cache, sync, queued, timer, event, count>>
           /\ \/ /\ pub'.pc = "ack" /\ pub'.payload = pub.payload /\ pub'.removes = pub.removes
                 /\ pub'.sent.st = local.st /\ pub'.sent.doc = local.doc
                 /\ pub'.sent.base = local.base /\ Reads
              \/ pub' = NoPub /\ seen' = seen
<1>1. /\ pub.pc = "share" /\ pub \in PubType /\ pub.sent \in RowType
      /\ UNCHANGED <<server, local, cache, sync, queued, timer, event, count>>
  BY TypeFacts DEF PublishShared, PubType
<1>2. CASE /\ pub' = [pub EXCEPT !.pc = "ack", !.sent = Acknowledged(@)]
           /\ Reads /\ UNCHANGED applying
  <2> DEFINE noted == Acknowledged(pub.sent)
  <2>1. pub' = [pub EXCEPT !.pc = "ack", !.sent = noted]
    BY <1>2
  <2>2. /\ noted \in RowType /\ noted.st = local.st
        /\ noted.doc = local.doc /\ noted.base = local.base
    BY <1>1, AcknowledgedFacts
  <2> HIDE DEF noted
  <2>3. /\ pub' \in PubType /\ pub'.pc = "ack" /\ pub'.sent = noted
        /\ pub'.payload = pub.payload /\ pub'.removes = pub.removes
    BY <1>1, <2>1, <2>2 DEF PubType, PubPasses
  <2>4. seen' \in SeenType /\ applying' \in BOOLEAN /\ Reads
    BY <1>2, ReadsFacts, TypeFacts
  <2> QED
    BY <1>1, <2>2, <2>3, <2>4
<1>3. CASE pub' = NoPub /\ applying' = FALSE /\ UNCHANGED seen
  BY <1>1, <1>3, StartTypes, TypeFacts
<1> QED
  BY <1>1, <1>2, <1>3 DEF PublishShared

\* What a sync stores.
LEMMA SyncAppliesFacts ==
    ASSUME TInv, SyncApplies
    PROVE  /\ local' \in RowType
           /\ local'.base \in {sync.stored.base, sync.payload.doc, Blank}
           /\ sync.payload.live => IsManaged(local')
           /\ server.mine /\ sync.stored.st # "absent" => local'.st # "absent"
           /\ cache' = sync.payload
           /\ \/ /\ sync' = [sync EXCEPT !.pc = "share", !.stored = local']
                 /\ applying' = TRUE /\ timer' = timer
              \/ sync' = NoSync /\ timer' \in BOOLEAN /\ applying' = FALSE
           /\ UNCHANGED <<server, pub, queued, event, count, seen>>
<1> DEFINE row == Reconcile(sync.stored, sync.payload, TRUE, FALSE)
<1>1. /\ Store(row, sync.payload)
      /\ IF ShareDue(row)
         THEN /\ sync' = [sync EXCEPT !.pc = "share", !.stored = row]
              /\ applying' = TRUE /\ UNCHANGED timer
         ELSE SyncEnds(row, sync.payload)
      /\ UNCHANGED <<server, pub, queued, event, count, seen>>
  BY DEF SyncApplies
<1>2. /\ sync.stored \in RowType /\ sync.payload \in AnswerType
      /\ server.mine \in BOOLEAN
  BY TypeFacts DEF SyncType
<1>3. /\ row \in RowType
      /\ row.base \in {sync.stored.base, sync.payload.doc, Blank}
      /\ sync.payload.live => IsManaged(row)
      /\ server.mine /\ sync.stored.st # "absent" => row.st # "absent"
  BY <1>2, ReconcileFacts DEF Reconciled
<1> HIDE DEF row
<1>4. local' = row /\ cache' = sync.payload
  BY <1>1 DEF Store
<1>5. \/ /\ sync' = [sync EXCEPT !.pc = "share", !.stored = row]
         /\ applying' = TRUE /\ timer' = timer
      \/ sync' = NoSync /\ timer' \in BOOLEAN /\ applying' = FALSE
  BY <1>1, EndType
<1> QED
  BY <1>1, <1>3, <1>4, <1>5

LEMMA TypeSync ==
    ASSUME TInv,
           \/ \E told \in BOOLEAN : SyncStarts(told)
           \/ SyncAnswered \/ SyncApplies \/ SyncShared \/ SyncNotes \/ SyncFails
    PROVE  TInv'
<1>1. ASSUME NEW told \in BOOLEAN, SyncStarts(told) PROVE TInv'
  <2>1. /\ UNCHANGED <<server, local, cache, pub, queued, timer, applying>>
        /\ UNCHANGED count \/ Spend("opens")
        /\ event' \in BOOLEAN /\ sync.pc = "none" /\ Reads
        /\ sync' = [NoSync EXCEPT !.pc = "fetch", !.stored = local, !.event = told]
    BY <1>1 DEF SyncStarts
  <2>2. sync' \in SyncType
    BY <2>1, StartTypes, TypeFacts DEF SyncType, SyncPasses
  <2>3. applying => Applied'
    BY <2>1, TypeFacts DEF Applied, SyncApplying, Reconciling
  <2> QED
    BY <2>1, <2>2, <2>3, ReadsFacts, TypeFacts, CountKept, TypeMade
<1>2. CASE SyncAnswered
  <2>1. /\ UNCHANGED <<server, local, cache, pub, queued, timer, applying, event, count, seen>>
        /\ sync.pc = "fetch" /\ sync' = [sync EXCEPT !.pc = "answer", !.payload = Answer]
    BY <1>2 DEF SyncAnswered
  <2>2. sync' \in SyncType
    BY <2>1, AnswerTyped, TypeFacts DEF SyncType, SyncPasses, TInv
  <2>3. applying => Applied'
    BY <2>1, TypeFacts DEF Applied, SyncApplying, Reconciling
  <2> QED
    BY <2>1, <2>2, <2>3, TypeFacts, CountKept, TypeMade
<1>3. CASE SyncApplies
  <2>1. /\ sync' \in SyncType /\ timer' \in BOOLEAN /\ applying' \in BOOLEAN
        /\ applying' => sync'.pc = "share"
    <3>1. CASE sync' = [sync EXCEPT !.pc = "share", !.stored = local']
               /\ applying' = TRUE /\ timer' = timer
      BY <1>3, <3>1, SyncAppliesFacts, TypeFacts DEF SyncType, SyncPasses
    <3>2. CASE sync' = NoSync /\ timer' \in BOOLEAN /\ applying' = FALSE
      BY <3>2, StartTypes
    <3> QED
      BY <1>3, <3>1, <3>2, SyncAppliesFacts
  <2>2. cache' \in AnswerType
    BY <1>3, SyncAppliesFacts, TypeFacts DEF SyncType
  <2>3. local' \in RowType /\ UNCHANGED <<server, pub, queued, event, count, seen>>
    BY <1>3, SyncAppliesFacts
  <2>4. /\ count' \in [Counters -> Nat]
        /\ count'["edits"] <= MaxEdits /\ count'["others"] <= MaxOthers
    BY <2>3, CountKept
  <2>5. applying' => Applied'
    BY <2>1 DEF Applied, SyncApplying
  <2> QED
    BY <2>1, <2>2, <2>3, <2>4, <2>5, TypeFacts, TypeMade
<1>4. CASE SyncShared
  <2>1. /\ sync' \in SyncType /\ timer' \in BOOLEAN /\ applying' \in BOOLEAN
        /\ seen' \in SeenType /\ (applying' => sync'.pc = "ack")
        /\ UNCHANGED <<server, local, cache, pub, queued, event, count>>
    BY <1>4, SyncSharedFacts
  <2>2. applying' => Applied'
    BY <2>1 DEF Applied, SyncApplying
  <2> QED
    BY <2>1, <2>2, TypeFacts, CountKept, TypeMade
<1>5. CASE SyncNotes
  <2>1. /\ local' = sync.copy /\ sync' = NoSync /\ applying' = FALSE /\ timer' \in BOOLEAN
        /\ UNCHANGED <<server, cache, pub, queued, event, count, seen>>
    BY <1>5 DEF SyncNotes
  <2>2. local' \in RowType
    BY <2>1, TypeFacts DEF SyncType
  <2> QED
    BY <2>1, <2>2, StartTypes, TypeFacts, CountKept, TypeMade
<1>6. CASE SyncFails
  <2>1. /\ UNCHANGED <<server, local, cache, pub, queued, timer, seen>>
        /\ sync' = NoSync /\ Spend("faults")
        /\ event' \in BOOLEAN
        /\ \/ sync.pc \in {"fetch", "answer"} /\ applying' = applying
           \/ applying' = FALSE
    BY <1>6 DEF SyncFails
  <2>2. applying' \in BOOLEAN
    BY <2>1, TypeFacts
  <2>3. applying' => Applied'
    BY <2>1, TypeFacts DEF Applied, SyncApplying, Reconciling
  <2> QED
    BY <2>1, <2>2, <2>3, StartTypes, TypeFacts, CountKept, TypeMade
<1> QED
  BY <1>1, <1>2, <1>3, <1>4, <1>5, <1>6

\* What a publish is about to store.
LEMMA PublishReadsFacts ==
    ASSUME TInv, PublishReads
    PROVE  /\ pub' \in PubType /\ pub'.pc = "write" /\ ~pub'.removes /\ ~pub'.conflict
           /\ pub'.payload = pub.payload
           /\ pub'.sent.base \in {local.base, pub.payload.doc, Blank}
           /\ pub.payload.live => IsManaged(pub'.sent)
           /\ server.mine /\ local.st # "absent" => pub'.sent.st # "absent"
           /\ pub.pc = "answer" /\ applying' = TRUE /\ Reads
           /\ UNCHANGED <<server, local, cache, sync, queued, timer, event, count>>
<1> DEFINE sent == IsManaged(pub.sent)
           keep == pub.conflict \/ (sent /\ IsManaged(local) /\ local.doc # pub.sent.doc)
           row == Reconcile(local, pub.payload, keep, sent /\ ~pub.conflict)
<1>1. /\ pub.pc = "answer" /\ applying' = TRUE /\ Reads
      /\ pub' = [NoPub EXCEPT !.pc = "write", !.payload = pub.payload, !.sent = row]
      /\ UNCHANGED <<server, local, cache, sync, queued, timer, event, count>>
  BY DEF PublishReads
<1>2. /\ local \in RowType /\ pub.payload \in AnswerType
      /\ server.mine \in BOOLEAN
  BY TypeFacts DEF PubType
<1>3. keep \in BOOLEAN /\ (sent /\ ~pub.conflict) \in BOOLEAN
  <2>1. pub.conflict \in BOOLEAN
    BY TypeFacts DEF PubType
  <2> QED
    BY <2>1
<1>4. /\ row \in RowType
      /\ row.base \in {local.base, pub.payload.doc, Blank}
      /\ pub.payload.live => IsManaged(row)
      /\ server.mine /\ local.st # "absent" => row.st # "absent"
  <2>1. /\ Reconciled(local, pub.payload, Reconcile(local, pub.payload, TRUE, TRUE))
        /\ Reconciled(local, pub.payload, Reconcile(local, pub.payload, TRUE, FALSE))
        /\ Reconciled(local, pub.payload, Reconcile(local, pub.payload, FALSE, TRUE))
        /\ Reconciled(local, pub.payload, Reconcile(local, pub.payload, FALSE, FALSE))
    BY <1>2, ReconcileFacts
  <2>2. Reconciled(local, pub.payload, row)
    BY <1>3, <2>1, Zenon
  <2> HIDE DEF row
  <2> QED
    BY <2>2 DEF Reconciled
<1> HIDE DEF row
<1>5. /\ pub' \in PubType /\ pub'.pc = "write" /\ pub'.sent = row /\ pub'.payload = pub.payload
      /\ ~pub'.removes /\ ~pub'.conflict
  BY <1>1, <1>2, <1>4, StartTypes DEF PubType, PubPasses, NoPub
<1> QED
  BY <1>1, <1>4, <1>5

\* What it stores.
LEMMA PublishWritesFacts ==
    ASSUME TInv, PublishWrites
    PROVE  /\ pub.pc = "write" /\ local' = pub.sent /\ cache' = pub.payload
           /\ pub' \in PubType /\ applying' \in BOOLEAN /\ (applying' => pub'.pc = "share")
           /\ \/ /\ pub'.pc = "share" /\ pub'.sent = pub.sent /\ ~pub'.removes
                 /\ pub'.payload = Original
              \/ pub' = NoPub
           /\ UNCHANGED <<server, sync, queued, timer, event, count, seen>>
<1>1. /\ pub.pc = "write" /\ local' = pub.sent /\ cache' = pub.payload
      /\ UNCHANGED <<server, sync, queued, timer, event, count, seen>>
      /\ \/ pub' = [NoPub EXCEPT !.pc = "share", !.sent = pub.sent] /\ applying' = applying
         \/ pub' = NoPub /\ applying' = FALSE
  BY DEF PublishWrites, Store
<1>2. pub.sent \in RowType
  BY TypeFacts DEF PubType
<1>3. CASE pub' = [NoPub EXCEPT !.pc = "share", !.sent = pub.sent] /\ applying' = applying
  BY <1>1, <1>2, <1>3, StartTypes, TypeFacts DEF PubType, PubPasses, NoPub
<1>4. CASE pub' = NoPub /\ applying' = FALSE
  BY <1>1, <1>4, StartTypes
<1> QED
  BY <1>1, <1>3, <1>4

LEMMA ServerWritesFacts ==
    ASSUME TInv, ServerWrites
    PROVE  LET writes == server.live /\ IsManaged(pub.sent)
               ok == writes /\ ~Refused(pub.sent)
           IN  /\ \/ ok /\ server' = [server EXCEPT !.doc = Merged(pub.sent),
                              !.by = [f \in Fields |-> IF Taken(pub.sent, f) THEN "me" ELSE @[f]]]
                  \/ ~ok /\ pub.removes /\ server' = [server EXCEPT !.live = FALSE]
                  \/ ~ok /\ ~pub.removes /\ server' = server
               /\ pub.pc = "sent"
               /\ pub' = [pub EXCEPT !.pc = "answer", !.conflict = writes /\ ~ok,
                              !.payload = [live |-> server'.live, doc |-> server'.doc]]
               /\ seen' = [seen EXCEPT
                      !.accepted = [f \in Fields |-> IF ok THEN @[f] \cup {server'.doc[f]}
                                                     ELSE @[f]],
                      !.conflict = writes /\ ~ok]
               /\ server' \in [live : BOOLEAN, doc : Docs, by : [Fields -> {"me", "other"}],
                               mine : BOOLEAN]
               /\ server'.mine = server.mine
               /\ server'.live => server.live
               /\ ok => server'.live /\ server'.doc = Merged(pub.sent)
               /\ ~ok => server'.doc = server.doc
               /\ UNCHANGED <<local, cache, sync, queued, timer, applying, event, count>>
<1> DEFINE writes == server.live /\ IsManaged(pub.sent)
           ok == writes /\ ~Refused(pub.sent)
           took == [server EXCEPT !.doc = Merged(pub.sent),
                        !.by = [f \in Fields |-> IF Taken(pub.sent, f) THEN "me" ELSE @[f]]]
<1>1. /\ pub.pc = "sent"
      /\ server' = CASE ok -> took
                     [] ~ok /\ pub.removes -> [server EXCEPT !.live = FALSE]
                     [] OTHER -> server
      /\ pub' = [pub EXCEPT !.pc = "answer", !.conflict = writes /\ ~ok,
                            !.payload = [live |-> server'.live, doc |-> server'.doc]]
      /\ seen' = [seen EXCEPT
             !.accepted = [f \in Fields |-> IF ok THEN @[f] \cup {server'.doc[f]} ELSE @[f]],
             !.conflict = writes /\ ~ok]
      /\ UNCHANGED <<local, cache, sync, queued, timer, applying, event, count>>
  BY DEF ServerWrites
<1>2. /\ server \in [live : BOOLEAN, doc : Docs, by : [Fields -> {"me", "other"}],
                     mine : BOOLEAN]
      /\ pub.removes \in BOOLEAN /\ Merged(pub.sent) \in Docs
  BY TypeFacts, MergedType DEF PubType, TInv
<1>3. ok => server.live
  OBVIOUS
<1> HIDE DEF ok
<1>4. \/ ok /\ server' = took
      \/ ~ok /\ pub.removes /\ server' = [server EXCEPT !.live = FALSE]
      \/ ~ok /\ ~pub.removes /\ server' = server
  BY <1>1, <1>2
<1>5. /\ took \in [live : BOOLEAN, doc : Docs, by : [Fields -> {"me", "other"}],
                   mine : BOOLEAN]
      /\ took.mine = server.mine /\ took.live = server.live /\ took.doc = Merged(pub.sent)
  BY <1>2
<1> HIDE DEF took
<1>6. /\ server' \in [live : BOOLEAN, doc : Docs, by : [Fields -> {"me", "other"}],
                      mine : BOOLEAN]
      /\ server'.mine = server.mine
      /\ server'.live => server.live
      /\ ok => server'.live /\ server'.doc = Merged(pub.sent)
      /\ ~ok => server'.doc = server.doc
  BY <1>2, <1>3, <1>4, <1>5
<1> QED
  BY <1>1, <1>4, <1>6 DEF ok, took

LEMMA PublishStartType ==
    ASSUME TInv, PublishStarts PROVE pub' \in PubType /\ pub.pc = "none"
<1>1. /\ pub.pc = "none"
      /\ pub' = [NoPub EXCEPT !.pc = "sent", !.sent = local,
                              !.removes = cache.live /\ ~IsManaged(local)]
  BY DEF PublishStarts
<1> QED
  BY <1>1, StartTypes, TypeFacts DEF PubType, PubPasses

LEMMA TypePublish ==
    ASSUME TInv, PublishNext \/ PublishFails
    PROVE  TInv'
<1>1. CASE TimerFires
  <2>1. /\ UNCHANGED <<server, local, cache, sync, pub, applying, event, count, seen>>
        /\ timer' \in BOOLEAN /\ queued' \in BOOLEAN
    BY <1>1 DEF TimerFires
  <2>2. Applied' = Applied
    BY <2>1 DEF Applied, SyncApplying, Reconciling
  <2> QED
    BY <2>1, <2>2, TypeFacts, CountKept, TypeMade
<1>2. CASE PublishStarts
  <2>1. /\ UNCHANGED <<server, local, cache, sync, timer, applying, event, count, seen>>
        /\ queued' \in BOOLEAN
    BY <1>2 DEF PublishStarts
  <2>2. applying => Applied'
    BY <1>2, <2>1, PublishStartType, TypeFacts DEF Applied, SyncApplying, Reconciling
  <2>3. pub' \in PubType
    BY <1>2, PublishStartType
  <2> QED
    BY <2>1, <2>2, <2>3, TypeFacts, CountKept, TypeMade
<1>3. CASE ServerWrites
  <2> DEFINE writes == server.live /\ IsManaged(pub.sent)
             ok == writes /\ ~Refused(pub.sent)
  <2>1. /\ pub.pc = "sent"
        /\ pub' = [pub EXCEPT !.pc = "answer", !.conflict = writes /\ ~ok,
                       !.payload = [live |-> server'.live, doc |-> server'.doc]]
        /\ seen' = [seen EXCEPT
               !.accepted = [f \in Fields |-> IF ok THEN @[f] \cup {server'.doc[f]} ELSE @[f]],
               !.conflict = writes /\ ~ok]
        /\ server' \in [live : BOOLEAN, doc : Docs, by : [Fields -> {"me", "other"}],
                        mine : BOOLEAN]
        /\ UNCHANGED <<local, cache, sync, queued, timer, applying, event, count>>
    BY <1>3, ServerWritesFacts
  <2>2. (writes /\ ~ok) \in BOOLEAN
    OBVIOUS
  <2> HIDE DEF writes, ok
  <2>3. pub' \in PubType
    <3>1. [live |-> server'.live, doc |-> server'.doc] \in AnswerType
      BY <2>1 DEF AnswerType
    <3> QED
      BY <2>1, <2>2, <3>1, TypeFacts DEF PubType, PubPasses
  <2>4. seen' \in SeenType
    <3>1. \A f \in Fields : server'.doc[f] \in EditNumbers
      BY <2>1 DEF Docs
    <3> DEFINE grown == [f \in Fields |-> IF ok THEN seen.accepted[f] \cup {server'.doc[f]}
                                          ELSE seen.accepted[f]]
               refused == writes /\ ~ok
    <3>2. grown \in [Fields -> SUBSET EditNumbers]
      BY <3>1, TypeFacts DEF SeenType
    <3>3. seen' = [seen EXCEPT !.accepted = grown, !.conflict = refused]
      BY <2>1
    <3>4. refused \in BOOLEAN
      OBVIOUS
    <3> HIDE DEF grown, refused
    <3> QED
      BY <3>2, <3>3, <3>4, TypeFacts DEF SeenType
  <2>5. applying => Applied'
    BY <2>1, TypeFacts DEF Applied, SyncApplying, Reconciling
  <2> QED
    BY <2>1, <2>3, <2>4, <2>5, TypeFacts, CountKept, TypeMade
<1>4. CASE PublishReads
  <2>1. /\ pub' \in PubType /\ pub'.pc = "write" /\ applying' = TRUE /\ Reads
        /\ UNCHANGED <<server, local, cache, sync, queued, timer, event, count>>
    BY <1>4, PublishReadsFacts
  <2>2. Applied'
    BY <2>1 DEF Applied, Reconciling
  <2> QED
    BY <2>1, <2>2, ReadsFacts, TypeFacts, CountKept, TypeMade
<1>5. CASE PublishWrites
  <2>1. /\ pub' \in PubType /\ applying' \in BOOLEAN /\ (applying' => pub'.pc = "share")
        /\ local' = pub.sent /\ cache' = pub.payload
        /\ UNCHANGED <<server, sync, queued, timer, event, count, seen>>
    BY <1>5, PublishWritesFacts
  <2>2. applying' => Applied'
    BY <2>1 DEF Applied, Reconciling
  <2>3. local' \in RowType /\ cache' \in AnswerType
    BY <2>1, TypeFacts DEF PubType
  <2> QED
    BY <2>1, <2>2, <2>3, TypeFacts, CountKept, TypeMade
<1>6. CASE PublishShared
  <2>1. /\ pub' \in PubType /\ applying' \in BOOLEAN
        /\ seen' \in SeenType /\ (applying' => pub'.pc = "ack")
        /\ UNCHANGED <<server, local, cache, sync, queued, timer, event, count>>
    BY <1>6, PublishSharedFacts
  <2>2. applying' => Applied'
    BY <2>1 DEF Applied, Reconciling
  <2> QED
    BY <2>1, <2>2, TypeFacts, CountKept, TypeMade
<1>7. CASE PublishNotes
  <2>1. /\ local' = pub.sent /\ pub' = NoPub /\ applying' = FALSE /\ Heard(pub.sent)
        /\ UNCHANGED <<server, cache, sync, queued, event, count, seen>>
    BY <1>7 DEF PublishNotes
  <2>2. local' \in RowType
    BY <2>1, TypeFacts DEF PubType
  <2> QED
    BY <2>1, <2>2, HeardType, StartTypes, TypeFacts, CountKept, TypeMade
<1>8. CASE PublishFails
  <2>1. /\ UNCHANGED <<server, local, cache, sync, queued, event, seen>>
        /\ pub' = NoPub /\ timer' = TRUE /\ Spend("faults")
        /\ applying' \in BOOLEAN
        /\ applying' => applying /\ pub.pc \in {"sent", "answer"}
    BY <1>8 DEF PublishFails
  <2>2. applying' => Applied'
    BY <2>1, TypeFacts DEF Applied, SyncApplying, Reconciling
  <2> QED
    BY <2>1, <2>2, StartTypes, TypeFacts, CountKept, TypeMade
<1> QED
  BY <1>1, <1>2, <1>3, <1>4, <1>5, <1>6, <1>7, <1>8 DEF PublishNext

LEMMA TypeRestart == ASSUME TInv, Restart PROVE TInv'
<1>1. /\ UNCHANGED <<server, local, cache, seen>>
      /\ sync' = NoSync /\ pub' = NoPub /\ queued' = FALSE /\ applying' = FALSE
      /\ timer' = NeedsPublish(local, cache)
      /\ event' \in BOOLEAN /\ Spend("restarts")
  BY DEF Restart
<1>2. NeedsPublish(local, cache) \in BOOLEAN
  BY TypeFacts DEF NeedsPublish, AnswerType
<1> QED
  BY <1>1, <1>2, StartTypes, TypeFacts, CountKept, TypeMade

LEMMA TypeStep == TInv /\ [Next]_vars => TInv'
<1> SUFFICES ASSUME TInv, [Next]_vars PROVE TInv'
  OBVIOUS
<1>1. CASE UNCHANGED vars
  <2>1. Applied' = Applied
    BY <1>1 DEF vars, Applied, SyncApplying, Reconciling
  <2> QED
    BY <1>1, <2>1, TypeFacts, CountKept, TypeMade DEF vars
<1>2. CASE OtherRemoves \/ \E f \in Contested : OtherEdits(f)
  BY <1>2, TypeOthers
<1>3. CASE UserDeletes \/ \E f \in Fields : UserEdits(f)
  BY <1>3, TypeUser
<1>4. CASE \/ \E told \in BOOLEAN : SyncStarts(told)
           \/ SyncAnswered \/ SyncApplies \/ SyncShared \/ SyncNotes \/ SyncFails
  BY <1>4, TypeSync
<1>5. CASE PublishNext \/ PublishFails
  BY <1>5, TypePublish
<1>6. CASE Restart
  BY <1>6, TypeRestart
<1> QED
  BY <1>1, <1>2, <1>3, <1>4, <1>5, <1>6 DEF Next

\* The stored array, the cache, the passes and the flags keep their types, and
\* the array is being applied only while a pass writes it or patches the share link.
THEOREM TypeCorrect == Spec => []TypeOK
<1>1. TInv => TypeOK
  BY DEF TInv
<1> QED
  BY <1>1, TypeInit, TypeStep, PTL DEF Spec
-----------------------------------------------------------------------------
(* The invariant.                                                          *)

LEMMA Blanks ==
    /\ NoRow.base = Blank /\ NoRow.st = "absent"
    /\ NoSync.pc = "none" /\ NoSync.stored = NoRow /\ NoSync.payload = Original
    /\ NoSync.copy = NoRow
    /\ NoPub.pc = "none" /\ NoPub.sent = NoRow /\ NoPub.payload = Original
    /\ NoPub.removes = FALSE /\ NoPub.conflict = FALSE
    /\ Original.doc = Blank /\ Original.live = TRUE
BY DEF NoRow, NoSync, NoPub, Original

\* What the server took stays taken.
LEMMA WithinMore ==
    ASSUME NEW doc, Accepted(doc),
           \A f \in Fields : seen.accepted[f] \subseteq seen'.accepted[f]
    PROVE  Within(seen'.accepted, doc)
BY DEF Accepted, Within

LEMMA InitHolds == Init => IInv
<1> SUFFICES ASSUME Init PROVE IInv
  OBVIOUS
<1>1. TInv
  BY TypeInit
<1>2. /\ local.base = Blank /\ local.st = "managed"
      /\ server.doc = Blank /\ server.live = TRUE
  <2>1. PICK mine \in BOOLEAN :
          server = [live |-> TRUE, doc |-> Blank, by |-> [f \in Fields |-> "me"], mine |-> mine]
    BY DEF Init
  <2>2. PICK link \in {FALSE, server.mine} : local = [NoRow EXCEPT !.st = "managed", !.link = link]
    BY DEF Init
  <2> QED
    BY <2>1, <2>2 DEF NoRow
<1>3. /\ cache = Original /\ sync = NoSync /\ pub = NoPub
      /\ seen.accepted = [f \in Fields |-> {0}]
  BY DEF Init
<1>4. Accepted(Blank)
  BY <1>3 DEF Accepted, Within, Blank
<1>5. Known
  BY <1>2, <1>3, <1>4, Blanks DEF Known
<1> QED
  BY <1>1, <1>2, <1>3, <1>5, Blanks
     DEF IInv, Final, Sending, Contributed, Untouched, Reconciling, IsManaged

\* Other parents change the bucket's row: the values they give it are taken.
ChangedElsewhere ==
    /\ UNCHANGED <<local, cache, sync, pub>>
    /\ server'.mine = server.mine
    /\ server'.live => server.live
    /\ count'["deletes"] = count["deletes"]
    /\ \A f \in Fields : seen.accepted[f] \subseteq seen'.accepted[f]
    /\ Within(seen'.accepted, server'.doc)
    /\ \/ server'.live = server.live /\ seen'.removed = seen.removed
       \/ seen'.removed = TRUE

LEMMA StepOthers ==
    ASSUME IInv, TInv', OtherRemoves \/ \E f \in Contested : OtherEdits(f) PROVE IInv'
<1>1. ChangedElsewhere
  <2>0. TInv /\ Accepted(server.doc)
    BY DEF IInv, Known
  <2>1. CASE OtherRemoves
    <3>1. /\ UNCHANGED <<local, cache, sync, pub>>
          /\ Spend("removals")
          /\ server' = [server EXCEPT !.live = FALSE]
          /\ seen' = [seen EXCEPT !.removed = TRUE]
      BY <2>1 DEF OtherRemoves
    <3>2. count'["deletes"] = count["deletes"]
      BY <2>0, <3>1, SpendFacts DEF TInv
    <3>3. /\ seen'.accepted = seen.accepted /\ seen'.removed = TRUE
          /\ server'.doc = server.doc /\ server'.mine = server.mine /\ server'.live = FALSE
      BY <2>0, <3>1, TypeFacts
    <3> QED
      BY <2>0, <3>1, <3>2, <3>3, WithinMore DEF ChangedElsewhere
  <2>2. ASSUME NEW f \in Contested, OtherEdits(f)
        PROVE  ChangedElsewhere
    <3>1. /\ UNCHANGED <<local, cache, sync, pub>>
          /\ Spend("others")
          /\ server' = [server EXCEPT !.doc[f] = TheirEdit, !.by[f] = "other"]
          /\ seen' = [seen EXCEPT !.accepted[f] = @ \cup {TheirEdit}]
      BY <2>2 DEF OtherEdits
    <3>2. count'["deletes"] = count["deletes"]
      BY <2>0, <3>1, SpendFacts DEF TInv
    <3>3. /\ server'.doc = [server.doc EXCEPT ![f] = TheirEdit]
          /\ server'.mine = server.mine /\ server'.live = server.live
          /\ seen'.accepted = [seen.accepted EXCEPT ![f] = @ \cup {TheirEdit}]
          /\ seen'.removed = seen.removed
      BY <2>0, <3>1, TypeFacts
    <3>4. server.doc \in [Fields -> EditNumbers]
          /\ seen.accepted \in [Fields -> SUBSET EditNumbers]
      BY <2>0, TypeFacts DEF Docs, SeenType
    <3>5. /\ \A g \in Fields : seen.accepted[g] \subseteq seen'.accepted[g]
          /\ \A g \in Fields : server'.doc[g] \in seen'.accepted[g]
      BY <2>0, <3>3, <3>4 DEF Accepted, Within
    <3> QED
      BY <3>1, <3>2, <3>3, <3>5 DEF Within, ChangedElsewhere
  <2> QED
    BY <2>1, <2>2
<1>2. Known'
  BY <1>1, WithinMore DEF IInv, Known, Accepted, ChangedElsewhere
<1>3. /\ Final' /\ Contributed' /\ Untouched'
  BY <1>1 DEF IInv, Final, Contributed, Untouched, Reconciling, IsManaged, ChangedElsewhere
<1>4. Sending'
  <2>1. Accepted(pub.sent.doc) => Accepted(pub.sent.doc)'
    BY <1>1, WithinMore DEF Accepted, ChangedElsewhere
  <2> QED
    BY <1>1, <2>1 DEF IInv, Sending, IsManaged, ChangedElsewhere
<1> QED
  BY <1>2, <1>3, <1>4 DEF IInv

LEMMA StepUser ==
    ASSUME IInv, TInv', UserDeletes \/ \E f \in Fields : UserEdits(f) PROVE IInv'
<1>0. TInv
  BY DEF IInv
<1>1. CASE UserDeletes
  <2>1. /\ UNCHANGED <<server, cache, sync, pub, seen>>
        /\ local' = NoRow /\ Spend("deletes")
    BY <1>1 DEF UserDeletes
  <2>2. count'["deletes"] = count["deletes"] + 1 /\ count["deletes"] \in Nat
    BY <1>0, <2>1, SpendFacts, TypeFacts DEF TInv, Counters
  <2>3. ~(count'["deletes"] = 0)
    BY <2>2
  <2> QED
    BY <2>1, <2>3, Blanks
       DEF IInv, Known, Final, Sending, Contributed, Untouched, Reconciling, Accepted, IsManaged
<1>2. ASSUME NEW f \in Fields, UserEdits(f) PROVE IInv'
  <2>1. /\ UNCHANGED <<server, cache, sync, pub>>
        /\ local' = [local EXCEPT !.doc[f] = NextEdit] /\ Spend("edits")
        /\ seen'.accepted = seen.accepted /\ seen'.removed = seen.removed
    BY <1>0, <1>2, TypeFacts DEF UserEdits, SeenType
  <2>2. count'["deletes"] = count["deletes"]
    BY <1>0, <2>1, SpendFacts DEF TInv
  <2>3. local'.st = local.st /\ local'.base = local.base
    BY <1>0, <2>1, TypeFacts DEF RowType
  <2> QED
    BY <2>1, <2>2, <2>3
       DEF IInv, Known, Final, Sending, Contributed, Untouched, Reconciling, Accepted, IsManaged
<1> QED
  BY <1>1, <1>2

\* The passes of a sync.
LEMMA StepSync ==
    ASSUME IInv, TInv',
           \/ \E told \in BOOLEAN : SyncStarts(told)
           \/ SyncAnswered \/ SyncApplies \/ SyncShared \/ SyncNotes \/ SyncFails
    PROVE  IInv'
<1>0. TInv
  BY DEF IInv
<1>1. ASSUME NEW told \in BOOLEAN, SyncStarts(told) PROVE IInv'
  <2>1. /\ UNCHANGED <<server, local, cache, pub>>
        /\ UNCHANGED count \/ Spend("opens")
        /\ sync' = [NoSync EXCEPT !.pc = "fetch", !.stored = local, !.event = told]
        /\ seen'.accepted = seen.accepted /\ seen'.removed = seen.removed
    BY <1>0, <1>1, ReadsFacts DEF SyncStarts
  <2>2. count'["deletes"] = count["deletes"]
    BY <1>0, <2>1, SpendFacts DEF TInv
  <2>3. /\ sync'.stored = local /\ sync'.payload = Original /\ sync'.pc = "fetch"
        /\ sync'.copy = NoRow
    BY <2>1, Blanks DEF NoSync
  <2> QED
    BY <2>1, <2>2, <2>3, Blanks
       DEF IInv, Known, Final, Sending, Contributed, Untouched, Reconciling, Accepted, IsManaged
<1>2. CASE SyncAnswered
  <2>1. /\ UNCHANGED <<server, local, cache, pub, count, seen>>
        /\ sync.pc = "fetch" /\ sync' = [sync EXCEPT !.pc = "answer", !.payload = Answer]
    BY <1>2 DEF SyncAnswered
  <2>2. /\ sync'.stored = sync.stored /\ sync'.pc = "answer" /\ sync'.copy = sync.copy
        /\ sync'.payload.live = server.live /\ sync'.payload.doc = server.doc
    BY <1>0, <2>1, TypeFacts DEF SyncType, Answer
  <2> QED
    BY <2>1, <2>2
       DEF IInv, Known, Final, Sending, Contributed, Untouched, Reconciling, Accepted, IsManaged
<1>3. CASE SyncApplies
  <2>1. /\ local'.base \in {sync.stored.base, sync.payload.doc, Blank}
        /\ sync.payload.live => IsManaged(local')
        /\ server.mine /\ sync.stored.st # "absent" => local'.st # "absent"
        /\ cache' = sync.payload /\ sync.pc = "answer"
        /\ UNCHANGED <<server, pub, count, seen>>
    BY <1>0, <1>3, SyncAppliesFacts DEF SyncApplies
  <2>2. \/ /\ sync'.stored = local' /\ sync'.payload = sync.payload /\ sync'.pc = "share"
           /\ sync'.copy = sync.copy
        \/ sync' = NoSync
    BY <1>0, <1>3, SyncAppliesFacts, TypeFacts DEF SyncType
  <2>3. Accepted(local'.base)
    BY <2>1 DEF IInv, Known
  <2>4. Known'
    BY <2>1, <2>2, <2>3, Blanks DEF IInv, Known, Accepted
  <2>5. Final' /\ Sending'
    BY <2>1, <2>2, Blanks DEF IInv, Final, Sending, Accepted, IsManaged
  <2>6. Contributed'
    BY <2>1, <2>2, Blanks DEF IInv, Contributed, Reconciling
  <2>7. Untouched'
    BY <2>1, <2>2, Blanks DEF IInv, Untouched, Final, Reconciling, IsManaged
  <2> QED
    BY <2>4, <2>5, <2>6, <2>7 DEF IInv
<1>4. CASE SyncShared
  <2>1. /\ UNCHANGED <<server, local, cache, pub, count>> /\ sync.pc = "share"
        /\ \/ /\ sync'.pc = "ack" /\ sync'.stored = sync.stored
              /\ sync'.payload = sync.payload /\ sync'.copy.st = local.st
              /\ sync'.copy.base = local.base
           \/ sync' = NoSync
        /\ seen'.accepted = seen.accepted /\ seen'.removed = seen.removed
    BY <1>0, <1>4, SyncSharedFacts, ReadsFacts
  <2> QED
    BY <2>1, Blanks
       DEF IInv, Known, Final, Sending, Contributed, Untouched, Reconciling, Accepted, IsManaged
<1>5. CASE SyncNotes
  <2>1. /\ sync.pc = "ack" /\ local' = sync.copy /\ sync' = NoSync
        /\ UNCHANGED <<server, cache, pub, count, seen>>
    BY <1>5 DEF SyncNotes
  <2> QED
    BY <2>1, Blanks
       DEF IInv, Known, Final, Sending, Contributed, Untouched, Reconciling, Accepted, IsManaged
<1>6. CASE SyncFails
  <2>1. /\ UNCHANGED <<server, local, cache, pub, seen>>
        /\ sync' = NoSync /\ Spend("faults")
    BY <1>6 DEF SyncFails
  <2>2. count'["deletes"] = count["deletes"]
    BY <1>0, <2>1, SpendFacts DEF TInv
  <2> QED
    BY <2>1, <2>2, Blanks
       DEF IInv, Known, Final, Sending, Contributed, Untouched, Reconciling, Accepted, IsManaged
<1> QED
  BY <1>1, <1>2, <1>3, <1>4, <1>5, <1>6

\* The server takes a write: what it then stores, and what the writer sent, are
\* values it took.
LEMMA WriteAccepts ==
    ASSUME IInv, ServerWrites
    PROVE  LET ok == server.live /\ IsManaged(pub.sent) /\ ~Refused(pub.sent)
           IN  /\ \A f \in Fields : seen.accepted[f] \subseteq seen'.accepted[f]
               /\ Within(seen'.accepted, server'.doc)
               /\ ok => Within(seen'.accepted, pub.sent.doc)
               /\ seen'.removed = seen.removed
<1> DEFINE ok == server.live /\ IsManaged(pub.sent) /\ ~Refused(pub.sent)
<1>0. TInv
  BY DEF IInv
<1>1. /\ seen' = [seen EXCEPT
             !.accepted = [f \in Fields |-> IF ok THEN @[f] \cup {server'.doc[f]} ELSE @[f]],
             !.conflict = server.live /\ IsManaged(pub.sent) /\ ~ok]
      /\ ok => server'.doc = Merged(pub.sent)
      /\ ~ok => server'.doc = server.doc
  BY <1>0, ServerWritesFacts
<1> HIDE DEF ok
<1>2. /\ \A f \in Fields : seen'.accepted[f] = IF ok THEN seen.accepted[f] \cup {server'.doc[f]}
                                               ELSE seen.accepted[f]
      /\ seen'.removed = seen.removed
  BY <1>0, <1>1, TypeFacts
<1>3. \A f \in Fields : seen.accepted[f] \subseteq seen'.accepted[f]
  BY <1>2
<1>4. Within(seen'.accepted, server'.doc)
  BY <1>1, <1>2 DEF IInv, Known, Accepted, Within
<1>5. ok => Within(seen'.accepted, pub.sent.doc)
  <2> SUFFICES ASSUME ok, NEW f \in Fields PROVE pub.sent.doc[f] \in seen'.accepted[f]
    BY DEF Within
  <2>1. CASE pub.sent.doc[f] = pub.sent.base[f]
    BY <1>3, <2>1 DEF IInv, Known, Accepted, Within
  <2>2. CASE pub.sent.doc[f] # pub.sent.base[f]
    <3>1. server'.doc[f] = pub.sent.doc[f]
      BY <1>1, <2>2 DEF Merged, Taken
    <3> QED
      BY <1>4, <3>1 DEF Within
  <2> QED
    BY <2>1, <2>2
<1> QED
  BY <1>2, <1>3, <1>4, <1>5 DEF ok

LEMMA StepServerWrites == ASSUME IInv, TInv', ServerWrites PROVE IInv'
<1> DEFINE ok == server.live /\ IsManaged(pub.sent) /\ ~Refused(pub.sent)
           refused == server.live /\ IsManaged(pub.sent) /\ ~ok
<1>0. TInv
  BY DEF IInv
<1>1. /\ pub.pc = "sent"
      /\ pub' = [pub EXCEPT !.pc = "answer", !.conflict = refused,
                            !.payload = [live |-> server'.live, doc |-> server'.doc]]
      /\ server'.mine = server.mine
      /\ server'.live => server.live
      /\ ok => server'.live
      /\ ~ok /\ pub.removes => ~server'.live
      /\ ~ok /\ ~pub.removes => server' = server
      /\ UNCHANGED <<local, cache, sync, count>>
  <2>1. ~ok /\ pub.removes => server' = [server EXCEPT !.live = FALSE]
    BY <1>0, ServerWritesFacts
  <2>2. ~ok /\ pub.removes => ~server'.live
    BY <1>0, <2>1, TypeFacts
  <2> QED
    BY <1>0, <2>2, ServerWritesFacts
<1>2. /\ \A f \in Fields : seen.accepted[f] \subseteq seen'.accepted[f]
      /\ Within(seen'.accepted, server'.doc)
      /\ ok => Within(seen'.accepted, pub.sent.doc)
      /\ seen'.removed = seen.removed
  BY WriteAccepts
<1>3. ok => server.live /\ IsManaged(pub.sent) /\ ~refused
  OBVIOUS
<1>4. ~ok /\ ~refused => ~server.live \/ ~IsManaged(pub.sent)
  OBVIOUS
<1>5. refused => IsManaged(pub.sent)
  OBVIOUS
<1> HIDE DEF ok, refused
<1>6. /\ pub'.pc = "answer" /\ pub'.conflict = refused
      /\ pub'.payload.live = server'.live /\ pub'.payload.doc = server'.doc
      /\ pub'.sent = pub.sent /\ pub'.removes = pub.removes
  BY <1>0, <1>1, TypeFacts DEF PubType
<1>7. Known'
  BY <1>1, <1>2, <1>6, WithinMore DEF IInv, Known, Accepted
<1>8. Final' /\ Contributed'
  BY <1>1, <1>6 DEF IInv, Final, Contributed, Reconciling
<1>9. Untouched'
  BY <1>1, <1>2, <1>6 DEF IInv, Untouched, Reconciling, IsManaged
<1>10. Sending'
  <2>1. ~IsManaged(pub.sent) => ~server'.live /\ ~refused
    BY <1>1, <1>3, <1>5 DEF IInv, Sending
  <2>2. IsManaged(pub.sent) /\ ~refused /\ server'.live => ok
    BY <1>1, <1>4
  <2> QED
    BY <1>2, <1>6, <2>1, <2>2 DEF Sending, Accepted, IsManaged
<1> QED
  BY <1>7, <1>8, <1>9, <1>10 DEF IInv

LEMMA StepPublish ==
    ASSUME IInv, TInv',
           \/ TimerFires \/ PublishStarts \/ PublishReads \/ PublishWrites
           \/ PublishShared \/ PublishNotes \/ PublishFails
    PROVE  IInv'
<1> USE DEF Reconciling
<1>0. TInv
  BY DEF IInv
<1>1. CASE TimerFires
  BY <1>1 DEF TimerFires, IInv, Known, Final, Sending, Contributed, Untouched, Accepted, IsManaged
<1>2. CASE PublishStarts
  <2>1. /\ UNCHANGED <<server, local, cache, sync, count, seen>>
        /\ pub'.pc = "sent" /\ pub'.sent = local /\ pub'.payload = Original
        /\ pub'.removes = (cache.live /\ ~IsManaged(local))
    BY <1>2, Blanks DEF PublishStarts, NoPub
  <2>2. Known' /\ Final' /\ Contributed'
    BY <2>1, Blanks DEF IInv, Known, Final, Contributed, Accepted
  <2>3. ~IsManaged(local) => pub'.removes \/ ~server.live
    BY <2>1 DEF IInv, Final
  <2>4. IsManaged(local) => ~pub'.removes
    BY <2>1
  <2>5. Sending'
    BY <2>1, <2>3 DEF Sending, IsManaged
  <2>6. Untouched'
    BY <2>1, <2>4 DEF IInv, Untouched, IsManaged
  <2> QED
    BY <2>2, <2>5, <2>6 DEF IInv
<1>3. CASE PublishReads
  <2>1. /\ pub'.sent.base \in {local.base, pub.payload.doc, Blank}
        /\ pub.payload.live => IsManaged(pub'.sent)
        /\ server.mine /\ local.st # "absent" => pub'.sent.st # "absent"
        /\ pub'.pc = "write" /\ ~pub'.removes /\ pub'.payload = pub.payload
        /\ UNCHANGED <<server, local, cache, sync, count>>
        /\ seen'.accepted = seen.accepted /\ seen'.removed = seen.removed
    BY <1>0, <1>3, PublishReadsFacts, ReadsFacts
  <2>2. Accepted(pub'.sent.base)
    BY <2>1 DEF IInv, Known
  <2>3. Known'
    BY <2>1, <2>2 DEF IInv, Known, Accepted
  <2>4. Final' /\ Sending' /\ Contributed'
    BY <2>1 DEF IInv, Final, Sending, Contributed
  <2>5. Untouched'
    BY <2>1 DEF IInv, Untouched, Final, IsManaged
  <2> QED
    BY <2>3, <2>4, <2>5 DEF IInv
<1>4. CASE PublishWrites
  <2>1. /\ pub.pc = "write" /\ local' = pub.sent /\ cache' = pub.payload
        /\ \/ /\ pub'.pc = "share" /\ pub'.sent = pub.sent /\ ~pub'.removes
              /\ pub'.payload = Original
           \/ pub' = NoPub
        /\ UNCHANGED <<server, sync, count, seen>>
    BY <1>0, <1>4, PublishWritesFacts
  <2>2. Known'
    BY <2>1, Blanks DEF IInv, Known, Accepted
  <2>3. Final' /\ Sending' /\ Contributed'
    BY <2>1, Blanks DEF IInv, Final, Sending, Contributed
  <2>4. Untouched'
    BY <2>1, Blanks DEF IInv, Untouched, IsManaged
  <2> QED
    BY <2>2, <2>3, <2>4 DEF IInv
<1>5. CASE PublishShared
  <2>1. /\ UNCHANGED <<server, local, cache, sync, count>> /\ pub.pc = "share"
        /\ \/ /\ pub'.pc = "ack" /\ pub'.payload = pub.payload /\ pub'.removes = pub.removes
              /\ pub'.sent.st = local.st /\ pub'.sent.base = local.base
           \/ pub' = NoPub
        /\ seen'.accepted = seen.accepted /\ seen'.removed = seen.removed
    BY <1>0, <1>5, PublishSharedFacts, ReadsFacts
  <2> QED
    BY <2>1, Blanks
       DEF IInv, Known, Final, Sending, Contributed, Untouched, Accepted, IsManaged
<1>6. CASE PublishNotes
  <2>1. /\ pub.pc = "ack" /\ local' = pub.sent /\ pub' = NoPub
        /\ UNCHANGED <<server, cache, sync, count, seen>>
    BY <1>6 DEF PublishNotes
  <2> QED
    BY <2>1, Blanks
       DEF IInv, Known, Final, Sending, Contributed, Untouched, Accepted, IsManaged
<1>7. CASE PublishFails
  <2>1. /\ UNCHANGED <<server, local, cache, sync, seen>>
        /\ pub' = NoPub /\ Spend("faults")
    BY <1>7 DEF PublishFails
  <2>2. count'["deletes"] = count["deletes"]
    BY <1>0, <2>1, SpendFacts DEF TInv
  <2> QED
    BY <2>1, <2>2, Blanks
       DEF IInv, Known, Final, Sending, Contributed, Untouched, Accepted, IsManaged
<1> QED
  BY <1>1, <1>2, <1>3, <1>4, <1>5, <1>6, <1>7

LEMMA StepRestart == ASSUME IInv, TInv', Restart PROVE IInv'
<1>1. /\ UNCHANGED <<server, local, cache, seen>>
      /\ sync' = NoSync /\ pub' = NoPub /\ Spend("restarts")
  BY DEF Restart
<1>2. count'["deletes"] = count["deletes"]
  BY <1>1, SpendFacts DEF IInv, TInv
<1> QED
  BY <1>1, <1>2, Blanks
     DEF IInv, Known, Final, Sending, Contributed, Untouched, Reconciling, Accepted, IsManaged

LEMMA StepHolds == IInv /\ [Next]_vars => IInv'
<1> SUFFICES ASSUME IInv, [Next]_vars PROVE IInv'
  OBVIOUS
<1>0. TInv'
  BY TypeStep DEF IInv
<1>1. CASE UNCHANGED vars
  BY <1>0, <1>1
     DEF vars, IInv, Known, Final, Sending, Contributed, Untouched, Reconciling, Accepted,
         IsManaged
<1>2. CASE OtherRemoves \/ \E f \in Contested : OtherEdits(f)
  BY <1>0, <1>2, StepOthers
<1>3. CASE UserDeletes \/ \E f \in Fields : UserEdits(f)
  BY <1>0, <1>3, StepUser
<1>4. CASE \/ \E told \in BOOLEAN : SyncStarts(told)
           \/ SyncAnswered \/ SyncApplies \/ SyncShared \/ SyncNotes \/ SyncFails
  BY <1>0, <1>4, StepSync
<1>5. CASE \/ TimerFires \/ PublishStarts \/ PublishReads \/ PublishWrites
           \/ PublishShared \/ PublishNotes \/ PublishFails
  BY <1>0, <1>5, StepPublish
<1>6. CASE ServerWrites
  BY <1>0, <1>6, StepServerWrites
<1>7. CASE Restart
  BY <1>0, <1>7, StepRestart
<1> QED
  BY <1>1, <1>2, <1>3, <1>4, <1>5, <1>6, <1>7 DEF Next, PublishNext
-----------------------------------------------------------------------------
(* The theorems.                                                           *)

LEMMA InvHolds == Spec => []IInv
BY InitHolds, StepHolds, PTL DEF Spec

\* managed-email-templates.js:298-302: whatever passes, deletions by others, lost
\* requests and restarts come, the template this installation contributed leaves
\* the stored array only when its user deletes it.
THEOREM ContributionKept == Spec => []ContributionSurvives
<1>1. IInv => ContributionSurvives
  BY DEF IInv, Contributed, ContributionSurvives
<1> QED
  BY <1>1, InvHolds, PTL

\* The ids a publish takes out of the bucket are those of rows that were deleted:
\* a stale cache or an old copy of the array never removes a row nobody removed.
THEOREM RemovalsAreMeant == Spec => []RemovalIsMeant
<1>1. IInv => RemovalIsMeant
  <2> SUFFICES ASSUME IInv, count["deletes"] = 0, ~seen.removed PROVE server.live
    <3>1. IInv => count["deletes"] \in Nat
      BY TypeFacts DEF IInv, Counters
    <3> QED
      BY <3>1 DEF RemovalIsMeant
  <2> QED
    BY DEF IInv, Untouched
<1> QED
  BY <1>1, InvHolds, PTL

\* What the reconciliation of a managed row with a live answer makes of its document.
LEMMA ReconcileKeeps ==
    ASSUME NEW row \in RowType, NEW answer \in AnswerType, NEW keep \in BOOLEAN,
           NEW ack \in BOOLEAN, answer.live, IsManaged(row)
    PROVE  \/ Reconcile(row, answer, keep, ack).doc = row.doc
           \/ ~keep
           \/ ~ack /\ row.doc = row.base
<1> DEFINE base == IF ack THEN answer.doc ELSE row.base
           stays == IsManaged(row) /\ keep /\ row.doc # base
           new == Reconcile(row, answer, keep, ack)
<1>1. new = IF stays THEN [row EXCEPT !.base = base] ELSE ManagedRecord(row, answer)
  BY DEF Reconcile
<1>2. CASE stays
  <2>1. new = [row EXCEPT !.base = base]
    BY <1>1, <1>2
  <2> HIDE DEF new, base
  <2>2. new.doc = row.doc
    BY <2>1 DEF RowType
  <2> QED
    BY <2>2 DEF new
<1>3. CASE ~stays
  <2>1. new = ManagedRecord(row, answer)
    BY <1>1, <1>3
  <2>2. ~keep \/ row.doc = base
    BY <1>3
  <2>3. ~keep \/ (ack /\ row.doc = answer.doc) \/ (~ack /\ row.doc = row.base)
    BY <2>2
  <2> HIDE DEF new, base
  <2>4. new.doc = answer.doc
    BY <2>1 DEF ManagedRecord, RowType
  <2> QED
    BY <2>3, <2>4 DEF new
<1> QED
  BY <1>2, <1>3

\* The latest edits of the fields that are not raced are in the document or taken.
Keeps(history, doc) ==
    \A f \in Fields \ history.raced : \/ doc[f] = history.last[f]
                                     \/ history.last[f] \in history.accepted[f]

\* So it is with the stored array and every array a pass is going to write from.
Kept ==
    ~seen.removed /\ count.deletes = 0 =>
      /\ Keeps(seen, local.doc)
      /\ sync.pc \in {"fetch", "answer"} => Keeps(seen, sync.stored.doc)
      /\ sync.pc = "ack" => Keeps(seen, sync.copy.doc)
      /\ pub.pc \in {"write", "ack"} => Keeps(seen, pub.sent.doc)

\* A document the server took as a whole may be replaced by any other.
LEMMA TakenKeeps ==
    ASSUME NEW old, NEW new, Keeps(seen, old), new = old \/ Accepted(old)
    PROVE  Keeps(seen, new)
BY DEF Keeps, Accepted, Within

\* After a read of the array, the array still has the edits that are not raced.
LEMMA ReadKeeps ==
    ASSUME TInv, Reads, Keeps(seen, local.doc) PROVE Keeps(seen', local.doc)
<1> SUFFICES ASSUME NEW f \in Fields \ seen'.raced
             PROVE  local.doc[f] = seen.last[f] \/ seen.last[f] \in seen.accepted[f]
  BY ReadsFacts DEF Keeps
<1>1. CASE f \in seen.raced
  BY <1>1, ReadsFacts
<1>2. CASE f \notin seen.raced
  BY <1>2 DEF Keeps
<1> QED
  BY <1>1, <1>2

\* A read leaves what another pass holds as it is.
LEMMA ReadLeaves ==
    ASSUME TInv, Reads, CopyHeld, NEW doc, Keeps(seen, doc) PROVE Keeps(seen', doc)
BY ReadsFacts DEF Keeps

\* What a sync stores has them, and what a publish is about to store is the array
\* it has just read or replaces a document the server took.
LEMMA SyncKeeps ==
    ASSUME IInv, Kept, SyncApplies, ~seen.removed, count["deletes"] = 0
    PROVE  Keeps(seen, local'.doc)
<1> DEFINE old == sync.stored
           row == Reconcile(old, sync.payload, TRUE, FALSE)
<1>1. local' = row /\ sync.pc = "answer"
  BY DEF SyncApplies, Store
<1>2. old \in RowType /\ sync.payload \in AnswerType
  BY TypeFacts DEF IInv, SyncType
<1>3. sync.payload.live /\ IsManaged(old)
  BY <1>1 DEF IInv, Untouched, Final
<1>4. Keeps(seen, old.doc)
  BY <1>1 DEF Kept
<1>5. row.doc = old.doc \/ old.doc = old.base
  BY <1>2, <1>3, ReconcileKeeps
<1>6. row.doc = old.doc \/ Accepted(old.doc)
  BY <1>5 DEF IInv, Known
<1> HIDE DEF row, old
<1> QED
  BY <1>1, <1>4, <1>6, TakenKeeps

LEMMA PublishStores ==
    ASSUME IInv, PublishReads, ~seen.removed, count["deletes"] = 0
    PROVE  pub'.sent.doc = local.doc \/ Accepted(local.doc)
<1> DEFINE sent == IsManaged(pub.sent)
           keep == pub.conflict \/ (sent /\ IsManaged(local) /\ local.doc # pub.sent.doc)
           ack == sent /\ ~pub.conflict
           row == Reconcile(local, pub.payload, keep, ack)
<1>1. pub'.sent = row /\ pub.pc = "answer"
  BY DEF PublishReads, NoPub
<1>2. /\ local \in RowType /\ pub.payload \in AnswerType /\ pub.conflict \in BOOLEAN
  BY TypeFacts DEF IInv, PubType
<1>3. pub.payload.live /\ IsManaged(local) /\ sent
  BY <1>1 DEF IInv, Untouched, Final, Sending
<1>4. \/ row.doc = local.doc
      \/ ~keep
      \/ ~ack /\ local.doc = local.base
  <2>1. keep \in BOOLEAN /\ ack \in BOOLEAN
    BY <1>2
  <2> HIDE DEF keep, ack
  <2> QED
    BY <1>2, <1>3, <2>1, ReconcileKeeps
<1>5. ~keep => Accepted(local.doc)
  <2>1. ~keep => ~pub.conflict /\ local.doc = pub.sent.doc
    BY <1>3
  <2>2. ~pub.conflict => Accepted(pub.sent.doc)
    BY <1>1, <1>3 DEF IInv, Sending
  <2> QED
    BY <2>1, <2>2
<1>6. local.doc = local.base => Accepted(local.doc)
  BY DEF IInv, Known
<1> HIDE DEF row, keep, ack
<1> QED
  BY <1>1, <1>4, <1>5, <1>6

LEMMA KeptInit == Init => Kept
<1> SUFFICES ASSUME Init PROVE Kept
  OBVIOUS
<1>1. local.doc = Blank
  <2>1. PICK mine \in BOOLEAN :
          server = [live |-> TRUE, doc |-> Blank, by |-> [f \in Fields |-> "me"], mine |-> mine]
    BY DEF Init
  <2>2. PICK link \in {FALSE, server.mine} : local = [NoRow EXCEPT !.st = "managed", !.link = link]
    BY DEF Init
  <2> QED
    BY <2>1, <2>2 DEF NoRow
<1>2. seen.last = Blank /\ sync.pc = "none" /\ pub.pc = "none"
  BY Blanks DEF Init
<1> QED
  BY <1>1, <1>2 DEF Kept, Keeps

\* Steps that change neither an array nor what was edited last.
LEMMA KeptAway ==
    ASSUME IInv, Kept, count'["deletes"] = count["deletes"],
           UNCHANGED local, seen'.removed = FALSE => seen.removed = FALSE,
           seen'.last = seen.last, seen'.raced = seen.raced,
           \A f \in Fields : seen.accepted[f] \subseteq seen'.accepted[f],
           \/ sync' = sync
           \/ sync'.pc = "answer" /\ sync.pc = "fetch" /\ sync'.stored = sync.stored
           \/ sync'.pc = "none",
           pub' = pub \/ pub'.pc \in {"none", "sent", "answer"}
    PROVE  Kept'
<1>1. \A doc : Keeps(seen, doc) => Keeps(seen', doc)
  BY DEF Keeps
<1>2. seen.removed \in BOOLEAN
  BY TypeFacts DEF IInv, SeenType
<1> QED
  BY <1>1, <1>2 DEF Kept

LEMMA KeptOthers ==
    ASSUME IInv, Kept, OtherRemoves \/ (\E f \in Contested : OtherEdits(f)) \/ ServerWrites
    PROVE  Kept'
<1>0. TInv
  BY DEF IInv
<1>1. CASE OtherRemoves
  <2>1. seen'.removed = TRUE
    BY <1>0, <1>1, TypeFacts DEF OtherRemoves, SeenType
  <2> QED
    BY <2>1 DEF Kept
<1>2. ASSUME NEW f \in Contested, OtherEdits(f) PROVE Kept'
  <2>1. /\ UNCHANGED <<local, sync, pub>> /\ Spend("others")
        /\ seen' = [seen EXCEPT !.accepted[f] = @ \cup {TheirEdit}]
    BY <1>2 DEF OtherEdits
  <2>2. count'["deletes"] = count["deletes"]
    BY <1>0, <2>1, SpendFacts DEF TInv
  <2>3. /\ seen'.last = seen.last /\ seen'.raced = seen.raced /\ seen'.removed = seen.removed
        /\ \A g \in Fields : seen.accepted[g] \subseteq seen'.accepted[g]
    BY <1>0, <2>1, TypeFacts DEF SeenType
  <2> QED
    BY <2>1, <2>2, <2>3, KeptAway
<1>3. CASE ServerWrites
  <2>1. /\ UNCHANGED <<local, sync, count>>
        /\ seen'.last = seen.last /\ seen'.raced = seen.raced
    BY <1>0, <1>3, TypeFacts DEF ServerWrites, SeenType
  <2>2. pub'.pc = "answer"
    BY <1>0, <1>3, TypeFacts DEF ServerWrites, PubType
  <2>3. /\ \A f \in Fields : seen.accepted[f] \subseteq seen'.accepted[f]
        /\ seen'.removed = seen.removed
    BY <1>3, WriteAccepts
  <2> QED
    BY <2>1, <2>2, <2>3, KeptAway
<1> QED
  BY <1>1, <1>2, <1>3

\* An edit while a pass holds an array is raced; otherwise no pass holds one.
LEMMA KeptUser ==
    ASSUME IInv, Kept, UserDeletes \/ \E f \in Fields : UserEdits(f)
    PROVE  Kept'
<1>0. TInv
  BY DEF IInv
<1>1. CASE UserDeletes
  <2>1. count'["deletes"] = count["deletes"] + 1 /\ count["deletes"] \in Nat
    BY <1>0, <1>1, SpendFacts, TypeFacts DEF UserDeletes, TInv, Counters
  <2> QED
    BY <2>1 DEF Kept
<1>2. ASSUME NEW f \in Fields, UserEdits(f) PROVE Kept'
  <2>1. /\ UNCHANGED <<sync, pub>> /\ Spend("edits")
        /\ local' = [local EXCEPT !.doc[f] = NextEdit]
        /\ seen' = [seen EXCEPT !.last[f] = NextEdit,
                                !.raced = IF CopyHeld THEN @ \cup {f} ELSE @ \ {f}]
    BY <1>2 DEF UserEdits
  <2>2. count'["deletes"] = count["deletes"]
    BY <1>0, <2>1, SpendFacts DEF TInv
  <2>3. /\ \A g \in Fields \ {f} : local'.doc[g] = local.doc[g] /\ seen'.last[g] = seen.last[g]
        /\ local'.doc[f] = NextEdit /\ seen'.last[f] = NextEdit
        /\ seen'.accepted = seen.accepted /\ seen'.removed = seen.removed
        /\ \A g \in Fields \ {f} : g \in seen'.raced <=> g \in seen.raced
        /\ CopyHeld => f \in seen'.raced
    BY <1>0, <2>1, TypeFacts DEF SeenType, RowType, Docs
  <2>4. Keeps(seen, local.doc) => Keeps(seen', local'.doc)
    BY <2>3 DEF Keeps
  <2>5. CopyHeld => \A doc : Keeps(seen, doc) => Keeps(seen', doc)
    BY <2>3 DEF Keeps
  <2>6. /\ sync.pc \in {"fetch", "answer", "ack"} => CopyHeld
        /\ pub.pc \in {"write", "ack"} => CopyHeld
    BY DEF CopyHeld
  <2>7. Kept => Kept'
    BY <2>1, <2>2, <2>3, <2>4, <2>5, <2>6 DEF Kept
  <2> QED
    BY <2>7
<1> QED
  BY <1>1, <1>2

LEMMA KeptSync ==
    ASSUME IInv, Kept,
           \/ \E told \in BOOLEAN : SyncStarts(told)
           \/ SyncAnswered \/ SyncApplies \/ SyncShared \/ SyncNotes \/ SyncFails
    PROVE  Kept'
<1>0. TInv
  BY DEF IInv
<1>1. ASSUME NEW told \in BOOLEAN, SyncStarts(told) PROVE Kept'
  <2>1. /\ UNCHANGED <<local, pub>> /\ Reads
        /\ UNCHANGED count \/ Spend("opens")
        /\ sync'.stored = local /\ sync'.pc = "fetch"
    BY <1>1 DEF SyncStarts, NoSync
  <2>2. count'["deletes"] = count["deletes"] /\ seen'.removed = seen.removed
    BY <1>0, <2>1, SpendFacts, ReadsFacts DEF TInv
  <2>3. pub.pc \in {"write", "ack"} => CopyHeld
    BY DEF CopyHeld
  <2> QED
    BY <1>0, <2>1, <2>2, <2>3, ReadKeeps, ReadLeaves DEF Kept
<1>2. CASE SyncAnswered
  <2>1. /\ UNCHANGED <<local, pub, count, seen>> /\ sync.pc = "fetch"
        /\ sync'.pc = "answer" /\ sync'.stored = sync.stored
    BY <1>0, <1>2, TypeFacts DEF SyncAnswered, SyncType
  <2> QED
    BY <2>1, KeptAway
<1>3. CASE SyncApplies
  <2>1. /\ UNCHANGED <<pub, count, seen>> /\ sync'.pc \in {"share", "none"}
    BY <1>0, <1>3, SyncAppliesFacts, TypeFacts, Blanks DEF SyncType
  <2> QED
    BY <1>3, <2>1, SyncKeeps DEF Kept
<1>4. CASE SyncShared
  <2>1. /\ UNCHANGED <<local, pub, count>>
        /\ \/ sync'.pc = "ack" /\ sync'.copy.doc = local.doc /\ Reads
           \/ sync' = NoSync /\ seen' = seen
    BY <1>0, <1>4, SyncSharedFacts
  <2>2. CASE sync'.pc = "ack" /\ sync'.copy.doc = local.doc /\ Reads
    <3>1. seen'.removed = seen.removed
      BY <1>0, <2>2, ReadsFacts
    <3>2. pub.pc \in {"write", "ack"} => CopyHeld
      BY DEF CopyHeld
    <3> QED
      BY <1>0, <2>1, <2>2, <3>1, <3>2, ReadKeeps, ReadLeaves DEF Kept
  <2>3. CASE sync' = NoSync /\ seen' = seen
    BY <2>1, <2>3, Blanks, KeptAway
  <2> QED
    BY <2>1, <2>2, <2>3
<1>5. CASE SyncNotes
  BY <1>5, Blanks DEF SyncNotes, Kept
<1>6. CASE SyncFails
  <2>1. /\ UNCHANGED <<local, pub, seen>> /\ sync' = NoSync /\ Spend("faults")
    BY <1>6 DEF SyncFails
  <2>2. count'["deletes"] = count["deletes"]
    BY <1>0, <2>1, SpendFacts DEF TInv
  <2> QED
    BY <2>1, <2>2, Blanks, KeptAway
<1> QED
  BY <1>1, <1>2, <1>3, <1>4, <1>5, <1>6

LEMMA KeptPublish ==
    ASSUME IInv, Kept,
           \/ TimerFires \/ PublishStarts \/ PublishReads \/ PublishWrites
           \/ PublishShared \/ PublishNotes \/ PublishFails
    PROVE  Kept'
<1>0. TInv
  BY DEF IInv
<1>1. CASE TimerFires \/ PublishStarts
  <2>1. UNCHANGED <<local, sync, count, seen>> /\ (pub' = pub \/ pub'.pc = "sent")
    BY <1>1 DEF TimerFires, PublishStarts, NoPub
  <2> QED
    BY <2>1, KeptAway
<1>2. CASE PublishReads
  <2>1. /\ pub'.pc = "write" /\ Reads /\ UNCHANGED <<local, sync, count>>
        /\ seen'.removed = seen.removed /\ seen'.accepted = seen.accepted
        /\ seen'.last = seen.last
    BY <1>0, <1>2, PublishReadsFacts, ReadsFacts
  <2>2. sync.pc \in {"fetch", "answer", "ack"} => CopyHeld
    BY DEF CopyHeld
  <2>3. ~seen.removed /\ count["deletes"] = 0 => Keeps(seen', pub'.sent.doc)
    <3> SUFFICES ASSUME ~seen.removed, count["deletes"] = 0 PROVE Keeps(seen', pub'.sent.doc)
      OBVIOUS
    <3>1. Keeps(seen', local.doc)
      BY <1>0, <2>1, ReadKeeps DEF Kept
    <3>2. pub'.sent.doc = local.doc \/ Accepted(local.doc)
      BY <1>2, PublishStores
    <3> QED
      BY <2>1, <3>1, <3>2 DEF Keeps, Accepted, Within
  <2> QED
    BY <1>0, <2>1, <2>2, <2>3, ReadKeeps, ReadLeaves DEF Kept
<1>3. CASE PublishWrites
  <2>1. /\ pub.pc = "write" /\ local' = pub.sent /\ pub'.pc \in {"share", "none"}
        /\ UNCHANGED <<sync, count, seen>>
    BY <1>0, <1>3, PublishWritesFacts, Blanks
  <2> QED
    BY <2>1 DEF Kept
<1>4. CASE PublishShared
  <2>1. /\ UNCHANGED <<local, sync, count>>
        /\ \/ pub'.pc = "ack" /\ pub'.sent.doc = local.doc /\ Reads
           \/ pub' = NoPub /\ seen' = seen
    BY <1>0, <1>4, PublishSharedFacts
  <2>2. CASE pub'.pc = "ack" /\ pub'.sent.doc = local.doc /\ Reads
    <3>1. seen'.removed = seen.removed
      BY <1>0, <2>2, ReadsFacts
    <3>2. sync.pc \in {"fetch", "answer", "ack"} => CopyHeld
      BY DEF CopyHeld
    <3> QED
      BY <1>0, <2>1, <2>2, <3>1, <3>2, ReadKeeps, ReadLeaves DEF Kept
  <2>3. CASE pub' = NoPub /\ seen' = seen
    BY <2>1, <2>3, Blanks, KeptAway
  <2> QED
    BY <2>1, <2>2, <2>3
<1>5. CASE PublishNotes
  BY <1>5, Blanks DEF PublishNotes, Kept
<1>6. CASE PublishFails
  <2>1. /\ UNCHANGED <<local, sync, seen>> /\ pub' = NoPub /\ Spend("faults")
    BY <1>6 DEF PublishFails
  <2>2. count'["deletes"] = count["deletes"]
    BY <1>0, <2>1, SpendFacts DEF TInv
  <2> QED
    BY <2>1, <2>2, Blanks, KeptAway
<1> QED
  BY <1>1, <1>2, <1>3, <1>4, <1>5, <1>6

LEMMA KeptStep == IInv /\ Kept /\ [Next]_vars => Kept'
<1> SUFFICES ASSUME IInv, Kept, [Next]_vars PROVE Kept'
  OBVIOUS
<1>1. CASE UNCHANGED vars
  BY <1>1 DEF vars, Kept
<1>2. CASE OtherRemoves \/ (\E f \in Contested : OtherEdits(f)) \/ ServerWrites
  BY <1>2, KeptOthers
<1>3. CASE UserDeletes \/ \E f \in Fields : UserEdits(f)
  BY <1>3, KeptUser
<1>4. CASE \/ \E told \in BOOLEAN : SyncStarts(told)
           \/ SyncAnswered \/ SyncApplies \/ SyncShared \/ SyncNotes \/ SyncFails
  BY <1>4, KeptSync
<1>5. CASE \/ TimerFires \/ PublishStarts \/ PublishReads \/ PublishWrites
           \/ PublishShared \/ PublishNotes \/ PublishFails
  BY <1>5, KeptPublish
<1>6. CASE Restart
  <2>1. /\ UNCHANGED <<local, seen>> /\ sync' = NoSync /\ pub' = NoPub /\ Spend("restarts")
    BY <1>6 DEF Restart
  <2>2. count'["deletes"] = count["deletes"]
    BY <2>1, SpendFacts DEF IInv, TInv
  <2> QED
    BY <2>1, <2>2, Blanks, KeptAway
<1> QED
  BY <1>1, <1>2, <1>3, <1>4, <1>5, <1>6 DEF Next, PublishNext

\* managed-email-templates.js:417-422: whatever passes overlap, fail or end with
\* the worker, an edit of the user is stored or the server has taken it, unless it
\* was saved while a pass held an array it had read before (:384-:351, :423-:351,
\* :176-:197).
THEOREM OnlyRacesLoseEdits == Spec => []OnlyRacedEditsAreLost
<1>1. Kept => OnlyRacedEditsAreLost
  BY DEF Kept, Keeps, OnlyRacedEditsAreLost
<1> QED
  BY <1>1, KeptInit, KeptStep, InvHolds, PTL DEF Spec
-----------------------------------------------------------------------------
(* A draft that waits for approval.                                         *)

(* What a caller that resolves with version v of document n is promised.   *)
Holds(v, n) ==
    v \in DOMAIN revisions /\ revisions[v].by = "me" /\ revisions[v].n >= n

(* A caller waits for the passes once.                                     *)
WaitsOnce(who) ==
    /\ syncPromise.owner = who => \A i \in DOMAIN queue : queue[i] # who
    /\ \A i, k \in DOMAIN queue : queue[i] = who /\ queue[k] = who => i = k

Waits(who) == syncPromise.owner = who \/ \E i \in DOMAIN queue : queue[i] = who

(* Who waits for a pass: the job that looks its row up or refreshes the    *)
(* cache, and the outbox row that is being applied.                        *)
InLine ==
    /\ WaitsOnce("mut") /\ (Waits("mut") => mut.pc \in {"lookup", "refresh"})
    /\ WaitsOnce("row") /\ (Waits("row") => telling /\ events > 0)

(* The one request somebody waits for is that of the job.                  *)
Requested ==
    \A r \in wire : r.live =>
        /\ mut.pc = "sent" /\ r.doc = mut.doc
        /\ \A q \in wire : q.live => q = r

Landed ==
    mut.pc = "accepted" => mut.ver \in DOMAIN revisions /\ revisions[mut.ver] = mut.doc

(* While callers wait for an update there is exactly one update job.       *)
Updates == {i \in DOMAIN chain : chain[i].kind = "update"}

OneUpdate ==
    /\ pending # NoPending <=> mut.kind = "update" \/ Updates # {}
    /\ mut.kind = "update" => Updates = {}
    /\ \A i, k \in Updates : i = k
    /\ pending.doc # NoDoc => pending.waiters # {}

(* The document that goes last is as new as what any of them sent.         *)
Covered(doc) == \A n \in pending.waiters : n <= doc.n

NewestLast ==
    /\ \A n \in pending.waiters : n <= saves
    /\ IF pending.doc # NoDoc THEN Covered(pending.doc)
       ELSE /\ mut.kind = "update" => Covered(mut.doc)
            /\ \A i \in Updates : Covered(chain[i].doc)

Resolved == \A n \in DOMAIN calls : calls[n].st = "ok" => Holds(calls[n].ver, n)

SubmissionsInv ==
    /\ SubmissionsTypeOK
    /\ InLine /\ Requested /\ Landed /\ OneUpdate /\ NewestLast /\ Resolved
-----------------------------------------------------------------------------
(* Types.                                                                  *)

LEMMA JobFacts ==
    ASSUME SubmissionsTypeOK
    PROVE  /\ mut \in JobType(Steps) \/ mut = NoJob
           /\ mut.pc # "none" => mut \in JobType(Steps) /\ mut # NoJob
           /\ mut.kind # "none" => mut \in JobType(Steps) /\ mut # NoJob
           /\ mut # NoJob => mut \in JobType(Steps)
BY DEF SubmissionsTypeOK, NoJob

LEMMA SaveFacts == MaxSaves \in Nat /\ MaxRevisions \in Nat /\ MaxLosses \in Nat
BY SubmissionConstants

(* Entering and leaving the line for a pass.                               *)
LEMMA EnterFacts ==
    ASSUME SubmissionsTypeOK, InLine, NEW who \in {"row", "mut"}, ~Waits(who), Enter(who)
    PROVE  /\ syncPromise' \in [pc : {"none", "fetch", "reply"},
                                owner : {"none", "boot", "row", "mut"}, ver : Nat]
           /\ queue' \in Seq({"row", "mut"})
           /\ WaitsOnce("mut")' /\ WaitsOnce("row")'
           /\ \A w \in {"row", "mut"} : Waits(w)' => w = who \/ Waits(w)
<1>1. CASE syncPromise = NoPass
  <2>1. syncPromise' = NewPass(who) /\ queue' = queue
    BY <1>1 DEF Enter
  <2> QED
    BY <2>1 DEF NewPass, Waits, WaitsOnce, InLine, SubmissionsTypeOK
<1>2. CASE syncPromise # NoPass
  <2>1. queue' = Append(queue, who) /\ syncPromise' = syncPromise
    BY <1>2 DEF Enter
  <2>2. /\ queue \in Seq({"row", "mut"}) /\ Len(queue) \in Nat
        /\ queue' \in Seq({"row", "mut"})
        /\ DOMAIN queue = 1..Len(queue) /\ DOMAIN queue' = 1..Len(queue) + 1
        /\ queue'[Len(queue) + 1] = who
        /\ \A i \in DOMAIN queue : queue'[i] = queue[i]
    BY <2>1, AppendProperties DEF SubmissionsTypeOK
  <2>3. \A i \in DOMAIN queue' : i \in DOMAIN queue \/ i = Len(queue) + 1
    BY <2>2
  <2> QED
    BY <2>1, <2>2, <2>3 DEF Waits, WaitsOnce, InLine, SubmissionsTypeOK
<1> QED
  BY <1>1, <1>2

LEMMA SettleFacts ==
    ASSUME SubmissionsTypeOK, InLine, NEW ok \in BOOLEAN, Settle(ok)
    PROVE  /\ syncPromise' \in [pc : {"none", "fetch", "reply"},
                                owner : {"none", "boot", "row", "mut"}, ver : Nat]
           /\ queue' \in Seq({"row", "mut"})
           /\ telling' \in BOOLEAN /\ events' \in Nat
           /\ \/ mut' = mut
              \/ /\ mut.pc \in {"lookup", "refresh"}
                 /\ mut' \in {[mut EXCEPT !.pc = step] : step \in {"found", "failed"}}
           /\ InLine'
<1> USE DEF Woken
<1>1. CASE ok /\ queue # <<>>
  <2>1. /\ syncPromise' = NewPass(Head(queue)) /\ queue' = Tail(queue)
        /\ telling' = (telling /\ "row" # syncPromise.owner)
        /\ events' = IF syncPromise.owner = "row" THEN events - 1 ELSE events
        /\ mut' = IF "mut" # syncPromise.owner THEN mut
                  ELSE [mut EXCEPT !.pc = IF mut.pc = "lookup" THEN "found" ELSE "failed"]
    BY <1>1 DEF Settle
  <2>2. /\ Head(queue) = queue[1] /\ Head(queue) \in {"row", "mut"} /\ 1 \in DOMAIN queue
        /\ Tail(queue) \in Seq({"row", "mut"})
        /\ \A i \in DOMAIN Tail(queue) :
             i + 1 \in DOMAIN queue /\ Tail(queue)[i] = queue[i + 1] /\ i \in Nat /\ i + 1 # 1
    BY <1>1, HeadTailProperties, LenProperties DEF SubmissionsTypeOK
  <2>3. syncPromise' = [pc |-> "fetch", owner |-> queue[1], ver |-> 0]
    BY <2>1, <2>2 DEF NewPass
  <2>4. \A w \in {"row", "mut"} :
          /\ WaitsOnce(w)'
          /\ Waits(w)' => Waits(w) /\ syncPromise.owner # w
    <3> SUFFICES ASSUME NEW w \in {"row", "mut"}
                 PROVE  WaitsOnce(w)' /\ (Waits(w)' => Waits(w) /\ syncPromise.owner # w)
      OBVIOUS
    <3>1. WaitsOnce(w)
      BY DEF InLine
    <3>2. \A i, k \in DOMAIN Tail(queue) : i + 1 = k + 1 => i = k
      BY <2>2
    <3> QED
      BY <2>1, <2>2, <2>3, <3>1, <3>2 DEF WaitsOnce, Waits
  <2>5. syncPromise.owner = "mut" => mut.pc \in {"lookup", "refresh"}
    BY DEF InLine, Waits
  <2>6. syncPromise.owner = "row" => telling /\ events > 0
    BY DEF InLine, Waits
  <2>7. /\ telling' \in BOOLEAN /\ events' \in Nat
        /\ syncPromise.owner # "row" => telling' = telling /\ events' = events
    BY <2>1, <2>6 DEF SubmissionsTypeOK
  <2>8. \/ mut' = mut
        \/ /\ mut.pc \in {"lookup", "refresh"}
           /\ mut' \in {[mut EXCEPT !.pc = step] : step \in {"found", "failed"}}
    BY <2>1, <2>5
  <2>9. syncPromise.owner # "mut" => mut' = mut
    BY <2>1
  <2> QED
    BY <2>1, <2>2, <2>3, <2>4, <2>7, <2>8, <2>9 DEF InLine
<1>2. CASE ~(ok /\ queue # <<>>)
  <2>1. /\ syncPromise' = NoPass /\ queue' = <<>>
        /\ telling' \in BOOLEAN
        /\ events' = IF ok /\ syncPromise.owner = "row" THEN events - 1 ELSE events
        /\ \/ mut' = mut
           \/ /\ Waits("mut")
              /\ mut' \in {[mut EXCEPT !.pc = step] : step \in {"found", "failed"}}
    BY <1>2 DEF Settle, Waits, SubmissionsTypeOK
  <2>2. syncPromise.owner = "row" => events > 0
    BY DEF InLine, Waits
  <2>3. events' \in Nat
    BY <2>1, <2>2 DEF SubmissionsTypeOK
  <2>4. InLine'
    BY <2>1 DEF InLine, Waits, WaitsOnce, NoPass
  <2> QED
    BY <2>1, <2>3, <2>4 DEF NoPass, InLine
<1> QED
  BY <1>1, <1>2

(* The actions of a job that starts or goes on.                            *)
LEMMA SendType ==
    ASSUME SubmissionsTypeOK, NEW job \in JobType({"queued"} \cup Steps), Send(job)
    PROVE  /\ wire' \subseteq [doc : Own, base : Nat, live : BOOLEAN]
           /\ mut' \in JobType(Steps)
<1>1. job.doc \in Own
  BY DEF JobType
<1>2. mut' \in JobType(Steps)
  BY DEF Send, JobType, Steps
<1>3. [doc |-> job.doc, base |-> submissions, live |-> TRUE] \in [doc : Own, base : Nat, live : BOOLEAN]
  BY <1>1 DEF SubmissionsTypeOK
<1> QED
  BY <1>2, <1>3 DEF Send, SubmissionsTypeOK

LEMMA HeadOfChain ==
    ASSUME SubmissionsTypeOK, chain # <<>>
    PROVE  /\ 1 \in DOMAIN chain /\ Head(chain) = chain[1]
           /\ Head(chain) \in JobType({"queued"})
           /\ Tail(chain) \in Seq(JobType({"queued"}))
           /\ \A i \in DOMAIN Tail(chain) :
                /\ i + 1 \in DOMAIN chain /\ Tail(chain)[i] = chain[i + 1]
                /\ i \in Nat /\ i + 1 # 1
           /\ \A i \in DOMAIN chain : i # 1 => i - 1 \in DOMAIN Tail(chain)
<1>1. chain \in Seq(JobType({"queued"}))
  BY DEF SubmissionsTypeOK
<1> QED
  BY <1>1, HeadTailProperties, LenProperties

LEMMA AppendedJob ==
    ASSUME SubmissionsTypeOK, NEW job \in JobType({"queued"}), chain' = Append(chain, job)
    PROVE  /\ chain' \in Seq(JobType({"queued"}))
           /\ Len(chain) \in Nat /\ Len(chain) + 1 \in DOMAIN chain'
           /\ Len(chain) + 1 \notin DOMAIN chain
           /\ chain'[Len(chain) + 1] = job
           /\ \A i \in DOMAIN chain : i \in DOMAIN chain' /\ chain'[i] = chain[i]
           /\ \A i \in DOMAIN chain' : i \in DOMAIN chain \/ i = Len(chain) + 1
<1>1. chain \in Seq(JobType({"queued"}))
  BY DEF SubmissionsTypeOK
<1> QED
  BY <1>1, AppendProperties, LenProperties

LEMMA NewJob ==
    ASSUME NEW kind \in {"update", "approve"}, NEW doc \in Own
    PROVE  Job(kind, doc) \in JobType({"queued"})
BY DEF Job, JobType

LEMMA ResolvedType ==
    ASSUME SubmissionsTypeOK, NEW ns, NEW st \in {"ok", "failed"}, NEW ver \in Nat,
           calls' = Resolve(ns, st, ver)
    PROVE  /\ calls' \in [1..MaxSaves -> [st : {"none", "pending", "ok", "failed"}, ver : Nat]]
           /\ DOMAIN calls' = DOMAIN calls
           /\ \A n \in DOMAIN calls' :
                /\ n \in ns => calls'[n].st = st /\ calls'[n].ver = ver
                /\ n \notin ns => calls'[n] = calls[n]
BY DEF SubmissionsTypeOK, Resolve

LEMMA RevisionsGrow ==
    ASSUME SubmissionsTypeOK, NEW doc \in Documents, revisions' = Append(revisions, doc)
    PROVE  /\ revisions' \in Seq(Documents)
           /\ Len(revisions) \in Nat
           /\ Len(revisions) + 1 \in DOMAIN revisions'
           /\ revisions'[Len(revisions) + 1] = doc
           /\ \A v \in DOMAIN revisions : v \in DOMAIN revisions' /\ revisions'[v] = revisions[v]
<1>1. revisions \in Seq(Documents)
  BY DEF SubmissionsTypeOK
<1> QED
  BY <1>1, AppendProperties, LenProperties

LEMMA SubmissionsTypeInit == SubmissionsInit => SubmissionsTypeOK
<1> SUFFICES ASSUME SubmissionsInit PROVE SubmissionsTypeOK
  OBVIOUS
<1>1. Doc("other", 0) \in Documents
  BY DEF Doc, Documents
<1>2. revisions \in Seq(Documents) /\ chain \in Seq(JobType({"queued"})) /\ queue \in Seq({"row", "mut"})
  BY <1>1 DEF SubmissionsInit
<1>3. mut = NoJob /\ pending \in [doc : Own \cup {NoDoc}, waiters : SUBSET (1..MaxSaves)]
  BY DEF SubmissionsInit, NoPending
<1>4. /\ calls \in [1..MaxSaves -> [st : {"none", "pending", "ok", "failed"}, ver : Nat]]
      /\ editor \in [known : Nat, own : Nat, seen : Nat]
      /\ syncPromise \in [pc : {"none", "fetch", "reply"},
                          owner : {"none", "boot", "row", "mut"}, ver : Nat]
  BY DEF SubmissionsInit, NoPass
<1>5. submissions \in Nat /\ events = 0 /\ saves = 0 /\ others = 0 /\ crashes = 0 /\ faults = 0
  BY DEF SubmissionsInit
<1>6. telling \in BOOLEAN /\ wire \subseteq [doc : Own, base : Nat, live : BOOLEAN]
  BY DEF SubmissionsInit
<1> QED
  BY <1>2, <1>3, <1>4, <1>5, <1>6, SaveFacts DEF SubmissionsTypeOK

LEMMA TypeWorld ==
    ASSUME SubmissionsTypeOK, Requested, OtherRevises \/ Handle \/ EditorReconciles
    PROVE  SubmissionsTypeOK'
<1> USE DEF service, jobs, passes, page, bounds
<1>1. CASE OtherRevises
  <2>1. Doc("other", others + 1) \in Documents /\ others + 1 \in 0..MaxRevisions
    BY <1>1, SaveFacts DEF OtherRevises, Doc, Documents, SubmissionsTypeOK
  <2>2. revisions' \in Seq(Documents)
    BY <1>1, <2>1, RevisionsGrow DEF OtherRevises
  <2> QED
    BY <1>1, <2>1, <2>2 DEF OtherRevises, SubmissionsTypeOK
<1>2. CASE Handle
  <2>1. PICK r \in wire : ServerHandles(r)
    BY <1>2 DEF Handle
  <2>2. r.doc \in Own /\ r.doc \in Documents
    BY <2>1, SaveFacts DEF SubmissionsTypeOK, Own, Documents
  <2>3. Len(revisions) \in Nat
    BY LenProperties DEF SubmissionsTypeOK
  <2>4. revisions' \in Seq(Documents) /\ events' \in Nat
    <3>1. CASE r.base = Len(revisions)
      <4>1. revisions' = Append(revisions, r.doc) /\ events' = events + 1
        BY <2>1, <3>1 DEF ServerHandles
      <4>2. revisions' \in Seq(Documents)
        BY <2>2, <4>1, RevisionsGrow
      <4> QED
        BY <4>1, <4>2 DEF SubmissionsTypeOK
    <3>2. CASE r.base # Len(revisions)
      BY <2>1, <3>2 DEF ServerHandles, SubmissionsTypeOK
    <3> QED
      BY <3>1, <3>2
  <2>5. mut' \in JobType(Steps) \cup {NoJob}
    <3>1. CASE ~r.live
      BY <2>1, <3>1 DEF ServerHandles, SubmissionsTypeOK
    <3>2. CASE r.live
      <4>1. mut \in JobType(Steps)
        BY <2>1, <3>2, JobFacts DEF Requested
      <4>2. \/ mut' = [mut EXCEPT !.pc = "accepted", !.ver = Len(revisions) + 1]
            \/ mut' = [mut EXCEPT !.pc = "conflict"]
        BY <2>1, <3>2 DEF ServerHandles
      <4>3. CASE mut' = [mut EXCEPT !.pc = "accepted", !.ver = Len(revisions) + 1]
        <5>1. PICK v \in Nat : v = Len(revisions) + 1
          BY <2>3
        <5>2. mut' = [mut EXCEPT !.pc = "accepted", !.ver = v]
          BY <4>3, <5>1
        <5> QED
          BY ONLY <4>1, <5>2, v \in Nat DEF JobType, Steps
      <4>4. CASE mut' = [mut EXCEPT !.pc = "conflict"]
        BY <4>1, <4>4 DEF JobType, Steps
      <4> QED
        BY <4>2, <4>3, <4>4
    <3> QED
      BY <2>1, <3>1, <3>2 DEF SubmissionsTypeOK
  <2> QED
    BY <2>1, <2>4, <2>5 DEF ServerHandles, SubmissionsTypeOK
<1>3. CASE EditorReconciles
  BY <1>3 DEF EditorReconciles, SubmissionsTypeOK
<1> QED
  BY <1>1, <1>2, <1>3

(* Requests whose caller is gone.                                          *)
LEMMA LostRequests ==
    ASSUME SubmissionsTypeOK
    PROVE  /\ {[r EXCEPT !.live = FALSE] : r \in wire} \subseteq [doc : Own, base : Nat, live : BOOLEAN]
           /\ {r \in wire : ~r.live} \subseteq [doc : Own, base : Nat, live : BOOLEAN]
           /\ \A q \in {[r EXCEPT !.live = FALSE] : r \in wire} : ~q.live
<1>1. ASSUME NEW r \in wire
      PROVE  /\ [r EXCEPT !.live = FALSE] \in [doc : Own, base : Nat, live : BOOLEAN]
             /\ ~[r EXCEPT !.live = FALSE].live
  <2>1. r \in [doc : Own, base : Nat, live : BOOLEAN]
    BY DEF SubmissionsTypeOK
  <2> QED
    BY <2>1
<1>2. {r \in wire : ~r.live} \subseteq [doc : Own, base : Nat, live : BOOLEAN]
  BY DEF SubmissionsTypeOK
<1> QED
  BY <1>1, <1>2

LEMMA TypeEditor ==
    ASSUME SubmissionsTypeOK, Save \/ Approve
    PROVE  SubmissionsTypeOK'
<1> USE DEF service, jobs, passes, page, bounds
<1> DEFINE n == saves + 1
           doc == Doc("me", n)
<1>1. n \in 1..MaxSaves /\ saves' = n /\ doc \in Own
  <2>1. saves < MaxSaves /\ saves' = n
    BY DEF Save, Approve
  <2>2. n \in 1..MaxSaves
    BY <2>1, SaveFacts DEF SubmissionsTypeOK
  <2> QED
    BY <2>1, <2>2 DEF Doc, Own
<1>2. saves' \in 0..MaxSaves
  BY <1>1, SaveFacts
<1>3. calls' \in [1..MaxSaves -> [st : {"none", "pending", "ok", "failed"}, ver : Nat]]
  <2>1. calls' = [calls EXCEPT ![n].st = "pending"]
    BY DEF Save, Approve
  <2> QED
    BY <1>1, <2>1 DEF SubmissionsTypeOK
<1>4. Job("update", doc) \in JobType({"queued"}) /\ Job("approve", doc) \in JobType({"queued"})
  BY <1>1, NewJob
<1> HIDE DEF n, doc
<1>5. CASE Save
  <2>1. editor' \in [known : Nat, own : Nat, seen : Nat]
    <3>1. PICK k \in Nat : k = Max2(editor.own, editor.known) + 1
      BY DEF Max2, SubmissionsTypeOK
    <3>2. editor' = [editor EXCEPT !.own = k]
      BY <1>5, <3>1 DEF Save
    <3> QED
      BY <3>2 DEF SubmissionsTypeOK
  <2>2. \/ pending' = [doc |-> NoDoc, waiters |-> {n}] /\ chain' = Append(chain, Job("update", doc))
        \/ pending' = [doc |-> doc, waiters |-> pending.waiters \cup {n}] /\ chain' = chain
    BY <1>5 DEF Save, n, doc
  <2>3. /\ chain' \in Seq(JobType({"queued"}))
        /\ pending' \in [doc : Own \cup {NoDoc}, waiters : SUBSET (1..MaxSaves)]
    <3>1. chain' \in Seq(JobType({"queued"}))
      BY <1>4, <2>2, AppendedJob DEF SubmissionsTypeOK
    <3>2. pending.waiters \cup {n} \in SUBSET (1..MaxSaves) /\ {n} \in SUBSET (1..MaxSaves)
      BY <1>1 DEF SubmissionsTypeOK
    <3> QED
      BY <1>1, <2>2, <3>1, <3>2
  <2> QED
    BY <1>2, <1>3, <1>5, <2>1, <2>3 DEF Save, SubmissionsTypeOK
<1>6. CASE Approve
  <2>1. chain' = Append(chain, Job("approve", doc))
    BY <1>6 DEF Approve, n, doc
  <2>2. chain' \in Seq(JobType({"queued"}))
    BY <1>4, <2>1, AppendedJob
  <2> QED
    BY <1>2, <1>3, <1>6, <2>2 DEF Approve, SubmissionsTypeOK
<1> QED
  BY <1>5, <1>6

LEMMA TypePasses ==
    ASSUME SubmissionsTypeOK, InLine, BootSync \/ ApplyEvent \/ PassAnswered \/ PassApplied \/ PassFails
    PROVE  SubmissionsTypeOK'
<1> USE DEF service, jobs, passes, page, bounds
<1>1. CASE BootSync
  BY <1>1 DEF BootSync, NewPass, SubmissionsTypeOK
<1>2. CASE ApplyEvent
  <2>1. ~Waits("row") /\ Enter("row")
    BY <1>2 DEF ApplyEvent, InLine
  <2>2. /\ syncPromise' \in [pc : {"none", "fetch", "reply"},
                             owner : {"none", "boot", "row", "mut"}, ver : Nat]
        /\ queue' \in Seq({"row", "mut"})
    BY <2>1, EnterFacts
  <2> QED
    BY <1>2, <2>2 DEF ApplyEvent, SubmissionsTypeOK
<1>3. CASE PassAnswered
  <2>1. Len(revisions) \in Nat
    BY LenProperties DEF SubmissionsTypeOK
  <2>2. PICK v \in Nat : v = Len(revisions)
    BY <2>1
  <2>3. syncPromise' = [syncPromise EXCEPT !.pc = "reply", !.ver = v]
    BY <1>3, <2>2 DEF PassAnswered
  <2> QED
    BY <1>3, <2>3 DEF PassAnswered, SubmissionsTypeOK
<1>4. ASSUME NEW ok \in BOOLEAN, Settle(ok)
      PROVE  /\ syncPromise' \in [pc : {"none", "fetch", "reply"},
                                  owner : {"none", "boot", "row", "mut"}, ver : Nat]
             /\ queue' \in Seq({"row", "mut"}) /\ telling' \in BOOLEAN /\ events' \in Nat
             /\ mut' \in JobType(Steps) \cup {NoJob}
  <2>1. \/ mut' = mut
        \/ /\ mut \in JobType(Steps)
           /\ mut' \in {[mut EXCEPT !.pc = step] : step \in {"found", "failed"}}
    BY <1>4, SettleFacts, JobFacts
  <2>2. mut' \in JobType(Steps) \cup {NoJob}
    <3>1. ASSUME NEW step \in {"found", "failed"}, mut \in JobType(Steps)
          PROVE  [mut EXCEPT !.pc = step] \in JobType(Steps)
      BY <3>1 DEF JobType, Steps
    <3> QED
      BY <2>1, <3>1 DEF SubmissionsTypeOK
  <2> QED
    BY <1>4, <2>2, SettleFacts
<1>5. CASE PassApplied
  BY <1>4, <1>5 DEF PassApplied, SubmissionsTypeOK
<1>6. CASE PassFails
  <2>1. Settle(FALSE)
    BY <1>6 DEF PassFails
  <2>2. faults' \in Nat
    BY <1>6 DEF PassFails, SubmissionsTypeOK
  <2> QED
    BY <1>4, <1>6, <2>1, <2>2 DEF PassFails, SubmissionsTypeOK
<1> QED
  BY <1>1, <1>2, <1>3, <1>5, <1>6

LEMMA TypeJobs ==
    ASSUME SubmissionsTypeOK, InLine, JobStarts \/ JobFound \/ JobConflict \/ RequestFails
    PROVE  SubmissionsTypeOK'
<1> USE DEF service, jobs, passes, page, bounds
<1>1. CASE JobStarts
  <2>1. /\ Head(chain) \in JobType({"queued"}) /\ chain' = Tail(chain)
        /\ chain' \in Seq(JobType({"queued"}))
    BY <1>1, HeadOfChain DEF JobStarts
  <2>2. CASE submissions # 0
    <3>1. Send(Head(chain)) /\ syncPromise' = syncPromise /\ queue' = queue
      BY <1>1, <2>2 DEF JobStarts
    <3>2. Head(chain) \in JobType({"queued"} \cup Steps)
      BY <2>1 DEF JobType
    <3>3. wire' \subseteq [doc : Own, base : Nat, live : BOOLEAN] /\ mut' \in JobType(Steps)
      BY <3>1, <3>2, SendType
    <3> QED
      BY <1>1, <2>1, <3>1, <3>3 DEF JobStarts, SubmissionsTypeOK
  <2>3. CASE submissions = 0
    <3>1. mut' = [Head(chain) EXCEPT !.pc = "lookup"] /\ Enter("mut") /\ wire' = wire
      BY <1>1, <2>3 DEF JobStarts
    <3>2. mut' \in JobType(Steps)
      BY <2>1, <3>1 DEF JobType, Steps
    <3>3. ~Waits("mut")
      BY <1>1 DEF JobStarts, InLine, NoJob
    <3>4. /\ syncPromise' \in [pc : {"none", "fetch", "reply"},
                               owner : {"none", "boot", "row", "mut"}, ver : Nat]
          /\ queue' \in Seq({"row", "mut"})
      BY <3>1, <3>3, EnterFacts
    <3> QED
      BY <1>1, <2>1, <3>1, <3>2, <3>4 DEF JobStarts, SubmissionsTypeOK
  <2> QED
    BY <2>2, <2>3
<1>2. CASE JobFound
  <2>1. mut \in JobType({"queued"} \cup Steps)
    BY <1>2, JobFacts DEF JobFound, JobType
  <2>2. wire' \subseteq [doc : Own, base : Nat, live : BOOLEAN] /\ mut' \in JobType(Steps)
    BY <1>2, <2>1, SendType DEF JobFound
  <2> QED
    BY <1>2, <2>2 DEF JobFound, SubmissionsTypeOK
<1>3. CASE JobConflict
  <2>1. mut \in JobType(Steps) /\ ~Waits("mut") /\ Enter("mut")
    BY <1>3, JobFacts DEF JobConflict, InLine
  <2>2. mut' \in JobType(Steps)
    BY <1>3, <2>1 DEF JobConflict, JobType, Steps
  <2>3. /\ syncPromise' \in [pc : {"none", "fetch", "reply"},
                             owner : {"none", "boot", "row", "mut"}, ver : Nat]
        /\ queue' \in Seq({"row", "mut"})
    BY <2>1, EnterFacts
  <2> QED
    BY <1>3, <2>2, <2>3 DEF JobConflict, SubmissionsTypeOK
<1>4. CASE RequestFails
  <2>1. mut \in JobType(Steps)
    BY <1>4, JobFacts DEF RequestFails
  <2>2. mut' \in JobType(Steps)
    BY <1>4, <2>1 DEF RequestFails, JobType, Steps
  <2>3. wire' \subseteq [doc : Own, base : Nat, live : BOOLEAN]
    BY <1>4, LostRequests DEF RequestFails
  <2> QED
    BY <1>4, <2>2, <2>3 DEF RequestFails, SubmissionsTypeOK
<1> QED
  BY <1>1, <1>2, <1>3, <1>4

LEMMA TypeEnds ==
    ASSUME SubmissionsTypeOK, JobSucceeds \/ JobFails \/ Crash
    PROVE  SubmissionsTypeOK'
<1> USE DEF service, jobs, passes, page, bounds
<1>1. CASE JobSucceeds
  <2>1. mut \in JobType(Steps) /\ mut.ver \in Nat
    BY <1>1, JobFacts DEF JobSucceeds, JobType
  <2>2. CASE ApproveDone
    <3>1. calls' \in [1..MaxSaves -> [st : {"none", "pending", "ok", "failed"}, ver : Nat]]
      BY <2>1, <2>2, ResolvedType DEF ApproveDone
    <3> QED
      BY <1>1, <2>1, <2>2, <3>1 DEF JobSucceeds, ApproveDone, SubmissionsTypeOK
  <2>3. CASE NextDocument
    <3>1. pending.doc \in Own
      BY <2>3 DEF NextDocument, SubmissionsTypeOK
    <3>2. chain' \in Seq(JobType({"queued"}))
      BY <2>3, <3>1, NewJob, AppendedJob DEF NextDocument
    <3>3. pending' \in [doc : Own \cup {NoDoc}, waiters : SUBSET (1..MaxSaves)]
      BY <2>3 DEF NextDocument, SubmissionsTypeOK
    <3> QED
      BY <1>1, <2>1, <2>3, <3>2, <3>3 DEF JobSucceeds, NextDocument, SubmissionsTypeOK
  <2>4. CASE UpdateDone
    <3>1. calls' \in [1..MaxSaves -> [st : {"none", "pending", "ok", "failed"}, ver : Nat]]
      BY <2>1, <2>4, ResolvedType DEF UpdateDone
    <3>2. pending' \in [doc : Own \cup {NoDoc}, waiters : SUBSET (1..MaxSaves)]
      BY <2>4 DEF UpdateDone, NoPending
    <3> QED
      BY <1>1, <2>1, <2>4, <3>1, <3>2 DEF JobSucceeds, UpdateDone, SubmissionsTypeOK
  <2> QED
    BY <1>1, <2>2, <2>3, <2>4 DEF JobSucceeds
<1>2. CASE JobFails
  <2>1. calls' \in [1..MaxSaves -> [st : {"none", "pending", "ok", "failed"}, ver : Nat]]
    BY <1>2, ResolvedType DEF JobFails
  <2>2. pending' \in [doc : Own \cup {NoDoc}, waiters : SUBSET (1..MaxSaves)]
    BY <1>2 DEF JobFails, NoPending, SubmissionsTypeOK
  <2> QED
    BY <1>2, <2>1, <2>2 DEF JobFails, SubmissionsTypeOK
<1>3. CASE Crash
  <2>1. calls' \in [1..MaxSaves -> [st : {"none", "pending", "ok", "failed"}, ver : Nat]]
    BY <1>3, ResolvedType DEF Crash
  <2>2. /\ pending' \in [doc : Own \cup {NoDoc}, waiters : SUBSET (1..MaxSaves)]
        /\ chain' \in Seq(JobType({"queued"})) /\ queue' \in Seq({"row", "mut"})
        /\ syncPromise' \in [pc : {"none", "fetch", "reply"},
                             owner : {"none", "boot", "row", "mut"}, ver : Nat]
    BY <1>3 DEF Crash, NoPending, NoPass
  <2>3. wire' \subseteq [doc : Own, base : Nat, live : BOOLEAN]
    BY <1>3, LostRequests DEF Crash
  <2>4. crashes' \in Nat /\ mut' \in JobType(Steps) \cup {NoJob}
    BY <1>3 DEF Crash, SubmissionsTypeOK
  <2>5. telling' \in BOOLEAN
    BY <1>3 DEF Crash
  <2> QED
    BY <1>3, <2>1, <2>2, <2>3, <2>4, <2>5 DEF Crash, SubmissionsTypeOK
<1> QED
  BY <1>1, <1>2, <1>3

LEMMA SubmissionsTypeStep ==
    ASSUME SubmissionsTypeOK, InLine, Requested, [SubmissionsNext]_submissionVars
    PROVE  SubmissionsTypeOK'
<1>1. CASE UNCHANGED submissionVars
  BY <1>1 DEF submissionVars, service, jobs, passes, page, bounds, SubmissionsTypeOK
<1>2. CASE SubmissionsNext
  BY <1>2, TypeWorld, TypeEditor, TypePasses, TypeJobs, TypeEnds DEF SubmissionsNext, Worker
<1> QED
  BY <1>1, <1>2
-----------------------------------------------------------------------------
(* Who waits for a pass, and which request is waited for.                  *)

LEMMA LineKept ==
    ASSUME SubmissionsTypeOK, InLine, UNCHANGED <<syncPromise, queue, telling>>,
           events' = events \/ events' = events + 1,
           mut'.pc = mut.pc \/ mut.pc \notin {"lookup", "refresh"}
    PROVE  InLine'
<1>1. events > 0 => events' > 0
  BY DEF SubmissionsTypeOK
<1>2. /\ WaitsOnce("mut")' <=> WaitsOnce("mut")
      /\ WaitsOnce("row")' <=> WaitsOnce("row")
      /\ Waits("mut")' <=> Waits("mut")
      /\ Waits("row")' <=> Waits("row")
  BY DEF WaitsOnce, Waits
<1> QED
  BY <1>1, <1>2 DEF InLine

LEMMA LineStep ==
    ASSUME SubmissionsTypeOK, InLine, Requested, SubmissionsNext
    PROVE  InLine'
<1> USE DEF service, jobs, passes, page, bounds
<1>1. CASE OtherRevises \/ Save \/ Approve \/ EditorReconciles
  BY <1>1, LineKept DEF OtherRevises, Save, Approve, EditorReconciles
<1>2. CASE Handle
  <2>1. PICK r \in wire : ServerHandles(r)
    BY <1>2 DEF Handle
  <2>2. mut' = mut \/ mut.pc = "sent"
    BY <2>1 DEF ServerHandles, Requested
  <2>3. events' = events \/ events' = events + 1
    BY <2>1 DEF ServerHandles
  <2> QED
    BY <2>1, <2>2, <2>3, LineKept DEF ServerHandles
<1>3. CASE BootSync
  BY <1>3 DEF BootSync, NewPass, InLine, WaitsOnce, Waits
<1>4. CASE ApplyEvent
  <2>1. ~Waits("row") /\ Enter("row") /\ telling' /\ events > 0 /\ events' = events /\ mut' = mut
    BY <1>4 DEF ApplyEvent, InLine
  <2> QED
    BY <2>1, EnterFacts DEF InLine
<1>5. CASE PassAnswered
  <2>1. syncPromise'.owner = syncPromise.owner
    BY <1>5 DEF PassAnswered, SubmissionsTypeOK
  <2> QED
    BY <1>5, <2>1 DEF PassAnswered, InLine, WaitsOnce, Waits
<1>6. CASE PassApplied
  BY <1>6, SettleFacts DEF PassApplied
<1>7. CASE PassFails
  BY <1>7, SettleFacts DEF PassFails
<1>8. CASE JobStarts
  <2>1. mut.pc = "none"
    BY <1>8 DEF JobStarts, NoJob
  <2>2. CASE submissions # 0
    BY <1>8, <2>1, <2>2, LineKept DEF JobStarts
  <2>3. CASE submissions = 0
    <3>1. /\ ~Waits("mut") /\ Enter("mut") /\ UNCHANGED <<telling, events>>
          /\ mut' = [Head(chain) EXCEPT !.pc = "lookup"]
      BY <1>8, <2>1, <2>3 DEF JobStarts, InLine
    <3>2. Head(chain) \in JobType({"queued"})
      BY <1>8, HeadOfChain DEF JobStarts
    <3>3. mut'.pc = "lookup"
      BY <3>1, <3>2 DEF JobType
    <3> QED
      BY <3>1, <3>3, EnterFacts DEF InLine
  <2> QED
    BY <2>2, <2>3
<1>9. CASE JobConflict
  <2>1. /\ ~Waits("mut") /\ Enter("mut") /\ UNCHANGED <<telling, events>>
        /\ mut' = [mut EXCEPT !.pc = "refresh"] /\ mut \in JobType(Steps)
    BY <1>9, JobFacts DEF JobConflict, InLine
  <2>2. mut'.pc = "refresh"
    BY <2>1 DEF JobType
  <2> QED
    BY <2>1, <2>2, EnterFacts DEF InLine
<1>10. CASE JobFound \/ RequestFails \/ JobSucceeds \/ JobFails
  BY <1>10, LineKept DEF JobFound, RequestFails, JobSucceeds, JobFails
<1>11. CASE Crash
  BY <1>11 DEF Crash, InLine, WaitsOnce, Waits, NoPass
<1> QED
  BY <1>1, <1>2, <1>3, <1>4, <1>5, <1>6, <1>7, <1>8, <1>9, <1>10, <1>11
     DEF SubmissionsNext, Worker

LEMMA SendRequests ==
    ASSUME SubmissionsTypeOK, Requested, mut.pc # "sent",
           NEW job \in JobType({"queued"} \cup Steps), Send(job)
    PROVE  Requested' /\ mut'.pc = "sent"
<1>1. \A r \in wire : ~r.live
  BY DEF Requested
<1>2. mut'.pc = "sent" /\ mut'.doc = job.doc
  BY DEF Send, JobType
<1>3. PICK new : wire' = wire \cup {new} /\ new.doc = job.doc
  <2>1. PICK r : r = [doc |-> job.doc, base |-> submissions, live |-> TRUE]
    OBVIOUS
  <2>2. wire' = wire \cup {r} /\ r.doc = job.doc
    BY <2>1 DEF Send
  <2> QED
    BY <2>2
<1>4. \A r \in wire' : r.live => r = new
  BY <1>1, <1>3
<1> QED
  BY <1>2, <1>3, <1>4 DEF Requested

LEMMA NoRequest ==
    ASSUME Requested, mut.pc # "sent", UNCHANGED wire
    PROVE  Requested'
BY DEF Requested

LEMMA RequestStep ==
    ASSUME SubmissionsTypeOK, InLine, Requested, SubmissionsNext
    PROVE  Requested'
<1> USE DEF service, jobs, passes, page, bounds
<1>1. CASE OtherRevises \/ Save \/ Approve \/ EditorReconciles \/ BootSync \/ ApplyEvent \/ PassAnswered
  <2>1. UNCHANGED <<wire, mut>>
    BY <1>1 DEF OtherRevises, Save, Approve, EditorReconciles, BootSync, ApplyEvent, PassAnswered
  <2> QED
    BY <2>1 DEF Requested
<1>2. CASE Handle
  <2>1. PICK r \in wire : ServerHandles(r)
    BY <1>2 DEF Handle
  <2>2. wire' = wire \ {r} /\ (~r.live => mut' = mut)
    BY <2>1 DEF ServerHandles
  <2> QED
    BY <2>2 DEF Requested
<1>3. ASSUME NEW ok \in BOOLEAN, Settle(ok), UNCHANGED wire
      PROVE  Requested'
  <2>1. mut' = mut \/ mut.pc # "sent"
    BY <1>3, SettleFacts
  <2> QED
    BY <1>3, <2>1 DEF Requested
<1>4. CASE PassApplied \/ PassFails
  BY <1>3, <1>4 DEF PassApplied, PassFails
<1>5. CASE JobStarts
  <2>1. mut.pc = "none" /\ Head(chain) \in JobType({"queued"} \cup Steps)
    BY <1>5, HeadOfChain DEF JobStarts, NoJob, JobType
  <2> QED
    BY <1>5, <2>1, SendRequests, NoRequest DEF JobStarts
<1>6. CASE JobFound
  <2>1. mut \in JobType({"queued"} \cup Steps)
    BY <1>6, JobFacts DEF JobFound, JobType
  <2> QED
    BY <1>6, <2>1, SendRequests DEF JobFound
<1>7. CASE JobConflict \/ JobSucceeds \/ JobFails
  BY <1>7, NoRequest DEF JobConflict, JobSucceeds, JobFails
<1>8. CASE RequestFails
  <2>1. \A r \in wire' : ~r.live
    BY <1>8, LostRequests DEF RequestFails
  <2> QED
    BY <2>1 DEF Requested
<1>9. CASE Crash
  <2>1. \A r \in wire' : ~r.live
    BY <1>9, LostRequests DEF Crash
  <2> QED
    BY <2>1 DEF Requested
<1> QED
  BY <1>1, <1>2, <1>4, <1>5, <1>6, <1>7, <1>8, <1>9 DEF SubmissionsNext, Worker
-----------------------------------------------------------------------------
(* The version a job was given, and the group of callers it answers.       *)

LEMMA LandedStep ==
    ASSUME SubmissionsTypeOK, InLine, Requested, Landed, SubmissionsNext
    PROVE  Landed'
<1> USE DEF service, jobs, passes, page, bounds
<1>1. CASE OtherRevises
  <2>1. Doc("other", others + 1) \in Documents
    BY DEF Doc, Documents, SubmissionsTypeOK
  <2> QED
    BY <1>1, <2>1, RevisionsGrow DEF OtherRevises, Landed
<1>2. CASE Handle
  <2>1. PICK r \in wire : ServerHandles(r)
    BY <1>2 DEF Handle
  <2>2. r.doc \in Documents
    BY <2>1, SaveFacts DEF SubmissionsTypeOK, Own, Documents
  <2>3. CASE ~r.live
    <3>1. mut' = mut
      BY <2>1, <2>3 DEF ServerHandles
    <3>2. \A v \in DOMAIN revisions : v \in DOMAIN revisions' /\ revisions'[v] = revisions[v]
      BY <2>1, <2>2, RevisionsGrow DEF ServerHandles
    <3> QED
      BY <3>1, <3>2 DEF Landed
  <2>4. CASE r.live /\ r.base = Len(revisions)
    <3>1. /\ mut' = [mut EXCEPT !.pc = "accepted", !.ver = Len(revisions) + 1]
          /\ mut \in JobType(Steps) /\ mut.doc = r.doc
          /\ revisions' = Append(revisions, r.doc)
      BY <2>1, <2>4, JobFacts DEF ServerHandles, Requested
    <3>2. mut'.ver = Len(revisions) + 1 /\ mut'.doc = r.doc
      BY <3>1 DEF JobType
    <3> QED
      BY <2>2, <3>1, <3>2, RevisionsGrow DEF Landed
  <2>5. CASE r.live /\ r.base # Len(revisions)
    <3>1. mut' = [mut EXCEPT !.pc = "conflict"] /\ mut \in JobType(Steps)
      BY <2>1, <2>5, JobFacts DEF ServerHandles, Requested
    <3> QED
      BY <3>1 DEF Landed, JobType
  <2> QED
    BY <2>3, <2>4, <2>5
<1>3. CASE Save \/ Approve \/ EditorReconciles \/ BootSync \/ ApplyEvent \/ PassAnswered
  <2>1. UNCHANGED <<mut, revisions>>
    BY <1>3 DEF Save, Approve, EditorReconciles, BootSync, ApplyEvent, PassAnswered
  <2> QED
    BY <2>1 DEF Landed
<1>4. CASE PassApplied \/ PassFails
  <2>1. \/ mut' = mut
        \/ mut \in JobType(Steps) /\ mut' \in {[mut EXCEPT !.pc = step] : step \in {"found", "failed"}}
    BY <1>4, SettleFacts, JobFacts DEF PassApplied, PassFails
  <2>2. mut' = mut \/ mut'.pc \in {"found", "failed"}
    BY <2>1 DEF JobType
  <2>3. revisions' = revisions
    BY <1>4 DEF PassApplied, PassFails
  <2> QED
    BY <2>2, <2>3 DEF Landed
<1>5. CASE JobStarts
  <2>1. Head(chain) \in JobType({"queued"})
    BY <1>5, HeadOfChain DEF JobStarts
  <2>2. \/ mut' = [Head(chain) EXCEPT !.pc = "sent"]
        \/ mut' = [Head(chain) EXCEPT !.pc = "lookup"]
    BY <1>5 DEF JobStarts, Send
  <2> QED
    BY <2>1, <2>2 DEF Landed, JobType
<1>6. CASE JobFound \/ JobConflict \/ RequestFails
  <2>1. mut \in JobType(Steps)
    BY <1>6, JobFacts DEF JobFound, JobConflict, RequestFails
  <2>2. \E step \in {"sent", "refresh", "failed"} : mut' = [mut EXCEPT !.pc = step]
    BY <1>6 DEF JobFound, JobConflict, RequestFails, Send
  <2> QED
    BY <2>1, <2>2 DEF Landed, JobType
<1>7. CASE JobSucceeds \/ JobFails \/ Crash
  <2>1. mut' = NoJob
    BY <1>7 DEF JobSucceeds, JobFails, Crash
  <2> QED
    BY <2>1 DEF Landed, NoJob
<1> QED
  BY <1>1, <1>2, <1>3, <1>4, <1>5, <1>6, <1>7 DEF SubmissionsNext, Worker

(* A step that leaves the queue of jobs and the group alone.               *)
LEMMA GroupKept ==
    ASSUME OneUpdate, NewestLast, UNCHANGED <<chain, pending, saves>>,
           mut'.kind = mut.kind, mut'.doc = mut.doc
    PROVE  OneUpdate' /\ NewestLast'
BY DEF OneUpdate, NewestLast, Updates, Covered

LEMMA GroupFrame ==
    ASSUME SubmissionsTypeOK, InLine, Requested, OneUpdate, NewestLast,
           \/ OtherRevises \/ Handle \/ EditorReconciles
           \/ BootSync \/ ApplyEvent \/ PassAnswered \/ PassApplied \/ PassFails
           \/ JobFound \/ JobConflict \/ RequestFails
    PROVE  OneUpdate' /\ NewestLast'
<1> USE DEF service, jobs, passes, page, bounds
<1>1. CASE OtherRevises \/ EditorReconciles \/ BootSync \/ ApplyEvent \/ PassAnswered
  <2>1. UNCHANGED <<chain, pending, saves, mut>>
    BY <1>1 DEF OtherRevises, EditorReconciles, BootSync, ApplyEvent, PassAnswered
  <2> QED
    BY <2>1, GroupKept
<1>2. CASE Handle
  <2>1. PICK r \in wire : ServerHandles(r)
    BY <1>2 DEF Handle
  <2>2. \/ mut' = mut
        \/ /\ mut \in JobType(Steps)
           /\ \/ mut' = [mut EXCEPT !.pc = "accepted", !.ver = Len(revisions) + 1]
              \/ mut' = [mut EXCEPT !.pc = "conflict"]
    BY <2>1, JobFacts DEF ServerHandles, Requested
  <2>3. mut'.kind = mut.kind /\ mut'.doc = mut.doc
    BY <2>2 DEF JobType
  <2> QED
    BY <2>1, <2>3, GroupKept DEF ServerHandles
<1>3. CASE PassApplied \/ PassFails
  <2>1. \/ mut' = mut
        \/ mut \in JobType(Steps) /\ mut' \in {[mut EXCEPT !.pc = step] : step \in {"found", "failed"}}
    BY <1>3, SettleFacts, JobFacts DEF PassApplied, PassFails
  <2>2. mut'.kind = mut.kind /\ mut'.doc = mut.doc
    BY <2>1 DEF JobType
  <2> QED
    BY <1>3, <2>2, GroupKept DEF PassApplied, PassFails
<1>4. CASE JobFound \/ JobConflict \/ RequestFails
  <2>1. mut \in JobType(Steps)
    BY <1>4, JobFacts DEF JobFound, JobConflict, RequestFails
  <2>2. \E step \in {"sent", "refresh", "failed"} : mut' = [mut EXCEPT !.pc = step]
    BY <1>4 DEF JobFound, JobConflict, RequestFails, Send
  <2>3. mut'.kind = mut.kind /\ mut'.doc = mut.doc
    BY <2>1, <2>2 DEF JobType
  <2> QED
    BY <1>4, <2>3, GroupKept DEF JobFound, JobConflict, RequestFails
<1> QED
  BY <1>1, <1>2, <1>3, <1>4

LEMMA GroupSave ==
    ASSUME SubmissionsTypeOK, OneUpdate, NewestLast, Save
    PROVE  OneUpdate' /\ NewestLast'
<1> USE DEF service, jobs, passes, page, bounds
<1>1. PICK n : n = saves + 1
  OBVIOUS
<1>2. n \in 1..MaxSaves /\ saves' = n /\ mut' = mut /\ saves \in Nat /\ saves < n
  <2>1. saves < MaxSaves /\ saves' = n /\ mut' = mut
    BY <1>1 DEF Save
  <2> QED
    BY <1>1, <2>1, SaveFacts DEF SubmissionsTypeOK
<1>3. Doc("me", n) \in Own /\ Doc("me", n).n = n /\ Doc("me", n) # NoDoc
  BY <1>2 DEF Doc, Own, NoDoc
<1>4. CASE pending = NoPending
  <2>1. /\ pending' = [doc |-> NoDoc, waiters |-> {n}]
        /\ chain' = Append(chain, Job("update", Doc("me", n)))
    BY <1>1, <1>4 DEF Save
  <2>2. mut.kind # "update" /\ Updates = {}
    BY <1>4 DEF OneUpdate
  <2>3. Job("update", Doc("me", n)) \in JobType({"queued"})
    BY <1>3, NewJob
  <2>4. /\ Len(chain) + 1 \in DOMAIN chain'
        /\ chain'[Len(chain) + 1].kind = "update" /\ chain'[Len(chain) + 1].doc = Doc("me", n)
        /\ \A i \in DOMAIN chain' : i = Len(chain) + 1 \/ (i \in DOMAIN chain /\ chain'[i] = chain[i])
    <3>1. PICK job \in JobType({"queued"}) :
              job.kind = "update" /\ job.doc = Doc("me", n) /\ chain' = Append(chain, job)
      BY <2>1, <2>3 DEF Job
    <3> QED
      BY <3>1, AppendedJob
  <2>5. Updates' = {Len(chain) + 1}
    BY <2>2, <2>4 DEF Updates
  <2>6. pending'.doc = NoDoc /\ pending'.waiters = {n} /\ pending' # NoPending
    BY <2>1 DEF NoPending
  <2>7. OneUpdate'
    BY <1>2, <2>2, <2>5, <2>6 DEF OneUpdate
  <2>8. NewestLast'
    BY <1>2, <1>3, <2>2, <2>4, <2>5, <2>6 DEF NewestLast, Covered
  <2> QED
    BY <2>7, <2>8
<1>5. CASE pending # NoPending
  <2>1. /\ pending' = [doc |-> Doc("me", n), waiters |-> pending.waiters \cup {n}]
        /\ chain' = chain
    BY <1>1, <1>5 DEF Save
  <2>2. /\ pending'.doc = Doc("me", n) /\ pending'.waiters = pending.waiters \cup {n}
        /\ pending' # NoPending
    BY <1>3, <2>1 DEF NoPending
  <2>3. Updates' = Updates
    BY <2>1 DEF Updates
  <2>4. OneUpdate'
    BY <1>2, <1>5, <2>2, <2>3 DEF OneUpdate
  <2>5. \A w \in pending'.waiters : w <= n
    BY <1>2, <2>2 DEF NewestLast, SubmissionsTypeOK
  <2>6. NewestLast'
    BY <1>2, <1>3, <2>2, <2>5 DEF NewestLast, Covered
  <2> QED
    BY <2>4, <2>6
<1> QED
  BY <1>4, <1>5

LEMMA GroupApprove ==
    ASSUME SubmissionsTypeOK, OneUpdate, NewestLast, Approve
    PROVE  OneUpdate' /\ NewestLast'
<1> USE DEF service, jobs, passes, page, bounds
<1>1. PICK n : n = saves + 1
  OBVIOUS
<1>2. n \in 1..MaxSaves /\ saves' = n /\ saves \in Nat /\ UNCHANGED <<mut, pending>>
  <2>1. saves < MaxSaves /\ saves' = n /\ UNCHANGED <<mut, pending>>
    BY <1>1 DEF Approve
  <2> QED
    BY <1>1, <2>1, SaveFacts DEF SubmissionsTypeOK
<1>3. Doc("me", n) \in Own
  BY <1>2 DEF Doc, Own
<1>4. chain' = Append(chain, Job("approve", Doc("me", n)))
  BY <1>1 DEF Approve
<1>5. /\ \A i \in DOMAIN chain : i \in DOMAIN chain' /\ chain'[i] = chain[i]
      /\ \A i \in DOMAIN chain' : i \in DOMAIN chain \/ chain'[i].kind = "approve"
  BY <1>3, <1>4, NewJob, AppendedJob DEF Job
<1>6. Updates' = Updates
  BY <1>5 DEF Updates
<1>7. \A i \in Updates : chain'[i] = chain[i]
  BY <1>5 DEF Updates
<1>8. \A w \in pending.waiters : w <= saves'
  BY <1>1, <1>2 DEF NewestLast, SubmissionsTypeOK
<1> QED
  BY <1>2, <1>6, <1>7, <1>8 DEF OneUpdate, NewestLast, Covered

LEMMA GroupStarts ==
    ASSUME SubmissionsTypeOK, OneUpdate, NewestLast, JobStarts
    PROVE  OneUpdate' /\ NewestLast'
<1> USE DEF service, jobs, passes, page, bounds
<1>1. UNCHANGED <<pending, saves>> /\ mut.kind = "none" /\ chain # <<>> /\ chain' = Tail(chain)
  BY DEF JobStarts, NoJob
<1>2. /\ Head(chain) \in JobType({"queued"}) /\ Head(chain) = chain[1] /\ 1 \in DOMAIN chain
      /\ \A i \in DOMAIN chain' :
           i + 1 \in DOMAIN chain /\ chain'[i] = chain[i + 1] /\ i \in Nat /\ i + 1 # 1
      /\ \A i \in DOMAIN chain : i # 1 => i - 1 \in DOMAIN chain'
      /\ DOMAIN chain \subseteq Nat
  BY <1>1, HeadOfChain, LenProperties DEF SubmissionsTypeOK
<1>3. mut'.kind = chain[1].kind /\ mut'.doc = chain[1].doc
  BY <1>2 DEF JobStarts, Send, JobType
<1>4. \A i \in DOMAIN chain' : i \in Updates' <=> i + 1 \in Updates
  BY <1>2 DEF Updates
<1>5. \A i \in Updates : i = 1 \/ (i - 1) \in Updates'
  <2>1. ASSUME NEW i \in Updates, i # 1 PROVE i - 1 \in Updates'
    <3>1. i \in DOMAIN chain /\ i - 1 \in DOMAIN chain' /\ chain[i].kind = "update"
      BY <1>2, <2>1 DEF Updates
    <3>2. (i - 1) + 1 = i
      BY <1>2, <3>1
    <3> QED
      BY <1>2, <3>1, <3>2 DEF Updates
  <2> QED
    BY <2>1
<1>6. Updates' \subseteq DOMAIN chain' /\ (mut'.kind = "update" <=> 1 \in Updates)
  BY <1>2, <1>3 DEF Updates
<1>7. OneUpdate'
  <2>1. pending' # NoPending <=> mut'.kind = "update" \/ Updates' # {}
    BY <1>1, <1>4, <1>5, <1>6 DEF OneUpdate
  <2>2. mut'.kind = "update" => Updates' = {}
    BY <1>2, <1>4, <1>6 DEF OneUpdate
  <2>3. \A i, k \in Updates' : i = k
    <3>1. ASSUME NEW i \in Updates', NEW k \in Updates' PROVE i = k
      <4>1. i + 1 = k + 1 /\ i \in Nat /\ k \in Nat
        BY <1>2, <1>4, <1>6, <3>1 DEF OneUpdate
      <4> QED
        BY <4>1
    <3> QED
      BY <3>1
  <2> QED
    BY <1>1, <2>1, <2>2, <2>3 DEF OneUpdate
<1>8. NewestLast'
  <2>1. \A i \in Updates' : i + 1 \in Updates /\ chain'[i] = chain[i + 1]
    BY <1>2, <1>4, <1>6
  <2>2. pending.doc = NoDoc => \A i \in Updates' : Covered(chain[i + 1].doc)
    BY <2>1 DEF NewestLast
  <2>3. pending.doc = NoDoc /\ mut'.kind = "update" => Covered(mut'.doc)
    BY <1>3, <1>6 DEF NewestLast
  <2> QED
    BY <1>1, <2>1, <2>2, <2>3 DEF NewestLast, Covered
<1> QED
  BY <1>7, <1>8

LEMMA GroupEnds ==
    ASSUME SubmissionsTypeOK, OneUpdate, NewestLast, JobSucceeds \/ JobFails \/ Crash
    PROVE  OneUpdate' /\ NewestLast'
<1> USE DEF service, jobs, passes, page, bounds
<1>1. mut' = NoJob /\ saves' = saves
  BY DEF JobSucceeds, JobFails, Crash
<1>2. mut'.kind = "none"
  BY <1>1 DEF NoJob
<1>3. ASSUME UNCHANGED <<chain, pending>>, mut.kind # "update" PROVE OneUpdate' /\ NewestLast'
  BY <1>1, <1>2, <1>3 DEF OneUpdate, NewestLast, Updates, Covered
<1>4. ASSUME Updates' = {}, pending' = NoPending PROVE OneUpdate' /\ NewestLast'
  <2>1. pending'.doc = NoDoc /\ pending'.waiters = {}
    BY <1>4 DEF NoPending
  <2> QED
    BY <1>2, <1>4, <2>1 DEF OneUpdate, NewestLast, Covered
<1>5. ASSUME mut.kind = "update", UNCHANGED chain, pending' = NoPending PROVE OneUpdate' /\ NewestLast'
  <2>1. Updates' = {}
    BY <1>5 DEF OneUpdate, Updates
  <2> QED
    BY <1>4, <1>5, <2>1
<1>6. CASE JobSucceeds
  <2>1. CASE ApproveDone
    BY <1>3, <2>1 DEF ApproveDone
  <2>2. CASE UpdateDone
    BY <1>5, <2>2 DEF UpdateDone
  <2>3. CASE NextDocument
    <3>1. /\ mut.kind = "update" /\ pending.doc # NoDoc /\ pending.doc \in Own
          /\ chain' = Append(chain, Job("update", pending.doc))
          /\ pending' = [pending EXCEPT !.doc = NoDoc]
      BY <2>3 DEF NextDocument, SubmissionsTypeOK
    <3>2. Updates = {} /\ pending.waiters # {} /\ Covered(pending.doc)
      BY <3>1 DEF OneUpdate, NewestLast
    <3>3. pending'.doc = NoDoc /\ pending'.waiters = pending.waiters /\ pending' # NoPending
      BY <3>1, <3>2 DEF NoPending, SubmissionsTypeOK
    <3>4. /\ Len(chain) + 1 \in DOMAIN chain'
          /\ chain'[Len(chain) + 1].kind = "update" /\ chain'[Len(chain) + 1].doc = pending.doc
          /\ \A i \in DOMAIN chain' : i = Len(chain) + 1 \/ (i \in DOMAIN chain /\ chain'[i] = chain[i])
      <4>1. Job("update", pending.doc) \in JobType({"queued"})
        BY <3>1, NewJob
      <4>2. PICK job \in JobType({"queued"}) :
                job.kind = "update" /\ job.doc = pending.doc /\ chain' = Append(chain, job)
        BY <3>1, <4>1 DEF Job
      <4> QED
        BY <4>2, AppendedJob
    <3>5. Updates' = {Len(chain) + 1}
      BY <3>2, <3>4 DEF Updates
    <3>6. OneUpdate'
      BY <1>2, <3>3, <3>5 DEF OneUpdate
    <3>7. NewestLast'
      BY <1>1, <1>2, <3>2, <3>3, <3>4, <3>5 DEF NewestLast, Covered
    <3> QED
      BY <3>6, <3>7
  <2> QED
    BY <1>6, <2>1, <2>2, <2>3 DEF JobSucceeds
<1>7. CASE JobFails
  <2>1. mut \in JobType(Steps)
    BY <1>7, JobFacts DEF JobFails
  <2>2. mut.kind = "approve" \/ mut.kind = "update"
    BY <2>1 DEF JobType
  <2> QED
    BY <1>3, <1>5, <1>7, <2>2 DEF JobFails
<1>8. CASE Crash
  <2>1. Updates' = {} /\ pending' = NoPending
    BY <1>8 DEF Crash, Updates
  <2> QED
    BY <1>4, <2>1
<1> QED
  BY <1>6, <1>7, <1>8
-----------------------------------------------------------------------------
(* Who is answered, and with which row.                                    *)

LEMMA HoldsOn ==
    ASSUME SubmissionsTypeOK, SubmissionsNext, NEW v, NEW n, Holds(v, n)
    PROVE  Holds(v, n)'
<1> USE DEF service, jobs, passes, page, bounds
<1>1. revisions' = revisions \/ \E doc \in Documents : revisions' = Append(revisions, doc)
  <2>1. CASE OtherRevises
    <3>1. Doc("other", others + 1) \in Documents
      BY DEF Doc, Documents, SubmissionsTypeOK
    <3> QED
      BY <2>1, <3>1 DEF OtherRevises
  <2>2. CASE Handle
    <3>1. PICK r \in wire : ServerHandles(r)
      BY <2>2 DEF Handle
    <3>2. r.doc \in Documents
      BY <3>1, SaveFacts DEF SubmissionsTypeOK, Own, Documents
    <3> QED
      BY <3>1, <3>2 DEF ServerHandles
  <2>3. CASE \/ Save \/ Approve \/ EditorReconciles \/ BootSync \/ ApplyEvent \/ PassAnswered
             \/ PassApplied \/ PassFails \/ JobStarts \/ JobFound \/ JobConflict \/ RequestFails
             \/ JobSucceeds \/ JobFails \/ Crash
    BY <2>3 DEF Save, Approve, EditorReconciles, BootSync, ApplyEvent, PassAnswered, PassApplied,
                PassFails, JobStarts, JobFound, JobConflict, RequestFails, JobSucceeds, JobFails, Crash
  <2> QED
    BY <2>1, <2>2, <2>3 DEF SubmissionsNext, Worker
<1>2. v \in DOMAIN revisions' /\ revisions'[v] = revisions[v]
  BY <1>1, RevisionsGrow DEF Holds
<1> QED
  BY <1>2 DEF Holds

LEMMA ResolvedStep ==
    ASSUME SubmissionsInv, SubmissionsNext
    PROVE  Resolved'
<1> USE DEF service, jobs, passes, page, bounds
<1> USE DEF SubmissionsInv
<1>1. SUFFICES ASSUME NEW n \in DOMAIN calls', calls'[n].st = "ok"
               PROVE  Holds(calls[n].ver, n)'
  BY DEF Resolved
<1>2. ASSUME n \in DOMAIN calls, calls[n] = calls'[n] PROVE Holds(calls[n].ver, n)'
  <2>1. PICK v : v = calls[n].ver /\ Holds(v, n)
    BY <1>1, <1>2 DEF Resolved
  <2>2. Holds(v, n)'
    BY <2>1, HoldsOn
  <2> QED
    BY <1>2, <2>1, <2>2 DEF Holds
<1>3. CASE JobSucceeds
  <2>1. /\ mut.ver \in DOMAIN revisions /\ revisions[mut.ver] = mut.doc /\ revisions' = revisions
        /\ mut.doc \in Own /\ mut.doc.by = "me" /\ mut.doc.n \in 1..MaxSaves /\ mut.ver \in Nat
    BY <1>3, JobFacts DEF JobSucceeds, Landed, JobType, Own
  <2>2. ASSUME NEW ns, \A k \in ns : k <= mut.doc.n,
               calls' = Resolve(ns, "ok", mut.ver)
        PROVE  Holds(calls[n].ver, n)'
    <3>0. /\ DOMAIN calls' = DOMAIN calls
          /\ n \in ns => calls'[n].ver = mut.ver
          /\ n \notin ns => calls'[n] = calls[n]
      <4>1. SubmissionsTypeOK /\ mut.ver \in Nat /\ calls' = Resolve(ns, "ok", mut.ver)
        BY <2>1, <2>2
      <4>2. /\ DOMAIN calls' = DOMAIN calls
            /\ \A k \in DOMAIN calls' : /\ k \in ns => calls'[k].ver = mut.ver
                                        /\ k \notin ns => calls'[k] = calls[k]
        BY ONLY <4>1 DEF Resolve
      <4> QED
        BY <1>1, <4>2
    <3>1. CASE n \in ns
      <4>1. calls'[n].ver = mut.ver /\ n <= mut.doc.n
        BY <2>2, <3>0, <3>1
      <4> QED
        BY <2>1, <2>2, <3>1, <4>1, SaveFacts DEF Holds
    <3>2. CASE n \notin ns
      <4>1. n \in DOMAIN calls /\ calls[n] = calls'[n]
        BY <1>1, <3>0, <3>2
      <4> QED
        BY <1>2, <4>1
    <3> QED
      BY <3>1, <3>2
  <2>3. CASE ApproveDone
    <3>1. calls' = Resolve({mut.doc.n}, "ok", mut.ver)
      BY <2>3 DEF ApproveDone
    <3>2. \A k \in {mut.doc.n} : k <= mut.doc.n
      BY <2>1, SaveFacts
    <3> QED
      BY <2>2, <3>1, <3>2
  <2>4. CASE UpdateDone
    <3>1. calls' = Resolve(pending.waiters, "ok", mut.ver)
      BY <2>4 DEF UpdateDone
    <3>2. \A k \in pending.waiters : k <= mut.doc.n
      BY <2>4 DEF UpdateDone, NewestLast, Covered
    <3> QED
      BY <2>2, <3>1, <3>2
  <2>5. CASE NextDocument
    BY <1>1, <1>2, <2>5 DEF NextDocument
  <2> QED
    BY <1>3, <2>3, <2>4, <2>5 DEF JobSucceeds
<1>4. ASSUME NEW ns, calls' = Resolve(ns, "failed", 0)
      PROVE  Holds(calls[n].ver, n)'
  <2>1. /\ DOMAIN calls' = DOMAIN calls
        /\ n \in ns => calls'[n].st = "failed"
        /\ n \notin ns => calls'[n] = calls[n]
    <3>1. SubmissionsTypeOK /\ 0 \in Nat
      OBVIOUS
    <3> QED
      BY <1>1, <1>4, <3>1, ResolvedType
  <2>2. n \notin ns /\ n \in DOMAIN calls /\ calls[n] = calls'[n]
    BY <1>1, <2>1
  <2> QED
    BY <1>2, <2>2
<1>5. CASE JobFails \/ Crash
  BY <1>4, <1>5 DEF JobFails, Crash
<1>6. CASE Save \/ Approve
  <2>1. PICK k : calls' = [calls EXCEPT ![k].st = "pending"]
    BY <1>6 DEF Save, Approve
  <2>2. n \in DOMAIN calls /\ calls[n] = calls'[n]
    BY <1>1, <2>1 DEF SubmissionsTypeOK
  <2> QED
    BY <1>2, <2>2
<1>7. CASE \/ OtherRevises \/ Handle \/ EditorReconciles \/ BootSync \/ ApplyEvent \/ PassAnswered
           \/ PassApplied \/ PassFails \/ JobStarts \/ JobFound \/ JobConflict \/ RequestFails
  <2>1. calls' = calls
    BY <1>7 DEF OtherRevises, Handle, ServerHandles, EditorReconciles, BootSync, ApplyEvent,
                PassAnswered, PassApplied, PassFails, JobStarts, JobFound, JobConflict, RequestFails
  <2> QED
    BY <1>1, <1>2, <2>1
<1> QED
  BY <1>3, <1>5, <1>6, <1>7 DEF SubmissionsNext, Worker

LEMMA SubmissionsInitHolds == SubmissionsInit => SubmissionsInv
<1> SUFFICES ASSUME SubmissionsInit PROVE SubmissionsInv
  OBVIOUS
<1>1. SubmissionsTypeOK
  BY SubmissionsTypeInit
<1>2. DOMAIN queue = {} /\ Updates = {}
  BY DEF SubmissionsInit, Updates
<1>3. InLine /\ Requested /\ Landed
  BY <1>2 DEF SubmissionsInit, InLine, Waits, WaitsOnce, NoPass, Requested, Landed, NoJob
<1>4. mut.kind = "none" /\ pending = NoPending /\ pending.doc = NoDoc /\ pending.waiters = {}
  BY DEF SubmissionsInit, NoJob, NoPending
<1>5. OneUpdate /\ NewestLast
  BY <1>2, <1>4 DEF OneUpdate, NewestLast, Covered
<1>6. Resolved
  BY DEF SubmissionsInit, Resolved
<1> QED
  BY <1>1, <1>3, <1>5, <1>6 DEF SubmissionsInv

(* SubmissionsInv is inductive.                                            *)
LEMMA SubmissionsInductive ==
    SubmissionsInv /\ [SubmissionsNext]_submissionVars => SubmissionsInv'
<1> SUFFICES ASSUME SubmissionsInv, [SubmissionsNext]_submissionVars PROVE SubmissionsInv'
  OBVIOUS
<1> USE DEF SubmissionsInv
<1>1. CASE SubmissionsNext
  <2>1. SubmissionsTypeOK'
    BY SubmissionsTypeStep
  <2>2. InLine' /\ Requested' /\ Landed' /\ Resolved'
    BY <1>1, LineStep, RequestStep, LandedStep, ResolvedStep
  <2>3. OneUpdate' /\ NewestLast'
    BY <1>1, GroupFrame, GroupSave, GroupApprove, GroupStarts, GroupEnds DEF SubmissionsNext, Worker
  <2> QED
    BY <2>1, <2>2, <2>3
<1>2. CASE UNCHANGED submissionVars
  <2>1. SubmissionsTypeOK'
    BY SubmissionsTypeStep
  <2>2. /\ UNCHANGED <<revisions, wire, events, chain, mut, pending, calls>>
        /\ UNCHANGED <<syncPromise, queue, telling, saves>>
    BY <1>2 DEF submissionVars, service, jobs, passes, page
  <2>3. InLine' /\ Requested' /\ Landed'
    BY <2>2 DEF InLine, Waits, WaitsOnce, Requested, Landed
  <2>4. OneUpdate' /\ NewestLast'
    BY <2>2, GroupKept
  <2>5. Resolved'
    BY <2>2 DEF Resolved, Holds
  <2> QED
    BY <2>1, <2>3, <2>4, <2>5
<1> QED
  BY <1>1, <1>2

(* The server, the requests, the jobs, the passes and the calls keep their *)
(* shape.                                                                  *)
THEOREM SubmissionsTypeCorrect == SubmissionsSpec => []SubmissionsTypeOK
<1>1. SubmissionsInv => SubmissionsTypeOK
  BY DEF SubmissionsInv
<1> QED
  BY <1>1, SubmissionsInitHolds, SubmissionsInductive, PTL DEF SubmissionsSpec

(* update() and approve() resolve with a row that holds the document they  *)
(* were called with or a newer one of this editor, for any number of saves *)
(* and foreign revisions, and whatever requests and workers are lost.      *)
THEOREM NewestIsHeld == SubmissionsSpec => []ResolvedHoldsNewest
<1>1. SubmissionsInv => ResolvedHoldsNewest
  BY DEF SubmissionsInv, Resolved, Holds, ResolvedHoldsNewest
<1> QED
  BY <1>1, SubmissionsInitHolds, SubmissionsInductive, PTL DEF SubmissionsSpec

(* While callers wait for an update, exactly one update job runs or is     *)
(* queued: the loop of update() is neither lost nor doubled.               *)
THEOREM OneUpdateAtATime == SubmissionsSpec => []OneUpdate
<1>1. SubmissionsInv => OneUpdate
  BY DEF SubmissionsInv
<1> QED
  BY <1>1, SubmissionsInitHolds, SubmissionsInductive, PTL DEF SubmissionsSpec
==============================================================================
