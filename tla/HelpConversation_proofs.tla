----------------------- MODULE HelpConversation_proofs -----------------------
(***************************************************************************)
(* What the conversation keeps for every number of identifiers, turns,     *)
(* decisions and mishaps: the shape of its state, the order of its         *)
(* messages, that a cancelled turn is never answered, that a retry is the  *)
(* same run and that approved data is shared under one identifier.         *)
(*                                                                         *)
(* The stored conversation is reasoned about by itself first: Sound(c, e)  *)
(* says what holds of a conversation c beside the identifiers e that were  *)
(* made so far, and there is a lemma for each function that mutate()       *)
(* applies to it.  A step then shows which function it applied, and that   *)
(* what it did to the identifiers only adds to them.                       *)
(***************************************************************************)
EXTENDS HelpConversation, TLAPS

Message  == [role : {"user", "assistant"}, id : 0..MaxIds]
Error    == [id : 0..MaxIds, ask : 0..MaxIds, reuse : BOOLEAN]
Chat     == [messages : Seq(Message), active : 0..MaxIds, running : BOOLEAN,
             error : Error]
Question == [Ids -> 0..MaxIds]

(* The runs that are known to be over for good.                            *)
Dead == {i \in Ids : run[i] = "failed" \/ i \in givenUp}
-----------------------------------------------------------------------------
(* n identifiers were made, qn names their questions, dead are the runs a  *)
(* retry may repeat, and cont the questions that share data.               *)

(* Identifiers are made in order, and questions are named by the first.    *)
Numbered(n, qn) ==
    \A i \in Ids : /\ i <= n => qn[i] \in 1..i
                   /\ n < i => qn[i] = 0

(* No later identifier asks the question of i.                             *)
Latest(i, qn) == \A j \in Ids : qn[j] = qn[i] => j <= i

InOrder(m, n, qn, cont) ==
    \A k \in DOMAIN m :
        /\ m[k].id \in 1..n
        /\ m[k].role = "assistant" =>
             /\ k > 1 /\ m[k - 1] = Bubble(qn[m[k].id])
             /\ \A l \in DOMAIN m : m[l] = m[k] => l = k
        /\ m[k].role = "user" /\ m[k].id \notin cont =>
             \A l \in DOMAIN m : m[l] = m[k] => l = k

(* The question of identifier i is the last thing that was said.           *)
Pending(m, i, n, qn, cont) ==
    /\ i \in 1..n
    /\ m # <<>> /\ Last(m) = Bubble(qn[i])
    /\ qn[i] \notin cont => Latest(i, qn)

Waiting(c, n, qn, cont) ==
    /\ c.running => c.active # 0
    /\ c.active # 0 => c.error.ask = 0 /\ Pending(c.messages, c.active, n, qn, cont)

Failed(c, n, qn, dead, cont) ==
    c.error.ask # 0 =>
        /\ Pending(c.messages, c.error.id, n, qn, cont)
        /\ qn[c.error.id] = c.error.ask
        /\ ~c.error.reuse => c.error.id \in dead

Sound(c, n, qn, dead, cont) ==
    /\ InOrder(c.messages, n, qn, cont)
    /\ Waiting(c, n, qn, cont)
    /\ Failed(c, n, qn, dead, cont)

(* Only the latest identifier of a question may still have a run to go on. *)
Replaced(qn, dead, cont) ==
    \A i, j \in Ids :
        (/\ i < j /\ qn[j] # 0 /\ qn[i] = qn[j]
         /\ i = qn[i] \/ qn[i] \notin cont) => i \in dead
-----------------------------------------------------------------------------
(* Only identifiers that were made have a run.                             *)
Runs == \A i \in Ids : ids < i => run[i] = "none"

Requests ==
    \A t \in Turns : /\ post[t] # "over" => req[t] \in 1..ids
                     /\ post[t] = "failed" => run[req[t]] = "failed"

Polling ==
    /\ poll.id \in 0..ids
    /\ poll.answer # "none" => poll.id # 0
    /\ poll.answer = "failed" => run[poll.id] = "failed"

Cancelling ==
    /\ cancel.id \in 0..ids
    /\ cancel.stage = "asking" \/ cancel.answer # "none" => cancel.id # 0
    /\ cancel.answer = "failed" => run[cancel.id] = "failed"

(* A record of an approval names the question that shared its data.        *)
Recorded(n, qn) ==
    /\ \A r \in Ids : approvals[r].id # 0 =>
          approvals[r].id \in 1..n /\ qn[approvals[r].id] = approvals[r].id
    /\ \A r \in Ids \ forgotten : \A i \in shared[r] : i = approvals[r].id

Resolving(n, qn) ==
    resolve.stage # "none" =>
        /\ resolve.receipt \in Ids
        /\ resolve.id \in 1..n /\ qn[resolve.id] = resolve.id
        /\ resolve.receipt \notin forgotten => approvals[resolve.receipt].id = resolve.id

IInv ==
    /\ TypeOK
    /\ Numbered(ids, question)
    /\ Sound(chat, ids, question, Dead, Continuations)
    /\ Replaced(question, Dead, Continuations)
    /\ Runs /\ Requests /\ Polling /\ Cancelling
    /\ Recorded(ids, question) /\ Resolving(ids, question)
-----------------------------------------------------------------------------
(* The functions of help-chat-state.js keep the shape of the conversation. *)

LEMMA ChatFields ==
    ASSUME NEW c \in Chat
    PROVE  /\ c.messages \in Seq(Message) /\ c.active \in 0..MaxIds
           /\ c.running \in BOOLEAN /\ c.error \in Error
           /\ c.error.id \in 0..MaxIds /\ c.error.ask \in 0..MaxIds
           /\ c.error.reuse \in BOOLEAN
BY DEF Chat, Error

LEMMA BubbleType == \A q \in 0..MaxIds : Bubble(q) \in Message /\ Answer(q) \in Message
BY DEF Bubble, Answer, Message

LEMMA NoErrorType == NoError \in Error /\ EmptyChat \in Chat
BY HelpAssumption DEF NoError, EmptyChat, Error, Chat

(* While the last message is a question, that is the one asked last.       *)
LEMMA LastAskedIsLast ==
    ASSUME NEW m \in Seq(Message), NEW q, m # <<>>, Last(m) = Bubble(q)
    PROVE  LastAsked(m) = q
<1> DEFINE asks == {k \in DOMAIN m : m[k].role = "user"}
<1>1. Len(m) \in Nat /\ Len(m) > 0 /\ DOMAIN m = 1..Len(m)
  OBVIOUS
<1>2. m[Len(m)].role = "user" /\ m[Len(m)].id = q
  BY DEF Last, Bubble
<1>3. Len(m) \in asks /\ \A l \in asks : l <= Len(m)
  BY <1>1, <1>2
<1>4. \A k \in asks : (\A l \in asks : l <= k) => k = Len(m)
  BY <1>1, <1>3
<1>5. (CHOOSE k \in asks : \A l \in asks : l <= k) = Len(m)
  BY <1>3, <1>4
<1> HIDE DEF asks
<1>6. asks # {}
  BY <1>3
<1> QED
  BY <1>2, <1>5, <1>6 DEF LastAsked, asks
-----------------------------------------------------------------------------
(* Lemmas about one conversation.  Waiting(c) is what makes them type.     *)

LEMMA OverTurn ==
    ASSUME NEW m \in Seq(Message), NEW e \in Error
    PROVE  /\ TurnOver(m, e) \in Chat
           /\ TurnOver(m, e).messages = m
           /\ TurnOver(m, e).active = 0
           /\ ~TurnOver(m, e).running
           /\ TurnOver(m, e).error = e
BY HelpAssumption DEF TurnOver, Chat

LEMMA FailedTurn ==
    ASSUME NEW c \in Chat, NEW q \in 0..MaxIds, NEW reuse \in BOOLEAN
    PROVE  /\ FailTurn(c, q, reuse) \in Chat
           /\ FailTurn(c, q, reuse).messages = c.messages
           /\ FailTurn(c, q, reuse).active = 0
           /\ ~FailTurn(c, q, reuse).running
           /\ FailTurn(c, q, reuse).error = [id |-> c.active, ask |-> q, reuse |-> reuse]
<1>1. [id |-> c.active, ask |-> q, reuse |-> reuse] \in Error
  BY ChatFields DEF Error
<1> QED
  BY <1>1, ChatFields, OverTurn DEF FailTurn

LEMMA BegunTurn ==
    ASSUME NEW c \in Chat, NEW i \in 0..MaxIds, NEW q \in 0..MaxIds,
           NEW reuse \in BOOLEAN
    PROVE  /\ BeginTurn(c, i, q, reuse) \in Chat
           /\ BeginTurn(c, i, q, reuse).active = i
           /\ ~BeginTurn(c, i, q, reuse).running
           /\ BeginTurn(c, i, q, reuse).error = NoError
           /\ BeginTurn(c, i, q, reuse).messages =
                IF reuse /\ c.messages # <<>> /\ Last(c.messages) = Bubble(q)
                THEN c.messages ELSE Append(c.messages, Bubble(q))
<1>1. Append(c.messages, Bubble(q)) \in Seq(Message)
  BY ChatFields, BubbleType
<1> QED
  BY <1>1, ChatFields, NoErrorType DEF BeginTurn, Chat

LEMMA LiveTurn ==
    ASSUME NEW c \in Chat, NEW i \in 0..MaxIds
    PROVE  /\ ApplyRun(c, i, "live") \in Chat
           /\ ApplyRun(c, i, "live").messages = c.messages
           /\ ApplyRun(c, i, "live").active = c.active
           /\ ApplyRun(c, i, "live").error = c.error
           /\ c.active = 0 => ApplyRun(c, i, "live") = c
BY DEF ApplyRun, Chat

LEMMA DoneTurn ==
    ASSUME NEW c \in Chat, NEW i \in 0..MaxIds
    PROVE  /\ ApplyRun(c, i, "done") \in Chat
           /\ ApplyRun(c, i, "done").active = 0
           /\ ~ApplyRun(c, i, "done").running
           /\ ApplyRun(c, i, "done").error = NoError
           /\ ApplyRun(c, i, "done").messages =
                IF Answer(i) \in ToSet(c.messages)
                THEN c.messages ELSE Append(c.messages, Answer(i))
<1> DEFINE m == IF Answer(i) \in ToSet(c.messages)
                THEN c.messages ELSE Append(c.messages, Answer(i))
<1>1. m \in Seq(Message)
  BY ChatFields, BubbleType
<1>2. ApplyRun(c, i, "done") = TurnOver(m, NoError)
  BY DEF ApplyRun
<1>3. TurnOver(m, NoError).messages = m
  BY <1>1, NoErrorType, OverTurn
<1>4. m = IF Answer(i) \in ToSet(c.messages)
          THEN c.messages ELSE Append(c.messages, Answer(i))
  OBVIOUS
<1> HIDE DEF m
<1>5. /\ ApplyRun(c, i, "done") \in Chat
      /\ ApplyRun(c, i, "done").active = 0
      /\ ~ApplyRun(c, i, "done").running
      /\ ApplyRun(c, i, "done").error = NoError
  BY <1>1, <1>2, NoErrorType, OverTurn
<1> QED
  BY <1>2, <1>3, <1>4, <1>5

LEMMA CancelledTurn ==
    ASSUME NEW c \in Chat, NEW i \in 0..MaxIds
    PROVE  /\ ApplyRun(c, i, "cancelled") \in Chat
           /\ ApplyRun(c, i, "cancelled").messages = c.messages
           /\ ApplyRun(c, i, "cancelled").active = 0
           /\ ~ApplyRun(c, i, "cancelled").running
           /\ ApplyRun(c, i, "cancelled").error = NoError
<1>1. ApplyRun(c, i, "cancelled") = TurnOver(c.messages, NoError)
  BY DEF ApplyRun
<1> QED
  BY <1>1, ChatFields, NoErrorType, OverTurn

LEMMA FailedRun ==
    ASSUME NEW c, NEW i, NEW status, status \notin {"live", "done", "cancelled"}
    PROVE  ApplyRun(c, i, status) = FailTurn(c, LastAsked(c.messages), FALSE)
BY DEF ApplyRun
-----------------------------------------------------------------------------
(* A turn that fails keeps the question and the identifier of the retry.   *)
LEMMA FailKeepsSound ==
    ASSUME NEW c \in Chat, NEW n \in 0..MaxIds, NEW qn \in Question, NEW dead, NEW cont,
           NEW reuse \in BOOLEAN,
           Sound(c, n, qn, dead, cont), c.active # 0,
           ~reuse => c.active \in dead
    PROVE  /\ LastAsked(c.messages) = qn[c.active]
           /\ FailTurn(c, qn[c.active], reuse) \in Chat
           /\ Sound(FailTurn(c, qn[c.active], reuse), n, qn, dead, cont)
<1> DEFINE q == qn[c.active]
           d == FailTurn(c, q, reuse)
<1>1. Pending(c.messages, c.active, n, qn, cont)
  BY DEF Sound, Waiting
<1>2. q \in 0..MaxIds /\ c.active \in 0..MaxIds
  BY ChatFields, <1>1, HelpAssumption DEF Question, Pending, Ids
<1>3. LastAsked(c.messages) = q
  BY ChatFields, <1>1, LastAskedIsLast DEF Pending
<1>4. /\ d \in Chat /\ d.messages = c.messages /\ d.active = 0 /\ ~d.running
      /\ d.error = [id |-> c.active, ask |-> q, reuse |-> reuse]
  BY <1>2, FailedTurn
<1> HIDE DEF d
<1>5. d.error.id = c.active /\ d.error.ask = q /\ d.error.reuse = reuse
  BY <1>4
<1>6. Sound(d, n, qn, dead, cont)
  BY <1>1, <1>4, <1>5 DEF Sound, Waiting, Failed
<1> QED
  BY <1>3, <1>4, <1>6 DEF d

(* The answer goes right behind the question it answers, once.             *)
LEMMA DoneKeepsSound ==
    ASSUME NEW c \in Chat, NEW n \in 0..MaxIds, NEW qn \in Question, NEW dead, NEW cont,
           Sound(c, n, qn, dead, cont), c.active # 0
    PROVE  Sound(ApplyRun(c, c.active, "done"), n, qn, dead, cont)
<1> DEFINE d == ApplyRun(c, c.active, "done")
           m == c.messages
           i == c.active
<1>1. i \in 0..MaxIds /\ m \in Seq(Message)
  BY ChatFields
<1>2. /\ d.active = 0 /\ ~d.running /\ d.error = NoError
      /\ d.messages = IF Answer(i) \in ToSet(m) THEN m ELSE Append(m, Answer(i))
  BY <1>1, DoneTurn
<1>3. Pending(m, i, n, qn, cont) /\ InOrder(m, n, qn, cont)
  BY DEF Sound, Waiting
<1> HIDE DEF d, m, i
<1>4. InOrder(d.messages, n, qn, cont)
  <2>1. CASE Answer(i) \in ToSet(m)
    BY <2>1, <1>2, <1>3
  <2>2. CASE Answer(i) \notin ToSet(m)
    <3> DEFINE w == Append(m, Answer(i))
    <3>1. /\ Len(m) \in Nat /\ Len(m) > 0 /\ DOMAIN m = 1..Len(m)
          /\ w \in Seq(Message) /\ DOMAIN w = 1..(Len(m) + 1)
          /\ w[Len(m) + 1] = Answer(i)
          /\ \A k \in 1..Len(m) : w[k] = m[k]
      BY <1>1, <1>3, BubbleType DEF Pending
    <3>5. d.messages = w
      BY <1>2, <2>2
    <3> HIDE DEF w
    <3>2. \A k \in 1..Len(m) : w[k] # Answer(i)
      BY <2>2, <3>1 DEF ToSet
    <3>3. w[Len(m)] = Bubble(qn[i])
      <4>1. Last(m) = m[Len(m)] /\ Last(m) = Bubble(qn[i])
        BY <1>3 DEF Last, Pending
      <4>2. w[Len(m)] = m[Len(m)]
        BY <3>1
      <4> QED
        BY <4>1, <4>2
    <3>4. Answer(i).id = i /\ Answer(i).role = "assistant"
      BY DEF Answer
    <3> SUFFICES ASSUME NEW k \in DOMAIN w
                 PROVE  /\ w[k].id \in 1..n
                        /\ w[k].role = "assistant" =>
                             /\ k > 1 /\ w[k - 1] = Bubble(qn[w[k].id])
                             /\ \A l \in DOMAIN w : w[l] = w[k] => l = k
                        /\ w[k].role = "user" /\ w[k].id \notin cont =>
                             \A l \in DOMAIN w : w[l] = w[k] => l = k
      BY <3>5 DEF InOrder
    <3>6. CASE k = Len(m) + 1
      BY <3>6, <3>1, <3>2, <3>3, <3>4, <1>3 DEF Pending
    <3>7. CASE k \in 1..Len(m)
      <4>1. k \in DOMAIN m /\ w[k] = m[k]
        BY <3>7, <3>1
      <4>2. k > 1 => k - 1 \in 1..Len(m) /\ w[k - 1] = m[k - 1]
        BY <3>7, <3>1
      <4>3. \A l \in DOMAIN w : w[l] = w[k] => l \in DOMAIN m /\ m[l] = m[k]
        BY <3>7, <3>1, <3>2
      <4> QED
        BY <4>1, <4>2, <4>3, <1>3 DEF InOrder
    <3> QED
      BY <3>1, <3>6, <3>7
  <2> QED
    BY <2>1, <2>2
<1> QED
  BY <1>2, <1>4 DEF Sound, Waiting, Failed, NoError, d, i

(* Whatever the service answers about the active run.                      *)
LEMMA ApplyKeepsSound ==
    ASSUME NEW c \in Chat, NEW n \in 0..MaxIds, NEW qn \in Question, NEW dead, NEW cont,
           NEW status, Sound(c, n, qn, dead, cont), c.active # 0,
           status \notin {"live", "done", "cancelled"} => c.active \in dead
    PROVE  /\ ApplyRun(c, c.active, status) \in Chat
           /\ Sound(ApplyRun(c, c.active, status), n, qn, dead, cont)
<1>1. c.active \in 0..MaxIds
  BY ChatFields
<1>2. CASE status = "live"
  BY <1>1, <1>2, LiveTurn DEF Sound, Waiting, Failed
<1>3. CASE status = "done"
  BY <1>1, <1>3, DoneTurn, DoneKeepsSound
<1>4. CASE status = "cancelled"
  BY <1>1, <1>4, CancelledTurn DEF Sound, Waiting, Failed, NoError
<1>5. CASE status \notin {"live", "done", "cancelled"}
  <2>1. /\ LastAsked(c.messages) = qn[c.active]
        /\ FailTurn(c, qn[c.active], FALSE) \in Chat
        /\ Sound(FailTurn(c, qn[c.active], FALSE), n, qn, dead, cont)
    BY <1>5, FailKeepsSound
  <2>2. ApplyRun(c, c.active, status) = FailTurn(c, LastAsked(c.messages), FALSE)
    BY <1>5, FailedRun
  <2> QED
    BY <2>1, <2>2
<1> QED
  BY <1>2, <1>3, <1>4, <1>5

LEMMA DropKeepsSound ==
    ASSUME NEW c \in Chat, NEW n, NEW qn, NEW dead, NEW cont,
           Sound(c, n, qn, dead, cont)
    PROVE  Sound(ApplyRun(c, 0, "cancelled"), n, qn, dead, cont)
<1>1. 0 \in 0..MaxIds
  BY HelpAssumption
<1> QED
  BY <1>1, CancelledTurn DEF Sound, Waiting, Failed, NoError

(* A turn begins with its question said last.  It is said a second time    *)
(* only if it shares data.                                                 *)
LEMMA BeginKeepsSound ==
    ASSUME NEW c \in Chat, NEW n \in 0..MaxIds, NEW qn \in Question, NEW dead, NEW cont,
           NEW i \in 1..n, NEW q \in 1..n, NEW reuse \in BOOLEAN,
           InOrder(c.messages, n, qn, cont), qn[i] = q,
           q \notin cont => Latest(i, qn),
           \/ q \in cont
           \/ reuse /\ c.messages # <<>> /\ Last(c.messages) = Bubble(q)
           \/ Bubble(q) \notin ToSet(c.messages)
    PROVE  /\ BeginTurn(c, i, q, reuse) \in Chat
           /\ Sound(BeginTurn(c, i, q, reuse), n, qn, dead, cont)
<1> DEFINE d == BeginTurn(c, i, q, reuse)
           m == c.messages
           again == reuse /\ m # <<>> /\ Last(m) = Bubble(q)
           w == Append(m, Bubble(q))
<1>1. i \in 0..MaxIds /\ q \in 0..MaxIds /\ m \in Seq(Message)
  BY HelpAssumption, ChatFields
<1>2. d \in Chat /\ d.active = i /\ ~d.running /\ d.error = NoError
  BY <1>1, BegunTurn
<1>3. /\ again => d.messages = m
      /\ ~again => d.messages = w
  <2>1. d.messages = IF again THEN m ELSE w
    BY <1>1, BegunTurn
  <2> HIDE DEF d, m, again, w
  <2> QED
    BY <2>1
<1>4. Bubble(q).role = "user" /\ Bubble(q).id = q
  BY DEF Bubble
<1>5. /\ Len(m) \in Nat /\ DOMAIN m = 1..Len(m)
      /\ Len(w) = Len(m) + 1 /\ DOMAIN w = 1..(Len(m) + 1) /\ w # <<>>
      /\ w[Len(m) + 1] = Bubble(q)
      /\ \A k \in 1..Len(m) : w[k] = m[k]
  BY <1>1, BubbleType
<1>6. ~again /\ q \notin cont => \A k \in 1..Len(m) : m[k] # Bubble(q)
  BY <1>5 DEF ToSet
<1>7. InOrder(m, n, qn, cont)
  OBVIOUS
<1> HIDE DEF d, m, w
<1>8. d.messages # <<>> /\ Last(d.messages) = Bubble(q)
  <2>1. CASE again
    BY <2>1, <1>3
  <2>2. CASE ~again
    <3>1. Last(w) = w[Len(w)]
      BY DEF Last
    <3> QED
      BY <2>2, <3>1, <1>3, <1>5
  <2> QED
    BY <2>1, <2>2
<1>9. InOrder(d.messages, n, qn, cont)
  <2>1. CASE again
    BY <2>1, <1>3, <1>7
  <2>2. CASE ~again
    <3> HIDE DEF again
    <3> SUFFICES ASSUME NEW k \in DOMAIN w
                 PROVE  /\ w[k].id \in 1..n
                        /\ w[k].role = "assistant" =>
                             /\ k > 1 /\ w[k - 1] = Bubble(qn[w[k].id])
                             /\ \A l \in DOMAIN w : w[l] = w[k] => l = k
                        /\ w[k].role = "user" /\ w[k].id \notin cont =>
                             \A l \in DOMAIN w : w[l] = w[k] => l = k
      BY <2>2, <1>3 DEF InOrder
    <3>1. CASE k = Len(m) + 1
      BY <3>1, <2>2, <1>4, <1>5, <1>6
    <3>2. CASE k \in 1..Len(m)
      <4>1. k \in DOMAIN m /\ w[k] = m[k]
        BY <3>2, <1>5
      <4>2. k > 1 => k - 1 \in 1..Len(m) /\ w[k - 1] = m[k - 1]
        BY <3>2, <1>5
      <4>3. \A l \in DOMAIN w : w[l] = w[k] =>
               (l \in DOMAIN m /\ m[l] = m[k]) \/ m[k] = Bubble(q)
        BY <4>1, <1>5
      <4>4. m[k] = Bubble(q) => m[k].role = "user" /\ m[k].id \in cont
        BY <3>2, <2>2, <1>4, <1>6
      <4> QED
        BY <4>1, <4>2, <4>3, <4>4, <1>7 DEF InOrder
    <3> QED
      BY <3>1, <3>2, <1>5
  <2> QED
    BY <2>1, <2>2
<1> QED
  BY <1>2, <1>8, <1>9 DEF Sound, Waiting, Failed, Pending, NoError, d
-----------------------------------------------------------------------------
(* What a step does to the identifiers only adds to them.                  *)
Adds(n, qn, n2, qn2) == n <= n2 /\ \A i \in 1..n : qn2[i] = qn[i]

(* A new identifier that is no retry names a question of its own.          *)
NoRetry(n, qn, n2, qn2) ==
    /\ Adds(n, qn, n2, qn2)
    /\ \A i \in Ids : n < i /\ i <= n2 => qn2[i] = i

LEMMA OrderGrows ==
    ASSUME NEW m, NEW n \in 0..MaxIds, NEW n2 \in 0..MaxIds, NEW qn, NEW qn2,
           NEW cont, NEW cont2, cont \subseteq cont2,
           InOrder(m, n, qn, cont), Adds(n, qn, n2, qn2)
    PROVE  InOrder(m, n2, qn2, cont2)
BY HelpAssumption DEF InOrder, Adds

LEMMA LatestGrows ==
    ASSUME NEW n \in 0..MaxIds, NEW n2 \in 0..MaxIds, NEW qn \in Question,
           NEW qn2 \in Question, Numbered(n, qn), Numbered(n2, qn2),
           NoRetry(n, qn, n2, qn2), NEW i \in 1..n, Latest(i, qn)
    PROVE  Latest(i, qn2)
<1> SUFFICES ASSUME NEW j \in Ids, qn2[j] = qn2[i]
             PROVE  j <= i
  BY DEF Latest
<1>1. i \in Ids /\ qn2[i] = qn[i] /\ qn[i] \in 1..i /\ i \in Nat /\ j \in Nat /\ n \in Nat /\ n2 \in Nat
  BY HelpAssumption DEF Ids, Numbered, NoRetry, Adds
<1>2. CASE j <= n
  BY <1>1, <1>2, HelpAssumption DEF Latest, NoRetry, Adds, Ids
<1>3. CASE n < j /\ j <= n2
  BY <1>1, <1>3, HelpAssumption DEF NoRetry
<1>4. CASE n2 < j
  BY <1>1, <1>4, HelpAssumption DEF Numbered
<1> QED
  BY <1>1, <1>2, <1>3, <1>4

LEMMA SoundGrows ==
    ASSUME NEW c \in Chat, NEW n \in 0..MaxIds, NEW n2 \in 0..MaxIds, NEW qn \in Question,
           NEW qn2 \in Question, NEW dead, NEW dead2, NEW cont, NEW cont2,
           cont \subseteq cont2, dead \subseteq dead2,
           Numbered(n, qn), Numbered(n2, qn2), NoRetry(n, qn, n2, qn2),
           Sound(c, n, qn, dead, cont)
    PROVE  Sound(c, n2, qn2, dead2, cont2)
<1>1. InOrder(c.messages, n2, qn2, cont2)
  BY OrderGrows DEF Sound, NoRetry
<1>2. \A i \in 0..MaxIds : Pending(c.messages, i, n, qn, cont)
                            => Pending(c.messages, i, n2, qn2, cont2) /\ qn2[i] = qn[i]
  <2> SUFFICES ASSUME NEW i \in 0..MaxIds, Pending(c.messages, i, n, qn, cont)
               PROVE  Pending(c.messages, i, n2, qn2, cont2) /\ qn2[i] = qn[i]
    OBVIOUS
  <2>1. i \in 1..n /\ i \in 1..n2 /\ qn2[i] = qn[i]
    BY DEF Pending, NoRetry, Adds
  <2>2. qn[i] \notin cont => Latest(i, qn2)
    BY <2>1, LatestGrows DEF Pending
  <2> QED
    BY <2>1, <2>2 DEF Pending
<1> QED
  BY <1>1, <1>2, ChatFields DEF Sound, Waiting, Failed

LEMMA ReplacedGrows ==
    ASSUME NEW n \in 0..MaxIds, NEW n2 \in 0..MaxIds, NEW qn \in Question,
           NEW qn2 \in Question, NEW dead, NEW dead2, NEW cont, NEW cont2,
           cont \subseteq cont2, dead \subseteq dead2,
           Numbered(n, qn), Numbered(n2, qn2), NoRetry(n, qn, n2, qn2),
           Replaced(qn, dead, cont)
    PROVE  Replaced(qn2, dead2, cont2)
<1> SUFFICES ASSUME NEW i \in Ids, NEW j \in Ids, i < j, qn2[j] # 0, qn2[i] = qn2[j],
                    i = qn2[i] \/ qn2[i] \notin cont2
             PROVE  i \in dead2
  BY DEF Replaced
<1>1. i \in Nat /\ j \in Nat /\ n \in Nat /\ n2 \in Nat /\ j <= n2
  BY HelpAssumption DEF Ids, Numbered
<1>2. i \in 1..i /\ qn2[i] \in 1..i
  BY <1>1 DEF Numbered, Ids
<1>3. CASE j <= n
  BY <1>1, <1>3 DEF Replaced, NoRetry, Adds, Ids
<1>4. CASE n < j
  BY <1>1, <1>2, <1>4 DEF NoRetry
<1> QED
  BY <1>1, <1>3, <1>4
-----------------------------------------------------------------------------
Types ==
    /\ chat \in Chat
    /\ ids \in 0..MaxIds /\ question \in Question
    /\ run \in [Ids -> {"none"} \cup Status]
    /\ req \in [Turns -> 0..MaxIds] /\ turns \in 0..MaxTurns
    /\ post \in [Turns -> {"sent", "orphan", "error", "over"} \cup Status]
    /\ shared \in [Ids -> SUBSET Ids]
    /\ approvals \in [Ids -> [status : {"none", "pending", "submitted", "denied", "failed"},
                              id : 0..MaxIds]]
    /\ poll \in [id : 0..MaxIds, answer : {"none", "refused", "broken"} \cup Status]
    /\ cancel \in [stage : {"none", "asking", "dropping"}, id : 0..MaxIds,
                   answer : {"none"} \cup Status]
    /\ resolve \in [stage : {"none", "new", "again", "sending", "submitted", "failed"},
                    receipt : 0..MaxIds, id : 0..MaxIds, turn : 0..MaxTurns]

LEMMA TypesHold == TypeOK => Types
BY DEF TypeOK, Types, Chat, Message, Error, Question

(* A run that failed stays failed, whatever arrives at the service.        *)
RunsKept == \A i \in Ids : run[i] = "failed" => run'[i] = "failed"

Further ==
    /\ Adds(ids, question, ids', question')
    /\ Numbered(ids', question')
    /\ ids' \in 0..MaxIds /\ question' \in Question

LEMMA NextCases ==
    ASSUME Next
    PROVE  \/ Ask
           \/ Retry
           \/ \E t \in Turns : PostTaken(t)
           \/ \E t \in Turns : PostRefused(t)
           \/ \E t \in Turns : OrphanTaken(t)
           \/ \E t \in Turns : SendApplies(t)
           \/ \E t \in Turns : SendUnsaved(t)
           \/ \E t \in Turns : SendFails(t)
           \/ \E i \in Ids : RunEnds(i)
           \/ \E i \in Ids : Deny(i)
           \/ \E i \in Ids : Allow(i)
           \/ AlarmFires
           \/ PollAnswered
           \/ PollApplies
           \/ PollGivesUp
           \/ PollBacksOff
           \/ ResumeRuns
           \/ ResumeFindsOld
           \/ ResumeFails
           \/ CancelBegins
           \/ CancelDrops
           \/ CancelTaken
           \/ CancelApplies
           \/ AllowSends
           \/ AllowEnds
           \/ Clear
           \/ ClearEnds
           \/ Kill
<1>1. CASE \E t \in Turns : PostTaken(t) \/ PostRefused(t) \/ OrphanTaken(t)
                           \/ SendApplies(t) \/ SendUnsaved(t) \/ SendFails(t)
  BY <1>1
<1>2. CASE \E i \in Ids : RunEnds(i) \/ Deny(i) \/ Allow(i)
  BY <1>2
<1> QED
  BY <1>1, <1>2 DEF Next

LEMMA FurtherStep ==
    ASSUME IInv, Next
    PROVE  Further
<1> USE HelpAssumption
<1>0. Types /\ Numbered(ids, question)
  BY TypesHold DEF IInv
<1>1. CASE Ask
  <2>1. /\ ids' = ids + 1 /\ ids + 1 \in Ids
        /\ question' = [question EXCEPT ![ids + 1] = ids + 1]
    BY <1>1, <1>0 DEF Ask, Send, Types, Ids
  <2> QED
    BY <2>1, <1>0 DEF Types, Further, Adds, Numbered, Question, Ids
<1>2. CASE Retry
  <2>1. /\ chat.error.id \in 1..ids /\ question[chat.error.id] = chat.error.ask
        /\ chat.error.ask \in 1..chat.error.id
    <3>1. chat.error.ask # 0
      BY <1>2 DEF Retry
    <3>2. Failed(chat, ids, question, Dead, Continuations)
      BY DEF IInv, Sound
    <3>3. chat.error.id \in 1..ids /\ question[chat.error.id] = chat.error.ask
      BY <3>1, <3>2 DEF Failed, Pending
    <3>4. ids \in 0..MaxIds /\ chat.error.id \in Ids
      BY <3>3, <1>0 DEF Types, Ids
    <3> QED
      BY <3>3, <3>4, <1>0 DEF Numbered
  <2>2. CASE chat.error.reuse
    <3>1. ids' = ids /\ question' = [question EXCEPT ![chat.error.id] = chat.error.ask]
      BY <1>2, <2>2 DEF Retry, Send
    <3>2. question \in Question /\ ids \in 0..MaxIds /\ Numbered(ids, question)
      BY <1>0 DEF Types
    <3>3. question' = question
      BY <2>1, <3>1, <3>2 DEF Question, Ids
    <3> QED
      BY <3>1, <3>2, <3>3 DEF Further, Adds
  <2>3. CASE ~chat.error.reuse
    <3>1. /\ ids' = ids + 1 /\ ids + 1 \in Ids
          /\ question' = [question EXCEPT ![ids + 1] = chat.error.ask]
      BY <1>2, <2>3, <1>0 DEF Retry, Send, Types, Ids
    <3>2. /\ chat.error.ask \in 1..(ids + 1) /\ chat.error.ask \in 0..MaxIds
          /\ ids \in Nat /\ MaxIds \in Nat
      BY <2>1, <1>0 DEF Types
    <3>3. question' \in Question /\ ids' \in 0..MaxIds
      BY <3>1, <3>2, <1>0 DEF Types, Question, Ids
    <3>4. \A i \in Ids : question'[i] = IF i = ids + 1 THEN chat.error.ask ELSE question[i]
      BY <3>1, <1>0 DEF Types, Question
    <3>5. Numbered(ids', question')
      BY <3>1, <3>2, <3>4, <1>0 DEF Numbered, Ids
    <3>6. Adds(ids, question, ids', question')
      BY <3>1, <3>2, <3>4, <1>0 DEF Adds, Ids, Types
    <3> QED
      BY <3>3, <3>5, <3>6 DEF Further
  <2> QED
    BY <2>2, <2>3
<1>3. CASE \E i \in Ids : Allow(i)
  <2> PICK r \in Ids : Allow(r)
    BY <1>3
  <2>1. CASE approvals[r].id # 0
    BY <2>1, <1>0 DEF Allow, Types, Further, Adds
  <2>2. CASE approvals[r].id = 0
    <3>1. /\ ids' = ids + 1 /\ ids + 1 \in Ids
          /\ question' = [question EXCEPT ![ids + 1] = ids + 1]
      BY <2>2, <1>0 DEF Allow, Types, Ids
    <3> QED
      BY <3>1, <1>0 DEF Types, Further, Adds, Numbered, Question, Ids
  <2> QED
    BY <2>1, <2>2
<1>4. CASE AllowSends
  <2>1. ids' = ids
    BY <1>4 DEF AllowSends
  <2>2. \/ question' = question
        \/ question' = [question EXCEPT ![resolve.id] = question[resolve.id]]
    BY <1>4 DEF AllowSends, Send
  <2>3. question' = question
    BY <2>2, <1>0 DEF Types, Question
  <2> QED
    BY <2>1, <2>3, <1>0 DEF Types, Further, Adds
<1>5. CASE \/ \E t \in Turns : PostTaken(t)
           \/ \E t \in Turns : PostRefused(t)
           \/ \E t \in Turns : OrphanTaken(t)
           \/ \E t \in Turns : SendApplies(t)
           \/ \E t \in Turns : SendUnsaved(t)
           \/ \E t \in Turns : SendFails(t)
           \/ \E i \in Ids : RunEnds(i)
           \/ \E i \in Ids : Deny(i)
           \/ AlarmFires
           \/ PollAnswered
           \/ PollApplies
           \/ PollGivesUp
           \/ PollBacksOff
           \/ ResumeRuns
           \/ ResumeFindsOld
           \/ ResumeFails
           \/ CancelBegins
           \/ CancelDrops
           \/ CancelTaken
           \/ CancelApplies
           \/ AllowEnds
           \/ Clear
           \/ ClearEnds
           \/ Kill
  <2>1. UNCHANGED <<ids, question>>
    BY <1>5 DEF asked, PostTaken, PostRefused, OrphanTaken, SendApplies,
                SendUnsaved, SendFails, RunEnds, Deny, AlarmFires, PollAnswered,
                PollApplies, PollGivesUp, PollBacksOff, ResumeRuns,
                ResumeFindsOld, ResumeFails, CancelBegins, CancelDrops,
                CancelTaken, CancelApplies, AllowEnds, Clear, ClearEnds, Kill
  <2> QED
    BY <2>1, <1>0 DEF Types, Further, Adds
<1> QED
  BY <1>1, <1>2, <1>3, <1>4, <1>5, NextCases

LEMMA RunsStep ==
    ASSUME IInv, Next
    PROVE  RunsKept
<1>0. Types
  BY TypesHold DEF IInv
<1>1. CASE \/ \E t \in Turns : PostTaken(t)
           \/ \E t \in Turns : OrphanTaken(t)
  BY <1>1, <1>0 DEF PostTaken, OrphanTaken, Started, RunsKept, Types
<1>2. CASE \E i \in Ids : RunEnds(i)
  BY <1>2, <1>0 DEF RunEnds, RunsKept, Types
<1>3. CASE CancelTaken
  BY <1>3, <1>0 DEF CancelTaken, RunsKept, Types
<1>4. CASE \/ Ask
           \/ Retry
           \/ \E t \in Turns : PostRefused(t)
           \/ \E t \in Turns : SendApplies(t)
           \/ \E t \in Turns : SendUnsaved(t)
           \/ \E t \in Turns : SendFails(t)
           \/ \E i \in Ids : Deny(i)
           \/ \E i \in Ids : Allow(i)
           \/ AlarmFires
           \/ PollAnswered
           \/ PollApplies
           \/ PollGivesUp
           \/ PollBacksOff
           \/ ResumeRuns
           \/ ResumeFindsOld
           \/ ResumeFails
           \/ CancelBegins
           \/ CancelDrops
           \/ CancelApplies
           \/ AllowSends
           \/ AllowEnds
           \/ Clear
           \/ ClearEnds
           \/ Kill
  <2>1. run' = run
    BY <1>4 DEF Ask, Retry, PostRefused, SendApplies, SendUnsaved, SendFails,
                Deny, Allow, AlarmFires, PollAnswered, PollApplies, PollGivesUp,
                PollBacksOff, ResumeRuns, ResumeFindsOld, ResumeFails,
                CancelBegins, CancelDrops, CancelApplies, AllowSends, AllowEnds,
                Clear, ClearEnds, Kill
  <2> QED
    BY <2>1 DEF RunsKept
<1> QED
  BY <1>1, <1>2, <1>3, <1>4, NextCases

LEMMA HistoryStep ==
    ASSUME IInv, Next
    PROVE  /\ Dead \subseteq Dead' /\ Continuations \subseteq Continuations'
           /\ givenUp \subseteq givenUp'
<1>1. givenUp \subseteq givenUp'
  BY DEF Next, history, Ask, Retry, PostTaken, PostRefused, OrphanTaken,
         SendApplies, SendUnsaved, SendFails, RunEnds, Deny, Allow, AlarmFires,
         PollAnswered, PollApplies, PollGivesUp, PollBacksOff, ResumeRuns,
         ResumeFindsOld, ResumeFails, CancelBegins, CancelDrops, CancelTaken,
         CancelApplies, AllowSends, AllowEnds, Clear, ClearEnds, Kill
<1>2. Dead \subseteq Dead'
  BY <1>1, RunsStep DEF RunsKept, Dead
<1>3. CASE shared' = shared
  BY <1>1, <1>2, <1>3 DEF Continuations
<1>4. CASE AllowSends /\ shared' # shared
  <2>1. shared' = [shared EXCEPT ![resolve.receipt] = @ \cup {resolve.id}]
    BY <1>4 DEF AllowSends
  <2>2. \A r \in Ids : shared[r] \subseteq shared'[r]
    BY <2>1, TypesHold DEF IInv, Types
  <2> QED
    BY <1>1, <1>2, <2>2 DEF Continuations
<1>5. AllowSends \/ shared' = shared
  BY DEF Next, history, Ask, Retry, PostTaken, PostRefused, OrphanTaken,
         SendApplies, SendUnsaved, SendFails, RunEnds, Deny, Allow, AlarmFires,
         PollAnswered, PollApplies, PollGivesUp, PollBacksOff, ResumeRuns,
         ResumeFindsOld, ResumeFails, CancelBegins, CancelDrops, CancelTaken,
         CancelApplies, AllowEnds, Clear, ClearEnds, Kill
<1> QED
  BY <1>3, <1>4, <1>5
-----------------------------------------------------------------------------
(* Where a turn's request, a poll and a cancel stand.                      *)

LEMMA RequestsStep ==
    ASSUME IInv, Next
    PROVE  Requests'
<1>0. /\ Types /\ Requests /\ Further /\ RunsKept
      /\ ids \in Nat /\ ids' \in Nat
  BY TypesHold, FurtherStep, RunsStep, HelpAssumption DEF IInv, Types, Further
<1>a. ASSUME NEW id \in 1..ids', NEW q, NEW retry, Send(id, q, retry), run' = run
      PROVE  Requests'
  <2>1. /\ turns + 1 \in Turns
        /\ req' = [req EXCEPT ![turns + 1] = id]
        /\ post' = [post EXCEPT ![turns + 1] = "sent"]
    BY <1>a, <1>0, HelpAssumption DEF Send, Types, Turns
  <2> QED
    BY <1>a, <2>1, <1>0 DEF Requests, Types, Further, Adds
<1>1. CASE Ask
  <2>1. Send(ids + 1, ids + 1, FALSE) /\ run' = run /\ ids' = ids + 1
    BY <1>1 DEF Ask
  <2>2. ids + 1 \in 1..ids'
    BY <2>1, <1>0
  <2> QED
    BY <2>1, <2>2, <1>a
<1>2. CASE Retry
  <2>1. chat.error.id \in 1..ids
    BY <1>2 DEF Retry, IInv, Sound, Failed, Pending
  <2>2. CASE chat.error.reuse
    <3>1. chat.error.id \in 1..ids' /\ Send(chat.error.id, chat.error.ask, TRUE) /\ run' = run
      BY <1>2, <2>1, <2>2 DEF Retry
    <3> QED
      BY <3>1, <1>a
  <2>3. CASE ~chat.error.reuse
    <3>1. Send(ids + 1, chat.error.ask, TRUE) /\ run' = run /\ ids' = ids + 1
      BY <1>2, <2>3 DEF Retry
    <3>2. ids + 1 \in 1..ids'
      BY <3>1, <1>0
    <3> QED
      BY <3>1, <3>2, <1>a
  <2> QED
    BY <2>2, <2>3
<1>3. CASE AllowSends
  <2>1. resolve.id \in 1..ids'
    BY <1>3 DEF AllowSends, IInv, Resolving
  <2>2. CASE Send(resolve.id, question[resolve.id], resolve.stage = "again")
    <3>1. run' = run
      BY <1>3 DEF AllowSends
    <3> QED
      BY <2>1, <2>2, <3>1, <1>a
  <2>3. CASE UNCHANGED <<req, post>>
    BY <2>3, <1>0 DEF Requests, Further, Adds, RunsKept, Types, Ids
  <2> QED
    BY <1>3, <2>2, <2>3 DEF AllowSends
<1>4. CASE \E t \in Turns : PostTaken(t)
  <2> PICK t \in Turns : PostTaken(t)
    BY <1>4
  <2>1. req' = req /\ ids' = ids
    BY DEF PostTaken, asked
  <2>2. \A u \in Turns : u # t => post'[u] = post[u]
    BY <1>0 DEF PostTaken, Types
  <2>3. /\ post'[t] # "over" => post[t] # "over"
        /\ post'[t] = "failed" => run'[req[t]] = "failed"
    BY <1>0 DEF PostTaken, Types, Status, Ended
  <2> QED
    BY <2>1, <2>2, <2>3, <1>0 DEF Requests, RunsKept, Types, Ids
<1>5. CASE \E t \in Turns : PostRefused(t)
  <2> PICK t \in Turns : PostRefused(t)
    BY <1>5
  <2>1. req' = req /\ ids' = ids
    BY DEF PostRefused, asked
  <2>2. \A u \in Turns : u # t => post'[u] = post[u]
    BY <1>0 DEF PostRefused, Types
  <2>3. /\ post'[t] # "over" => post[t] # "over"
        /\ post'[t] = "failed" => run'[req[t]] = "failed"
    BY <1>0 DEF PostRefused, Types, Status, Ended
  <2> QED
    BY <2>1, <2>2, <2>3, <1>0 DEF Requests, RunsKept, Types, Ids
<1>6. CASE \E t \in Turns : OrphanTaken(t)
  <2> PICK t \in Turns : OrphanTaken(t)
    BY <1>6
  <2>1. req' = req /\ ids' = ids
    BY DEF OrphanTaken, asked
  <2>2. \A u \in Turns : u # t => post'[u] = post[u]
    BY <1>0 DEF OrphanTaken, Types
  <2>3. /\ post'[t] # "over" => post[t] # "over"
        /\ post'[t] = "failed" => run'[req[t]] = "failed"
    BY <1>0 DEF OrphanTaken, Types, Status, Ended
  <2> QED
    BY <2>1, <2>2, <2>3, <1>0 DEF Requests, RunsKept, Types, Ids
<1>7. CASE \E t \in Turns : SendApplies(t)
  <2> PICK t \in Turns : SendApplies(t)
    BY <1>7
  <2>1. req' = req /\ ids' = ids
    BY DEF SendApplies, asked
  <2>2. \A u \in Turns : u # t => post'[u] = post[u]
    BY <1>0 DEF SendApplies, Types
  <2>3. /\ post'[t] # "over" => post[t] # "over"
        /\ post'[t] = "failed" => run'[req[t]] = "failed"
    BY <1>0 DEF SendApplies, Types, Status, Ended
  <2> QED
    BY <2>1, <2>2, <2>3, <1>0 DEF Requests, RunsKept, Types, Ids
<1>8. CASE \E t \in Turns : SendUnsaved(t)
  <2> PICK t \in Turns : SendUnsaved(t)
    BY <1>8
  <2>1. req' = req /\ ids' = ids
    BY DEF SendUnsaved, asked
  <2>2. \A u \in Turns : u # t => post'[u] = post[u]
    BY <1>0 DEF SendUnsaved, Types
  <2>3. /\ post'[t] # "over" => post[t] # "over"
        /\ post'[t] = "failed" => run'[req[t]] = "failed"
    BY <1>0 DEF SendUnsaved, Types, Status, Ended
  <2> QED
    BY <2>1, <2>2, <2>3, <1>0 DEF Requests, RunsKept, Types, Ids
<1>9. CASE \E t \in Turns : SendFails(t)
  <2> PICK t \in Turns : SendFails(t)
    BY <1>9
  <2>1. req' = req /\ ids' = ids
    BY DEF SendFails, asked
  <2>2. \A u \in Turns : u # t => post'[u] = post[u]
    BY <1>0 DEF SendFails, Types
  <2>3. /\ post'[t] # "over" => post[t] # "over"
        /\ post'[t] = "failed" => run'[req[t]] = "failed"
    BY <1>0 DEF SendFails, Types, Status, Ended
  <2> QED
    BY <2>1, <2>2, <2>3, <1>0 DEF Requests, RunsKept, Types, Ids
<1>10. CASE Kill
  <2>1. /\ req' = req /\ ids' = ids /\ run' = run
        /\ \A t \in Turns : post'[t] \in {"orphan", "over"}
                            /\ (post'[t] = "orphan" => post[t] # "over")
    BY <1>10, <1>0 DEF Kill, asked
  <2> QED
    BY <2>1, <1>0 DEF Requests
<1>11. CASE \/ \E i \in Ids : RunEnds(i)
            \/ \E i \in Ids : Deny(i)
            \/ \E i \in Ids : Allow(i)
            \/ AlarmFires
            \/ PollAnswered
            \/ PollApplies
            \/ PollGivesUp
            \/ PollBacksOff
            \/ ResumeRuns
            \/ ResumeFindsOld
            \/ ResumeFails
            \/ CancelBegins
            \/ CancelDrops
            \/ CancelTaken
            \/ CancelApplies
            \/ AllowEnds
            \/ Clear
            \/ ClearEnds
  <2>1. UNCHANGED <<req, post>>
    BY <1>11 DEF asked, calls, RunEnds, Deny, Allow, AlarmFires, PollAnswered,
                 PollApplies, PollGivesUp, PollBacksOff, ResumeRuns,
                 ResumeFindsOld, ResumeFails, CancelBegins, CancelDrops,
                 CancelTaken, CancelApplies, AllowEnds, Clear, ClearEnds
  <2> QED
    BY <2>1, <1>0 DEF Requests, Further, Adds, RunsKept, Types, Ids
<1> QED
  BY <1>1, <1>2, <1>3, <1>4, <1>5, <1>6, <1>7, <1>8, <1>9, <1>10, <1>11, NextCases

LEMMA RunsMade ==
    ASSUME IInv, Next
    PROVE  Runs'
<1>0. /\ Types /\ Runs /\ Requests
      /\ ids \in Nat /\ ids' \in Nat /\ ids <= ids'
  BY TypesHold, FurtherStep, HelpAssumption DEF IInv, Types, Further, Adds
<1>1. CASE \/ \E t \in Turns : PostTaken(t)
           \/ \E t \in Turns : OrphanTaken(t)
  <2> PICK t \in Turns : PostTaken(t) \/ OrphanTaken(t)
    BY <1>1
  <2>1. run' = Started(req[t]) /\ post[t] # "over" /\ ids' = ids
    BY DEF PostTaken, OrphanTaken, asked
  <2>2. req[t] \in 1..ids
    BY <2>1, <1>0 DEF Requests
  <2> QED
    BY <2>1, <2>2, <1>0 DEF Started, Runs, Types, Ids
<1>2. CASE \E i \in Ids : RunEnds(i)
  BY <1>2, <1>0 DEF RunEnds, Runs, Types, asked
<1>3. CASE CancelTaken
  BY <1>3, <1>0 DEF CancelTaken, Runs, Types, asked
<1>4. CASE \/ Ask
           \/ Retry
           \/ \E t \in Turns : PostRefused(t)
           \/ \E t \in Turns : SendApplies(t)
           \/ \E t \in Turns : SendUnsaved(t)
           \/ \E t \in Turns : SendFails(t)
           \/ \E i \in Ids : Deny(i)
           \/ \E i \in Ids : Allow(i)
           \/ AlarmFires
           \/ PollAnswered
           \/ PollApplies
           \/ PollGivesUp
           \/ PollBacksOff
           \/ ResumeRuns
           \/ ResumeFindsOld
           \/ ResumeFails
           \/ CancelBegins
           \/ CancelDrops
           \/ CancelApplies
           \/ AllowSends
           \/ AllowEnds
           \/ Clear
           \/ ClearEnds
           \/ Kill
  <2>1. run' = run
    BY <1>4 DEF Ask, Retry, PostRefused, SendApplies, SendUnsaved, SendFails,
                Deny, Allow, AlarmFires, PollAnswered, PollApplies, PollGivesUp,
                PollBacksOff, ResumeRuns, ResumeFindsOld, ResumeFails,
                CancelBegins, CancelDrops, CancelApplies, AllowSends, AllowEnds,
                Clear, ClearEnds, Kill
  <2> QED
    BY <2>1, <1>0 DEF Runs, Ids
<1> QED
  BY <1>1, <1>2, <1>3, <1>4, NextCases

LEMMA PollingStep ==
    ASSUME IInv, Next
    PROVE  Polling'
<1>0. /\ Types /\ Polling /\ Further /\ RunsKept
      /\ ids \in Nat /\ ids' \in Nat /\ ids <= ids'
  BY TypesHold, FurtherStep, RunsStep, HelpAssumption DEF IInv, Types, Further,
                                                          Adds
<1>a. ASSUME poll' = poll
      PROVE  Polling'
  BY <1>a, <1>0 DEF Polling, RunsKept, Types, Ids
<1>b. ASSUME poll' = NoPoll
      PROVE  Polling'
  BY <1>b, <1>0 DEF Polling, NoPoll
<1>c. ASSUME poll' = [id |-> chat.active, answer |-> "none"], Schedules(chat)
      PROVE  Polling'
  <2>1. chat.active \in 1..ids
    BY <1>c DEF Schedules, IInv, Sound, Waiting, Pending
  <2> QED
    BY <1>c, <2>1, <1>0 DEF Polling
<1>1. CASE \/ PollApplies
           \/ PollGivesUp
           \/ PollBacksOff
           \/ Kill
  <2>1. poll' = NoPoll
    BY <1>1 DEF PollApplies, PollGivesUp, PollBacksOff, Kill
  <2> QED
    BY <2>1, <1>b
<1>2. CASE AlarmFires
  BY <1>2, <1>a, <1>c DEF AlarmFires, PollBegins
<1>3. CASE ResumeRuns
  BY <1>3, <1>a, <1>c DEF ResumeRuns, PollBegins, PollOrSchedule
<1>4. CASE ResumeFails
  <2>1. CASE chat' = chat
    BY <1>4, <2>1, <1>a, <1>c DEF ResumeFails, PollBegins, PollOrSchedule
  <2>2. CASE chat' # chat
    BY <1>4, <2>2, <1>a, <1>c DEF ResumeFails, PollBegins, PollOrSchedule
  <2> QED
    BY <2>1, <2>2
<1>5. CASE PollAnswered
  <2>1. poll.id # 0 /\ run' = run /\ ids' = ids /\ poll'.id = poll.id
    BY <1>5, <1>0 DEF PollAnswered, asked, Types
  <2>2. poll'.answer = run[poll.id] \/ poll'.answer \in {"refused", "broken"}
    BY <1>5, <1>0 DEF PollAnswered, Types
  <2> QED
    BY <2>1, <2>2, <1>0 DEF Polling
<1>6. CASE \/ Ask
           \/ Retry
           \/ \E t \in Turns : PostTaken(t)
           \/ \E t \in Turns : PostRefused(t)
           \/ \E t \in Turns : OrphanTaken(t)
           \/ \E t \in Turns : SendApplies(t)
           \/ \E t \in Turns : SendUnsaved(t)
           \/ \E t \in Turns : SendFails(t)
           \/ \E i \in Ids : RunEnds(i)
           \/ \E i \in Ids : Deny(i)
           \/ \E i \in Ids : Allow(i)
           \/ ResumeFindsOld
           \/ CancelBegins
           \/ CancelDrops
           \/ CancelTaken
           \/ CancelApplies
           \/ AllowSends
           \/ AllowEnds
           \/ Clear
           \/ ClearEnds
  <2>1. poll' = poll
    BY <1>6 DEF calls, Send, Ask, Retry, PostTaken, PostRefused, OrphanTaken,
                SendApplies, SendUnsaved, SendFails, RunEnds, Deny, Allow,
                ResumeFindsOld, CancelBegins, CancelDrops, CancelTaken,
                CancelApplies, AllowSends, AllowEnds, Clear, ClearEnds
  <2> QED
    BY <2>1, <1>a
<1> QED
  BY <1>1, <1>2, <1>3, <1>4, <1>5, <1>6, NextCases

LEMMA CancellingStep ==
    ASSUME IInv, Next
    PROVE  Cancelling'
<1>0. /\ Types /\ Cancelling /\ Further /\ RunsKept
      /\ ids \in Nat /\ ids' \in Nat /\ ids <= ids'
  BY TypesHold, FurtherStep, RunsStep, HelpAssumption DEF IInv, Types, Further,
                                                          Adds
<1>b. ASSUME cancel' = NoCancel
      PROVE  Cancelling'
  BY <1>b, <1>0 DEF Cancelling, NoCancel
<1>1. CASE \/ CancelDrops
           \/ CancelApplies
           \/ Kill
  <2>1. cancel' = NoCancel
    BY <1>1 DEF CancelDrops, CancelApplies, Kill
  <2> QED
    BY <2>1, <1>b
<1>2. CASE CancelBegins
  <2>1. chat.active \in 1..ids
    BY <1>2 DEF CancelBegins, IInv, Sound, Waiting, Pending
  <2>2. cancel'.id = chat.active /\ cancel'.answer = "none"
    BY <1>2 DEF CancelBegins
  <2> QED
    BY <2>1, <2>2, <1>0 DEF Cancelling
<1>3. CASE CancelTaken
  <2>1. CASE cancel' = NoCancel
    BY <2>1, <1>b
  <2>2. CASE cancel' = [cancel EXCEPT !.answer = run'[cancel.id]]
    <3>1. cancel'.id = cancel.id /\ cancel'.answer = run'[cancel.id] /\ cancel.stage = "asking"
      BY <1>3, <2>2, <1>0 DEF CancelTaken, Types
    <3> QED
      BY <3>1, <1>0 DEF Cancelling
  <2> QED
    BY <1>3, <2>1, <2>2 DEF CancelTaken
<1>4. CASE \/ Ask
           \/ Retry
           \/ \E t \in Turns : PostTaken(t)
           \/ \E t \in Turns : PostRefused(t)
           \/ \E t \in Turns : OrphanTaken(t)
           \/ \E t \in Turns : SendApplies(t)
           \/ \E t \in Turns : SendUnsaved(t)
           \/ \E t \in Turns : SendFails(t)
           \/ \E i \in Ids : RunEnds(i)
           \/ \E i \in Ids : Deny(i)
           \/ \E i \in Ids : Allow(i)
           \/ AlarmFires
           \/ PollAnswered
           \/ PollApplies
           \/ PollGivesUp
           \/ PollBacksOff
           \/ ResumeRuns
           \/ ResumeFindsOld
           \/ ResumeFails
           \/ AllowSends
           \/ AllowEnds
           \/ Clear
           \/ ClearEnds
  <2>1. cancel' = cancel
    BY <1>4 DEF calls, Send, Ask, Retry, PostTaken, PostRefused, OrphanTaken,
                SendApplies, SendUnsaved, SendFails, RunEnds, Deny, Allow,
                AlarmFires, PollAnswered, PollApplies, PollGivesUp,
                PollBacksOff, ResumeRuns, ResumeFindsOld, ResumeFails,
                AllowSends, AllowEnds, Clear, ClearEnds
  <2> QED
    BY <2>1, <1>0 DEF Cancelling, RunsKept, Types, Ids
<1> QED
  BY <1>1, <1>2, <1>3, <1>4, NextCases
-----------------------------------------------------------------------------
(* The records of approvals and the approval that is being carried out.    *)

LEMMA RecordStep ==
    ASSUME IInv, Next
    PROVE  Recorded(ids, question)' /\ Resolving(ids, question)'
<1>0. /\ Types /\ Recorded(ids, question) /\ Resolving(ids, question) /\ Further
      /\ ids \in Nat /\ ids' \in Nat /\ ids <= ids' /\ MaxIds \in Nat
      /\ \A i \in 1..ids : question'[i] = question[i]
  BY TypesHold, FurtherStep, HelpAssumption DEF IInv, Types, Further, Adds
<1>1. CASE \E i \in Ids : Deny(i)
  <2> PICK r \in Ids : Deny(r)
    BY <1>1
  <2>1. /\ UNCHANGED <<ids, question, shared, forgotten, resolve>>
        /\ \A i \in Ids : approvals'[i].id = approvals[i].id
    BY <1>0 DEF Deny, asked, history, calls, Types
  <2>2. Recorded(ids, question)'
    BY <2>1, <1>0 DEF Recorded
  <2>3. Resolving(ids, question)'
    BY <2>1, <1>0 DEF Resolving
  <2> QED
    BY <2>2, <2>3
<1>2. CASE \E i \in Ids : Allow(i)
  <2> PICK r \in Ids : Allow(r)
    BY <1>2
  <2> DEFINE id == IF approvals[r].id # 0 THEN approvals[r].id ELSE ids + 1
  <2>1. /\ UNCHANGED <<shared, forgotten>>
        /\ approvals' = [approvals EXCEPT ![r] = [status |-> "pending", id |-> id]]
        /\ resolve'.receipt = r /\ resolve'.id = id
    BY DEF Allow, history
  <2>2. /\ \A i \in Ids : i # r => approvals'[i].id = approvals[i].id
        /\ approvals'[r].id = id
    BY <2>1, <1>0 DEF Types
  <2>3. id \in 1..ids' /\ question'[id] = id
    <3>1. CASE approvals[r].id # 0
      BY <3>1, <1>0 DEF Recorded
    <3>2. CASE approvals[r].id = 0
      <4>1. /\ ids' = ids + 1 /\ ids + 1 \in Ids
            /\ question' = [question EXCEPT ![ids + 1] = ids + 1]
        BY <3>2 DEF Allow
      <4> QED
        BY <3>2, <4>1, <1>0 DEF Types, Question
    <3> QED
      BY <3>1, <3>2
  <2>4. \A i \in Ids \ forgotten : \A j \in shared[i] : j = approvals[i].id /\ j # 0
    BY <1>0 DEF Recorded, Types, Ids
  <2>5. \A j \in shared[r] : r \notin forgotten => j = id
    BY <2>4
  <2> HIDE DEF id
  <2>6. Recorded(ids, question)'
    BY <2>1, <2>2, <2>3, <2>4, <2>5, <1>0 DEF Recorded
  <2>7. Resolving(ids, question)'
    BY <2>1, <2>2, <2>3 DEF Resolving
  <2> QED
    BY <2>6, <2>7
<1>3. CASE AllowSends
  <2>1. /\ UNCHANGED <<approvals, forgotten>>
        /\ resolve.stage # "none"
        /\ \/ resolve' = NoResolve /\ shared' = shared
           \/ /\ resolve'.receipt = resolve.receipt /\ resolve'.id = resolve.id
              /\ shared' = [shared EXCEPT ![resolve.receipt] = @ \cup {resolve.id}]
    BY <1>3, <1>0 DEF AllowSends, Types
  <2>2. /\ resolve.receipt \in Ids
        /\ resolve.receipt \notin forgotten => approvals[resolve.receipt].id = resolve.id
    BY <2>1, <1>0 DEF Resolving
  <2>3. Recorded(ids, question)'
    BY <2>1, <2>2, <1>0 DEF Recorded, Types
  <2>4. Resolving(ids, question)'
    BY <2>1, <1>0 DEF Resolving, NoResolve
  <2> QED
    BY <2>3, <2>4
<1>4. CASE AllowEnds
  <2>1. /\ UNCHANGED <<ids, question, shared, forgotten>> /\ resolve' = NoResolve
        /\ resolve.stage # "none"
        /\ approvals' = [approvals EXCEPT ![resolve.receipt] =
                            [status |-> resolve.stage, id |-> resolve.id]]
    BY <1>4 DEF AllowEnds, asked, history
  <2>2. /\ resolve.receipt \in Ids /\ resolve.id \in 1..ids
        /\ question[resolve.id] = resolve.id
        /\ resolve.receipt \notin forgotten => approvals[resolve.receipt].id = resolve.id
    BY <2>1, <1>0 DEF Resolving
  <2>3. /\ \A i \in Ids : i # resolve.receipt => approvals'[i].id = approvals[i].id
        /\ approvals'[resolve.receipt].id = resolve.id
    BY <2>1, <2>2, <1>0 DEF Types
  <2>4. Recorded(ids, question)'
    BY <2>1, <2>2, <2>3, <1>0 DEF Recorded
  <2>5. Resolving(ids, question)'
    BY <2>1 DEF Resolving, NoResolve
  <2> QED
    BY <2>4, <2>5
<1>5. CASE ClearEnds
  <2>1. /\ UNCHANGED <<ids, question, shared, resolve>>
        /\ approvals' = [i \in Ids |-> NoApproval]
        /\ forgotten' = forgotten \cup {i \in Ids : approvals[i].id # 0}
    BY <1>5 DEF ClearEnds, asked
  <2>2. \A i \in Ids : approvals'[i].id = 0
    BY <2>1 DEF NoApproval
  <2>3. \A i \in Ids \ forgotten' : i \notin forgotten /\ approvals[i].id = 0
    BY <2>1
  <2>4. \A i \in Ids \ forgotten' : shared[i] = {}
    BY <2>3, <1>0 DEF Recorded, Types, Ids
  <2>5. Recorded(ids, question)'
    BY <2>1, <2>2, <2>4 DEF Recorded
  <2>6. Resolving(ids, question)'
    BY <2>1, <2>3, <1>0 DEF Resolving
  <2> QED
    BY <2>5, <2>6
<1>6. CASE /\ UNCHANGED <<approvals, shared, forgotten>>
           /\ resolve'.stage # "none" =>
                 /\ resolve.stage # "none"
                 /\ resolve'.receipt = resolve.receipt /\ resolve'.id = resolve.id
  <2>1. Recorded(ids, question)'
    BY <1>6, <1>0 DEF Recorded
  <2>2. Resolving(ids, question)'
    BY <1>6, <1>0 DEF Resolving
  <2> QED
    BY <2>1, <2>2
<1>7. CASE \/ \E t \in Turns : SendApplies(t)
           \/ \E t \in Turns : SendFails(t)
  <2> PICK t \in Turns : SendApplies(t) \/ SendFails(t)
    BY <1>7
  <2>1. UNCHANGED <<approvals, shared, forgotten>> /\ Resolved(t)
    BY DEF SendApplies, SendFails, history
  <2>2. /\ resolve'.receipt = resolve.receipt /\ resolve'.id = resolve.id
        /\ resolve'.stage # "none" => resolve.stage # "none"
    BY <2>1, <1>0 DEF Resolved, Types
  <2> QED
    BY <2>1, <2>2, <1>6
<1>8. CASE Kill
  BY <1>8, <1>6 DEF Kill, history, NoResolve
<1>9. CASE \/ Ask
           \/ Retry
           \/ \E t \in Turns : PostTaken(t)
           \/ \E t \in Turns : PostRefused(t)
           \/ \E t \in Turns : OrphanTaken(t)
           \/ \E t \in Turns : SendUnsaved(t)
           \/ \E i \in Ids : RunEnds(i)
           \/ AlarmFires
           \/ PollAnswered
           \/ PollApplies
           \/ PollGivesUp
           \/ PollBacksOff
           \/ ResumeRuns
           \/ ResumeFindsOld
           \/ ResumeFails
           \/ CancelBegins
           \/ CancelDrops
           \/ CancelTaken
           \/ CancelApplies
           \/ Clear
  <2>1. UNCHANGED <<approvals, shared, forgotten, resolve>>
    BY <1>9 DEF calls, history, Send, Ask, Retry, PostTaken, PostRefused,
                OrphanTaken, SendUnsaved, RunEnds, AlarmFires, PollAnswered,
                PollApplies, PollGivesUp, PollBacksOff, ResumeRuns,
                ResumeFindsOld, ResumeFails, CancelBegins, CancelDrops,
                CancelTaken, CancelApplies, Clear
  <2> QED
    BY <2>1, <1>6
<1> QED
  BY <1>1, <1>2, <1>3, <1>4, <1>5, <1>7, <1>8, <1>9, NextCases
-----------------------------------------------------------------------------
(* The conversation itself.                                                *)

LEMMA NoRetryStep ==
    ASSUME IInv, Next, ~Retry \/ ids' = ids
    PROVE  NoRetry(ids, question, ids', question')
<1>0. /\ Types /\ Adds(ids, question, ids', question') /\ ids \in Nat /\ MaxIds \in Nat
  BY TypesHold, FurtherStep, HelpAssumption DEF IInv, Types, Further
<1>a. ASSUME ids' = ids
      PROVE  NoRetry(ids, question, ids', question')
  BY <1>a, <1>0 DEF NoRetry, Ids
<1>b. ASSUME ids' = ids + 1, ids + 1 \in Ids,
             question' = [question EXCEPT ![ids + 1] = ids + 1]
      PROVE  NoRetry(ids, question, ids', question')
  BY <1>b, <1>0 DEF NoRetry, Ids, Types, Question
<1>1. CASE Ask
  <2>1. /\ ids' = ids + 1 /\ ids + 1 \in Ids
        /\ question' = [question EXCEPT ![ids + 1] = ids + 1]
    BY <1>1, <1>0 DEF Ask, Send, Types, Ids
  <2> QED
    BY <2>1, <1>b
<1>2. CASE Retry
  BY <1>2, <1>a
<1>3. CASE \E i \in Ids : Allow(i)
  <2> PICK r \in Ids : Allow(r)
    BY <1>3
  <2>1. CASE approvals[r].id # 0
    BY <2>1, <1>a DEF Allow
  <2>2. CASE approvals[r].id = 0
    <3>1. /\ ids' = ids + 1 /\ ids + 1 \in Ids
          /\ question' = [question EXCEPT ![ids + 1] = ids + 1]
      BY <2>2 DEF Allow
    <3> QED
      BY <3>1, <1>b
  <2> QED
    BY <2>1, <2>2
<1>4. CASE \/ \E t \in Turns : PostTaken(t)
           \/ \E t \in Turns : PostRefused(t)
           \/ \E t \in Turns : OrphanTaken(t)
           \/ \E t \in Turns : SendApplies(t)
           \/ \E t \in Turns : SendUnsaved(t)
           \/ \E t \in Turns : SendFails(t)
           \/ \E i \in Ids : RunEnds(i)
           \/ \E i \in Ids : Deny(i)
           \/ AlarmFires
           \/ PollAnswered
           \/ PollApplies
           \/ PollGivesUp
           \/ PollBacksOff
           \/ ResumeRuns
           \/ ResumeFindsOld
           \/ ResumeFails
           \/ CancelBegins
           \/ CancelDrops
           \/ CancelTaken
           \/ CancelApplies
           \/ AllowSends
           \/ AllowEnds
           \/ Clear
           \/ ClearEnds
           \/ Kill
  <2>1. ids' = ids
    BY <1>4 DEF asked, PostTaken, PostRefused, OrphanTaken, SendApplies,
                SendUnsaved, SendFails, RunEnds, Deny, AlarmFires, PollAnswered,
                PollApplies, PollGivesUp, PollBacksOff, ResumeRuns,
                ResumeFindsOld, ResumeFails, CancelBegins, CancelDrops,
                CancelTaken, CancelApplies, AllowSends, AllowEnds, Clear,
                ClearEnds, Kill
  <2> QED
    BY <2>1, <1>a
<1> QED
  BY <1>1, <1>2, <1>3, <1>4, NextCases

(* The active turn is one that a retry may repeat once its run has failed. *)
LEMMA SoundStep ==
    ASSUME IInv, Next
    PROVE  chat' \in Chat /\ Sound(chat, ids, question, Dead, Continuations)'
<1>0. /\ Types /\ Numbered(ids, question) /\ Requests /\ Polling /\ Cancelling /\ Further
      /\ Sound(chat, ids, question, Dead, Continuations)
      /\ ids \in Nat /\ MaxIds \in Nat /\ ids <= MaxIds
      /\ Dead \subseteq Dead' /\ Continuations \subseteq Continuations'
  BY TypesHold, FurtherStep, HistoryStep, HelpAssumption DEF IInv, Types
<1>t. /\ chat \in Chat /\ ids \in 0..MaxIds /\ question \in Question
      /\ ids' \in 0..MaxIds /\ question' \in Question /\ Numbered(ids', question')
      /\ Adds(ids, question, ids', question')
  BY <1>0 DEF Types, Further
<1>a. ASSUME chat' \in Chat, Sound(chat', ids, question, Dead, Continuations),
             ~Retry \/ ids' = ids
      PROVE  chat' \in Chat /\ Sound(chat, ids, question, Dead, Continuations)'
  <2>1. Sound(chat', ids', question', Dead', Continuations')
    BY <1>a, <1>0, <1>t, NoRetryStep, SoundGrows
  <2> QED
    BY <1>a, <2>1
<1>b. ASSUME ~Retry \/ ids' = ids
      PROVE  Sound(chat, ids', question', Dead', Continuations')
  BY <1>b, <1>0, <1>t, NoRetryStep, SoundGrows
<1>c. InOrder(chat.messages, ids', question', Continuations')
  BY <1>0, <1>t, OrderGrows DEF Sound
<1>d. ASSUME NEW status, chat.active # 0, status = "failed" => run[chat.active] = "failed",
             status \in Status \cup {"none"}, status # "none",
             chat' = ApplyRun(chat, chat.active, status), ids' = ids
      PROVE  chat' \in Chat /\ Sound(chat, ids, question, Dead, Continuations)'
  <2>1. status \notin {"live", "done", "cancelled"} => chat.active \in Dead
    BY <1>d, <1>0, ChatFields DEF Status, Ended, Dead, Types, Ids
  <2>2. /\ ApplyRun(chat, chat.active, status) \in Chat
        /\ Sound(ApplyRun(chat, chat.active, status), ids, question, Dead, Continuations)
    BY <1>0, <1>t, <1>d, <2>1, ApplyKeepsSound
  <2> QED
    BY <1>a, <1>d, <2>2
<1>e. ASSUME NEW reuse \in BOOLEAN, chat.active # 0, ids' = ids,
             ~reuse => chat.active \in Dead',
             \/ chat' = FailTurn(chat, LastAsked(chat.messages), reuse)
             \/ chat' = FailTurn(chat, question[chat.active], reuse)
      PROVE  chat' \in Chat /\ Sound(chat, ids, question, Dead, Continuations)'
  <2>1. Sound(chat, ids', question', Dead', Continuations')
    BY <1>b, <1>e
  <2>2. /\ LastAsked(chat.messages) = question'[chat.active]
        /\ FailTurn(chat, question'[chat.active], reuse) \in Chat
        /\ Sound(FailTurn(chat, question'[chat.active], reuse), ids', question', Dead',
                 Continuations')
    BY <1>t, <1>e, <2>1, FailKeepsSound
  <2>3. question'[chat.active] = question[chat.active]
    BY <1>0, <1>t, <1>e DEF Sound, Waiting, Pending, Adds
  <2>4. chat' = FailTurn(chat, question'[chat.active], reuse)
    BY <1>e, <2>2, <2>3
  <2> QED
    BY <2>2, <2>4
<1>f. ASSUME NEW i \in 1..ids', NEW q \in 1..ids', NEW reuse \in BOOLEAN,
             chat' = BeginTurn(chat, i, q, reuse), question'[i] = q,
             q \notin Continuations' => Latest(i, question'),
             \/ q \in Continuations'
             \/ reuse /\ chat.messages # <<>> /\ Last(chat.messages) = Bubble(q)
             \/ Bubble(q) \notin ToSet(chat.messages)
      PROVE  chat' \in Chat /\ Sound(chat, ids, question, Dead, Continuations)'
  <2>1. /\ BeginTurn(chat, i, q, reuse) \in Chat
        /\ Sound(BeginTurn(chat, i, q, reuse), ids', question', Dead', Continuations')
    BY <1>t, <1>c, <1>f, BeginKeepsSound
  <2> QED
    BY <1>f, <2>1
<1>1. CASE Ask
  <2>1. /\ ids' = ids + 1 /\ ids + 1 \in Ids
        /\ question' = [question EXCEPT ![ids + 1] = ids + 1]
        /\ chat' = BeginTurn(chat, ids + 1, ids + 1, FALSE)
    BY <1>1, <1>0 DEF Ask, Send, Types, Ids
  <2>2. ids + 1 \in 1..ids' /\ question'[ids + 1] = ids + 1
    BY <2>1, <1>0, <1>t DEF Question
  <2>3. Latest(ids + 1, question')
    BY <2>1, <2>2, <1>0, <1>t DEF Latest, Numbered, Ids
  <2>4. Bubble(ids + 1) \notin ToSet(chat.messages)
    <3>1. \A k \in DOMAIN chat.messages : chat.messages[k].id \in 1..ids
      BY <1>0 DEF Sound, InOrder
    <3>2. Bubble(ids + 1).id = ids + 1
      BY DEF Bubble
    <3> QED
      BY <3>1, <3>2, <1>0 DEF ToSet
  <2> QED
    BY <2>1, <2>2, <2>3, <2>4, <1>f
<1>2. CASE Retry
  <2> DEFINE e == chat.error.id
             q == chat.error.ask
  <2>1. /\ e \in 1..ids /\ question[e] = q /\ chat.messages # <<>>
        /\ Last(chat.messages) = Bubble(q)
        /\ q \notin Continuations => Latest(e, question)
    BY <1>2, <1>0 DEF Retry, Sound, Failed, Pending
  <2>2. q \in 1..ids /\ q \in 1..ids' /\ e \in 1..ids'
    BY <2>1, <1>0, <1>t DEF Numbered, Ids, Adds
  <2>3. CASE chat.error.reuse
    <3>1. /\ ids' = ids /\ chat' = BeginTurn(chat, e, q, TRUE)
          /\ Continuations' = Continuations
          /\ question' = [question EXCEPT ![e] = q]
      BY <1>2, <2>3 DEF Retry, Send, history, Continuations
    <3>2. question' = question
      BY <2>1, <3>1, <1>t DEF Question, Ids
    <3> HIDE DEF e, q
    <3> QED
      BY <2>1, <2>2, <3>1, <3>2, <1>f
  <2>4. CASE ~chat.error.reuse
    <3>1. /\ ids' = ids + 1 /\ ids + 1 \in Ids
          /\ chat' = BeginTurn(chat, ids + 1, q, TRUE)
          /\ question' = [question EXCEPT ![ids + 1] = q]
      BY <1>2, <2>4, <1>0 DEF Retry, Send, Ids
    <3> HIDE DEF e, q
    <3>2. question'[ids + 1] = q /\ ids + 1 \in 1..ids'
      BY <3>1, <1>0, <1>t DEF Question
    <3>3. Latest(ids + 1, question')
      BY <3>1, <3>2, <2>2, <1>0, <1>t DEF Latest, Numbered, Ids
    <3> QED
      BY <2>1, <2>2, <3>1, <3>2, <3>3, <1>f
  <2> QED
    BY <2>3, <2>4
<1>3. CASE \E t \in Turns : SendApplies(t)
  <2> PICK t \in Turns : SendApplies(t)
    BY <1>3
  <2>1. /\ ids' = ids /\ post[t] \in Status
        /\ chat' = IF chat.active = req[t] THEN ApplyRun(chat, req[t], post[t]) ELSE chat
    BY DEF SendApplies, asked
  <2>2. req[t] \in 1..ids /\ (post[t] = "failed" => run[req[t]] = "failed")
    BY <2>1, <1>0 DEF Requests, Status, Ended
  <2>3. CASE chat.active = req[t]
    <3>1. post[t] # "none" /\ chat.active # 0
      BY <2>1, <2>2, <2>3 DEF Status, Ended
    <3> QED
      BY <2>1, <2>2, <2>3, <3>1, <1>d
  <2>4. CASE chat.active # req[t]
    BY <2>1, <2>4, <1>0, <1>t, <1>a
  <2> QED
    BY <2>3, <2>4
<1>4. CASE \E t \in Turns : SendFails(t)
  <2> PICK t \in Turns : SendFails(t)
    BY <1>4
  <2>1. /\ ids' = ids /\ post[t] = "error"
        /\ chat' = IF chat.active = req[t]
                   THEN FailTurn(chat, question[req[t]], TRUE) ELSE chat
    BY DEF SendFails, asked
  <2>2. req[t] \in 1..ids
    BY <2>1, <1>0 DEF Requests
  <2>3. CASE chat.active = req[t]
    <3>1. chat' = FailTurn(chat, question[chat.active], TRUE) /\ chat.active # 0
      BY <2>1, <2>2, <2>3
    <3> QED
      BY <2>1, <3>1, <1>e
  <2>4. CASE chat.active # req[t]
    BY <2>1, <2>4, <1>0, <1>t, <1>a
  <2> QED
    BY <2>3, <2>4
<1>5. CASE PollApplies
  <2>1. /\ ids' = ids /\ poll.answer \in Status
        /\ chat' = IF Polled THEN ApplyRun(chat, poll.id, poll.answer) ELSE chat
    BY <1>5 DEF PollApplies, asked
  <2>2. CASE Polled
    <3>1. chat.active = poll.id /\ chat.active # 0
      BY <2>2, <1>0 DEF Polled, Sound, Waiting
    <3>2. poll.answer # "none" /\ (poll.answer = "failed" => run[chat.active] = "failed")
      BY <2>1, <3>1, <1>0 DEF Polling, Status, Ended
    <3> QED
      BY <2>1, <2>2, <3>1, <3>2, <1>d
  <2>3. CASE ~Polled
    BY <2>1, <2>3, <1>0, <1>t, <1>a
  <2> QED
    BY <2>2, <2>3
<1>6. CASE PollGivesUp
  <2>1. /\ ids' = ids
        /\ chat' = IF Polled THEN FailTurn(chat, LastAsked(chat.messages), FALSE) ELSE chat
        /\ Polled => givenUp' = givenUp \cup {poll.id}
    BY <1>6 DEF PollGivesUp, asked
  <2>2. CASE Polled
    <3>1. chat.active = poll.id /\ chat.active # 0
      BY <2>2, <1>0 DEF Polled, Sound, Waiting
    <3>2. chat.active \in Dead'
      BY <2>1, <2>2, <3>1, <1>t, ChatFields DEF Dead, Ids
    <3>3. chat' = FailTurn(chat, LastAsked(chat.messages), FALSE)
      BY <2>1, <2>2
    <3> QED
      BY <2>1, <3>1, <3>2, <3>3, <1>e
  <2>3. CASE ~Polled
    BY <2>1, <2>3, <1>0, <1>t, <1>a
  <2> QED
    BY <2>2, <2>3
<1>7. CASE ResumeFails
  <2>1. /\ ids' = ids
        /\ chat' = IF chat.active # 0 /\ ~chat.running
                   THEN FailTurn(chat, LastAsked(chat.messages), TRUE) ELSE chat
    BY <1>7 DEF ResumeFails, asked
  <2>2. CASE chat.active # 0 /\ ~chat.running
    <3>1. chat' = FailTurn(chat, LastAsked(chat.messages), TRUE)
      BY <2>1, <2>2
    <3> QED
      BY <2>1, <2>2, <3>1, <1>e
  <2>3. CASE ~(chat.active # 0 /\ ~chat.running)
    <3>1. chat' = chat
      BY <2>1, <2>3
    <3> QED
      BY <2>1, <3>1, <1>0, <1>t, <1>a
  <2> QED
    BY <2>2, <2>3
<1>8. CASE CancelDrops
  <2>1. ids' = ids /\ chat' = ApplyRun(chat, 0, "cancelled")
    BY <1>8 DEF CancelDrops, asked
  <2>2. chat' \in Chat
    BY <2>1, <1>0, <1>t, CancelledTurn
  <2>3. Sound(chat', ids, question, Dead, Continuations)
    BY <2>1, <1>0, <1>t, DropKeepsSound
  <2> QED
    BY <2>1, <2>2, <2>3, <1>a
<1>9. CASE CancelApplies
  <2>1. /\ ids' = ids /\ cancel.answer # "none"
        /\ chat' = IF chat.running /\ chat.active = cancel.id
                   THEN ApplyRun(chat, cancel.id, cancel.answer) ELSE chat
    BY <1>9 DEF CancelApplies, asked
  <2>2. cancel.id # 0 /\ (cancel.answer = "failed" => run[cancel.id] = "failed")
    BY <2>1, <1>0 DEF Cancelling
  <2>3. cancel.answer \in Status \cup {"none"}
    BY <1>0 DEF Types
  <2>4. CASE chat.running /\ chat.active = cancel.id
    BY <2>1, <2>2, <2>3, <2>4, <1>d
  <2>5. CASE ~(chat.running /\ chat.active = cancel.id)
    <3>1. chat' = chat
      BY <2>1, <2>5
    <3> QED
      BY <2>1, <3>1, <1>0, <1>t, <1>a
  <2> QED
    BY <2>4, <2>5
<1>10. CASE AllowSends
  <2>0. ids' = ids
    BY <1>10 DEF AllowSends
  <2>1. CASE chat' = chat
    BY <2>0, <2>1, <1>0, <1>t, <1>a
  <2>2. CASE /\ Send(resolve.id, question[resolve.id], resolve.stage = "again")
             /\ shared' = [shared EXCEPT ![resolve.receipt] =
                              shared[resolve.receipt] \cup {resolve.id}]
    <3> DEFINE c == resolve.id
               again == resolve.stage = "again"
    <3>1. /\ resolve.receipt \in Ids /\ c \in 1..ids /\ question[c] = c
      BY <1>10 DEF AllowSends, IInv, Resolving
    <3>2. c \in Continuations'
      BY <2>2, <3>1, <1>0 DEF Types, Continuations
    <3>3. c \in 1..ids' /\ question'[c] = c
      BY <3>1, <1>0, <1>t DEF Adds
    <3>4. chat' = BeginTurn(chat, c, c, again)
      BY <2>2, <3>1 DEF Send
    <3>5. again \in BOOLEAN
      OBVIOUS
    <3> HIDE DEF c, again
    <3> QED
      BY <3>2, <3>3, <3>4, <3>5, <1>f
  <2>3. \/ /\ Send(resolve.id, question[resolve.id], resolve.stage = "again")
           /\ shared' = [shared EXCEPT ![resolve.receipt] =
                            shared[resolve.receipt] \cup {resolve.id}]
        \/ UNCHANGED <<chat, turns, req, question, post, shared>>
    BY <1>10, Zenon DEF AllowSends
  <2> QED
    BY <2>1, <2>2, <2>3
<1>11. CASE Clear
  <2>1. ids' = ids /\ chat' = EmptyChat
    BY <1>11 DEF Clear, asked
  <2>2. chat' \in Chat /\ Sound(chat', ids, question, Dead, Continuations)
    BY <2>1, NoErrorType DEF EmptyChat, Sound, InOrder, Waiting, Failed, NoError
  <2> QED
    BY <2>1, <2>2, <1>a
<1>12. CASE \E i \in Ids : Allow(i)
  <2>1. chat' = chat
    BY <1>12 DEF Allow
  <2>2. decisions' = decisions + 1 /\ decisions \in Nat
    BY <1>12 DEF Allow, Decide, IInv, TypeOK
  <2>3. ~Retry
    <3> SUFFICES ASSUME Retry PROVE FALSE
      OBVIOUS
    <3>1. decisions' = decisions
      BY DEF Retry, bounds
    <3> QED
      BY <2>2, <3>1
  <2> QED
    BY <2>1, <2>3, <1>0, <1>t, <1>a
<1>13. CASE \/ \E t \in Turns : PostTaken(t)
            \/ \E t \in Turns : PostRefused(t)
            \/ \E t \in Turns : OrphanTaken(t)
            \/ \E t \in Turns : SendUnsaved(t)
            \/ \E i \in Ids : RunEnds(i)
            \/ \E i \in Ids : Deny(i)
            \/ AlarmFires
            \/ PollAnswered
            \/ PollBacksOff
            \/ ResumeRuns
            \/ ResumeFindsOld
            \/ CancelBegins
            \/ CancelTaken
            \/ AllowEnds
            \/ ClearEnds
            \/ Kill
  <2>1. chat' = chat
    BY <1>13 DEF PostTaken, PostRefused, OrphanTaken, SendUnsaved, RunEnds,
                 Deny, AlarmFires, PollAnswered, PollBacksOff, ResumeRuns,
                 ResumeFindsOld, CancelBegins, CancelTaken, AllowEnds,
                 ClearEnds, Kill
  <2>2. ~Retry \/ ids' = ids
    BY <1>13 DEF Retry, asked, PostTaken, PostRefused, OrphanTaken, SendUnsaved,
                 RunEnds, Deny, AlarmFires, PollAnswered, PollBacksOff,
                 ResumeRuns, ResumeFindsOld, CancelBegins, CancelTaken,
                 AllowEnds, ClearEnds, Kill
  <2> QED
    BY <2>1, <2>2, <1>0, <1>t, <1>a
<1> QED
  BY <1>1, <1>2, <1>3, <1>4, <1>5, <1>6, <1>7, <1>8, <1>9, <1>10, <1>11,
     <1>12, <1>13, NextCases

(* A second run of a question needs the first to be over.                  *)
LEMMA ReplacedStep ==
    ASSUME IInv, Next
    PROVE  Replaced(question, Dead, Continuations)'
<1>0. /\ Replaced(question, Dead, Continuations)
      /\ Numbered(ids, question) /\ Numbered(ids', question')
      /\ Adds(ids, question, ids', question')
      /\ ids \in 0..MaxIds /\ question \in Question
      /\ ids' \in 0..MaxIds /\ question' \in Question
      /\ Dead \subseteq Dead' /\ Continuations \subseteq Continuations'
      /\ ids \in Nat /\ MaxIds \in Nat
  BY TypesHold, FurtherStep, HistoryStep, HelpAssumption DEF IInv, Types, Further
<1>1. CASE ~Retry \/ ids' = ids
  <2>1. Replaced(question', Dead', Continuations')
    BY <1>0, <1>1, NoRetryStep, ReplacedGrows
  <2> QED
    BY <2>1
<1>2. CASE Retry /\ ids' # ids
  <2> DEFINE e == chat.error.id
             q == chat.error.ask
  <2>1. ~chat.error.reuse
    BY <1>2 DEF Retry
  <2>2. /\ e \in 1..ids /\ question[e] = q /\ e \in Dead
        /\ q \notin Continuations => Latest(e, question)
    BY <1>2, <2>1 DEF Retry, IInv, Sound, Failed, Pending
  <2>3. /\ ids' = ids + 1 /\ ids + 1 \in Ids
        /\ question' = [question EXCEPT ![ids + 1] = q]
        /\ Continuations' = Continuations
    BY <1>2, <2>1, <1>0 DEF Retry, Send, Ids, history, Continuations
  <2> HIDE DEF e, q
  <2>4. /\ question'[ids + 1] = q
        /\ \A i \in 1..ids : i \in Ids /\ question'[i] = question[i] /\ question[i] \in 1..i
    BY <2>3, <1>0 DEF Question, Numbered, Ids
  <2> SUFFICES ASSUME NEW i \in Ids, NEW j \in Ids, i < j, question'[j] # 0,
                      question'[i] = question'[j],
                      i = question'[i] \/ question'[i] \notin Continuations
               PROVE  i \in Dead
    BY <2>3, <1>0 DEF Replaced
  <2>5. j \in 1..(ids + 1) /\ i \in 1..ids /\ question'[i] = question[i]
    BY <2>3, <2>4, <1>0 DEF Numbered, Ids
  <2>6. CASE j \in 1..ids
    BY <2>4, <2>5, <2>6, <1>0 DEF Replaced, Ids
  <2>7. CASE j = ids + 1
    <3>1. question[i] = q /\ question[e] = q /\ q # 0 /\ e \in Ids
      BY <2>2, <2>4, <2>5, <2>7
    <3>2. CASE i < e
      BY <3>1, <3>2, <2>5, <1>0 DEF Replaced
    <3>3. CASE i = e
      BY <3>3, <2>2
    <3>4. CASE e < i
      <4>1. question[i] \in 1..e
        BY <3>1, <2>2, <2>4
      <4>2. q \notin Continuations
        BY <3>1, <3>4, <4>1, <2>2, <2>5
      <4> QED
        BY <3>1, <3>4, <4>2, <2>2, <2>5 DEF Latest, Ids
    <3> QED
      BY <3>2, <3>3, <3>4, <2>2, <2>5
  <2> QED
    BY <2>5, <2>6, <2>7, <1>0
<1> QED
  BY <1>1, <1>2
-----------------------------------------------------------------------------
(* The rest of the state keeps its types.                                  *)

LEMMA BoundsStep ==
    ASSUME TypeOK, UNCHANGED bounds \/ Mishap \/ Decide
    PROVE  decisions' \in 0..MaxDecisions /\ mishaps' \in 0..MaxMishaps
<1>1. decisions \in 0..MaxDecisions /\ mishaps \in 0..MaxMishaps
  BY DEF TypeOK
<1> QED
  BY <1>1, HelpAssumption DEF Mishap, Decide, bounds

LEMMA BoundsType ==
    ASSUME IInv, Next
    PROVE  decisions' \in 0..MaxDecisions /\ mishaps' \in 0..MaxMishaps
<1>0. TypeOK
  BY DEF IInv
<1>1. CASE \E t \in Turns : PostTaken(t)
  <2>1. UNCHANGED bounds \/ Mishap
    BY <1>1 DEF PostTaken
  <2> QED
    BY <2>1, <1>0, BoundsStep
<1>2. CASE \E t \in Turns : PostRefused(t)
  <2>1. UNCHANGED bounds \/ Mishap
    BY <1>2 DEF PostRefused
  <2> QED
    BY <2>1, <1>0, BoundsStep
<1>3. CASE \E t \in Turns : SendUnsaved(t)
  <2>1. UNCHANGED bounds \/ Mishap
    BY <1>3 DEF SendUnsaved
  <2> QED
    BY <2>1, <1>0, BoundsStep
<1>4. CASE \E i \in Ids : RunEnds(i)
  <2>1. UNCHANGED bounds \/ Mishap
    BY <1>4 DEF RunEnds
  <2> QED
    BY <2>1, <1>0, BoundsStep
<1>5. CASE \E i \in Ids : Deny(i)
  <2>1. Decide
    BY <1>5 DEF Deny
  <2> QED
    BY <2>1, <1>0, BoundsStep
<1>6. CASE \E i \in Ids : Allow(i)
  <2>1. Decide
    BY <1>6 DEF Allow
  <2> QED
    BY <2>1, <1>0, BoundsStep
<1>7. CASE PollAnswered
  <2>1. UNCHANGED bounds \/ Mishap
    BY <1>7 DEF PollAnswered
  <2> QED
    BY <2>1, <1>0, BoundsStep
<1>8. CASE CancelBegins
  <2>1. UNCHANGED bounds \/ Mishap
    BY <1>8 DEF CancelBegins
  <2> QED
    BY <2>1, <1>0, BoundsStep
<1>9. CASE CancelTaken
  <2>1. UNCHANGED bounds \/ Mishap
    BY <1>9 DEF CancelTaken
  <2> QED
    BY <2>1, <1>0, BoundsStep
<1>10. CASE Clear
  <2>1. UNCHANGED bounds \/ Mishap
    BY <1>10 DEF Clear
  <2> QED
    BY <2>1, <1>0, BoundsStep
<1>11. CASE Kill
  <2>1. UNCHANGED bounds \/ Mishap
    BY <1>11 DEF Kill
  <2> QED
    BY <2>1, <1>0, BoundsStep
<1>12. CASE \/ Ask
            \/ Retry
            \/ \E t \in Turns : OrphanTaken(t)
            \/ \E t \in Turns : SendApplies(t)
            \/ \E t \in Turns : SendFails(t)
            \/ AlarmFires
            \/ PollApplies
            \/ PollGivesUp
            \/ PollBacksOff
            \/ ResumeRuns
            \/ ResumeFindsOld
            \/ ResumeFails
            \/ CancelDrops
            \/ CancelApplies
            \/ AllowSends
            \/ AllowEnds
            \/ ClearEnds
  <2>1. UNCHANGED bounds
    BY <1>12 DEF Ask, Retry, OrphanTaken, SendApplies, SendFails,
                 AlarmFires, PollApplies, PollGivesUp, PollBacksOff, ResumeRuns,
                 ResumeFindsOld, ResumeFails, CancelDrops, CancelApplies,
                 AllowSends, AllowEnds, ClearEnds
  <2> QED
    BY <2>1, <1>0, BoundsStep
<1> QED
  BY <1>1, <1>2, <1>3, <1>4, <1>5, <1>6, <1>7, <1>8, <1>9, <1>10, <1>11,
     <1>12, NextCases

LEMMA FlagsType ==
    ASSUME IInv, Next
    PROVE  alarm' \in BOOLEAN /\ resume' \in BOOLEAN /\ clearing' \in BOOLEAN
<1>0. TypeOK
  BY DEF IInv
<1> USE HelpAssumption
<1>1. CASE \E t \in Turns : SendApplies(t)
  BY <1>1, <1>0 DEF SendApplies, TypeOK, Schedules, PollOrSchedule
<1>2. CASE \E t \in Turns : SendFails(t)
  BY <1>2, <1>0 DEF SendFails, TypeOK, Schedules, PollOrSchedule
<1>3. CASE AlarmFires
  BY <1>3, <1>0 DEF AlarmFires, TypeOK, Schedules, PollOrSchedule
<1>4. CASE PollApplies
  BY <1>4, <1>0 DEF PollApplies, TypeOK, Schedules, PollOrSchedule
<1>5. CASE PollGivesUp
  BY <1>5, <1>0 DEF PollGivesUp, TypeOK, Schedules, PollOrSchedule
<1>6. CASE PollBacksOff
  BY <1>6, <1>0 DEF PollBacksOff, TypeOK, Schedules, PollOrSchedule
<1>7. CASE ResumeRuns
  BY <1>7, <1>0 DEF ResumeRuns, TypeOK, Schedules, PollOrSchedule
<1>8. CASE ResumeFindsOld
  BY <1>8, <1>0 DEF ResumeFindsOld, TypeOK, Schedules, PollOrSchedule
<1>9. CASE ResumeFails
  BY <1>9, <1>0 DEF ResumeFails, TypeOK, Schedules, PollOrSchedule
<1>10. CASE CancelDrops
  BY <1>10, <1>0 DEF CancelDrops, TypeOK, Schedules, PollOrSchedule
<1>11. CASE CancelApplies
  BY <1>11, <1>0 DEF CancelApplies, TypeOK, Schedules, PollOrSchedule
<1>12. CASE Clear
  BY <1>12, <1>0 DEF Clear, TypeOK, Schedules, PollOrSchedule
<1>13. CASE ClearEnds
  BY <1>13, <1>0 DEF ClearEnds, TypeOK, Schedules, PollOrSchedule
<1>14. CASE Kill
  BY <1>14, <1>0 DEF Kill, TypeOK, Schedules, PollOrSchedule
<1>15. CASE \/ Ask
            \/ Retry
            \/ \E t \in Turns : PostTaken(t)
            \/ \E t \in Turns : PostRefused(t)
            \/ \E t \in Turns : OrphanTaken(t)
            \/ \E t \in Turns : SendUnsaved(t)
            \/ \E i \in Ids : RunEnds(i)
            \/ \E i \in Ids : Deny(i)
            \/ \E i \in Ids : Allow(i)
            \/ PollAnswered
            \/ CancelBegins
            \/ CancelTaken
            \/ AllowSends
            \/ AllowEnds
  <2>1. UNCHANGED <<alarm, resume, clearing>>
    BY <1>15 DEF calls, Send, Ask, Retry, PostTaken, PostRefused, OrphanTaken,
                 SendUnsaved, RunEnds, Deny, Allow, PollAnswered, CancelBegins,
                 CancelTaken, AllowSends, AllowEnds
  <2> QED
    BY <2>1, <1>0 DEF TypeOK
<1> QED
  BY <1>1, <1>2, <1>3, <1>4, <1>5, <1>6, <1>7, <1>8, <1>9, <1>10, <1>11,
     <1>12, <1>13, <1>14, <1>15, NextCases

LEMMA HistoryType ==
    ASSUME IInv, Next
    PROVE  /\ givenUp' \subseteq Ids /\ shared' \in [Ids -> SUBSET Ids]
           /\ forgotten' \subseteq Ids
<1>0. TypeOK
  BY DEF IInv
<1> USE HelpAssumption
<1>1. CASE PollGivesUp
  <2>1. poll.id \in Ids
    BY <1>1, <1>0 DEF PollGivesUp, TypeOK, IInv, Polling, Ids
  <2>2. /\ givenUp' = givenUp \/ givenUp' = givenUp \cup {poll.id}
        /\ UNCHANGED <<shared, forgotten>>
    BY <1>1 DEF PollGivesUp
  <2> QED
    BY <2>1, <2>2, <1>0 DEF TypeOK
<1>2. CASE AllowSends
  <2>0. resolve.id \in 1..ids /\ resolve.receipt \in Ids
    BY <1>2 DEF AllowSends, IInv, Resolving
  <2>1. resolve.id \in Ids /\ ids \in 0..MaxIds /\ shared \in [Ids -> SUBSET Ids]
    BY <2>0, <1>0 DEF TypeOK, Ids
  <2>2. /\ \/ shared' = shared
           \/ shared' = [shared EXCEPT ![resolve.receipt] =
                            shared[resolve.receipt] \cup {resolve.id}]
        /\ UNCHANGED <<givenUp, forgotten>>
    BY <1>2 DEF AllowSends
  <2>3. shared' \in [Ids -> SUBSET Ids]
    BY <2>0, <2>1, <2>2
  <2> QED
    BY <2>2, <2>3, <1>0 DEF TypeOK
<1>3. CASE ClearEnds
  BY <1>3, <1>0 DEF ClearEnds, TypeOK, Ids, history
<1>4. CASE \/ Ask
           \/ Retry
           \/ \E t \in Turns : PostTaken(t)
           \/ \E t \in Turns : PostRefused(t)
           \/ \E t \in Turns : OrphanTaken(t)
           \/ \E t \in Turns : SendApplies(t)
           \/ \E t \in Turns : SendUnsaved(t)
           \/ \E t \in Turns : SendFails(t)
           \/ \E i \in Ids : RunEnds(i)
           \/ \E i \in Ids : Deny(i)
           \/ \E i \in Ids : Allow(i)
           \/ AlarmFires
           \/ PollAnswered
           \/ PollApplies
           \/ PollBacksOff
           \/ ResumeRuns
           \/ ResumeFindsOld
           \/ ResumeFails
           \/ CancelBegins
           \/ CancelDrops
           \/ CancelTaken
           \/ CancelApplies
           \/ AllowEnds
           \/ Clear
           \/ Kill
  <2>1. UNCHANGED <<givenUp, shared, forgotten>>
    BY <1>4 DEF history, Ask, Retry, PostTaken, PostRefused, OrphanTaken,
                SendApplies, SendUnsaved, SendFails, RunEnds, Deny, Allow,
                AlarmFires, PollAnswered, PollApplies, PollBacksOff, ResumeRuns,
                ResumeFindsOld, ResumeFails, CancelBegins, CancelDrops,
                CancelTaken, CancelApplies, AllowEnds, Clear, Kill
  <2> QED
    BY <2>1, <1>0 DEF TypeOK
<1> QED
  BY <1>1, <1>2, <1>3, <1>4, NextCases

LEMMA RequestsType ==
    ASSUME IInv, Next
    PROVE  /\ post' \in [Turns -> {"sent", "orphan", "error", "over"} \cup Status]
           /\ run' \in [Ids -> {"none"} \cup Status]
           /\ req' \in [Turns -> 0..MaxIds] /\ turns' \in 0..MaxTurns
<1>0. TypeOK
  BY DEF IInv
<1> USE HelpAssumption
<1>1. CASE Ask
  <2>1. turns' \in 0..MaxTurns /\ turns + 1 \in Turns /\ turns' = turns + 1
        /\ post' = [post EXCEPT ![turns + 1] = "sent"] /\ run' = run
    BY <1>1, <1>0 DEF Ask, Send, TypeOK, Turns
  <2>2. req' = [req EXCEPT ![turns + 1] = ids + 1] /\ ids + 1 \in 0..MaxIds
    BY <1>1, <1>0 DEF Ask, Send, TypeOK
  <2> QED
    BY <2>1, <2>2, <1>0 DEF TypeOK, Turns
<1>2. CASE Retry
  <2>1. chat.error.id \in 0..MaxIds /\ ids \in 0..MaxIds
    BY <1>0 DEF TypeOK
  <2>2. \E i \in 0..MaxIds : Send(i, chat.error.ask, TRUE)
    <3>1. CASE chat.error.reuse
      BY <1>2, <2>1, <3>1 DEF Retry
    <3>2. CASE ~chat.error.reuse
      <4>1. ids + 1 \in 0..MaxIds
        BY <1>2, <2>1, <3>2 DEF Retry
      <4> QED
        BY <1>2, <3>2, <4>1 DEF Retry
    <3> QED
      BY <3>1, <3>2
  <2> PICK i \in 0..MaxIds : Send(i, chat.error.ask, TRUE)
    BY <2>2
  <2>3. turns' \in 0..MaxTurns /\ turns + 1 \in Turns
        /\ post' = [post EXCEPT ![turns + 1] = "sent"]
        /\ req' = [req EXCEPT ![turns + 1] = i]
    BY <1>0 DEF Send, TypeOK, Turns
  <2>4. run' = run
    BY <1>2 DEF Retry
  <2> QED
    BY <2>3, <2>4, <1>0 DEF TypeOK
<1>3. CASE \E t \in Turns : PostTaken(t)
  <2> PICK t \in Turns : PostTaken(t)
    BY <1>3
  <2>0. /\ run \in [Ids -> {"none"} \cup Status] /\ "live" \in Status
        /\ post \in [Turns -> {"sent", "orphan", "error", "over"} \cup Status]
    BY <1>0 DEF TypeOK, Status
  <2>1. post[t] = "sent" /\ run' = Started(req[t])
        /\ \/ post' = [post EXCEPT ![t] = run'[req[t]]]
           \/ post' = [post EXCEPT ![t] = "error"]
    BY DEF PostTaken
  <2>2. run' \in [Ids -> {"none"} \cup Status]
    BY <2>0, <2>1 DEF Started
  <2>3. req[t] \in Ids
    <3>1. req[t] \in 1..ids /\ ids \in 0..MaxIds
      BY <2>1, <1>0 DEF IInv, Requests, TypeOK
    <3> QED
      BY <3>1 DEF Ids
  <2>4. run'[req[t]] \in Status
    BY <2>0, <2>1, <2>3 DEF Started
  <2>5. UNCHANGED <<req, turns>>
    BY DEF PostTaken, asked
  <2> QED
    BY <2>0, <2>1, <2>2, <2>4, <2>5, <1>0 DEF TypeOK
<1>4. CASE \E t \in Turns : PostRefused(t)
  BY <1>4, <1>0 DEF PostRefused, TypeOK, Status, Ended, Started, asked
<1>5. CASE \E t \in Turns : OrphanTaken(t)
  <2> PICK t \in Turns : OrphanTaken(t)
    BY <1>5
  <2>0. /\ run \in [Ids -> {"none"} \cup Status] /\ "live" \in Status
        /\ post \in [Turns -> {"sent", "orphan", "error", "over"} \cup Status]
    BY <1>0 DEF TypeOK, Status
  <2>1. run' = Started(req[t]) /\ post' = [post EXCEPT ![t] = "over"]
    BY DEF OrphanTaken
  <2>2. run' \in [Ids -> {"none"} \cup Status]
    BY <2>0, <2>1 DEF Started
  <2>3. UNCHANGED <<req, turns>>
    BY DEF OrphanTaken, asked
  <2> QED
    BY <2>0, <2>1, <2>2, <2>3, <1>0 DEF TypeOK
<1>6. CASE \E t \in Turns : SendApplies(t)
  BY <1>6, <1>0 DEF SendApplies, TypeOK, Status, Ended, Started, asked
<1>7. CASE \E t \in Turns : SendUnsaved(t)
  BY <1>7, <1>0 DEF SendUnsaved, TypeOK, Status, Ended, Started, asked
<1>8. CASE \E t \in Turns : SendFails(t)
  BY <1>8, <1>0 DEF SendFails, TypeOK, Status, Ended, Started, asked
<1>9. CASE \E i \in Ids : RunEnds(i)
  <2> PICK i \in Ids : RunEnds(i)
    BY <1>9
  <2>1. UNCHANGED <<post, req, turns>>
    BY DEF RunEnds, asked, calls
  <2>2. run' = [run EXCEPT ![i] = "done"] \/ run' = [run EXCEPT ![i] = "failed"]
    BY DEF RunEnds
  <2>3. "done" \in Status /\ "failed" \in Status /\ run \in [Ids -> {"none"} \cup Status]
    BY <1>0 DEF TypeOK, Status, Ended
  <2>4. run' \in [Ids -> {"none"} \cup Status]
    BY <2>2, <2>3
  <2> QED
    BY <2>1, <2>4, <1>0 DEF TypeOK
<1>10. CASE CancelTaken
  BY <1>10, <1>0 DEF CancelTaken, TypeOK, Status, Ended, Started, asked
<1>11. CASE AllowSends
  <2>1. CASE UNCHANGED <<turns, req, post>>
    BY <1>11, <2>1, <1>0 DEF AllowSends, TypeOK
  <2>2. CASE Send(resolve.id, question[resolve.id], resolve.stage = "again")
    <3>1. turns' \in 0..MaxTurns /\ turns + 1 \in Turns /\ turns' = turns + 1
          /\ post' = [post EXCEPT ![turns + 1] = "sent"]
          /\ req' = [req EXCEPT ![turns + 1] = resolve.id]
      BY <2>2, <1>0 DEF Send, TypeOK, Turns
    <3>2. resolve.id \in 0..MaxIds /\ run' = run
      BY <1>11, <1>0 DEF AllowSends, TypeOK
    <3> QED
      BY <3>1, <3>2, <1>0 DEF TypeOK, Turns
  <2> QED
    BY <1>11, <2>1, <2>2 DEF AllowSends
<1>12. CASE Kill
  BY <1>12, <1>0 DEF Kill, TypeOK, Status, Ended, Started, asked
<1>13. CASE \/ \E i \in Ids : Deny(i)
            \/ \E i \in Ids : Allow(i)
            \/ AlarmFires
            \/ PollAnswered
            \/ PollApplies
            \/ PollGivesUp
            \/ PollBacksOff
            \/ ResumeRuns
            \/ ResumeFindsOld
            \/ ResumeFails
            \/ CancelBegins
            \/ CancelDrops
            \/ CancelApplies
            \/ AllowEnds
            \/ Clear
            \/ ClearEnds
  <2>1. UNCHANGED <<post, run, req, turns>>
    BY <1>13 DEF asked, calls, Deny, Allow, AlarmFires, PollAnswered,
                 PollApplies, PollGivesUp, PollBacksOff, ResumeRuns,
                 ResumeFindsOld, ResumeFails, CancelBegins, CancelDrops,
                 CancelApplies, AllowEnds, Clear, ClearEnds
  <2> QED
    BY <2>1, <1>0 DEF TypeOK
<1> QED
  BY <1>1, <1>2, <1>3, <1>4, <1>5, <1>6, <1>7, <1>8, <1>9, <1>10, <1>11,
     <1>12, <1>13, NextCases

LEMMA CallsType ==
    ASSUME IInv, Next
    PROVE  /\ poll' \in [id : 0..MaxIds, answer : {"none", "refused", "broken"} \cup Status]
           /\ cancel' \in [stage : {"none", "asking", "dropping"}, id : 0..MaxIds,
                          answer : {"none"} \cup Status]
<1>0. TypeOK
  BY DEF IInv
<1> USE HelpAssumption
<1>1. CASE AlarmFires
  BY <1>1, <1>0 DEF AlarmFires, TypeOK, PollBegins, PollOrSchedule, NoPoll,
                    NoCancel, calls, Status, Ended
<1>2. CASE PollAnswered
  <2>0. /\ run \in [Ids -> {"none"} \cup Status] /\ ids \in 0..MaxIds
        /\ poll \in [id : 0..MaxIds, answer : {"none", "refused", "broken"} \cup Status]
        /\ cancel \in [stage : {"none", "asking", "dropping"}, id : 0..MaxIds,
                        answer : {"none"} \cup Status]
    BY <1>0 DEF TypeOK
  <2>1. poll.id \in Ids
    BY <1>2, <2>0 DEF PollAnswered, IInv, Polling, Ids
  <2>2. cancel' = cancel
    BY <1>2 DEF PollAnswered
  <2>3. \/ poll' = [poll EXCEPT !.answer = run[poll.id]]
        \/ \E answer \in {"refused", "broken"} : poll' = [poll EXCEPT !.answer = answer]
    BY <1>2 DEF PollAnswered
  <2>4. run[poll.id] \in {"none"} \cup Status
    BY <2>0, <2>1
  <2> QED
    BY <2>0, <2>2, <2>3, <2>4
<1>3. CASE PollApplies
  BY <1>3, <1>0 DEF PollApplies, TypeOK, PollBegins, PollOrSchedule, NoPoll,
                    NoCancel, calls, Status, Ended
<1>4. CASE PollGivesUp
  BY <1>4, <1>0 DEF PollGivesUp, TypeOK, PollBegins, PollOrSchedule, NoPoll,
                    NoCancel, calls, Status, Ended
<1>5. CASE PollBacksOff
  BY <1>5, <1>0 DEF PollBacksOff, TypeOK, PollBegins, PollOrSchedule, NoPoll,
                    NoCancel, calls, Status, Ended
<1>6. CASE ResumeRuns
  BY <1>6, <1>0 DEF ResumeRuns, TypeOK, PollBegins, PollOrSchedule, NoPoll,
                    NoCancel, calls, Status, Ended
<1>7. CASE ResumeFails
  BY <1>7, <1>0 DEF ResumeFails, TypeOK, PollBegins, PollOrSchedule, NoPoll,
                    NoCancel, calls, Status, Ended
<1>8. CASE CancelBegins
  BY <1>8, <1>0 DEF CancelBegins, TypeOK, PollBegins, PollOrSchedule, NoPoll,
                    NoCancel, calls, Status, Ended
<1>9. CASE CancelDrops
  BY <1>9, <1>0 DEF CancelDrops, TypeOK, PollBegins, PollOrSchedule, NoPoll,
                    NoCancel, calls, Status, Ended
<1>10. CASE CancelTaken
  <2>0. /\ run \in [Ids -> {"none"} \cup Status] /\ ids \in 0..MaxIds
        /\ poll \in [id : 0..MaxIds, answer : {"none", "refused", "broken"} \cup Status]
        /\ cancel \in [stage : {"none", "asking", "dropping"}, id : 0..MaxIds,
                        answer : {"none"} \cup Status]
    BY <1>0 DEF TypeOK
  <2>1. cancel.id \in Ids
    BY <1>10, <2>0 DEF CancelTaken, IInv, Cancelling, Ids
  <2>2. poll' = poll /\ run' = [run EXCEPT ![cancel.id] =
                                IF run[cancel.id] = "live" THEN "cancelled"
                                ELSE run[cancel.id]]
    BY <1>10 DEF CancelTaken
  <2>3. \/ cancel' = [cancel EXCEPT !.answer = run'[cancel.id]]
        \/ cancel' = NoCancel
    BY <1>10 DEF CancelTaken
  <2>4. run'[cancel.id] \in {"none"} \cup Status
    BY <2>0, <2>1, <2>2 DEF Status, Ended
  <2> QED
    BY <2>0, <2>2, <2>3, <2>4 DEF NoCancel
<1>11. CASE CancelApplies
  BY <1>11, <1>0 DEF CancelApplies, TypeOK, PollBegins, PollOrSchedule, NoPoll,
                     NoCancel, calls, Status, Ended
<1>12. CASE Kill
  BY <1>12, <1>0 DEF Kill, TypeOK, PollBegins, PollOrSchedule, NoPoll, NoCancel,
                     calls, Status, Ended
<1>13. CASE \/ Ask
            \/ Retry
            \/ \E t \in Turns : PostTaken(t)
            \/ \E t \in Turns : PostRefused(t)
            \/ \E t \in Turns : OrphanTaken(t)
            \/ \E t \in Turns : SendApplies(t)
            \/ \E t \in Turns : SendUnsaved(t)
            \/ \E t \in Turns : SendFails(t)
            \/ \E i \in Ids : RunEnds(i)
            \/ \E i \in Ids : Deny(i)
            \/ \E i \in Ids : Allow(i)
            \/ ResumeFindsOld
            \/ AllowSends
            \/ AllowEnds
            \/ Clear
            \/ ClearEnds
  <2>1. UNCHANGED <<poll, cancel>>
    BY <1>13 DEF calls, Send, Ask, Retry, PostTaken, PostRefused, OrphanTaken,
                 SendApplies, SendUnsaved, SendFails, RunEnds, Deny, Allow,
                 ResumeFindsOld, AllowSends, AllowEnds, Clear, ClearEnds
  <2> QED
    BY <2>1, <1>0 DEF TypeOK
<1> QED
  BY <1>1, <1>2, <1>3, <1>4, <1>5, <1>6, <1>7, <1>8, <1>9, <1>10, <1>11,
     <1>12, <1>13, NextCases

LEMMA ApprovalsType ==
    ASSUME IInv, Next
    PROVE  /\ approvals' \in [Ids -> [status : {"none", "pending", "submitted", "denied",
                                       "failed"}, id : 0..MaxIds]]
           /\ resolve' \in [stage : {"none", "new", "again", "sending", "submitted", "failed"},
                           receipt : 0..MaxIds, id : 0..MaxIds, turn : 0..MaxTurns]
<1>0. TypeOK
  BY DEF IInv
<1> USE HelpAssumption
<1>1. CASE \E t \in Turns : SendApplies(t)
  <2>0. /\ resolve \in [stage : {"none", "new", "again", "sending", "submitted", "failed"},
                         receipt : 0..MaxIds, id : 0..MaxIds, turn : 0..MaxTurns]
        /\ approvals \in [Ids -> [status : {"none", "pending", "submitted", "denied",
                                          "failed"}, id : 0..MaxIds]]
        /\ ids \in 0..MaxIds /\ turns \in 0..MaxTurns
    BY <1>0 DEF TypeOK
  <2> PICK t \in Turns : SendApplies(t)
    BY <1>1
  <2>1. approvals' = approvals /\ Resolved(t)
    BY DEF SendApplies
  <2> QED
    BY <2>0, <2>1 DEF Resolved
<1>2. CASE \E t \in Turns : SendFails(t)
  <2>0. /\ resolve \in [stage : {"none", "new", "again", "sending", "submitted", "failed"},
                         receipt : 0..MaxIds, id : 0..MaxIds, turn : 0..MaxTurns]
        /\ approvals \in [Ids -> [status : {"none", "pending", "submitted", "denied",
                                          "failed"}, id : 0..MaxIds]]
        /\ ids \in 0..MaxIds /\ turns \in 0..MaxTurns
    BY <1>0 DEF TypeOK
  <2> PICK t \in Turns : SendFails(t)
    BY <1>2
  <2>1. approvals' = approvals /\ Resolved(t)
    BY DEF SendFails
  <2> QED
    BY <2>0, <2>1 DEF Resolved
<1>3. CASE \E i \in Ids : Deny(i)
  <2>0. /\ resolve \in [stage : {"none", "new", "again", "sending", "submitted", "failed"},
                         receipt : 0..MaxIds, id : 0..MaxIds, turn : 0..MaxTurns]
        /\ approvals \in [Ids -> [status : {"none", "pending", "submitted", "denied",
                                          "failed"}, id : 0..MaxIds]]
        /\ ids \in 0..MaxIds /\ turns \in 0..MaxTurns
    BY <1>0 DEF TypeOK
  <2>1. \E i \in Ids : approvals' = [approvals EXCEPT ![i].status = "denied"]
    BY <1>3 DEF Deny
  <2>2. resolve' = resolve
    BY <1>3 DEF Deny, calls
  <2> QED
    BY <2>0, <2>1, <2>2
<1>4. CASE \E i \in Ids : Allow(i)
  <2>0. /\ resolve \in [stage : {"none", "new", "again", "sending", "submitted", "failed"},
                         receipt : 0..MaxIds, id : 0..MaxIds, turn : 0..MaxTurns]
        /\ approvals \in [Ids -> [status : {"none", "pending", "submitted", "denied",
                                          "failed"}, id : 0..MaxIds]]
    BY <1>0 DEF TypeOK
  <2> PICK r \in Ids : Allow(r)
    BY <1>4
  <2>1. PICK id \in Ids, stage \in {"new", "again"} :
          /\ approvals' = [approvals EXCEPT ![r] = [status |-> "pending", id |-> id]]
          /\ resolve' = [stage |-> stage, receipt |-> r, id |-> id, turn |-> 0]
    BY DEF Allow
  <2>2. r \in 0..MaxIds /\ id \in 0..MaxIds /\ 0 \in 0..MaxTurns
    BY DEF Ids
  <2> QED
    BY <2>0, <2>1, <2>2
<1>5. CASE AllowSends
  <2>0. /\ resolve \in [stage : {"none", "new", "again", "sending", "submitted", "failed"},
                         receipt : 0..MaxIds, id : 0..MaxIds, turn : 0..MaxTurns]
        /\ approvals \in [Ids -> [status : {"none", "pending", "submitted", "denied",
                                          "failed"}, id : 0..MaxIds]]
        /\ ids \in 0..MaxIds /\ turns \in 0..MaxTurns
    BY <1>0 DEF TypeOK
  <2>1. approvals' = approvals
    BY <1>5 DEF AllowSends
  <2>2. \/ resolve' = [resolve EXCEPT !.stage = "sending", !.turn = turns + 1] /\ turns < MaxTurns
        \/ resolve' = NoResolve
    BY <1>5 DEF AllowSends, Send
  <2>3. turns < MaxTurns => turns + 1 \in 0..MaxTurns
    BY <2>0
  <2>4. NoResolve \in [stage : {"none", "new", "again", "sending", "submitted", "failed"},
                        receipt : 0..MaxIds, id : 0..MaxIds, turn : 0..MaxTurns]
    BY DEF NoResolve
  <2> QED
    BY <2>0, <2>1, <2>2, <2>3, <2>4
<1>6. CASE AllowEnds
  <2>0. /\ resolve \in [stage : {"none", "new", "again", "sending", "submitted", "failed"},
                         receipt : 0..MaxIds, id : 0..MaxIds, turn : 0..MaxTurns]
        /\ approvals \in [Ids -> [status : {"none", "pending", "submitted", "denied",
                                          "failed"}, id : 0..MaxIds]]
        /\ ids \in 0..MaxIds /\ turns \in 0..MaxTurns
    BY <1>0 DEF TypeOK
  <2>1. resolve.stage \in {"submitted", "failed"} /\ resolve' = NoResolve
        /\ approvals' = [approvals EXCEPT ![resolve.receipt] =
                            [status |-> resolve.stage, id |-> resolve.id]]
    BY <1>6 DEF AllowEnds
  <2>2. [status |-> resolve.stage, id |-> resolve.id]
          \in [status : {"none", "pending", "submitted", "denied", "failed"}, id : 0..MaxIds]
    BY <2>0, <2>1
  <2>4. NoResolve \in [stage : {"none", "new", "again", "sending", "submitted", "failed"},
                        receipt : 0..MaxIds, id : 0..MaxIds, turn : 0..MaxTurns]
    BY DEF NoResolve
  <2> QED
    BY <2>0, <2>1, <2>2, <2>4
<1>7. CASE ClearEnds
  BY <1>7, <1>0 DEF ClearEnds, TypeOK, Resolved, NoResolve, NoApproval, calls, Ids
<1>8. CASE Kill
  BY <1>8, <1>0 DEF Kill, TypeOK, Resolved, NoResolve, NoApproval, calls, Ids
<1>9. CASE \/ Ask
           \/ Retry
           \/ \E t \in Turns : PostTaken(t)
           \/ \E t \in Turns : PostRefused(t)
           \/ \E t \in Turns : OrphanTaken(t)
           \/ \E t \in Turns : SendUnsaved(t)
           \/ \E i \in Ids : RunEnds(i)
           \/ AlarmFires
           \/ PollAnswered
           \/ PollApplies
           \/ PollGivesUp
           \/ PollBacksOff
           \/ ResumeRuns
           \/ ResumeFindsOld
           \/ ResumeFails
           \/ CancelBegins
           \/ CancelDrops
           \/ CancelTaken
           \/ CancelApplies
           \/ Clear
  <2>1. UNCHANGED <<approvals, resolve>>
    BY <1>9 DEF calls, Send, Ask, Retry, PostTaken, PostRefused, OrphanTaken,
                SendUnsaved, RunEnds, AlarmFires, PollAnswered, PollApplies,
                PollGivesUp, PollBacksOff, ResumeRuns, ResumeFindsOld,
                ResumeFails, CancelBegins, CancelDrops, CancelTaken,
                CancelApplies, Clear
  <2> QED
    BY <2>1, <1>0 DEF TypeOK
<1> QED
  BY <1>1, <1>2, <1>3, <1>4, <1>5, <1>6, <1>7, <1>8, <1>9, NextCases
-----------------------------------------------------------------------------
(* What a step may do to the messages.                                     *)
Said(m, i, w) ==
    \/ w = m \/ w = <<>>
    \/ \E q \in 0..MaxIds : w = Append(m, Bubble(q))
    \/ w = Append(m, Answer(i))

LEMMA ApplyRunSays ==
    ASSUME NEW c \in Chat, NEW i \in 0..MaxIds, NEW status
    PROVE  \/ ApplyRun(c, i, status).messages = c.messages
           \/ ApplyRun(c, i, status).messages = Append(c.messages, Answer(i))
<1>1. CASE status = "live"
  BY <1>1, LiveTurn
<1>2. CASE status = "done"
  BY <1>2, DoneTurn
<1>3. CASE status = "cancelled"
  BY <1>3, CancelledTurn
<1>4. CASE status \notin {"live", "done", "cancelled"}
  <2>1. ApplyRun(c, i, status) = FailTurn(c, LastAsked(c.messages), FALSE)
    BY <1>4, FailedRun
  <2> QED
    BY <2>1 DEF FailTurn, TurnOver
<1> QED
  BY <1>1, <1>2, <1>3, <1>4

LEMMA BeginTurnSays ==
    ASSUME NEW c \in Chat, NEW i \in 0..MaxIds, NEW q \in 0..MaxIds, NEW reuse \in BOOLEAN
    PROVE  \/ BeginTurn(c, i, q, reuse).messages = c.messages
           \/ BeginTurn(c, i, q, reuse).messages = Append(c.messages, Bubble(q))
<1> DEFINE again == reuse /\ c.messages # <<>> /\ Last(c.messages) = Bubble(q)
<1>1. BeginTurn(c, i, q, reuse).messages =
        IF again THEN c.messages ELSE Append(c.messages, Bubble(q))
  BY BegunTurn
<1> HIDE DEF again
<1> QED
  BY <1>1

LEMMA MessagesStep ==
    ASSUME IInv, Next
    PROVE  Said(chat.messages, chat.active, chat'.messages)
<1>0. /\ chat \in Chat /\ ids \in 0..MaxIds /\ Requests
      /\ question \in Question /\ Sound(chat, ids, question, Dead, Continuations)
      /\ resolve.id \in 0..MaxIds /\ poll.id \in 0..MaxIds /\ cancel.id \in 0..MaxIds
      /\ 0 \in 0..MaxIds /\ MaxIds \in Nat
  BY TypesHold, HelpAssumption DEF IInv, Types
<1>a. ASSUME NEW i \in 0..MaxIds, NEW q \in 0..MaxIds, NEW reuse \in BOOLEAN,
             chat' = BeginTurn(chat, i, q, reuse)
      PROVE  Said(chat.messages, chat.active, chat'.messages)
  BY <1>0, <1>a, BeginTurnSays DEF Said
<1>b. ASSUME NEW q, NEW reuse, chat' = FailTurn(chat, q, reuse)
      PROVE  Said(chat.messages, chat.active, chat'.messages)
  BY <1>b DEF Said, FailTurn, TurnOver
<1>c. ASSUME chat' = chat
      PROVE  Said(chat.messages, chat.active, chat'.messages)
  BY <1>c DEF Said
<1>d. ASSUME NEW status, chat' = ApplyRun(chat, chat.active, status)
      PROVE  Said(chat.messages, chat.active, chat'.messages)
  <2>1. chat.active \in 0..MaxIds
    BY <1>0, ChatFields
  <2> QED
    BY <1>0, <1>d, <2>1, ApplyRunSays DEF Said
<1>1. CASE Ask
  <2>1. chat' = BeginTurn(chat, ids + 1, ids + 1, FALSE) /\ ids + 1 \in 0..MaxIds
    BY <1>1, <1>0 DEF Ask, Send
  <2> QED
    BY <2>1, <1>a
<1>2. CASE Retry
  <2>1. chat.error.id \in 0..MaxIds /\ chat.error.ask \in 0..MaxIds
    BY <1>0, ChatFields
  <2>2. CASE chat.error.reuse
    <3>1. chat' = BeginTurn(chat, chat.error.id, chat.error.ask, TRUE)
      BY <1>2, <2>2 DEF Retry, Send
    <3> QED
      BY <2>1, <3>1, <1>a
  <2>3. CASE ~chat.error.reuse
    <3>1. chat' = BeginTurn(chat, ids + 1, chat.error.ask, TRUE) /\ ids + 1 \in 0..MaxIds
      BY <1>2, <2>3, <1>0 DEF Retry, Send
    <3> QED
      BY <2>1, <3>1, <1>a
  <2> QED
    BY <2>2, <2>3
<1>3. CASE AllowSends
  <2>1. CASE chat' = chat
    BY <2>1, <1>c
  <2>2. CASE Send(resolve.id, question[resolve.id], resolve.stage = "again")
    <3> DEFINE again == resolve.stage = "again"
    <3>1. resolve.id \in Ids
      BY <1>3, <1>0 DEF AllowSends, IInv, Resolving, Ids
    <3>2. question[resolve.id] \in 0..MaxIds
      BY <3>1, <1>0 DEF Question
    <3>3. again \in BOOLEAN /\ chat' = BeginTurn(chat, resolve.id, question[resolve.id], again)
      BY <2>2 DEF Send
    <3> HIDE DEF again
    <3> QED
      BY <3>2, <3>3, <1>0, <1>a
  <2> QED
    BY <1>3, <2>1, <2>2 DEF AllowSends
<1>4. CASE \E t \in Turns : SendApplies(t)
  <2> PICK t \in Turns : SendApplies(t)
    BY <1>4
  <2>1. chat' = IF chat.active = req[t] THEN ApplyRun(chat, req[t], post[t]) ELSE chat
    BY DEF SendApplies
  <2> QED
    BY <2>1, <1>c, <1>d
<1>5. CASE PollApplies
  <2>1. chat' = chat \/ chat' = ApplyRun(chat, chat.active, poll.answer)
    BY <1>5 DEF PollApplies, Polled
  <2> QED
    BY <2>1, <1>c, <1>d
<1>6. CASE CancelApplies
  <2>1. chat' = chat \/ chat' = ApplyRun(chat, chat.active, cancel.answer)
    BY <1>6 DEF CancelApplies
  <2> QED
    BY <2>1, <1>c, <1>d
<1>7. CASE CancelDrops
  <2>1. chat' = ApplyRun(chat, 0, "cancelled")
    BY <1>7 DEF CancelDrops
  <2> QED
    BY <2>1, <1>0, CancelledTurn DEF Said
<1>8. CASE \/ \E t \in Turns : SendFails(t)
           \/ PollGivesUp
           \/ ResumeFails
  <2>1. chat' = chat \/ \E q, reuse : chat' = FailTurn(chat, q, reuse)
    BY <1>8, Zenon DEF SendFails, PollGivesUp, ResumeFails
  <2> QED
    BY <2>1, <1>b, <1>c
<1>9. CASE Clear
  BY <1>9 DEF Clear, EmptyChat, Said
<1>10. CASE \/ \E t \in Turns : PostTaken(t)
            \/ \E t \in Turns : PostRefused(t)
            \/ \E t \in Turns : OrphanTaken(t)
            \/ \E t \in Turns : SendUnsaved(t)
            \/ \E i \in Ids : RunEnds(i)
            \/ \E i \in Ids : Deny(i)
            \/ \E i \in Ids : Allow(i)
            \/ AlarmFires
            \/ PollAnswered
            \/ PollBacksOff
            \/ ResumeRuns
            \/ ResumeFindsOld
            \/ CancelBegins
            \/ CancelTaken
            \/ AllowEnds
            \/ ClearEnds
            \/ Kill
  <2>1. chat' = chat
    BY <1>10 DEF PostTaken, PostRefused, OrphanTaken, SendUnsaved, RunEnds,
                 Deny, Allow, AlarmFires, PollAnswered, PollBacksOff,
                 ResumeRuns, ResumeFindsOld, CancelBegins, CancelTaken,
                 AllowEnds, ClearEnds, Kill
  <2> QED
    BY <2>1, <1>c
<1> QED
  BY <1>1, <1>2, <1>3, <1>4, <1>5, <1>6, <1>7, <1>8, <1>9, <1>10, NextCases

(* Only the active turn is ever answered.                                  *)
OnlyActiveAnswered ==
    \A i \in Ids : /\ Answer(i) \in ToSet(chat'.messages)
                   /\ Answer(i) \notin ToSet(chat.messages)
                   => chat.active = i

LEMMA AnsweredStep ==
    ASSUME IInv, [Next]_vars
    PROVE  OnlyActiveAnswered
<1> DEFINE m == chat.messages
           w == chat'.messages
<1>1. chat \in Chat /\ m \in Seq(Message)
  BY TypesHold, ChatFields DEF IInv, Types
<1>2. CASE Next
  <2>1. Said(m, chat.active, w)
    BY <1>2, MessagesStep
  <2> SUFFICES ASSUME NEW i \in Ids, Answer(i) \in ToSet(w), Answer(i) \notin ToSet(m)
               PROVE  chat.active = i
    BY DEF OnlyActiveAnswered
  <2>2. PICK k \in DOMAIN w : w[k] = Answer(i)
    BY DEF ToSet
  <2>3. \A l \in DOMAIN m : m[l] # Answer(i)
    BY DEF ToSet
  <2> HIDE DEF m, w
  <2>4. /\ chat.active \in 0..MaxIds
        /\ \A q : /\ Answer(q).role = "assistant" /\ Answer(q).id = q
                  /\ Bubble(q).role = "user"
    BY <1>1, ChatFields DEF Answer, Bubble
  <2>5. CASE w = m \/ w = <<>>
    BY <2>2, <2>3, <2>5
  <2>6. ASSUME NEW x \in Message, w = Append(m, x)
        PROVE  x = Answer(i)
    BY <1>1, <2>2, <2>3, <2>6
  <2>7. CASE \E q \in 0..MaxIds : w = Append(m, Bubble(q))
    BY <2>4, <2>6, <2>7, BubbleType
  <2>8. CASE w = Append(m, Answer(chat.active))
    BY <2>4, <2>6, <2>8, BubbleType
  <2> QED
    BY <2>1, <2>5, <2>7, <2>8 DEF Said
<1>3. CASE UNCHANGED vars
  BY <1>3 DEF vars, OnlyActiveAnswered
<1> QED
  BY <1>2, <1>3
-----------------------------------------------------------------------------
LEMMA InitIInv == Init => IInv
<1> SUFFICES ASSUME Init PROVE IInv
  OBVIOUS
<1> USE HelpAssumption
<1>1. TypeOK
  <2>1. /\ chat \in [messages : Seq([role : {"user", "assistant"}, id : 0..MaxIds]),
                    active : 0..MaxIds, running : BOOLEAN,
                    error : [id : 0..MaxIds, ask : 0..MaxIds, reuse : BOOLEAN]]
        /\ approvals \in [Ids -> [status : {"none", "pending", "submitted", "denied",
                                          "failed"}, id : 0..MaxIds]]
    BY NoErrorType DEF Init, Chat, Message, Error, NoApproval
  <2>2. /\ poll \in [id : 0..MaxIds, answer : {"none", "refused", "broken"} \cup Status]
        /\ cancel \in [stage : {"none", "asking", "dropping"}, id : 0..MaxIds,
                       answer : {"none"} \cup Status]
        /\ resolve \in [stage : {"none", "new", "again", "sending", "submitted",
                                "failed"},
                        receipt : 0..MaxIds, id : 0..MaxIds, turn : 0..MaxTurns]
    BY DEF Init, NoPoll, NoCancel, NoResolve
  <2>3. /\ alarm \in BOOLEAN /\ resume \in BOOLEAN /\ clearing \in BOOLEAN
        /\ post \in [Turns -> {"sent", "orphan", "error", "over"} \cup Status]
        /\ run \in [Ids -> {"none"} \cup Status]
    BY DEF Init
  <2>4. /\ req \in [Turns -> 0..MaxIds] /\ question \in [Ids -> 0..MaxIds]
        /\ turns \in 0..MaxTurns /\ ids \in 0..MaxIds
        /\ givenUp \subseteq Ids /\ shared \in [Ids -> SUBSET Ids] /\ forgotten \subseteq Ids
        /\ decisions \in 0..MaxDecisions /\ mishaps \in 0..MaxMishaps
    BY DEF Init
  <2> QED
    BY <2>1, <2>2, <2>3, <2>4 DEF TypeOK
<1>2. Numbered(ids, question) /\ Replaced(question, Dead, Continuations)
  BY DEF Init, Numbered, Replaced, Ids
<1>3. Sound(chat, ids, question, Dead, Continuations)
  BY DEF Init, EmptyChat, NoError, Sound, InOrder, Waiting, Failed
<1>4. Runs /\ Requests /\ Polling /\ Cancelling
  BY DEF Init, NoPoll, NoCancel, Runs, Requests, Polling, Cancelling
<1>5. Recorded(ids, question) /\ Resolving(ids, question)
  BY DEF Init, NoApproval, NoResolve, Recorded, Resolving
<1> QED
  BY <1>1, <1>2, <1>3, <1>4, <1>5 DEF IInv

LEMMA TypeStep ==
    ASSUME IInv, Next
    PROVE  TypeOK'
<1>1. chat' \in [messages : Seq([role : {"user", "assistant"}, id : 0..MaxIds]),
                 active : 0..MaxIds, running : BOOLEAN,
                 error : [id : 0..MaxIds, ask : 0..MaxIds, reuse : BOOLEAN]]
  BY SoundStep DEF Chat, Message, Error
<1>2. ids' \in 0..MaxIds /\ question' \in [Ids -> 0..MaxIds]
  BY FurtherStep DEF Further, Question
<1> QED
  BY <1>1, <1>2, BoundsType, FlagsType, HistoryType, RequestsType, CallsType,
     ApprovalsType DEF TypeOK

LEMMA NextIInv == IInv /\ [Next]_vars => IInv'
<1> SUFFICES ASSUME IInv, [Next]_vars PROVE IInv'
  OBVIOUS
<1>1. CASE Next
  <2>1. Numbered(ids, question)'
    BY <1>1, FurtherStep DEF Further
  <2> QED
    BY <1>1, <2>1, TypeStep, SoundStep, ReplacedStep, RunsMade, RequestsStep,
       PollingStep,
       CancellingStep, RecordStep DEF IInv
<1>2. CASE UNCHANGED vars
  <2>1. UNCHANGED <<chat, approvals, alarm, post, poll, resume, cancel, resolve, clearing,
                    run, req, question, turns, ids, givenUp, shared, forgotten,
                    decisions, mishaps>>
    BY <1>2 DEF vars, calls, asked, history, bounds
  <2>2. Dead' = Dead /\ Continuations' = Continuations
    BY <2>1 DEF Dead, Continuations
  <2>3. TypeOK'
    BY <2>1 DEF IInv, TypeOK
  <2>4. Numbered(ids, question)'
    BY <2>1 DEF IInv, Numbered
  <2>5. Sound(chat, ids, question, Dead, Continuations)'
    <3>1. InOrder(chat.messages, ids, question, Continuations)'
      BY <2>1, <2>2 DEF IInv, Sound, InOrder
    <3>2. Waiting(chat, ids, question, Continuations)'
      BY <2>1, <2>2 DEF IInv, Sound, Waiting, Pending, Latest
    <3>3. Failed(chat, ids, question, Dead, Continuations)'
      BY <2>1, <2>2 DEF IInv, Sound, Failed, Pending, Latest
    <3> QED
      BY <3>1, <3>2, <3>3 DEF Sound
  <2>6. Replaced(question, Dead, Continuations)'
    BY <2>1, <2>2 DEF IInv, Replaced
  <2>7. Runs' /\ Requests' /\ Polling' /\ Cancelling'
    BY <2>1 DEF IInv, Runs, Requests, Polling, Cancelling
  <2>8. Recorded(ids, question)' /\ Resolving(ids, question)'
    BY <2>1 DEF IInv, Recorded, Resolving
  <2> QED
    BY <2>3, <2>4, <2>5, <2>6, <2>7, <2>8 DEF IInv
<1> QED
  BY <1>1, <1>2

LEMMA Inductive == Spec => []IInv
<1>1. Init => IInv
  BY InitIInv
<1>2. IInv /\ [Next]_vars => IInv'
  BY NextIInv
<1> QED
  BY <1>1, <1>2, PTL DEF Spec

(* The state of the conversation and of its calls keeps its shape, for any *)
(* number of turns, decisions and mishaps.                                 *)
THEOREM TypeCorrect == Spec => []TypeOK
<1>1. IInv => TypeOK
  BY DEF IInv
<1> QED
  BY <1>1, Inductive, PTL

(* Answers stand right behind their questions, once, and a typed question  *)
(* is shown once (send, poll, beginTurn, applyRun).                        *)
THEOREM MessagesInOrder == Spec => []ConversationInOrder
<1>1. IInv => ConversationInOrder
  BY DEF IInv, Sound, InOrder, ConversationInOrder
<1> QED
  BY <1>1, Inductive, PTL

(* A retry runs a question a second time only when its run is over for     *)
(* good (failTurn with reuseRequestId, retry).                             *)
THEOREM RetriesAreTheSameRun == Spec => []RetryIsTheSameRun
<1>1. IInv => RetryIsTheSameRun
  <2> SUFFICES ASSUME IInv, NEW i \in Ids, NEW j \in Ids, i < j, run[i] # "none",
                      question[i] = question[j],
                      i = question[i] \/ question[i] \notin Continuations
               PROVE  run[i] = "failed" \/ i \in givenUp
    BY DEF RetryIsTheSameRun
  <2>1. CASE question[j] # 0
    BY <2>1 DEF IInv, Replaced, Dead
  <2>2. CASE question[j] = 0
    <3>1. ids < i
      BY <2>2, HelpAssumption DEF IInv, TypeOK, Numbered, Ids
    <3> QED
      BY <3>1 DEF IInv, Runs
  <2> QED
    BY <2>1, <2>2
<1> QED
  BY <1>1, Inductive, PTL

(* Until a clear removes its record, data goes out under one identifier    *)
(* (resolveDataAccess).                                                    *)
THEOREM SharesOnce == Spec => []SharedUnderOneId
<1>1. IInv => SharedUnderOneId
  BY DEF IInv, Recorded, SharedUnderOneId
<1> QED
  BY <1>1, Inductive, PTL

(* No answer to a turn that was cancelled or replaced (the identifier that *)
(* send, poll and cancel compare before they apply one).                   *)
THEOREM CancelledIsNotAnswered == Spec => CancelledStaysCancelled
<1>1. IInv /\ [Next]_vars => [OnlyActiveAnswered]_vars
  BY AnsweredStep
<1>2. [OnlyActiveAnswered]_vars =>
        [\A i \in Ids : /\ Answer(i) \in ToSet(chat'.messages)
                        /\ Answer(i) \notin ToSet(chat.messages)
                        => chat.active = i]_vars
  BY DEF OnlyActiveAnswered
<1> QED
  BY <1>1, <1>2, Inductive, PTL DEF Spec, CancelledStaysCancelled
=============================================================================
