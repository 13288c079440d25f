------------------------- MODULE MessageQueueProofs -------------------------
(***************************************************************************)
(* What holds of MessageQueue for any number of handles and clearing tasks, *)
(* any queue limit and any number of messages: its types and the queue     *)
(* limit, that the retry markers tell retries from new prompts, and that   *)
(* every message is in exactly one place.  The marker protocol is          *)
(* inductive only together with the uniqueness of the ids in the three     *)
(* places a message can be, so that removing the marker of one message     *)
(* never unmarks another; the same uniqueness carries the conservation.    *)
(***************************************************************************)
EXTENDS MessageQueue, FiniteSetTheorems, TLAPS

(* What the overflow loops of the two ends of the VecDeque keep.            *)
LEMMA DropFrontKeepsSuffix ==
    ASSUME NEW q \in Seq(Message)
    PROVE  /\ DropFront(q) \in Seq(Message) /\ Len(DropFront(q)) \in Nat
           /\ Len(DropFront(q)) <= MaxLen
           /\ Len(DropFront(q)) <= Len(q)
           /\ \A i \in 1 .. Len(DropFront(q)) :
                 DropFront(q)[i] = q[i + (Len(q) - Len(DropFront(q)))]
<1>1. CASE Len(q) > MaxLen
  <2>1. DropFront(q) = SubSeq(q, Len(q) - MaxLen + 1, Len(q))
    BY <1>1 DEF DropFront
  <2>2. /\ DropFront(q) \in Seq(Message)
        /\ Len(DropFront(q)) = MaxLen
    BY <1>1, <2>1, MaxLenAssumption
  <2>3. \A i \in 1 .. MaxLen : DropFront(q)[i] = q[i + (Len(q) - MaxLen)]
    BY <1>1, <2>1, MaxLenAssumption
  <2> QED BY <1>1, <2>2, <2>3, MaxLenAssumption
<1>2. CASE ~(Len(q) > MaxLen)
  <2>1. DropFront(q) = q
    BY <1>2 DEF DropFront
  <2> QED BY <1>2, <2>1, MaxLenAssumption
<1> QED BY <1>1, <1>2

(* What is dropped from a full queue is taken from its end.                 *)
LEMMA DropBackKeepsPrefix ==
    ASSUME NEW q \in Seq(Message)
    PROVE  /\ DropBack(q) \in Seq(Message) /\ Len(DropBack(q)) \in Nat
           /\ Len(DropBack(q)) <= MaxLen
           /\ Len(DropBack(q)) <= Len(q)
           /\ \A i \in 1 .. Len(DropBack(q)) : DropBack(q)[i] = q[i]
BY MaxLenAssumption DEF DropBack

(* The ids of a sequence of messages are message ids.                       *)
LEMMA IdsType ==
    ASSUME NEW s \in Seq(Message)
    PROVE  Ids(s) \subseteq Id
<1>1. \A i \in 1 .. Len(s) : s[i] \in Message
  OBVIOUS
<1>2. \A m \in Message : m.id \in Id
  BY DEF Message
<1> QED BY <1>1, <1>2 DEF Ids

(* The ids that overflow are ids of messages of the sequence.               *)
LEMMA OverflowIds ==
    ASSUME NEW q \in Seq(Message)
    PROVE  /\ Ids(OverflowFront(q)) \subseteq Id
           /\ Ids(OverflowBack(q)) \subseteq Id
           /\ \A id \in Ids(OverflowBack(q)) :
                 \E i \in MaxLen + 1 .. Len(q) : q[i].id = id
<1>1. OverflowFront(q) \in Seq(Message)
  BY MaxLenAssumption DEF OverflowFront
<1>2. OverflowBack(q) \in Seq(Message)
  BY MaxLenAssumption DEF OverflowBack
<1>4. \A i \in 1 .. Len(OverflowBack(q)) :
          /\ i + MaxLen \in MaxLen + 1 .. Len(q)
          /\ OverflowBack(q)[i] = q[i + MaxLen]
  BY MaxLenAssumption DEF OverflowBack
<1>3. \A id \in Ids(OverflowBack(q)) : \E i \in MaxLen + 1 .. Len(q) : q[i].id = id
  BY <1>4 DEF Ids
<1> QED BY <1>1, <1>2, <1>3, IdsType

-----------------------------------------------------------------------------
(* The initial state and the steps of the type invariant.                  *)
LEMMA TypeAtInit == Init => TypeOK
BY MaxLenAssumption, MaxMsgsAssumption DEF Init, TypeOK, Id, Over

(* The steps of a run that do not touch the queue.                         *)
RunMoves == run' \in {"ahead", "top", "turn", "last", "complete", "stopped"} /\ UNCHANGED Queues

(* A step is one of a handle, of a clearing task, a pop, a lookup, an abort *)
(* or a move of the run.                                                   *)
LEMMA StepsOfRun ==
    ASSUME [Next]_vars
    PROVE  \/ \E h \in Handles : EnqueueText(h) \/ PrependText(h) \/ PrependRetryMark(h) \/ PrependRetryPush(h)
           \/ Pop \/ LookupRetry \/ RunAborted \/ RunMoves
           \/ \E c \in Clearers : ClearMarkers(c) \/ ClearMessages(c)
           \/ UNCHANGED vars
<1>1. BeginRun \/ ReachTop \/ TurnBegins \/ TurnContinues \/ TurnCompletes \/ RunCompletes \/ RunStops => RunMoves
  BY DEF BeginRun, ReachTop, TurnBegins, TurnContinues, TurnCompletes, RunCompletes, RunStops, RunMoves
<1> QED BY <1>1 DEF Next

(* Every step keeps the types, the bound on the queue included.             *)
LEMMA TypeStep ==
    ASSUME TypeOK, [Next]_vars
    PROVE  TypeOK'
<1> USE DEF TypeOK
<1>c. ASSUME NextMessageId
      PROVE  counter \in Id /\ counter' \in Id
  BY <1>c, MaxMsgsAssumption DEF NextMessageId, Id
<1>1. ASSUME NEW h \in Handles, EnqueueText(h) PROVE TypeOK'
  <2> DEFINE q == Append(queue, [id |-> counter, retry |-> FALSE])
  <2>1. q \in Seq(Message)
    BY <1>1, <1>c DEF EnqueueText, Message
  <2> QED BY <1>1, <1>c, <2>1, DropFrontKeepsSuffix, OverflowIds DEF EnqueueText
<1>2. ASSUME NEW h \in Handles, PrependText(h) PROVE TypeOK'
  <2> DEFINE q == <<[id |-> counter, retry |-> FALSE]>> \o queue
  <2>1. q \in Seq(Message)
    BY <1>2, <1>c DEF PrependText, Message
  <2> QED BY <1>2, <1>c, <2>1, DropBackKeepsPrefix, OverflowIds DEF PrependText
<1>3. ASSUME NEW h \in Handles, PrependRetryMark(h) PROVE TypeOK'
  BY <1>3, <1>c DEF PrependRetryMark, Message
<1>4. ASSUME NEW h \in Handles, PrependRetryPush(h) PROVE TypeOK'
  <2>1. PICK m \in pending[h] :
           LET q == <<m>> \o queue IN
             /\ queue' = DropBack(q)
             /\ retryIds' = retryIds \ Ids(OverflowBack(q))
             /\ lost' = lost \cup Ids(OverflowBack(q))
             /\ pending' = [pending EXCEPT ![h] = {}]
             /\ UNCHANGED <<run, counter, clearing, popped, started, wiped>>
    BY <1>4 DEF PrependRetryPush
  <2>2. <<m>> \o queue \in Seq(Message)
    OBVIOUS
  <2> QED BY <2>1, <2>2, DropBackKeepsPrefix, OverflowIds
<1>5. CASE Pop
  <2>1. /\ queue # <<>>
        /\ popped' = {Head(queue)}
        /\ queue' = Tail(queue)
        /\ UNCHANGED <<run, retryIds, counter, pending, clearing, started, lost, wiped>>
    BY <1>5 DEF Pop
  <2>2. Head(queue) \in Message /\ Tail(queue) \in Seq(Message)
    BY <2>1
  <2>3. Len(Tail(queue)) <= MaxLen
    BY <2>1, MaxLenAssumption
  <2> QED BY <2>1, <2>2, <2>3
<1>6. CASE LookupRetry
  <2>1. PICK m \in popped :
           /\ started' = started \cup
                 {[id |-> m.id, retry |-> Standing(m), asRetry |-> m.id \in retryIds]}
           /\ retryIds' = retryIds \ {m.id}
           /\ popped' = {}
           /\ run' = IF run = "top" THEN "turn" ELSE "ahead"
           /\ UNCHANGED <<queue, counter, pending, clearing, lost, wiped>>
    BY <1>6 DEF LookupRetry
  <2>2. m \in Message
    OBVIOUS
  <2>3. Standing(m) \in BOOLEAN
    BY DEF Standing
  <2>4. [id |-> m.id, retry |-> Standing(m), asRetry |-> m.id \in retryIds] \in Started
    BY <2>2, <2>3 DEF Message, Started
  <2>5. run' \in Running
    BY <2>1 DEF Running
  <2> QED BY <2>1, <2>4, <2>5
<1>7. ASSUME NEW c \in Clearers, ClearMarkers(c) PROVE TypeOK'
  BY <1>7 DEF ClearMarkers
<1>8. ASSUME NEW c \in Clearers, ClearMessages(c) PROVE TypeOK'
  BY <1>8, IdsType, MaxLenAssumption DEF ClearMessages
<1>9. CASE RunMoves
  BY <1>9 DEF RunMoves, Queues, Running, Over
<1>10. CASE RunAborted
  <2>1. \A m \in popped : m.id \in Id
    BY DEF Message
  <2> QED BY <1>10, <2>1 DEF RunAborted, Over
<1>11. CASE UNCHANGED vars
  BY <1>11 DEF vars
<1> QED BY <1>1, <1>2, <1>3, <1>4, <1>5, <1>6, <1>7, <1>8, <1>9, <1>10, <1>11, StepsOfRun

(* The state of the queue stays well formed and within its limit, whatever *)
(* the handles, the agent and the clearing tasks do                        *)
(* (enqueue_message_with_limit and the overflow loops of the prepends).    *)
THEOREM TypeCorrect == Spec => []TypeOK
BY TypeAtInit, TypeStep, PTL DEF Spec

-----------------------------------------------------------------------------
MarkerInv == TypeOK /\ MarkersAreRetries /\ RetryRecognised

(* The elements of a sequence after a push to its front.                   *)
LEMMA PrependElements ==
    ASSUME NEW q \in Seq(Message), NEW m \in Message
    PROVE  /\ (<<m>> \o q)[1] = m
           /\ \A i \in 2 .. Len(q) + 1 : (<<m>> \o q)[i] = q[i + (-1)]
<1>1. \A i \in 2 .. Len(q) + 1 : (<<m>> \o q)[i] = q[i - 1]
  OBVIOUS
<1> QED BY <1>1

(* A push of m at position p that moves the others by k places.            *)
Pushed(m, p, k) ==
    \A i \in 1 .. Len(queue') :
       IF i = p THEN queue'[i] = m
       ELSE i + k \in 1 .. Len(queue) /\ queue'[i] = queue[i + k]

(* Pushing the message m at position p, with the others moved by k places, *)
(* keeps the queue marked if m is and if no surviving message is unmarked. *)
LEMMA PushKeepsMarks ==
    ASSUME TypeOK, QueueMarked, Len(queue') \in Nat,
           NEW m \in Message, NEW p \in Int, NEW k \in Int,
           Pushed(m, p, k),
           counter' \in Nat, counter <= counter', m.id < counter',
           Standing(m) <=> m.id \in retryIds, wiped' = wiped,
           \A i \in 1 .. Len(queue) : queue[i].id # m.id,
           retryIds' \subseteq retryIds,
           \A i \in 1 .. Len(queue') :
              queue'[i].id \in retryIds => queue'[i].id \in retryIds'
    PROVE  QueueMarked'
<1>1. Len(queue) \in Nat /\ counter \in Nat
  BY MaxMsgsAssumption DEF TypeOK, Id
<1>2. \A i \in 1 .. Len(queue) : queue[i] \in Message
  BY DEF TypeOK
<1>3. \A n \in Message : n.id \in Nat /\ n.retry \in BOOLEAN
  BY MaxMsgsAssumption DEF Message, Id
<1>4. ASSUME NEW i \in 1 .. Len(queue')
      PROVE  queue'[i].id < counter' /\ (Standing(queue'[i]) <=> queue'[i].id \in retryIds')
  <2>1. CASE i = p
    BY <2>1, <1>3, <1>4 DEF Pushed
  <2>2. CASE i # p
    <3>1. i + k \in 1 .. Len(queue) /\ queue'[i] = queue[i + k]
      BY <2>2, <1>4 DEF Pushed
    <3>2. queue[i + k].id < counter /\ queue[i + k].id \in Nat
      BY <3>1, <1>2, <1>3 DEF QueueMarked
    <3>3. Standing(queue[i + k]) <=> queue[i + k].id \in retryIds
      BY <3>1 DEF QueueMarked
    <3>4. queue'[i].id < counter'
      BY <3>1, <3>2, <1>1
    <3>5. queue'[i].id \in retryIds' <=> queue'[i].id \in retryIds
      BY <1>4
    <3> QED BY <3>1, <3>3, <3>4, <3>5
  <2> QED BY <2>1, <2>2
<1>5. ASSUME NEW i \in 1 .. Len(queue'), NEW j \in 1 .. Len(queue'),
             queue'[i].id = queue'[j].id
      PROVE  i = j
  <2>1. CASE i = p /\ j # p
    BY <2>1, <1>5 DEF Pushed
  <2>2. CASE i # p /\ j = p
    BY <2>2, <1>5 DEF Pushed
  <2>3. CASE i # p /\ j # p
    <3>1. /\ i + k \in 1 .. Len(queue) /\ queue'[i] = queue[i + k]
          /\ j + k \in 1 .. Len(queue) /\ queue'[j] = queue[j + k]
      BY <2>3, <1>5 DEF Pushed
    <3>2. i + k = j + k
      BY <3>1, <1>5 DEF QueueMarked
    <3> QED BY <3>2
  <2> QED BY <2>1, <2>2, <2>3
<1> QED BY <1>4, <1>5 DEF QueueMarked, Standing

(* ... and the messages outside the queue stay apart from those in it.     *)
LEMMA PushKeepsApart ==
    ASSUME Len(queue') \in Nat, NEW m, NEW p \in Int, NEW k \in Int,
           Pushed(m, p, k),
           NEW n, n.id # m.id,
           \A i \in 1 .. Len(queue) : queue[i].id # n.id
    PROVE  \A i \in 1 .. Len(queue') : queue'[i].id # n.id
BY DEF Pushed

(* The marker protocol survives every step.                                *)
LEMMA MarkerStep ==
    ASSUME MarkerInv, [Next]_vars
    PROVE  MarkersAreRetries' /\ RetryRecognised'
<1> USE DEF MarkersAreRetries, QueueMarked, PendingMarked, PoppedMarked, Standing
<1>0. TypeOK /\ MarkersAreRetries /\ RetryRecognised
  BY DEF MarkerInv
<1>t. /\ queue \in Seq(Message) /\ retryIds \subseteq Id /\ counter \in Nat
      /\ pending \in [Handles -> SUBSET Message]
      /\ popped \subseteq Message
  BY <1>0, MaxMsgsAssumption DEF TypeOK, Id
<1>n. \A m \in Message : m.id \in Nat /\ m.retry \in BOOLEAN
  BY MaxMsgsAssumption DEF Message, Id
<1>c. counter \in Nat /\ counter <= counter + 1 /\ counter + 1 \in Nat /\ counter < counter + 1
  BY <1>t
<1>q. Len(queue) \in Nat /\ \A i \in 1 .. Len(queue) : queue[i] \in Message
  BY <1>t
<1>r. \A id \in retryIds \cup wiped : id \in Nat
  BY <1>0, MaxMsgsAssumption DEF TypeOK, Id
<1>m. /\ \A i \in 1 .. Len(queue) : queue[i].id \in Nat /\ queue[i].retry \in BOOLEAN
      /\ \A h \in Handles : \A m \in pending[h] : m.id \in Nat /\ m.retry \in BOOLEAN
      /\ \A m \in popped : m.id \in Nat /\ m.retry \in BOOLEAN
  BY <1>n, <1>q, <1>t
<1>1. ASSUME NEW h \in Handles, EnqueueText(h)
      PROVE  MarkersAreRetries' /\ RetryRecognised'
  <2> DEFINE new == [id |-> counter, retry |-> FALSE]
             q == Append(queue, new)
  <2>1. /\ queue' = DropFront(q) /\ counter' = counter + 1 /\ counter < MaxMsgs
        /\ UNCHANGED <<retryIds, pending, popped, started, wiped>>
    BY <1>1 DEF EnqueueText, NextMessageId
  <2>2. new \in Message /\ new.id = counter /\ new.retry = FALSE
    BY <1>t, <2>1, MaxMsgsAssumption DEF Message, Id
  <2>3. q \in Seq(Message) /\ Len(q) = Len(queue) + 1
    BY <1>t, <2>2
  <2>4. \A i \in 1 .. Len(q) : q[i] = IF i = Len(q) THEN new ELSE queue[i]
    BY <1>t
  <2>d. /\ Len(queue') \in Nat /\ Len(queue') <= Len(q)
        /\ \A i \in 1 .. Len(queue') : queue'[i] = q[i + (Len(q) - Len(queue'))]
    BY <2>1, <2>3, DropFrontKeepsSuffix
  <2>0. /\ Len(queue') \in Nat /\ Len(queue') - Len(q) \in Int
        /\ Len(q) - Len(queue') \in Int
    BY <2>d, <2>3, <1>q
  <2> HIDE DEF q, new
  <2>5. Pushed(new, Len(queue'), Len(q) - Len(queue'))
    <3>1. ASSUME NEW i \in 1 .. Len(queue'), i # Len(queue')
          PROVE  LET j == i + (Len(q) - Len(queue')) IN
                 j \in 1 .. Len(queue) /\ queue'[i] = queue[j]
      <4> DEFINE j == i + (Len(q) - Len(queue'))
      <4>1. j \in 1 .. Len(q) /\ j # Len(q) /\ j \in 1 .. Len(queue)
        BY <3>1, <2>d, <2>3, <1>q
      <4>2. queue'[i] = q[j]
        BY <2>d
      <4>3. q[j] = queue[j]
        BY <4>1, <2>4
      <4> QED BY <4>1, <4>2, <4>3
    <3>2. ASSUME 1 <= Len(queue')
          PROVE  queue'[Len(queue')] = new
      <4> DEFINE n == Len(queue')
                 last == n + (Len(q) - n)
      <4>1. n \in 1 .. n /\ last = Len(q)
        BY <3>2, <2>0, <2>3, <1>q
      <4>2. last \in 1 .. Len(q)
        BY <4>1, <3>2, <2>d, <2>3, <1>q
      <4>3. queue'[n] = q[last]
        BY <4>1, <2>d
      <4>4. q[last] = new
        BY <4>1, <4>2, <2>4
      <4> QED BY <4>3, <4>4
    <3> QED BY <3>1, <3>2, <2>0 DEF Pushed
  <2>6. counter \notin retryIds /\ \A i \in 1 .. Len(queue) : queue[i].id # counter
    BY <1>0, <1>m, <1>t, <1>r
  <2>7. QueueMarked'
    BY <2>0, <2>1, <2>2, <2>5, <2>6, <1>0, <1>c, PushKeepsMarks
  <2>8. PendingMarked'
    <3>1. ASSUME NEW g \in Handles, NEW n \in pending[g]
          PROVE  \A i \in 1 .. Len(queue') : queue'[i].id # n.id
      <4>1. n.id # counter /\ \A i \in 1 .. Len(queue) : queue[i].id # n.id
        BY <1>0, <1>m, <1>t
      <4> QED BY <4>1, <2>0, <2>2, <2>5, PushKeepsApart
    <3>2. \A g \in Handles : \A n \in pending[g] : n.id < counter'
      BY <2>1, <1>0, <1>m, <1>t
    <3> QED BY <3>1, <3>2, <2>1, <1>0
  <2>9. PoppedMarked'
    <3>1. ASSUME NEW n \in popped
          PROVE  \A i \in 1 .. Len(queue') : queue'[i].id # n.id
      <4>1. n.id # counter /\ \A i \in 1 .. Len(queue) : queue[i].id # n.id
        BY <1>0, <1>m, <1>t
      <4> QED BY <4>1, <2>0, <2>2, <2>5, PushKeepsApart
    <3>2. \A n \in popped : n.id < counter'
      BY <2>1, <1>0, <1>m, <1>t
    <3> QED BY <3>1, <3>2, <2>1, <1>0
  <2>10. (\A id \in retryIds \cup wiped : id < counter)'
    BY <2>1, <1>0, <1>t, <1>r
  <2> QED BY <2>1, <2>7, <2>8, <2>9, <2>10, <1>0 DEF RetryRecognised
<1>2. ASSUME NEW h \in Handles, PrependText(h)
      PROVE  MarkersAreRetries' /\ RetryRecognised'
  <2> DEFINE new == [id |-> counter, retry |-> FALSE]
             q == <<new>> \o queue
  <2>1. /\ queue' = DropBack(q) /\ counter' = counter + 1 /\ counter < MaxMsgs
        /\ UNCHANGED <<retryIds, pending, popped, started, wiped>>
    BY <1>2 DEF PrependText, NextMessageId
  <2>2. new \in Message /\ new.id = counter /\ new.retry = FALSE
    BY <1>t, <2>1, MaxMsgsAssumption DEF Message, Id
  <2> HIDE DEF new
  <2>3. q \in Seq(Message) /\ Len(q) = Len(queue) + 1
    BY <1>t, <2>2
  <2>d. /\ Len(queue') \in Nat /\ Len(queue') <= Len(q)
        /\ \A i \in 1 .. Len(queue') : queue'[i] = q[i]
    BY <2>1, <2>3, DropBackKeepsPrefix
  <2>0. Len(queue') \in Nat
    BY <2>d
  <2>5. Pushed(new, 1, -1)
    BY <2>d, <2>2, <2>3, <1>q, <1>t, PrependElements DEF Pushed
  <2>6. counter \notin retryIds /\ \A i \in 1 .. Len(queue) : queue[i].id # counter
    BY <1>0, <1>m, <1>t, <1>r
  <2>7. QueueMarked'
    BY <2>0, <2>1, <2>2, <2>5, <2>6, <1>0, <1>c, PushKeepsMarks
  <2>8. PendingMarked'
    <3>1. ASSUME NEW g \in Handles, NEW n \in pending[g]
          PROVE  \A i \in 1 .. Len(queue') : queue'[i].id # n.id
      <4>1. n.id # counter /\ \A i \in 1 .. Len(queue) : queue[i].id # n.id
        BY <1>0, <1>m, <1>t
      <4> QED BY <4>1, <2>0, <2>2, <2>5, PushKeepsApart
    <3>2. \A g \in Handles : \A n \in pending[g] : n.id < counter'
      BY <2>1, <1>0, <1>m, <1>t
    <3> QED BY <3>1, <3>2, <2>1, <1>0
  <2>9. PoppedMarked'
    <3>1. ASSUME NEW n \in popped
          PROVE  \A i \in 1 .. Len(queue') : queue'[i].id # n.id
      <4>1. n.id # counter /\ \A i \in 1 .. Len(queue) : queue[i].id # n.id
        BY <1>0, <1>m, <1>t
      <4> QED BY <4>1, <2>0, <2>2, <2>5, PushKeepsApart
    <3>2. \A n \in popped : n.id < counter'
      BY <2>1, <1>0, <1>m, <1>t
    <3> QED BY <3>1, <3>2, <2>1, <1>0
  <2>10. (\A id \in retryIds \cup wiped : id < counter)'
    BY <2>1, <1>0, <1>t, <1>r
  <2> QED BY <2>1, <2>7, <2>8, <2>9, <2>10, <1>0 DEF RetryRecognised
<1>3. ASSUME NEW h \in Handles, PrependRetryMark(h)
      PROVE  MarkersAreRetries' /\ RetryRecognised'
  <2>1. /\ counter' = counter + 1
        /\ pending' = [pending EXCEPT ![h] = {[id |-> counter, retry |-> TRUE]}]
        /\ retryIds' = retryIds \cup {counter}
        /\ UNCHANGED <<queue, popped, started, wiped>>
    BY <1>3 DEF PrependRetryMark, NextMessageId
  <2>2. QueueMarked'
    BY <2>1, <1>0, <1>t, <1>m
  <2>3. PendingMarked'
    BY <2>1, <1>0, <1>t, <1>m
  <2>4. PoppedMarked'
    BY <2>1, <1>0, <1>t, <1>m
  <2>5. (\A id \in retryIds \cup wiped : id < counter)'
    BY <2>1, <1>0, <1>c, <1>r
  <2> QED BY <2>1, <2>2, <2>3, <2>4, <2>5, <1>0 DEF RetryRecognised
<1>4. ASSUME NEW h \in Handles, PrependRetryPush(h)
      PROVE  MarkersAreRetries' /\ RetryRecognised'
  <2>1. PICK m \in pending[h] :
           LET q == <<m>> \o queue IN
             /\ queue' = DropBack(q)
             /\ retryIds' = retryIds \ Ids(OverflowBack(q))
             /\ pending' = [pending EXCEPT ![h] = {}]
             /\ UNCHANGED <<counter, popped, started, wiped>>
    BY <1>4 DEF PrependRetryPush
  <2> DEFINE q == <<m>> \o queue
  <2>2. m \in Message /\ m.id < counter /\ m.retry /\ (Standing(m) <=> m.id \in retryIds)
    BY <1>t, <1>0
  <2>3. q \in Seq(Message) /\ Len(q) = Len(queue) + 1
    BY <1>t, <2>2
  <2>d. /\ Len(queue') \in Nat /\ Len(queue') <= Len(q) /\ Len(queue') <= MaxLen
        /\ \A i \in 1 .. Len(queue') : queue'[i] = q[i]
    BY <2>1, <2>3, DropBackKeepsPrefix
  <2>e. /\ q[1] = m
        /\ \A i \in 2 .. Len(queue) + 1 : q[i] = queue[i + (-1)]
    BY <2>2, <1>t, PrependElements
  <2>f. \A id \in Ids(OverflowBack(q)) : \E i \in MaxLen + 1 .. Len(q) : q[i].id = id
    BY <2>3, OverflowIds
  <2>g. retryIds' = retryIds \ Ids(OverflowBack(q))
    BY <2>1
  <2> HIDE DEF q
  <2>0. Len(queue') \in Nat
    BY <2>d
  <2>5. Pushed(m, 1, -1)
    BY <2>d, <2>e, <2>3, <1>q DEF Pushed
  (* Only markers of messages behind the queue limit go.                   *)
  <2>6. \A id \in retryIds \ retryIds' :
           \E j \in MaxLen .. Len(queue) : queue[j].id = id
    <3>1. \A i \in MaxLen + 1 .. Len(q) :
             /\ i + (-1) \in MaxLen .. Len(queue)
             /\ q[i] = queue[i + (-1)]
      BY <2>e, <2>3, <1>q, MaxLenAssumption
    <3> QED BY <2>f, <2>g, <3>1
  <2>7. retryIds' \subseteq retryIds
    BY <2>1
  <2>8. ASSUME NEW i \in 1 .. Len(queue'), queue'[i].id \in retryIds
        PROVE  queue'[i].id \in retryIds'
    <3>1. CASE i = 1
      BY <3>1, <2>5, <2>6, <1>0, <1>q, <2>8, MaxLenAssumption DEF Pushed
    <3>2. CASE i # 1
      <4>1. i + (-1) \in 1 .. Len(queue) /\ queue'[i] = queue[i + (-1)] /\ i + (-1) < MaxLen
        BY <3>2, <2>5, <2>d, MaxLenAssumption DEF Pushed
      <4>2. \A j \in MaxLen .. Len(queue) : queue[j].id # queue[i + (-1)].id
        BY <4>1, <1>0, <1>q, MaxLenAssumption
      <4> QED BY <4>1, <4>2, <2>6, <2>8
    <3> QED BY <3>1, <3>2
  <2>9. QueueMarked'
    <3>1. \A i \in 1 .. Len(queue) : queue[i].id # m.id
      BY <1>0
    <3>2. counter' = counter /\ wiped' = wiped
      BY <2>1
    <3> QED BY <3>1, <3>2, <2>0, <2>2, <2>5, <2>7, <2>8, <1>0, <1>c, PushKeepsMarks
  <2>10. \A g \in Handles : pending'[g] = IF g = h THEN {} ELSE pending[g]
    BY <2>1, <1>t
  <2>11. ASSUME NEW n, n.id # m.id, \A i \in 1 .. Len(queue) : queue[i].id # n.id
         PROVE  /\ \A i \in 1 .. Len(queue') : queue'[i].id # n.id
                /\ n.id \in retryIds => n.id \in retryIds'
    <3>1. \A i \in 1 .. Len(queue') : queue'[i].id # n.id
      BY <2>0, <2>5, <2>11, PushKeepsApart
    <3>2. n.id \in retryIds => n.id \in retryIds'
      BY <2>6, <2>11, <1>q, MaxLenAssumption
    <3> QED BY <3>1, <3>2
  <2>12. PendingMarked'
    <3>1. ASSUME NEW g \in Handles, NEW n \in pending'[g]
          PROVE  /\ n.id < counter' /\ n.retry /\ (Standing(n)' <=> n.id \in retryIds')
                 /\ \A i \in 1 .. Len(queue') : queue'[i].id # n.id
      <4>1. g # h /\ n \in pending[g]
        BY <2>10
      <4>2. n.id # m.id /\ \A i \in 1 .. Len(queue) : queue[i].id # n.id
        BY <4>1, <1>0
      <4> QED BY <4>1, <4>2, <2>1, <2>11, <1>0
    <3>2. \A g, f \in Handles : \A n \in pending'[g] : \A o \in pending'[f] :
             o.id = n.id => f = g
      BY <2>10, <1>0
    <3> QED BY <3>1, <3>2
  <2>13. PoppedMarked'
    <3>1. ASSUME NEW n \in popped'
          PROVE  /\ n.id < counter' /\ (Standing(n)' <=> n.id \in retryIds')
                 /\ \A i \in 1 .. Len(queue') : queue'[i].id # n.id
                 /\ \A g \in Handles : \A o \in pending'[g] : o.id # n.id
      <4>1. n \in popped
        BY <2>1
      <4>2. n.id # m.id /\ \A i \in 1 .. Len(queue) : queue[i].id # n.id
        BY <4>1, <1>0
      <4>3. \A g \in Handles : \A o \in pending'[g] : o.id # n.id
        BY <4>1, <2>10, <1>0
      <4> QED BY <4>1, <4>2, <4>3, <2>1, <2>7, <2>11, <1>0
    <3> QED BY <3>1
  <2>14. (\A id \in retryIds \cup wiped : id < counter)'
    BY <2>1, <2>7, <1>0
  <2> QED BY <2>1, <2>9, <2>12, <2>13, <2>14, <1>0 DEF RetryRecognised
<1>5. CASE Pop
  <2>1. /\ queue # <<>> /\ popped = {}
        /\ popped' = {Head(queue)}
        /\ queue' = Tail(queue)
        /\ UNCHANGED <<retryIds, counter, pending, started, wiped>>
    BY <1>5 DEF Pop
  <2>2. /\ Len(queue') = Len(queue) - 1 /\ Len(queue) \in Nat /\ Len(queue) > 0
        /\ \A i \in 1 .. Len(queue) - 1 : queue'[i] = queue[i + 1]
        /\ Head(queue) = queue[1]
    BY <2>1, <1>t
  <2>3. QueueMarked'
    BY <2>1, <2>2, <1>0, <1>t, <1>m
  <2>4. PendingMarked'
    BY <2>1, <2>2, <1>0, <1>t, <1>m
  <2>5. PoppedMarked'
    BY <2>1, <2>2, <1>0, <1>t, <1>m
  <2> QED BY <2>1, <2>3, <2>4, <2>5, <1>0 DEF RetryRecognised
<1>6. CASE LookupRetry
  <2>1. PICK m \in popped :
           /\ started' = started \cup
                 {[id |-> m.id, retry |-> Standing(m), asRetry |-> m.id \in retryIds]}
           /\ retryIds' = retryIds \ {m.id}
           /\ popped' = {}
           /\ UNCHANGED <<queue, counter, pending, wiped>>
    BY <1>6 DEF LookupRetry
  <2>2. m \in Message
    BY <1>t
  <2>3. QueueMarked'
    BY <2>1, <2>2, <1>0, <1>t, <1>m
  <2>4. PendingMarked'
    BY <2>1, <2>2, <1>0, <1>t, <1>m
  <2>5. PoppedMarked' /\ (\A id \in retryIds \cup wiped : id < counter)'
    BY <2>1, <1>0
  <2>6. Standing(m) = (m.id \in retryIds)
    BY <2>2, <1>0, <1>m
  <2>7. RetryRecognised'
    BY <2>1, <2>6, <1>0 DEF RetryRecognised
  <2> QED BY <2>3, <2>4, <2>5, <2>7
<1>7. ASSUME NEW c \in Clearers, ClearMarkers(c)
      PROVE  MarkersAreRetries' /\ RetryRecognised'
  <2>1. /\ retryIds' = {} /\ wiped' = wiped \cup retryIds
        /\ UNCHANGED <<queue, counter, pending, popped, started>>
    BY <1>7 DEF ClearMarkers
  <2>2. QueueMarked' /\ PendingMarked'
    BY <2>1, <1>0
  <2>3. PoppedMarked' /\ (\A id \in retryIds \cup wiped : id < counter)'
    BY <2>1, <1>0
  <2> QED BY <2>1, <2>2, <2>3, <1>0 DEF RetryRecognised
<1>9. ASSUME NEW c \in Clearers, ClearMessages(c)
      PROVE  MarkersAreRetries' /\ RetryRecognised'
  BY <1>9, <1>0 DEF ClearMessages, RetryRecognised
<1>8. CASE UNCHANGED vars \/ RunMoves
  BY <1>8, <1>0 DEF vars, RunMoves, Queues, RetryRecognised
<1>10. CASE RunAborted
  BY <1>10, <1>0 DEF RunAborted, RetryRecognised
<1> QED BY <1>1, <1>2, <1>3, <1>4, <1>5, <1>6, <1>7, <1>8, <1>9, <1>10, StepsOfRun

(* A message is answered as a retry exactly when it was queued as one and  *)
(* clear_queue has not come between, for every interleaving of the two     *)
(* steps of prepend_retry_message and of clear_queue with the pop of the   *)
(* agent loop, and however many messages overflow.                         *)
THEOREM RetriesRecognised == Spec => []RetryRecognised
<1>1. Init => MarkerInv
  BY TypeAtInit DEF Init, MarkerInv, MarkersAreRetries, QueueMarked, PendingMarked,
     PoppedMarked, RetryRecognised
<1>2. MarkerInv /\ [Next]_vars => MarkerInv'
  BY MarkerStep, TypeStep DEF MarkerInv
<1>3. MarkerInv => RetryRecognised
  BY DEF MarkerInv
<1> QED BY <1>1, <1>2, <1>3, PTL DEF Spec

-----------------------------------------------------------------------------
(* No id twice.                                                            *)
Unique(q) == \A i, j \in 1 .. Len(q) : q[i].id = q[j].id => i = j

(* A queue and what overflows from it have the ids that it had before, and *)
(* share none if it had none twice.                                        *)
Splits(q, kept, gone) ==
    /\ Ids(q) = Ids(kept) \cup Ids(gone)
    /\ Unique(q) => Ids(kept) \cap Ids(gone) = {} /\ Unique(kept)

(* The oldest messages overflow, the others stay (enqueue_message).        *)
LEMMA DropFrontSplits ==
    ASSUME NEW q \in Seq(Message)
    PROVE  Splits(q, DropFront(q), OverflowFront(q))
<1>0. Len(q) \in Nat /\ MaxLen \in Nat \ {0}
  BY MaxLenAssumption
<1>1. CASE Len(q) > MaxLen
  <2> DEFINE k == Len(q) - MaxLen
  <2>0. k \in Nat \ {0} /\ k <= Len(q)
    BY <1>0, <1>1
  <2>1. /\ Len(DropFront(q)) = MaxLen
        /\ \A i \in 1 .. MaxLen : i + k \in 1 .. Len(q) /\ DropFront(q)[i] = q[i + k]
    BY <1>0, <1>1 DEF DropFront
  <2>2. Len(OverflowFront(q)) = k /\ \A i \in 1 .. k : i \in 1 .. Len(q) /\ OverflowFront(q)[i] = q[i]
    BY <1>0, <1>1 DEF OverflowFront
  <2>3. \A i \in 1 .. Len(q) : i \in 1 .. k \/ (i - k \in 1 .. MaxLen /\ (i - k) + k = i)
    BY <1>0, <1>1
  <2> HIDE DEF k
  <2>4. Ids(q) = Ids(DropFront(q)) \cup Ids(OverflowFront(q))
    <3>1. \A i \in 1 .. Len(q) : q[i].id \in Ids(DropFront(q)) \cup Ids(OverflowFront(q))
      <4> SUFFICES ASSUME NEW i \in 1 .. Len(q)
                   PROVE  q[i].id \in Ids(DropFront(q)) \cup Ids(OverflowFront(q))
        OBVIOUS
      <4>1. CASE i \in 1 .. k
        <5>1. OverflowFront(q)[i] = q[i] /\ i \in 1 .. Len(OverflowFront(q))
          BY <2>2, <4>1
        <5> QED BY <5>1 DEF Ids
      <4>2. CASE i \notin 1 .. k
        <5>1. i - k \in 1 .. Len(DropFront(q)) /\ DropFront(q)[i - k] = q[i]
          BY <2>1, <2>3, <4>2
        <5> QED BY <5>1 DEF Ids
      <4> QED BY <4>1, <4>2
    <3>2. \A id \in Ids(DropFront(q)) : id \in Ids(q)
      BY <2>1 DEF Ids
    <3>3. \A id \in Ids(OverflowFront(q)) : id \in Ids(q)
      BY <2>2 DEF Ids
    <3> QED BY <3>1, <3>2, <3>3 DEF Ids
  <2>5. ASSUME Unique(q) PROVE Ids(DropFront(q)) \cap Ids(OverflowFront(q)) = {} /\ Unique(DropFront(q))
    <3>1. \A i \in 1 .. MaxLen, j \in 1 .. k : i + k # j
      BY <1>0, <2>0
    <3>2. \A i \in 1 .. MaxLen, j \in 1 .. k : DropFront(q)[i].id # OverflowFront(q)[j].id
      BY <2>1, <2>2, <2>5, <3>1 DEF Unique
    <3>3. Ids(DropFront(q)) \cap Ids(OverflowFront(q)) = {}
      BY <2>1, <2>2, <3>2 DEF Ids
    <3>4. \A i, j \in 1 .. MaxLen : i + k = j + k => i = j
      BY <1>0, <2>0
    <3>5. Unique(DropFront(q))
      BY <2>1, <2>5, <3>4 DEF Unique
    <3> QED BY <3>3, <3>5
  <2> QED BY <2>4, <2>5 DEF Splits
<1>2. CASE ~ (Len(q) > MaxLen)
  <2>1. DropFront(q) = q
    BY <1>2 DEF DropFront
  <2>2. Len(OverflowFront(q)) = 0
    BY <1>0, <1>2 DEF OverflowFront
  <2>3. Ids(OverflowFront(q)) = {}
    BY <2>2 DEF Ids
  <2> QED BY <2>1, <2>3 DEF Splits
<1> QED BY <1>1, <1>2

(* The newest messages overflow, the others stay (the prepends).           *)
LEMMA DropBackSplits ==
    ASSUME NEW q \in Seq(Message)
    PROVE  Splits(q, DropBack(q), OverflowBack(q))
<1>0. Len(q) \in Nat /\ MaxLen \in Nat \ {0}
  BY MaxLenAssumption
<1>1. CASE Len(q) > MaxLen
  <2>1. /\ Len(DropBack(q)) = MaxLen
        /\ \A i \in 1 .. MaxLen : i \in 1 .. Len(q) /\ DropBack(q)[i] = q[i]
    BY <1>0, <1>1 DEF DropBack
  <2> DEFINE k == Len(q) - MaxLen
  <2>2. Len(OverflowBack(q)) = k /\ \A i \in 1 .. k : i + MaxLen \in 1 .. Len(q) /\ OverflowBack(q)[i] = q[i + MaxLen]
    BY <1>0, <1>1 DEF OverflowBack
  <2>3. \A i \in 1 .. Len(q) : i \in 1 .. MaxLen \/ (i - MaxLen \in 1 .. k /\ (i - MaxLen) + MaxLen = i)
    BY <1>0, <1>1
  <2>4. \A i \in 1 .. MaxLen, j \in 1 .. k : i # j + MaxLen
    BY <1>0
  <2> HIDE DEF k
  <2>5. Ids(q) = Ids(DropBack(q)) \cup Ids(OverflowBack(q))
    <3>1. \A i \in 1 .. Len(q) : q[i].id \in Ids(DropBack(q)) \cup Ids(OverflowBack(q))
      BY <2>1, <2>2, <2>3 DEF Ids
    <3>2. Ids(DropBack(q)) \cup Ids(OverflowBack(q)) \subseteq Ids(q)
      BY <2>1, <2>2 DEF Ids
    <3> QED BY <3>1, <3>2 DEF Ids
  <2>6. ASSUME Unique(q) PROVE Ids(DropBack(q)) \cap Ids(OverflowBack(q)) = {} /\ Unique(DropBack(q))
    <3>1. ASSUME NEW i \in 1 .. MaxLen, NEW j \in 1 .. k PROVE DropBack(q)[i].id # OverflowBack(q)[j].id
      <4>1. DropBack(q)[i] = q[i] /\ i \in 1 .. Len(q)
        BY <2>1
      <4>2. OverflowBack(q)[j] = q[j + MaxLen] /\ j + MaxLen \in 1 .. Len(q) /\ i # j + MaxLen
        BY <2>2, <2>4
      <4> QED BY <2>6, <4>1, <4>2 DEF Unique
    <3>2. Ids(DropBack(q)) \cap Ids(OverflowBack(q)) = {}
      BY <2>1, <2>2, <3>1 DEF Ids
    <3>3. Unique(DropBack(q))
      BY <2>1, <2>6 DEF Unique
    <3> QED BY <3>2, <3>3
  <2> QED BY <2>5, <2>6 DEF Splits
<1>2. CASE ~ (Len(q) > MaxLen)
  <2>1. DropBack(q) = q
    BY <1>2 DEF DropBack
  <2>2. Len(OverflowBack(q)) = 0
    BY <1>0, <1>2 DEF OverflowBack
  <2>3. Ids(OverflowBack(q)) = {}
    BY <2>2 DEF Ids
  <2> QED BY <2>1, <2>3 DEF Splits
<1> QED BY <1>1, <1>2

(* A message pushed to either end adds its id.                             *)
LEMMA PushedIds ==
    ASSUME NEW q \in Seq(Message), NEW m \in Message, NEW all, all \in {Append(q, m), <<m>> \o q}
    PROVE  /\ all \in Seq(Message) /\ Ids(all) = Ids(q) \cup {m.id}
           /\ Unique(q) /\ m.id \notin Ids(q) => Unique(all)
<1>0. Len(q) \in Nat
  OBVIOUS
<1>1. CASE all = Append(q, m)
  <2>1. /\ all \in Seq(Message) /\ Len(all) = Len(q) + 1 /\ all[Len(q) + 1] = m
        /\ \A i \in 1 .. Len(q) : all[i] = q[i]
    BY <1>1
  <2>2. \A i \in 1 .. Len(q) + 1 : i = Len(q) + 1 \/ i \in 1 .. Len(q)
    BY <1>0
  <2>3. Len(q) + 1 \in 1 .. Len(q) + 1 /\ \A i \in 1 .. Len(q) : i \in 1 .. Len(q) + 1
    BY <1>0
  <2>4. Ids(all) = Ids(q) \cup {m.id}
    <3>1. \A i \in 1 .. Len(q) + 1 : all[i].id \in Ids(q) \cup {m.id}
      BY <2>1, <2>2 DEF Ids
    <3>2. m.id \in Ids(all) /\ \A i \in 1 .. Len(q) : q[i].id \in Ids(all)
      BY <2>1, <2>3 DEF Ids
    <3> QED BY <2>1, <3>1, <3>2 DEF Ids
  <2>5. Unique(q) /\ m.id \notin Ids(q) => Unique(all)
    BY <2>1, <2>2 DEF Unique, Ids
  <2> QED BY <2>1, <2>4, <2>5
<1>2. CASE all = <<m>> \o q
  <2>1. /\ all \in Seq(Message) /\ Len(all) = Len(q) + 1 /\ all[1] = m
        /\ \A i \in 2 .. Len(q) + 1 : all[i] = q[i + (-1)]
    BY <1>2, PrependElements
  <2>2. \A i \in 1 .. Len(q) + 1 : i = 1 \/ (i \in 2 .. Len(q) + 1 /\ i + (-1) \in 1 .. Len(q))
    BY <1>0
  <2>3. 1 \in 1 .. Len(q) + 1 /\ \A i \in 1 .. Len(q) : i + 1 \in 2 .. Len(q) + 1 /\ (i + 1) + (-1) = i /\ i + 1 \in 1 .. Len(q) + 1
    BY <1>0
  <2>4. Ids(all) = Ids(q) \cup {m.id}
    <3>1. \A i \in 1 .. Len(q) + 1 : all[i].id \in Ids(q) \cup {m.id}
      BY <2>1, <2>2 DEF Ids
    <3>2. m.id \in Ids(all) /\ \A i \in 1 .. Len(q) : q[i].id \in Ids(all)
      <4>1. \A i \in 1 .. Len(q) : all[i + 1] = q[i]
        BY <2>1, <2>3
      <4> QED BY <2>1, <2>3, <4>1 DEF Ids
    <3> QED BY <2>1, <3>1, <3>2 DEF Ids
  <2>5. ASSUME Unique(q), m.id \notin Ids(q), NEW i \in 1 .. Len(q) + 1, NEW j \in 1 .. Len(q) + 1, all[i].id = all[j].id
        PROVE  i = j
    <3>1. \A n \in 2 .. Len(q) + 1 : all[n].id \in Ids(q)
      BY <2>1, <2>2, <1>0 DEF Ids
    <3>2. CASE i # 1 /\ j # 1
      <4>2. all[i] = q[i + (-1)] /\ i + (-1) \in 1 .. Len(q) /\ all[j] = q[j + (-1)] /\ j + (-1) \in 1 .. Len(q)
        BY <2>1, <2>2, <3>2
      <4>1. i + (-1) = j + (-1)
        BY <2>5, <4>2 DEF Unique
      <4> QED BY <4>1
    <3> QED BY <2>1, <2>2, <2>5, <3>1, <3>2
  <2> QED BY <2>1, <2>4, <2>5 DEF Unique
<1> QED BY <1>1, <1>2

(* The front that is popped leaves the others.                             *)
LEMMA PoppedSplits ==
    ASSUME NEW q \in Seq(Message), q # <<>>, Unique(q)
    PROVE  Ids(q) = Ids(Tail(q)) \cup {Head(q).id} /\ Head(q).id \notin Ids(Tail(q)) /\ Unique(Tail(q))
<1>1. /\ Len(q) \in Nat \ {0} /\ Len(Tail(q)) = Len(q) - 1 /\ Head(q) = q[1]
      /\ \A i \in 1 .. Len(q) - 1 : Tail(q)[i] = q[i + 1]
  OBVIOUS
<1>2. /\ 1 \in 1 .. Len(q) /\ \A i \in 1 .. Len(q) - 1 : i + 1 \in 1 .. Len(q) /\ i + 1 # 1
      /\ \A i, j \in 1 .. Len(q) - 1 : i + 1 = j + 1 => i = j
      /\ \A i \in 1 .. Len(q) : i = 1 \/ (i + (-1) \in 1 .. Len(q) - 1 /\ (i + (-1)) + 1 = i)
  BY <1>1
<1>3. Ids(q) = Ids(Tail(q)) \cup {Head(q).id}
  <2>1. \A i \in 1 .. Len(q) : q[i].id \in Ids(Tail(q)) \cup {Head(q).id}
    <3> SUFFICES ASSUME NEW i \in 1 .. Len(q), i # 1 PROVE q[i].id \in Ids(Tail(q))
      BY <1>1
    <3>1. i + (-1) \in 1 .. Len(q) - 1 /\ Tail(q)[i + (-1)] = q[i]
      BY <1>1, <1>2
    <3> QED BY <1>1, <3>1 DEF Ids
  <2>2. Ids(Tail(q)) \cup {Head(q).id} \subseteq Ids(q)
    BY <1>1, <1>2 DEF Ids
  <2> QED BY <2>1, <2>2 DEF Ids
<1>4. Head(q).id \notin Ids(Tail(q)) /\ Unique(Tail(q))
  BY <1>1, <1>2 DEF Ids, Unique
<1> QED BY <1>3, <1>4

(* A queue without repetition has as many ids as messages.                 *)
LEMMA UniqueCount ==
    ASSUME NEW q \in Seq(Message), Unique(q)
    PROVE  Cardinality(Ids(q)) = Len(q)
<1> DEFINE f == [i \in 1 .. Len(q) |-> q[i].id]
<1>0. Len(q) \in Nat
  OBVIOUS
<1>1. f \in Bijection(1 .. Len(q), Ids(q))
  <2>1. f \in [1 .. Len(q) -> Ids(q)]
    BY DEF Ids
  <2>2. \A i, j \in 1 .. Len(q) : f[i] = f[j] => i = j
    BY DEF Unique
  <2>3. \A x \in Ids(q) : \E i \in 1 .. Len(q) : f[i] = x
    BY DEF Ids
  <2> QED BY <2>1, <2>2, <2>3 DEF Bijection, Injection, Surjection, IsInjective
<1> HIDE DEF f
<1>2. ExistsBijection(1 .. Len(q), Ids(q))
  BY <1>1 DEF ExistsBijection
<1> QED BY <1>0, <1>2, FS_CountingElements

-----------------------------------------------------------------------------
(* What MessagesConserved says of the ids, and that a handle pushes one     *)
(* retry at a time: else the push would let go of the others.              *)
Conserved ==
    /\ 0 .. counter - 1 = Ids(queue) \cup PendingIds \cup PoppedIds \cup StartedIds \cup lost
    /\ (Ids(queue) \cup PendingIds \cup PoppedIds) \cap (StartedIds \cup lost) = {}
    /\ StartedIds \cap lost = {}
    /\ \A h \in Handles : \A m, n \in pending[h] : m = n
    /\ \A m, n \in popped : m = n

(* The marker protocol keeps queue, handles and the agent apart.           *)
LEMMA LiveApart ==
    ASSUME TypeOK, MarkersAreRetries
    PROVE  /\ Unique(queue)
           /\ Ids(queue) \cap PendingIds = {} /\ Ids(queue) \cap PoppedIds = {} /\ PendingIds \cap PoppedIds = {}
           /\ \A id \in Ids(queue) \cup PendingIds \cup PoppedIds : id < counter
<1>1. Unique(queue) /\ \A id \in Ids(queue) : id < counter
  BY DEF MarkersAreRetries, QueueMarked, Unique, Ids
<1>2. Ids(queue) \cap PendingIds = {} /\ \A id \in PendingIds : id < counter
  BY DEF MarkersAreRetries, PendingMarked, PendingIds, Ids
<1>3. Ids(queue) \cap PoppedIds = {} /\ \A id \in PoppedIds : id < counter
  BY DEF MarkersAreRetries, PoppedMarked, PoppedIds, Ids
<1>4. PendingIds \cap PoppedIds = {}
  BY DEF MarkersAreRetries, PoppedMarked, PendingIds, PoppedIds
<1> QED BY <1>1, <1>2, <1>3, <1>4

(* A fresh id is a new one.                                                *)
LEMMA FreshId ==
    ASSUME TypeOK, Conserved
    PROVE  /\ counter \notin Ids(queue) \cup PendingIds \cup PoppedIds \cup StartedIds \cup lost
           /\ counter' = counter + 1 => 0 .. counter' - 1 = (0 .. counter - 1) \cup {counter}
<1>1. counter \in Nat
  BY MaxMsgsAssumption DEF TypeOK, Id
<1>2. counter \notin 0 .. counter - 1
  BY <1>1
<1>3. counter' = counter + 1 => 0 .. counter' - 1 = (0 .. counter - 1) \cup {counter}
  BY <1>1
<1> QED BY <1>2, <1>3 DEF Conserved

(* Every step moves ids from one place to another, or makes a new one.     *)
LEMMA ConservedStep ==
    ASSUME MarkerInv, Conserved, [Next]_vars
    PROVE  Conserved'
<1>0. TypeOK /\ MarkersAreRetries
  BY DEF MarkerInv
<1>a. /\ Unique(queue)
      /\ Ids(queue) \cap PendingIds = {} /\ Ids(queue) \cap PoppedIds = {} /\ PendingIds \cap PoppedIds = {}
  BY <1>0, LiveApart
<1>t. /\ queue \in Seq(Message) /\ pending \in [Handles -> SUBSET Message] /\ popped \subseteq Message
      /\ counter \in Id
  BY <1>0 DEF TypeOK
<1>s. counter \notin Ids(queue) \cup PendingIds \cup PoppedIds \cup StartedIds \cup lost
      /\ (counter' = counter + 1 => 0 .. counter' - 1 = (0 .. counter - 1) \cup {counter})
  BY <1>0, FreshId
<1>1. ASSUME NEW h \in Handles, EnqueueText(h) \/ PrependText(h) PROVE Conserved'
  <2> DEFINE new == [id |-> counter, retry |-> FALSE]
  <2>1. /\ counter' = counter + 1 /\ UNCHANGED <<pending, popped, started>>
        /\ \/ queue' = DropFront(Append(queue, new)) /\ lost' = lost \cup Ids(OverflowFront(Append(queue, new)))
           \/ queue' = DropBack(<<new>> \o queue) /\ lost' = lost \cup Ids(OverflowBack(<<new>> \o queue))
    BY <1>1 DEF EnqueueText, PrependText, NextMessageId
  <2>2. new \in Message /\ new.id = counter
    BY <1>t DEF Message
  <2> HIDE DEF new
  <2>3. PICK all \in {Append(queue, new), <<new>> \o queue},
            gone \in {OverflowFront(Append(queue, new)), OverflowBack(<<new>> \o queue)} :
           Splits(all, queue', gone) /\ lost' = lost \cup Ids(gone)
    <3>1. Append(queue, new) \in Seq(Message) /\ <<new>> \o queue \in Seq(Message)
      BY <1>t, <2>2, PushedIds
    <3> QED BY <2>1, <3>1, DropFrontSplits, DropBackSplits
  <2>4. Ids(all) = Ids(queue) \cup {counter} /\ Unique(all)
    BY <1>a, <1>s, <1>t, <2>2, PushedIds
  <2>5. Ids(queue') \cup Ids(gone) = Ids(queue) \cup {counter} /\ Ids(queue') \cap Ids(gone) = {}
    BY <2>3, <2>4 DEF Splits
  <2>6. PendingIds' = PendingIds /\ PoppedIds' = PoppedIds /\ StartedIds' = StartedIds /\ Ids(queue)' = Ids(queue')
    BY <2>1 DEF PendingIds, PoppedIds, StartedIds, Ids
  <2>7. 0 .. counter' - 1 = (0 .. counter - 1) \cup {counter}
    BY <1>s, <2>1
  <2>8. (\A g \in Handles : \A m, n \in pending'[g] : m = n) /\ (\A m, n \in popped' : m = n)
    BY <2>1 DEF Conserved
  <2> QED BY <1>a, <1>s, <2>3, <2>5, <2>6, <2>7, <2>8 DEF Conserved
<1>2. ASSUME NEW h \in Handles, PrependRetryMark(h) PROVE Conserved'
  <2>1. /\ counter' = counter + 1 /\ pending[h] = {} /\ UNCHANGED <<queue, popped, started, lost>>
        /\ pending' = [pending EXCEPT ![h] = {[id |-> counter, retry |-> TRUE]}]
    BY <1>2 DEF PrependRetryMark, NextMessageId
  <2>0. \A g \in Handles : pending'[g] = IF g = h THEN {[id |-> counter, retry |-> TRUE]} ELSE pending[g]
    BY <1>t, <2>1
  <2>2. \A g \in Handles : {m.id : m \in pending'[g]} = IF g = h THEN {counter} ELSE {m.id : m \in pending[g]}
    <3>1. {m.id : m \in {[id |-> counter, retry |-> TRUE]}} = {counter}
      OBVIOUS
    <3> QED BY <2>0, <3>1
  <2>3. PendingIds' = PendingIds \cup {counter}
    BY <2>1, <2>2 DEF PendingIds
  <2>6. PoppedIds' = PoppedIds /\ StartedIds' = StartedIds /\ Ids(queue)' = Ids(queue) /\ lost' = lost
    BY <2>1 DEF PoppedIds, StartedIds, Ids
  <2>7. 0 .. counter' - 1 = (0 .. counter - 1) \cup {counter}
    BY <1>s, <2>1
  <2>8. (\A g \in Handles : \A m, n \in pending'[g] : m = n) /\ (\A m, n \in popped' : m = n)
    <3>1. \A g \in Handles : \A m, n \in pending'[g] : m = n
      <4> SUFFICES ASSUME NEW g \in Handles, NEW m \in pending'[g], NEW n \in pending'[g]
                   PROVE  m = n
        OBVIOUS
      <4>1. CASE g = h
        <5>1. pending'[g] = {[id |-> counter, retry |-> TRUE]}
          BY <2>0, <4>1
        <5> QED BY <5>1
      <4>2. CASE g # h
        <5>1. pending'[g] = pending[g]
          BY <2>0, <4>2
        <5> QED BY <5>1 DEF Conserved
      <4> QED BY <4>1, <4>2
    <3>2. \A m, n \in popped' : m = n
      BY <2>1 DEF Conserved
    <3> QED BY <3>1, <3>2
  <2> QED BY <1>s, <2>3, <2>6, <2>7, <2>8 DEF Conserved
<1>3. ASSUME NEW h \in Handles, PrependRetryPush(h) PROVE Conserved'
  <2>1. PICK m \in pending[h] :
           /\ queue' = DropBack(<<m>> \o queue) /\ lost' = lost \cup Ids(OverflowBack(<<m>> \o queue))
           /\ pending' = [pending EXCEPT ![h] = {}] /\ UNCHANGED <<counter, popped, started>>
    BY <1>3 DEF PrependRetryPush
  <2>2. m \in Message /\ m.id \in PendingIds
    BY <1>t DEF PendingIds
  <2>3. <<m>> \o queue \in Seq(Message) /\ Ids(<<m>> \o queue) = Ids(queue) \cup {m.id} /\ Unique(<<m>> \o queue)
    BY <1>a, <1>t, <2>2, PushedIds
  <2>4. /\ Ids(queue') \cup Ids(OverflowBack(<<m>> \o queue)) = Ids(queue) \cup {m.id}
        /\ Ids(queue') \cap Ids(OverflowBack(<<m>> \o queue)) = {}
    BY <2>1, <2>3, DropBackSplits DEF Splits
  <2>5. \A g \in Handles : pending'[g] = IF g = h THEN {} ELSE pending[g]
    BY <1>t, <2>1
  <2>6. PendingIds = PendingIds' \cup {m.id} /\ m.id \notin PendingIds'
    <3>1. \A n \in pending[h] : n = m
      BY DEF Conserved
    <3>2. \A g \in Handles : \A n \in pending[g] : n.id = m.id => g = h
      BY <1>0 DEF MarkersAreRetries, PendingMarked
    <3>3. m.id \notin PendingIds'
      BY <2>5, <3>2 DEF PendingIds
    <3>4. \A id \in PendingIds' : id \in PendingIds
      BY <2>5 DEF PendingIds
    <3>5. \A id \in PendingIds : id = m.id \/ id \in PendingIds'
      <4> SUFFICES ASSUME NEW g \in Handles, NEW n \in pending[g], n.id # m.id PROVE n.id \in PendingIds'
        BY DEF PendingIds
      <4>1. g # h /\ n \in pending'[g]
        BY <2>5, <3>1
      <4> QED BY <4>1 DEF PendingIds
    <3> QED BY <2>2, <3>3, <3>4, <3>5
  <2>7. PoppedIds' = PoppedIds /\ StartedIds' = StartedIds /\ Ids(queue)' = Ids(queue') /\ counter' = counter
    BY <2>1 DEF PoppedIds, StartedIds, Ids
  <2>8. (\A g \in Handles : \A n, o \in pending'[g] : n = o) /\ (\A n, o \in popped' : n = o)
    BY <2>1, <2>5 DEF Conserved
  <2>9. lost' = lost \cup Ids(OverflowBack(<<m>> \o queue))
    BY <2>1
  <2> QED BY <1>a, <2>2, <2>4, <2>6, <2>7, <2>8, <2>9 DEF Conserved
<1>4. CASE Pop
  <2>1. /\ queue # <<>> /\ popped = {} /\ popped' = {Head(queue)} /\ queue' = Tail(queue)
        /\ UNCHANGED <<counter, pending, started, lost>>
    BY <1>4 DEF Pop
  <2>2. Ids(queue) = Ids(queue') \cup {Head(queue).id} /\ PoppedIds = {} /\ PoppedIds' = {Head(queue).id}
    BY <1>a, <1>t, <2>1, PoppedSplits DEF PoppedIds
  <2>3. PendingIds' = PendingIds /\ StartedIds' = StartedIds /\ Ids(queue)' = Ids(queue')
    BY <2>1 DEF PendingIds, StartedIds, Ids
  <2>4. counter' = counter /\ lost' = lost
    BY <2>1
  <2>5. (\A g \in Handles : \A m, n \in pending'[g] : m = n) /\ (\A m, n \in popped' : m = n)
    BY <2>1 DEF Conserved
  <2> QED BY <2>2, <2>3, <2>4, <2>5 DEF Conserved
<1>5. CASE LookupRetry
  <2>1. PICK m \in popped :
           /\ started' = started \cup {[id |-> m.id, retry |-> Standing(m), asRetry |-> m.id \in retryIds]}
           /\ popped' = {} /\ UNCHANGED <<queue, counter, pending, lost>>
    BY <1>5 DEF LookupRetry
  <2> DEFINE new == [id |-> m.id, retry |-> Standing(m), asRetry |-> m.id \in retryIds]
  <2>2. new.id = m.id /\ started' = started \cup {new}
    BY <2>1
  <2> HIDE DEF new
  <2>3. StartedIds' = StartedIds \cup {m.id}
    BY <2>2 DEF StartedIds
  <2>4. PoppedIds' = {}
    BY <2>1 DEF PoppedIds
  <2>5. PendingIds' = PendingIds /\ Ids(queue)' = Ids(queue) /\ counter' = counter /\ lost' = lost
    BY <2>1 DEF PendingIds, Ids
  <2>6. PoppedIds = {m.id}
    <3>1. \A n \in popped : n = m
      BY DEF Conserved
    <3> QED BY <3>1 DEF PoppedIds
  <2>7. (\A g \in Handles : \A n, o \in pending'[g] : n = o) /\ (\A n, o \in popped' : n = o)
    BY <2>1 DEF Conserved
  <2> QED BY <1>a, <2>3, <2>4, <2>5, <2>6, <2>7 DEF Conserved
<1>6. ASSUME NEW c \in Clearers, ClearMarkers(c) PROVE Conserved'
  <2>1. UNCHANGED <<queue, counter, pending, popped, started, lost>>
    BY <1>6 DEF ClearMarkers
  <2>2. /\ Ids(queue)' = Ids(queue) /\ PendingIds' = PendingIds /\ PoppedIds' = PoppedIds
        /\ StartedIds' = StartedIds
    BY <2>1 DEF PendingIds, PoppedIds, StartedIds, Ids
  <2> QED BY <2>1, <2>2 DEF Conserved
<1>7. ASSUME NEW c \in Clearers, ClearMessages(c) PROVE Conserved'
  <2>1. queue' = <<>> /\ lost' = lost \cup Ids(queue) /\ UNCHANGED <<counter, pending, popped, started>>
    BY <1>7 DEF ClearMessages
  <2>2. Ids(queue)' = {} /\ PendingIds' = PendingIds /\ PoppedIds' = PoppedIds /\ StartedIds' = StartedIds
    BY <2>1 DEF PendingIds, PoppedIds, StartedIds, Ids
  <2>3. (\A g \in Handles : \A m, n \in pending'[g] : m = n) /\ (\A m, n \in popped' : m = n)
    BY <2>1 DEF Conserved
  <2>4. counter' = counter /\ lost' = lost \cup Ids(queue)
    BY <2>1
  <2> QED BY <1>a, <2>2, <2>3, <2>4 DEF Conserved
<1>8. CASE UNCHANGED vars \/ RunMoves
  <2>1. UNCHANGED <<queue, counter, pending, popped, started, lost>>
    BY <1>8 DEF vars, RunMoves, Queues
  <2>2. /\ Ids(queue)' = Ids(queue) /\ PendingIds' = PendingIds /\ PoppedIds' = PoppedIds
        /\ StartedIds' = StartedIds
    BY <2>1 DEF PendingIds, PoppedIds, StartedIds, Ids
  <2> QED BY <2>1, <2>2 DEF Conserved
<1>9. CASE RunAborted
  <2>1. /\ popped' = {} /\ lost' = lost \cup PoppedIds
        /\ UNCHANGED <<queue, counter, pending, started>>
    BY <1>9 DEF RunAborted, PoppedIds
  <2>2. /\ Ids(queue)' = Ids(queue) /\ PendingIds' = PendingIds /\ PoppedIds' = {}
        /\ StartedIds' = StartedIds
    BY <2>1 DEF PendingIds, PoppedIds, StartedIds, Ids
  <2>3. (\A h \in Handles : \A m, n \in pending'[h] : m = n) /\ (\A m, n \in popped' : m = n)
    BY <2>1 DEF Conserved
  <2>4. counter' = counter /\ lost' = lost \cup PoppedIds
    BY <2>1
  <2> QED BY <1>a, <2>2, <2>3, <2>4 DEF Conserved
<1> QED BY <1>1, <1>2, <1>3, <1>4, <1>5, <1>6, <1>7, <1>8, <1>9, StepsOfRun

(* Every id that was given is in exactly one place: in the queue, with a   *)
(* handle, with the agent, started or dropped; and no id is queued twice.  *)
(* No message vanishes between two of them, and none is answered twice,    *)
(* for any queue limit and however the handles, the pop of the agent loop  *)
(* and clear_queue interleave.                                             *)
THEOREM NothingVanishes == Spec => []MessagesConserved
<1>1. Init => MarkerInv /\ Conserved
  <2> SUFFICES ASSUME Init PROVE MarkerInv /\ Conserved
    OBVIOUS
  <2>1. MarkerInv
    BY TypeAtInit DEF Init, MarkerInv, MarkersAreRetries, QueueMarked, PendingMarked,
       PoppedMarked, RetryRecognised
  <2>2. /\ Ids(queue) = {} /\ PendingIds = {} /\ PoppedIds = {} /\ StartedIds = {} /\ lost = {}
        /\ 0 .. counter - 1 = {}
    BY DEF Init, Ids, PendingIds, PoppedIds, StartedIds
  <2>3. (\A h \in Handles : \A m, n \in pending[h] : m = n) /\ (\A m, n \in popped : m = n)
    BY DEF Init
  <2> QED BY <2>1, <2>2, <2>3 DEF Conserved
<1>2. MarkerInv /\ Conserved /\ [Next]_vars => (MarkerInv /\ Conserved)'
  <2>1. MarkerInv /\ [Next]_vars => MarkerInv'
    BY MarkerStep, TypeStep DEF MarkerInv
  <2> QED BY <2>1, ConservedStep
<1>3. MarkerInv /\ Conserved => MessagesConserved
  <2> SUFFICES ASSUME MarkerInv, Conserved PROVE MessagesConserved
    OBVIOUS
  <2>1. Cardinality(Ids(queue)) = Len(queue)
    <3>1. queue \in Seq(Message) /\ Unique(queue)
      BY LiveApart DEF MarkerInv, TypeOK
    <3> QED BY <3>1, UniqueCount
  <2>2. LiveIds = Ids(queue) \cup PendingIds \cup PoppedIds
    BY DEF LiveIds
  <2> QED BY <2>1, <2>2 DEF Conserved, MessagesConserved
<1> QED BY <1>1, <1>2, <1>3, PTL DEF Spec
=============================================================================
