---------------------------- MODULE MessageQueue ----------------------------
(***************************************************************************)
(* The queue of follow-up messages of an AgentLoop, and the set of markers *)
(* that tells the loop which of the queued messages is the retry of a      *)
(* failed request (src/src/core/agent_loop.rs, MessageQueueHandle).        *)
(*                                                                         *)
(* Queue and marker set are guarded by two locks of their own.  Handle     *)
(* owners (the terminal loop, and any task that cloned the handle) push,   *)
(* the agent task pops, and it does so only while a run goes on: at the top *)
(* of the loop, and once more when a turn has completed.  An operation that takes both locks one after the  *)
(* other is two steps here, with the program counter of its caller in      *)
(* between; one that only nests the marker lock inside the queue lock is   *)
(* one step, because every access to the markers commutes with it.         *)
(***************************************************************************)
EXTENDS Integers, Sequences, FiniteSets

CONSTANTS
    Handles,     \* tasks that own a clone of the MessageQueueHandle
    Clearers,    \* tasks that call AgentLoop::clear_queue
    MaxLen,      \* message_queue_max_len(): SNED_MESSAGE_QUEUE_MAX_LEN or 1000
    MaxMsgs      \* bound on message_counter

ASSUME MaxLenAssumption == MaxLen \in Nat \ {0}
ASSUME MaxMsgsAssumption == MaxMsgs \in Nat

VARIABLES
    run,         \* where run() is: before the top of its loop, at it, in a
                 \* turn, at the last look of its Complete branch, or over
    queue,       \* message_queue, front first
    retryIds,    \* retry_message_ids
    counter,     \* message_counter: the next fresh message id
    pending,     \* pending[h]: retries of h that are marked and not yet pushed
    clearing,    \* clearing[c]: c has cleared the markers and not yet the queue
    popped,      \* messages the agent popped and has not yet looked up
    started,     \* auxiliary: messages the agent began, with the answer it got
    lost,        \* auxiliary: ids of messages that left the queue unprocessed
    wiped        \* auxiliary: ids whose marker clear_queue removed

vars == <<run, queue, retryIds, counter, pending, clearing, popped, started, lost, wiped>>

Id == 0 .. MaxMsgs
Message == [id: Id, retry: BOOLEAN]
Started == [id: Id, retry: BOOLEAN, asRetry: BOOLEAN]

(* "ahead" is what a run does before it comes to the top of its loop: its    *)
(* hooks, and the wait of a paused plan.                                    *)
Running == {"ahead", "top", "turn", "last"}
Over == {"idle", "complete", "stopped"}

Ids(q) == {q[i].id : i \in 1 .. Len(q)}

(* Queued as a retry, and still one: clear_queue has not taken its marker.  *)
Standing(m) == m.retry /\ m.id \notin wiped

(***************************************************************************)
(* Both ends of the VecDeque.  The loops `while mq.len() > max_queue_len`  *)
(* remove from the end opposite to the push.                               *)
(***************************************************************************)
OverflowFront(q) == SubSeq(q, 1, Len(q) - MaxLen)
DropFront_OffByOne(q) ==
    IF Len(q) > MaxLen + 1 THEN SubSeq(q, Len(q) - MaxLen + 1, Len(q)) ELSE q
DropFront(q) == IF Len(q) > MaxLen THEN SubSeq(q, Len(q) - MaxLen + 1, Len(q)) ELSE q
OverflowBack(q) == SubSeq(q, MaxLen + 1, Len(q))
DropBack(q) == IF Len(q) > MaxLen THEN SubSeq(q, 1, MaxLen) ELSE q

TypeOK ==
    /\ run \in Running \cup Over
    /\ queue \in Seq(Message) /\ Len(queue) <= MaxLen
    /\ retryIds \subseteq Id
    /\ counter \in Id
    /\ pending \in [Handles -> SUBSET Message]
    /\ clearing \in [Clearers -> BOOLEAN]
    /\ popped \subseteq Message
    /\ started \subseteq Started
    /\ lost \subseteq Id
    /\ wiped \subseteq Id

Init ==
    /\ run = "idle"
    /\ queue = <<>>
    /\ retryIds = {}
    /\ counter = 0
    /\ pending = [h \in Handles |-> {}]
    /\ clearing = [c \in Clearers |-> FALSE]
    /\ popped = {}
    /\ started = {}
    /\ lost = {}
    /\ wiped = {}

-----------------------------------------------------------------------------
(* next_message_id: a fresh id from the shared atomic counter.             *)
NextMessageId ==
    /\ counter < MaxMsgs
    /\ counter' = counter + 1

(* enqueue_text_message and AgentLoop::enqueue_message: push to the back,  *)
(* the oldest messages overflow.  The markers are not looked at.           *)
EnqueueText(h) ==
    /\ pending[h] = {}
    /\ NextMessageId
    /\ LET q == Append(queue, [id |-> counter, retry |-> FALSE]) IN
          /\ queue' = DropFront(q)
          /\ lost' = lost \cup Ids(OverflowFront(q))
    /\ UNCHANGED <<run, retryIds, pending, clearing, popped, started, wiped>>

(* prepend_text_message: push to the front, the newest messages overflow.  *)
PrependText(h) ==
    /\ pending[h] = {}
    /\ NextMessageId
    /\ LET q == <<[id |-> counter, retry |-> FALSE]>> \o queue IN
          /\ queue' = DropBack(q)
          /\ lost' = lost \cup Ids(OverflowBack(q))
    /\ UNCHANGED <<run, retryIds, pending, clearing, popped, started, wiped>>

PrependRetryMark_Late(h) ==
    /\ pending[h] = {}
    /\ NextMessageId
    /\ pending' = [pending EXCEPT ![h] = {[id |-> counter, retry |-> TRUE]}]
    /\ UNCHANGED <<run, queue, retryIds, clearing, popped, started, lost, wiped>>

(* prepend_retry_message, first half: the message gets a fresh id, and the *)
(* id is marked before the message can be seen in the queue.               *)
PrependRetryMark(h) ==
    /\ pending[h] = {}
    /\ NextMessageId
    /\ pending' = [pending EXCEPT ![h] = {[id |-> counter, retry |-> TRUE]}]
    /\ retryIds' = retryIds \cup {counter}
    /\ UNCHANGED <<run, queue, clearing, popped, started, lost, wiped>>

(* prepend_retry_message, second half: push to the front; the markers of   *)
(* the messages that overflow at the back go with them.                    *)
PrependRetryPush(h) ==
    \E m \in pending[h] :
        LET q == <<m>> \o queue IN
          /\ queue' = DropBack(q)
          /\ retryIds' = retryIds \ Ids(OverflowBack(q))
          /\ lost' = lost \cup Ids(OverflowBack(q))
          /\ pending' = [pending EXCEPT ![h] = {}]
          /\ UNCHANGED <<run, counter, clearing, popped, started, wiped>>

(***************************************************************************)
(* The run looks at the queue at the top of its loop and, when a turn has  *)
(* completed, once more; it returns on an error, a cancellation, a stop by *)
(* a hook or the limit of turns without looking.                           *)
(***************************************************************************)
Queues == <<queue, retryIds, counter, pending, clearing, popped, started, lost, wiped>>

BeginRun == run \in Over /\ run' = "ahead" /\ UNCHANGED Queues
ReachTop == run = "ahead" /\ run' = "top" /\ UNCHANGED Queues

(* Nothing is queued at the top: the turn begins.                          *)
TurnBegins == run = "top" /\ popped = {} /\ queue = <<>> /\ run' = "turn" /\ UNCHANGED Queues

TurnContinues == run = "turn" /\ run' = "ahead" /\ UNCHANGED Queues
TurnCompletes == run = "turn" /\ run' = "last" /\ UNCHANGED Queues

RunCompletes_NoLook == run = "last" /\ popped = {} /\ run' = "complete" /\ UNCHANGED Queues

(* The Complete branch found the queue empty: the run returns.             *)
RunCompletes ==
    run = "last" /\ popped = {} /\ queue = <<>> /\ run' = "complete" /\ UNCHANGED Queues

(* TurnResult::Error or Cancelled, a cancellation or the limit of turns at *)
(* the top, a hook's stop, the end of a paused plan.                       *)
RunStops == run \in {"ahead", "turn"} /\ run' = "stopped" /\ UNCHANGED Queues

(* The task is aborted; a message it has popped and not yet looked up is   *)
(* dropped with it, and its marker stays behind.                           *)
RunAborted ==
    /\ run \in Running
    /\ run' = "stopped"
    /\ popped' = {}
    /\ lost' = lost \cup {m.id : m \in popped}
    /\ UNCHANGED <<queue, retryIds, counter, pending, clearing, started, wiped>>

Pop_LeaveFront ==
    /\ run \in {"top", "last"} /\ popped = {}
    /\ queue # <<>>
    /\ popped' = {Head(queue)}
    /\ UNCHANGED <<run, queue, retryIds, counter, pending, clearing, started, lost, wiped>>

(* The run takes the front of the queue and releases the queue ...         *)
Pop ==
    /\ run \in {"top", "last"} /\ popped = {}
    /\ queue # <<>>
    /\ popped' = {Head(queue)}
    /\ queue' = Tail(queue)
    /\ UNCHANGED <<run, retryIds, counter, pending, clearing, started, lost, wiped>>

(* ... and then asks the marker set whether it is a retry, consuming the   *)
(* marker: `retry_message_ids.lock().await.remove(id)`.  Popped at the top, *)
(* the message begins its turn; popped by the Complete branch, the loop    *)
(* goes round first.                                                       *)
LookupRetry ==
    \E m \in popped :
        /\ started' = started \cup
              {[id |-> m.id, retry |-> Standing(m), asRetry |-> m.id \in retryIds]}
        /\ retryIds' = retryIds \ {m.id}
        /\ popped' = {}
        /\ run' = IF run = "top" THEN "turn" ELSE "ahead"
        /\ UNCHANGED <<queue, counter, pending, clearing, lost, wiped>>

(* clear_queue: the markers first, then, under the other lock, the queue.  *)
ClearMarkers(c) ==
    /\ ~clearing[c]
    /\ retryIds' = {}
    /\ wiped' = wiped \cup retryIds
    /\ clearing' = [clearing EXCEPT ![c] = TRUE]
    /\ UNCHANGED <<run, queue, counter, pending, popped, started, lost>>

ClearMessages(c) ==
    /\ clearing[c]
    /\ queue' = <<>>
    /\ lost' = lost \cup Ids(queue)
    /\ clearing' = [clearing EXCEPT ![c] = FALSE]
    /\ UNCHANGED <<run, retryIds, counter, pending, popped, started, wiped>>

Next ==
    \/ \E h \in Handles :
          EnqueueText(h) \/ PrependText(h) \/ PrependRetryMark(h) \/ PrependRetryPush(h)
    \/ BeginRun \/ ReachTop \/ TurnBegins \/ TurnContinues \/ TurnCompletes
    \/ RunCompletes \/ RunStops \/ RunAborted
    \/ Pop \/ LookupRetry
    \/ \E c \in Clearers : ClearMarkers(c) \/ ClearMessages(c)

(* A run that looks at the queue goes on from there, and a handle that      *)
(* marked a retry goes on to push it.  Nobody owes a run: a turn may wait   *)
(* for ever, and when a run is over the next one may never begin.           *)
Fairness ==
    /\ WF_vars(Pop) /\ WF_vars(LookupRetry) /\ WF_vars(TurnBegins) /\ WF_vars(RunCompletes)
    /\ \A h \in Handles : WF_vars(PrependRetryPush(h))

-----------------------------------------------------------------------------
PendingIds == UNION {{m.id : m \in pending[h]} : h \in Handles}
PoppedIds == {m.id : m \in popped}
LiveIds == Ids(queue) \cup PendingIds \cup PoppedIds
StartedIds == {s.id : s \in started}

(* A queued retry is recognised as one when it starts, whatever was queued, *)
(* dropped or retried in between, and no ordinary message is taken for one: *)
(* otherwise run() would record the user turn twice, or lose it.  Only a    *)
(* clear_queue in between takes the mark away, and never gives it to        *)
(* another message (prepend_retry_message, and the pop at the loop's top).  *)
RetryRecognised == \A s \in started : s.asRetry = s.retry

(* The marker protocol, wherever a message is: a live message carries a     *)
(* marker exactly when it is a retry, and no two live messages share an id, *)
(* so dropping or starting one never unmarks another (the order of insert   *)
(* and push, and the fresh id, in prepend_retry_message).                   *)
QueueMarked ==
    /\ \A i \in 1 .. Len(queue) :
          /\ queue[i].id < counter
          /\ Standing(queue[i]) <=> queue[i].id \in retryIds
    /\ \A i, j \in 1 .. Len(queue) : queue[i].id = queue[j].id => i = j
PendingMarked ==
    \A h \in Handles : \A m \in pending[h] :
       /\ m.id < counter /\ m.retry
       /\ Standing(m) <=> m.id \in retryIds
       /\ \A i \in 1 .. Len(queue) : queue[i].id # m.id
       /\ \A g \in Handles : \A n \in pending[g] : n.id = m.id => g = h
PoppedMarked ==
    \A m \in popped :
       /\ m.id < counter
       /\ Standing(m) <=> m.id \in retryIds
       /\ \A i \in 1 .. Len(queue) : queue[i].id # m.id
       /\ \A h \in Handles : \A n \in pending[h] : n.id # m.id
MarkersAreRetries ==
    /\ QueueMarked /\ PendingMarked /\ PoppedMarked
    /\ \A id \in retryIds \cup wiped : id < counter

(* Every message that got an id is in one place: waiting, being pushed,     *)
(* being started, started or dropped; none vanishes and none runs twice     *)
(* (pop under the queue lock, overflow at either end).                      *)
MessagesConserved ==
    /\ 0 .. counter - 1 = LiveIds \cup StartedIds \cup lost
    /\ LiveIds \cap (StartedIds \cup lost) = {}
    /\ StartedIds \cap lost = {}
    /\ Cardinality(Ids(queue)) = Len(queue)

(* No run completes over a waiting message: what is queued while a run goes *)
(* on is begun or pushed out before it completes, wherever the push fell    *)
(* between its looks.  Only a stopped run leaves messages behind, and only  *)
(* one whose turn, hook or paused plan never ends keeps them waiting (the   *)
(* pops at the loop's top and in the Complete branch of run()).             *)
QueuedIsServed ==
    \A id \in 0 .. MaxMsgs - 1 :
        (id \in Ids(queue) /\ run \in Running)
            ~> (id \notin LiveIds \/ run = "stopped" \/ [](run \in {"ahead", "turn"}))

Spec == Init /\ [][Next]_vars
FairSpec == Spec /\ Fairness
=============================================================================
