---------------------------- MODULE AgentSession ----------------------------
(***************************************************************************)
(* The interactive session: the terminal loop that admits prompts, retries *)
(* and cancellations, the agent tasks it spawns, the cleanup tasks of a    *)
(* cancellation, and what they share: the busy flag, the completion permit *)
(* (a tokio Notify), the task slot, the agent-loop mutex, the message      *)
(* queue, the conversation history and the retryable request.              *)
(*                                                                         *)
(* A turn of the agent is one action per outcome of execute_turn; what     *)
(* happens inside a turn is the subject of other modules.  A message that  *)
(* was queued as a retry carries a flag, which stands for the marker       *)
(* protocol that MessageQueue models and proves.                           *)
(***************************************************************************)
EXTENDS Integers, Sequences, FiniteSets

CONSTANTS
    Texts,        \* what the user can type
    Tasks,        \* agent tasks that can be spawned, 1 .. n
    Cleanups,     \* cancellation cleanups that can be spawned, 1 .. n
    MaxSubmits,   \* bound on the number of prompts
    MaxRetries,   \* bound on the number of /retry commands
    MaxTurns,     \* config.max_turns
    MaxQueue,     \* message_queue_max_len()
    NoTask,       \* no task holds the mutex, or is in the slot
    NoMessage     \* no retryable request, no candidate

ASSUME BoundsAssumption ==
    /\ Tasks \subseteq Nat \ {0} /\ Cleanups \subseteq Nat \ {0}
    /\ MaxSubmits \in Nat /\ MaxRetries \in Nat /\ MaxTurns \in Nat \ {0}
    /\ MaxQueue \in Nat \ {0}
    /\ NoTask \notin Tasks

VARIABLES
    tuiPc,        \* "input", "check", or waiting in /retry for the mutex
    tuiMsg,       \* the request /retry is about to queue
    submits,      \* prompts submitted so far: the next message id
    retries,      \* /retry commands so far
    busy,         \* agent_busy
    permit,       \* the stored permit of agent_done
    cancelPending,\* app.cancellation_pending
    slot,         \* agent_task: the handle a cancellation would abort
    cleanup,      \* per cleanup task: its step, the task it aborts, and
                  \* (auxiliary) the tasks spawned before it was requested
    pc,           \* per agent task: where it is
    job,          \* per agent task: the message it was spawned with
    turns,        \* per agent task: turn_count of its run
    aborting,     \* tasks whose JoinHandle was aborted
    holder,       \* the owner of the agent-loop mutex
    queue,        \* message_queue
    history,      \* conversation_history
    retryable,    \* state.retryable_failed_request
    candidate,    \* current_turn_retry_candidate
    retryMode,    \* AgentLoop::retry_mode
    cancelled,    \* state.is_cancelled and AgentLoop::cancelled
    ended,        \* auxiliary: per agent task, how its run ended
    lost          \* auxiliary: ids of prompts aborted unstarted, rolled back
                  \* or pushed out of a full queue

tuiVars   == <<tuiPc, tuiMsg, submits, retries, permit, cancelPending, slot>>
taskVars  == <<pc, job, turns>>
loopVars  == <<holder, queue, history, retryable, candidate, retryMode>>
vars == <<tuiVars, busy, cleanup, taskVars, aborting, loopVars, cancelled, ended, lost>>

Prompt  == [id: 1 .. MaxSubmits, text: Texts]
Results == [id: {0}, text: {"tool results"}]     \* a user message the loop writes
Reply   == [id: {0}, text: {"reply"}]            \* an assistant message
UserMsg == Prompt \cup Results
Queued  == [msg: UserMsg, retry: BOOLEAN]

toolResults == [id |-> 0, text |-> "tool results"]
reply       == [id |-> 0, text |-> "reply"]
IsUser(m)   == m # reply

Live(t) == pc[t] \in {"spawned", "loop", "turn", "approval", "tools", "finish", "released"}

TypeOK ==
    /\ tuiPc \in {"input", "check", "retryRead", "retryPush"}
    /\ tuiMsg \in UserMsg \cup {NoMessage}
    /\ submits \in 0 .. MaxSubmits /\ retries \in 0 .. MaxRetries
    /\ busy \in BOOLEAN /\ permit \in BOOLEAN /\ cancelPending \in BOOLEAN
    /\ cancelled \in BOOLEAN /\ retryMode \in BOOLEAN
    /\ slot \in Tasks \cup {NoTask} /\ holder \in Tasks \cup {NoTask}
    /\ cleanup \in [Cleanups -> [at: {"none", "take", "flags", "publish", "done"},
                                 victim: Tasks \cup {NoTask}, before: SUBSET Tasks]]
    /\ pc \in [Tasks -> {"none", "spawned", "loop", "turn", "approval", "tools",
                         "finish", "released", "done", "aborted"}]
    /\ job \in [Tasks -> [msg: UserMsg \cup {NoMessage}, retry: BOOLEAN]]
    /\ turns \in [Tasks -> 0 .. MaxTurns]
    /\ aborting \subseteq Tasks
    /\ queue \in Seq(Queued) /\ Len(queue) <= MaxQueue
    /\ history \in Seq(UserMsg \cup Reply)
    /\ retryable \in UserMsg \cup {NoMessage}
    /\ candidate \in UserMsg \cup {NoMessage}
    /\ lost \subseteq 0 .. MaxSubmits
    /\ ended \in [Tasks -> {"no", "complete", "error", "cancelled"}]

Init ==
    /\ tuiPc = "input" /\ tuiMsg = NoMessage
    /\ submits = 0 /\ retries = 0
    /\ busy = FALSE /\ permit = FALSE /\ cancelPending = FALSE
    /\ slot = NoTask /\ holder = NoTask
    /\ cleanup = [c \in Cleanups |-> [at |-> "none", victim |-> NoTask, before |-> {}]]
    /\ pc = [t \in Tasks |-> "none"]
    /\ job = [t \in Tasks |-> [msg |-> NoMessage, retry |-> FALSE]]
    /\ turns = [t \in Tasks |-> 0]
    /\ aborting = {}
    /\ queue = <<>> /\ history = <<>>
    /\ retryable = NoMessage /\ candidate = NoMessage
    /\ retryMode = FALSE /\ cancelled = FALSE
    /\ ended = [t \in Tasks |-> "no"]
    /\ lost = {}

-----------------------------------------------------------------------------
(* The terminal loop.  Every iteration handles at most one input event and *)
(* then looks for the completion of the agent.                             *)

(* finish_cancellation_cleanup, run before each event is dispatched.       *)
StillCancelling == cancelPending /\ busy

NextTask(t) == pc[t] = "none" /\ \A u \in Tasks : u < t => pc[u] # "none"
Spawned == {t \in Tasks : pc[t] # "none"}
NextCleanup(c) ==
    /\ cleanup[c].at = "none"
    /\ \A d \in Cleanups : d < c => cleanup[d].at # "none"

(* spawn_agent_task and spawn_agent_task_from_message.                     *)
Spawn(msg, retry) ==
    \E t \in Tasks :
        /\ NextTask(t)
        /\ pc' = [pc EXCEPT ![t] = "spawned"]
        /\ job' = [job EXCEPT ![t] = [msg |-> msg, retry |-> retry]]
        /\ slot' = t
        /\ busy' = TRUE

NoInput ==
    /\ tuiPc = "input"
    /\ cancelPending' = StillCancelling
    /\ tuiPc' = "check"
    /\ UNCHANGED <<tuiMsg, submits, retries, permit, slot, busy, cleanup, taskVars,
                   aborting, loopVars, cancelled, ended, lost>>

(* The queue is full: the oldest messages are pushed out by a submission,  *)
(* the newest by a retry, and nothing keeps them.                          *)
Newest(q) == IF Len(q) > MaxQueue THEN SubSeq(q, Len(q) - MaxQueue + 1, Len(q)) ELSE q
Oldest(q) == IF Len(q) > MaxQueue THEN SubSeq(q, 1, MaxQueue) ELSE q

(* Submitting a prompt: refused while a cancellation is finishing, queued  *)
(* while the agent is busy, and otherwise the start of a task.             *)
SubmitWhileBusy(text) ==
    /\ tuiPc = "input"
    /\ ~StillCancelling /\ busy
    /\ submits < MaxSubmits
    /\ submits' = submits + 1
    /\ LET q == Append(queue, [msg |-> [id |-> submits', text |-> text], retry |-> FALSE]) IN
          /\ queue' = Newest(q)
          /\ lost' = lost \cup {q[i].msg.id : i \in 1 .. Len(q) - MaxQueue}
    /\ cancelPending' = FALSE
    /\ tuiPc' = "check"
    /\ UNCHANGED <<tuiMsg, retries, permit, slot, busy, cleanup, taskVars, aborting,
                   holder, history, retryable, candidate, retryMode, cancelled, ended>>

Submit_IgnoreBusy(text) ==
    /\ tuiPc = "input"
    /\ ~StillCancelling
    /\ submits < MaxSubmits
    /\ submits' = submits + 1
    /\ Spawn([id |-> submits', text |-> text], FALSE)
    /\ cancelPending' = FALSE
    /\ tuiPc' = "check"
    /\ UNCHANGED <<tuiMsg, retries, permit, turns, cleanup, aborting, loopVars,
                   cancelled, ended, lost>>

SubmitWhenIdle(text) ==
    /\ tuiPc = "input"
    /\ ~StillCancelling /\ ~busy
    /\ submits < MaxSubmits
    /\ submits' = submits + 1
    /\ Spawn([id |-> submits', text |-> text], FALSE)
    /\ cancelPending' = FALSE
    /\ tuiPc' = "check"
    /\ UNCHANGED <<tuiMsg, retries, permit, turns, cleanup, aborting, loopVars,
                   cancelled, ended, lost>>

(* /retry first locks the session and the agent loop to read the request.  *)
RetryCommand ==
    /\ tuiPc = "input"
    /\ ~StillCancelling
    /\ retries < MaxRetries
    /\ retries' = retries + 1
    /\ cancelPending' = FALSE
    /\ tuiPc' = "retryRead"
    /\ UNCHANGED <<tuiMsg, submits, permit, slot, busy, cleanup, taskVars, aborting,
                   loopVars, cancelled, ended, lost>>

RetryUnavailable ==
    /\ tuiPc = "retryRead" /\ holder = NoTask
    /\ retryable = NoMessage
    /\ tuiPc' = "check"
    /\ UNCHANGED <<tuiMsg, submits, retries, permit, cancelPending, slot, busy, cleanup,
                   taskVars, aborting, loopVars, cancelled, ended, lost>>

(* With the request in hand, a busy agent gets it queued, for which the    *)
(* handle is fetched under the agent-loop lock once more ...               *)
RetryWhileBusy ==
    /\ tuiPc = "retryRead" /\ holder = NoTask
    /\ retryable # NoMessage /\ busy
    /\ tuiMsg' = retryable
    /\ tuiPc' = "retryPush"
    /\ UNCHANGED <<submits, retries, permit, cancelPending, slot, busy, cleanup,
                   taskVars, aborting, loopVars, cancelled, ended, lost>>

(* ... and prepended with a fresh id (MessageQueue!PrependRetryPush).      *)
RetryPush ==
    /\ tuiPc = "retryPush" /\ holder = NoTask
    /\ LET q == <<[msg |-> tuiMsg, retry |-> TRUE]>> \o queue IN
          /\ queue' = Oldest(q)
          /\ lost' = lost \cup {q[i].msg.id : i \in MaxQueue + 1 .. Len(q)}
    /\ tuiMsg' = NoMessage
    /\ tuiPc' = "check"
    /\ UNCHANGED <<submits, retries, permit, cancelPending, slot, busy, cleanup, taskVars,
                   aborting, holder, history, retryable, candidate, retryMode,
                   cancelled, ended>>

(* An idle agent is started on the request itself.                         *)
RetryWhenIdle ==
    /\ tuiPc = "retryRead" /\ holder = NoTask
    /\ retryable # NoMessage /\ ~busy
    /\ Spawn(retryable, TRUE)
    /\ tuiPc' = "check"
    /\ UNCHANGED <<tuiMsg, submits, retries, permit, cancelPending, turns, cleanup,
                   aborting, loopVars, cancelled, ended, lost>>

(* Ctrl+C on a busy agent: request_agent_cancel takes the task from the    *)
(* slot, aborts it and leaves the rest to a cleanup task of its own.       *)
CtrlC ==
    /\ tuiPc = "input" /\ busy
    /\ \E c \in Cleanups :
          /\ NextCleanup(c)
          /\ cleanup' = [cleanup EXCEPT ![c] = [at |-> "take", victim |-> slot, before |-> Spawned]]
    /\ aborting' = aborting \cup ({slot} \ {NoTask})
    /\ slot' = NoTask
    /\ busy' = TRUE
    /\ cancelPending' = TRUE
    /\ tuiPc' = "check"
    /\ UNCHANGED <<tuiMsg, submits, retries, permit, taskVars, loopVars, cancelled, ended, lost>>

(* A key answers the pending approval and the turn goes on.                *)
AnswerApproval(t) ==
    /\ tuiPc = "input" /\ pc[t] = "approval"
    /\ pc' = [pc EXCEPT ![t] = "tools"]
    /\ cancelPending' = StillCancelling
    /\ tuiPc' = "check"
    /\ UNCHANGED <<tuiMsg, submits, retries, permit, slot, busy, cleanup, job, turns,
                   aborting, loopVars, cancelled, ended, lost>>

(* Step 4 of the loop: a stored permit means the agent completed.          *)
CheckCompletion ==
    /\ tuiPc = "check"
    /\ IF permit /\ ~cancelPending
         THEN busy' = FALSE /\ permit' = FALSE
         ELSE UNCHANGED <<busy, permit>>
    /\ tuiPc' = "input"
    /\ UNCHANGED <<tuiMsg, submits, retries, cancelPending, slot, cleanup, taskVars,
                   aborting, loopVars, cancelled, ended, lost>>

-----------------------------------------------------------------------------
(* The cleanup task of a cancellation (cancel_agent_resources): abort what *)
(* is in the slot if the request found nothing there, publish the flags,   *)
(* end the commands' process groups, and readmit.                          *)
CleanupTake(c) ==
    /\ cleanup[c].at = "take"
    /\ LET victim == IF cleanup[c].victim = NoTask THEN slot ELSE cleanup[c].victim IN
          /\ cleanup' = [cleanup EXCEPT ![c].at = "flags", ![c].victim = victim]
          /\ aborting' = aborting \cup ({victim} \ {NoTask})
          /\ slot' = IF cleanup[c].victim = NoTask THEN NoTask ELSE slot
    /\ UNCHANGED <<tuiPc, tuiMsg, submits, retries, permit, cancelPending, busy, taskVars,
                   loopVars, cancelled, ended, lost>>

CleanupFlags(c) ==
    /\ cleanup[c].at = "flags"
    /\ cancelled' = TRUE
    /\ cleanup' = [cleanup EXCEPT ![c].at = "publish"]
    /\ UNCHANGED <<tuiVars, busy, taskVars, aborting, loopVars, ended, lost>>

CleanupPublish_KeepBusy(c) ==
    /\ cleanup[c].at = "publish"
    /\ cleanup' = [cleanup EXCEPT ![c].at = "done"]
    /\ UNCHANGED <<tuiVars, busy, taskVars, aborting, loopVars, cancelled, ended, lost>>

CleanupPublish(c) ==
    /\ cleanup[c].at = "publish"
    /\ busy' = FALSE
    /\ cleanup' = [cleanup EXCEPT ![c].at = "done"]
    /\ UNCHANGED <<tuiVars, taskVars, aborting, loopVars, cancelled, ended, lost>>

-----------------------------------------------------------------------------
(* The agent task: run_agent_task and the loop of AgentLoop::run.          *)

InHistory(m) ==
    \E i \in 1 .. Len(history) : history[i] = m

(* The task takes the agent loop, clears the cancellation flags and enters *)
(* run or run_retry; in retry mode a message already in the history is not *)
(* appended again: by id, or by text for a prompt that got no id.          *)
BeginRun(t) ==
    /\ pc[t] = "spawned" /\ holder = NoTask
    /\ holder' = t
    /\ cancelled' = FALSE
    /\ retryMode' = (job[t].retry \/ retryMode)
    /\ candidate' = job[t].msg
    /\ LET present == IF job[t].retry
                        THEN InHistory(job[t].msg)
                        ELSE \E m \in Prompt : InHistory(m) /\ m.text = job[t].msg.text
       IN history' = IF retryMode' /\ present THEN history
                     ELSE Append(history, job[t].msg)
    /\ pc' = [pc EXCEPT ![t] = "loop"]
    /\ UNCHANGED <<tuiVars, busy, cleanup, job, turns, aborting, queue, retryable, ended, lost>>

EndRun(t, how) ==
    /\ pc' = [pc EXCEPT ![t] = "finish"]
    /\ ended' = [ended EXCEPT ![t] = how]

Started_AnyRepeat(item) ==
    IF history # <<>> /\ history[Len(history)].text = item.msg.text
      THEN history
      ELSE Append(history, item.msg)

(* The history after a queued message began: a retry is not appended when  *)
(* the last entry is the same message.                                     *)
Started(item) ==
    IF item.retry /\ history # <<>> /\ history[Len(history)].text = item.msg.text
      THEN history
      ELSE Append(history, item.msg)

HasTurnsLeft_OneMore(t) == turns[t] <= MaxTurns
HasTurnsLeft(t) == turns[t] < MaxTurns

(* The top of the loop: out of turns, or cancelled.                        *)
StopAtTop(t) ==
    /\ pc[t] = "loop"
    /\ \/ ~HasTurnsLeft(t) /\ EndRun(t, "error") /\ UNCHANGED turns
       \/ /\ HasTurnsLeft(t) /\ cancelled
          /\ turns' = [turns EXCEPT ![t] = @ + 1]
          /\ EndRun(t, "cancelled")
    /\ UNCHANGED <<tuiVars, busy, cleanup, job, aborting, loopVars, cancelled, lost>>

LastUser(h) ==
    LET users == {i \in 1 .. Len(h) : IsUser(h[i])} IN
      IF users = {} THEN NoMessage
      ELSE h[CHOOSE i \in users : \A j \in users : j <= i]

ForgetRetryable == retryable' = NoMessage

(* ... or the next queued message joins the history and a turn starts,     *)
(* which forgets the retryable request of an earlier one.                  *)
BeginTurn(t) ==
    /\ pc[t] = "loop" /\ HasTurnsLeft(t) /\ ~cancelled
    /\ turns' = [turns EXCEPT ![t] = @ + 1]
    /\ LET popped == queue # <<>>
           cand == IF popped THEN queue[1].msg ELSE candidate
       IN /\ queue' = IF popped THEN Tail(queue) ELSE queue
          /\ history' = IF popped THEN Started(queue[1]) ELSE history
          /\ candidate' = IF cand = NoMessage THEN LastUser(history') ELSE cand
    /\ ForgetRetryable
    /\ pc' = [pc EXCEPT ![t] = "turn"]
    /\ UNCHANGED <<tuiVars, busy, cleanup, job, aborting, holder, retryMode,
                   cancelled, ended, lost>>

(* A tool call of the turn waits for the user.                             *)
AskApproval(t) ==
    /\ pc[t] \in {"turn", "tools"}
    /\ pc' = [pc EXCEPT ![t] = "approval"]
    /\ UNCHANGED <<tuiVars, busy, cleanup, job, turns, aborting, loopVars, cancelled, ended, lost>>

(* The 300 second limit of an approval prompt.                             *)
ApprovalTimeout(t) ==
    /\ pc[t] = "approval"
    /\ pc' = [pc EXCEPT ![t] = "tools"]
    /\ UNCHANGED <<tuiVars, busy, cleanup, job, turns, aborting, loopVars, cancelled, ended, lost>>

(* TurnResult::Continue: tools ran, their results are a user message.      *)
TurnContinue(t) ==
    /\ pc[t] \in {"turn", "tools"}
    /\ history' = history \o <<reply, toolResults>>
    /\ candidate' = NoMessage
    /\ pc' = [pc EXCEPT ![t] = "loop"]
    /\ UNCHANGED <<tuiVars, busy, cleanup, job, turns, aborting, holder, queue, retryable,
                   retryMode, cancelled, ended, lost>>

(* TurnResult::Complete: the next queued message is taken at once and the  *)
(* loop goes on, or the run ends.                                          *)
TurnComplete(t) ==
    /\ pc[t] \in {"turn", "tools"}
    /\ LET h == Append(history, reply) IN
       IF queue # <<>>
         THEN /\ queue' = Tail(queue)
              /\ history' = Append(h, queue[1].msg)
              /\ candidate' = queue[1].msg
              /\ pc' = [pc EXCEPT ![t] = "loop"]
              /\ UNCHANGED ended
         ELSE /\ history' = h
              /\ candidate' = NoMessage
              /\ EndRun(t, "complete")
              /\ UNCHANGED queue
    /\ UNCHANGED <<tuiVars, busy, cleanup, job, turns, aborting, holder, retryable,
                   retryMode, cancelled, lost>>

(* TurnResult::Error: the request failed before any output and can be      *)
(* retried; it failed after; or it exceeded the context, and the message   *)
(* it would have answered is rolled back.                                  *)
TurnFailsRetryable(t) ==
    /\ pc[t] = "turn"
    /\ retryable' = candidate
    /\ candidate' = NoMessage
    /\ EndRun(t, "error")
    /\ UNCHANGED <<tuiVars, busy, cleanup, job, turns, aborting, holder, queue, history,
                   retryMode, cancelled, lost>>

TurnFailsFinally(t) ==
    /\ pc[t] \in {"turn", "tools"}
    /\ candidate' = NoMessage
    /\ EndRun(t, "error")
    /\ UNCHANGED <<tuiVars, busy, cleanup, job, turns, aborting, holder, queue, history,
                   retryable, retryMode, cancelled, lost>>

TurnExceedsContext(t) ==
    /\ pc[t] = "turn"
    /\ LET n == Len(history) IN
       IF n > 0 /\ IsUser(history[n])
         THEN /\ history' = SubSeq(history, 1, n - 1)
              /\ lost' = lost \cup {history[n].id}
         ELSE UNCHANGED <<history, lost>>
    /\ retryable' \in {candidate, retryable}
    /\ candidate' = NoMessage
    /\ EndRun(t, "error")
    /\ UNCHANGED <<tuiVars, busy, cleanup, job, turns, aborting, holder, queue, retryMode,
                   cancelled>>

(* TurnResult::Cancelled: a turn that sees the flags while it connects     *)
(* keeps its request for /retry; one that sees them in the stream does not.*)
TurnCancelled(t) ==
    /\ pc[t] = "turn" /\ cancelled
    /\ retryable' \in {candidate, retryable}
    /\ candidate' = NoMessage
    /\ EndRun(t, "cancelled")
    /\ UNCHANGED <<tuiVars, busy, cleanup, job, turns, aborting, holder, queue, history,
                   retryMode, cancelled, lost>>

(* The run returns: run_retry leaves retry mode, the guard is dropped.     *)
Release(t) ==
    /\ pc[t] = "finish"
    /\ holder' = NoTask
    /\ retryMode' = IF job[t].retry THEN FALSE ELSE retryMode
    /\ pc' = [pc EXCEPT ![t] = "released"]
    /\ UNCHANGED <<tuiVars, busy, cleanup, job, turns, aborting, queue, history, retryable,
                   candidate, cancelled, ended, lost>>

(* The task reads retry_available under the agent-loop lock and notifies.  *)
NotifyDone(t) ==
    /\ pc[t] = "released" /\ holder = NoTask
    /\ permit' = TRUE
    /\ pc' = [pc EXCEPT ![t] = "done"]
    /\ UNCHANGED <<tuiPc, tuiMsg, submits, retries, cancelPending, slot, busy, cleanup,
                   job, turns, aborting, loopVars, cancelled, ended, lost>>

AbortTakesEffect_KeepLock(t) ==
    /\ t \in aborting /\ Live(t)
    /\ pc' = [pc EXCEPT ![t] = "aborted"]
    /\ UNCHANGED <<tuiVars, busy, cleanup, job, turns, aborting, loopVars, cancelled,
                   ended, lost>>

(* An aborted task is dropped at an await; its lock guard goes with it.    *)
AbortTakesEffect(t) ==
    /\ t \in aborting /\ Live(t)
    /\ pc' = [pc EXCEPT ![t] = "aborted"]
    /\ holder' = IF holder = t THEN NoTask ELSE holder
    /\ lost' = IF pc[t] = "spawned" THEN lost \cup {job[t].msg.id} ELSE lost
    /\ UNCHANGED <<tuiVars, busy, cleanup, job, turns, aborting, queue, history, retryable,
                   candidate, retryMode, cancelled, ended>>

-----------------------------------------------------------------------------
User ==
    \/ \E x \in Texts : SubmitWhileBusy(x) \/ SubmitWhenIdle(x)
    \/ RetryCommand \/ CtrlC
Terminal ==
    \/ NoInput \/ CheckCompletion
    \/ RetryUnavailable \/ RetryWhileBusy \/ RetryPush \/ RetryWhenIdle
Cleanup(c) == CleanupTake(c) \/ CleanupFlags(c) \/ CleanupPublish(c)
Turn(t) ==
    \/ TurnContinue(t) \/ TurnComplete(t)
    \/ TurnFailsRetryable(t) \/ TurnFailsFinally(t) \/ TurnExceedsContext(t)
    \/ TurnCancelled(t)
Agent(t) ==
    \/ BeginRun(t) \/ StopAtTop(t) \/ BeginTurn(t) \/ Turn(t)
    \/ ApprovalTimeout(t) \/ Release(t) \/ NotifyDone(t)

Next ==
    \/ User \/ Terminal
    \/ \E t \in Tasks :
          Agent(t) \/ AskApproval(t) \/ AnswerApproval(t) \/ AbortTakesEffect(t)
    \/ \E c \in Cleanups : Cleanup(c)

(* The runtime schedules every ready task, every turn ends because         *)
(* requests and approvals carry timeouts, and an aborted task reaches an   *)
(* await.  Users owe nothing.                                              *)
Fairness ==
    /\ WF_vars(Terminal)
    /\ \A t \in Tasks : WF_vars(Agent(t)) /\ WF_vars(AbortTakesEffect(t)) /\ SF_vars(Turn(t))
    /\ \A c \in Cleanups : WF_vars(Cleanup(c))

-----------------------------------------------------------------------------
(* What the session promises.                                              *)
HistoryIds == {history[i].id : i \in 1 .. Len(history)}

(* Admission: a prompt only starts a task when no other task is at work,   *)
(* so two tasks never contend for the agent loop (the busy check of the    *)
(* submit branch, kept by request_agent_cancel until cleanup is over).     *)
OneLiveTask ==
    \A t, u \in Tasks : Live(t) /\ Live(u) /\ {t, u} \cap aborting = {} => t = u

(* No prompt the terminal accepted disappears: it waits for its task, is   *)
(* queued, is in the history, or was cancelled unstarted, rolled back or   *)
(* pushed out of a full queue by a later prompt or a retry (run() and the  *)
(* queue pops each put what they take into the history).                   *)
PromptsAccounted ==
    \A id \in 1 .. submits :
       \/ \E t \in Tasks : pc[t] = "spawned" /\ job[t].msg.id = id
       \/ \E i \in 1 .. Len(queue) : queue[i].msg.id = id
       \/ id \in HistoryIds \cup lost

(* A cancellation ends, and so does being busy, however it interleaves with*)
(* completion, approval and a second cancellation: the terminal never      *)
(* refuses input for ever (agent_busy, cancellation_pending).              *)
BecomesIdle == (cancelPending ~> ~cancelPending) /\ (busy ~> ~busy)

(* With the agent idle after a completed run, nothing is left in the queue *)
(* (enqueue_message: queued messages are processed after the response).    *)
NoStrandedPrompt ==
    ~busy /\ (\A t \in Spawned : ended[t] = "complete" /\ pc[t] = "done") => queue = <<>>

(* A local command does not wait for the run that holds the agent loop.    *)
LocalCommandsImmediate == tuiPc \in {"retryRead", "retryPush"} => holder = NoTask

Spec == Init /\ [][Next]_vars
FairSpec == Spec /\ Fairness
=============================================================================
