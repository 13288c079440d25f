-------------------------- MODULE AgentSessionProofs --------------------------
(***************************************************************************)
(* What holds of AgentSession for any texts and any number of tasks,       *)
(* prompts, retries and turns: types, for any number of cancellations; and *)
(* for a session without a cancellation, that one task works at a time and *)
(* that no prompt is lost.                                                 *)
(***************************************************************************)
EXTENDS AgentSession, SequenceTheorems, WellFoundedInduction, TLAPS

(* Types: the flags, the terminal, the tasks, and what the agent loop owns.*)
Steps    == {"none", "spawned", "loop", "turn", "approval", "tools", "finish", "released",
             "done", "aborted"}
Job      == [msg: UserMsg \cup {NoMessage}, retry: BOOLEAN]
CleanupState == [at: {"none", "take", "flags", "publish", "done"},
                 victim: Tasks \cup {NoTask}, before: SUBSET Tasks]

FlagsOK ==
    /\ busy \in BOOLEAN /\ permit \in BOOLEAN /\ cancelPending \in BOOLEAN
    /\ cancelled \in BOOLEAN /\ retryMode \in BOOLEAN

(* What /retry queues is a request that was there when it was read.        *)
TerminalOK ==
    /\ tuiPc \in {"input", "check", "retryRead", "retryPush"}
    /\ tuiMsg \in UserMsg \cup {NoMessage}
    /\ tuiPc = "retryPush" => tuiMsg \in UserMsg
    /\ submits \in 0 .. MaxSubmits /\ retries \in 0 .. MaxRetries
    /\ slot \in Tasks \cup {NoTask} /\ aborting \subseteq Tasks
    /\ cleanup \in [Cleanups -> CleanupState]

(* A task is spawned with a message.                                       *)
TasksOK ==
    /\ pc \in [Tasks -> Steps] /\ job \in [Tasks -> Job] /\ turns \in [Tasks -> 0 .. MaxTurns]
    /\ ended \in [Tasks -> {"no", "complete", "error", "cancelled"}]
    /\ holder \in Tasks \cup {NoTask}
    /\ \A t \in Tasks : pc[t] = "spawned" => job[t].msg \in UserMsg

LoopOK ==
    /\ queue \in Seq(Queued) /\ Len(queue) <= MaxQueue
    /\ history \in Seq(UserMsg \cup Reply)
    /\ retryable \in UserMsg \cup {NoMessage} /\ candidate \in UserMsg \cup {NoMessage}
    /\ lost \subseteq 0 .. MaxSubmits

TypeInv == FlagsOK /\ TerminalOK /\ TasksOK /\ LoopOK

(* The parts contain the type invariant.                                    *)
LEMMA TypeInvType == TypeInv => TypeOK
BY DEF TypeInv, FlagsOK, TerminalOK, TasksOK, LoopOK, TypeOK, Steps, Job, CleanupState

-----------------------------------------------------------------------------
(* Messages.                                                               *)

(* What the loop writes and what the user types are messages; ids are those *)
(* of prompts, or 0.                                                        *)
LEMMA MessageTypes ==
    /\ toolResults \in UserMsg /\ reply \in Reply
    /\ \A m \in UserMsg : m.id \in 0 .. MaxSubmits
    /\ \A m \in UserMsg \cup Reply : IsUser(m) => m \in UserMsg
    /\ \A i \in 1 .. MaxSubmits, x \in Texts : [id |-> i, text |-> x] \in UserMsg
<1>1. toolResults \in UserMsg /\ reply \in Reply
  BY DEF toolResults, UserMsg, Results, reply, Reply
<1>2. ASSUME NEW m \in UserMsg PROVE m.id \in 0 .. MaxSubmits
  <2>1. m \in Prompt => m.id \in 1 .. MaxSubmits
    BY DEF Prompt
  <2>2. m \in Results => m.id = 0
    BY DEF Results
  <2> QED BY <2>1, <2>2, BoundsAssumption DEF UserMsg
<1>3. ASSUME NEW m \in Reply PROVE m = reply
  BY DEF Reply, reply
<1>4. \A i \in 1 .. MaxSubmits, x \in Texts : [id |-> i, text |-> x] \in UserMsg
  BY DEF UserMsg, Prompt
<1> QED BY <1>1, <1>2, <1>3, <1>4 DEF IsUser

(* A nonempty set of natural numbers has a smallest element, and a nonempty *)
(* set of positions a largest.                                              *)
LEMMA SmallestElement ==
    ASSUME NEW T, T \subseteq Nat, T # {}
    PROVE  \E x \in T : \A y \in T : x <= y
<1> DEFINE R == {ss \in Nat \X Nat : ss[1] < ss[2]}
<1>1. IsWellFoundedOn(R, Nat)
  BY NatLessThanWellFounded DEF OpToRel
<1>2. \A x, y \in Nat : <<y, x>> \in R <=> y < x
  OBVIOUS
<1> HIDE DEF R
<1>3. PICK x \in T : \A y \in T : ~ (<<y, x>> \in R)
  BY <1>1, WFMin
<1>4. \A y \in T : ~ (y < x)
  BY <1>2, <1>3
<1> QED BY <1>3, <1>4

(* ... which the search for the last user message rests on.                 *)
LEMMA LargestElement ==
    ASSUME NEW n \in Nat, NEW T, T \subseteq 1 .. n, T # {}
    PROVE  \E x \in T : \A y \in T : y <= x
<1> DEFINE U == {n - x : x \in T}
<1>1. \A x \in T : n - x \in Nat
  OBVIOUS
<1>2. PICK u \in U : \A v \in U : u <= v
  <2>1. U \subseteq Nat /\ U # {}
    BY <1>1
  <2> HIDE DEF U
  <2> QED BY <2>1, SmallestElement
<1>3. PICK x \in T : u = n - x
  BY <1>2
<1>4. \A y \in T : n - x <= n - y
  BY <1>2, <1>3
<1> QED BY <1>4

(* The last user message of a history is one of its messages.               *)
LEMMA LastUserType ==
    ASSUME NEW h \in Seq(UserMsg \cup Reply)
    PROVE  /\ LastUser(h) \in UserMsg \cup {NoMessage}
           /\ LastUser(h) # NoMessage => \E i \in 1 .. Len(h) : LastUser(h) = h[i]
<1> DEFINE users == {i \in 1 .. Len(h) : IsUser(h[i])}
           last == CHOOSE i \in users : \A j \in users : j <= i
<1>1. LastUser(h) = IF users = {} THEN NoMessage ELSE h[last]
  BY DEF LastUser
<1>2. CASE users = {}
  BY <1>1, <1>2
<1>3. CASE users # {}
  <2>1. users \subseteq 1 .. Len(h) /\ Len(h) \in Nat
    OBVIOUS
  <2>2. \A i \in users : h[i] \in UserMsg
    BY MessageTypes
  <2> HIDE DEF users
  <2>3. last \in users
    BY <1>3, <2>1, LargestElement
  <2> QED BY <1>1, <1>3, <2>1, <2>2, <2>3
<1> QED BY <1>2, <1>3

-----------------------------------------------------------------------------
(* Types hold in every state, whatever is cancelled.                       *)

(* The invariant on types holds initially.                                  *)
LEMMA TypeInit == Init => TypeInv
<1> SUFFICES ASSUME Init PROVE TypeInv
  OBVIOUS
<1>1. FlagsOK
  BY Zenon DEF Init, FlagsOK
<1>2. TerminalOK
  BY BoundsAssumption DEF Init, TerminalOK, CleanupState
<1>3. TasksOK
  BY BoundsAssumption DEF Init, TasksOK, Steps, Job
<1>4. LoopOK
  BY BoundsAssumption DEF Init, LoopOK
<1> QED BY <1>1, <1>2, <1>3, <1>4 DEF TypeInv

(* Every step keeps the flags Boolean.                                      *)
LEMMA FlagsNext == FlagsOK /\ [Next]_vars => FlagsOK'
<1> SUFFICES ASSUME FlagsOK, [Next]_vars PROVE FlagsOK'
  OBVIOUS
<1> USE DEF FlagsOK, tuiVars, taskVars, loopVars
<1>1. ASSUME NEW x \in Texts, SubmitWhileBusy(x) \/ SubmitWhenIdle(x) PROVE FlagsOK'
  BY Zenon, <1>1 DEF SubmitWhileBusy, SubmitWhenIdle, Spawn
<1>2. CASE RetryCommand \/ CtrlC \/ NoInput
  BY Zenon, <1>2 DEF RetryCommand, CtrlC, NoInput, StillCancelling
<1>3. CASE CheckCompletion
  BY Zenon, <1>3 DEF CheckCompletion
<1>4. CASE RetryUnavailable \/ RetryWhileBusy \/ RetryPush \/ RetryWhenIdle
  BY Zenon, <1>4 DEF RetryUnavailable, RetryWhileBusy, RetryPush, RetryWhenIdle, Spawn
<1>5. ASSUME NEW c \in Cleanups, Cleanup(c) PROVE FlagsOK'
  BY Zenon, <1>5 DEF Cleanup, CleanupTake, CleanupFlags, CleanupPublish
<1>6. ASSUME NEW t \in Tasks, Agent(t) \/ AskApproval(t) \/ AnswerApproval(t) \/ AbortTakesEffect(t)
      PROVE  FlagsOK'
  <2>1. CASE BeginRun(t)
    BY Zenon, <2>1 DEF BeginRun
  <2>2. CASE StopAtTop(t) \/ BeginTurn(t) \/ ApprovalTimeout(t) \/ AskApproval(t)
    BY Zenon, <2>2 DEF StopAtTop, BeginTurn, ApprovalTimeout, AskApproval
  <2>3. CASE Turn(t)
    BY Zenon, <2>3 DEF Turn, TurnContinue, TurnComplete, TurnFailsRetryable, TurnFailsFinally,
       TurnExceedsContext, TurnCancelled
  <2>4. CASE Release(t)
    BY Zenon, <2>4 DEF Release
  <2>5. CASE NotifyDone(t) \/ AnswerApproval(t) \/ AbortTakesEffect(t)
    BY Zenon, <2>5 DEF NotifyDone, AnswerApproval, AbortTakesEffect, StillCancelling
  <2> QED BY <1>6, <2>1, <2>2, <2>3, <2>4, <2>5 DEF Agent
<1>7. CASE UNCHANGED vars
  BY Zenon, <1>7 DEF vars
<1> QED BY <1>1, <1>2, <1>3, <1>4, <1>5, <1>6, <1>7 DEF Next, User, Terminal

(* Every step keeps the terminal's state typed; what /retry is about to     *)
(* queue stays a request.                                                   *)
LEMMA TerminalNext == TypeInv /\ [Next]_vars => TerminalOK'
<1> SUFFICES ASSUME TypeInv, [Next]_vars PROVE TerminalOK'
  OBVIOUS
<1>0. TerminalOK
  BY DEF TypeInv
<1> USE DEF TerminalOK
<1>1. CASE UNCHANGED <<tuiMsg, submits, retries, slot, aborting, cleanup>>
           /\ tuiPc' \in {tuiPc, "input", "check"}
  BY <1>0, <1>1
<1>2. ASSUME NEW x \in Texts, SubmitWhileBusy(x) PROVE TerminalOK'
  BY <1>0, <1>2, BoundsAssumption DEF SubmitWhileBusy
<1>3. ASSUME NEW x \in Texts, SubmitWhenIdle(x) PROVE TerminalOK'
  BY <1>0, <1>3, BoundsAssumption DEF SubmitWhenIdle, Spawn
<1>4. CASE RetryCommand
  BY <1>0, <1>4, BoundsAssumption DEF RetryCommand
<1>5. CASE RetryWhileBusy
  BY <1>0, <1>5 DEF RetryWhileBusy, TypeInv, LoopOK
<1>6. CASE RetryPush
  BY <1>0, <1>6 DEF RetryPush
<1>7. CASE RetryWhenIdle
  BY <1>0, <1>7 DEF RetryWhenIdle, Spawn
<1>8. CASE CtrlC
  <2>1. PICK c \in Cleanups : cleanup' = [cleanup EXCEPT ![c] =
           [at |-> "take", victim |-> slot, before |-> Spawned]]
    BY <1>8 DEF CtrlC
  <2>2. [at |-> "take", victim |-> slot, before |-> Spawned] \in CleanupState
    BY <1>0 DEF CleanupState, Spawned
  <2>3. cleanup' \in [Cleanups -> CleanupState]
    BY <1>0, <2>1, <2>2
  <2> QED BY <1>0, <1>8, <2>3 DEF CtrlC
<1>9. ASSUME NEW c \in Cleanups, Cleanup(c) PROVE TerminalOK'
  <2>0. cleanup[c] \in CleanupState
    BY <1>0
  <2>1. CASE CleanupTake(c)
    <3> DEFINE victim == IF cleanup[c].victim = NoTask THEN slot ELSE cleanup[c].victim
    <3>1. victim \in Tasks \cup {NoTask}
      BY <1>0, <2>0 DEF CleanupState
    <3>2. /\ cleanup' = [cleanup EXCEPT ![c] = [[cleanup[c] EXCEPT !.at = "flags"] EXCEPT !.victim = victim]]
          /\ aborting' = aborting \cup ({victim} \ {NoTask})
          /\ slot' \in {NoTask, slot}
          /\ UNCHANGED <<tuiPc, tuiMsg, submits, retries>>
      BY <1>0, <2>1 DEF CleanupTake
    <3> HIDE DEF victim
    <3>3. [[cleanup[c] EXCEPT !.at = "flags"] EXCEPT !.victim = victim] \in CleanupState
      BY <2>0, <3>1 DEF CleanupState
    <3> QED BY <1>0, <3>1, <3>2, <3>3
  <2>2. ASSUME NEW a \in {"publish", "done"}, cleanup' = [cleanup EXCEPT ![c].at = a],
               UNCHANGED <<tuiVars, aborting>>
        PROVE  TerminalOK'
    <3>1. [cleanup[c] EXCEPT !.at = a] \in CleanupState
      BY <2>0 DEF CleanupState
    <3> QED BY <1>0, <2>2, <3>1 DEF tuiVars
  <2>3. CASE CleanupFlags(c) \/ CleanupPublish(c)
    BY <2>2, <2>3 DEF CleanupFlags, CleanupPublish
  <2> QED BY <1>9, <2>1, <2>3 DEF Cleanup
<1>10. ASSUME NEW t \in Tasks, Agent(t) \/ AskApproval(t) \/ AnswerApproval(t) \/ AbortTakesEffect(t)
      PROVE  TerminalOK'
  BY <1>1, <1>10 DEF Agent, Turn, BeginRun, StopAtTop, BeginTurn, ApprovalTimeout, AskApproval,
     AnswerApproval, AbortTakesEffect, TurnContinue, TurnComplete, TurnFailsRetryable,
     TurnFailsFinally, TurnExceedsContext, TurnCancelled, Release, NotifyDone, tuiVars
<1> QED BY <1>1, <1>2, <1>3, <1>4, <1>5, <1>6, <1>7, <1>8, <1>9, <1>10
    DEF Next, User, Terminal, NoInput, CheckCompletion, RetryUnavailable, vars, tuiVars

(* Every step keeps the tasks typed; the turns of a run stay within the     *)
(* limit (HasTurnsLeft), and a task is spawned with a message.              *)
LEMMA TasksNext == TypeInv /\ [Next]_vars => TasksOK'
<1> SUFFICES ASSUME TypeInv, [Next]_vars PROVE TasksOK'
  OBVIOUS
<1>0. TasksOK /\ TerminalOK /\ LoopOK
  BY DEF TypeInv
<1> USE DEF TasksOK
<1>1. CASE UNCHANGED <<pc, job, turns, ended, holder>>
  BY <1>0, <1>1
<1>2. ASSUME NEW m \in UserMsg, NEW retry \in BOOLEAN, Spawn(m, retry), UNCHANGED <<turns, ended, holder>>
      PROVE  TasksOK'
  <2>1. PICK t \in Tasks : /\ pc' = [pc EXCEPT ![t] = "spawned"]
                           /\ job' = [job EXCEPT ![t] = [msg |-> m, retry |-> retry]]
    BY <1>2 DEF Spawn
  <2>2. [msg |-> m, retry |-> retry] \in Job
    BY DEF Job
  <2> QED BY <1>0, <1>2, <2>1, <2>2 DEF Steps
<1>3. ASSUME NEW x \in Texts, SubmitWhenIdle(x) PROVE TasksOK'
  <2>1. submits + 1 \in 1 .. MaxSubmits
    BY <1>0, <1>3, BoundsAssumption DEF SubmitWhenIdle, TerminalOK
  <2>2. [id |-> submits + 1, text |-> x] \in UserMsg
    BY <2>1, MessageTypes
  <2>3. Spawn([id |-> submits + 1, text |-> x], FALSE) /\ UNCHANGED <<turns, ended, holder>>
    BY <1>3 DEF SubmitWhenIdle, loopVars
  <2> QED BY <1>2, <2>2, <2>3
<1>4. CASE RetryWhenIdle
  <2>1. retryable \in UserMsg
    BY <1>0, <1>4 DEF RetryWhenIdle, LoopOK
  <2>2. Spawn(retryable, TRUE) /\ UNCHANGED <<turns, ended, holder>>
    BY <1>4 DEF RetryWhenIdle, loopVars
  <2> QED BY <1>2, <2>1, <2>2
<1>5. ASSUME NEW t \in Tasks, Agent(t) \/ AskApproval(t) \/ AnswerApproval(t) \/ AbortTakesEffect(t)
      PROVE  TasksOK'
  <2>1. ASSUME NEW s \in Steps \ {"spawned"}, pc' = [pc EXCEPT ![t] = s],
               UNCHANGED job, turns' \in [Tasks -> 0 .. MaxTurns],
               ended' \in [Tasks -> {"no", "complete", "error", "cancelled"}],
               holder' \in {holder, t, NoTask}
        PROVE  TasksOK'
    BY <1>0, <2>1
  <2>2. ASSUME NEW how \in {"complete", "error", "cancelled"}, EndRun(t, how)
        PROVE  /\ pc' = [pc EXCEPT ![t] = "finish"]
               /\ ended' \in [Tasks -> {"no", "complete", "error", "cancelled"}]
    BY <1>0, <2>2 DEF EndRun
  <2>3. HasTurnsLeft(t) => [turns EXCEPT ![t] = @ + 1] \in [Tasks -> 0 .. MaxTurns]
    BY <1>0, BoundsAssumption DEF HasTurnsLeft
  <2> USE DEF Steps, loopVars
  <2>4. CASE BeginRun(t)
    BY <1>0, <2>1, <2>4 DEF BeginRun
  <2>5. CASE StopAtTop(t)
    BY <1>0, <2>1, <2>2, <2>3, <2>5 DEF StopAtTop
  <2>6. CASE BeginTurn(t)
    BY <1>0, <2>1, <2>3, <2>6 DEF BeginTurn
  <2>7. CASE AskApproval(t) \/ ApprovalTimeout(t) \/ AnswerApproval(t)
    BY <1>0, <2>1, <2>7 DEF AskApproval, ApprovalTimeout, AnswerApproval
  <2>8. CASE TurnContinue(t)
    BY <1>0, <2>1, <2>8 DEF TurnContinue
  <2>9. CASE TurnComplete(t)
    <3>1. CASE queue # <<>>
      BY <1>0, <2>1, <2>9, <3>1 DEF TurnComplete
    <3>2. CASE queue = <<>>
      BY <1>0, <2>1, <2>2, <2>9, <3>2 DEF TurnComplete
    <3> QED BY <3>1, <3>2
  <2>10. CASE TurnFailsRetryable(t) \/ TurnFailsFinally(t) \/ TurnExceedsContext(t) \/ TurnCancelled(t)
    <3>1. \E how \in {"complete", "error", "cancelled"} : EndRun(t, how)
      BY <2>10 DEF TurnFailsRetryable, TurnFailsFinally, TurnExceedsContext, TurnCancelled
    <3>2. UNCHANGED <<job, turns, holder>>
      BY <2>10 DEF TurnFailsRetryable, TurnFailsFinally, TurnExceedsContext, TurnCancelled
    <3> QED BY <1>0, <2>1, <2>2, <3>1, <3>2
  <2>11. CASE Release(t) \/ NotifyDone(t)
    BY <1>0, <2>1, <2>11 DEF Release, NotifyDone
  <2>12. CASE AbortTakesEffect(t)
    BY <1>0, <2>1, <2>12 DEF AbortTakesEffect
  <2> QED BY <1>5, <2>4, <2>5, <2>6, <2>7, <2>8, <2>9, <2>10, <2>11, <2>12 DEF Agent, Turn
<1>6. ASSUME NEW c \in Cleanups, Cleanup(c) PROVE TasksOK'
  BY <1>1, <1>6 DEF Cleanup, CleanupTake, CleanupFlags, CleanupPublish, taskVars, loopVars, tuiVars
<1> QED BY <1>1, <1>3, <1>4, <1>5, <1>6
    DEF Next, User, Terminal, SubmitWhileBusy, RetryCommand, CtrlC, NoInput, CheckCompletion,
        RetryUnavailable, RetryWhileBusy, RetryPush, vars, tuiVars, taskVars, loopVars

(* What a submission leaves of a full queue: its newest messages.          *)
LEMMA NewestQueued ==
    ASSUME NEW q \in Seq(Queued)
    PROVE  /\ Newest(q) \in Seq(Queued) /\ Len(Newest(q)) <= MaxQueue
           /\ {q[i].msg.id : i \in 1 .. Len(q) - MaxQueue} \subseteq 0 .. MaxSubmits
           /\ \A i \in 1 .. Len(q) : \/ i \in 1 .. Len(q) - MaxQueue
                                    \/ \E j \in 1 .. Len(Newest(q)) : Newest(q)[j] = q[i]
           /\ \A j \in 1 .. Len(Newest(q)) : \E i \in 1 .. Len(q) : Newest(q)[j] = q[i]
<1>0. Len(q) \in Nat /\ MaxQueue \in Nat \ {0} /\ \A i \in 1 .. Len(q) : q[i] \in Queued
  BY BoundsAssumption
<1>1. \A i \in 1 .. Len(q) : q[i].msg.id \in 0 .. MaxSubmits
  BY <1>0, MessageTypes DEF Queued
<1>2. {q[i].msg.id : i \in 1 .. Len(q) - MaxQueue} \subseteq 0 .. MaxSubmits
  <2>1. \A i \in 1 .. Len(q) - MaxQueue : i \in 1 .. Len(q)
    BY <1>0
  <2> QED BY <1>1, <2>1
<1>3. CASE Len(q) > MaxQueue
  <2> DEFINE k == Len(q) - MaxQueue
  <2>1. Newest(q) = SubSeq(q, k + 1, Len(q)) /\ k \in Nat
    BY <1>0, <1>3 DEF Newest
  <2>2. /\ Newest(q) \in Seq(Queued) /\ Len(Newest(q)) = MaxQueue
        /\ \A j \in 1 .. MaxQueue : j + k \in 1 .. Len(q) /\ Newest(q)[j] = q[j + k]
    BY <1>0, <1>3, <2>1
  <2>3. ASSUME NEW i \in 1 .. Len(q), i \notin 1 .. k
        PROVE  \E j \in 1 .. Len(Newest(q)) : Newest(q)[j] = q[i]
    <3>1. i - k \in 1 .. MaxQueue /\ (i - k) + k = i
      BY <1>0, <2>1, <2>3
    <3> QED BY <2>2, <3>1
  <2> QED BY <1>0, <1>2, <2>2, <2>3
<1>4. CASE ~(Len(q) > MaxQueue)
  BY <1>0, <1>2, <1>4 DEF Newest
<1> QED BY <1>3, <1>4

(* ... and a retry: its oldest.                                            *)
LEMMA OldestQueued ==
    ASSUME NEW q \in Seq(Queued)
    PROVE  /\ Oldest(q) \in Seq(Queued) /\ Len(Oldest(q)) <= MaxQueue
           /\ {q[i].msg.id : i \in MaxQueue + 1 .. Len(q)} \subseteq 0 .. MaxSubmits
           /\ \A i \in 1 .. Len(q) : \/ i \in MaxQueue + 1 .. Len(q)
                                    \/ \E j \in 1 .. Len(Oldest(q)) : Oldest(q)[j] = q[i]
           /\ \A j \in 1 .. Len(Oldest(q)) : \E i \in 1 .. Len(q) : Oldest(q)[j] = q[i]
<1>0. Len(q) \in Nat /\ MaxQueue \in Nat \ {0} /\ \A i \in 1 .. Len(q) : q[i] \in Queued
  BY BoundsAssumption
<1>1. \A i \in 1 .. Len(q) : q[i].msg.id \in 0 .. MaxSubmits
  BY <1>0, MessageTypes DEF Queued
<1>2. {q[i].msg.id : i \in MaxQueue + 1 .. Len(q)} \subseteq 0 .. MaxSubmits
  <2>1. \A i \in MaxQueue + 1 .. Len(q) : i \in 1 .. Len(q)
    BY <1>0
  <2> QED BY <1>1, <2>1
<1>3. CASE Len(q) > MaxQueue
  <2>1. Oldest(q) = SubSeq(q, 1, MaxQueue)
    BY <1>0, <1>3 DEF Oldest
  <2>2. /\ Oldest(q) \in Seq(Queued) /\ Len(Oldest(q)) = MaxQueue
        /\ \A j \in 1 .. MaxQueue : j \in 1 .. Len(q) /\ Oldest(q)[j] = q[j]
    BY <1>0, <1>3, <2>1
  <2>3. \A i \in 1 .. Len(q) : i \in MaxQueue + 1 .. Len(q) \/ i \in 1 .. MaxQueue
    BY <1>0
  <2> QED BY <1>0, <1>2, <2>2, <2>3
<1>4. CASE ~(Len(q) > MaxQueue)
  BY <1>0, <1>2, <1>4 DEF Oldest
<1> QED BY <1>3, <1>4

(* Every step keeps the queue, the history and the retry candidates typed.  *)
LEMMA LoopNext == TypeInv /\ [Next]_vars => LoopOK'
<1> SUFFICES ASSUME TypeInv, [Next]_vars PROVE LoopOK'
  OBVIOUS
<1>0. TasksOK /\ TerminalOK /\ LoopOK
  BY DEF TypeInv
<1> DEFINE Message == UserMsg \cup Reply
<1> USE DEF LoopOK
<1>1. CASE UNCHANGED <<queue, history, retryable, candidate, lost>>
  BY <1>0, <1>1
<1>2. ASSUME NEW m \in UserMsg, NEW retry \in BOOLEAN
      PROVE  [msg |-> m, retry |-> retry] \in Queued
  BY DEF Queued
<1>3. ASSUME queue # <<>>
      PROVE  /\ queue[1] \in Queued /\ queue[1].msg \in UserMsg /\ Tail(queue) \in Seq(Queued)
             /\ Len(Tail(queue)) <= MaxQueue
             /\ Append(history, queue[1].msg) \in Seq(Message) /\ Started(queue[1]) \in Seq(Message)
  <2>1. queue[1] \in Queued /\ Tail(queue) \in Seq(Queued) /\ Len(Tail(queue)) <= MaxQueue
    BY <1>0, <1>3, BoundsAssumption
  <2>2. queue[1].msg \in UserMsg
    BY <2>1 DEF Queued
  <2>3. Append(history, queue[1].msg) \in Seq(Message)
    BY <1>0, <2>2
  <2> QED BY <1>0, <2>1, <2>2, <2>3 DEF Started
<1>4. ASSUME NEW x \in Texts, SubmitWhileBusy(x) PROVE LoopOK'
  <2>1. submits + 1 \in 1 .. MaxSubmits
    BY <1>0, <1>4, BoundsAssumption DEF SubmitWhileBusy, TerminalOK
  <2>2. [msg |-> [id |-> submits + 1, text |-> x], retry |-> FALSE] \in Queued
    BY <2>1, <1>2, MessageTypes
  <2> DEFINE q == Append(queue, [msg |-> [id |-> submits + 1, text |-> x], retry |-> FALSE])
  <2>3. queue' = Newest(q) /\ lost' = lost \cup {q[i].msg.id : i \in 1 .. Len(q) - MaxQueue}
    BY <1>4 DEF SubmitWhileBusy
  <2>4. q \in Seq(Queued)
    BY <1>0, <2>2
  <2> HIDE DEF q
  <2>5. queue' \in Seq(Queued) /\ Len(queue') <= MaxQueue /\ lost' \subseteq 0 .. MaxSubmits
    BY <1>0, <2>3, <2>4, NewestQueued
  <2> QED BY <1>0, <1>4, <2>5 DEF SubmitWhileBusy
<1>5. CASE RetryPush
  <2>1. [msg |-> tuiMsg, retry |-> TRUE] \in Queued
    BY <1>0, <1>2, <1>5 DEF RetryPush, TerminalOK
  <2> DEFINE q == <<[msg |-> tuiMsg, retry |-> TRUE]>> \o queue
  <2>2. queue' = Oldest(q) /\ lost' = lost \cup {q[i].msg.id : i \in MaxQueue + 1 .. Len(q)}
    BY <1>5 DEF RetryPush
  <2>3. q \in Seq(Queued)
    BY <1>0, <2>1
  <2> HIDE DEF q
  <2>4. queue' \in Seq(Queued) /\ Len(queue') <= MaxQueue /\ lost' \subseteq 0 .. MaxSubmits
    BY <1>0, <2>2, <2>3, OldestQueued
  <2> QED BY <1>0, <1>5, <2>4 DEF RetryPush
<1>6. ASSUME NEW t \in Tasks, Agent(t) \/ AskApproval(t) \/ AnswerApproval(t) \/ AbortTakesEffect(t)
      PROVE  LoopOK'
  <2>1. CASE BeginRun(t)
    <3>1. job[t].msg \in UserMsg
      BY <1>0, <2>1 DEF BeginRun, TasksOK
    <3>2. history' \in {history, Append(history, job[t].msg)}
      BY <2>1 DEF BeginRun
    <3>3. history' \in Seq(Message)
      BY <1>0, <3>1, <3>2
    <3> QED BY <1>0, <2>1, <3>1, <3>3 DEF BeginRun
  <2>2. CASE BeginTurn(t)
    <3> DEFINE cand == IF queue # <<>> THEN queue[1].msg ELSE candidate
    <3>1. /\ queue' = IF queue # <<>> THEN Tail(queue) ELSE queue
          /\ history' = IF queue # <<>> THEN Started(queue[1]) ELSE history
          /\ candidate' = IF cand = NoMessage THEN LastUser(history') ELSE cand
          /\ retryable' = NoMessage /\ lost' = lost
      BY <2>2 DEF BeginTurn, ForgetRetryable
    <3>2. cand \in UserMsg \cup {NoMessage}
      BY <1>0, <1>3
    <3>3. queue' \in Seq(Queued) /\ Len(queue') <= MaxQueue /\ history' \in Seq(Message)
      BY <1>0, <1>3, <3>1
    <3>4. LastUser(history') \in UserMsg \cup {NoMessage}
      BY <3>3, LastUserType
    <3> HIDE DEF cand
    <3> QED BY <1>0, <3>1, <3>2, <3>3, <3>4
  <2>3. CASE TurnContinue(t)
    <3>1. history' \in Seq(Message)
      BY <1>0, <2>3, MessageTypes DEF TurnContinue
    <3> QED BY <1>0, <2>3, <3>1 DEF TurnContinue
  <2>4. CASE TurnComplete(t)
    <3>1. Append(history, reply) \in Seq(Message)
      BY <1>0, MessageTypes
    <3>2. CASE queue # <<>>
      <4>1. Append(Append(history, reply), queue[1].msg) \in Seq(Message)
        BY <1>3, <3>1, <3>2
      <4> QED BY <1>0, <1>3, <2>4, <3>2, <4>1 DEF TurnComplete
    <3>3. CASE queue = <<>>
      BY <1>0, <2>4, <3>1, <3>3 DEF TurnComplete
    <3> QED BY <3>2, <3>3
  <2>5. CASE TurnFailsRetryable(t) \/ TurnFailsFinally(t) \/ TurnCancelled(t)
    BY <1>0, <2>5 DEF TurnFailsRetryable, TurnFailsFinally, TurnCancelled
  <2>6. CASE TurnExceedsContext(t)
    <3>1. CASE Len(history) > 0 /\ IsUser(history[Len(history)])
      <4>1. history[Len(history)] \in UserMsg
        BY <1>0, <3>1, MessageTypes
      <4>2. history[Len(history)].id \in 0 .. MaxSubmits
        BY <4>1, MessageTypes
      <4>3. /\ history' = SubSeq(history, 1, Len(history) - 1)
            /\ lost' = lost \cup {history[Len(history)].id}
        BY <2>6, <3>1 DEF TurnExceedsContext
      <4>4. history' \in Seq(Message)
        BY <1>0, <4>3
      <4> QED BY <1>0, <2>6, <4>2, <4>3, <4>4 DEF TurnExceedsContext
    <3>2. CASE ~(Len(history) > 0 /\ IsUser(history[Len(history)]))
      <4>1. UNCHANGED <<history, lost>>
        BY <2>6, <3>2 DEF TurnExceedsContext
      <4> QED BY <1>0, <2>6, <4>1 DEF TurnExceedsContext
    <3> QED BY <3>1, <3>2
  <2>7. CASE AbortTakesEffect(t)
    <3>1. pc[t] = "spawned" => job[t].msg.id \in 0 .. MaxSubmits
      BY <1>0, MessageTypes DEF TasksOK
    <3> QED BY <1>0, <2>7, <3>1 DEF AbortTakesEffect
  <2> QED BY <1>1, <1>6, <2>1, <2>2, <2>3, <2>4, <2>5, <2>6, <2>7
      DEF Agent, Turn, StopAtTop, ApprovalTimeout, Release, NotifyDone, AskApproval, AnswerApproval, loopVars
<1>7. ASSUME NEW c \in Cleanups, Cleanup(c) PROVE LoopOK'
  BY <1>1, <1>7 DEF Cleanup, CleanupTake, CleanupFlags, CleanupPublish, loopVars
<1>8. ASSUME NEW x \in Texts, SubmitWhenIdle(x) PROVE LoopOK'
  BY <1>1, <1>8 DEF SubmitWhenIdle, loopVars
<1> QED BY <1>1, <1>4, <1>5, <1>6, <1>7, <1>8
    DEF Next, User, Terminal, RetryCommand, CtrlC, NoInput, CheckCompletion,
        RetryUnavailable, RetryWhileBusy, RetryWhenIdle, vars, loopVars

(* Types are an inductive invariant, whatever is cancelled.                 *)
THEOREM TypeInvariance == Spec => []TypeInv
<1>1. TypeInv /\ [Next]_vars => TypeInv'
  BY FlagsNext, TerminalNext, TasksNext, LoopNext DEF TypeInv
<1> QED BY TypeInit, <1>1, PTL DEF Spec

(* Every variable has its type in every reachable state.                    *)
THEOREM TypeCorrect == Spec => []TypeOK
BY TypeInvariance, TypeInvType, PTL

-----------------------------------------------------------------------------
(* The agent loop is held by the task that runs it.                        *)
Running   == {"loop", "turn", "approval", "tools", "finish"}
LoopOwner == \A t \in Tasks : pc[t] \in Running <=> holder = t

(* What a step of an agent task does to where the task is.                  *)
LEMMA TaskStep ==
    ASSUME TypeInv, NEW t \in Tasks,
           Agent(t) \/ AskApproval(t) \/ AnswerApproval(t) \/ AbortTakesEffect(t)
    PROVE  \E s \in Steps :
              /\ pc' = [pc EXCEPT ![t] = s] /\ UNCHANGED job
              /\ \/ pc[t] \in Running /\ s \in Running /\ UNCHANGED <<holder, permit>>
                 \/ pc[t] = "spawned" /\ s = "loop" /\ BeginRun(t) /\ UNCHANGED permit
                 \/ pc[t] = "finish" /\ s = "released" /\ Release(t) /\ UNCHANGED permit
                 \/ pc[t] = "released" /\ s = "done" /\ NotifyDone(t) /\ UNCHANGED holder
                 \/ Live(t) /\ s = "aborted" /\ AbortTakesEffect(t) /\ UNCHANGED permit
<1> USE DEF Steps, Running, loopVars, tuiVars
<1>1. CASE BeginRun(t)
  BY <1>1 DEF BeginRun
<1>2. CASE Release(t)
  BY <1>2 DEF Release
<1>3. CASE NotifyDone(t)
  BY <1>3 DEF NotifyDone
<1>4. CASE AbortTakesEffect(t)
  BY <1>4 DEF AbortTakesEffect
<1>5. CASE StopAtTop(t)
  BY <1>5 DEF StopAtTop, EndRun
<1>6. CASE BeginTurn(t)
  BY <1>6 DEF BeginTurn
<1>7. CASE AskApproval(t) \/ AnswerApproval(t) \/ ApprovalTimeout(t)
  BY <1>7 DEF AskApproval, AnswerApproval, ApprovalTimeout
<1>8. CASE TurnContinue(t)
  BY <1>8 DEF TurnContinue
<1>9. CASE TurnComplete(t)
  BY <1>9 DEF TurnComplete, EndRun
<1>10. CASE TurnFailsRetryable(t) \/ TurnFailsFinally(t)
  BY <1>10 DEF TurnFailsRetryable, TurnFailsFinally, EndRun
<1>11. CASE TurnExceedsContext(t) \/ TurnCancelled(t)
  BY <1>11 DEF TurnExceedsContext, TurnCancelled, EndRun
<1> QED BY <1>1, <1>2, <1>3, <1>4, <1>5, <1>6, <1>7, <1>8, <1>9, <1>10, <1>11 DEF Agent, Turn

(* Every other step spawns a task, or leaves the tasks alone.               *)
LEMMA OtherStep ==
    ASSUME [Next]_vars
    PROVE  \/ \E t \in Tasks : Agent(t) \/ AskApproval(t) \/ AnswerApproval(t) \/ AbortTakesEffect(t)
           \/ \E x \in Texts : SubmitWhenIdle(x)
           \/ RetryWhenIdle
           \/ UNCHANGED <<pc, job, holder, retryMode>>
BY DEF Next, User, Terminal, Cleanup, SubmitWhileBusy, RetryCommand, CtrlC, NoInput, CheckCompletion,
       RetryUnavailable, RetryWhileBusy, RetryPush, CleanupTake, CleanupFlags, CleanupPublish,
       vars, tuiVars, taskVars, loopVars

(* A spawn starts a task that was not there before, and makes the session   *)
(* busy.                                                                    *)
LEMMA SpawnEffect ==
    ASSUME TypeInv, NEW m, NEW retry, Spawn(m, retry)
    PROVE  /\ busy' = TRUE
           /\ \E t \in Tasks : /\ pc[t] = "none" /\ pc' = [pc EXCEPT ![t] = "spawned"]
                               /\ job' = [job EXCEPT ![t] = [msg |-> m, retry |-> retry]]
BY DEF Spawn, NextTask

(* Every step keeps the agent loop with the task that runs it.              *)
LEMMA OwnerNext == TypeInv /\ LoopOwner /\ [Next]_vars => LoopOwner'
<1> SUFFICES ASSUME TypeInv, LoopOwner, [Next]_vars PROVE LoopOwner'
  OBVIOUS
<1>0. pc \in [Tasks -> Steps] /\ holder \in Tasks \cup {NoTask} /\ NoTask \notin Tasks
  BY BoundsAssumption DEF TypeInv, TasksOK
<1> USE DEF LoopOwner, Running
<1>1. ASSUME NEW t \in Tasks, Agent(t) \/ AskApproval(t) \/ AnswerApproval(t) \/ AbortTakesEffect(t)
      PROVE  LoopOwner'
  <2>1. PICK s \in Steps :
              /\ pc' = [pc EXCEPT ![t] = s]
              /\ \/ pc[t] \in Running /\ s \in Running /\ UNCHANGED holder
                 \/ pc[t] = "spawned" /\ s = "loop" /\ BeginRun(t)
                 \/ pc[t] = "finish" /\ s = "released" /\ Release(t)
                 \/ pc[t] = "released" /\ s = "done" /\ UNCHANGED holder
                 \/ Live(t) /\ s = "aborted" /\ AbortTakesEffect(t)
    BY <1>1, TaskStep
  <2>2. CASE s \in Running /\ pc[t] \in Running /\ UNCHANGED holder
    BY <1>0, <2>1, <2>2
  <2>3. CASE s = "loop" /\ BeginRun(t)
    BY <1>0, <2>1, <2>3 DEF BeginRun
  <2>4. CASE s = "released" /\ pc[t] = "finish" /\ Release(t)
    BY <1>0, <2>1, <2>4 DEF Release
  <2>5. CASE s = "done" /\ pc[t] = "released" /\ UNCHANGED holder
    BY <1>0, <2>1, <2>5
  <2>6. CASE s = "aborted" /\ AbortTakesEffect(t)
    BY <1>0, <2>1, <2>6 DEF AbortTakesEffect
  <2> QED BY <2>1, <2>2, <2>3, <2>4, <2>5, <2>6
<1>2. ASSUME NEW x \in Texts, SubmitWhenIdle(x) PROVE LoopOwner'
  <2>1. UNCHANGED holder /\ \E m : Spawn(m, FALSE)
    BY <1>2 DEF SubmitWhenIdle, loopVars
  <2> QED BY <1>0, <2>1, SpawnEffect
<1>3. CASE RetryWhenIdle
  <2>1. UNCHANGED holder /\ Spawn(retryable, TRUE)
    BY <1>3 DEF RetryWhenIdle, loopVars
  <2> QED BY <1>0, <2>1, SpawnEffect
<1> QED BY <1>0, <1>1, <1>2, <1>3, OtherStep

(* However a session is cancelled, one task at a time runs the agent loop:  *)
(* the mutex is held from BeginRun to Release or the abort.                 *)
THEOREM OneRunner == Spec => [](\A t, u \in Tasks : pc[t] \in Running /\ pc[u] \in Running => t = u)
<1>1. Init => LoopOwner
  BY BoundsAssumption DEF Init, LoopOwner, Running
<1>2. LoopOwner => \A t, u \in Tasks : pc[t] \in Running /\ pc[u] \in Running => t = u
  BY DEF LoopOwner
<1> QED BY <1>1, <1>2, OwnerNext, TypeInvariance, PTL DEF Spec

-----------------------------------------------------------------------------
(* A session in which nothing is cancelled.                                *)

(* Busy until the last task has completed and its permit was consumed: a   *)
(* permit that outlived the busy flag would end the wait for a later task. *)
Admission ==
    /\ aborting = {} /\ ~cancelPending
    /\ \A t \in Tasks : pc[t] # "aborted"
    /\ permit => busy
    /\ \A t \in Tasks : Live(t) => busy /\ ~permit
    /\ \A t, u \in Tasks : Live(t) /\ Live(u) => t = u

(* Without a cancellation, every step keeps the admission of tasks.         *)
LEMMA AdmissionNext ==
    ASSUME Cleanups = {}, TypeInv, Admission, [Next]_vars
    PROVE  Admission'
<1>0. pc \in [Tasks -> Steps] /\ FlagsOK
  BY DEF TypeInv, TasksOK
<1> USE DEF Admission, Live
<1>1. CASE UNCHANGED <<aborting, pc, busy, permit>> /\ ~cancelPending'
  BY <1>1
<1>2. ASSUME NEW m, NEW retry, Spawn(m, retry), ~busy, ~cancelPending', UNCHANGED <<aborting, permit>>
      PROVE  Admission'
  BY <1>0, <1>2, SpawnEffect
<1>3. ASSUME NEW t \in Tasks, Agent(t) \/ AskApproval(t) \/ AnswerApproval(t) \/ AbortTakesEffect(t)
      PROVE  Admission'
  <2>1. ~AbortTakesEffect(t)
    BY DEF AbortTakesEffect
  <2>2. UNCHANGED <<aborting, busy>> /\ ~cancelPending'
    <3>1. CASE Agent(t) \/ AskApproval(t)
      <4>1. UNCHANGED <<aborting, busy, cancelPending>>
        BY <3>1 DEF Agent, Turn, BeginRun, StopAtTop, BeginTurn, ApprovalTimeout, AskApproval,
           TurnContinue, TurnComplete, TurnFailsRetryable, TurnFailsFinally, TurnExceedsContext,
           TurnCancelled, Release, NotifyDone, tuiVars
      <4> QED BY <4>1
    <3>2. CASE AnswerApproval(t)
      BY <3>2 DEF AnswerApproval, StillCancelling
    <3> QED BY <1>3, <2>1, <3>1, <3>2
  <2>3. PICK s \in Steps :
              /\ pc' = [pc EXCEPT ![t] = s]
              /\ \/ pc[t] \in Running /\ s \in Running /\ UNCHANGED permit
                 \/ pc[t] = "spawned" /\ s = "loop" /\ UNCHANGED permit
                 \/ pc[t] = "finish" /\ s = "released" /\ UNCHANGED permit
                 \/ pc[t] = "released" /\ s = "done"
    BY <1>3, <2>1, TaskStep
  <2>4. Live(t) /\ \A u \in Tasks \ {t} : ~Live(u) /\ pc'[u] = pc[u]
    BY <1>0, <2>3 DEF Running
  <2>5. CASE s = "done"
    BY <1>0, <2>2, <2>3, <2>4, <2>5 DEF Running
  <2>6. CASE s # "done"
    BY <1>0, <2>2, <2>3, <2>4, <2>6 DEF Running
  <2> QED BY <2>5, <2>6
<1>4. ASSUME NEW x \in Texts, SubmitWhenIdle(x) PROVE Admission'
  BY <1>2, <1>4 DEF SubmitWhenIdle
<1>5. CASE RetryWhenIdle
  BY <1>2, <1>5 DEF RetryWhenIdle
<1>6. CASE CheckCompletion
  BY <1>0, <1>6 DEF CheckCompletion, taskVars
<1>7. CASE NoInput
  BY <1>1, <1>7 DEF NoInput, StillCancelling, taskVars
<1>8. ASSUME NEW x \in Texts, SubmitWhileBusy(x) PROVE Admission'
  BY <1>1, <1>8 DEF SubmitWhileBusy, taskVars
<1>9. ~CtrlC /\ \A c \in Cleanups : FALSE
  BY DEF CtrlC
<1> QED BY <1>1, <1>3, <1>4, <1>5, <1>6, <1>7, <1>8, <1>9
    DEF Next, User, Terminal, RetryCommand, RetryUnavailable, RetryWhileBusy, RetryPush, vars,
        tuiVars, taskVars

(* Without a cancellation, two tasks are never at work at the same time,    *)
(* from the spawn of a task to its completion (the busy check of the submit *)
(* branch and the permit that clears it).                                   *)
THEOREM NoContention == ASSUME Cleanups = {} PROVE Spec => []OneLiveTask
<1>1. Init => Admission
  BY DEF Init, Admission, Live
<1>2. TypeInv /\ Admission /\ [Next]_vars => Admission'
  BY AdmissionNext
<1>3. Admission => OneLiveTask
  BY DEF Admission, OneLiveTask
<1> QED BY <1>1, <1>2, <1>3, TypeInvariance, PTL DEF Spec

-----------------------------------------------------------------------------
(* No prompt is lost in such a session.                                    *)

(* The agent loop is in retry mode only for a task spawned to retry: the   *)
(* run of another prompt is never compared by text with what was said.     *)
RetryModeOwned == retryMode => holder \in Tasks /\ job[holder].retry

(* The prompts whose message is in the history, or is known to be lost.    *)
Known == {0} \cup HistoryIds \cup lost

(* Whatever may be resent was recorded when it was sent.                   *)
ResendsKnown ==
    /\ retryable # NoMessage => retryable.id \in Known
    /\ candidate # NoMessage => candidate.id \in Known
    /\ tuiPc = "retryPush" => tuiMsg.id \in Known
    /\ \A i \in 1 .. Len(queue) : queue[i].retry => queue[i].msg.id \in Known
    /\ \A t \in Tasks : job[t].retry => job[t].msg.id \in Known

SessionInv == TypeInv /\ LoopOwner /\ Admission /\ RetryModeOwned /\ ResendsKnown /\ PromptsAccounted

(* A history that is extended keeps its messages.                           *)
LEMMA ExtendedIds ==
    ASSUME history \in Seq(UserMsg \cup Reply), history' \in Seq(UserMsg \cup Reply),
           Len(history) <= Len(history'),
           \A i \in 1 .. Len(history) : history'[i] = history[i]
    PROVE  HistoryIds \subseteq HistoryIds'
<1>1. \A i \in 1 .. Len(history) : i \in 1 .. Len(history')
  OBVIOUS
<1> QED BY <1>1 DEF HistoryIds

(* The ids of a sequence with one element more.                             *)
LEMMA AppendedIds ==
    ASSUME history \in Seq(UserMsg \cup Reply), NEW m \in UserMsg \cup Reply, history' = Append(history, m)
    PROVE  HistoryIds \subseteq HistoryIds' /\ m.id \in HistoryIds'
<1>1. /\ history' \in Seq(UserMsg \cup Reply) /\ Len(history') = Len(history) + 1 /\ Len(history) \in Nat
      /\ \A i \in 1 .. Len(history) : history'[i] = history[i]
      /\ history'[Len(history) + 1] = m
  OBVIOUS
<1>2. HistoryIds \subseteq HistoryIds'
  BY <1>1, ExtendedIds
<1> QED BY <1>1, <1>2 DEF HistoryIds

(* A message in the history is one of its ids.                              *)
LEMMA PresentId == \A m : InHistory(m) => m.id \in HistoryIds
BY DEF InHistory, HistoryIds

(* The message a queue pop begins is in the history: it was appended, or is *)
(* a retry of what was recorded.                                            *)
LEMMA PoppedKnown ==
    ASSUME TypeInv, ResendsKnown, queue # <<>>, history' = Started(queue[1]), UNCHANGED lost
    PROVE  Known \subseteq Known' /\ queue[1].msg.id \in Known'
<1>1. /\ queue \in Seq(Queued) /\ history \in Seq(UserMsg \cup Reply) /\ queue[1] \in Queued
  BY DEF TypeInv, LoopOK
<1>2. queue[1].msg \in UserMsg /\ 1 \in 1 .. Len(queue)
  BY <1>1 DEF Queued
<1>3. CASE history' = history
  <2>1. queue[1].retry
    <3>1. Append(history, queue[1].msg) # history
      BY <1>1, <1>2
    <3> QED BY <1>3, <3>1 DEF Started
  <2> QED BY <1>2, <1>3, <2>1 DEF ResendsKnown, Known, HistoryIds
<1>4. CASE history' = Append(history, queue[1].msg)
  BY <1>1, <1>2, <1>4, AppendedIds DEF Known
<1> QED BY <1>3, <1>4 DEF Started

(* The run of a task begins with its message in the history.                *)
LEMMA BegunKnown ==
    ASSUME TypeInv, RetryModeOwned, NEW t \in Tasks, BeginRun(t)
    PROVE  Known \subseteq Known' /\ job[t].msg.id \in Known'
<1>1. /\ history \in Seq(UserMsg \cup Reply) /\ job[t].msg \in UserMsg /\ lost' = lost
      /\ ~retryMode /\ job[t].retry \in BOOLEAN
  BY BoundsAssumption DEF TypeInv, LoopOK, TasksOK, BeginRun, RetryModeOwned, Job
<1>2. CASE history' = Append(history, job[t].msg)
  BY <1>1, <1>2, AppendedIds DEF Known
<1>3. CASE history' = history /\ job[t].retry /\ InHistory(job[t].msg)
  BY <1>1, <1>3, PresentId DEF Known, HistoryIds
<1> QED BY <1>1, <1>2, <1>3 DEF BeginRun

(* What is known stays known: only a turn that exceeds the context takes a  *)
(* message back, and that is counted as lost.                               *)
LEMMA RolledBackKnown ==
    ASSUME TypeInv, NEW t \in Tasks, TurnExceedsContext(t)
    PROVE  Known \subseteq Known'
<1>1. history \in Seq(UserMsg \cup Reply) /\ Len(history) \in Nat
  BY DEF TypeInv, LoopOK
<1>2. CASE Len(history) > 0 /\ IsUser(history[Len(history)])
  <2>1. /\ history' = SubSeq(history, 1, Len(history) - 1)
        /\ lost' = lost \cup {history[Len(history)].id}
    BY <1>2 DEF TurnExceedsContext
  <2>2. /\ Len(history') = Len(history) - 1
        /\ \A i \in 1 .. Len(history) - 1 : history'[i] = history[i]
    <3> DEFINE n == Len(history) - 1
    <3>1. n \in Nat /\ \A i \in 1 .. n : history[i] \in UserMsg \cup Reply
      BY <1>1, <1>2
    <3>2. /\ Len(history') = IF 1 <= n THEN n - 1 + 1 ELSE 0
          /\ \A i \in 1 .. n - 1 + 1 : history'[i] = history[1 + i - 1]
      BY <2>1, <3>1, SubSeqProperties
    <3> HIDE DEF n
    <3>3. Len(history') = n /\ \A i \in 1 .. n : history'[i] = history[i]
      BY <3>1, <3>2
    <3> QED BY <3>3 DEF n
  <2>3. ASSUME NEW i \in 1 .. Len(history) PROVE history[i].id \in HistoryIds' \cup lost'
    <3>1. CASE i = Len(history)
      BY <2>1, <3>1
    <3>2. CASE i # Len(history)
      BY <1>1, <2>2, <3>2 DEF HistoryIds
    <3> QED BY <3>1, <3>2
  <2> QED BY <2>1, <2>3 DEF Known, HistoryIds
<1>3. CASE ~(Len(history) > 0 /\ IsUser(history[Len(history)]))
  <2>1. UNCHANGED <<history, lost>>
    BY <1>3 DEF TurnExceedsContext
  <2> QED BY <2>1 DEF Known, HistoryIds
<1> QED BY <1>2, <1>3

(* The complete list of what a step does to what is known and queued: what  *)
(* leaves the queue is in the history, what is retried was.                 *)
Kept ==
    /\ Known \subseteq Known'
    /\ \A i \in 1 .. Len(queue) :
          (\E j \in 1 .. Len(queue') : queue'[j] = queue[i]) \/ queue[i].msg.id \in Known'
    /\ \A j \in 1 .. Len(queue') :
          \/ \E i \in 1 .. Len(queue) : queue'[j] = queue[i]
          \/ ~queue'[j].retry
          \/ queue'[j].msg.id \in Known

(* A step that leaves queue and history alone keeps everything.             *)
LEMMA SameKept ==
    ASSUME UNCHANGED <<queue, history, lost>>
    PROVE  Kept
BY DEF Kept, Known, HistoryIds

(* A step that pops the queue keeps everything if the popped message is     *)
(* known.                                                                   *)
LEMMA PoppedKept ==
    ASSUME TypeInv, queue # <<>>, queue' = Tail(queue), Known \subseteq Known', queue[1].msg.id \in Known'
    PROVE  Kept
<1>1. queue \in Seq(Queued) /\ Len(queue) \in Nat \ {0}
  BY DEF TypeInv, LoopOK
<1>2. Len(queue') = Len(queue) - 1 /\ \A j \in 1 .. Len(queue) - 1 : queue'[j] = queue[j + 1]
  BY <1>1
<1>3. ASSUME NEW i \in 1 .. Len(queue), i # 1
      PROVE  i - 1 \in 1 .. Len(queue') /\ queue'[i - 1] = queue[i]
  <2>1. i - 1 \in 1 .. Len(queue) - 1 /\ (i - 1) + 1 = i
    BY <1>1, <1>3
  <2> QED BY <1>2, <2>1
<1>4. \A j \in 1 .. Len(queue') : j + 1 \in 1 .. Len(queue) /\ queue'[j] = queue[j + 1]
  BY <1>1, <1>2
<1> QED BY <1>3, <1>4 DEF Kept

(* Every step keeps everything.                                             *)
LEMMA StepKept ==
    ASSUME TypeInv, RetryModeOwned, ResendsKnown, [Next]_vars
    PROVE  Kept
<1>0. /\ queue \in Seq(Queued) /\ history \in Seq(UserMsg \cup Reply) /\ Len(queue) \in Nat
      /\ toolResults \in UserMsg /\ reply \in Reply
  BY MessageTypes DEF TypeInv, LoopOK
<1>1. ASSUME NEW x \in Texts, SubmitWhileBusy(x) PROVE Kept
  <2> DEFINE item == [msg |-> [id |-> submits + 1, text |-> x], retry |-> FALSE]
             q == Append(queue, item)
  <2>1. /\ queue' = Newest(q) /\ UNCHANGED history
        /\ lost' = lost \cup {q[i].msg.id : i \in 1 .. Len(q) - MaxQueue}
    BY <1>1 DEF SubmitWhileBusy
  <2>2. item \in Queued /\ item.retry = FALSE
    <3>1. submits + 1 \in 1 .. MaxSubmits
      BY <1>1, BoundsAssumption DEF SubmitWhileBusy, TypeInv, TerminalOK
    <3> QED BY <3>1, MessageTypes DEF Queued
  <2> HIDE DEF item
  <2>3. /\ q \in Seq(Queued) /\ Len(q) = Len(queue) + 1 /\ q[Len(queue) + 1] = item
        /\ \A i \in 1 .. Len(queue) : q[i] = queue[i]
    BY <1>0, <2>2
  <2>4. \A i \in 1 .. Len(queue) : i \in 1 .. Len(q)
    BY <1>0, <2>3
  <2>5. \A j \in 1 .. Len(q) : j \in 1 .. Len(queue) \/ j = Len(queue) + 1
    BY <1>0, <2>3
  <2> HIDE DEF q
  <2>6. Known \subseteq Known' /\ \A i \in 1 .. Len(q) - MaxQueue : q[i].msg.id \in Known'
    BY <2>1 DEF Known, HistoryIds
  <2>7. \A i \in 1 .. Len(queue) :
           (\E j \in 1 .. Len(queue') : queue'[j] = queue[i]) \/ queue[i].msg.id \in Known'
    <3> SUFFICES ASSUME NEW i \in 1 .. Len(queue)
                 PROVE  (\E j \in 1 .. Len(queue') : queue'[j] = queue[i]) \/ queue[i].msg.id \in Known'
      OBVIOUS
    <3>1. i \in 1 .. Len(q) /\ q[i] = queue[i]
      BY <2>3, <2>4
    <3>2. i \in 1 .. Len(q) - MaxQueue \/ \E j \in 1 .. Len(Newest(q)) : Newest(q)[j] = q[i]
      BY <2>3, <3>1, NewestQueued
    <3> QED BY <2>1, <2>6, <3>1, <3>2
  <2>8. \A j \in 1 .. Len(queue') : \E i \in 1 .. Len(q) : queue'[j] = q[i]
    BY <2>1, <2>3, NewestQueued
  <2> QED BY <2>2, <2>3, <2>5, <2>6, <2>7, <2>8 DEF Kept
<1>2. CASE RetryPush
  <2> DEFINE item == [msg |-> tuiMsg, retry |-> TRUE]
             q == <<item>> \o queue
  <2>1. /\ queue' = Oldest(q) /\ UNCHANGED history /\ tuiPc = "retryPush"
        /\ lost' = lost \cup {q[i].msg.id : i \in MaxQueue + 1 .. Len(q)}
    BY <1>2 DEF RetryPush
  <2>2. item \in Queued /\ item.msg.id \in Known
    BY <2>1 DEF ResendsKnown, TypeInv, TerminalOK, Queued
  <2> HIDE DEF item
  <2>3. /\ q \in Seq(Queued) /\ Len(q) = Len(queue) + 1 /\ q[1] = item
        /\ \A i \in 1 .. Len(queue) : q[i + 1] = queue[i]
    BY <1>0, <2>2
  <2>4. \A i \in 1 .. Len(queue) : i + 1 \in 1 .. Len(q)
    BY <1>0, <2>3
  <2>5. ASSUME NEW j \in 1 .. Len(q), j # 1
        PROVE  j - 1 \in 1 .. Len(queue) /\ q[j] = queue[j - 1]
    <3>1. j - 1 \in 1 .. Len(queue) /\ (j - 1) + 1 = j
      BY <1>0, <2>3, <2>5
    <3> QED BY <2>3, <3>1
  <2> HIDE DEF q
  <2>6. Known \subseteq Known' /\ \A i \in MaxQueue + 1 .. Len(q) : q[i].msg.id \in Known'
    BY <2>1 DEF Known, HistoryIds
  <2>7. \A i \in 1 .. Len(queue) :
           (\E j \in 1 .. Len(queue') : queue'[j] = queue[i]) \/ queue[i].msg.id \in Known'
    <3> SUFFICES ASSUME NEW i \in 1 .. Len(queue)
                 PROVE  (\E j \in 1 .. Len(queue') : queue'[j] = queue[i]) \/ queue[i].msg.id \in Known'
      OBVIOUS
    <3>1. i + 1 \in 1 .. Len(q) /\ q[i + 1] = queue[i]
      BY <2>3, <2>4
    <3>2. i + 1 \in MaxQueue + 1 .. Len(q) \/ \E j \in 1 .. Len(Oldest(q)) : Oldest(q)[j] = q[i + 1]
      BY <2>3, <3>1, OldestQueued
    <3> QED BY <2>1, <2>6, <3>1, <3>2
  <2>8. \A j \in 1 .. Len(queue') : \E i \in 1 .. Len(q) : queue'[j] = q[i]
    BY <2>1, <2>3, OldestQueued
  <2>9. \A i \in 1 .. Len(q) : q[i] = item \/ \E k \in 1 .. Len(queue) : q[i] = queue[k]
    BY <2>3, <2>5
  <2>10. \A j \in 1 .. Len(queue') :
            (\E i \in 1 .. Len(queue) : queue'[j] = queue[i]) \/ queue'[j].msg.id \in Known
    <3> SUFFICES ASSUME NEW j \in 1 .. Len(queue')
                 PROVE  (\E i \in 1 .. Len(queue) : queue'[j] = queue[i]) \/ queue'[j].msg.id \in Known
      OBVIOUS
    <3>1. PICK i \in 1 .. Len(q) : queue'[j] = q[i]
      BY <2>8
    <3> QED BY <2>2, <2>9, <3>1
  <2> QED BY <2>6, <2>7, <2>10 DEF Kept
<1>3. ASSUME NEW t \in Tasks, BeginRun(t) PROVE Kept
  BY <1>3, BegunKnown DEF Kept, BeginRun
<1>4. ASSUME NEW t \in Tasks, BeginTurn(t) PROVE Kept
  <2>1. CASE queue = <<>>
    BY <1>4, <2>1, SameKept DEF BeginTurn
  <2>2. CASE queue # <<>>
    <3>1. queue' = Tail(queue) /\ history' = Started(queue[1]) /\ lost' = lost
      BY <1>4, <2>2 DEF BeginTurn
    <3> QED BY <2>2, <3>1, PoppedKnown, PoppedKept
  <2> QED BY <2>1, <2>2
<1>5. ASSUME NEW t \in Tasks, TurnContinue(t) PROVE Kept
  <2>1. history' = history \o <<reply, toolResults>> /\ UNCHANGED <<queue, lost>>
    BY <1>5 DEF TurnContinue
  <2>2. /\ history' \in Seq(UserMsg \cup Reply) /\ Len(history) <= Len(history')
        /\ \A i \in 1 .. Len(history) : history'[i] = history[i]
    BY <1>0, <2>1
  <2> QED BY <1>0, <2>1, <2>2, ExtendedIds DEF Kept, Known
<1>6. ASSUME NEW t \in Tasks, TurnComplete(t) PROVE Kept
  <2> DEFINE h == Append(history, reply)
  <2>1. /\ h \in Seq(UserMsg \cup Reply) /\ Len(h) = Len(history) + 1 /\ Len(history) \in Nat
        /\ \A i \in 1 .. Len(history) : h[i] = history[i]
    BY <1>0
  <2>2. CASE queue # <<>>
    <3>1. queue' = Tail(queue) /\ history' = Append(h, queue[1].msg) /\ lost' = lost
      BY <1>6, <2>2 DEF TurnComplete
    <3>2. queue[1].msg \in UserMsg
      <4>1. queue[1] \in Queued
        BY <1>0, <2>2
      <4> QED BY <4>1 DEF Queued
    <3> HIDE DEF h
    <3>3. /\ history' \in Seq(UserMsg \cup Reply) /\ Len(history') = Len(h) + 1
          /\ \A i \in 1 .. Len(h) : history'[i] = h[i]
          /\ history'[Len(h) + 1] = queue[1].msg
      BY <2>1, <3>1, <3>2
    <3>4. HistoryIds \subseteq HistoryIds'
      <4>1. Len(history) <= Len(history') /\ \A i \in 1 .. Len(history) : history'[i] = history[i]
        BY <2>1, <3>3
      <4> QED BY <1>0, <3>3, <4>1, ExtendedIds
    <3>5. queue[1].msg.id \in HistoryIds'
      BY <2>1, <3>3 DEF HistoryIds
    <3> QED BY <2>2, <3>1, <3>4, <3>5, PoppedKept DEF Known
  <2>3. CASE queue = <<>>
    <3>1. history' = h /\ UNCHANGED <<queue, lost>>
      BY <1>6, <2>3 DEF TurnComplete
    <3> QED BY <1>0, <3>1, AppendedIds DEF Kept, Known
  <2> QED BY <2>2, <2>3
<1>7. ASSUME NEW t \in Tasks, TurnExceedsContext(t) PROVE Kept
  BY <1>7, RolledBackKnown DEF Kept, TurnExceedsContext
<1>8. ASSUME NEW t \in Tasks, AbortTakesEffect(t) PROVE Kept
  <2>1. UNCHANGED <<queue, history>> /\ lost \subseteq lost'
    BY <1>8 DEF AbortTakesEffect
  <2> QED BY <2>1 DEF Kept, Known, HistoryIds
<1> QED BY <1>1, <1>2, <1>3, <1>4, <1>5, <1>6, <1>7, <1>8, SameKept
    DEF Next, User, Terminal, Agent, Turn, Cleanup, SubmitWhenIdle, RetryCommand, CtrlC, NoInput,
        CheckCompletion, RetryUnavailable, RetryWhileBusy, RetryWhenIdle, StopAtTop, ApprovalTimeout,
        AskApproval, AnswerApproval, TurnFailsRetryable, TurnFailsFinally, TurnCancelled, Release,
        NotifyDone, CleanupTake, CleanupFlags, CleanupPublish, vars, loopVars

(* Without a cancellation, retry mode ends with the run that entered it.    *)
LEMMA RetryModeNext ==
    ASSUME Cleanups = {}, TypeInv, LoopOwner, Admission, RetryModeOwned, [Next]_vars
    PROVE  RetryModeOwned'
<1>0. /\ pc \in [Tasks -> Steps] /\ job \in [Tasks -> Job] /\ NoTask \notin Tasks
      /\ retryMode \in BOOLEAN
  BY BoundsAssumption DEF TypeInv, TasksOK, FlagsOK
<1> USE DEF RetryModeOwned
<1>1. ASSUME NEW t \in Tasks, Agent(t) \/ AskApproval(t) \/ AnswerApproval(t) \/ AbortTakesEffect(t)
      PROVE  RetryModeOwned'
  <2>1. UNCHANGED job
    BY <1>1, TaskStep
  <2>2. CASE BeginRun(t)
    BY <1>0, <2>1, <2>2 DEF BeginRun
  <2>3. CASE Release(t)
    <3>1. holder = t
      BY <2>3 DEF Release, LoopOwner, Running
    <3> QED BY <1>0, <2>3, <3>1 DEF Release
  <2>4. ~AbortTakesEffect(t)
    BY DEF AbortTakesEffect, Admission
  <2>5. CASE ~BeginRun(t) /\ ~Release(t)
    <3>1. UNCHANGED <<retryMode, holder>>
      BY <1>1, <2>4, <2>5 DEF Agent, Turn, StopAtTop, BeginTurn, ApprovalTimeout, AskApproval,
         AnswerApproval, TurnContinue, TurnComplete, TurnFailsRetryable, TurnFailsFinally,
         TurnExceedsContext, TurnCancelled, NotifyDone, loopVars
    <3> QED BY <2>1, <3>1
  <2> QED BY <2>2, <2>3, <2>5
<1>2. ASSUME NEW m, NEW retry, Spawn(m, retry), UNCHANGED <<holder, retryMode>>
      PROVE  RetryModeOwned'
  <2>1. PICK t \in Tasks : pc[t] = "none" /\ job' = [job EXCEPT ![t] = [msg |-> m, retry |-> retry]]
    BY <1>2, SpawnEffect
  <2>2. holder # t
    BY <2>1 DEF LoopOwner, Running
  <2> QED BY <1>0, <1>2, <2>1, <2>2
<1>3. ASSUME NEW x \in Texts, SubmitWhenIdle(x) PROVE RetryModeOwned'
  BY <1>2, <1>3 DEF SubmitWhenIdle, loopVars
<1>4. CASE RetryWhenIdle
  BY <1>2, <1>4 DEF RetryWhenIdle, loopVars
<1> QED BY <1>1, <1>3, <1>4, OtherStep

(* What can be resent was recorded: the candidate of a turn is the message  *)
(* that was just put into the history, and /retry takes it from there.      *)
LEMMA ResendsNext ==
    ASSUME TypeInv, RetryModeOwned, ResendsKnown, [Next]_vars
    PROVE  ResendsKnown'
<1>0. Kept
  BY StepKept
<1>1. /\ history \in Seq(UserMsg \cup Reply) /\ queue \in Seq(Queued) /\ job \in [Tasks -> Job]
      /\ history' \in Seq(UserMsg \cup Reply)
  BY LoopNext DEF TypeInv, LoopOK, TasksOK
<1>2. \A j \in 1 .. Len(queue') : queue'[j].retry => queue'[j].msg.id \in Known'
  BY <1>0 DEF Kept, ResendsKnown
<1>3. candidate' # NoMessage => candidate'.id \in Known'
  <2>1. CASE candidate' \in {candidate, NoMessage}
    BY <1>0, <2>1 DEF Kept, ResendsKnown
  <2>2. ASSUME NEW t \in Tasks, BeginRun(t) PROVE candidate'.id \in Known'
    BY <2>2, BegunKnown DEF BeginRun
  <2>3. ASSUME NEW t \in Tasks, BeginTurn(t), candidate' # NoMessage PROVE candidate'.id \in Known'
    <3> DEFINE cand == IF queue # <<>> THEN queue[1].msg ELSE candidate
    <3>1. /\ candidate' = IF cand = NoMessage THEN LastUser(history') ELSE cand
          /\ queue # <<>> => history' = Started(queue[1]) /\ lost' = lost
      BY <2>3 DEF BeginTurn
    <3>2. CASE candidate' = LastUser(history')
      <4>1. \E i \in 1 .. Len(history') : candidate' = history'[i]
        BY <1>1, <2>3, <3>2, LastUserType
      <4> QED BY <4>1 DEF Known, HistoryIds
    <3>3. CASE queue # <<>> /\ candidate' = queue[1].msg
      BY <3>1, <3>3, PoppedKnown
    <3>4. CASE queue = <<>> /\ candidate' = candidate
      BY <2>1, <2>3, <3>4
    <3> QED BY <3>1, <3>2, <3>3, <3>4
  <2>4. ASSUME NEW t \in Tasks, TurnComplete(t), candidate' # NoMessage PROVE candidate'.id \in Known'
    <3>1. queue # <<>> /\ candidate' = queue[1].msg /\ history' = Append(Append(history, reply), queue[1].msg)
      BY <2>4 DEF TurnComplete
    <3>2. queue[1] \in Queued
      BY <1>1, <3>1
    <3>3. queue[1].msg \in UserMsg /\ reply \in Reply
      BY <3>2, MessageTypes DEF Queued
    <3>4. /\ Len(history') = Len(history) + 2 /\ Len(history) \in Nat
          /\ history'[Len(history) + 2] = queue[1].msg
      BY <1>1, <3>1, <3>3
    <3>5. Len(history) + 2 \in 1 .. Len(history')
      BY <3>4
    <3> QED BY <3>1, <3>4, <3>5 DEF Known, HistoryIds
  <2> QED BY <2>1, <2>2, <2>3, <2>4
      DEF Next, User, Terminal, Agent, Turn, Cleanup, SubmitWhileBusy, SubmitWhenIdle, RetryCommand,
          CtrlC, NoInput, CheckCompletion, RetryUnavailable, RetryWhileBusy, RetryPush, RetryWhenIdle,
          StopAtTop, ApprovalTimeout, AskApproval, AnswerApproval, TurnContinue, TurnFailsRetryable,
          TurnFailsFinally, TurnExceedsContext, TurnCancelled, Release, NotifyDone, AbortTakesEffect,
          CleanupTake, CleanupFlags, CleanupPublish, vars, loopVars
<1>4. retryable' # NoMessage => retryable'.id \in Known'
  <2>1. retryable' \in {retryable, candidate, NoMessage}
    BY DEF Next, User, Terminal, Agent, Turn, Cleanup, SubmitWhileBusy, SubmitWhenIdle, RetryCommand,
          CtrlC, NoInput, CheckCompletion, RetryUnavailable, RetryWhileBusy, RetryPush, RetryWhenIdle,
          BeginRun, BeginTurn, ForgetRetryable, TurnComplete,
          StopAtTop, ApprovalTimeout, AskApproval, AnswerApproval, TurnContinue, TurnFailsRetryable,
          TurnFailsFinally, TurnExceedsContext, TurnCancelled, Release, NotifyDone, AbortTakesEffect,
          CleanupTake, CleanupFlags, CleanupPublish, vars, loopVars
  <2> QED BY <1>0, <2>1 DEF Kept, ResendsKnown
<1>5. tuiPc' = "retryPush" => tuiMsg'.id \in Known'
  <2>1. tuiPc' = "retryPush" =>
           (tuiPc = "retryPush" /\ tuiMsg' = tuiMsg) \/ (tuiMsg' = retryable /\ retryable # NoMessage)
    BY DEF Next, User, Terminal, Agent, Turn, Cleanup, SubmitWhileBusy, SubmitWhenIdle, RetryCommand,
          CtrlC, NoInput, CheckCompletion, RetryUnavailable, RetryWhileBusy, RetryPush, RetryWhenIdle,
          BeginRun, BeginTurn, TurnComplete,
          StopAtTop, ApprovalTimeout, AskApproval, AnswerApproval, TurnContinue, TurnFailsRetryable,
          TurnFailsFinally, TurnExceedsContext, TurnCancelled, Release, NotifyDone, AbortTakesEffect,
          CleanupTake, CleanupFlags, CleanupPublish, vars, tuiVars
  <2> QED BY <1>0, <2>1 DEF Kept, ResendsKnown
<1>6. \A t \in Tasks : job'[t].retry => job'[t].msg.id \in Known'
  <2>1. CASE UNCHANGED job
    BY <1>0, <2>1 DEF Kept, ResendsKnown
  <2>2. ASSUME NEW m, NEW retry, Spawn(m, retry), retry => m.id \in Known
        PROVE  \A t \in Tasks : job'[t].retry => job'[t].msg.id \in Known'
    <3>1. PICK u \in Tasks : job' = [job EXCEPT ![u] = [msg |-> m, retry |-> retry]]
      BY <2>2, SpawnEffect
    <3>2. /\ job'[u].retry = retry /\ job'[u].msg = m
          /\ \A t \in Tasks \ {u} : job'[t] = job[t]
      BY <1>1, <3>1
    <3> QED BY <1>0, <2>2, <3>2 DEF Kept, ResendsKnown
  <2>3. ASSUME NEW x \in Texts, SubmitWhenIdle(x) PROVE \A t \in Tasks : job'[t].retry => job'[t].msg.id \in Known'
    BY <2>2, <2>3 DEF SubmitWhenIdle
  <2>4. RetryWhenIdle => \A t \in Tasks : job'[t].retry => job'[t].msg.id \in Known'
    BY <2>2 DEF RetryWhenIdle, ResendsKnown
  <2> QED BY <2>1, <2>3, <2>4, OtherStep, TaskStep
<1> QED BY <1>2, <1>3, <1>4, <1>5, <1>6 DEF ResendsKnown

(* A prompt is accounted for in every step: the one that is submitted is    *)
(* queued or spawned, and the others are kept where they are or move on.    *)
LEMMA AccountedNext ==
    ASSUME TypeInv, RetryModeOwned, ResendsKnown, PromptsAccounted, [Next]_vars
    PROVE  PromptsAccounted'
<1> DEFINE Held(id) ==
       \/ \E t \in Tasks : pc[t] = "spawned" /\ job[t].msg.id = id
       \/ \E i \in 1 .. Len(queue) : queue[i].msg.id = id
       \/ id \in HistoryIds \cup lost
<1>0. Kept
  BY StepKept
<1>1. /\ pc \in [Tasks -> Steps] /\ job \in [Tasks -> Job] /\ queue \in Seq(Queued)
      /\ submits \in Nat
  BY BoundsAssumption DEF TypeInv, TasksOK, LoopOK, TerminalOK
<1>2. ASSUME NEW id \in 1 .. submits PROVE Held(id)'
  <2>0. id # 0
    BY <1>1
  <2>1. CASE id \in HistoryIds \cup lost
    BY <1>0, <2>0, <2>1 DEF Kept, Known
  <2>2. ASSUME NEW i \in 1 .. Len(queue), queue[i].msg.id = id PROVE Held(id)'
    BY <1>0, <2>0, <2>2 DEF Kept, Known
  <2>3. ASSUME NEW t \in Tasks, pc[t] = "spawned", job[t].msg.id = id PROVE Held(id)'
    <3>1. CASE pc'[t] = "spawned" /\ job'[t] = job[t]
      BY <2>3, <3>1
    <3>2. CASE BeginRun(t)
      BY <2>0, <2>3, <3>2, BegunKnown DEF Known
    <3>3. CASE AbortTakesEffect(t)
      BY <2>3, <3>3 DEF AbortTakesEffect
    <3>4. ASSUME NEW u \in Tasks, Agent(u) \/ AskApproval(u) \/ AnswerApproval(u) \/ AbortTakesEffect(u)
          PROVE  Held(id)'
      <4>1. CASE u = t
        <5>1. BeginRun(t) \/ AbortTakesEffect(t)
          BY <2>3, <3>4, <4>1, TaskStep DEF Running
        <5> QED BY <3>2, <3>3, <5>1
      <4>2. CASE u # t
        <5>1. pc'[t] = pc[t] /\ job' = job
          BY <1>1, <3>4, <4>2, TaskStep
        <5> QED BY <2>3, <3>1, <5>1
      <4> QED BY <4>1, <4>2
    <3>5. ASSUME NEW m, NEW retry, Spawn(m, retry) PROVE Held(id)'
      BY <1>1, <2>3, <3>1, <3>5, SpawnEffect
    <3>6. ASSUME NEW x \in Texts, SubmitWhenIdle(x) PROVE Held(id)'
      BY <3>5, <3>6 DEF SubmitWhenIdle
    <3>7. RetryWhenIdle => Held(id)'
      BY <3>5 DEF RetryWhenIdle
    <3> QED BY <2>3, <3>1, <3>4, <3>6, <3>7, OtherStep
  <2> QED BY <2>1, <2>2, <2>3 DEF PromptsAccounted
<1>3. CASE submits' = submits
  BY <1>2, <1>3 DEF PromptsAccounted
<1>4. ASSUME NEW n \in Nat, n = submits + 1, submits' = n, Held(n)' PROVE PromptsAccounted'
  <2>1. \A id \in 1 .. submits' : id \in 1 .. submits \/ id = n
    BY <1>1, <1>4
  <2>2. \A id \in 1 .. submits' : Held(id)'
    BY <1>2, <1>4, <2>1
  <2> QED BY <2>2 DEF PromptsAccounted
<1>5. ASSUME NEW x \in Texts, SubmitWhileBusy(x) PROVE PromptsAccounted'
  <2> DEFINE item == [msg |-> [id |-> submits + 1, text |-> x], retry |-> FALSE]
             q == Append(queue, item)
  <2>1. /\ submits' = submits + 1 /\ queue' = Newest(q)
        /\ lost' = lost \cup {q[i].msg.id : i \in 1 .. Len(q) - MaxQueue}
    BY <1>5 DEF SubmitWhileBusy
  <2>2. item \in Queued /\ item.msg.id = submits + 1
    <3>1. submits + 1 \in 1 .. MaxSubmits
      BY <1>5, BoundsAssumption DEF SubmitWhileBusy, TypeInv, TerminalOK
    <3> QED BY <3>1, MessageTypes DEF Queued
  <2> HIDE DEF item
  <2>3. q \in Seq(Queued) /\ Len(q) \in 1 .. Len(q) /\ q[Len(q)] = item
    BY <1>1, <2>2
  <2> HIDE DEF q
  <2>4. PICK n \in Nat : n = submits + 1
    BY <1>1
  <2>5. Held(n)'
    <3>1. CASE Len(q) \in 1 .. Len(q) - MaxQueue
      BY <2>1, <2>2, <2>3, <2>4, <3>1
    <3>2. CASE \E j \in 1 .. Len(Newest(q)) : Newest(q)[j] = q[Len(q)]
      BY <2>1, <2>2, <2>3, <2>4, <3>2
    <3> QED BY <2>3, <3>1, <3>2, NewestQueued
  <2> QED BY <1>4, <2>1, <2>4, <2>5
<1>6. ASSUME NEW x \in Texts, SubmitWhenIdle(x) PROVE PromptsAccounted'
  <2>1. submits' = submits + 1 /\ Spawn([id |-> submits + 1, text |-> x], FALSE)
    BY <1>6 DEF SubmitWhenIdle
  <2> DEFINE m == [id |-> submits + 1, text |-> x]
  <2>m. m.id = submits + 1 /\ Spawn(m, FALSE)
    BY <2>1
  <2> HIDE DEF m
  <2>2. PICK t \in Tasks : /\ pc' = [pc EXCEPT ![t] = "spawned"]
                           /\ job' = [job EXCEPT ![t] = [msg |-> m, retry |-> FALSE]]
    BY <2>m, SpawnEffect
  <2>3. pc'[t] = "spawned" /\ job'[t].msg.id = submits + 1
    BY <1>1, <2>2, <2>m
  <2>4. PICK n \in Nat : n = submits + 1
    BY <1>1
  <2>5. Held(n)'
    BY <2>3, <2>4
  <2> QED BY <1>4, <2>1, <2>4, <2>5
<1> QED BY <1>3, <1>5, <1>6
    DEF Next, User, Terminal, Agent, Turn, Cleanup, RetryCommand,
        CtrlC, NoInput, CheckCompletion, RetryUnavailable, RetryWhileBusy, RetryPush, RetryWhenIdle,
        BeginRun, BeginTurn, TurnComplete,
        StopAtTop, ApprovalTimeout, AskApproval, AnswerApproval, TurnContinue, TurnFailsRetryable,
        TurnFailsFinally, TurnExceedsContext, TurnCancelled, Release, NotifyDone, AbortTakesEffect,
        CleanupTake, CleanupFlags, CleanupPublish, vars, tuiVars

(* Without a cancellation, every prompt the terminal accepted waits for its *)
(* task, is queued, is in the history, was rolled back as too long, or was  *)
(* pushed out of a full queue, for any number of prompts, tasks and retries *)
(* and any limit of the queue (run, run_retry, the queue).                  *)
THEOREM NoPromptLost == ASSUME Cleanups = {} PROVE Spec => []PromptsAccounted
<1>1. Init => SessionInv
  <2> SUFFICES ASSUME Init PROVE SessionInv
    OBVIOUS
  <2>1. TypeInv /\ LoopOwner /\ Admission
    BY TypeInit, BoundsAssumption DEF Init, LoopOwner, Running, Admission, Live
  <2>2. RetryModeOwned /\ ResendsKnown /\ PromptsAccounted
    BY DEF Init, RetryModeOwned, ResendsKnown, PromptsAccounted
  <2> QED BY <2>1, <2>2 DEF SessionInv
<1>2. SessionInv /\ [Next]_vars => SessionInv'
  <2>1. TypeInv /\ [Next]_vars => TypeInv'
    BY FlagsNext, TerminalNext, TasksNext, LoopNext DEF TypeInv
  <2> QED BY <2>1, OwnerNext, AdmissionNext, RetryModeNext, ResendsNext, AccountedNext DEF SessionInv
<1>3. SessionInv => PromptsAccounted
  BY DEF SessionInv
<1> QED BY <1>1, <1>2, <1>3, PTL DEF Spec
=============================================================================
