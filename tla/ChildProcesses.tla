--------------------------- MODULE ChildProcesses ---------------------------
(* The processes an agent starts and what becomes of them: execute_command's *)
(* commands and scripts, the subagents of use_subagents, the list of their   *)
(* process groups in the task's state, and the three that may stop a group:  *)
(* the call that started it (timeout or cancellation flag), abort_task of an *)
(* agent that sees the flag at the top of its loop, and the cleanup behind   *)
(* Ctrl+C in the terminal.                                                   *)
(*                                                                           *)
(* A child is the leader of a group of its own.  It may leave a helper after *)
(* it: one that holds the pipes open, in its group ("group") or in a session *)
(* of its own ("away"), which no signal to the group reaches; or one of its  *)
(* group that has let go of the pipes ("quiet").  Commands and scripts run   *)
(* in their call and go when it is dropped; a subagent's runner is a task of *)
(* its own and goes on.  Processes exit when they like, or never.            *)
EXTENDS Naturals, FiniteSets

CONSTANTS
    MaxChildren, \* children a session may start
    MaxRuns,     \* runs of the agent's loop, each resets the flag
    MaxCancels,  \* signals and presses of Ctrl+C
    None

ASSUME ParametersAssumption ==
    /\ MaxChildren \in Nat /\ MaxRuns \in Nat /\ MaxCancels \in Nat
    /\ None \notin Nat

VARIABLES
    run,     \* the agent's task: idle, running, in abort_task, aborted
    runs, cancels,
    flag,    \* TaskState::is_cancelled and is_cancelled_atomic
    pids,    \* TaskState::running_command_pids
    joined,  \* the subagents the current use_subagents call waits for
    kind,    \* what each child is: "command", "script" or "subagent"
    at,      \* where each child's runner is
    why,     \* what ended the runner's wait
    leader, helper,
    killer   \* abort_task ("agent") and cancel_agent_resources ("terminal")

runners == <<kind, at, why>>
processes == <<leader, helper>>
session == <<run, runs, cancels, flag>>
processVars == <<run, runs, cancels, flag, pids, joined, kind, at, why, leader, helper, killer>>

Children == 1 .. MaxChildren   \* in the order of their start
Killers == {"agent", "terminal"}
Off == [at |-> "off", list |-> {}, now |-> None]
Helpers == {"none", "group", "away", "quiet"}
Gone == {"ended", "dropped", "lost"}
Detached(c) == kind[c] = "subagent"
Live(c) == at[c] \notin Gone \cup {"idle"}

(* A call of the running batch holds the agent: commands and subagents are  *)
(* barriers, so that there is one at a time.                                *)
CallOpen == joined # {} \/ \E c \in Children : Live(c) /\ ~ Detached(c)

(* kill(-pid, 0) also succeeds on a zombie that nobody has waited for.      *)
InGroup == {"group", "quiet"}
HoldsPipes(c) == helper[c] \in {"group", "away"}
GroupExists(c) == leader[c] \in {"running", "zombie"} \/ helper[c] \in InGroup
GroupAlive(c) == leader[c] = "running" \/ helper[c] \in InGroup

ProcessInit ==
    /\ run = "idle" /\ runs = 0 /\ cancels = 0
    /\ flag = FALSE
    /\ pids = {} /\ joined = {}
    /\ kind = [c \in Children |-> "none"]
    /\ at = [c \in Children |-> "idle"]
    /\ why = [c \in Children |-> "none"]
    /\ leader = [c \in Children |-> "none"]
    /\ helper = [c \in Children |-> "none"]
    /\ killer = [k \in Killers |-> Off]

-----------------------------------------------------------------------------
(* The processes.  The runtime reaps the children of dropped calls, which   *)
(* changes nothing here: a signal to a zombie has no effect.                *)

LeaderExits(c) ==
    /\ leader[c] = "running"
    /\ leader' = [leader EXCEPT ![c] = "zombie"]
    /\ \E h \in Helpers : helper' = [helper EXCEPT ![c] = h]
    /\ UNCHANGED <<session, pids, joined, runners, killer>>

HelperExits(c) ==
    /\ helper[c] # "none"
    /\ helper' = [helper EXCEPT ![c] = "none"]
    /\ UNCHANGED <<session, pids, joined, runners, leader, killer>>

(* terminate_process_group: SIGTERM, which a member may ignore, then, after *)
(* the grace time and another look at the group, SIGKILL.                   *)
Term(c) ==
    \/ UNCHANGED processes
    \/ \E h \in IF leader[c] = "running" THEN Helpers ELSE {"none"} :
          /\ GroupAlive(c)
          /\ leader' = [leader EXCEPT ![c] = IF @ = "running" THEN "zombie" ELSE @]
          /\ helper' = [helper EXCEPT ![c] = h]

Kill(c) ==
    \E h \in IF leader[c] = "running" THEN Helpers ELSE {helper[c]} :
       /\ leader' = [leader EXCEPT ![c] = IF @ = "running" THEN "zombie" ELSE @]
       /\ helper' = [helper EXCEPT ![c] = IF h \in InGroup THEN "none" ELSE h]

-----------------------------------------------------------------------------
(* A child's runner.  Nothing in a call of an aborted task is polled again, *)
(* but a poll that was under way goes on to its next await, which may take  *)
(* it through the spawn and the registration.                               *)
Polled(c) == Detached(c) \/ run = "running"
MayFinishPoll(c) == Polled(c) \/ run = "aborted"

Goto(c, pc) == at' = [at EXCEPT ![c] = pc]

Fresh(group) ==
    /\ \A c \in group : at[c] = "idle"
    /\ \A c \in group, d \in Children \ group : at[d] = "idle" => c < d

(* run_tool_unless_cancelled and the start of execute_command: the flag is  *)
(* looked at once.                                                          *)
StartCommand(c) ==
    /\ run = "running" /\ ~ flag /\ ~ CallOpen
    /\ Fresh({c})
    /\ \E k \in {"command", "script"} : kind' = [kind EXCEPT ![c] = k]
    /\ Goto(c, "queued")
    /\ UNCHANGED <<session, pids, joined, why, processes, killer>>

(* use_subagents: a task of its own for each prompt, then the join.         *)
StartSubagents(group) ==
    /\ run = "running" /\ ~ flag /\ ~ CallOpen
    /\ group # {} /\ Fresh(group)
    /\ joined' = group
    /\ kind' = [c \in Children |-> IF c \in group THEN "subagent" ELSE kind[c]]
    /\ at' = [c \in Children |-> IF c \in group THEN "queued" ELSE at[c]]
    /\ UNCHANGED <<session, pids, why, processes, killer>>

JoinSubagents ==
    /\ run = "running" /\ joined # {}
    /\ \A c \in joined : at[c] = "ended"
    /\ joined' = {}
    /\ UNCHANGED <<session, pids, runners, processes, killer>>

Spawn(c) ==
    /\ MayFinishPoll(c) /\ at[c] = "queued"
    /\ \/ Goto(c, "spawned") /\ leader' = [leader EXCEPT ![c] = "running"] /\ UNCHANGED why
       \/ Goto(c, "ended") /\ why' = [why EXCEPT ![c] = "failed"] /\ UNCHANGED leader
    /\ UNCHANGED <<session, pids, joined, kind, helper, killer>>

(* The group is listed under the state's lock, which is awaited first.      *)
Register(c) ==
    /\ MayFinishPoll(c) /\ at[c] = "spawned"
    /\ pids' = pids \cup {c}
    /\ Goto(c, "waiting")
    /\ UNCHANGED <<session, joined, kind, why, processes, killer>>

Ends(c, reason, pc) ==
    /\ why' = [why EXCEPT ![c] = reason]
    /\ Goto(c, pc)

Exited(c) ==
    /\ Polled(c) /\ at[c] = "waiting" /\ leader[c] = "zombie"
    /\ leader' = [leader EXCEPT ![c] = "reaped"]
    /\ Ends(c, "exited", "draining")
    /\ UNCHANGED <<session, pids, joined, kind, helper, killer>>

(* The wait fails when someone else has reaped the child, as with SIGCHLD   *)
(* ignored.  A command returns at once and leaves its entry in the list; a  *)
(* script takes it out; a subagent drains its pipes and stops the group.    *)
WaitFails(c) ==
    /\ Polled(c) /\ at[c] = "waiting" /\ leader[c] = "zombie"
    /\ leader' = [leader EXCEPT ![c] = "reaped"]
    /\ Ends(c, "failed", CASE kind[c] = "command" -> "ended"
                           [] kind[c] = "script" -> "unregistering"
                           [] kind[c] = "subagent" -> "draining")
    /\ UNCHANGED <<session, pids, joined, kind, helper, killer>>

(* A script's timeout also covers the stop that its cancellation began.     *)
TimesOut(c) ==
    /\ Polled(c)
    /\ \/ at[c] = "waiting"
       \/ kind[c] = "script" /\ why[c] = "cancelled" /\ at[c] \in {"stopping", "grace", "reaping", "unregistering"}
    /\ Ends(c, "timedout", "stopping")
    /\ UNCHANGED <<session, pids, joined, kind, processes, killer>>

SeesCancel(c) ==
    /\ Polled(c) /\ at[c] = "waiting" /\ flag
    /\ Ends(c, "cancelled", "stopping")
    /\ UNCHANGED <<session, pids, joined, kind, processes, killer>>

StopTerm(c) ==
    /\ Polled(c) /\ at[c] = "stopping"
    /\ \/ GroupExists(c) /\ Term(c) /\ Goto(c, "grace")
       \/ ~ GroupExists(c) /\ Goto(c, "reaping") /\ UNCHANGED processes
    /\ UNCHANGED <<session, pids, joined, kind, why, killer>>

StopKill(c) ==
    /\ Polled(c) /\ at[c] = "grace"
    /\ Kill(c)
    /\ Goto(c, "reaping")
    /\ UNCHANGED <<session, pids, joined, kind, why, killer>>

(* What follows a stop: a cancelled command or script has no more to read, *)
(* a timed-out script gives up its entry before it reads, a subagent that  *)
(* was stopped for its pipes, or after a failed wait, is finished.          *)
AfterStop(c) ==
    IF \/ why[c] = "timedout" /\ kind[c] = "command"
       \/ why[c] \in {"timedout", "cancelled"} /\ Detached(c)
    THEN "draining" ELSE "unregistering"

StopReap(c) ==
    /\ Polled(c) /\ at[c] = "reaping" /\ leader[c] # "running"
    /\ leader' = [leader EXCEPT ![c] = "reaped"]
    /\ Goto(c, AfterStop(c))
    /\ UNCHANGED <<session, pids, joined, kind, why, helper, killer>>

(* Commands read on for a second at most, subagents' collectors for two; a *)
(* script waits for the end of its pipes, without timeout or flag.          *)
ReadsBounded_Subagents(c) == kind[c] = "subagent"
ReadsBounded(c) == kind[c] # "script"

(* A collector that did not stop makes run_subagent stop the group, again, *)
(* and so does a wait that failed.                                          *)
StopsAfterDrain_Failed(c) == Detached(c) /\ why[c] = "failed"
StopsAfterDrain(c) == Detached(c) /\ (HoldsPipes(c) \/ why[c] = "failed")

Drained(c) ==
    /\ Polled(c) /\ at[c] = "draining"
    /\ ReadsBounded(c) \/ ~ HoldsPipes(c)
    /\ IF StopsAfterDrain(c)
       THEN Goto(c, "restopping")
       ELSE Goto(c, IF kind[c] = "script" /\ why[c] = "timedout" THEN "ended" ELSE "unregistering")
    /\ UNCHANGED <<session, pids, joined, kind, why, processes, killer>>

(* The second stop_subagent, as the first.                                  *)
Restop(c) ==
    /\ at[c] = "restopping"
    /\ \/ GroupExists(c) /\ Term(c) /\ Goto(c, "regrace")
       \/ ~ GroupExists(c) /\ Goto(c, "unregistering") /\ UNCHANGED processes
    /\ UNCHANGED <<session, pids, joined, kind, why, killer>>

RestopKill(c) ==
    /\ at[c] = "regrace"
    /\ Kill(c)
    /\ Goto(c, "unregistering")
    /\ UNCHANGED <<session, pids, joined, kind, why, killer>>

Unregister(c) ==
    /\ Polled(c) /\ at[c] = "unregistering"
    /\ pids' = pids \ {c}
    /\ Goto(c, IF kind[c] = "script" /\ why[c] = "timedout" THEN "draining" ELSE "ended")
    /\ UNCHANGED <<session, joined, kind, why, processes, killer>>

-----------------------------------------------------------------------------
(* The agent's runs and their cancellation.  One run follows another when   *)
(* the former is over and the cleanup has cleared agent_busy.               *)
StartRun ==
    /\ run = "idle" /\ killer["terminal"] = Off
    /\ runs < MaxRuns
    /\ run' = "running" /\ runs' = runs + 1
    /\ flag' = FALSE
    /\ UNCHANGED <<cancels, pids, joined, runners, processes, killer>>

(* A run ends at the top of its loop or after a turn; that it has no turns  *)
(* left is looked at before the flag.                                       *)
RunEnds ==
    /\ run = "running" /\ ~ CallOpen
    /\ run' = "idle"
    /\ UNCHANGED <<runs, cancels, flag, pids, joined, runners, processes, killer>>

(* What is left of a call that is dropped: a child that nothing lists, one  *)
(* that the list still names, or none.                                      *)
Fate_QueuedLost(c) == IF Live(c) /\ ~ Detached(c) THEN "lost" ELSE at[c]
Fate(c) ==
    CASE Detached(c) \/ ~ Live(c) -> at[c]
      [] ~ Detached(c) /\ at[c] = "queued" -> "ended"
      [] ~ Detached(c) /\ at[c] = "spawned" -> "lost"
      [] OTHER -> "dropped"

DropCall ==
    /\ at' = [c \in Children |-> Fate(c)]
    /\ joined' = {}

(* execute_tool_with_hooks_internal races every call but an edit against    *)
(* the flag and drops it, also in the middle of its own stopping.           *)
DropOnFlag ==
    /\ run = "running" /\ flag /\ CallOpen
    /\ DropCall
    /\ UNCHANGED <<session, pids, kind, why, processes, killer>>

(* A first SIGINT or SIGTERM sets the flags and no more.                    *)
Signal ==
    /\ run = "running" /\ cancels < MaxCancels
    /\ flag' = TRUE /\ cancels' = cancels + 1
    /\ UNCHANGED <<run, runs, pids, joined, runners, processes, killer>>

(* abort_task clones the list.                                              *)
AbortTask ==
    /\ run = "running" /\ flag /\ ~ CallOpen
    /\ IF pids = {}
       THEN run' = "idle" /\ UNCHANGED killer
       ELSE /\ run' = "killing"
            /\ killer' = [killer EXCEPT !["agent"] = [at |-> "next", list |-> pids, now |-> None]]
    /\ UNCHANGED <<runs, cancels, flag, pids, joined, runners, processes>>

(* Ctrl+C in the terminal aborts the task, whose future is dropped when its *)
(* poll has come to an await, and spawns the cleanup.                       *)
CtrlC ==
    /\ run \in {"running", "killing"} /\ killer["terminal"] = Off
    /\ cancels < MaxCancels
    /\ run' = "aborted" /\ cancels' = cancels + 1
    /\ killer' = [killer EXCEPT !["terminal"].at = "take"]
    /\ UNCHANGED <<runs, flag, pids, joined, runners, processes>>

DropTask ==
    /\ run = "aborted"
    /\ run' = "idle"
    /\ DropCall
    /\ killer' = [killer EXCEPT !["agent"] = Off]
    /\ UNCHANGED <<runs, cancels, flag, pids, kind, why, processes>>

(* What the cleanup takes of the list, all of it, with the flags set under  *)
(* the same lock.                                                           *)
Taken == pids

Take ==
    /\ killer["terminal"].at = "take"
    /\ flag' = TRUE
    /\ pids' = {}
    /\ killer' = [killer EXCEPT !["terminal"] = [at |-> "next", list |-> Taken, now |-> None]]
    /\ UNCHANGED <<run, runs, cancels, joined, runners, processes>>

KillerRuns(k) == k = "terminal" \/ run = "killing"

KillNext(k) ==
    /\ KillerRuns(k) /\ killer[k].at = "next"
    /\ \E c \in killer[k].list :
          \/ /\ GroupExists(c) /\ Term(c)
             /\ killer' = [killer EXCEPT ![k].at = "grace", ![k].now = c]
          \/ /\ ~ GroupExists(c)
             /\ killer' = [killer EXCEPT ![k].list = @ \ {c}]
             /\ UNCHANGED processes
    /\ UNCHANGED <<session, pids, joined, runners>>

KillGrace(k) ==
    /\ KillerRuns(k) /\ killer[k].at = "grace"
    /\ Kill(killer[k].now)
    /\ killer' = [killer EXCEPT ![k] = [at |-> "next", list |-> @.list \ {@.now}, now |-> None]]
    /\ UNCHANGED <<session, pids, joined, runners>>

(* abort_task empties the list, of what was listed since as well, and the   *)
(* run returns; the cleanup clears agent_busy.                              *)
KillsDone(k) ==
    /\ KillerRuns(k) /\ killer[k].at = "next" /\ killer[k].list = {}
    /\ killer' = [killer EXCEPT ![k] = Off]
    /\ IF k = "agent" THEN run' = "idle" /\ pids' = {} ELSE UNCHANGED <<run, pids>>
    /\ UNCHANGED <<runs, cancels, flag, joined, runners, processes>>

-----------------------------------------------------------------------------
Process(c) == LeaderExits(c) \/ HelperExits(c)

(* The steps of a runner: its timers are among them, what its child does is *)
(* not.                                                                     *)
Runner(c) ==
    \/ Spawn(c) \/ Register(c) \/ Exited(c) \/ TimesOut(c) \/ SeesCancel(c)
    \/ StopTerm(c) \/ StopKill(c) \/ StopReap(c)
    \/ Drained(c) \/ Restop(c) \/ RestopKill(c) \/ Unregister(c)

Killing(k) == KillNext(k) \/ KillGrace(k) \/ KillsDone(k)

ProcessNext ==
    \/ \E c \in Children : Process(c) \/ StartCommand(c) \/ Runner(c) \/ WaitFails(c)
    \/ \E group \in SUBSET Children : StartSubagents(group)
    \/ JoinSubagents
    \/ StartRun \/ RunEnds \/ Signal \/ DropOnFlag \/ AbortTask
    \/ CtrlC \/ DropTask \/ Take
    \/ \E k \in Killers : Killing(k)

ProcessSpec == ProcessInit /\ [][ProcessNext]_processVars

-----------------------------------------------------------------------------
RunnerStages == {"idle", "queued", "spawned", "waiting", "stopping", "grace", "reaping",
           "draining", "restopping", "regrace", "unregistering"} \cup Gone

(* Types, and: a child whose call was dropped had been started; only one    *)
(* call holds the agent, and abort_task finds none open.                    *)
ProcessTypeOK ==
    /\ run \in {"idle", "running", "killing", "aborted"}
    /\ runs \in 0 .. MaxRuns /\ cancels \in 0 .. MaxCancels /\ flag \in BOOLEAN
    /\ pids \subseteq Children /\ joined \subseteq Children
    /\ kind \in [Children -> {"none", "command", "script", "subagent"}]
    /\ at \in [Children -> RunnerStages]
    /\ why \in [Children -> {"none", "failed", "exited", "timedout", "cancelled"}]
    /\ leader \in [Children -> {"none", "running", "zombie", "reaped"}]
    /\ helper \in [Children -> Helpers]
    /\ killer \in [Killers -> [at : {"off", "take", "next", "grace"},
                               list : SUBSET Children, now : Children \cup {None}]]
    /\ \A c \in Children :
          /\ at[c] \in {"dropped", "lost"} => leader[c] # "none"
          /\ (~ Detached(c) /\ Live(c)) => (joined = {} /\ run \in {"running", "aborted"})

(* A member of a dropped call's group that is still alive can be stopped:   *)
(* its group is in the list, or in the hands of abort_task or the cleanup.  *)
(* Only a call dropped between the spawn and the registration loses it      *)
(* (execute_command.rs:875, 1650; cancellation.rs:117; interactive.rs:2936).*)
NothingEscapes ==
    \A c \in Children :
       (at[c] = "dropped" /\ GroupAlive(c))
         => c \in pids \/ \E k \in Killers : c \in killer[k].list

(* A child that was stopped leaves nothing of its group behind when its     *)
(* runner returns, whatever helpers it started, whichever signals they      *)
(* ignored and whoever else was stopping it; a subagent that ended by       *)
(* itself may leave a helper of its group only if that holds no pipe; and   *)
(* they are waited for (execute_command.rs:938, 1094;                       *)
(* use_subagents.rs:586).                                                   *)
StoppedIsGone ==
    \A c \in Children :
       at[c] = "ended" /\ leader[c] # "none" /\ (why[c] \in {"cancelled", "timedout"} \/ Detached(c))
       => /\ leader[c] = "reaped"
          /\ GroupAlive(c) => why[c] = "exited" /\ ~ HoldsPipes(c)

(* No process of a call outlives it unattended: somebody can still stop it, *)
(* or it was stopped (terminate_process_group, running_command_pids).       *)
NothingSurvives == NothingEscapes /\ StoppedIsGone

(* The runner of a command or a subagent never waits for its child alone:   *)
(* in every state it has a step of its own, a timer or a bound, though the  *)
(* child may run for ever, ignore signals and leave helpers that hold its   *)
(* pipes (execute_command.rs:975, 1110; use_subagents.rs:382, 586).         *)
NeverStuck ==
    \A c \in Children : (Live(c) /\ Polled(c) /\ kind[c] # "script") => ENABLED Runner(c)
=============================================================================
