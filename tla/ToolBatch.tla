------------------------------ MODULE ToolBatch ------------------------------
(***************************************************************************)
(* The tool calls of one reply: each call is checked and approved in turn, *)
(* then the accepted ones run, reads side by side and everything else      *)
(* alone, and every call gets one outcome, in the provider's order         *)
(* (src/src/core/tools/execution.rs).  Around the batches: the user's    *)
(* prompts, what was denied or approved for good, and cancellation.        *)
(*                                                                         *)
(* An action is a tool with its parameters (tool name and fingerprint).    *)
(* An edit writes two files, one after the other, and undoes the first if  *)
(* the second fails (handlers/edit_file.rs).                               *)
(***************************************************************************)
EXTENDS Integers, Sequences, FiniteSets

CONSTANTS
    Reads,          \* actions of tools that may run side by side
    Edits,          \* actions of a file-editing tool
    Commands,       \* actions of execute_command; the other tools that run
                    \* alone and never ask act as one that needs no prompt
    External,       \* reads and edits outside of the workspace
    Unsafe,         \* commands the safety checker objects to
    Concurrency,    \* DEFAULT_TOOL_CONCURRENCY (12)
    MaxCalls,       \* bound on calls, of all replies together
    MaxPrompts      \* bound on the user's prompts

Actions == Reads \cup Edits \cup Commands

ASSUME BatchConstants ==
    /\ Reads \cap Edits = {} /\ Reads \cap Commands = {} /\ Edits \cap Commands = {}
    /\ External \subseteq Reads \cup Edits /\ Unsafe \subseteq Commands
    /\ Concurrency \in Nat \ {0}
    /\ {MaxCalls, MaxPrompts} \subseteq Nat

VARIABLES
    mode,        \* "ask", "all" (auto-approve-all) or "yolo"
    parallel,    \* enable_parallel_tool_calling
    open,        \* a run is at work on a prompt
    phase,       \* "idle", "preflight", "asking" or "running"
    batch,       \* the actions of the reply's calls that have a name
    tasks,       \* tool_tasks: for each named call, its action and its stage
    reported,    \* the outcomes of the batch: whose result each task got
    denied,      \* denied_tool_actions
    always,      \* actions approved for the session
    grants,      \* external actions whose directory is granted
    cancelled,   \* is_cancelled_atomic
    aborted,     \* auxiliary: a task was aborted while a batch ran
    recent,      \* auxiliary: what was denied since the newest prompt
    calls, prompts      \* how many there were

batchVars == <<open, phase, batch, tasks, reported, calls, aborted>>
userVars == <<denied, always, grants, recent, prompts>>
vars == <<mode, parallel, batchVars, userVars, cancelled>>

Refusals == {"refused", "repeat", "denied"}     \* an immediate output
Finished == {"ok", "error", "skipped",
             "torn",        \* an edit that failed, and so did its rollback
             "cut"}         \* an edit stopped between its two files
Stages == Refusals \cup Finished \cup {"ready", "running", "half", "dropped"}

TypeOK ==
    /\ mode \in {"ask", "all", "yolo"} /\ {parallel, open, cancelled, aborted} \subseteq BOOLEAN
    /\ phase \in {"idle", "preflight", "asking", "running"} /\ (phase # "idle" => open)
    /\ batch \in Seq(Actions) /\ Len(batch) <= MaxCalls
    /\ tasks \in Seq([action : Actions, stage : Stages]) /\ Len(tasks) <= Len(batch)
    /\ reported \in Seq(0 .. Len(tasks))
    /\ denied \subseteq Actions /\ recent \subseteq Actions
    /\ always \subseteq Edits \cup Commands /\ grants \subseteq External
    /\ {calls, prompts} \subseteq Nat

Init ==
    /\ mode \in {"ask", "all", "yolo"} /\ parallel \in BOOLEAN
    /\ open = FALSE /\ phase = "idle" /\ batch = <<>> /\ tasks = <<>> /\ reported = <<>>
    /\ denied = {} /\ always = {} /\ grants = {} /\ recent = {}
    /\ cancelled = FALSE /\ aborted = FALSE /\ calls = 0 /\ prompts = 0

-----------------------------------------------------------------------------
(* Prompts and replies.                                                    *)

NoBatch_KeepResults == batch' = <<>> /\ tasks' = <<>> /\ aborted' = FALSE /\ reported' = reported
(* What a batch worked with goes with it.                                  *)
NoBatch == batch' = <<>> /\ tasks' = <<>> /\ reported' = <<>> /\ aborted' = FALSE

(* A prompt for an idle session starts a run and resets the cancellation.  *)
NewPrompt ==
    /\ ~open /\ prompts < MaxPrompts
    /\ open' = TRUE /\ prompts' = prompts + 1
    /\ cancelled' = FALSE /\ recent' = {}
    /\ NoBatch
    /\ UNCHANGED <<mode, parallel, phase, calls, denied, always, grants>>

QueuedPrompt_KeepDenied(denials) == denials
(* What a prompt from the queue leaves of the denials: none                *)
(* (clear_denied_tool_actions).                                            *)
ClearDenied(denials) == {}

(* A queued prompt is taken at the top of a turn of the same run.          *)
QueuedPrompt ==
    /\ open /\ phase = "idle" /\ ~cancelled /\ prompts < MaxPrompts
    /\ prompts' = prompts + 1
    /\ denied' = ClearDenied(denied) /\ recent' = {}
    /\ NoBatch
    /\ UNCHANGED <<mode, parallel, open, phase, calls, always, grants, cancelled>>

EndRun ==
    /\ open /\ phase = "idle"
    /\ open' = FALSE
    /\ NoBatch
    /\ UNCHANGED <<mode, parallel, phase, calls, userVars, cancelled>>

(* A reply with tool calls; a turn does not begin after a cancellation.    *)
StartBatch ==
    /\ open /\ phase = "idle" /\ ~cancelled
    /\ \E n \in 1 .. MaxCalls - calls : batch' \in [1 .. n -> Actions] /\ calls' = calls + n
    /\ phase' = "preflight" /\ tasks' = <<>> /\ reported' = <<>>
    /\ aborted' = FALSE
    /\ UNCHANGED <<mode, parallel, open, userVars, cancelled>>

-----------------------------------------------------------------------------
(* prepare_tool_tasks: one call after the other (those without a name were *)
(* skipped).                                                               *)

AllPrepared == Len(tasks) = Len(batch)
Upcoming == batch[Len(tasks) + 1]
Prepared(stage) == tasks' = Append(tasks, [action |-> Upcoming, stage |-> stage])

(* Whether the approval manager lets the user decide.  Approve-all asks for *)
(* commands, approved scopes or not (command_scopes_are_approved).         *)
SameKind(a) == IF a \in Reads THEN Reads ELSE Edits
NeedsPrompt(a) ==
    /\ mode # "yolo"
    /\ \/ a \in External \ grants
       \/ a \in Edits \ External /\ mode = "ask" /\ a \notin always
       \/ a \in Commands /\ (mode = "all" \/ a \notin always \/ a \in Unsafe)

PreviouslyDenied_Never(a) == FALSE
PreviouslyDenied(a) == a \in denied

(* Malformed arguments, rules just loaded, plan mode, profile, unknown.    *)
Refuse ==
    /\ phase = "preflight" /\ ~AllPrepared
    /\ Prepared("refused")
    /\ UNCHANGED <<mode, parallel, open, phase, batch, reported, calls, aborted, userVars, cancelled>>

(* Denied before, for exactly this request.                                *)
RefuseRepeat ==
    /\ phase = "preflight" /\ ~AllPrepared /\ PreviouslyDenied(Upcoming)
    /\ Prepared("repeat")
    /\ UNCHANGED <<mode, parallel, open, phase, batch, reported, calls, aborted, userVars, cancelled>>

Accept ==
    /\ phase = "preflight" /\ ~AllPrepared
    /\ ~PreviouslyDenied(Upcoming) /\ ~NeedsPrompt(Upcoming)
    /\ Prepared("ready")
    /\ UNCHANGED <<mode, parallel, open, phase, batch, reported, calls, aborted, userVars, cancelled>>

Ask ==
    /\ phase = "preflight" /\ ~AllPrepared
    /\ ~PreviouslyDenied(Upcoming) /\ NeedsPrompt(Upcoming)
    /\ phase' = "asking"
    /\ UNCHANGED <<mode, parallel, open, batch, tasks, reported, calls, aborted, userVars, cancelled>>

Answered(stage) ==
    /\ phase = "asking" /\ phase' = "preflight"
    /\ Prepared(stage)
    /\ UNCHANGED <<mode, parallel, open, batch, reported, calls, aborted, prompts, cancelled>>

AnswerYes == Answered("ready") /\ UNCHANGED <<denied, always, grants, recent>>

AnswerNo ==
    /\ Answered("denied")
    /\ denied' = denied \cup {Upcoming} /\ recent' = recent \cup {Upcoming}
    /\ UNCHANGED <<always, grants>>

(* Always: every edit of this tool; or this command, and with it the       *)
(* commands of the same scopes, if it has any.                             *)
AnswerAlways ==
    /\ phase = "asking" /\ Upcoming \notin External
    /\ Answered("ready")
    /\ \E alike \in SUBSET Commands :
          always' = always \cup (IF Upcoming \in Edits THEN Edits ELSE {Upcoming} \cup alike)
    /\ UNCHANGED <<denied, grants, recent>>

(* The directory is granted to the category of the tool, if it can be.     *)
AnswerDirectory ==
    /\ phase = "asking" /\ Upcoming \in External
    /\ \/ Answered("ready") /\ grants' = grants \cup (External \cap SameKind(Upcoming))
       \/ Answered("refused") /\ grants' = grants
    /\ UNCHANGED <<denied, always, recent>>

(* No answer: unavailable, or none within five minutes.                    *)
NoAnswer == Answered("refused") /\ UNCHANGED <<denied, always, grants, recent>>

StartTools ==
    /\ phase = "preflight" /\ AllPrepared
    /\ phase' = "running"
    /\ UNCHANGED <<mode, parallel, open, batch, tasks, reported, calls, aborted, userVars, cancelled>>

-----------------------------------------------------------------------------
(* execute_tool_batch: the accepted tasks.                                 *)

Executable(i) == tasks[i].stage \notin Refusals
IsRead(i) == tasks[i].action \in Reads
Over(i) == tasks[i].stage \in Finished
Stage(i, stage) == tasks' = [tasks EXCEPT ![i].stage = stage]

Earlier(i) == {j \in 1 .. i - 1 : Executable(j)}

(* A read overtakes only reads: those between the same two barriers, of    *)
(* which `buffered` polls a window that begins at the first unfinished one.*)
Reached_ReadsAnywhere(i) ==
    IF parallel /\ IsRead(i) THEN TRUE ELSE \A j \in Earlier(i) : Over(j)

Reached(i) ==
    LET waiting == {j \in Earlier(i) : ~Over(j)} IN
    IF parallel /\ IsRead(i)
      THEN /\ \A j \in waiting : IsRead(j)
           /\ \A head \in waiting : Cardinality({j \in Earlier(i) : j >= head}) < Concurrency
      ELSE waiting = {}

(* run_tool_unless_cancelled: the flag is read when the task is reached.   *)
Begin(i) ==
    /\ phase = "running" /\ i \in DOMAIN tasks /\ tasks[i].stage = "ready" /\ Reached(i)
    /\ Stage(i, IF cancelled THEN "skipped" ELSE "running")
    /\ UNCHANGED <<mode, parallel, open, phase, batch, reported, calls, aborted, userVars, cancelled>>

Works(i) ==
    /\ phase = "running" /\ i \in DOMAIN tasks
    /\ UNCHANGED <<mode, parallel, open, phase, batch, reported, calls, aborted, userVars, cancelled>>

(* A tool ends, its hooks included; an edit ends here when it wrote nothing*)
(* or one file only.                                                       *)
Finish(i) ==
    /\ Works(i) /\ tasks[i].stage = "running"
    /\ \E stage \in {"ok", "error"} : Stage(i, stage)

(* The first of the two files of an edit is written; then the second is,   *)
(* or the first is written back, or cannot be.                             *)
WriteFirst(i) ==
    /\ Works(i) /\ tasks[i].stage = "running" /\ tasks[i].action \in Edits
    /\ Stage(i, "half")

WriteSecond(i) ==
    /\ Works(i) /\ tasks[i].stage = "half"
    /\ \E stage \in {"ok", "error", "torn"} : Stage(i, stage)

Interruptible_Nothing(a) == FALSE
Interruptible_Everything(a) == TRUE
(* Only a tool that does not edit files is raced against the flag.         *)
Interruptible(a) == a \notin Edits

Interrupt(i) ==
    /\ Works(i) /\ cancelled /\ tasks[i].stage \in {"running", "half"}
    /\ Interruptible(tasks[i].action)
    /\ Stage(i, IF tasks[i].stage = "half" THEN "cut" ELSE "error")

(* collect_ordered_outcomes: the results, by position, are dealt to the    *)
(* tasks that were executed; one without gets a made-up error (0).         *)
HasResult_NotSkipped(i) == tasks[i].stage \in Finished \ {"skipped"}
HasResult(i) == tasks[i].stage \in Finished

Executed == {i \in DOMAIN tasks : Executable(i)}
WithResult == {i \in Executed : HasResult(i)}
Rank(positions, i) == Cardinality({j \in positions : j <= i})

Dealt(i) ==
    LET fits == {j \in WithResult : Rank(WithResult, j) = Rank(Executed, i)} IN
    IF ~Executable(i) THEN i ELSE IF fits = {} THEN 0 ELSE CHOOSE j \in fits : TRUE

Collect ==
    /\ phase = "running" /\ \A i \in Executed : Over(i)
    /\ reported' = [i \in DOMAIN tasks |-> Dealt(i)]
    /\ phase' = "idle"
    /\ UNCHANGED <<mode, parallel, open, batch, tasks, calls, aborted, userVars, cancelled>>

-----------------------------------------------------------------------------
(* The flag alone: a signal, a budget, a parent.                           *)
Cancel ==
    /\ open /\ ~cancelled
    /\ cancelled' = TRUE
    /\ UNCHANGED <<mode, parallel, batchVars, userVars>>

(* Ctrl+C in the terminal aborts the agent's task, at an await.            *)
Abort ==
    /\ open
    /\ tasks' = [i \in 1 .. Len(tasks) |->
                   CASE tasks[i].stage \in {"ready", "running"} -> [tasks[i] EXCEPT !.stage = "dropped"]
                     [] tasks[i].stage = "half" -> [tasks[i] EXCEPT !.stage = "cut"]
                     [] OTHER -> tasks[i]]
    /\ open' = FALSE /\ phase' = "idle" /\ cancelled' = TRUE
    /\ aborted' = (aborted \/ phase = "running")
    /\ UNCHANGED <<mode, parallel, batch, reported, calls, userVars>>

Preflight ==
    Refuse \/ RefuseRepeat \/ Accept \/ Ask
      \/ AnswerYes \/ AnswerNo \/ AnswerAlways \/ AnswerDirectory \/ NoAnswer \/ StartTools

Next ==
    \/ NewPrompt \/ QueuedPrompt \/ EndRun \/ StartBatch \/ Preflight
    \/ \E i \in 1 .. MaxCalls :
          Begin(i) \/ Finish(i) \/ WriteFirst(i) \/ WriteSecond(i) \/ Interrupt(i)
    \/ Collect \/ Cancel \/ Abort

(* The batch is polled, a prompt times out, an edit comes to its end and   *)
(* the flag is polled.  Nothing is assumed of other tools.                 *)
Fairness ==
    /\ WF_vars(Preflight) /\ WF_vars(Collect)
    /\ \A i \in 1 .. MaxCalls :
          /\ WF_vars(Begin(i)) /\ WF_vars(Interrupt(i))
          /\ WF_vars((WriteFirst(i) \/ WriteSecond(i) \/ (Finish(i) /\ tasks[i].action \in Edits)))

Spec == Init /\ [][Next]_vars /\ Fairness

-----------------------------------------------------------------------------
Started(i) == tasks[i].stage \in {"running", "half", "ok", "error", "torn", "cut"}

(* A call that may change something runs after every earlier call of the   *)
(* batch and before every later one, so that each read sees the edits and  *)
(* commands before it in the reply and none after it, failures and         *)
(* cancellation included (the barriers of execute_tool_batch).             *)
Scheduled ==
    \A i, j \in DOMAIN tasks :
       i < j /\ Executable(i) /\ Started(j) /\ ~(parallel /\ IsRead(i) /\ IsRead(j)) => Over(i)

(* Each named call gets its own outcome, in the provider's order, however  *)
(* refused, executed, interrupted and skipped calls are mixed              *)
(* (collect_ordered_outcomes).                                             *)
OutcomesPaired == \A i \in DOMAIN reported : reported[i] = i

(* What the user denied has no effect until the next prompt, unless an     *)
(* earlier call of the same batch was already accepted: neither a repeated *)
(* call, nor `always` for the tool, nor a later batch brings it back       *)
(* (denied_tool_actions).                                                  *)
DeniedHasNoEffect ==
    \A j \in DOMAIN tasks :
       phase # "idle" /\ Started(j) /\ tasks[j].action \in recent
         => \E i \in j + 1 .. Len(tasks) : tasks[i] = [action |-> tasks[j].action, stage |-> "denied"]

(* A cancellation stops no edit between its files (run_tool_unless_-       *)
(* cancelled and the select of execute_tool_with_hooks_internal); only the *)
(* abort of the whole task does.                                           *)
EditsWhole == (\E i \in DOMAIN tasks : tasks[i].stage = "cut") => aborted

(* A cancelled batch comes to its end, whatever reads and commands do and  *)
(* however many questions are left to time out.                            *)
CancelledBatchEnds == cancelled /\ phase # "idle" ~> phase = "idle"
=============================================================================
