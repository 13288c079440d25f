# TLA+ models of sned

sned is a coding agent for the terminal: a session takes the user's prompts, an
agent loop turns each into requests to a language-model provider, executes the
tools the model asks for, and records a conversation that survives restarts.
This directory holds TLA+ modules translated from its source, TLC
configurations that check them on small instances, and TLAPS proofs of the
properties that matter most. `PROJECT.json` ties every definition to the lines
it models, every run to its properties, and every hazard to what covers it.

Paths below are relative to `src/src/`; `A` is `core/agent_loop.rs`, `C` is
`core/context/context_manager.rs`.

## Reading and running

    tlc -config MCToolBatch.cfg MCToolBatch      # model-check an instance
    tlapm ToolProofs.tla                         # check the proofs

| module | what it is |
|---|---|
| `MessageQueue` | queue of follow-up prompts and the markers of retries |
| `MessageQueueProofs` | its theorems |
| `AgentSession` | terminal loop, agent tasks, cancellation cleanups |
| `AgentSessionProofs` | its theorems |
| `ProviderStream` | request phase of a turn: attempts, pump, accumulator |
| `AnswerStream` | what that phase promises (abstract specification) |
| `ProviderStreamProofs` | its theorems |
| `Conversation` | history, truncation, request, persistence, restart |
| `ConversationProofs` | its theorems |
| `ToolBatch` | the tool calls of a reply |
| `FileTransaction` | the writing tools from their guards to the last write or undo |
| `FileTransactionProofs` | its theorems |
| `AnchorStore` | the anchors of one file: memory, shard, edits, other writers |
| `StateManager` | settings, secrets and task history, saved by several processes |
| `StateManagerProofs` | its theorems |
| `ChildProcesses` | commands, scripts and subagents, and what may stop them |
| `ToolProofs` | the theorems of `ToolBatch`, `ChildProcesses` and `AnchorStore` |
| `Approval` | questions before a tool runs: slot, responder, panel, keys |
| `ApprovalProofs` | its theorems |
| `MC*` | instances for TLC, and statements of comments the model refutes |

## 1. Inventory

### How the parts interact

    terminal loop --prompt, /retry, Ctrl+C--> agent task --request--> provider
      (interactive)                            (agent loop) <--chunks-- pump task
         |  busy flag, completion permit,          |
         |  task slot, message queue               +-- tool batch --> approval --> terminal
         +-- cleanup task (after Ctrl+C)           +-- history --> context manager --> next request
                                                   +-- history, range, summary --> disk

Everything runs on tokio. The terminal loop, each agent task, each cleanup and
each stream pump is a task of its own; they share `AgentLoop` behind one async
mutex, and beside it the atomics `agent_busy`, `cancellation_pending` and
`cancelled`, the `Notify` of completion, the slot of the current task's handle,
and the queue with its own two locks. An aborted task ends at its next await.
Approval prompts run on a blocking thread. Several sned processes may share a
workspace; they meet in the files under the storage directory.

### Components

For each: its state; its operations; what is hard; what makes it correct.

1. **Message queue** (A 540-720, 1902-2010, 5214-5340). State: the queue, the
   set of retry markers, the id counter, under two locks. Operations: enqueue,
   prepend, prepend a retry (mark, then push), pop and look up, clear. Hard: the
   two locks, overflow at either end. Correct: a retry is recognised as one and
   nothing else is; no message vanishes or runs twice; the queue drains.
2. **Interactive session** (`cli/interactive.rs`, A 1553-2140). State: admission
   flags, permit, slot, tasks and cleanups, queue, retryable request.
   Operations: submit idle or busy, /retry, Ctrl+C, approval keys, completion,
   cleanup, run and turns. Hard: completion racing cancellation racing the next
   prompt; a task dropped at any await. Correct: one live task; no prompt lost;
   cancellation always ends.
3. **Provider request and stream** (A 2640-3420, `core/provider_retry.rs`,
   `core/agent_stream.rs`). State: attempt, connection tries, channel, errors
   collected, budget. Hard: retry after partial output, silent or broken
   streams, an orphaned pump. Correct: accepted output is whole; nothing is
   shown twice; cancellation and silence end the turn.
4. **Agent turn and conversation history** (A 2140-2640, 3420-5210; `C`;
   `handlers/condense.rs`). State: messages, hidden range, summary, saves.
   Hard: interruption between a call and its result, truncation, crashes between
   saves. Correct: every request pairs calls and results; the task stays; a
   crash loses a bounded amount.
5. **Tool batch execution** (`core/tools/execution.rs`, `core/tools/mod.rs`).
   State: per-call stage, denials, approvals. Hard: reads side by side, barriers,
   cancellation inside an edit. Correct: order, pairing, denials, whole edits.
6. **Approval** (`core/approval.rs`). State: the one prompt slot, responder,
   remembered approvals, per-path settings, command safety rules. Hard: a prompt
   whose asker is gone; timeouts. Correct: one prompt at a time, each answer goes
   to its question, the slot is always freed.
7. **Cancellation and shutdown** (`core/cancellation.rs`). State: abort handles,
   signal counters, process groups. Hard: a second signal during shutdown.
   Correct: children die with their run; the terminal is restored.
8. **File editing** (`core/file_editor.rs`, `core/hash_utils.rs`,
   `core/edit_batch.rs`, `handlers/edit_file.rs`, `write_to_file.rs`,
   `replace_symbol.rs`, `rename_symbol.rs`). State: an anchor per line, in memory
   and in a shard per task on disk; must-reread marks; content cache; file locks.
   Hard: files that change underneath, several processes, several files in one
   edit, rollback. Correct: an edit changes the line whose anchor was shown;
   an anchor never moves to another line; an edit is all or nothing.
9. **Reading tools** (`handlers/read_file.rs`, `list_files.rs`,
   `search_files.rs`, `find_symbol_references.rs`, ...). State: coverage of what
   was read. Mostly sequential.
10. **Command execution** (`handlers/execute_command.rs`,
    `core/process_output.rs`). State: child, output buffers, timers. Hard:
    output racing exit, timeout and cancellation. Correct: no output lost up to
    the cap, no child left.
11. **Subagents** (`handlers/use_subagents.rs`). State: children with their own
    loops, a concurrency limit, shared cancellation. Correct: each result
    belongs to its task; all end when the parent does.
12. **Conversation tools** (`ask_followup_question.rs`,
    `attempt_completion.rs`, `plan_mode_respond.rs`, `error_guidance.rs`).
    Decide how a turn ends.
13. **Hooks** (`core/hooks.rs`). External processes before and after tools, with
    a timeout. Correct: a hanging hook holds nothing for ever.
14. **Checkpoints** (`core/checkpoints.rs`, `core/shadow_git.rs`). State: a shadow
    git repository, its index lock. Hard: a crash with the lock held, two
    processes. Correct: a restore gives back the files as they were.
15. **Plan state** (`core/plan_state.rs`). State: steps and the current one.
    Correct: steps advance once, a failed step pauses the plan.
16. **Context preparation** (`core/context/trackers.rs`,
    `context_loader.rs`, ...). File tracker and token estimates.
17. **Storage** (`storage/*`). State: caches, pending generations, history
    operations, task directories. Hard: a crash in the middle of a write, two
    processes, a change during a save. Correct: a save loses no later change.
18. **Providers** (`providers/*`). Wire formats. Environment of component 3.
19. **Symbol services** (`services/*`). An index over SQLite and tree-sitter.
20. **Terminal rendering and commands** (`cli/tui/*`, `cli/slash_commands.rs`,
    `cli/output.rs`). Layout and parsing.
21. **Command line** (`main.rs`, `cli/mod.rs`, `cli/subcommands.rs`). Wiring.
22. **Workspace, mentions and file search**. Path and text functions.
23. **Protocol definitions, benches, scripts and tests**. No run-time state.

1 and 3 are modelled whole; 2, 4 to 8, 10, 11 and 17 in the parts named below;
the others are not modelled yet or, from 18 on, are pure I/O, parsing, wiring or
queries.

## 2. Plan

| step | modules | state |
|---|---|---|
| 1 | `MessageQueue`, `MessageQueueProofs` | done |
| 2 | `AgentSession`, `AgentSessionProofs` (composes 1 abstractly: a flag for the marker) | done |
| 3 | `ProviderStream` refining `AnswerStream`, `ProviderStreamProofs` | done, refinement proved |
| 4 | `Conversation`, `ConversationProofs` | done |
| 5 | `ToolBatch`, `ToolProofs` | done |
| 6 | `FileTransaction`, `FileTransactionProofs`: several files, guards, locks, rollback, other writers | done |
| 7 | `AnchorStore`, `ToolProofs`: anchors of one file, memory and shard, two managers, eviction, restart | done |
| 8 | `StateManager`, `StateManagerProofs`: pending keys and operations, two locks, failures, crash | done |
| 9 | `ChildProcesses`, `ToolProofs`: groups, signals, timeouts, dropped calls, subagents, cleanups | done |
| 10 | `Approval`, `ApprovalProofs`: slot, responder, timeout, panel, frames and keys | done |
| 11 | `Checkpoints`: commit, restore, index lock, crash | planned |
| 12 | `Hooks`, `PlanState`, a second signal | planned |

Abstract specifications worth stating: a serial batch that `ToolBatch`
implements; a durable map for `StateManager`; an all-or-nothing edit for
`FileTransaction`. Compositions: `Conversation` with `ToolBatch`, so that a
batch's outcomes become the results message; `ToolBatch` with `Approval`, whose
answers are choices of the former; `FileTransaction` with
`AnchorStore`, which today meet in a choice each makes (what validation says,
what the text becomes).


## 3. What the modules model

### MessageQueue

| TLA+ | code |
|---|---|
| `queue`, `retryIds`, `counter` | `message_queue`, `retry_message_ids`, `message_counter` |
| `pending[h]`, `popped`, `clearing[c]` | a caller between its two lock sections |
| `EnqueueText`, `PrependText` | `MessageQueueHandle::enqueue_message`, `prepend_text_message` |
| `PrependRetryMark`, `PrependRetryPush` | the two halves of `prepend_retry_message` |
| `run`; `BeginRun`, `ReachTop`, `TurnBegins`, `TurnContinues`, `TurnCompletes`, `RunCompletes`, `RunStops`, `RunAborted` | where `run()` is: before the top of its loop, at it, in a turn, at the last look of its Complete branch, or over; how it gets there and how it ends |
| `Pop`, `LookupRetry` | the two pops of `run()`, at the top and in the Complete branch, and the marker lookup |
| `ClearMarkers`, `ClearMessages` | `clear_queue` |
| `started`, `lost`, `wiped` | history variables: what was begun, overflowed, unmarked |

An operation that takes both locks one after the other is two steps. The pushes
drop from the front or from the back as the code does. A run looks at the queue at
the top of its loop and, when its turn completed, once more before it returns; it
may also end on an error, a cancellation or the limit of turns, with messages
queued, or be dropped at any await, with the message it just popped. Nobody pops
until the next run begins. `clear_queue` and
`prepend_text_message` have no caller in production code today; they are part
of the protocol all the same.

### AgentSession

The terminal (`tuiPc`, `tuiMsg`, `busy`, `permit`, `cancelPending`, `slot`), the
cleanups (`cleanup[c]`), the agent tasks (`pc[t]`, `job[t]`, `turns[t]`,
`aborting`), and what the loop's mutex guards (`holder`, `queue`, `history`,
`retryable`, `candidate`, `retryMode`). `SubmitWhenIdle`, `SubmitWhileBusy`,
`RetryCommand` to `RetryWhenIdle`, `CtrlC`, `AnswerApproval` and
`CheckCompletion` are branches of the terminal's select loop; a command that
awaits a lock is more than one step. `CleanupTake`, `CleanupFlags` and
`CleanupPublish` are `request_agent_cancel`'s spawned task at its awaits.
`BeginRun` to `NotifyDone` are `run_agent_task` and `run`; a turn has one action
per outcome of `execute_turn`. `AbortTakesEffect` is the drop of an aborted task
at any await, with what its guards do. Only `job[t].retry` stands for the marker
that `MessageQueue` is about. The queue has its limit (`MaxQueue`): a prompt queued
by `SubmitWhileBusy` pushes the oldest out of a full queue, a retry pushed to the
front by `RetryPush` pushes out the last (A 456-459, 599-606). What is pushed out is
in `lost`, as is what was cancelled unstarted or rolled back.

Left out: quitting, /new and the other slash commands, plan pause, hooks, the
context loader, mention expansion, rendering.

### ProviderStream and AnswerStream

`at` is where `execute_turn` is: `BeginAttempt`, `OpenStream`, `Connected`,
`ConnectFails`, `BackoffOver` for `create_message_with_retry`; `PumpReads`,
`PumpSends`, `PumpLosesReceiver`, `PumpSeesCancellation`, `StreamEnds` for the
spawned pump; `Receive`, `ReceiveCancelled`, `ChannelCloses`, `DeadlinePasses`
for the consuming loop; `FinishAttempt` for the retry decision. The pump is a
process of its own: it holds one chunk while the channel is full and outlives
an aborted turn; `NextRun` resets the flag under its feet, as `run()` does.
`got` is what the accumulator took, `kept` the output it keeps of that;
`failure` is its bookkeeping of errors before any output, before
visible output, and after it; whether output counts as shown depends on the
mode (terminal, headless, JSON). A chunk is its position in what the provider
sent, and its kind. In the terminal and headless the accumulator's filter of thinking
tags holds back text that could begin a tag (`heldBack`): `Released` and `HoldsAfter`
say what a chunk brings to the screen, and `Flush` is `finish()` at the end of every
attempt (A 3237-3240), which shows that text before the retry decision and without
counting it as visible output. Such text is a chunk of its own kind, "tail". Time is `spent`, in ticks of the pre-output budget.
`TaskAborted` is Ctrl+C in the terminal, `Cancel` the flag alone.

The provider may send any chunk, fail to connect or stay silent, but sends
nothing after a transport error: that is how the stream parsers in
`providers/openai.rs`, `anthropic.rs` and `gemini.rs` return.

`AnswerStream` is the view of the user: output only grows; an answer is begun again
only when nothing of it was shown but a leftover of the filter; and the accepted
answer is what was shown since it was begun. The refinement maps `answer` to what the
attempt keeps, `Leftover` to the tail, and `begun` to what was shown before this attempt.

### Conversation

| TLA+ | code |
|---|---|
| `history`, `cut`, `summary` | `conversation_history`, `conversation_history_deleted_range` (`cut` is the position, counted from 1, of the last hidden message; 2 when none is), the condense summary |
| `request` | what the turn sends |
| `saved`, `sinceSave` | the files and history item on disk; `turns_since_save` |
| `CloseDangling` | `close_dangling_tool_calls` |
| `ToRemove`, `NextCut` | `get_next_truncation_range` |
| `Repair`, `StripResults` | `ensure_tool_results_follow_tool_use`, the strip after a cut |
| `KeepFrom`, `Prune` | `keep_from_preserving_tool_pairs`, `prune_conversation_history` |
| `Prepare` | closing, truncating, repairing and pruning at the top of a turn |
| `EmergencyTruncate`, `EmergencyFails` | the shrinking tail after a context-window error |
| `Reply*`, `FinishTools`, `ToolsFail`, `Condense` | a turn's reply and its tools |
| `RequestFails`, `RequestCancelled`, `Aborted` | a turn that ends early, with rollback where the code rolls back |
| `Undo`, `ClearSummary`, `Restart` | /undo, /reset-compact, a crash and reading back |

Sizes are abstracted: once there is a reply, whether the last usage was under,
over or far over the limit is the environment's choice. A message keeps its
author, the calls it makes and the calls it answers. Not modelled: collapsing
the content of old results and thinking, usage kept on disk, failing writes,
profiles; the texts the loop adds for itself are "notes".

### ToolBatch

`Refuse`, `RefuseRepeat`, `Accept`, `Ask` and the answers are `prepare_tool_call`
for each call in turn: validation, repeated denial, automatic approval by mode,
`always`, safety and workspace, and the question. `Begin`, `Finish`,
`WriteFirst`, `WriteSecond`, `Interrupt` are executed calls; `Reached` is the
scheduling of `execute_tool_batch`: reads in a row share the concurrency limit,
every other call is a barrier. `Collect` deals outcomes to calls by position as
`collect_ordered_outcomes` does. `Cancel` sets the flag; `Abort` drops the task
wherever it is. `denied`, `always`, `grants` outlive the batch as in
`agent_types.rs` and `approval.rs`; `recent` and `aborted` are history variables.

An action is a tool with its parameters; an edit writes two files; a reply's
nameless calls, which are skipped before preflight, are left out, as are
subagents' default-deny, missing approval managers, per-path settings and
patterns, hooks' texts and statistics. `Commands` are those of execute_command;
"always" for one approves the commands of the same scopes as well, any set of them in
the model. Other tools that run alone, and never ask, act as a command that
needs no prompt.

### FileTransaction

Every writing tool is a job: `edit` (edit_file with anchors, several files),
`range` (with a revision, one file), `symbol` (replace_symbol, rename_symbol) and
`write`. They run in one process or two.

| TLA+ | code |
|---|---|
| `job[j].held`, `NextGuard`, `TakeGuard` | `lock_file_paths`: sorted, one guard after the other, held for the handler |
| `ReadFile`, `SkipFile`, `Refuse`, `Approve`, `Deny`, `Invalid` | phases 1 and 2: what is read is compared later; a file that does not resolve is left out; the question; validation of anchors |
| `Open`, `TryLock`, `Check`, `Rename`, `Verify`, `Publish` | the write phase of edit_file; the other tools have part of it |
| `UndoFrom`, `Compare`, `Restore`, `CannotRestore` | `rollback_written_files`, `rollback_symbol_writes` |
| `Drop`, `orphans`, `OrphanRename` | a future dropped at an await, and the rename it had handed to the blocking pool |
| `disk[f].whole`, `Arrive` | the last piece of an asynchronous write |
| `Kill`, `OutsideWrite` | a killed process, another program |

A lock is held on an inode, a rename replaces the inode: `disk[f].node` is the
inode and stands for the mtime as well. Rollbacks, symbol tools, `write` and
`range` take no lock of the operating system, as in the code. `write` is meant
to replace whatever is there, so it loses nothing; `lost`, `log` and `writers`
are history variables. Left out: what an edit does to the text, how anchors
resolve (that is `AnchorStore`), diagnostics, files that are created.

### AnchorStore

One file of one task. A line is a text and a ghost number that never changes, so
that the model can say which line an anchor was shown for. More history variables say what
the properties need: `added` and `removed` the texts of which a line came or went,
`lines` how many lines there were, `minted` how far each namespace's counter got in the
shard, `rolledBack` whether an older version came back after a later one. (Names of the
module begin with `Anchor` where another module that `ToolProofs` extends has the like.)

| TLA+ | code |
|---|---|
| `durable`, `mem[m]` | the document in the task's shard; `tasks[task][path]` of each manager |
| `decoded[m]`, `View`, `Misled` | `durable_shards`, through which `read_task_documents_cached` reads the shard: right, or the documents of the shard before it |
| `Replaced`, `Written` | a shard is renamed into place; a manager that had read the old one asks only then for the time and length of the file |
| `Document`, `Minted`, `NewSpace` | generation, texts, identities, namespace and counter of a `TrackedDocument` |
| `Reconcile` and its cases | `reconcile_checked`: adopted, too long, unchanged, first seen, aligned by a diff |
| `CanPublish`, `Publish`, `Republish` | `publish_reconciled_document`, `republish_document` |
| `Observe`, `Resolves`, `Transition`, `Validate`, `Commit` | edit_file: `observe_snapshot`, `resolve_anchor_with_hint`, `stage_transition`, `check_transitions` |
| `WriteFile`, `RangeEdit`, `WriteEdit`, `Outside` | the writers of the file |
| `Evict`, `Forget`, `Reset`, `Restart` | the shard leaves the cache of 50 tasks, memory is dropped, /new, a new process |
| `OtherPublishes` | the shard changes for another file of the task |

The diff is any longest common subsequence, so that the model allows what the
library's diff may choose. Files longer than `MaxTracked` get identities from a
digest of all lines.

Every read of the shard goes through the decode cache. It reads the file (file_editor
775) and asks for its time and length after (779), and `reconcile_checked` and
`observe_snapshot` do so without the lock of the anchor cache (2017-2022, 1397): a shard
that another process replaces in between leaves the old documents cached under the
new file's identity. From then on, until the shard is replaced once more, this manager
takes them for what the shard holds, also where it compares under the lock (1685, 1795).

`RightLine` makes two exceptions. A text of which lines were added *and* removed: the
new line says what the old one said, and a diff cannot tell them apart. And a shard
that got back an older version, or one that does not come of what it had
(`rolledBack`): after it was emptied, from a manager that remembered the
version before a later one (`Republish`); or from a manager whose cached decode was
an old one (`Written`). In both its counter goes over the same numbers again, and an
identity may be minted a second time (section 6). `GenerationsGrow` excepts the writes
of such a misled manager, and nothing else.

Left out: must-reread marks, retired anchors, the migration of old caches, two reads
side by side in one manager, a read that lasts over two replacements, and a
replaced shard of the same time and length as the one before.

### StateManager

`memory[m]` is a process's copy of everything, `disk` the settings file and the
secrets' store; `pending[m]` the keys marked with their generation, `history[m]`
the operations on the task history. A worker (a turn, the terminal, a
subcommand) changes memory (`Change`), notes an operation (`Record`), marks the
key (`Mark`) and persists. `saving[m]` is the persist that holds `persist_lock`;
its steps from `TakeDiskLock` over `SnapshotKeys`, `SnapshotOps`, `Load`, `Write`
and `ClearKeys` to `StoreSecret` and `ClearSecrets` are `persist`'s, between which
other workers go on. `Fail`, `Abandon` and `Crash` are an error of any of them, a
caller that stops waiting for the blocking task, and the end of the process;
`Start` is `initialize`.

`OneKindAssumption`: settings are set only by `sned config` and `sned auth`
(`cli/subcommands.rs` 340, 841-859), tasks are recorded only by agents (A 1525,
2464). With both in one process the snapshot of keys, taken before that of
operations, could clear a task's marker too early; nothing does that today.
`OneCallerAssumption`: in a process an item has one worker at a time, because an
agent's turns follow each other and are dropped only at an await, and the terminal
waits for its persist. `NamesAssumption`: settings, secrets, tasks and the
history's own key have different names, since they are kept in
different maps (`pending_global_keys`, `pending_secrets`, the history's items).

A write takes nothing away from another process, but for a task that both record. An operation carries the item as its process had it, so the later
*writer* of a task wins, not the later change; and an older item brought so may
then fall to the limit. `OthersKept` says exactly this: what a write changes comes
from its own snapshots, and what it cuts is the file's item, or the one it brings,
with `Limit` newer ones beside it.

A compaction records its task again under the time it had (A 2448-2464), where the
model takes every change for the newest; it could fall to the limit sooner.

Left out: removing and replacing history items and the workspace's state, which
have no caller outside of tests; repair of corrupt files, migration, orphan
sweeps; the lock of the directory is one even where `flock` does nothing.

### ChildProcesses

`at[c]` is where a child's runner is: `Spawn`, `Register`, `Exited`, `WaitFails`,
`TimesOut`, `SeesCancel`, `StopTerm`, `StopKill`, `StopReap`, `Drained`, `Restop`,
`Unregister` are `execute_command`'s loop for a command, `execute_script_with_timeout`
and `run_subagent`, which differ in where a stage leads. `leader[c]` and
`helper[c]` are the process and one it leaves behind: in its group with or without
its pipes, or in a session of its own. `pids` is `running_command_pids`. `run` and
`flag` are the agent's task and the cancellation flag; `DropOnFlag` is the race of
`execute_tool_with_hooks_internal` against the flag, which drops a handler within
50 ms, also in the middle of its own stop; `AbortTask`, `CtrlC`, `DropTask`, `Take`,
`KillNext`, `KillGrace`, `KillsDone` are `abort_task` and the terminal's cleanup. A
dropped call's child is not killed (no `kill_on_drop`). A poll that is under way
when the task is aborted goes on to its next await, so a child may be listed after
the cleanup took the list.

An array of commands is a sequence of calls. Left out: output and its condensation,
safety checks, the sandbox, systems without process groups, forced exit, and the
reuse of PIDs: the comment of `terminate_process_group` (`core/cancellation.rs` 44-45)
says that looking at the group again avoids signalling a reused one, which is likely
but nothing a model could show.

### Approval

| TLA+ | code |
|---|---|
| `run`, `aborted`, `Unwind` | the agent's task, and its drop where it awaits after an abort |
| `way[r]` | a tool's prompt, whole on a blocking thread; the combined prompt of edit_file, which leaves only its wait to one |
| `step[r]`, `slot`, `result[r]` | the stages of a prompt, `ApprovalPromptGuard`, what the receiver was left with |
| `inbox[r]` | the channel of the request's responder |
| `lane` | the approval lane of `ChannelOutputWriter` |
| `panel`, `drawn` | `App::pending_approval` and its `rendered` |
| `screen`, `desynced` | the last frame that reached the terminal; `terminal_desynced` |
| `tui`, `entered` | the loop: drain, draw, read keys; the line that Enter submitted, its dispatch; `stuck` while /retry waits for the agent's mutex |

A thread goes on when its asker is dropped: it holds the slot until it is answered
or 300 s pass. The combined prompt's guard goes with the task, but nobody reports
its end. `DrawFrame`, `LoseFrame` and `SkipFrame` are `draw_tui_frame` and the
decision to draw; the flag of a panel is set while it is laid out, so that a frame
lost in its flush leaves it set. A key is what the loop reads next; it may have
been typed before the frame that is on the screen, and the model does not tell
when. With no panel up, `CancelRun` and `Enter` reach the agent. Enter drains the lane and
draws before its line is looked at (`drain_and_render_user_submit`, interactive
2468-2491), so that a panel may be up by the time `Submit`, `NotNow`, `Retry` or `FreshTask`
is dispatched: /new denies it, a prompt starts its run beside it, and with /retry waiting for
the mutex it stays until the run ends. The second drain of a prompt that starts a run is
not told apart from the first. Left out: scrolling, the choices beyond yes and no
(their effect is `ToolBatch`'s), per-path settings and remembered patterns, safety
rules of commands, follow-up questions, a standard input that is no terminal.

## 4. Runs

All runs are exhaustive over their instance.

| run | instance | shows |
|---|---|---|
| `queue` | 2 handles, 1 clearer, limit 2, 4 messages | retries are recognised through overflow and clear; conservation; no run completes over a waiting message |
| `session` | 2 texts, 2 tasks, 4 prompts, 2 retries, 2 turns, limit 2 | one task; a prompt is lost only to the queue's limit or a rollback |
| `session_cancel` | 2 tasks, 2 cleanups, 2 prompts, limit 1 | cancelling and being busy end |
| `stream` | 2 attempts, 2 connections each, channel of 1, budget of 2, 3 chunks | whole answers, orphans, liveness, refinement: nothing twice but a tail |
| `conversation` | keep 4, buffer 1, save every 2, 2 prompts, 2 replies, 2 calls, 1 note, 1 crash, 1 undo | pairing, bounded loss, truncation progress |
| `tools` | a read, an edit, a command; 2 at once, 3 calls, 2 prompts | order, pairing, denials, edits, cancelled batches end |
| `files` | 2 files, 2 jobs, 2 calls, 1 fault | no lost update between guarded or locked writers, nothing kept of a failed call, no circle of waits |
| `anchors` | 2 managers, 2 texts, 3 lines of which 2 tracked, 2 calls, 1 fault | an anchor leads to its line or nowhere; publications are undone only by a misled manager |
| `storage` | 3 processes, 4 workers, a setting, a key, 2 tasks, history of 1, 2 changes, 2 faults | no change is forgotten, Ok means saved, other processes' changes stay |
| `children` | 2 children, 2 runs, 2 cancellations | what was stopped is gone, what a dropped call leaves is listed, no runner hangs |
| `approval` | 2 calls, 4 keys | what is approved was shown; questions do not meet, but for what an aborted run left; prompt and slot come to their end; a panel goes, but for a dropped prompt's and one up while /retry waits |
| `conversation_prompt` | as `conversation` | a disagreement, section 6 |

### Bounds, and why they are enough

*queue*: the limit is 1000 in the code (`message_queue_max_len`). With two
places and four messages both ends overflow, also while a retry is between its
steps. Runs follow each other without a bound. Two handles give every interleaving of two retries. The theorems drop
the bounds.

*session*: a hazard needs a task that ends and the next one, and a full queue at either
end, which a limit of two (1000 in the code) and four prompts give: one that runs, two that
wait and one that pushes out, and a retry against a full queue; a text typed twice distinguishes texts from prompts, which matters
as the code compares texts. `session` has no cleanups: with them and a retry
`PromptsAccounted` fails (section 6), and `session_cancel` asks of the other
part only what survives. Turns are bounded by two (`max_turns`): one that
continues and one that stops.

*stream*: the channel of one fills (10 000 in the code), so that the pump waits
and is orphaned with a chunk in hand; three chunks allow output, an error and
more; two attempts and two connections allow a retry of each kind and its last.

*conversation*: the constants are small (keep 4 for `2 * max_context_turns`,
buffer 1 for 10, save every 2 for 5) so that histories of up to a dozen messages
reach truncation, the prune limit, the emergency's tail and a due save, in any
order, with a crash, an undo and a note among them.

*tools*: the denial of one call, its repetition in a later batch and a third
call in between fit in three calls; two prompts let a denial outlive its prompt.
One action of each kind suffices since a kind's actions differ in nothing but
their identity; order, pairing, denials and edits are proved for any number.

*files*: two jobs and two files give each pair of steps of two calls, in one
process and in two, both orders of listing, and a rollback over one file with the
other call in between; the one fault is an outsider's write, an abort, a kill or a
write renamed before its data. `Fsync` is FALSE, the default of `SNED_FSYNC`.

*anchors*: two lines of the same text and one more are the ambiguous case of the
diff; a third line takes the file over the tracked length and back. Two calls let
one manager publish between another's read and publication; one fault is an
eviction, a restart, a reset, a change from outside, or a replacement of the shard in
the middle of a read. Managers and texts are
interchangeable, so the symmetry is sound: nothing but equality is asked of them,
and the run has no liveness.

*storage*: a generation matters when a change comes while a persist writes an
older one of the same key, or of another; two changes, two workers of one process
and a process beside it suffice. The history keeps one item so that a second drops it.

*children*: two children are a child of the first run and one of the second, or two
subagents of a call; two cancellations are a signal and a Ctrl+C, or one in each run.

*approval*: two calls are two of one run, or one that a cancelled run left behind and
the next run's; four keys are enough for a prompt, its cancellation, the next prompt
and a decision; an entered line is one key. Frames are lost or skipped at every turn of the loop, without a bound.

`CHECK_DEADLOCK FALSE` throughout, but for *queue*, whose runs go on: users may stop typing,
and every counter of the user's actions is bounded.

### Fairness

- *queue*: a run that stands at one of its two looks at the queue goes on: it pops, begins
  the turn, or completes; a handle goes from its first lock section to its second, with no await
  on anything else between them. A turn need not end, nobody need
  pause or resume anything, a run may stop with messages queued, and no run need ever begin: `QueuedIsServed`
  is about messages queued while a run goes on, and says what can keep them
  waiting. That a stopped or completed run may leave one for the next
  prompt is `NoStrandedPrompt`, section 6.
- *session*: the tasks are scheduled by tokio; a turn ends (strongly fair: an
  approval prompt suspends it again and again) because requests and approvals
  carry timeouts; an aborted task reaches an await. Users owe nothing.
- *stream*: the turn and the pump are scheduled and time passes. The provider
  owes nothing, not even an end: this is why `TurnEnds` claims nothing of silence
  after the first chunk, where the code waits without a timeout of its own.
- *tools*: the batch is polled, a question times out (300 s), an edit ends, the
  flag is polled. Reads and commands may hang for ever.
- *files*: the runtime polls each job (stated in `Spec`); the run asks for
  `NoCircularWait`, that some job can go on, rather than for termination.
- *approval*: a prompt's thread runs and its 300 s pass; the task is polled when its
  prompt is over; the terminal's loop turns. Nobody has to answer, a run need not
  end, no frame has to be drawn, so that `Settles` rests on the timeout alone. A panel that is
  up while /retry waits for the mutex is excepted for that reason: the run owes no end.
- *conversation*, *anchors*, *storage*, *children*: no liveness. Turns are driven
  from outside, and processes owe nothing. That no runner of `ChildProcesses` hangs is
  the invariant `NeverStuck`: it can always take a step of its own, and its stages
  form no cycle but through a script's second drain, which `NeverStuck` excepts.

## 5. Proofs

TLAPS proves these for every value of the constants that satisfies the modules'
assumptions. These only give the constants their sorts (`MaxLenAssumption`: at
least one place; `BatchConstants`: the kinds are disjoint, external and unsafe
actions are of their kinds, positive concurrency; `FileConstants`: files and jobs
are finite sets of numbers; `StreamBounds`: a channel has a place, the budget is
positive; `NamesAssumption`: different things have different names; the other
bounds are natural numbers and a null value is none of them), but for two that
restrict what a process does, `OneKindAssumption` and `OneCallerAssumption` of
`StateManager`, for which section 3 gives the code's reasons. The bounds on
prompts, calls, keys, faults and the like are arbitrary, so what is proved holds of
behaviours of every length.

**MessageQueueProofs.** `TypeCorrect`: `TypeOK`, which includes that the queue
never exceeds its limit. `RetriesRecognised`: `RetryRecognised` is about messages
that have started; it is not inductive alone, since whether a message *will* be
recognised depends on the marker set while it waits. `MarkerInv` is
`TypeOK /\ MarkersAreRetries /\ RetryRecognised`, where `MarkersAreRetries` says
for each place a message can be (queued, marked and not yet pushed, popped and
not yet looked up) that it has a marker exactly when it is a retry whose mark no
`clear_queue` took, and that no id is at two places. The operator lemmas
(`DropFrontKeepsSuffix`, `DropBackKeepsPrefix`, `OverflowIds`,
`PrependElements`) say what an overflow keeps; `PushKeepsMarks` and
`PushKeepsApart` say that a push disturbs no other message; `MarkerStep` has a
step per action.

`NothingVanishes`: `MessagesConserved`. The inductive invariant is
`MarkerInv /\ Conserved`: the conservation of the ids needs the uniqueness in
`MarkersAreRetries` (`LiveApart`), or a push or a pop could let go of one id and
keep a message that has it; and it needs that a handle and the agent hold one
message at a time, since the push empties `pending[h]` and the lookup empties
`popped`. `DropFrontSplits`, `DropBackSplits`, `PushedIds` and `PoppedSplits` say
that each operation of the VecDeque parts the ids and repeats none; `UniqueCount`
turns that into the count, from the library's theorem on bijections with an
interval. `ConservedStep` has a step per action.

**ToolProofs, of `ToolBatch`.** `TypeInv` adds to `TypeOK` that a question is only open for
a call that exists. `PreparedEffect`, `StageEffect`, `AbortEffect` state once what
a preflight step, a change of stage and an abort do to `tasks`.

- `BarriersHold` (`Scheduled`): inductive with `TypeInv`. `ReachedWaits` turns the
  guard of `Begin` into what `Scheduled` needs of the starting call;
  `ScheduledByStages` carries it over steps that start nothing.
- `OutcomesMatch` (`OutcomesPaired`): at `Collect` every executed call has a
  result, so counting results by position inverts counting executed calls;
  `RankInjective`, from the library's theorems on cardinality, says that two
  positions of a set cannot have the same rank.
- `DenialsHold` (`DeniedHasNoEffect`): `DenialInv` is `RecentDenied` (what was
  denied since the last prompt is in the set that refuses), `AskedNotDenied`
  (nobody is asked about a denied action) and `AcceptedBeforeDenied` (a ready or
  started call of a denied action has its denial *later* in the same batch).
- `CancellationSparesEdits` (`EditsWhole`): `EditInv` adds that only edits are
  half done and that nothing works outside of the running phase.

**AgentSessionProofs.** `TypeInv` is a strengthened `TypeOK` in four parts.

- `OneRunner`, with any cancellations: `LoopOwner` says that the mutex belongs to
  the task that is between `BeginRun` and `Release`, which the guards of the two
  and the drop by `AbortTakesEffect` keep.
- `NoContention` (`OneLiveTask`): `Admission` adds that a task at work means a busy
  flag and no permit, since a permit that outlived its task would let the next
  completion check admit a second one.
- `NoPromptLost` (`PromptsAccounted`): a rolled back or resent message must be one
  that was already recorded, wherever it can be kept: the retryable request, the
  candidate, /retry's hands, the queue, a task's job (`ResendsKnown`); and the loop
  is in retry mode only for a task spawned to retry (`RetryModeOwned`). A push leaves
  each message in the queue or among the dropped, whichever end gives way.

The last two assume `Cleanups = {}`: they are about sessions in which nothing is
cancelled. With a cancellation both properties are false of the code (section 6:
retry mode outlives an aborted run, and the permit of a cancelled task is spent on
the next one), so that no weaker hypothesis is at hand; `session_cancel` checks what
remains true then.

**ProviderStreamProofs.** `Inv` says where the turn is and what may then be open
(`TurnShape`); that accumulator, channel and pump together hold what was sent, in
order (`InOrder`); that the error bookkeeping is true of the chunks taken
(`FailuresTrue`); and that what the user saw last is what this attempt keeps, and that
an attempt about to be repeated keeps nothing or a tail (`ShownIsKept`). `AcceptedAnswerIsWhole` needs the first three: only a drained
channel whose pump ended by itself is accepted, and an error among the chunks
would be in the bookkeeping. `ImplementsAnswerStream` is the refinement: initial
states map to initial states (<1>1), and every step, under `Inv`, to a step of
`AnswerStream` or to a stutter (<1>2); by `ShownIsKept` a repeated attempt is
`BeginAgain`: what is excused is a tail that the filter gave up at the end of a failed
attempt, and nothing longer.

**FileTransactionProofs.** The proof first sums up each action by what it does to
the job that moves, to the log and to each file (`AnyStep`: `JobStep`, `DiskStep`,
`LogStep`, `LostStep`, at most one job moves); each part of the invariant is then
shown to be kept from these summaries alone. Its parts: a job has the guards of
its files from phase to phase and guards of one process are apart (`GuardInv`,
`Apart`); which steps a kind takes (`KindInv`); texts of calls not yet begun are
nowhere (`NoFutureTexts`); where the text of a call at work, or of one that
reported failure, can be (`TextInv`, `NoneLeft`); what an edit wrote and has not
undone is still there (`WrittenInv`); what was compared is still there when the
file is replaced, by the guard in a file one process writes (`ReadyInv`) and by
the inode's lock where all are edits (`LockInv`, `LocksApart`).

- `NoUpdateLost` (`NoLostUpdate`): from `ReadyInv` and `LockInv` at a write, from
  `WrittenInv` and `TextInv` at an undo.
- `ResultsTrue` (`ResultIsTrue`): `NoneLeft` gives that a failed call left
  nothing, `WrittenInv` that a successful one left all.

**ToolProofs, of `ChildProcesses`.** (The names of that module begin with `Process`,
so that one module can extend both.) `NoneSurvives` (`NothingSurvives`): `RunnerInv` says what
became of a child's group by the stage of its runner (a stop leaves nothing of it,
nobody looks at the pipes before the leader was waited for), `StaysListed` that a
live group of a dropped call is in the task's list or in the cleanup's copy.
`CleanupApart` keeps the cleanup from meeting the calls of a later run, which
would let `abort_task` clear what a new call has just listed. `ProcessTypeCorrect`
includes that one call holds the agent.

**ToolProofs, of `AnchorStore`.** `AnchorInv` is inductive and has a part for the file
(`FileOK`), the shard, what the managers remember, the calls under way, the anchor
shown and the counts. It says that documents are good (`GoodDoc`: an identity for
each line, no two the same, all below the counter), that the lines of a text differ
(`Fine`), and that what an edit is about to write follows what it read (`Follows`:
common lines are the same and in the same order). `AlignmentFacts`, `KeptFacts`,
`ReconciledFacts` and `TransitionFacts` say once what a diff and an edit make of a document.
`AnchorsTypeCorrect` (`AnchorTypeOK`) follows.

- `NoLostPublication` (`GenerationsGrow`), an action property: a staged document is of
  the generation after the one it was computed from, and publication demands that
  the shard, as the writer's cache has it, still is that one (`CallFits`, `VersionsInOrder`). A
  writer whose cache is right publishes the next generation (`Supersedes`), any other write
  is one of a misled manager (`MisledWrite`). `ShardOK` has the caches in it (`CachesOK`): what
  is cached is a good document, too.
- `AnchorsLeadToTheirLines` (`RightLine`) has `LinesInv` besides: while nothing was
  rolled back there is a set `H` of contents that the file had, and a function `F` from
  identities to the line each was given to, with which all the state agrees (`LineState`).
  The document in the shard, those cached for it or remembered (`CachedLines`) and the one that a reader is
  about to republish name the lines of some content of `H` as `F` says; so does the
  anchor shown; a document under way does for the identities it kept; its new ones are not
  yet in use, since they are above the counter it was computed from or in a namespace of its
  own, and publication demands the shard it was computed from. `H` stands for
  the past: of a text of which lines did not both come and go, the lines of one of
  any two contents are among the other's, in the same order (`Histories`, `Embeds`). Two of
  them that read the same therefore have the same lines: what maps finitely many
  places to themselves and keeps their order moves none (`OneOrder`, `EmbeddedSame`). This
  is what comparing a reading with remembered *texts* rests on. A change of the
  file adds to `H` (`SwapLines`), a publication extends `F` (`Extension`,
  `PublishLines`), every other step keeps both (`QuietLines`); `LinesStep` has a
  step per action.

**ConversationProofs.** What the sequence operators do is said first, once:
`FlattenPlaces` (where each part of a flattened sequence begins, by the least
counterexample over the partial concatenations), `CloseDanglingSpaced` and
`RepairSpaced` (the two normalisations as a flattening of spaced parts),
`ToRemoveFacts`, `NextCutFacts`, `VisibleIs`, `PruneFacts`, `KeepTailFacts` (what
each cut keeps, and where it comes from).

- `RequestsPaired` (`CallsPaired`) is inductive as `PairInv`: history and what is
  saved of it are `Sound`, a request about to be sent is `Closed`, the one sent is
  `Paired`. `Sound` says that calls are the assistant's and results the user's, no
  call is made twice, a result comes right after its call (`Adjacent`) and then
  with all the others of its message (`Complete`), that a message's calls, and its
  results, are all named or all not, and that names were minted before. Without
  `Complete` and the uniformity a rollback or an undo could leave a message that
  the repair answers for a second time. `GrowSound` and `ClosingSound` keep it while
  the history grows and is closed, `VisibleLinked` over a hidden range, whose
  rounded end never parts a call from its results, `PrunePaired` over the pruned one.
- `LittleIsLost` (`CrashLosesLittle`): `LossInv`, no more results are unsaved than
  turns ended since the save; every action that brings results counts one, or
  saves (`BringsNone`, `WritesAll`, `BringsOne`).
- `HidingProgresses` (`TruncationProgress`), an action property, from `NextCutFacts`.

**StateManagerProofs.** Each action is first summed up by what it does to the one
process that moves and to the files (`OneStep`: `ProcessStep` of one process,
`Same` for the others; `StepEffect`), then each part of `Inv` is shown to be kept:

- `LockInv`: at most one process is past the directory's lock, so the base of a
  merge is still the file when it is replaced; a persist and the worker that waits
  for it know each other.
- `GenerationInv` and `CountInv`: a generation is used once and minted for one change, so
  that a marker which compares equal is the one that was written.
- `OrderInv`: the operations on a task are in the order of their changes, and the
  worker that is between change and marker holds the newest.
- `SnapshotInv` and `ClearInv`: operations that came after the snapshot have later
  generations; what a persist is about to clear is in the files or has been redone
  (`Redone`, `MarkedSince`), since keys are read before operations and values last.
- `PendingInv`: what no file ever had is unmarked in its worker's hands, or pending
  with an operation that brings it. `CallerInv`: what the caller waits for is taken
  along from snapshot to write, or was written by an earlier persist.
- `OneItem` and `AllMade`: a change belongs to one item and no stored change is from
  the future, so tasks of one history differ in their times and the limit can count.

`NothingIsLost` (`NoChangeLost`) follows from `PendingInv`, `OrderInv` and
`WorkerInv`. `TypeCorrect` (`TypeOK`) needs `LimitInv` besides: after a cut no more than
`Limit` tasks are left (`NewestBounded`), for finite and infinite sets of tasks.
`OthersAreKept` (`OthersKept`), an action property: `LockInv` makes the base the
file, `NewestCuts` gives the `Limit` newer tasks that stay.

**ApprovalProofs.** `OnePrompt`: one question of a living run at a time.
`OneQuestion`: questions reach the terminal one at a time, the end of one is in the
lane before the next. `DrawnIsShown`: a panel that takes keys is on the screen,
unless a frame was lost.

- `ApprovedOnScreen` (`DecisionOnScreen`), an action property: the one step that
  approves is a key read by a drawn panel.
- `LeftoverRefuses` (`RefusedOnlyByLeftover`), an action property: by `OnePrompt` and
  `OneQuestion`, whoever holds the slot or the panel when a living run asks was
  left there by a dropped one.

Only model-checked: all liveness under fairness (`QueuedIsServed`, `BecomesIdle`,
`TurnEnds`, `CancelledBatchEnds`, `Settles` and the refinement's), and the invariants
`NoCircularWait` and `NeverStuck`, which speak of `ENABLED`: this prover has neither.
All other properties of the runs that hold are theorems. Not proved either is what a library fold
computes for every input, which takes an induction over data; and no theorem joins the modules.

## 6. Where code and text disagree

The run `conversation_prompt` refutes `NewestPromptSent` against a comment of the
code (C 320): "nothing to remove" still hides the message at index 2, which may be
the newest prompt.

Further statements the models refute, defined but not run; naming one in a copy
of the module's configuration, with the change given, shows a counterexample:

- `NoStrandedPrompt` (`AgentSession`): A 5214 says that a queued message will "be
  queued and processed immediately after the current response completes". The run
  pops for the last time in its Complete branch (A 2009-2135), `agent_busy` stays set
  until the terminal has read the permit (interactive 6772), and a prompt
  submitted in between waits for the next one.
- `OneLiveTask` with a cleanup (`Cleanups = {1}`): "Keep admission closed for the whole
  asynchronous cleanup window" (interactive 2970). A task that finished while it was
  being cancelled leaves a permit that nobody drains; the next task's completion
  check spends it, `agent_busy` is cleared while that task runs, and a further
  prompt starts a second one beside it.
- `LocalCommandsImmediate` (`AgentSession`): "Local commands execute immediately even
  when agent is busy" (interactive 6511); /retry waits (352-355) for the mutex that
  the run holds, and the terminal cannot deliver the approval the run waits for.
- `StartedEditsFinish` (`MCToolBatch`): "an already-started future runs to completion
  so a file transaction is never dropped mid-application" (execution 144) holds for the
  flag; Ctrl+C in the terminal aborts the task, which drops an edit between its files
  with no rollback.
- `RefusedOnlyWhileRecent` (`MCToolBatch`): "Exact denied tool calls for the current
  recovery context" (`core/agent_types.rs` 218), and the refusal says "Ask the user before
  retrying the same action" (execution 749). Denials are cleared only where a queued
  message is taken (A 1991, 2111); a prompt typed in an idle session clears nothing, and
  the action stays refused though the user, asked, agreed.
- `NothingUnseenApproved` (`MCApproval`): "so the panel is rendered before the user can
  accidentally act on an unseen request" (`cli/output.rs` 1252). `rendered` is set while
  the frame is laid out; when its flush gives `WouldBlock` (interactive 2453), the next
  key decides on a panel that is not on the screen.
- `OneAnswerShown` (`MCProviderStream`): "Provider stream stalled before output; retrying
  attempt" (A 3393-3400). Text that the filter of thinking tags held back is shown by
  `finish()` at the end of the attempt (A 3237-3240, 3293-3312); it does not count as
  visible output (`core/agent_stream.rs` 187-204), the attempt is repeated (A 3340-3401), and
  the answer appears below the piece of the first try.
- `NoPublicationOverwritten` (`MCAnchorStore`): "the in-memory and durable baselines must
  still match under the cache lock" (`core/file_editor.rs` 1766-1767), and "External writers replace
  shards atomically, so an identity mismatch always refreshes" (758-760). The identity is
  asked for after the content was read (775, 779), so that a shard replaced in between leaves
  old documents cached under its identity; the comparison under the lock passes against
  them, and the other process's publication is written over by one of the same generation.
- `NoStalePanelOfARun` (`MCApproval`): the comment of the next item, for prompts whose task
  lives. Enter brings the panel up just before /retry waits for the run
  (interactive 6433-6442, 352-355); the prompt times out, its finish event stays in the
  lane, and the panel on the screen for as long as the run goes on.
- `NoStalePanel` (`MCApproval`): "A matching finish event keeps timeouts and UI
  failures from leaving a stale panel" (`core/approval.rs` 2131). A combined prompt whose
  task is aborted emits none (2390-2393): its panel stays and, by then, fails the next
  question as "already visible", until a key takes it away.
- `ToldWhenLate` (`MCApproval`): the warning that a decision came too late
  (interactive 6233) depends on whether the receiver is gone, and a tool's prompt
  keeps its receiver until after the finish event (approval 2133-2136): a decision
  between the timeout and then counts as delivered.
- `RenamedIsNew` (`MCFileTransaction`): without `SNED_FSYNC`, the default, "if rename()
  succeeds, the file is guaranteed to exist with the new content" (`storage/disk.rs`
  249-251). `write_all` on a tokio file returns once the last piece is handed to the
  blocking pool and there is no flush, so the rename can come first: a reader finds
  the file cut short, and an error of that last write is lost.
- `RollbackKeepsUpdates` (`MCFileTransaction`): "so rollback cannot overwrite a
  concurrent update" (`handlers/edit_file.rs` 1334). Comparison and restoring write are
  two awaits, without the lock the forward write takes.
- `RefusedForChange` (`AnchorStore`, `MaxFaults = 2`): "Anchor generation changed ...
  re-read the file with read_file" (`core/file_editor.rs` 1134) is also said when a task's shard
  was evicted while the manager remembers the document and lines have changed;
  `publish_reconciled_document` refuses (1780), changes nothing, and so does
  every further read, until another file of the task is published or the process ends.
- `AllocatorMonotonic` (`MCAnchorStore`, an invariant, `MaxLines = 2`): a test says
  `monotonic_allocator_never_reuses_a_retired_anchor` (`core/file_editor.rs` 4703), and a
  comment "Retire those words instead of silently rebinding" (2142).
  Two processes share a task: one writes, reconciles and publishes, the shard is
  evicted, the other writes the file back to what it remembers, takes the fast path
  (2049-2075) and republishes its older document (1934-1963), counter included.
- `NeverReused` (`MCAnchorStore`, `MaxOps = 3`): what the same test's name says of
  identities; one minted after such a return can be one that was shown for another line.
- `CancelKills` (`MCChildProcesses`): "so Ctrl+C can terminate a script even though the
  agent task itself is aborted" (`handlers/execute_command.rs` 1647-1649). A call
  dropped between spawn and registration, or after the cleanup took the list, leaves its
  child running.
- `ScriptNeverStuck` (`MCChildProcesses`): a script that timed out still waits for the end of
  its pipes (`handlers/execute_command.rs` 1718-1728, 1750-1761), which a process it left
  behind may hold for ever; only a cancellation drops the call.
- `CleanupSparesLaterTask` (`MCAgentSession` with two
  cleanups): the cleanup of a second Ctrl+C takes whatever task is in the slot
  by then (interactive 2957).
- `PromptsAccounted` in `AgentSession` with a cleanup and a retry: an aborted retry
  leaves `retry_mode` set (A 1553-1555), and the next prompt, if its text is in the
  history already, is not recorded.
- `RetryRecordedOnce` (`MCAgentSession`): "reuse the existing history entry instead of
  recording a duplicate" (A 586-588) holds only while that entry is the last: a
  retry queued as its run ends starts after the next prompt was recorded, and is
  recorded again (A 1963-1980).
- `CancelledCanRetry` (`MCAgentSession` with a cleanup): a message after
  cancellation offers /retry (interactive 2985), but a turn dropped at an await
  has cleared the request.
- `RetryIsUserAuthored` (`MCAgentSession`): the fallback candidate is the last
  user-role message, which after tools is their results (A 758-766).
- `NoDuplicateResults` (`MCConversation`): a reply with a named and a nameless call
  gets two results for the named one (C 594-596).
- `HiddenStaysHidden` (`MCConversation`): rounding can move a range's end back
  (C 326-330).
- `RootKeepsPair` (`MCConversation`): the prune keeps a first message with calls
  without its results, if an emergency left one there (A 4931-4936).
- `RestartHidesNothingNew` (`MCConversation`): the range is saved before the history
  it counts in (A 2455, 5085).
- `NoQuestionAfterCancel` (`MCToolBatch`): preflight does not look at the flag.

Met while reading, outside of the models: a stream failure before any output
after the last attempt, and the pre-output timeout, are not offered for /retry
(A 3346-3362); a headless cancel
can let a truncated response be accepted (A 2929; `AcceptedIsWhole` excludes turns
cancelled by the flag); a failed plan step and the limit of mistakes return
before the history is saved (A 4140-4165); /undo after a completion removes its
results only; `collect_ordered_outcomes` would shift outcomes if a result were
missing, which nothing in the code lets happen today; a run without turns left returns
before it looks at the flag, so that `abort_task` does not run and the groups it lists
stay (A 1834); subagents that outlive an aborted run poll a flag that the next run
resets (`handlers/use_subagents.rs` 553, A 4650).

## 7. Not modelled

Components 9 and 12 to 16 and what section 3 leaves out of the others. Checkpoints,
hooks and the plan are planned as in section 2; 9, 12 and 16 are sequential and keep
next to no state of their own. 18 to 23
have no state that interleaves, or consist of I/O, parsing, generated or
third-party code; what providers may do is the environment of `ProviderStream`.
