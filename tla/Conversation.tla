---------------------------- MODULE Conversation ----------------------------
(***************************************************************************)
(* The conversation an AgentLoop keeps, and the request each turn derives  *)
(* from it: dangling tool calls are closed, the context manager hides a    *)
(* range of old messages, pruning and emergency truncation drop more, and  *)
(* tool results are re-paired with their calls.  History, hidden range and *)
(* summary reach the disk at different moments and are read back after a   *)
(* restart (src/src/core/agent_loop.rs, context/context_manager.rs).       *)
(*                                                                         *)
(* A message keeps who wrote it, the tool calls it makes and the calls it  *)
(* answers; sizes are a choice of the environment.  Positions start at 1;  *)
(* `cut` is the last hidden position, so the range Some((2, e)) of the     *)
(* code is cut = e + 1, and None, which hides nothing, is cut = 2.         *)
(***************************************************************************)
EXTENDS Integers, Sequences, FiniteSets, SequencesExt, FiniteSetsExt

CONSTANTS
    KeepMessages,    \* 2 * max_context_turns
    PruneBuffer,     \* `buffer` of prune_conversation_history (10)
    EmergencyKeep,   \* INITIAL_KEEP_MESSAGES (20)
    SaveEvery,       \* turns between two saves of the history (5)
    MaxPrompts,      \* bound on prompts
    MaxReplies,      \* bound on replies
    MaxCalls,        \* bound on tool calls
    MaxNotes,        \* bound on texts the loop adds for itself
    MaxRestarts,     \* bound on crashes
    MaxUndos         \* bound on /undo

ASSUME ConversationBounds ==
    /\ KeepMessages \in Nat \ {0} /\ PruneBuffer \in Nat
    /\ EmergencyKeep \in Nat /\ EmergencyKeep >= 2
    /\ SaveEvery \in Nat \ {0}
    /\ {MaxPrompts, MaxReplies, MaxCalls, MaxNotes, MaxRestarts, MaxUndos} \subseteq Nat

VARIABLES
    at,          \* "idle", "loop", "request", "tools", or "next": the run
                 \* completed its task and takes a queued prompt
    history,     \* conversation_history
    cut,         \* conversation_history_deleted_range
    summary,     \* compacted_summary is present
    request,     \* the messages of the request in flight
    sinceSave,   \* turns_since_save
    saved,       \* what is on disk
    nameless,    \* auxiliary: calls the provider sent without a name
    mixed,       \* auxiliary: those, and the calls of the same reply
    spent        \* what was used of the bounds

vars == <<at, history, cut, summary, request, sinceSave, saved, nameless, mixed, spent>>

CallId == 1 .. MaxCalls
Levels == {"low", "high", "huge"}   \* last_api_req_info, against the limit
Message == [kind: {"prompt", "note", "reply", "results", "failed", "closing", "summary"},
            id: 0 .. MaxPrompts, calls: SUBSET CallId, results: SUBSET CallId]

Prompt(n) == [kind |-> "prompt", id |-> n, calls |-> {}, results |-> {}]
Note == [kind |-> "note", id |-> 0, calls |-> {}, results |-> {}]
Reply(calls) == [kind |-> "reply", id |-> 0, calls |-> calls, results |-> {}]
Results(calls) == [kind |-> "results", id |-> 0, calls |-> {}, results |-> calls]
Failed(calls) == [Results(calls) EXCEPT !.kind = "failed"]
Closing(calls) == [kind |-> "closing", id |-> 0, calls |-> {}, results |-> calls]
Summary == [kind |-> "summary", id |-> 0, calls |-> {}, results |-> {}]

IsAssistant(m) == m.kind \in {"reply", "summary"}
IsUser(m) == ~IsAssistant(m)

AnsweredAfter(h, i) == UNION {h[j].results : j \in i + 1 .. Len(h)}

TypeOK ==
    /\ at \in {"idle", "loop", "request", "tools", "next"}
    /\ history \in Seq(Message) /\ request \in Seq(Message)
    /\ cut \in Nat \ {0, 1} /\ summary \in BOOLEAN
    /\ sinceSave \in 0 .. SaveEvery - 1
    /\ saved.history \in Seq(Message) /\ saved.cut \in Nat \ {0, 1}
    /\ saved.summary \in BOOLEAN /\ saved.item \in BOOLEAN
    /\ nameless \subseteq mixed /\ mixed \subseteq CallId

Init ==
    /\ at = "idle" /\ history = <<>> /\ cut = 2 /\ summary = FALSE
    /\ request = <<>> /\ sinceSave = 0
    /\ saved = [history |-> <<>>, cut |-> 2, summary |-> FALSE, item |-> FALSE]
    /\ nameless = {} /\ mixed = {}
    /\ spent = [prompts |-> 0, replies |-> 0, calls |-> 0, notes |-> 0, restarts |-> 0, undos |-> 0]

Limit == [prompts |-> MaxPrompts, replies |-> MaxReplies, calls |-> MaxCalls,
          notes |-> MaxNotes, restarts |-> MaxRestarts, undos |-> MaxUndos]
Spend(used) ==      \* used: a function from some of the bounds to amounts
    LET total == [b \in DOMAIN spent |-> spent[b] + IF b \in DOMAIN used THEN used[b] ELSE 0]
    IN /\ \A b \in DOMAIN spent : total[b] <= Limit[b]
       /\ spent' = total

-----------------------------------------------------------------------------
(* What a turn does to the history before it asks the provider.            *)

CloseDangling_OnlyLast(h) ==
    LET open(i) == IF i < Len(h) THEN {} ELSE h[i].calls IN
      FlattenSeq([i \in 1 .. Len(h) |->
         IF open(i) = {} THEN <<h[i]>> ELSE <<h[i], Closing(open(i))>>])

(* close_dangling_tool_calls: a call that no later message answers is      *)
(* answered as interrupted, right after it.                                *)
CloseDangling(h) ==
    LET open(i) == h[i].calls \ AnsweredAfter(h, i) IN
      FlattenSeq([i \in 1 .. Len(h) |->
         IF open(i) = {} THEN <<h[i]>> ELSE <<h[i], Closing(open(i))>>])

ToRemove_Quarter(n, keep) == IF keep = "lastTwo" THEN Max({n - 2, 0}) ELSE (n \div 8) * 2

(* How many of the n visible messages after the first two go.              *)
ToRemove(n, keep) ==
    CASE keep = "half" -> (n \div 4) * 2
      [] keep = "lastQuarter" -> (((n * 3) \div 4) \div 2) * 2
      [] keep = "lastTwo" -> IF n > 2 THEN n - 2 ELSE 0

(* get_next_truncation_range: hide some more, up to an assistant message.  *)
NextCut(h, from, keep) ==
    LET visible == IF Len(h) > from THEN Len(h) - from ELSE 0
        remove  == ToRemove(visible, keep)
        end     == IF remove = 0 THEN Max({from, 3}) ELSE from + remove
    IN Max({3, IF end <= Len(h) /\ ~IsAssistant(h[end]) THEN end - 1 ELSE end})

(* apply_context_history_updates: the first two messages and what is after *)
(* the cut, with the summary after the first exchange; results whose calls *)
(* were hidden go.                                                         *)
StripResults(s, i) ==
    IF i <= Len(s) /\ IsUser(s[i]) THEN [s EXCEPT ![i].results = {}] ELSE s

Visible(h, end, summarised) ==
    LET kept == SubSeq(h, 1, 2) \o SubSeq(h, end + 1, Len(h))
        pair == Len(kept) > 2 /\ kept[2].calls \cap kept[3].results # {}
        after == IF summarised /\ pair THEN 3 ELSE 2
        all == IF summarised
                 THEN SubSeq(kept, 1, after) \o <<Summary>> \o SubSeq(kept, after + 1, Len(kept))
                 ELSE kept
    IN IF end > 2 THEN StripResults(all, IF summarised THEN after + 2 ELSE 3) ELSE all

(* ensure_tool_results_follow_tool_use: the user message after a message   *)
(* with calls answers exactly these; where there is none, and no answer    *)
(* further down, one is made up.                                           *)
Repair(s) ==
    LET answers(i) == i > 1 /\ s[i - 1].calls # {} /\ IsUser(s[i])
        missing(i) == /\ s[i].calls # {}
                      /\ i = Len(s) \/ ~IsUser(s[i + 1])
                      /\ s[i].calls \cap AnsweredAfter(s, i) = {}
        fixed(i) == IF answers(i) THEN [s[i] EXCEPT !.results = s[i - 1].calls] ELSE s[i]
    IN FlattenSeq([i \in 1 .. Len(s) |->
          IF missing(i) THEN <<fixed(i), Closing(s[i].calls)>> ELSE <<fixed(i)>>])

(* get_and_alter_truncated_messages.                                       *)
Truncated(h, end, summarised) ==
    IF Len(h) <= 1 \/ (end = 2 /\ ~summarised) THEN h
    ELSE Repair(Visible(h, end, summarised))

SplitsPair(h, k) ==
    \E j \in k + 1 .. Len(h), i \in 1 .. k : h[i].calls \cap h[j].results # {}

(* keep_from_preserving_tool_pairs: drop as much of the front as asked,    *)
(* but less where that would orphan a result.                              *)
KeepFrom(h, base) == Max({k \in 0 .. base : ~SplitsPair(h, k)})

(* prune_conversation_history: the first message and a recent tail.        *)
Prune(s) ==
    IF Len(s) <= KeepMessages + PruneBuffer THEN s
    ELSE LET from == KeepFrom(s, Len(s) - KeepMessages) IN
         IF from = 0 /\ IsUser(s[1]) THEN s
         ELSE <<s[1]>> \o SubSeq(s, from + 1, Len(s))

-----------------------------------------------------------------------------
(* run(): a new prompt, or a queued one at the top of the loop.            *)
BeginPrompt ==
    /\ at \in {"idle", "loop", "next"}
    /\ Spend([prompts |-> 1])
    /\ history' = Append(history, Prompt(spent.prompts + 1))
    /\ at' = "loop"
    /\ UNCHANGED <<cut, summary, request, sinceSave, saved, nameless, mixed>>

(* execute_turn up to the request: note a changed plan, close dangling     *)
(* calls, hide more when the last usage was over the limit, or far over,   *)
(* and remember the range with the task, once it is listed.                *)
Prepare(level) ==
    /\ at = "loop"
    /\ level # "low" => spent.replies > 0
    /\ \E noted \in BOOLEAN :
          /\ Spend([notes |-> IF noted THEN 1 ELSE 0])
          /\ history' = CloseDangling(IF noted THEN Append(history, Note) ELSE history)
    /\ cut' = CASE level = "low" -> cut
                [] level = "high" -> NextCut(history', cut, "half")
                [] level = "huge" -> NextCut(history', cut, "lastQuarter")
    /\ saved' = IF level # "low" /\ saved.item THEN [saved EXCEPT !.cut = cut'] ELSE saved
    /\ request' = Prune(Truncated(history', cut', summary))
    /\ at' = "request"
    /\ UNCHANGED <<summary, sinceSave, nameless, mixed>>

(* emergency_truncate_request: too large all the same; shorter and shorter *)
(* tails of the whole history replace it, until one fits ...               *)
EmergencyTails == {k \in 2 .. EmergencyKeep : (EmergencyKeep - k) % 2 = 0}

KeepTail(keep) ==
    LET base == IF Len(history) > keep THEN Len(history) - keep ELSE 0
        from == KeepFrom(history, base)
    IN [history |-> SubSeq(history, from + 1, Len(history)), cut |-> IF from > 0 THEN 2 ELSE cut]

EmergencyTruncate ==
    /\ at = "request"
    /\ \E keep \in EmergencyTails :
          LET kept == KeepTail(keep) IN
             history' = kept.history /\ request' = kept.history /\ cut' = kept.cut
    /\ UNCHANGED <<at, summary, sinceSave, saved, nameless, mixed, spent>>

(* record_task_history: the end of a run remembers the range, and every    *)
(* forced save what the history is.                                        *)
Recorded(disk) == [disk EXCEPT !.item = TRUE, !.cut = cut']
Written(disk) == [disk EXCEPT !.history = IF history' = <<>> THEN @ ELSE history']
WrittenSummary(disk) == [disk EXCEPT !.summary = @ \/ summary']

(* ... and if none does, the last user message goes and the run ends.      *)
EmergencyFails ==
    /\ at = "request"
    /\ LET kept == KeepTail(2)  n == Len(kept.history) IN
          /\ history' = IF n > 0 /\ IsUser(kept.history[n])
                          THEN SubSeq(kept.history, 1, n - 1) ELSE kept.history
          /\ cut' = kept.cut
    /\ saved' = Recorded(saved)
    /\ at' = "idle" /\ request' = <<>>
    /\ UNCHANGED <<summary, sinceSave, nameless, mixed, spent>>

-----------------------------------------------------------------------------
SaveTurn_ResetFirst(disk) ==
    /\ sinceSave' = IF sinceSave + 1 >= SaveEvery THEN 0 ELSE sinceSave + 1
    /\ saved' = IF sinceSave' >= SaveEvery THEN WrittenSummary(Written(disk)) ELSE disk

SaveTurn_NoReset(disk) ==
    /\ sinceSave' = sinceSave + 1
    /\ saved' = IF sinceSave' >= SaveEvery THEN WrittenSummary(Written(disk)) ELSE disk

(* save_conversation_history: every now and then.                          *)
SaveTurn(disk) ==
    LET full == sinceSave + 1 >= SaveEvery IN
      /\ sinceSave' = IF full THEN 0 ELSE sinceSave + 1
      /\ saved' = IF full THEN WrittenSummary(Written(disk)) ELSE disk

ForceSave(disk, yes) == IF yes THEN Written(disk) ELSE disk
Record(disk, yes) == IF yes THEN Recorded(disk) ELSE disk

(* The end of a turn that used tools or text: save, and then go on, or     *)
(* complete the task with a forced save, and either take a queued prompt   *)
(* or end and record the run.                                              *)
EndTurn(how) ==
    /\ at' = CASE how = "continue" -> "loop" [] how = "queued" -> "next" [] OTHER -> "idle"
    /\ SaveTurn(Record(ForceSave(saved, how \in {"complete", "queued"}),
                       how \in {"complete", "error"}))

(* A reply of text alone completes the task, or the turn goes on, with or  *)
(* without a text that asks for tools.                                     *)
ReplyText ==
    /\ at = "request"
    /\ \E nudge \in BOOLEAN, how \in {"continue", "complete", "queued"} :
          /\ nudge => how = "continue"
          /\ Spend([replies |-> 1, notes |-> IF nudge THEN 1 ELSE 0])
          /\ history' = history \o (IF nudge THEN <<Reply({}), Note>> ELSE <<Reply({})>>)
          /\ cut' = cut /\ summary' = summary
          /\ EndTurn(how)
    /\ request' = <<>>
    /\ UNCHANGED <<nameless, mixed>>

(* An empty reply changes nothing; too many end the run.                   *)
ReplyEmpty ==
    /\ at = "request"
    /\ cut' = cut
    /\ \/ at' = "loop" /\ saved' = saved
       \/ at' = "idle" /\ saved' = Recorded(saved)
    /\ request' = <<>>
    /\ UNCHANGED <<history, summary, sinceSave, nameless, mixed, spent>>

(* A reply with tool calls enters the history before the tools run.        *)
ReplyCalls ==
    /\ at = "request"
    /\ \E n \in 1 .. 2, unnamed \in 0 .. 2 :
          LET first == spent.calls + 1
              calls == first .. spent.calls + n
          IN /\ unnamed <= n
             /\ Spend([replies |-> 1, calls |-> n])
             /\ history' = Append(history, Reply(calls))
             /\ nameless' = nameless \cup (first .. spent.calls + unnamed)
             /\ mixed' = IF unnamed = 0 THEN mixed ELSE mixed \cup calls
    /\ at' = "tools" /\ request' = <<>>
    /\ UNCHANGED <<cut, summary, sinceSave, saved>>

(* The calls of the batch that run: those with a name.                     *)
Answered == history[Len(history)].calls \ nameless

(* condense, as one of the tools: a summary, on disk at once, and all but  *)
(* the last two messages hidden, in memory; again only after more than two *)
(* new messages.                                                           *)
MayCondense == summary => Len(history) - (IF cut = 2 THEN 0 ELSE cut) > 2

Condense ==
    /\ at = "tools" /\ Answered # {} /\ MayCondense
    /\ summary' = TRUE
    /\ cut' = NextCut(history, cut, "lastTwo")
    /\ saved' = [saved EXCEPT !.summary = TRUE]
    /\ UNCHANGED <<at, history, request, sinceSave, nameless, mixed, spent>>

(* The batch is over: the results of the calls that had a name are one     *)
(* message, perhaps followed by a warning.                                 *)
FinishTools ==
    /\ at = "tools"
    /\ \E warned \in BOOLEAN, how \in {"continue", "complete", "queued", "error"} :
          /\ (warned \/ how # "continue") => Answered # {}
          /\ Spend([notes |-> IF warned THEN 1 ELSE 0])
          /\ cut' = cut /\ summary' = summary
          /\ history' = history \o
                (IF Answered = {} THEN <<>> ELSE <<Results(Answered)>>) \o
                (IF warned THEN <<Note>> ELSE <<>>)
          /\ EndTurn(how)
    /\ UNCHANGED <<request, nameless, mixed>>

(* Failed tools can end the turn before it saves: a failed plan step       *)
(* pauses, too many failures end the run.                                  *)
ToolsFail ==
    /\ at = "tools" /\ Answered # {}
    /\ \E warned \in BOOLEAN :
          /\ Spend([notes |-> IF warned THEN 1 ELSE 0])
          /\ history' = history \o (IF warned THEN <<Failed(Answered), Note>> ELSE <<Failed(Answered)>>)
    /\ cut' = cut
    /\ \/ at' = "loop" /\ saved' = saved
       \/ at' = "idle" /\ saved' = Recorded(saved)
    /\ UNCHANGED <<summary, request, sinceSave, nameless, mixed>>

(* The request fails, or is cancelled in flight, which saves everything.   *)
RequestFails ==
    /\ at = "request"
    /\ cut' = cut
    /\ saved' = Recorded(saved)
    /\ at' = "idle" /\ request' = <<>>
    /\ UNCHANGED <<history, summary, sinceSave, nameless, mixed, spent>>

RequestCancelled ==
    /\ at = "request"
    /\ cut' = cut /\ history' = history /\ summary' = summary
    /\ saved' = Recorded(WrittenSummary(Written(saved)))
    /\ at' = "idle" /\ request' = <<>>
    /\ UNCHANGED <<sinceSave, nameless, mixed, spent>>

(* The task is aborted at an await: nothing more happens in this run.      *)
Aborted ==
    /\ at # "idle"
    /\ at' = "idle" /\ request' = <<>>
    /\ UNCHANGED <<history, cut, summary, sinceSave, saved, nameless, mixed, spent>>

(* /undo: remove_last_turn.                                                *)
Undo ==
    /\ at = "idle" /\ history # <<>>
    /\ Spend([undos |-> 1])
    /\ LET h == Front(history) IN
         history' = IF h # <<>> /\ IsUser(Last(h)) THEN Front(h) ELSE h
    /\ UNCHANGED <<at, cut, summary, request, sinceSave, saved, nameless, mixed>>

(* /reset-compact: clear_compacted_summary, in memory and on disk.         *)
ClearSummary ==
    /\ at = "idle" /\ summary
    /\ summary' = FALSE
    /\ saved' = [saved EXCEPT !.summary = FALSE]
    /\ UNCHANGED <<at, history, cut, request, sinceSave, nameless, mixed, spent>>

(* A range that does not fit the history that was read is dropped.         *)
Remapped(disk) ==
    IF disk.item /\ disk.cut - 1 <= Len(disk.history) THEN disk.cut ELSE 2

(* The process dies, and the session is continued: what is on disk, and a  *)
(* fresh loop (load_conversation_history).                                 *)
Restart ==
    /\ Spend([restarts |-> 1])
    /\ history' = saved.history
    /\ cut' = Remapped(saved)
    /\ summary' = saved.summary
    /\ at' = "idle" /\ request' = <<>> /\ sinceSave' = 0
    /\ UNCHANGED <<saved, nameless, mixed>>

Next ==
    \/ BeginPrompt \/ (\E level \in Levels : Prepare(level)) \/ EmergencyTruncate \/ EmergencyFails
    \/ ReplyText \/ ReplyEmpty \/ ReplyCalls \/ Condense \/ FinishTools \/ ToolsFail
    \/ RequestFails \/ RequestCancelled \/ Aborted
    \/ Undo \/ ClearSummary \/ Restart

-----------------------------------------------------------------------------
(* A message with tool calls is answered by the next one, call for call:   *)
(* strict providers refuse the request otherwise.  Whatever was truncated, *)
(* pruned, interrupted, undone or lost in a crash (close_dangling_tool_-   *)
(* calls, ensure_tool_results_follow_tool_use, keep_from_preserving_tool_- *)
(* pairs).  Not covered: replies with a nameless call, and a message that  *)
(* prune keeps as the root because an emergency truncation left it first.  *)
CallsAnswered ==
    \A i \in 1 .. Len(request) :
       request[i].calls # {} /\ request[i].calls \cap mixed = {}
         => \/ i < Len(request) /\ request[i].calls \subseteq request[i + 1].results
            \/ i = 1 /\ Len(request) > KeepMessages

(* Every result follows the message with its call, and none is sent twice. *)
ResultsHaveCalls ==
    \A j \in 1 .. Len(request) : \A c \in request[j].results \ mixed :
       /\ j > 1 /\ c \in request[j - 1].calls
       /\ \A k \in 1 .. Len(request) : c \in request[k].results => k = j

(* Calls and results of a request match, one for one, whatever became of   *)
(* the history before (prepare of a turn, prune_conversation_history).     *)
CallsPaired == CallsAnswered /\ ResultsHaveCalls

(* Above the limit, hiding makes progress while there is something to hide:*)
(* four visible messages after the cut are enough to move it, rounding and *)
(* the search for an assistant message included.                           *)
TruncationProgress ==
    [][\A level \in Levels \ {"low"} :
          Prepare(level) /\ Len(history') - cut >= 4 => cut' > cut]_vars

(* A crash loses less than SaveEvery turns that ended by themselves and    *)
(* did not fail: neither errors, aborts, undo nor an emergency in between   *)
(* stretches the debounce of save_conversation_history.                    *)
Elements(s) == {s[i] : i \in 1 .. Len(s)}
CrashLosesLittle ==
    Cardinality({m \in Elements(history) : m.kind = "results"} \ Elements(saved.history)) < SaveEvery

Spec == Init /\ [][Next]_vars
=============================================================================
