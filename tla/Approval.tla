------------------------------ MODULE Approval ------------------------------
(* The questions before a tool runs: core/approval.rs, its callers in the    *)
(* agent's task, the approval lane of ChannelOutputWriter, and the loop of   *)
(* the terminal that drains it, draws the panel and reads keys.              *)
(*                                                                           *)
(* A call asks in one of two ways.  A tool's prompt runs whole on a blocking *)
(* thread ("thread"), which goes on when the agent's task is aborted.  The   *)
(* combined prompt of edit_file ("future") claims the slot and asks in the   *)
(* agent's task and leaves only the wait to a thread: an abort drops its     *)
(* guard, and nobody reports its end.  A key is whatever the loop reads: it  *)
(* may have been pressed before the frame that is on the screen.  Shortcuts  *)
(* other than y, and what a decision leaves behind, are ToolBatch's.         *)
EXTENDS Naturals, Sequences

CONSTANTS
    MaxCalls,  \* calls that ask
    MaxKeys,   \* keys the user presses that the loop acts on
    None

ASSUME ParametersAssumption ==
    MaxCalls \in Nat /\ MaxKeys \in Nat /\ None \notin Nat

VARIABLES
    run,      \* the agent's task: idle, working, waiting for the last call
    aborted,  \* the task is aborted and not yet dropped
    calls,    \* calls so far
    way,      \* how each asks
    step,     \* how far its prompt is
    dropped,  \* calls whose task was dropped while they waited
    inbox,    \* the channel of each request's responder
    result,   \* what its receiver was left with
    slot,     \* APPROVAL_SLOT_CLAIMED, by the call that holds the guard
    lane,     \* the approval lane: requested and finished events
    tui,      \* the terminal's loop: drain, draw, read; dispatch of what was
              \* entered, stuck in /retry
    entered,  \* the line that Enter submitted: a prompt, /retry or /new
    panel,    \* App::pending_approval
    drawn,    \* PendingApproval::rendered
    screen,   \* the panel in the last frame that reached the terminal
    desynced, \* terminal_desynced: a frame was lost
    keys      \* keys read so far

agent == <<run, aborted, calls, way, dropped>>
prompts == <<step, result>>
loop == <<tui, entered, panel, drawn, screen, desynced>>
vars == <<agent, prompts, inbox, slot, lane, loop, keys>>

Calls == 1 .. MaxCalls
Decisions == {"approved", "denied"}
Answers == Decisions \cup {"refused"}
Lines == {"prompt", "retry", "new"}
Asked(r) == [kind |-> "asked", id |-> r]
Finished(r) == [kind |-> "finished", id |-> r]

Init ==
    /\ run = "idle" /\ aborted = FALSE /\ calls = 0 /\ way = [r \in Calls |-> None]
    /\ dropped = {}
    /\ step = [r \in Calls |-> "none"] /\ result = [r \in Calls |-> None]
    /\ inbox = [r \in Calls |-> None] /\ slot = None /\ lane = <<>>
    /\ tui = "drain" /\ entered = None
    /\ panel = None /\ drawn = FALSE /\ screen = None /\ desynced = FALSE
    /\ keys = 0

-----------------------------------------------------------------------------
(* The agent's task and the prompts.                                       *)

Move(r, to) == step' = [step EXCEPT ![r] = to]
Results(r, value) == result' = [result EXCEPT ![r] = value]

AskOnThread ==
    /\ run = "working" /\ calls < MaxCalls
    /\ run' = "waiting" /\ calls' = calls + 1
    /\ way' = [way EXCEPT ![calls'] = "thread"] /\ Move(calls', "queued")
    /\ UNCHANGED <<aborted, dropped, result, inbox, slot, lane, loop, keys>>

(* Claim, event and wait come in one poll of the task.                     *)
AskInTask ==
    /\ run = "working" /\ calls < MaxCalls /\ slot = None
    /\ run' = "waiting" /\ calls' = calls + 1
    /\ way' = [way EXCEPT ![calls'] = "future"] /\ Move(calls', "waiting")
    /\ slot' = calls' /\ lane' = Append(lane, Asked(calls'))
    /\ UNCHANGED <<aborted, dropped, result, inbox, loop, keys>>

AskInTaskRefused ==
    /\ run = "working" /\ calls < MaxCalls /\ slot # None
    /\ calls' = calls + 1
    /\ way' = [way EXCEPT ![calls'] = "future"]
    /\ Move(calls', "ended") /\ Results(calls', "refused")
    /\ UNCHANGED <<run, aborted, dropped, inbox, slot, lane, loop, keys>>

Claim(r) ==
    /\ step[r] = "queued" /\ slot = None
    /\ slot' = r /\ Move(r, "claimed")
    /\ UNCHANGED <<agent, result, inbox, lane, loop, keys>>

ClaimRefused(r) ==
    /\ step[r] = "queued" /\ slot # None
    /\ Move(r, "ended") /\ Results(r, "refused")
    /\ UNCHANGED <<agent, inbox, slot, lane, loop, keys>>

EmitRequest(r) ==
    /\ step[r] = "claimed"
    /\ lane' = Append(lane, Asked(r)) /\ Move(r, "waiting")
    /\ UNCHANGED <<agent, result, inbox, slot, loop, keys>>

Receives(r, value) ==
    /\ step[r] = "waiting"
    /\ Move(r, "answered") /\ Results(r, value)
    /\ UNCHANGED <<agent, inbox, slot, lane, loop, keys>>

Receive(r) == inbox[r] # None /\ Receives(r, inbox[r])

Expire_Never(r) == FALSE

(* Five minutes without an answer.                                         *)
Expire(r) == inbox[r] = None /\ Receives(r, "expired")

(* The responder went with the request: the lane was discarded.            *)
Disconnect(r) ==
    /\ inbox[r] = None /\ panel # r /\ \A i \in DOMAIN lane : lane[i] # Asked(r)
    /\ Receives(r, "closed")

EmitFinish_NotWhenLate(r) ==
    /\ way[r] = "thread" /\ step[r] = "answered"
    /\ lane' = IF result[r] = "expired" THEN lane ELSE Append(lane, Finished(r))
    /\ Move(r, "finished")
    /\ UNCHANGED <<agent, result, inbox, slot, loop, keys>>

EmitFinish(r) ==
    /\ way[r] = "thread" /\ step[r] = "answered"
    /\ lane' = Append(lane, Finished(r)) /\ Move(r, "finished")
    /\ UNCHANGED <<agent, result, inbox, slot, loop, keys>>

Release(r) ==
    /\ step[r] = "finished"
    /\ slot' = None /\ Move(r, "ended")
    /\ UNCHANGED <<agent, result, inbox, lane, loop, keys>>

(* The thread behind a dropped combined prompt: its answer is nobody's.    *)
Forget(r) ==
    /\ way[r] = "future" /\ r \in dropped /\ step[r] = "answered"
    /\ Move(r, "ended")
    /\ UNCHANGED <<agent, result, inbox, slot, lane, loop, keys>>

Thread(r) ==
    \/ Claim(r) \/ ClaimRefused(r) \/ EmitRequest(r) \/ Receive(r) \/ Expire(r)
    \/ Disconnect(r) \/ EmitFinish(r) \/ Release(r) \/ Forget(r)

ResumeThread ==
    /\ run = "waiting" /\ way[calls] = "thread" /\ step[calls] = "ended"
    /\ run' = "working"
    /\ UNCHANGED <<aborted, calls, way, dropped, prompts, inbox, slot, lane, loop, keys>>

ResumeTask ==
    /\ run = "waiting" /\ way[calls] = "future" /\ step[calls] = "answered"
    /\ lane' = Append(lane, Finished(calls)) /\ slot' = None /\ Move(calls, "ended")
    /\ run' = "working"
    /\ UNCHANGED <<aborted, calls, way, dropped, result, inbox, loop, keys>>

EndRun ==
    /\ run = "working" /\ run' = "idle"
    /\ UNCHANGED <<aborted, calls, way, dropped, prompts, inbox, slot, lane, loop, keys>>

SlotAfterDrop_Kept == slot
SlotAfterDrop == IF way[calls] = "future" THEN None ELSE slot

(* The aborted task is dropped where it awaits, and its guard with it.     *)
Unwind ==
    /\ aborted /\ run # "idle" /\ run' = "idle"
    /\ IF run = "waiting"
         THEN dropped' = dropped \cup {calls} /\ slot' = SlotAfterDrop
         ELSE UNCHANGED <<dropped, slot>>
    /\ UNCHANGED <<aborted, calls, way, prompts, inbox, lane, loop, keys>>

Task == AskOnThread \/ AskInTask \/ AskInTaskRefused \/ ResumeThread \/ ResumeTask \/ EndRun \/ Unwind

-----------------------------------------------------------------------------
(* The loop of the terminal: drain the lane, draw, read keys.              *)

ShowPanel(r) == panel' = r /\ drawn' = FALSE
HidePanel == panel' = None /\ drawn' = FALSE

(* A second request is failed, not shown over the first.                   *)
ApplyRequest ==
    /\ tui = "drain" /\ lane # <<>> /\ Head(lane).kind = "asked"
    /\ lane' = Tail(lane)
    /\ IF panel = None
         THEN ShowPanel(Head(lane).id) /\ UNCHANGED inbox
         ELSE /\ inbox' = [inbox EXCEPT ![Head(lane).id] = "refused"]
              /\ UNCHANGED <<panel, drawn>>
    /\ UNCHANGED <<agent, prompts, slot, tui, entered, screen, desynced, keys>>

ApplyFinish ==
    /\ tui = "drain" /\ lane # <<>> /\ Head(lane).kind = "finished"
    /\ lane' = Tail(lane)
    /\ IF panel = Head(lane).id THEN HidePanel ELSE UNCHANGED <<panel, drawn>>
    /\ UNCHANGED <<agent, prompts, inbox, slot, tui, entered, screen, desynced, keys>>

Drained ==
    /\ tui = "drain" /\ lane = <<>> /\ tui' = "draw"
    /\ UNCHANGED <<agent, prompts, inbox, slot, lane, entered, panel, drawn, screen, desynced, keys>>

(* A frame the window is too small for shows no choices.                   *)
Fits == IF panel = None THEN {FALSE} ELSE BOOLEAN
AfterDraw == IF entered = None THEN "read" ELSE "dispatch"

DrawFrame ==
    /\ tui = "draw" /\ tui' = AfterDraw
    /\ drawn' \in Fits /\ screen' = (IF drawn' THEN panel ELSE None)
    /\ desynced' = FALSE
    /\ UNCHANGED <<agent, prompts, inbox, slot, lane, entered, panel, keys>>

(* The terminal would block: before the panel is laid out, when it clears  *)
(* after a lost frame, or after, when it flushes.                          *)
LoseFrame ==
    /\ tui = "draw" /\ tui' = AfterDraw
    /\ drawn' \in Fits \/ (desynced /\ drawn' = drawn)
    /\ desynced' = TRUE
    /\ UNCHANGED <<agent, prompts, inbox, slot, lane, entered, panel, screen, keys>>

(* Nothing changed, or the next frame is not due.                          *)
SkipFrame ==
    /\ tui = "draw" /\ entered = None /\ tui' = "read"
    /\ UNCHANGED <<agent, prompts, inbox, slot, lane, entered, panel, drawn, screen, desynced, keys>>

AcceptsInput_Unrendered == panel # None
AcceptsInput == panel # None /\ drawn

ReadKey == tui = "read" /\ keys < MaxKeys /\ keys' = keys + 1
Resolve(answer) == inbox' = [inbox EXCEPT ![panel] = answer] /\ HidePanel

(* With a panel up there is no other use of keys, and each ends the frame. *)
SwallowKey ==
    /\ tui = "read" /\ panel # None /\ tui' = "drain"
    /\ UNCHANGED <<agent, prompts, inbox, slot, lane, entered, panel, drawn, screen, desynced, keys>>

Decide(answer) ==
    /\ ReadKey /\ AcceptsInput /\ Resolve(answer) /\ tui' = "drain"
    /\ UNCHANGED <<prompts, slot, lane, entered, screen, desynced>>

KeyYes == Decide("approved") /\ UNCHANGED agent
KeyNo == Decide("denied") /\ UNCHANGED agent
KeyCancel ==
    /\ Decide("denied") /\ aborted' = (aborted \/ run # "idle")
    /\ UNCHANGED <<run, calls, way, dropped>>

CancelRun ==
    /\ ReadKey /\ panel = None /\ tui' = "drain"
    /\ run # "idle" /\ aborted' = TRUE
    /\ UNCHANGED <<run, calls, way, dropped, prompts, inbox, slot, lane, entered,
                   panel, drawn, screen, desynced>>

(* Enter drains the lane and draws before its line is looked at: a panel    *)
(* that was not up when the key was read may be up when the command runs.   *)
(* The cleanup of a cancelled run may admit a line before the task is gone. *)
Enter(line) ==
    /\ ReadKey /\ panel = None /\ tui' = "drain" /\ entered' = line
    /\ UNCHANGED <<agent, prompts, inbox, slot, lane, panel, drawn, screen, desynced>>

Dispatch(line) == tui = "dispatch" /\ entered = line /\ entered' = None

StartRun == run = "idle" /\ run' = "working" /\ aborted' = FALSE

(* A prompt starts a run when there is none, whatever panel was left.      *)
Submit ==
    /\ Dispatch("prompt") /\ StartRun /\ tui' = "drain"
    /\ UNCHANGED <<calls, way, dropped, prompts, inbox, slot, lane,
                   panel, drawn, screen, desynced, keys>>

(* With a run under way a prompt is queued; /new refuses then, and while    *)
(* prompts are queued.                                                     *)
NotNow ==
    /\ (Dispatch("prompt") /\ run # "idle") \/ Dispatch("new")
    /\ tui' = "drain"
    /\ UNCHANGED <<agent, prompts, inbox, slot, lane, panel, drawn, screen, desynced, keys>>

(* /retry locks the agent to look for the request, whoever holds it, and    *)
(* whatever panel is up.                                                   *)
Retry ==
    /\ Dispatch("retry") /\ tui' = "stuck"
    /\ UNCHANGED <<agent, prompts, inbox, slot, lane, panel, drawn, screen, desynced, keys>>

(* The failed request is sent again, when there is one.                    *)
RetryLocks ==
    /\ tui = "stuck" /\ run = "idle" /\ tui' = "drain"
    /\ StartRun \/ UNCHANGED <<run, aborted>>
    /\ UNCHANGED <<calls, way, dropped, prompts, inbox, slot, lane, entered,
                   panel, drawn, screen, desynced, keys>>

(* /new denies the panel that is up and discards the lanes.                *)
FreshTask ==
    /\ Dispatch("new") /\ run = "idle" /\ tui' = "drain"
    /\ IF panel # None THEN Resolve("denied") ELSE UNCHANGED <<inbox, panel, drawn>>
    /\ lane' = <<>>
    /\ UNCHANGED <<agent, prompts, slot, screen, desynced, keys>>

(* No key that matters is left, or MAX_INPUT_EVENTS_PER_FRAME are read.     *)
EndRead ==
    /\ tui = "read" /\ tui' = "drain"
    /\ UNCHANGED <<agent, prompts, inbox, slot, lane, entered, panel, drawn, screen, desynced, keys>>

Loop ==
    \/ ApplyRequest \/ ApplyFinish \/ Drained \/ DrawFrame \/ LoseFrame \/ SkipFrame
    \/ SwallowKey \/ KeyYes \/ KeyNo \/ KeyCancel \/ CancelRun
    \/ (\E line \in Lines : Enter(line))
    \/ Submit \/ NotNow \/ Retry \/ RetryLocks \/ FreshTask \/ EndRead

Next == (\E r \in Calls : Thread(r)) \/ Task \/ Loop

(* Threads run and five minutes pass; the task is polled when its prompt is *)
(* over; the terminal's loop turns.  Nobody has to answer, a run need not   *)
(* end, no frame has to be drawn.                                           *)
Fairness ==
    /\ \A r \in Calls : WF_vars(Thread(r))
    /\ WF_vars(ResumeThread \/ ResumeTask)
    /\ WF_vars(Loop)

Spec == Init /\ [][Next]_vars /\ Fairness

-----------------------------------------------------------------------------
(* Properties.                                                             *)

Busy(r) == step[r] \notin {"none", "ended"}

(* Every variable has its type; the slot belongs to a prompt that is not   *)
(* over and is not left to one whose guard is gone; the lane tells the end *)
(* of a prompt after its begin (ApprovalPromptGuard, begin_approval_prompt).*)
TypeOK ==
    /\ run \in {"idle", "working", "waiting"} /\ aborted \in BOOLEAN
    /\ calls \in 0 .. MaxCalls /\ way \in [Calls -> {None, "thread", "future"}]
    /\ step \in [Calls -> {"none", "queued", "claimed", "waiting", "answered", "finished", "ended"}]
    /\ dropped \subseteq 1 .. calls
    /\ inbox \in [Calls -> Answers \cup {None}]
    /\ result \in [Calls -> Answers \cup {None, "expired", "closed"}]
    /\ slot \in Calls \cup {None} /\ panel \in Calls \cup {None} /\ screen \in Calls \cup {None}
    /\ slot # None => Busy(slot) /\ ~(way[slot] = "future" /\ slot \in dropped)
    /\ lane \in Seq([kind: {"asked", "finished"}, id: Calls])
    /\ \A i, j \in DOMAIN lane : lane[i].id = lane[j].id /\ lane[i].kind = "finished" => j <= i
    /\ tui \in {"drain", "draw", "read", "dispatch", "stuck"} /\ entered \in Lines \cup {None} /\ desynced \in BOOLEAN
    /\ drawn \in BOOLEAN /\ (drawn => panel # None)
    /\ keys \in 0 .. MaxKeys

(* A call is approved by a key that was read while its own panel was on the *)
(* screen, however panels came and went and frames fell out: or while a     *)
(* frame was lost (handle_approval_key, render_approval_panel, set_pending_ *)
(* approval; draw_tui_frame).                                               *)
DecisionOnScreen ==
    [][\A r \in Calls : inbox'[r] = "approved" /\ inbox[r] # "approved" => screen = r \/ desynced]_vars

(* A question of a living run is refused only because an aborted run left  *)
(* one behind: the thread of a tool's prompt still holds the slot, or the   *)
(* panel of a combined prompt is still up.  The prompts of one run never    *)
(* meet, in the slot, in the lane or on the screen (ApprovalPromptGuard,    *)
(* the order of the finish event and the guard's drop, set_pending_approval)*)
LeftBehind(r, by) == r \in dropped /\ way[r] = by
RefusedOnlyByLeftover ==
    [][\A r \in Calls \ dropped :
          /\ inbox'[r] = "refused" /\ inbox[r] # "refused" => LeftBehind(panel, "future")
          /\ result'[r] = "refused" /\ result[r] # "refused" /\ inbox[r] = None
               => LeftBehind(slot, "thread")]_vars

(* Without any answer every prompt comes to its end and its slot is free     *)
(* again, even with a terminal that /retry has stopped; and the panel of a   *)
(* prompt that is over goes.  What may stay is the panel of a combined       *)
(* prompt whose task was dropped, and one that is up while /retry waits for  *)
(* the run (receive_approval_response, ApprovalPromptGuard,                  *)
(* finish_pending_approval, retryable_failed_request).                       *)
Settles ==
    \A r \in Calls :
       /\ Busy(r) ~> ~Busy(r)
       /\ slot = r ~> slot # r
       /\ panel = r /\ ~Busy(r) ~>
             panel # r \/ LeftBehind(r, "future") \/ (tui = "stuck" /\ run # "idle")
=============================================================================
