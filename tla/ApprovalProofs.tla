---------------------------- MODULE ApprovalProofs ----------------------------
(***************************************************************************)
(* What holds of Approval for any number of calls and keys: types, that    *)
(* only what an aborted run left behind makes a question refused, and that *)
(* a decision is taken on the panel that was on the screen.                *)
(***************************************************************************)
EXTENDS Approval, SequenceTheorems, TLAPS

(* A prompt holds the slot from its claim until its end was told, unless   *)
(* its guard was dropped with the task.                                    *)
Holding(q) ==
    step[q] \in {"claimed", "waiting", "answered", "finished"} /\ ~LeftBehind(q, "future")

(* One prompt of a living run at a time: the run waits for its last call.  *)
OnePrompt ==
    /\ \A q \in Calls :
          /\ step[q] # "none" => q <= calls /\ way[q] \in {"thread", "future"}
          /\ step[q] # "none" /\ way[q] = "future" => step[q] \in {"waiting", "answered", "ended"}
          /\ Holding(q) <=> slot = q
          /\ Busy(q) /\ q \notin dropped => run = "waiting" /\ calls = q
    /\ run = "waiting" => calls \in Calls \ dropped /\ (way[calls] = "future" => Busy(calls))

(* The question that is on the terminal's side is the panel, as position 0,*)
(* or is still in the lane; it is over once its end is further back.       *)
Shown(q, i) == IF i = 0 THEN panel = q ELSE lane[i] = Asked(q)
Over(q, i, j) == \E k \in (i + 1) .. (j - 1) : lane[k] = Finished(q)

(* Questions reach the terminal one at a time: before the next one is      *)
(* asked, the end of the one before was told, or its task was dropped.     *)
OneQuestion ==
    /\ \A i \in DOMAIN lane :
          /\ step[lane[i].id] \notin {"none", "queued", "claimed"}
          /\ lane[i].kind = "finished" => step[lane[i].id] \in {"finished", "ended"}
    /\ panel # None => step[panel] \notin {"none", "queued", "claimed"}
    /\ \A q \in Calls, i \in 0 .. Len(lane) : Shown(q, i) =>
          /\ slot # q \/ step[q] = "finished" => LeftBehind(q, "future") \/ Over(q, i, Len(lane) + 1)
          /\ \A j \in (i + 1) .. Len(lane) : lane[j].kind = "asked" =>
                LeftBehind(q, "future") \/ Over(q, i, j)

(* A panel that takes keys is on the screen, unless a frame was lost.      *)
DrawnIsShown == drawn => screen = panel \/ desynced

Inv == TypeOK /\ OnePrompt /\ OneQuestion /\ DrawnIsShown

-----------------------------------------------------------------------------
(* Types.                                                                  *)
Steps == {"none", "queued", "claimed", "waiting", "answered", "finished", "ended"}
Event == [kind: {"asked", "finished"}, id: Calls]

FlagsOK == aborted \in BOOLEAN /\ desynced \in BOOLEAN /\ drawn \in BOOLEAN
AgentOK ==
    /\ run \in {"idle", "working", "waiting"}
    /\ calls \in 0 .. MaxCalls /\ way \in [Calls -> {None, "thread", "future"}]
    /\ dropped \subseteq 1 .. calls
PromptsOK ==
    /\ step \in [Calls -> Steps]
    /\ inbox \in [Calls -> Answers \cup {None}]
    /\ result \in [Calls -> Answers \cup {None, "expired", "closed"}]
LoopOK ==
    /\ slot \in Calls \cup {None} /\ panel \in Calls \cup {None} /\ screen \in Calls \cup {None}
    /\ lane \in Seq(Event)
    /\ tui \in {"drain", "draw", "read", "dispatch", "stuck"} /\ entered \in Lines \cup {None}
    /\ keys \in 0 .. MaxKeys
EndsLast == \A i, j \in DOMAIN lane : lane[i].id = lane[j].id /\ lane[i].kind = "finished" => j <= i
DrawnPanel == drawn => panel # None

(* TypeOK in parts: flags, the agent, its prompts, the terminal; what it    *)
(* says of the holder of the slot follows from OnePrompt.                   *)
LEMMA TypeParts ==
    OnePrompt => (TypeOK <=> FlagsOK /\ AgentOK /\ PromptsOK /\ LoopOK /\ EndsLast /\ DrawnPanel)
<1> SUFFICES ASSUME OnePrompt
             PROVE  TypeOK <=> FlagsOK /\ AgentOK /\ PromptsOK /\ LoopOK /\ EndsLast /\ DrawnPanel
  OBVIOUS
<1>1. slot \in Calls \cup {None} /\ None \notin Calls =>
         (slot # None => Busy(slot) /\ ~(way[slot] = "future" /\ slot \in dropped))
  BY DEF OnePrompt, Holding, LeftBehind, Busy
<1>2. None \notin Calls
  BY ParametersAssumption DEF Calls
<1> QED BY <1>1, <1>2
    DEF TypeOK, FlagsOK, AgentOK, PromptsOK, LoopOK, EndsLast, DrawnPanel, Steps, Event

(* Both events of a prompt are events of the lane.                          *)
LEMMA EventTypes ==
    \A r \in Calls : /\ Asked(r) \in Event /\ Asked(r).kind = "asked" /\ Asked(r).id = r
                     /\ Finished(r) \in Event /\ Finished(r).kind = "finished" /\ Finished(r).id = r
BY DEF Asked, Finished, Event

(* Every event of the lane is the question or the end of a prompt.          *)
LEMMA EventKinds ==
    \A e \in Event : /\ e.id \in Calls
                     /\ e.kind = "asked" => e = Asked(e.id)
                     /\ e.kind = "finished" => e = Finished(e.id)
                     /\ e.kind \in {"asked", "finished"}
BY DEF Asked, Finished, Event

(* Nothing is asked in the beginning.                                       *)
LEMMA InvInit == Init => Inv
<1> SUFFICES ASSUME Init PROVE Inv
  OBVIOUS
<1>1. FlagsOK
  BY Zenon DEF Init, FlagsOK
<1>2. AgentOK /\ PromptsOK /\ LoopOK
  BY ParametersAssumption DEF Init, AgentOK, PromptsOK, LoopOK, Steps
<1>3. lane = <<>> /\ Len(lane) = 0 /\ DOMAIN lane = {} /\ panel = None /\ None \notin Calls /\ slot = None
  BY ParametersAssumption DEF Init, Calls
<1>4. OnePrompt
  BY <1>3 DEF Init, OnePrompt, Holding, Busy
<1>5. EndsLast /\ OneQuestion
  BY <1>3 DEF EndsLast, OneQuestion, Shown
<1>6. DrawnIsShown /\ DrawnPanel
  BY DEF Init, DrawnIsShown, DrawnPanel
<1> QED BY <1>1, <1>2, <1>4, <1>5, <1>6, TypeParts DEF Inv

(* Flags stay flags, whatever reads keys or draws.                          *)
LEMMA FlagsNext == FlagsOK /\ [Next]_vars => FlagsOK'
<1> SUFFICES ASSUME FlagsOK, [Next]_vars PROVE FlagsOK'
  OBVIOUS
<1> USE DEF FlagsOK, agent, prompts, loop
<1>1. ASSUME NEW r \in Calls, Thread(r) PROVE FlagsOK'
  BY Zenon, <1>1 DEF Thread, Claim, ClaimRefused, EmitRequest, Receive, Expire, Disconnect, Receives,
                     EmitFinish, Release, Forget
<1>2. CASE Task
  BY Zenon, <1>2 DEF Task, AskOnThread, AskInTask, AskInTaskRefused, ResumeThread, ResumeTask,
                     EndRun, Unwind
<1>3. CASE ApplyRequest \/ ApplyFinish \/ Drained \/ SkipFrame
  BY Zenon, <1>3 DEF ApplyRequest, ApplyFinish, Drained, SkipFrame, ShowPanel, HidePanel
<1>4. CASE DrawFrame \/ LoseFrame
  BY Zenon, <1>4 DEF DrawFrame, LoseFrame, Fits
<1>5. CASE KeyYes \/ KeyNo \/ KeyCancel
  BY Zenon, <1>5 DEF KeyYes, KeyNo, KeyCancel, Decide, Resolve, HidePanel
<1>6. CASE SwallowKey \/ CancelRun \/ (\E line \in Lines : Enter(line)) \/ EndRead
  BY Zenon, <1>6 DEF SwallowKey, CancelRun, Enter, EndRead
<1>8. CASE Submit \/ NotNow \/ Retry \/ RetryLocks \/ FreshTask
  BY Zenon, <1>8 DEF Submit, StartRun, NotNow, Retry, RetryLocks, FreshTask, Resolve, HidePanel
<1>7. CASE UNCHANGED vars
  BY Zenon, <1>7 DEF vars
<1> QED BY <1>1, <1>2, <1>3, <1>4, <1>5, <1>6, <1>7, <1>8 DEF Next, Loop

(* Only calls that were made are dropped, and calls are numbered.           *)
LEMMA AgentNext == Inv /\ [Next]_vars => AgentOK'
<1> SUFFICES ASSUME Inv, [Next]_vars PROVE AgentOK'
  OBVIOUS
<1>0. AgentOK /\ (run = "waiting" => calls \in Calls)
  BY TypeParts DEF Inv, OnePrompt
<1>1. CASE UNCHANGED <<calls, way, dropped>> /\ run' \in {run, "idle", "working"}
  BY <1>0, <1>1 DEF AgentOK
<1>2. CASE AskOnThread \/ AskInTask \/ AskInTaskRefused
  <2>1. /\ calls < MaxCalls /\ calls' = calls + 1 /\ run' \in {run, "waiting"} /\ dropped' = dropped
        /\ way' = [way EXCEPT ![calls'] = "thread"] \/ way' = [way EXCEPT ![calls'] = "future"]
    BY <1>2 DEF AskOnThread, AskInTask, AskInTaskRefused
  <2> QED BY <1>0, <2>1, ParametersAssumption DEF AgentOK, Calls
<1>3. CASE Unwind
  <2>1. run' = "idle" /\ UNCHANGED <<calls, way>> /\ dropped' \in {dropped, dropped \cup {calls}}
    BY <1>3 DEF Unwind
  <2>2. CASE run = "waiting"
    BY <1>0, <2>1, <2>2, ParametersAssumption DEF AgentOK, Calls
  <2>3. CASE run # "waiting"
    BY <1>0, <1>3, <2>1, <2>3 DEF Unwind, AgentOK
  <2> QED BY <2>2, <2>3
<1> QED BY <1>1, <1>2, <1>3
    DEF Next, Thread, Claim, ClaimRefused, EmitRequest, Receive, Expire, Disconnect, Receives,
        EmitFinish, Release, Forget, Task, ResumeThread, ResumeTask, EndRun, Loop,
        ApplyRequest, ApplyFinish, Drained, DrawFrame, LoseFrame, SkipFrame, SwallowKey, KeyYes, KeyNo,
        KeyCancel, CancelRun, Enter, Submit, StartRun, NotNow, Retry, RetryLocks, FreshTask, EndRead, Decide, vars, agent

(* What a prompt got is an answer, an expiry or a closed channel.           *)
LEMMA PromptsNext == Inv /\ [Next]_vars => PromptsOK'
<1> SUFFICES ASSUME Inv, [Next]_vars PROVE PromptsOK'
  OBVIOUS
<1>0. PromptsOK /\ AgentOK /\ LoopOK /\ (run = "waiting" => calls \in Calls)
  BY TypeParts DEF Inv, OnePrompt
<1> USE DEF Steps
<1>1. CASE UNCHANGED <<step, inbox, result>>
  BY <1>0, <1>1 DEF PromptsOK
<1>2. ASSUME NEW r \in Calls, NEW s \in Steps, Move(r, s), UNCHANGED <<inbox, result>> PROVE PromptsOK'
  BY <1>0, <1>2 DEF PromptsOK, Move
<1>3. ASSUME NEW r \in Calls, NEW s \in Steps, NEW v \in Answers \cup {None, "expired", "closed"},
             Move(r, s), Results(r, v), UNCHANGED inbox
      PROVE  PromptsOK'
  BY <1>0, <1>3 DEF PromptsOK, Move, Results
<1>4. ASSUME NEW r \in Calls, Thread(r) PROVE PromptsOK'
  <2>1. CASE Receive(r)
    <3>1. inbox[r] \in Answers \cup {None}
      BY <1>0 DEF PromptsOK
    <3> QED BY <1>3, <2>1, <3>1 DEF Receive, Receives
  <2>2. CASE Expire(r) \/ Disconnect(r)
    BY <1>3, <2>2 DEF Expire, Disconnect, Receives
  <2>3. CASE ClaimRefused(r)
    BY <1>3, <2>3 DEF ClaimRefused, Answers
  <2>4. CASE Claim(r) \/ EmitRequest(r) \/ EmitFinish(r) \/ Release(r) \/ Forget(r)
    BY <1>2, <2>4 DEF Claim, EmitRequest, EmitFinish, Release, Forget
  <2> QED BY <1>4, <2>1, <2>2, <2>3, <2>4 DEF Thread
<1>5. ASSUME calls < MaxCalls, calls' = calls + 1 PROVE calls' \in Calls
  BY <1>0, <1>5, ParametersAssumption DEF AgentOK, Calls
<1>6. CASE AskOnThread \/ AskInTask \/ ResumeTask
  BY <1>0, <1>2, <1>5, <1>6 DEF AskOnThread, AskInTask, ResumeTask
<1>7. CASE AskInTaskRefused
  BY <1>3, <1>5, <1>7 DEF AskInTaskRefused, Answers
<1>8. ASSUME NEW r \in Calls \cup {None}, NEW a \in Answers, inbox' = [inbox EXCEPT ![r] = a],
             UNCHANGED <<step, result>>
      PROVE  PromptsOK'
  BY <1>0, <1>8 DEF PromptsOK
<1>9. CASE ApplyRequest
  <2>1. Head(lane).id \in Calls
    BY <1>0, <1>9, EventKinds DEF ApplyRequest, LoopOK
  <2> QED BY <1>1, <1>8, <1>9, <2>1 DEF ApplyRequest, ShowPanel, prompts, Answers
<1>10. CASE KeyYes \/ KeyNo \/ KeyCancel
  BY <1>0, <1>8, <1>10 DEF KeyYes, KeyNo, KeyCancel, Decide, Resolve, prompts, Answers, Decisions, LoopOK
<1>11. CASE FreshTask
  <2>1. UNCHANGED <<step, result>> /\ (inbox' = inbox \/ inbox' = [inbox EXCEPT ![panel] = "denied"])
    BY <1>11 DEF FreshTask, Resolve, prompts
  <2> QED BY <1>0, <1>1, <1>8, <2>1 DEF Answers, Decisions, LoopOK
<1> QED BY <1>1, <1>4, <1>6, <1>7, <1>9, <1>10, <1>11
    DEF Next, Task, AskOnThread, ResumeThread, EndRun, Unwind, Loop, ApplyFinish, Drained, DrawFrame,
        LoseFrame, SkipFrame, SwallowKey, CancelRun, Enter, Submit, NotNow, Retry, RetryLocks, EndRead,
        vars, prompts

(* The lane holds events of calls, however it grew or was discarded.        *)
LEMMA LoopNext == Inv /\ [Next]_vars => LoopOK'
<1> SUFFICES ASSUME Inv, [Next]_vars PROVE LoopOK'
  OBVIOUS
<1>0. PromptsOK /\ AgentOK /\ LoopOK /\ (run = "waiting" => calls \in Calls)
  BY TypeParts DEF Inv, OnePrompt
<1>1. CASE UNCHANGED <<slot, lane, loop, keys>>
  BY <1>0, <1>1 DEF LoopOK, loop
<1>2. ASSUME NEW e \in Event, lane' = Append(lane, e), slot' \in Calls \cup {None}, UNCHANGED <<loop, keys>>
      PROVE  LoopOK'
  BY <1>0, <1>2, AppendProperties DEF LoopOK, loop
<1>3. CASE UNCHANGED <<lane, loop, keys>> /\ slot' \in Calls \cup {None}
  BY <1>0, <1>3 DEF LoopOK, loop
<1>4. ASSUME NEW r \in Calls, Thread(r) PROVE LoopOK'
  <2>1. CASE EmitRequest(r) \/ EmitFinish(r)
    BY <1>0, <1>2, <2>1, EventTypes DEF EmitRequest, EmitFinish, LoopOK
  <2>2. CASE Claim(r) \/ Release(r)
    BY <1>3, <2>2 DEF Claim, Release
  <2>3. CASE ClaimRefused(r) \/ Receive(r) \/ Expire(r) \/ Disconnect(r) \/ Forget(r)
    BY <1>1, <2>3 DEF ClaimRefused, Receive, Expire, Disconnect, Receives, Forget
  <2> QED BY <1>4, <2>1, <2>2, <2>3 DEF Thread
<1>5. CASE AskInTask
  <2>1. calls' \in Calls
    BY <1>0, <1>5, ParametersAssumption DEF AskInTask, AgentOK, Calls
  <2> QED BY <1>2, <1>5, <2>1, EventTypes DEF AskInTask
<1>6. CASE ResumeTask
  BY <1>0, <1>2, <1>6, EventTypes DEF ResumeTask
<1>7. CASE Unwind
  BY <1>0, <1>3, <1>7 DEF Unwind, SlotAfterDrop, LoopOK
<1>8. CASE AskOnThread \/ AskInTaskRefused \/ ResumeThread \/ EndRun
  BY <1>1, <1>8 DEF AskOnThread, AskInTaskRefused, ResumeThread, EndRun
<1>9. CASE ApplyRequest \/ ApplyFinish
  <2>1. Tail(lane) \in Seq(Event) /\ Head(lane).id \in Calls
    BY <1>0, <1>9, HeadTailProperties, EventKinds DEF LoopOK, ApplyRequest, ApplyFinish
  <2> QED BY <1>0, <1>9, <2>1 DEF LoopOK, ApplyRequest, ApplyFinish, ShowPanel, HidePanel
<1>10. CASE Drained \/ SkipFrame \/ SwallowKey \/ RetryLocks \/ EndRead
  BY <1>0, <1>10
     DEF LoopOK, Drained, SkipFrame, SwallowKey, RetryLocks, EndRead
<1>13. CASE DrawFrame \/ LoseFrame
  <2>1. /\ UNCHANGED <<slot, lane, entered, panel, keys>> /\ tui' \in {"read", "dispatch"}
        /\ screen' \in {screen, panel, None}
    BY Zenon, <1>13 DEF DrawFrame, LoseFrame, AfterDraw
  <2> QED BY <1>0, <2>1 DEF LoopOK
<1>11. CASE KeyYes \/ KeyNo \/ KeyCancel
  BY <1>0, <1>11, ParametersAssumption DEF LoopOK, KeyYes, KeyNo, KeyCancel, Decide, ReadKey, Resolve, HidePanel
<1>12. CASE CancelRun \/ (\E line \in Lines : Enter(line))
  <2>1. /\ tui' = "drain" /\ UNCHANGED <<slot, lane, panel, screen>>
        /\ entered' \in Lines \cup {None} /\ keys < MaxKeys /\ keys' = keys + 1
    BY <1>0, <1>12 DEF CancelRun, Enter, ReadKey, LoopOK
  <2>2. keys' \in 0 .. MaxKeys
    BY <1>0, <2>1, ParametersAssumption DEF LoopOK
  <2> QED BY <1>0, <2>1, <2>2 DEF LoopOK
<1>14. CASE Submit \/ NotNow \/ Retry \/ FreshTask
  <2>1. <<>> \in Seq(Event)
    OBVIOUS
  <2>2. /\ tui' \in {"drain", "stuck"} /\ entered' = None /\ lane' \in {lane, <<>>}
        /\ UNCHANGED <<slot, screen, keys>> /\ panel' \in {panel, None}
    BY <1>14 DEF Submit, NotNow, Retry, FreshTask, Dispatch, Resolve, HidePanel
  <2>3. lane' \in Seq(Event)
    BY <1>0, <2>1, <2>2 DEF LoopOK
  <2> QED BY <1>0, <2>2, <2>3 DEF LoopOK
<1> QED BY <1>1, <1>4, <1>5, <1>6, <1>7, <1>8, <1>9, <1>10, <1>11, <1>12, <1>13, <1>14
    DEF Next, Task, Loop, vars

-----------------------------------------------------------------------------
(* What a step does to the prompts.                                        *)

(* No step takes a prompt back: it stays as far as it was, keeps the way it *)
(* asks, and what was left behind stays left behind.                        *)
LEMMA Onward ==
    ASSUME Inv, [Next]_vars
    PROVE  /\ calls <= calls' /\ dropped \subseteq dropped'
           /\ \A q \in Calls : step[q] # "none" => way'[q] = way[q] /\ step'[q] # "none"
           /\ \A q \in Calls : LeftBehind(q, "future") => LeftBehind(q, "future")'
           /\ \A q \in Calls : step[q] \notin {"none", "queued", "claimed"}
                                => step'[q] \notin {"none", "queued", "claimed"}
           /\ \A q \in Calls : step[q] \in {"finished", "ended"} => step'[q] \in {"finished", "ended"}
<1>0. PromptsOK /\ AgentOK /\ OnePrompt
  BY TypeParts DEF Inv
<1>1. /\ dropped' = dropped \/ dropped' = dropped \cup {calls}
      /\ \/ UNCHANGED <<calls, way>>
         \/ /\ calls < MaxCalls /\ calls' = calls + 1
            /\ \E w \in {"thread", "future"} : way' = [way EXCEPT ![calls'] = w]
  BY DEF Next, Thread, Claim, ClaimRefused, EmitRequest, Receive, Expire, Disconnect, Receives,
        EmitFinish, Release, Forget, Task, AskOnThread, AskInTask, AskInTaskRefused, ResumeThread,
        ResumeTask, EndRun, Unwind, Loop,
        ApplyRequest, ApplyFinish, Drained, DrawFrame, LoseFrame, SkipFrame, SwallowKey, KeyYes, KeyNo,
        KeyCancel, CancelRun, Enter, Submit, StartRun, NotNow, Retry, RetryLocks, FreshTask, EndRead, Decide, vars, agent
<1>2. \A q \in Calls : step[q] # "none" \/ q \in dropped => q # calls + 1
  BY <1>0, ParametersAssumption DEF OnePrompt, AgentOK, Calls
<1>3. ASSUME calls < MaxCalls, calls' = calls + 1 PROVE calls' \in Calls /\ step[calls'] = "none"
  BY <1>0, <1>2, <1>3, ParametersAssumption DEF Calls, AgentOK
<1>4. calls <= calls' /\ dropped \subseteq dropped'
  BY <1>0, <1>1, ParametersAssumption DEF AgentOK
<1>5. \A q \in Calls : step[q] # "none" \/ q \in dropped => way'[q] = way[q]
  BY <1>0, <1>1, <1>2 DEF AgentOK
<1>6. \A q \in Calls : LeftBehind(q, "future") => LeftBehind(q, "future")'
  BY <1>4, <1>5 DEF LeftBehind
<1>7. \/ step' = step
      \/ \E r \in Calls, s \in Steps : step' = [step EXCEPT ![r] = s] /\ <<step[r], s>> \in
            {<<"none", "queued">>, <<"none", "waiting">>, <<"none", "ended">>, <<"queued", "claimed">>,
             <<"queued", "ended">>, <<"claimed", "waiting">>, <<"waiting", "answered">>,
             <<"answered", "finished">>, <<"answered", "ended">>, <<"finished", "ended">>}
  <2> USE DEF Move, Steps
  <2>1. ASSUME NEW r \in Calls, Thread(r) PROVE <1>7
    BY <2>1 DEF Thread, Claim, ClaimRefused, EmitRequest, Receive, Expire, Disconnect, Receives,
                EmitFinish, Release, Forget
  <2>2. CASE AskOnThread \/ AskInTask \/ AskInTaskRefused
    BY <1>3, <2>2 DEF AskOnThread, AskInTask, AskInTaskRefused
  <2>3. CASE ResumeTask
    BY <1>0, <2>3 DEF ResumeTask, OnePrompt
  <2> QED BY <2>1, <2>2, <2>3
     DEF Next, Task, ResumeThread, EndRun, Unwind, Loop,
        ApplyRequest, ApplyFinish, Drained, DrawFrame, LoseFrame, SkipFrame, SwallowKey, KeyYes, KeyNo,
        KeyCancel, CancelRun, Enter, Submit, NotNow, Retry, RetryLocks, FreshTask, EndRead, Decide, vars, prompts
<1> QED BY <1>0, <1>4, <1>5, <1>6, <1>7 DEF PromptsOK

(* One prompt of a living run at a time, whatever was left behind: what a   *)
(* prompt does keeps the slot with it, and the run waits until it ended.    *)
LEMMA PromptNext == Inv /\ [Next]_vars => OnePrompt'
<1> SUFFICES ASSUME Inv, [Next]_vars PROVE OnePrompt'
  OBVIOUS
<1>0. PromptsOK /\ AgentOK /\ LoopOK /\ OnePrompt /\ None \notin Calls
  BY TypeParts, ParametersAssumption DEF Inv, Calls
<1> USE DEF OnePrompt, Holding, LeftBehind, Busy
<1>1. CASE UNCHANGED <<step, way, calls, dropped, slot>> /\ (run' = run \/ (run # "waiting" /\ run' # "waiting"))
  BY <1>0, <1>1
<1>2. ASSUME NEW r \in Calls, Thread(r) PROVE OnePrompt'
  <2>0. UNCHANGED agent /\ step \in [Calls -> Steps]
    BY <1>0, <1>2 DEF PromptsOK, Thread, Claim, ClaimRefused, EmitRequest, Receive, Expire, Disconnect, Receives,
                EmitFinish, Release, Forget
  <2>1. CASE Claim(r)
    BY <1>0, <2>0, <2>1 DEF Claim, Move, agent
  <2>2. CASE ClaimRefused(r)
    BY <1>0, <2>0, <2>2 DEF ClaimRefused, Move, agent
  <2>3. CASE EmitRequest(r)
    BY <1>0, <2>0, <2>3 DEF EmitRequest, Move, agent
  <2>4. CASE Receive(r) \/ Expire(r) \/ Disconnect(r)
    BY <1>0, <2>0, <2>4 DEF Receive, Expire, Disconnect, Receives, Move, agent
  <2>5. CASE EmitFinish(r)
    BY <1>0, <2>0, <2>5 DEF EmitFinish, Move, agent
  <2>6. CASE Release(r)
    BY <1>0, <2>0, <2>6 DEF Release, Move, agent
  <2>7. CASE Forget(r)
    BY <1>0, <2>0, <2>7 DEF Forget, Move, agent
  <2> QED BY <1>2, <2>1, <2>2, <2>3, <2>4, <2>5, <2>6, <2>7 DEF Thread
<1>3. CASE AskOnThread \/ AskInTask \/ AskInTaskRefused
  <2> DEFINE c == calls + 1
  <2>1. /\ c \in Calls /\ calls' = c /\ calls < c /\ calls \in Nat /\ run = "working" /\ dropped' = dropped
        /\ c \notin dropped /\ step[c] = "none" /\ \A q \in Calls : q <= calls => q <= c
        /\ slot # c
    BY <1>0, <1>3, ParametersAssumption DEF AgentOK, Calls, AskOnThread, AskInTask, AskInTaskRefused
  <2> HIDE DEF c
  <2>2. step \in [Calls -> Steps] /\ way \in [Calls -> {None, "thread", "future"}]
    BY <1>0 DEF PromptsOK, AgentOK
  <2>3. CASE AskOnThread
    BY <1>0, <2>1, <2>2, <2>3 DEF AskOnThread, Move
  <2>4. CASE AskInTask
    BY <1>0, <2>1, <2>2, <2>4 DEF AskInTask, Move
  <2>5. CASE AskInTaskRefused
    BY <1>0, <2>1, <2>2, <2>5 DEF AskInTaskRefused, Move
  <2> QED BY <1>3, <2>3, <2>4, <2>5
<1>4. CASE ResumeThread
  BY <1>0, <1>4 DEF ResumeThread, prompts
<1>5. CASE ResumeTask
  BY <1>0, <1>5 DEF ResumeTask, Move, PromptsOK
<1>6. CASE Unwind
  <2>1. CASE run = "waiting"
    BY <1>0, <1>6, <2>1 DEF Unwind, SlotAfterDrop, prompts
  <2>2. CASE run # "waiting"
    BY <1>0, <1>6, <2>2 DEF Unwind, prompts
  <2> QED BY <2>1, <2>2
<1>7. CASE Loop \/ EndRun \/ UNCHANGED vars
  <2>1. UNCHANGED <<step, way, calls, dropped, slot>> /\ (run' = run \/ (run # "waiting" /\ run' # "waiting"))
    <3>1. CASE EndRun \/ Submit \/ RetryLocks
      BY <3>1 DEF EndRun, Submit, RetryLocks, StartRun, prompts
    <3>2. CASE KeyYes \/ KeyNo \/ KeyCancel \/ CancelRun
      BY <3>2 DEF KeyYes, KeyNo, KeyCancel, Decide, CancelRun, agent, prompts
    <3>3. CASE SwallowKey \/ (\E line \in Lines : Enter(line)) \/ NotNow \/ Retry \/ FreshTask \/ EndRead
      BY <3>3 DEF SwallowKey, Enter, NotNow, Retry, FreshTask, EndRead, agent, prompts
    <3>4. CASE ApplyRequest \/ ApplyFinish \/ Drained \/ DrawFrame \/ LoseFrame \/ SkipFrame
      BY <3>4 DEF ApplyRequest, ApplyFinish, Drained, DrawFrame, LoseFrame, SkipFrame, agent, prompts
    <3>5. CASE UNCHANGED vars
      BY <3>5 DEF vars, agent, prompts
    <3> QED BY <1>7, <3>1, <3>2, <3>3, <3>4, <3>5 DEF Loop
  <2> QED BY <1>1, <2>1
<1> QED BY <1>2, <1>3, <1>4, <1>5, <1>6, <1>7 DEF Next, Task

-----------------------------------------------------------------------------
(* The questions on the terminal's side.                                   *)

(* The parts of OneQuestion.                                                *)
EventsTold ==
    \A i \in DOMAIN lane :
       /\ step[lane[i].id] \notin {"none", "queued", "claimed"}
       /\ lane[i].kind = "finished" => step[lane[i].id] \in {"finished", "ended"}
PanelAsked == panel # None => step[panel] \notin {"none", "queued", "claimed"}
OverWithoutSlot ==
    \A q \in Calls, i \in 0 .. Len(lane) :
       Shown(q, i) /\ (slot # q \/ step[q] = "finished") => LeftBehind(q, "future") \/ Over(q, i, Len(lane) + 1)
OverBeforeNext ==
    \A q \in Calls, i \in 0 .. Len(lane) : \A j \in (i + 1) .. Len(lane) :
       Shown(q, i) /\ lane[j].kind = "asked" => LeftBehind(q, "future") \/ Over(q, i, j)
LaneInv == EventsTold /\ PanelAsked /\ OverWithoutSlot /\ OverBeforeNext /\ EndsLast

(* OneQuestion in parts, each preserved for its own reason.                 *)
LEMMA QuestionParts == OneQuestion <=> EventsTold /\ PanelAsked /\ OverWithoutSlot /\ OverBeforeNext
BY DEF OneQuestion, EventsTold, PanelAsked, OverWithoutSlot, OverBeforeNext

(* A step that leaves the lane alone, and the panel or hides it.           *)
LEMMA LaneKept ==
    ASSUME Inv, [Next]_vars, lane' = lane, panel' \in {panel, None},
           \A q \in Calls : slot' # q \/ step'[q] = "finished"
                           => slot # q \/ step[q] = "finished" \/ LeftBehind(q, "future")'
    PROVE  LaneInv'
<1>0. EventsTold /\ PanelAsked /\ OverWithoutSlot /\ OverBeforeNext /\ EndsLast /\ LoopOK /\ None \notin Calls
  BY TypeParts, QuestionParts, ParametersAssumption DEF Inv, Calls
<1>1. \A i \in DOMAIN lane : lane[i].id \in Calls
  <2>1. lane \in Seq(Event) /\ DOMAIN lane = 1 .. Len(lane)
    BY <1>0, LenProperties DEF LoopOK
  <2>2. \A i \in DOMAIN lane : lane[i] \in Event
    BY <2>1
  <2> QED BY <2>2, EventKinds
<1>2. EventsTold' /\ EndsLast'
  BY <1>0, <1>1, Onward DEF EventsTold, EndsLast
<1>3. PanelAsked'
  BY <1>0, Onward DEF PanelAsked, LoopOK
<1>4. ASSUME NEW q \in Calls, NEW i \in Nat, Shown(q, i)' PROVE Shown(q, i)
  BY <1>0, <1>4 DEF Shown
<1>5. \A q, i, j : Over(q, i, j) <=> Over(q, i, j)'
  BY DEF Over
<1>6. OverWithoutSlot'
  BY <1>0, <1>4, <1>5, Onward DEF OverWithoutSlot
<1>7. OverBeforeNext'
  BY <1>0, <1>4, <1>5, Onward DEF OverBeforeNext
<1> QED BY <1>2, <1>3, <1>6, <1>7 DEF LaneInv

(* A question that gets into the lane: every one before it is over, because *)
(* the prompt that asks holds the slot.                                     *)
LEMMA LaneAsked ==
    ASSUME Inv, [Next]_vars, NEW r \in Calls, lane' = Append(lane, Asked(r)), panel' = panel,
           step[r] \in {"none", "claimed"}, slot \in {None, r}, slot' = r,
           step' = [step EXCEPT ![r] = "waiting"]
    PROVE  LaneInv'
<1>0. EventsTold /\ PanelAsked /\ OverWithoutSlot /\ OverBeforeNext /\ EndsLast /\ LoopOK /\ PromptsOK /\ None \notin Calls
  BY TypeParts, QuestionParts, ParametersAssumption DEF Inv, Calls
<1>n. PICK n \in Nat : n = Len(lane)
  BY <1>0, LenProperties DEF LoopOK
<1>1. /\ n = Len(lane) /\ Len(lane') = n + 1 /\ lane'[n + 1] = Asked(r)
      /\ \A i \in 1 .. n : lane'[i] = lane[i] /\ lane[i] \in Event
      /\ DOMAIN lane = 1 .. n /\ DOMAIN lane' = 1 .. (n + 1)
  BY <1>0, <1>n, EventTypes, AppendProperties DEF LoopOK
<1>2. Asked(r).kind = "asked" /\ Asked(r).id = r /\ \A e \in Event : e.id \in Calls
  BY EventTypes, EventKinds
<1>3. \A i \in 1 .. n : lane[i].id # r
  BY <1>0, <1>1, <1>2 DEF EventsTold
<1>4. panel # r
  BY <1>0 DEF PanelAsked
<1>5. \A q \in Calls : q # r => step'[q] = step[q]
  BY <1>0 DEF PromptsOK
<1>6. step'[r] = "waiting"
  BY <1>0 DEF PromptsOK
<1>7. EventsTold'
  BY <1>0, <1>1, <1>2, <1>5, <1>6 DEF EventsTold
<1>8. EndsLast'
  BY <1>0, <1>1, <1>2, <1>3 DEF EndsLast
<1>9. PanelAsked'
  BY <1>0, <1>4, <1>5, <1>6 DEF PanelAsked, LoopOK
<1>10. ASSUME NEW q \in Calls, NEW i \in 0 .. n PROVE Shown(q, i)' <=> Shown(q, i)
  BY <1>1, <1>10 DEF Shown
<1>11. ASSUME NEW q \in Calls, NEW i \in 0 .. n, NEW j \in 0 .. (n + 1), Over(q, i, j) PROVE Over(q, i, j)'
  BY <1>1, <1>11 DEF Over
<1>12. \A q \in Calls, i \in 0 .. n : Shown(q, i) => q # r
  BY <1>1, <1>2, <1>3, <1>4 DEF Shown
<1>13. \A q \in Calls, i \in 0 .. n : Shown(q, i) => LeftBehind(q, "future")' \/ Over(q, i, n + 1)'
  BY <1>0, <1>1, <1>11, <1>12, Onward DEF OverWithoutSlot
<1>14. \A q \in Calls, i \in 0 .. n : Over(q, i, n + 1)' => Over(q, i, n + 2)'
  BY <1>1 DEF Over
<1>15. OverWithoutSlot'
  <2> SUFFICES ASSUME NEW q \in Calls, NEW i \in 0 .. Len(lane'), Shown(q, i)',
                      slot' # q \/ step'[q] = "finished"
               PROVE  LeftBehind(q, "future")' \/ Over(q, i, Len(lane) + 1)'
    BY DEF OverWithoutSlot
  <2>1. q # r
    BY <1>6
  <2>2. i # n + 1
    BY <1>1, <1>2, <2>1, EventTypes DEF Shown
  <2>3. i \in 0 .. n
    BY <1>1, <2>2
  <2> QED BY <1>1, <1>10, <1>13, <1>14, <2>3
<1>16. OverBeforeNext'
  <2> SUFFICES ASSUME NEW q \in Calls, NEW i \in 0 .. Len(lane'), NEW j \in (i + 1) .. Len(lane'),
                      Shown(q, i)', lane'[j].kind = "asked"
               PROVE  LeftBehind(q, "future")' \/ Over(q, i, j)'
    BY DEF OverBeforeNext
  <2>1. i \in 0 .. n
    BY <1>1
  <2>2. CASE j = n + 1
    BY <1>10, <1>13, <2>1, <2>2
  <2>3. CASE j # n + 1
    <3>1. j \in (i + 1) .. n /\ lane[j].kind = "asked"
      BY <1>1, <2>3
    <3>2. LeftBehind(q, "future") \/ Over(q, i, j)
      BY <1>0, <1>1, <1>10, <2>1, <3>1 DEF OverBeforeNext
    <3> QED BY <1>1, <1>11, <2>1, <3>1, <3>2, Onward
  <2> QED BY <2>2, <2>3
<1> QED BY <1>7, <1>8, <1>9, <1>15, <1>16 DEF LaneInv

(* The end of a prompt that gets into the lane is behind its question.     *)
LEMMA LaneFinished ==
    ASSUME Inv, [Next]_vars, NEW r \in Calls, lane' = Append(lane, Finished(r)), panel' = panel,
           step[r] = "answered", step'[r] \in {"finished", "ended"},
           \A q \in Calls \ {r} : step'[q] = step[q],
           slot' = slot \/ (slot' = None /\ slot = r)
    PROVE  LaneInv'
<1>0. EventsTold /\ PanelAsked /\ OverWithoutSlot /\ OverBeforeNext /\ EndsLast /\ LoopOK /\ PromptsOK /\ None \notin Calls
  BY TypeParts, QuestionParts, ParametersAssumption DEF Inv, Calls
<1>n. PICK n \in Nat : n = Len(lane)
  BY <1>0, LenProperties DEF LoopOK
<1>1. /\ n = Len(lane) /\ Len(lane') = n + 1 /\ lane'[n + 1] = Finished(r)
      /\ \A i \in 1 .. n : lane'[i] = lane[i] /\ lane[i] \in Event
      /\ DOMAIN lane = 1 .. n /\ DOMAIN lane' = 1 .. (n + 1)
  BY <1>0, <1>n, EventTypes, AppendProperties DEF LoopOK
<1>2. /\ Finished(r).kind = "finished" /\ Finished(r).id = r
      /\ \A e \in Event : e.id \in Calls
      /\ \A q \in Calls : Finished(r) # Asked(q)
  BY EventTypes, EventKinds
<1>3. \A i \in 1 .. n : lane[i].id = r => lane[i].kind # "finished"
  BY <1>0, <1>1 DEF EventsTold
<1>7. EventsTold'
  BY <1>0, <1>1, <1>2 DEF EventsTold
<1>8. EndsLast'
  BY <1>0, <1>1, <1>2, <1>3 DEF EndsLast
<1>9. PanelAsked'
  BY <1>0 DEF PanelAsked, LoopOK
<1>10. ASSUME NEW q \in Calls, NEW i \in 0 .. (n + 1), Shown(q, i)' PROVE i \in 0 .. n /\ Shown(q, i)
  BY <1>1, <1>2, <1>10 DEF Shown
<1>11. ASSUME NEW q \in Calls, NEW i \in 0 .. n, NEW j \in 0 .. (n + 1), Over(q, i, j) PROVE Over(q, i, j)'
  BY <1>1, <1>11 DEF Over
<1>12. ASSUME NEW i \in 0 .. n PROVE Over(r, i, n + 2)'
  BY <1>1, <1>12 DEF Over
<1>14. \A q \in Calls, i \in 0 .. n : Over(q, i, n + 1)' => Over(q, i, n + 2)'
  BY <1>1 DEF Over
<1>15. OverWithoutSlot'
  <2> SUFFICES ASSUME NEW q \in Calls, NEW i \in 0 .. Len(lane'), Shown(q, i)',
                      slot' # q \/ step'[q] = "finished"
               PROVE  LeftBehind(q, "future")' \/ Over(q, i, Len(lane) + 1)'
    BY DEF OverWithoutSlot
  <2>1. i \in 0 .. n /\ Shown(q, i)
    BY <1>1, <1>10
  <2>2. CASE q = r
    BY <1>1, <1>12, <2>1, <2>2
  <2>3. CASE q # r
    <3>1. slot # q \/ step[q] = "finished"
      BY <2>3
    <3>2. LeftBehind(q, "future") \/ Over(q, i, n + 1)
      BY <1>0, <1>1, <2>1, <3>1 DEF OverWithoutSlot
    <3> QED BY <1>1, <1>11, <1>14, <2>1, <3>2, Onward
  <2> QED BY <2>2, <2>3
<1>16. OverBeforeNext'
  <2> SUFFICES ASSUME NEW q \in Calls, NEW i \in 0 .. Len(lane'), NEW j \in (i + 1) .. Len(lane'),
                      Shown(q, i)', lane'[j].kind = "asked"
               PROVE  LeftBehind(q, "future")' \/ Over(q, i, j)'
    BY DEF OverBeforeNext
  <2>1. i \in 0 .. n /\ Shown(q, i)
    BY <1>1, <1>10
  <2>2. j \in (i + 1) .. n /\ lane[j].kind = "asked"
    BY <1>1, <1>2
  <2>3. LeftBehind(q, "future") \/ Over(q, i, j)
    BY <1>0, <1>1, <2>1, <2>2 DEF OverBeforeNext
  <2> QED BY <1>1, <1>11, <2>1, <2>2, <2>3, Onward
<1> QED BY <1>7, <1>8, <1>9, <1>15, <1>16 DEF LaneInv

(* The loop takes an event: what it showed moves one place nearer, and the  *)
(* end of the prompt of the panel hides the panel.                          *)
LEMMA LanePopped ==
    ASSUME Inv, [Next]_vars, lane # <<>>, lane' = Tail(lane), UNCHANGED <<step, slot>>,
           \/ lane[1].kind = "asked" /\ panel = None /\ panel' = lane[1].id
           \/ panel' = panel /\ lane[1] # Finished(panel)
           \/ panel' = None
    PROVE  LaneInv'
<1>0. EventsTold /\ PanelAsked /\ OverWithoutSlot /\ OverBeforeNext /\ EndsLast /\ LoopOK /\ PromptsOK /\ None \notin Calls
  BY TypeParts, QuestionParts, ParametersAssumption DEF Inv, Calls
<1>n. PICK n \in Nat : n = Len(lane)
  BY <1>0, LenProperties DEF LoopOK
<1>1. /\ n = Len(lane) /\ n >= 1 /\ Len(lane') = n - 1
      /\ \A i \in 1 .. n : lane[i] \in Event
      /\ \A i \in 1 .. (n - 1) : lane'[i] = lane[i + 1]
      /\ DOMAIN lane = 1 .. n /\ DOMAIN lane' = 1 .. (n - 1)
  BY <1>0, <1>n, HeadTailProperties, LenProperties DEF LoopOK
<1>2. EventsTold' /\ EndsLast'
  BY <1>0, <1>1 DEF EventsTold, EndsLast
<1>3. PanelAsked'
  BY <1>0, <1>1 DEF PanelAsked, EventsTold
<1>4. ASSUME NEW q \in Calls, NEW i \in 0 .. (n - 1), Shown(q, i)'
      PROVE  \E h \in 0 .. n : Shown(q, h) /\ (h = i + 1 \/ (h = 0 /\ i = 0 /\ lane[1] # Finished(q)))
  <2>1. CASE i # 0
    BY <1>1, <1>4, <2>1 DEF Shown
  <2>2. CASE i = 0 /\ panel = q
    BY <1>0, <1>1, <1>4, <2>2 DEF Shown
  <2>3. CASE i = 0 /\ panel # q
    <3>1. lane[1].kind = "asked" /\ lane[1].id = q
      BY <1>0, <1>4, <2>3 DEF Shown
    <3>2. lane[1] = Asked(q)
      BY <1>1, <3>1, EventKinds
    <3> QED BY <1>1, <2>3, <3>2 DEF Shown
  <2> QED BY <2>1, <2>2, <2>3
<1>5. ASSUME NEW q \in Calls, NEW i \in 0 .. (n - 1), NEW h \in 0 .. n, NEW j \in 1 .. n, Over(q, h, j + 1),
             h = i + 1 \/ (h = 0 /\ i = 0 /\ lane[1] # Finished(q))
      PROVE  Over(q, i, j)'
  <2>1. PICK k \in (h + 1) .. j : lane[k] = Finished(q)
    BY <1>5 DEF Over
  <2>2. k - 1 \in (i + 1) .. (j - 1) /\ k - 1 \in 1 .. (n - 1)
    BY <1>1, <1>5, <2>1
  <2> QED BY <1>1, <2>1, <2>2 DEF Over
<1>6. OverWithoutSlot'
  <2> SUFFICES ASSUME NEW q \in Calls, NEW i \in 0 .. Len(lane'), Shown(q, i)',
                      slot' # q \/ step'[q] = "finished"
               PROVE  LeftBehind(q, "future")' \/ Over(q, i, Len(lane) + 1)'
    BY DEF OverWithoutSlot
  <2>1. PICK h \in 0 .. n : Shown(q, h) /\ (h = i + 1 \/ (h = 0 /\ i = 0 /\ lane[1] # Finished(q)))
    BY <1>1, <1>4
  <2>2. LeftBehind(q, "future") \/ Over(q, h, n + 1)
    BY <1>0, <1>1, <2>1 DEF OverWithoutSlot
  <2> QED BY <1>1, <1>5, <2>1, <2>2, Onward
<1>7. OverBeforeNext'
  <2> SUFFICES ASSUME NEW q \in Calls, NEW i \in 0 .. Len(lane'), NEW j \in (i + 1) .. Len(lane'),
                      Shown(q, i)', lane'[j].kind = "asked"
               PROVE  LeftBehind(q, "future")' \/ Over(q, i, j)'
    BY DEF OverBeforeNext
  <2>1. PICK h \in 0 .. n : Shown(q, h) /\ (h = i + 1 \/ (h = 0 /\ i = 0 /\ lane[1] # Finished(q)))
    BY <1>1, <1>4
  <2>2. j + 1 \in (h + 1) .. n /\ lane[j + 1].kind = "asked" /\ j \in 1 .. n
    BY <1>1, <2>1
  <2>3. LeftBehind(q, "future") \/ Over(q, h, j + 1)
    BY <1>0, <1>1, <2>1, <2>2 DEF OverBeforeNext
  <2> QED BY <1>1, <1>5, <2>1, <2>2, <2>3, Onward
<1> QED BY <1>2, <1>3, <1>6, <1>7 DEF LaneInv

(* Questions reach the terminal one at a time: the asker holds the slot, a  *)
(* finished prompt has told its end, and an end that is taken hides its     *)
(* panel.                                                                   *)
LEMMA LaneNext == Inv /\ [Next]_vars => LaneInv'
<1> SUFFICES ASSUME Inv, [Next]_vars PROVE LaneInv'
  OBVIOUS
<1>0. /\ PromptsOK /\ AgentOK /\ LoopOK /\ OnePrompt /\ None \notin Calls
      /\ EventsTold /\ PanelAsked /\ OverWithoutSlot /\ OverBeforeNext /\ EndsLast
  BY TypeParts, QuestionParts, ParametersAssumption DEF Inv, Calls
<1>1. CASE UNCHANGED <<step, slot, lane>> /\ panel' \in {panel, None}
  BY <1>1, LaneKept
<1>2. ASSUME NEW r \in Calls, Thread(r) PROVE LaneInv'
  <2>1. CASE EmitRequest(r)
    BY <1>0, <2>1, LaneAsked DEF EmitRequest, Move, loop, OnePrompt, Holding, LeftBehind
  <2>2. CASE EmitFinish(r)
    BY <1>0, <2>2, LaneFinished DEF EmitFinish, Move, loop, PromptsOK
  <2>3. CASE Release(r)
    <3>1. lane' = lane /\ panel' = panel /\ slot' = None /\ step[r] = "finished" /\ step' = [step EXCEPT ![r] = "ended"]
      BY <2>3 DEF Release, Move, loop
    <3>2. slot = r
      BY <1>0, <3>1 DEF OnePrompt, Holding, LeftBehind
    <3> QED BY <1>0, <3>1, <3>2, LaneKept DEF PromptsOK
  <2>4. CASE Claim(r)
    BY <1>0, <2>4, LaneKept DEF Claim, Move, loop, PromptsOK
  <2>5. CASE ClaimRefused(r)
    BY <1>0, <2>5, LaneKept DEF ClaimRefused, Move, loop, PromptsOK
  <2>6. CASE Receive(r) \/ Expire(r) \/ Disconnect(r)
    BY <1>0, <2>6, LaneKept DEF Receive, Expire, Disconnect, Receives, Move, loop, PromptsOK
  <2>7. CASE Forget(r)
    BY <1>0, <2>7, LaneKept DEF Forget, Move, loop, PromptsOK
  <2> QED BY <1>2, <2>1, <2>2, <2>3, <2>4, <2>5, <2>6, <2>7 DEF Thread
<1>3. ASSUME calls < MaxCalls, calls' = calls + 1 PROVE calls' \in Calls /\ step[calls'] = "none" /\ calls' # slot
  BY <1>0, <1>3, ParametersAssumption DEF AgentOK, Calls, OnePrompt, Holding
<1>4. CASE AskInTask
  BY <1>0, <1>3, <1>4, LaneAsked DEF AskInTask, Move, loop
<1>5. CASE AskOnThread \/ AskInTaskRefused
  BY <1>0, <1>3, <1>5, LaneKept DEF AskOnThread, AskInTaskRefused, Move, loop, PromptsOK
<1>6. CASE ResumeTask
  <2>1. /\ calls \in Calls \ dropped /\ step[calls] = "answered" /\ step' = [step EXCEPT ![calls] = "ended"]
        /\ lane' = Append(lane, Finished(calls)) /\ panel' = panel /\ slot' = None
    BY <1>0, <1>6 DEF ResumeTask, OnePrompt, Move, loop
  <2>2. slot = calls
    BY <1>0, <2>1 DEF OnePrompt, Holding, LeftBehind
  <2>3. PICK r \in Calls : r = calls
    BY <2>1
  <2> QED BY <1>0, <2>1, <2>2, <2>3, LaneFinished DEF PromptsOK
<1>7. CASE Unwind
  <2>1. lane' = lane /\ panel' = panel /\ step' = step /\ way' = way
    BY <1>7 DEF Unwind, prompts, loop
  <2>2. \A q \in Calls : slot' # q => slot # q \/ LeftBehind(q, "future")'
    BY <1>0, <1>7, <2>1 DEF Unwind, SlotAfterDrop, OnePrompt, Holding, Busy, LeftBehind
  <2> QED BY <2>1, <2>2, LaneKept
<1>8. CASE ApplyRequest
  <2>1. lane[1] = Head(lane) /\ Head(lane).kind # "finished"
    BY <1>8 DEF ApplyRequest
  <2>2. lane[1] # Finished(panel)
    BY <2>1 DEF Finished
  <2> QED BY <1>8, <2>1, <2>2, LanePopped DEF ApplyRequest, ShowPanel, prompts
<1>9. CASE ApplyFinish
  <2>1. panel' = None \/ (panel' = panel /\ Head(lane).id # panel)
    BY <1>9 DEF ApplyFinish, HidePanel
  <2>2. lane[1] = Head(lane) /\ Finished(panel).id = panel
    BY <1>9 DEF ApplyFinish, Finished
  <2> QED BY <1>9, <2>1, <2>2, LanePopped DEF ApplyFinish, prompts
<1>10. CASE FreshTask
  <2>1. lane' = <<>> /\ Len(lane') = 0 /\ DOMAIN lane' = {} /\ panel' = None
    BY <1>10 DEF FreshTask, Resolve, HidePanel
  <2> QED BY <1>0, <2>1
    DEF LaneInv, EventsTold, PanelAsked, OverWithoutSlot, OverBeforeNext, EndsLast, Shown
<1>11. CASE KeyYes \/ KeyNo \/ KeyCancel
  BY <1>1, <1>11 DEF KeyYes, KeyNo, KeyCancel, Decide, Resolve, HidePanel, prompts
<1>12. CASE Drained \/ DrawFrame \/ LoseFrame \/ SkipFrame
  BY <1>1, <1>12 DEF Drained, DrawFrame, LoseFrame, SkipFrame, prompts
<1>13. CASE SwallowKey \/ CancelRun \/ (\E line \in Lines : Enter(line)) \/ Submit \/ NotNow \/ Retry \/ RetryLocks \/ EndRead
  BY <1>1, <1>13 DEF SwallowKey, CancelRun, Enter, Submit, NotNow, Retry, RetryLocks, EndRead, prompts
<1>14. CASE ResumeThread \/ EndRun \/ UNCHANGED vars
  BY <1>1, <1>14 DEF ResumeThread, EndRun, vars, prompts, loop
<1> QED BY <1>2, <1>4, <1>5, <1>6, <1>7, <1>8, <1>9, <1>10, <1>11, <1>12, <1>13, <1>14 DEF Next, Task, Loop

-----------------------------------------------------------------------------
(* The screen.                                                             *)

(* The panel takes keys only after a frame that shows it, and a frame that  *)
(* was lost is known to be.                                                 *)
LEMMA DrawnNext == Inv /\ [Next]_vars => DrawnIsShown' /\ DrawnPanel'
<1> SUFFICES ASSUME Inv, [Next]_vars PROVE DrawnIsShown' /\ DrawnPanel'
  OBVIOUS
<1>0. DrawnIsShown /\ DrawnPanel
  BY TypeParts DEF Inv
<1> USE DEF DrawnIsShown, DrawnPanel
<1>1. CASE UNCHANGED <<panel, drawn, screen, desynced>>
  BY Zenon, <1>0, <1>1
<1>2. CASE drawn' = FALSE
  BY Zenon, <1>2
<1>3. CASE DrawFrame
  BY <1>0, <1>3 DEF DrawFrame, Fits
<1>4. CASE LoseFrame
  <2>1. desynced' = TRUE /\ panel' = panel /\ (drawn' \in Fits \/ drawn' = drawn)
    BY Zenon, <1>4 DEF LoseFrame
  <2>2. DrawnIsShown'
    BY Zenon, <2>1
  <2>3. CASE drawn' \in Fits
    BY <2>1, <2>2, <2>3 DEF Fits
  <2>4. CASE drawn' = drawn
    BY Zenon, <1>0, <2>1, <2>2, <2>4
  <2> QED BY <2>1, <2>3, <2>4
<1>5. CASE ApplyRequest \/ ApplyFinish
  BY Zenon, <1>1, <1>2, <1>5 DEF ApplyRequest, ApplyFinish, ShowPanel, HidePanel
<1>6. CASE KeyYes \/ KeyNo \/ KeyCancel
  BY Zenon, <1>2, <1>6 DEF KeyYes, KeyNo, KeyCancel, Decide, Resolve, HidePanel
<1>7. ASSUME NEW r \in Calls, Thread(r) PROVE UNCHANGED loop
  BY <1>7 DEF Thread, Claim, ClaimRefused, EmitRequest, Receive, Expire, Disconnect, Receives,
              EmitFinish, Release, Forget
<1>8. Task \/ UNCHANGED vars => UNCHANGED loop
  BY DEF Task, AskOnThread, AskInTask, AskInTaskRefused, ResumeThread, ResumeTask, EndRun, Unwind, vars
<1>9. CASE Drained \/ SkipFrame \/ SwallowKey \/ CancelRun \/ (\E line \in Lines : Enter(line)) \/ EndRead
  BY Zenon, <1>1, <1>9 DEF Drained, SkipFrame, SwallowKey, CancelRun, Enter, EndRead
<1>10. CASE Submit \/ NotNow \/ Retry \/ RetryLocks \/ FreshTask
  BY Zenon, <1>1, <1>2, <1>10 DEF Submit, NotNow, Retry, RetryLocks, FreshTask, Resolve, HidePanel
<1> QED BY <1>1, <1>3, <1>4, <1>5, <1>6, <1>7, <1>8, <1>9, <1>10 DEF Next, Loop, loop

(* Every step keeps the invariant.                                          *)
LEMMA InvNext == Inv /\ [Next]_vars => Inv'
<1> SUFFICES ASSUME Inv, [Next]_vars PROVE Inv'
  OBVIOUS
<1>1. FlagsOK /\ FlagsOK'
  BY FlagsNext, TypeParts DEF Inv
<1>2. OnePrompt' => (TypeOK' <=> FlagsOK' /\ AgentOK' /\ PromptsOK' /\ LoopOK' /\ EndsLast' /\ DrawnPanel')
  BY TypeParts, PTL
<1>3. LaneInv' => OneQuestion' /\ EndsLast'
  BY QuestionParts, PTL DEF LaneInv
<1> QED BY <1>1, <1>2, <1>3, AgentNext, PromptsNext, LoopNext, PromptNext, LaneNext, DrawnNext DEF Inv

(* The invariant holds in every state of every behaviour.                   *)
LEMMA Invariance == Spec => []Inv
BY InvInit, InvNext, PTL DEF Spec

-----------------------------------------------------------------------------
(* What the invariant says of a step.                                      *)

(* A key approves the call of the panel, and the panel takes keys.         *)
LEMMA ApprovedStep ==
    ASSUME Inv, [Next]_vars, NEW r \in Calls, inbox'[r] = "approved", inbox[r] # "approved"
    PROVE  screen = r \/ desynced
<1>0. PromptsOK /\ AgentOK /\ LoopOK /\ DrawnIsShown
  BY TypeParts DEF Inv
<1>1. inbox' # inbox
  OBVIOUS
<1>2. CASE KeyYes
  <2>1. inbox' = [inbox EXCEPT ![panel] = "approved"] /\ drawn /\ panel \in Calls
    BY <1>0, <1>2 DEF KeyYes, Decide, Resolve, AcceptsInput, LoopOK
  <2>2. panel = r
    BY <1>0, <2>1 DEF PromptsOK
  <2> QED BY Zenon, <1>0, <2>1, <2>2 DEF DrawnIsShown
<1>3. ASSUME NEW q \in Calls \cup {None}, NEW a \in {"denied", "refused"}, inbox' = [inbox EXCEPT ![q] = a]
      PROVE  FALSE
  BY <1>0, <1>3 DEF PromptsOK
<1>4. CASE KeyNo \/ KeyCancel
  BY <1>0, <1>3, <1>4 DEF KeyNo, KeyCancel, Decide, Resolve, LoopOK
<1>5. CASE ApplyRequest
  <2>1. Head(lane).id \in Calls
    BY <1>0, <1>5, EventKinds DEF ApplyRequest, LoopOK
  <2> QED BY <1>1, <1>3, <1>5, <2>1 DEF ApplyRequest
<1>6. ASSUME NEW q \in Calls, Thread(q) PROVE UNCHANGED inbox
  BY <1>6 DEF Thread, Claim, ClaimRefused, EmitRequest, Receive, Expire, Disconnect, Receives,
              EmitFinish, Release, Forget
<1>7. Task \/ UNCHANGED vars => UNCHANGED inbox
  BY DEF Task, AskOnThread, AskInTask, AskInTaskRefused, ResumeThread, ResumeTask, EndRun, Unwind, vars
<1>8. CASE FreshTask
  BY <1>0, <1>1, <1>3, <1>8 DEF FreshTask, Resolve, LoopOK
<1> QED BY <1>1, <1>2, <1>4, <1>5, <1>6, <1>7, <1>8
    DEF Next, Loop, ApplyFinish, Drained, DrawFrame, LoseFrame, SkipFrame, SwallowKey, CancelRun, Enter,
        Submit, NotNow, Retry, RetryLocks, EndRead

(* The loop refuses the question at the front of the lane while a panel is  *)
(* up: nothing was told between the two, so the panel was left behind.     *)
LEMMA RefusedByLoop ==
    ASSUME Inv, [Next]_vars, NEW r \in Calls, inbox'[r] = "refused", inbox[r] # "refused"
    PROVE  LeftBehind(panel, "future")
<1>0. PromptsOK /\ LoopOK /\ OverBeforeNext
  BY TypeParts, QuestionParts DEF Inv
<1>1. inbox' # inbox
  OBVIOUS
<1>2. CASE ApplyRequest
  <2>1. lane # <<>> /\ lane[1].kind = "asked" /\ panel \in Calls
    BY <1>0, <1>1, <1>2 DEF ApplyRequest, LoopOK
  <2>2. 1 \in (0 + 1) .. Len(lane) /\ 0 \in 0 .. Len(lane)
    BY <1>0, <2>1, LenProperties, EmptySeq DEF LoopOK
  <2>3. Shown(panel, 0) /\ ~Over(panel, 0, 1)
    BY DEF Shown, Over
  <2> QED BY <1>0, <2>1, <2>2, <2>3 DEF OverBeforeNext
<1>3. ASSUME NEW q \in Calls \cup {None}, NEW a \in Decisions, inbox' = [inbox EXCEPT ![q] = a]
      PROVE  FALSE
  BY <1>0, <1>3 DEF PromptsOK, Decisions
<1>4. CASE KeyYes \/ KeyNo \/ KeyCancel
  BY <1>0, <1>3, <1>4 DEF KeyYes, KeyNo, KeyCancel, Decide, Resolve, LoopOK, Decisions
<1>6. ASSUME NEW q \in Calls, Thread(q) PROVE UNCHANGED inbox
  BY <1>6 DEF Thread, Claim, ClaimRefused, EmitRequest, Receive, Expire, Disconnect, Receives,
              EmitFinish, Release, Forget
<1>7. Task \/ UNCHANGED vars => UNCHANGED inbox
  BY DEF Task, AskOnThread, AskInTask, AskInTaskRefused, ResumeThread, ResumeTask, EndRun, Unwind, vars
<1>8. CASE FreshTask
  BY <1>0, <1>1, <1>3, <1>8 DEF FreshTask, Resolve, LoopOK, Decisions
<1> QED BY <1>1, <1>2, <1>4, <1>6, <1>7, <1>8
    DEF Next, Loop, ApplyFinish, Drained, DrawFrame, LoseFrame, SkipFrame, SwallowKey, CancelRun, Enter,
        Submit, NotNow, Retry, RetryLocks, EndRead

(* The slot refuses the question of the living run only to another prompt,  *)
(* which is not of the living run: its task was dropped, and its guard is   *)
(* with a thread.                                                           *)
LEMMA RefusedBySlot ==
    ASSUME Inv, [Next]_vars, NEW r \in Calls \ dropped, result'[r] = "refused", result[r] # "refused",
           inbox[r] = None
    PROVE  LeftBehind(slot, "thread")
<1>0. PromptsOK /\ AgentOK /\ LoopOK /\ OnePrompt /\ None \notin Calls
  BY TypeParts, ParametersAssumption DEF Inv, Calls
<1>1. result' # result
  OBVIOUS
<1>2. ASSUME slot # None, slot \notin dropped PROVE run = "waiting" /\ calls = slot /\ step[slot] # "queued"
  BY <1>0, <1>2 DEF OnePrompt, Holding, Busy, LoopOK
<1>3. ASSUME slot # None, slot \in dropped PROVE LeftBehind(slot, "thread")
  BY <1>0, <1>3 DEF OnePrompt, Holding, LeftBehind, LoopOK
<1>4. ASSUME NEW q \in Calls, Thread(q) PROVE LeftBehind(slot, "thread")
  <2>1. q = r
    BY <1>0, <1>1, <1>4 DEF PromptsOK, Thread, Claim, ClaimRefused, EmitRequest, Receive, Expire,
                Disconnect, Receives, EmitFinish, Release, Forget, Results
  <2>2. CASE ClaimRefused(r)
    <3>1. step[r] = "queued" /\ slot # None
      BY <2>2 DEF ClaimRefused
    <3>2. calls = r
      BY <1>0, <3>1 DEF OnePrompt, Busy
    <3> QED BY <1>2, <1>3, <3>1, <3>2
  <2>3. CASE Receive(r)
    BY <2>3 DEF Receive
  <2>4. CASE Expire(r) \/ Disconnect(r)
    BY <1>0, <2>4 DEF Expire, Disconnect, Receives, Results, PromptsOK
  <2> QED BY <1>1, <1>4, <2>1, <2>2, <2>3, <2>4 DEF Thread, Claim, EmitRequest, EmitFinish, Release, Forget
<1>5. CASE AskInTaskRefused
  BY <1>2, <1>3, <1>5 DEF AskInTaskRefused
<1>6. CASE Loop \/ UNCHANGED vars
  BY <1>1, <1>6 DEF Loop, ApplyRequest, ApplyFinish, Drained, DrawFrame, LoseFrame, SkipFrame, SwallowKey,
        KeyYes, KeyNo, KeyCancel, Decide, CancelRun, Enter, Submit, NotNow, Retry, RetryLocks, FreshTask,
        EndRead, vars, prompts
<1> QED BY <1>1, <1>4, <1>5, <1>6
    DEF Next, Task, AskOnThread, AskInTask, ResumeThread, ResumeTask, EndRun, Unwind, prompts

-----------------------------------------------------------------------------
(* The theorems.                                                           *)

(* Every variable has its type; the slot belongs to a prompt that is not    *)
(* over and is not left to one whose guard is gone; the lane tells the end  *)
(* of a prompt after its begin (ApprovalPromptGuard, begin_approval_prompt).*)
THEOREM TypeCorrect == Spec => []TypeOK
<1>1. Inv => TypeOK
  BY DEF Inv
<1> QED BY <1>1, Invariance, PTL

(* A call is approved by a key that was read while its own panel was on the *)
(* screen, or while a frame was lost (handle_approval_key, AcceptsInput,    *)
(* draw_tui_frame).                                                         *)
THEOREM ApprovedOnScreen == Spec => DecisionOnScreen
<1> DEFINE Decided == \A r \in Calls :
        inbox'[r] = "approved" /\ inbox[r] # "approved" => screen = r \/ desynced
<1>1. Inv /\ [Next]_vars => [Decided]_vars
  BY ApprovedStep
<1> HIDE DEF Decided
<1>2. Spec => [][Decided]_vars
  BY <1>1, Invariance, PTL DEF Spec
<1> QED BY <1>2 DEF DecisionOnScreen, Decided

(* However many calls ask and runs are aborted, a question of a living run  *)
(* is refused only because a dropped run left the slot with a thread, or a  *)
(* combined prompt's panel on the screen (ApprovalPromptGuard,              *)
(* set_pending_approval).                                                   *)
THEOREM LeftoverRefuses == Spec => RefusedOnlyByLeftover
<1> DEFINE ByLeftover == \A r \in Calls \ dropped :
          /\ inbox'[r] = "refused" /\ inbox[r] # "refused" => LeftBehind(panel, "future")
          /\ result'[r] = "refused" /\ result[r] # "refused" /\ inbox[r] = None
               => LeftBehind(slot, "thread")
<1>1. Inv /\ [Next]_vars => [ByLeftover]_vars
  BY RefusedByLoop, RefusedBySlot
<1> HIDE DEF ByLeftover
<1>2. Spec => [][ByLeftover]_vars
  BY <1>1, Invariance, PTL DEF Spec
<1> QED BY <1>2 DEF RefusedOnlyByLeftover, ByLeftover
=============================================================================
