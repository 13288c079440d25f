--------------------------- MODULE ToolProofs ---------------------------
(***************************************************************************)
(* What holds of the tools a turn runs.  Of ToolBatch, for any actions, any *)
(* concurrency and any number of calls and prompts: the schedule of a      *)
(* batch, that edits are cut only by the abort of the whole task, and that *)
(* what the user denied stays without effect.  Of ChildProcesses, for any  *)
(* number of children, runs and cancellations: that no process of a call   *)
(* outlives it unattended.  Of AnchorStore, for any managers, texts, lengths *)
(* and numbers of calls and faults: what a document is, that none gives way *)
(* to one that did not come of it, and that an anchor leads to its line.  *)
(***************************************************************************)
EXTENDS ToolBatch, ChildProcesses, AnchorStore, FiniteSetTheorems, TLAPS

(* A question is open only while a call of the reply is left, and only for *)
(* what the approval manager asks about.                                   *)
AskedCallLeft ==
    phase = "asking" => Len(tasks) < Len(batch) /\ Upcoming \in External \cup Edits \cup Commands

TypeInv == TypeOK /\ AskedCallLeft

-----------------------------------------------------------------------------
(* The two ways a step changes the tasks.                                  *)

Task == [action : Actions, stage : Stages]

(* Preparing a call appends a task for it and leaves those before it.       *)
LEMMA PreparedEffect ==
    ASSUME TypeInv, NEW stage \in Stages, Prepared(stage), Len(tasks) < Len(batch)
    PROVE  /\ tasks' \in Seq(Task) /\ Len(tasks') = Len(tasks) + 1
           /\ \A j \in DOMAIN tasks : tasks'[j] = tasks[j]
           /\ tasks'[Len(tasks) + 1] = [action |-> Upcoming, stage |-> stage]
           /\ Upcoming \in Actions
<1>1. tasks \in Seq(Task) /\ batch \in Seq(Actions) /\ Len(tasks) \in Nat /\ Len(batch) \in Nat
  BY DEF TypeInv, TypeOK, Task
<1>2. Upcoming \in Actions
  BY <1>1 DEF Upcoming
<1>3. [action |-> Upcoming, stage |-> stage] \in Task
  BY <1>2 DEF Task
<1>4. tasks' = Append(tasks, [action |-> Upcoming, stage |-> stage])
  BY DEF Prepared
<1> QED BY <1>1, <1>2, <1>3, <1>4

(* A task's new stage changes neither its action nor another task.          *)
LEMMA StageEffect ==
    ASSUME TypeOK, NEW i \in DOMAIN tasks, NEW stage \in Stages, Stage(i, stage)
    PROVE  /\ tasks' \in Seq(Task) /\ Len(tasks') = Len(tasks) /\ DOMAIN tasks' = DOMAIN tasks
           /\ \A j \in DOMAIN tasks : tasks'[j].action = tasks[j].action
           /\ \A j \in DOMAIN tasks \ {i} : tasks'[j] = tasks[j]
           /\ tasks'[i].stage = stage
<1>1. tasks \in Seq(Task)
  BY DEF TypeOK, Task
<1>2. tasks[i] \in Task
  BY <1>1
<1>3. [tasks[i] EXCEPT !.stage = stage] \in Task
  BY <1>2 DEF Task
<1>4. tasks' = [tasks EXCEPT ![i] = [tasks[i] EXCEPT !.stage = stage]]
  BY DEF Stage
<1>5. /\ [tasks[i] EXCEPT !.stage = stage].action = tasks[i].action
      /\ [tasks[i] EXCEPT !.stage = stage].stage = stage
  BY <1>2 DEF Task
<1>6. tasks' \in Seq(Task) /\ Len(tasks') = Len(tasks) /\ DOMAIN tasks' = DOMAIN tasks
  BY <1>1, <1>3, <1>4
<1>7. tasks'[i] = [tasks[i] EXCEPT !.stage = stage] /\ \A j \in DOMAIN tasks \ {i} : tasks'[j] = tasks[j]
  BY <1>1, <1>4
<1> QED BY <1>5, <1>6, <1>7

AbortedStage(s) ==
    IF s \in {"ready", "running"} THEN "dropped" ELSE IF s = "half" THEN "cut" ELSE s

(* The abort of the agent's task ends whatever was not over.                *)
LEMMA AbortEffect ==
    ASSUME TypeOK, Abort
    PROVE  /\ tasks' \in Seq(Task) /\ Len(tasks') = Len(tasks) /\ DOMAIN tasks' = DOMAIN tasks
           /\ \A j \in DOMAIN tasks : tasks'[j].action = tasks[j].action
           /\ \A j \in DOMAIN tasks : tasks'[j].stage = AbortedStage(tasks[j].stage)
<1> DEFINE new(j) == CASE tasks[j].stage \in {"ready", "running"} -> [tasks[j] EXCEPT !.stage = "dropped"]
                     [] tasks[j].stage = "half" -> [tasks[j] EXCEPT !.stage = "cut"]
                     [] OTHER -> tasks[j]
<1>1. tasks \in Seq(Task) /\ Len(tasks) \in Nat /\ DOMAIN tasks = 1 .. Len(tasks)
  BY DEF TypeOK, Task
<1>2. ASSUME NEW j \in 1 .. Len(tasks)
      PROVE  /\ new(j) \in Task /\ new(j).action = tasks[j].action
             /\ new(j).stage = AbortedStage(tasks[j].stage)
  <2>1. tasks[j] \in Task
    BY <1>1
  <2>2. CASE tasks[j].stage \in {"ready", "running"}
    <3>1. new(j) = [tasks[j] EXCEPT !.stage = "dropped"]
      BY <2>2
    <3> HIDE DEF new
    <3> QED BY <2>1, <2>2, <3>1 DEF Task, Stages, AbortedStage
  <2>3. CASE tasks[j].stage = "half"
    <3>1. new(j) = [tasks[j] EXCEPT !.stage = "cut"]
      BY <2>3
    <3> HIDE DEF new
    <3> QED BY <2>1, <2>3, <3>1 DEF Task, Stages, Finished, AbortedStage
  <2>4. CASE tasks[j].stage \notin {"ready", "running", "half"}
    <3>1. new(j) = tasks[j]
      BY <2>4
    <3> HIDE DEF new
    <3> QED BY <2>1, <2>4, <3>1 DEF AbortedStage
  <2> QED BY <2>2, <2>3, <2>4
<1>3. tasks' = [j \in 1 .. Len(tasks) |-> new(j)]
  BY DEF Abort
<1> HIDE DEF new
<1>4. tasks' \in Seq(Task) /\ Len(tasks') = Len(tasks) /\ DOMAIN tasks' = DOMAIN tasks
  BY <1>1, <1>2, <1>3
<1>5. \A j \in DOMAIN tasks : tasks'[j] = new(j)
  BY <1>1, <1>3
<1> QED BY <1>1, <1>2, <1>4, <1>5

-----------------------------------------------------------------------------
(* Types.                                                                  *)

(* A result that is dealt out is that of a task, or a made-up one.          *)
LEMMA DealtType ==
    ASSUME TypeOK, NEW i \in DOMAIN tasks
    PROVE  Dealt(i) \in 0 .. Len(tasks)
<1> DEFINE fits == {j \in WithResult : Rank(WithResult, j) = Rank(Executed, i)}
<1>1. Len(tasks) \in Nat /\ DOMAIN tasks = 1 .. Len(tasks)
  BY DEF TypeOK
<1>2. Dealt(i) = IF ~Executable(i) THEN i ELSE IF fits = {} THEN 0 ELSE CHOOSE j \in fits : TRUE
  BY DEF Dealt
<1>3. fits \subseteq DOMAIN tasks
  BY DEF WithResult, Executed
<1> HIDE DEF fits
<1> QED BY <1>1, <1>2, <1>3

(* An empty batch has the types.                                            *)
LEMMA TypeInit == Init => TypeInv
<1> SUFFICES ASSUME Init PROVE TypeInv
  OBVIOUS
<1>1. /\ batch \in Seq(Actions) /\ Len(batch) = 0
      /\ tasks \in Seq([action : Actions, stage : Stages]) /\ Len(tasks) = 0
      /\ reported \in Seq(0 .. Len(tasks))
  BY DEF Init
<1>2. mode \in {"ask", "all", "yolo"} /\ {parallel, open, cancelled, aborted} \subseteq BOOLEAN
  BY DEF Init
<1>3. phase = "idle" /\ 0 <= MaxCalls
  BY BatchConstants DEF Init
<1>4. denied = {} /\ recent = {} /\ always = {} /\ grants = {} /\ {calls, prompts} \subseteq Nat
  BY DEF Init
<1> QED BY <1>1, <1>2, <1>3, <1>4 DEF TypeInv, TypeOK, AskedCallLeft

(* Every step keeps the types, the outcomes of a batch included.            *)
LEMMA TypeNext == TypeInv /\ [Next]_vars => TypeInv'
<1> SUFFICES ASSUME TypeInv, [Next]_vars
             PROVE  TypeInv'
  OBVIOUS
<1> USE BatchConstants DEF TypeInv, AskedCallLeft
<1>types. /\ tasks \in Seq(Task) /\ batch \in Seq(Actions) /\ Len(tasks) \in Nat /\ Len(batch) \in Nat
          /\ reported \in Seq(0 .. Len(tasks))
  BY DEF TypeOK, Task
<1>1. ASSUME NoBatch PROVE batch' \in Seq(Actions) /\ Len(batch') = 0 /\ tasks' \in Seq(Task) /\ Len(tasks') = 0
                            /\ reported' \in Seq(0 .. Len(tasks')) /\ aborted' = FALSE
  BY <1>1 DEF NoBatch
<1>2. CASE NewPrompt
  <2>1. batch' \in Seq(Actions) /\ Len(batch') = 0 /\ tasks' \in Seq(Task) /\ Len(tasks') = 0
        /\ reported' \in Seq(0 .. Len(tasks')) /\ aborted' = FALSE
    BY <1>1, <1>2 DEF NewPrompt
  <2>2. {parallel', open', cancelled', aborted'} \subseteq BOOLEAN /\ open' = TRUE
    BY <1>2, <2>1 DEF NewPrompt, TypeOK
  <2>3. phase' # "asking" /\ phase' \in {"idle", "preflight", "running"} /\ mode' \in {"ask", "all", "yolo"}
    BY <1>2 DEF NewPrompt, TypeOK
  <2>4. denied' \subseteq Actions /\ recent' \subseteq Actions /\ {calls', prompts'} \subseteq Nat
        /\ always' \subseteq Edits \cup Commands /\ grants' \subseteq External /\ 0 <= MaxCalls
    BY <1>2 DEF NewPrompt, TypeOK
  <2> QED BY <2>1, <2>2, <2>3, <2>4 DEF TypeOK, Task
<1>3. CASE QueuedPrompt
  BY <1>1, <1>3 DEF QueuedPrompt, ClearDenied, TypeOK, Task
<1>4. CASE EndRun
  <2>1. batch' \in Seq(Actions) /\ Len(batch') = 0 /\ tasks' \in Seq(Task) /\ Len(tasks') = 0
        /\ reported' \in Seq(0 .. Len(tasks')) /\ aborted' = FALSE
    BY <1>1, <1>4 DEF EndRun
  <2>2. {parallel', open', cancelled', aborted'} \subseteq BOOLEAN
    BY <1>4, <2>1 DEF EndRun, TypeOK
  <2>3. phase' = "idle" /\ mode' \in {"ask", "all", "yolo"}
    BY <1>4 DEF EndRun, TypeOK
  <2>4. denied' \subseteq Actions /\ recent' \subseteq Actions /\ {calls', prompts'} \subseteq Nat
        /\ always' \subseteq Edits \cup Commands /\ grants' \subseteq External /\ 0 <= MaxCalls
    BY <1>4 DEF EndRun, userVars, TypeOK
  <2> QED BY <2>1, <2>2, <2>3, <2>4 DEF TypeOK, Task
<1>5. CASE StartBatch
  <2>1. PICK n \in 1 .. MaxCalls - calls : batch' \in [1 .. n -> Actions] /\ calls' = calls + n
    BY <1>5 DEF StartBatch
  <2>2. batch' \in Seq(Actions) /\ Len(batch') = n /\ n \in Nat /\ n <= MaxCalls /\ calls' \in Nat
    BY <2>1 DEF TypeOK
  <2>3. {parallel', open', cancelled', aborted'} \subseteq BOOLEAN /\ open' = open
    BY <1>5 DEF StartBatch, TypeOK
  <2>4. open' /\ phase' = "preflight" /\ mode' \in {"ask", "all", "yolo"}
    BY <1>5 DEF StartBatch, TypeOK
  <2>5. tasks' \in Seq(Task) /\ Len(tasks') = 0 /\ reported' \in Seq(0 .. Len(tasks'))
    BY <1>5 DEF StartBatch
  <2>6. denied' \subseteq Actions /\ recent' \subseteq Actions /\ {calls', prompts'} \subseteq Nat
        /\ always' \subseteq Edits \cup Commands /\ grants' \subseteq External
    BY <1>5, <2>2 DEF StartBatch, userVars, TypeOK
  <2> QED BY <2>2, <2>3, <2>4, <2>5, <2>6 DEF TypeOK, Task
<1>6. ASSUME NEW stage \in Stages, Prepared(stage), Len(tasks) < Len(batch), batch' = batch, reported' = reported
      PROVE  /\ tasks' \in Seq(Task) /\ Len(tasks') <= Len(batch') /\ reported' \in Seq(0 .. Len(tasks'))
             /\ Upcoming \in Actions
  <2>1. tasks' \in Seq(Task) /\ Len(tasks') = Len(tasks) + 1 /\ Upcoming \in Actions
    BY <1>6, PreparedEffect
  <2>2. \A k \in 1 .. Len(reported) : reported[k] \in 0 .. Len(tasks')
    BY <1>types, <2>1
  <2>3. reported \in [1 .. Len(reported) -> 0 .. Len(tasks')] /\ Len(reported) \in Nat
    BY <1>types, <2>2
  <2>4. reported \in Seq(0 .. Len(tasks'))
    BY <2>3
  <2> QED BY <1>6, <1>types, <2>1, <2>4
<1>7. CASE Refuse \/ RefuseRepeat \/ Accept
  <2>1. PICK stage \in {"refused", "repeat", "ready"} : Prepared(stage)
    BY <1>7 DEF Refuse, RefuseRepeat, Accept
  <2>2. stage \in Stages /\ Len(tasks) < Len(batch)
    BY <1>7, <1>types DEF Refuse, RefuseRepeat, Accept, AllPrepared, TypeOK, Stages, Refusals
  <2> QED BY <1>6, <1>7, <2>1, <2>2 DEF Refuse, RefuseRepeat, Accept, userVars, TypeOK, Task
<1>8. CASE Ask
  <2>1. Len(tasks) < Len(batch) /\ Upcoming \in External \cup Edits \cup Commands
    BY <1>8, <1>types DEF Ask, AllPrepared, NeedsPrompt, TypeOK
  <2>2. (Len(tasks) < Len(batch) /\ Upcoming \in External \cup Edits \cup Commands)'
    BY <1>8, <2>1 DEF Ask, Upcoming
  <2> QED BY <1>8, <1>types, <2>2 DEF Ask, userVars, TypeOK, Task
<1>9. ASSUME NEW stage \in {"ready", "denied", "refused"}, Answered(stage)
      PROVE  /\ tasks' \in Seq(Task) /\ Len(tasks') <= Len(batch') /\ reported' \in Seq(0 .. Len(tasks'))
             /\ Upcoming \in Actions /\ phase' = "preflight"
             /\ UNCHANGED <<mode, parallel, open, batch, reported, calls, aborted, prompts, cancelled>>
  <2>1. Len(tasks) < Len(batch) /\ stage \in Stages
    BY <1>9 DEF Answered, Stages, Refusals
  <2> QED BY <1>6, <1>9, <2>1 DEF Answered
<1>10. CASE AnswerYes \/ NoAnswer
  BY <1>9, <1>10 DEF AnswerYes, NoAnswer, Answered, TypeOK, Task
<1>11. CASE AnswerNo
  BY <1>9, <1>11 DEF AnswerNo, Answered, TypeOK, Task
<1>12. CASE AnswerAlways
  <2>1. Answered("ready") /\ Upcoming \notin External
    BY <1>12 DEF AnswerAlways
  <2>2. always' \subseteq Edits \cup Commands
    <3>1. Upcoming \in Edits \cup Commands
      BY <1>12, <2>1 DEF AnswerAlways
    <3>2. always \subseteq Edits \cup Commands
      BY DEF TypeOK
    <3> QED BY <1>12, <3>1, <3>2 DEF AnswerAlways
  <2> QED BY <1>9, <1>12, <2>1, <2>2 DEF AnswerAlways, Answered, TypeOK, Task
<1>13. CASE AnswerDirectory
  <2>1. PICK stage \in {"ready", "refused"} : Answered(stage)
    BY <1>13 DEF AnswerDirectory
  <2>2. grants' \subseteq External
    BY <1>13 DEF AnswerDirectory, TypeOK
  <2> QED BY <1>9, <1>13, <2>1, <2>2 DEF AnswerDirectory, Answered, TypeOK, Task
<1>14. CASE StartTools
  BY <1>14 DEF StartTools, userVars, TypeOK
<1>15. ASSUME NEW i \in DOMAIN tasks, NEW stage \in Stages, Stage(i, stage), phase = "running",
              UNCHANGED <<mode, parallel, open, phase, batch, reported, calls, aborted, userVars, cancelled>>
       PROVE  TypeInv'
  <2>1. tasks' \in Seq(Task) /\ Len(tasks') = Len(tasks)
    BY <1>15, StageEffect
  <2> QED BY <1>15, <1>types, <2>1 DEF userVars, TypeOK, Task
<1>16. ASSUME NEW i \in 1 .. MaxCalls, Begin(i) \/ Finish(i) \/ WriteFirst(i) \/ WriteSecond(i) \/ Interrupt(i)
       PROVE  TypeInv'
  <2>1. PICK stage \in Stages : Stage(i, stage)
    BY <1>16 DEF Begin, Finish, WriteFirst, WriteSecond, Interrupt, Stages, Finished
  <2> QED BY <1>15, <1>16, <2>1 DEF Begin, Finish, WriteFirst, WriteSecond, Interrupt, Works
<1>17. CASE Collect
  <2>1. \A i \in DOMAIN tasks : Dealt(i) \in 0 .. Len(tasks)
    BY DealtType
  <2>3. DOMAIN tasks = 1 .. Len(tasks)
    BY <1>types
  <2>4. reported' = [i \in DOMAIN tasks |-> Dealt(i)]
    BY <1>17 DEF Collect
  <2>5. reported' \in [1 .. Len(tasks) -> 0 .. Len(tasks)]
    BY <2>1, <2>3, <2>4
  <2>2. reported' \in Seq(0 .. Len(tasks))
    <3>1. PICK S : S = 0 .. Len(tasks)
      OBVIOUS
    <3>2. PICK n \in Nat : n = Len(tasks)
      BY <1>types
    <3>3. reported' \in [1 .. n -> S]
      BY <2>5, <3>1, <3>2
    <3>4. reported' \in Seq(S)
      BY <3>3
    <3> QED BY <3>1, <3>4
  <2> QED BY <1>17, <1>types, <2>2 DEF Collect, userVars, TypeOK, Task
<1>18. CASE Cancel
  BY <1>18 DEF Cancel, batchVars, userVars, TypeOK, Upcoming
<1>19. CASE Abort
  <2>1. tasks' \in Seq(Task) /\ Len(tasks') = Len(tasks)
    BY <1>19, AbortEffect
  <2>2. open' = FALSE /\ phase' = "idle" /\ cancelled' = TRUE /\ aborted' = (aborted \/ phase = "running")
        /\ UNCHANGED <<mode, parallel, batch, reported, calls, denied, always, grants, recent, prompts>>
    BY <1>19 DEF Abort, userVars
  <2>3. aborted' \in BOOLEAN
    BY <2>2
  <2> QED BY <1>types, <2>1, <2>2, <2>3 DEF TypeOK, Task
<1>20. CASE UNCHANGED vars
  BY <1>20 DEF vars, batchVars, userVars, TypeOK, Upcoming
<1> QED
  BY <1>2, <1>3, <1>4, <1>5, <1>7, <1>8, <1>10, <1>11, <1>12, <1>13, <1>14, <1>16, <1>17, <1>18, <1>19, <1>20
  DEF Next, Preflight

(* The types of the whole state hold whatever is called, answered and      *)
(* interrupted (ToolBatchExecutionContext, ToolTask).                      *)
THEOREM TypeCorrect == Spec => []TypeOK
<1>1. TypeInv => TypeOK
  BY DEF TypeInv
<1> QED BY TypeInit, TypeNext, <1>1, PTL DEF Spec

-----------------------------------------------------------------------------
(* The schedule.                                                           *)

(* What is over stays over, whatever a step does to the tasks it keeps.     *)
LEMMA ScheduledByStages ==
    ASSUME TypeInv, Scheduled, DOMAIN tasks' = DOMAIN tasks, parallel' = parallel,
           \A j \in DOMAIN tasks : tasks'[j].action = tasks[j].action,
           \A j \in DOMAIN tasks : Executable(j)' => Executable(j),
           \A j \in DOMAIN tasks : Started(j)' => Started(j),
           \A j \in DOMAIN tasks : Over(j) => Over(j)'
    PROVE  Scheduled'
BY DEF Scheduled, IsRead

(* A task that is reached is reached after all that it must wait for.       *)
LEMMA ReachedWaits ==
    ASSUME TypeInv, NEW j \in DOMAIN tasks, Reached(j), NEW i \in DOMAIN tasks, i < j, Executable(i),
           ~(parallel /\ IsRead(i) /\ IsRead(j))
    PROVE  Over(i)
<1>1. i \in Earlier(j)
  BY DEF Earlier, TypeInv, TypeOK
<1>2. CASE parallel /\ IsRead(j)
  BY <1>1, <1>2 DEF Reached
<1>3. CASE ~(parallel /\ IsRead(j))
  BY <1>1, <1>3 DEF Reached
<1> QED BY <1>2, <1>3

(* Every step keeps the order in which calls are started.                   *)
LEMMA ScheduledNext == TypeInv /\ Scheduled /\ [Next]_vars => Scheduled'
<1> SUFFICES ASSUME TypeInv, Scheduled, [Next]_vars
             PROVE  Scheduled'
  OBVIOUS
<1>types. tasks \in Seq(Task) /\ Len(tasks) \in Nat /\ Len(batch) \in Nat
  BY DEF TypeInv, TypeOK, Task
<1>1. ASSUME tasks' = <<>> PROVE Scheduled'
  BY <1>1 DEF Scheduled
<1>2. ASSUME UNCHANGED <<tasks, parallel>> PROVE Scheduled'
  BY <1>2 DEF Scheduled, Executable, Started, IsRead, Over
<1>3. CASE NewPrompt \/ QueuedPrompt \/ EndRun \/ StartBatch
  BY <1>1, <1>3 DEF NewPrompt, QueuedPrompt, EndRun, StartBatch, NoBatch
<1>4. CASE Ask \/ StartTools \/ Collect \/ Cancel \/ UNCHANGED vars
  BY <1>2, <1>4 DEF Ask, StartTools, Collect, Cancel, vars, batchVars
<1>5. ASSUME NEW stage \in {"refused", "repeat", "ready", "denied"}, Prepared(stage),
             Len(tasks) < Len(batch), parallel' = parallel
      PROVE  Scheduled'
  <2>1. stage \in Stages
    BY <1>5 DEF Stages, Refusals
  <2>2. /\ tasks' \in Seq(Task) /\ Len(tasks') = Len(tasks) + 1
        /\ \A j \in DOMAIN tasks : tasks'[j] = tasks[j]
        /\ tasks'[Len(tasks) + 1] = [action |-> Upcoming, stage |-> stage]
    BY <1>5, <2>1, PreparedEffect
  <2>3. SUFFICES ASSUME NEW i \in DOMAIN tasks', NEW j \in DOMAIN tasks', i < j,
                        Executable(i)', Started(j)', ~(parallel /\ IsRead(i) /\ IsRead(j))'
                 PROVE  Over(i)'
    BY <1>5 DEF Scheduled
  <2>4. j # Len(tasks) + 1
    <3>1. tasks'[Len(tasks) + 1].stage = stage
      BY <2>2
    <3> QED BY <1>5, <2>3, <3>1 DEF Started
  <2>5. i \in DOMAIN tasks /\ j \in DOMAIN tasks
    BY <1>types, <2>2, <2>3, <2>4
  <2>6. tasks'[i] = tasks[i] /\ tasks'[j] = tasks[j]
    BY <2>2, <2>5
  <2> QED BY <1>5, <2>3, <2>5, <2>6 DEF Scheduled, Executable, Started, IsRead, Over
<1>6. CASE Refuse \/ RefuseRepeat \/ Accept
  <2>1. PICK stage \in {"refused", "repeat", "ready"} : Prepared(stage)
    BY <1>6 DEF Refuse, RefuseRepeat, Accept
  <2>2. Len(tasks) < Len(batch) /\ parallel' = parallel
    BY <1>6, <1>types DEF Refuse, RefuseRepeat, Accept, AllPrepared, TypeInv, TypeOK
  <2> QED BY <1>5, <2>1, <2>2
<1>7. CASE AnswerYes \/ AnswerNo \/ AnswerAlways \/ AnswerDirectory \/ NoAnswer
  <2>1. PICK stage \in {"ready", "denied", "refused"} : Answered(stage)
    BY <1>7 DEF AnswerYes, AnswerNo, AnswerAlways, AnswerDirectory, NoAnswer
  <2>2. Len(tasks) < Len(batch) /\ parallel' = parallel /\ Prepared(stage)
    BY <2>1 DEF Answered, TypeInv, AskedCallLeft
  <2> QED BY <1>5, <2>2
<1>8. ASSUME NEW k \in DOMAIN tasks, NEW stage \in Stages, Stage(k, stage), parallel' = parallel,
             tasks[k].stage \in {"ready", "running", "half"},
             stage \in Finished \cup {"running", "half"},
             tasks[k].stage = "ready" => stage = "skipped" \/ (stage = "running" /\ Reached(k))
      PROVE  Scheduled'
  <2>1. /\ DOMAIN tasks' = DOMAIN tasks
        /\ \A j \in DOMAIN tasks : tasks'[j].action = tasks[j].action
        /\ \A j \in DOMAIN tasks \ {k} : tasks'[j] = tasks[j]
        /\ tasks'[k].stage = stage
    BY <1>8, StageEffect DEF TypeInv
  <2>2. \A j \in DOMAIN tasks : (Executable(j)' => Executable(j)) /\ (Over(j) => Over(j)')
    BY <1>8, <2>1 DEF Executable, Over, Refusals, Finished
  <2>3. CASE tasks[k].stage \in {"running", "half"} \/ stage = "skipped"
    <3>1. \A j \in DOMAIN tasks : Started(j)' => Started(j)
      BY <1>8, <2>1, <2>3 DEF Started
    <3> QED BY <1>8, <2>1, <2>2, <3>1, ScheduledByStages
  <2>4. CASE tasks[k].stage = "ready" /\ Reached(k)
    <3>1. SUFFICES ASSUME NEW i \in DOMAIN tasks, NEW j \in DOMAIN tasks, i < j,
                          Executable(i), Started(j)', ~(parallel /\ IsRead(i) /\ IsRead(j))
                   PROVE  Over(i)
      <4>1. \A j \in DOMAIN tasks : IsRead(j)' = IsRead(j)
        BY <2>1 DEF IsRead
      <4> QED BY <1>8, <2>1, <2>2, <4>1 DEF Scheduled
    <3>2. CASE j = k
      BY <2>4, <3>1, <3>2, ReachedWaits
    <3>3. CASE j # k
      BY <2>1, <3>1, <3>3 DEF Scheduled, Started
    <3> QED BY <3>2, <3>3
  <2> QED BY <1>8, <2>3, <2>4
<1>9. ASSUME NEW i \in 1 .. MaxCalls, Begin(i) \/ Finish(i) \/ WriteFirst(i) \/ WriteSecond(i) \/ Interrupt(i)
      PROVE  Scheduled'
  <2>1. i \in DOMAIN tasks /\ parallel' = parallel
    BY <1>9 DEF Begin, Finish, WriteFirst, WriteSecond, Interrupt, Works
  <2>2. CASE Begin(i)
    <3>1. PICK stage \in {"skipped", "running"} : Stage(i, stage)
      BY <2>2 DEF Begin
    <3> QED BY <1>8, <2>1, <2>2, <3>1 DEF Begin, Stages, Finished
  <2>3. CASE Finish(i) \/ WriteFirst(i) \/ WriteSecond(i) \/ Interrupt(i)
    <3>1. PICK stage \in {"ok", "error", "half", "torn", "cut"} : Stage(i, stage)
      BY <2>3 DEF Finish, WriteFirst, WriteSecond, Interrupt
    <3> QED BY <1>8, <2>1, <2>3, <3>1
        DEF Finish, WriteFirst, WriteSecond, Interrupt, Works, Stages, Finished
  <2> QED BY <1>9, <2>2, <2>3
<1>10. CASE Abort
  <2>1. /\ DOMAIN tasks' = DOMAIN tasks /\ parallel' = parallel
        /\ \A j \in DOMAIN tasks : tasks'[j].action = tasks[j].action
        /\ \A j \in DOMAIN tasks : tasks'[j].stage = AbortedStage(tasks[j].stage)
    BY <1>10, AbortEffect DEF Abort, TypeInv
  <2>2. \A j \in DOMAIN tasks : /\ Executable(j)' => Executable(j)
                                /\ Started(j)' => Started(j)
                                /\ Over(j) => Over(j)'
    BY <2>1 DEF AbortedStage, Executable, Started, Over, Refusals, Finished
  <2> QED BY <2>1, <2>2, ScheduledByStages
<1> QED
  BY <1>3, <1>4, <1>6, <1>7, <1>9, <1>10 DEF Next, Preflight

(* A call that may change something runs after every earlier call of its   *)
(* batch and before every later one, for any number of calls and however   *)
(* many reads run side by side (the barriers of execute_tool_batch).       *)
THEOREM BarriersHold == Spec => []Scheduled
<1>1. Init => Scheduled
  BY DEF Init, Scheduled
<1> QED BY TypeInit, TypeNext, ScheduledNext, <1>1, PTL DEF Spec

-----------------------------------------------------------------------------
(* Edits.                                                                  *)

HalfIsEdit == \A i \in DOMAIN tasks : tasks[i].stage = "half" => tasks[i].action \in Edits
WorkWhileRunning == \A i \in DOMAIN tasks : tasks[i].stage \in {"running", "half"} => phase = "running"

(* EditsWhole is inductive only together with these: the flag spares what  *)
(* is between two files because that is an edit, and the abort finds such  *)
(* an edit only while a batch runs.                                        *)
EditInv == EditsWhole /\ HalfIsEdit /\ WorkWhileRunning

(* Every step keeps what is known of the edits of a batch.                  *)
LEMMA EditsNext == TypeInv /\ EditInv /\ [Next]_vars => EditInv'
<1> SUFFICES ASSUME TypeInv, EditInv, [Next]_vars
             PROVE  EditInv'
  OBVIOUS
<1>types. tasks \in Seq(Task) /\ Len(tasks) \in Nat /\ Len(batch) \in Nat
  BY DEF TypeInv, TypeOK, Task
<1>1. ASSUME tasks' = <<>> PROVE EditInv'
  BY <1>1 DEF EditInv, EditsWhole, HalfIsEdit, WorkWhileRunning
<1>2. ASSUME UNCHANGED <<tasks, aborted>>,
             \A i \in DOMAIN tasks : tasks[i].stage \in {"running", "half"} => phase' = "running"
      PROVE  EditInv'
  BY <1>2 DEF EditInv, EditsWhole, HalfIsEdit, WorkWhileRunning
<1>3. CASE NewPrompt \/ QueuedPrompt \/ EndRun \/ StartBatch
  BY <1>1, <1>3 DEF NewPrompt, QueuedPrompt, EndRun, StartBatch, NoBatch
<1>4. CASE Ask \/ StartTools \/ Cancel \/ UNCHANGED vars
  BY <1>2, <1>4 DEF EditInv, WorkWhileRunning, Ask, StartTools, Cancel, vars, batchVars
<1>5. CASE Collect
  <2>1. \A i \in DOMAIN tasks : tasks[i].stage \notin {"running", "half"}
    BY <1>5 DEF Collect, Executed, Executable, Over, Finished, Refusals
  <2> QED BY <1>2, <1>5, <2>1 DEF Collect
<1>6. ASSUME NEW stage \in {"refused", "repeat", "ready", "denied"}, Prepared(stage),
             Len(tasks) < Len(batch), aborted' = aborted, phase # "running"
      PROVE  EditInv'
  <2>1. stage \in Stages
    BY <1>6 DEF Stages, Refusals
  <2>2. /\ tasks' \in Seq(Task) /\ Len(tasks') = Len(tasks) + 1
        /\ \A j \in DOMAIN tasks : tasks'[j] = tasks[j]
        /\ tasks'[Len(tasks) + 1] = [action |-> Upcoming, stage |-> stage]
    BY <1>6, <2>1, PreparedEffect
  <2>3. tasks'[Len(tasks) + 1].stage \notin {"running", "half", "cut"}
    BY <1>6, <2>2
  <2>4. \A j \in DOMAIN tasks' : j \in DOMAIN tasks \/ j = Len(tasks) + 1
    BY <1>types, <2>2
  <2>5. \A j \in DOMAIN tasks : tasks[j].stage \notin {"running", "half"}
    BY <1>6 DEF EditInv, WorkWhileRunning
  <2> QED BY <1>6, <2>2, <2>3, <2>4, <2>5 DEF EditInv, EditsWhole, HalfIsEdit, WorkWhileRunning
<1>7. CASE Refuse \/ RefuseRepeat \/ Accept
  <2>1. PICK stage \in {"refused", "repeat", "ready"} : Prepared(stage)
    BY <1>7 DEF Refuse, RefuseRepeat, Accept
  <2>2. Len(tasks) < Len(batch) /\ aborted' = aborted /\ phase # "running"
    BY <1>7, <1>types DEF Refuse, RefuseRepeat, Accept, AllPrepared, TypeInv, TypeOK
  <2> QED BY <1>6, <2>1, <2>2
<1>8. CASE AnswerYes \/ AnswerNo \/ AnswerAlways \/ AnswerDirectory \/ NoAnswer
  <2>1. PICK stage \in {"ready", "denied", "refused"} : Answered(stage)
    BY <1>8 DEF AnswerYes, AnswerNo, AnswerAlways, AnswerDirectory, NoAnswer
  <2>2. Len(tasks) < Len(batch) /\ aborted' = aborted /\ phase # "running" /\ Prepared(stage)
    BY <2>1 DEF Answered, TypeInv, AskedCallLeft
  <2> QED BY <1>6, <2>2
<1>9. ASSUME NEW k \in DOMAIN tasks, NEW stage \in Stages \ {"cut"}, Stage(k, stage),
             UNCHANGED <<phase, aborted>>, phase = "running", stage = "half" => tasks[k].action \in Edits
      PROVE  EditInv'
  <2>1. /\ DOMAIN tasks' = DOMAIN tasks
        /\ \A j \in DOMAIN tasks : tasks'[j].action = tasks[j].action
        /\ \A j \in DOMAIN tasks \ {k} : tasks'[j] = tasks[j]
        /\ tasks'[k].stage = stage
    BY <1>9, StageEffect DEF TypeInv
  <2>2. EditsWhole'
    BY <1>9, <2>1 DEF EditInv, EditsWhole
  <2>3. HalfIsEdit'
    BY <1>9, <2>1 DEF EditInv, HalfIsEdit
  <2> QED BY <1>9, <2>2, <2>3 DEF EditInv, WorkWhileRunning
<1>10. ASSUME NEW i \in 1 .. MaxCalls, Begin(i) \/ Finish(i) \/ WriteFirst(i) \/ WriteSecond(i) \/ Interrupt(i)
       PROVE  EditInv'
  <2>1. i \in DOMAIN tasks /\ UNCHANGED <<phase, aborted>> /\ phase = "running"
    BY <1>10 DEF Begin, Finish, WriteFirst, WriteSecond, Interrupt, Works
  <2>2. CASE Begin(i) \/ Finish(i) \/ WriteSecond(i)
    <3>1. PICK stage \in {"skipped", "running", "ok", "error", "torn"} : Stage(i, stage)
      BY <2>2 DEF Begin, Finish, WriteSecond
    <3> QED BY <1>9, <2>1, <3>1 DEF Stages, Finished
  <2>3. CASE WriteFirst(i)
    BY <1>9, <2>1, <2>3 DEF WriteFirst, Stages
  <2>4. CASE Interrupt(i)
    <3>1. tasks[i].stage # "half"
      BY <2>1, <2>4 DEF Interrupt, Interruptible, EditInv, HalfIsEdit
    <3> QED BY <1>9, <2>1, <2>4, <3>1 DEF Interrupt, Stages, Finished
  <2> QED BY <1>10, <2>2, <2>3, <2>4
<1>11. CASE Abort
  <2>1. /\ DOMAIN tasks' = DOMAIN tasks
        /\ \A j \in DOMAIN tasks : tasks'[j].stage = AbortedStage(tasks[j].stage)
    BY <1>11, AbortEffect DEF TypeInv
  <2>2. \A j \in DOMAIN tasks : tasks'[j].stage \notin {"running", "half"}
    BY <2>1 DEF AbortedStage
  <2>3. \A j \in DOMAIN tasks : tasks'[j].stage = "cut" => tasks[j].stage \in {"cut", "half"}
    BY <2>1 DEF AbortedStage
  <2>4. aborted' = (aborted \/ phase = "running")
    BY <1>11 DEF Abort
  <2>5. EditsWhole'
    BY <2>1, <2>3, <2>4 DEF EditInv, EditsWhole, WorkWhileRunning
  <2> QED BY <2>1, <2>2, <2>5 DEF EditInv, HalfIsEdit, WorkWhileRunning
<1> QED
  BY <1>3, <1>4, <1>5, <1>7, <1>8, <1>10, <1>11 DEF Next, Preflight

(* No cancellation stops an edit between its files; only the abort of the  *)
(* whole task does (execute_tool_with_hooks_internal, request_agent_cancel).*)
THEOREM CancellationSparesEdits == Spec => []EditsWhole
<1>1. Init => EditInv
  BY DEF Init, EditInv, EditsWhole, HalfIsEdit, WorkWhileRunning
<1>2. EditInv => EditsWhole
  BY DEF EditInv
<1> QED BY TypeInit, TypeNext, EditsNext, <1>1, <1>2, PTL DEF Spec

-----------------------------------------------------------------------------
(* Denials.                                                                *)

AnswersTo(j, i) == tasks[i] = [action |-> tasks[j].action, stage |-> "denied"]
RecentDenied == recent \subseteq denied
AskedNotDenied == phase = "asking" => Upcoming \notin denied
AcceptedBeforeDenied ==
    phase # "idle" =>
       \A j \in DOMAIN tasks :
          (Started(j) \/ tasks[j].stage = "ready") /\ tasks[j].action \in recent
             => \E i \in j + 1 .. Len(tasks) : AnswersTo(j, i)

(* DeniedHasNoEffect is inductive only together with what it means for     *)
(* tasks that wait to be started and for the call the user is asked about. *)
DenialInv == RecentDenied /\ AskedNotDenied /\ AcceptedBeforeDenied

(* Every step keeps what is known of denied calls.                          *)
LEMMA DenialsNext == TypeInv /\ DenialInv /\ [Next]_vars => DenialInv'
<1> SUFFICES ASSUME TypeInv, DenialInv, [Next]_vars
             PROVE  DenialInv'
  OBVIOUS
<1> USE DEF DenialInv, RecentDenied
<1>types. /\ tasks \in Seq(Task) /\ Len(tasks) \in Nat /\ Len(batch) \in Nat
          /\ DOMAIN tasks = 1 .. Len(tasks)
  BY DEF TypeInv, TypeOK, Task
<1>1. CASE NewPrompt \/ QueuedPrompt
  <2>1. tasks' = <<>> /\ recent' = {} /\ phase' # "asking"
    BY <1>1 DEF NewPrompt, QueuedPrompt, NoBatch, TypeInv, TypeOK
  <2> QED BY <2>1 DEF AskedNotDenied, AcceptedBeforeDenied
<1>2. CASE EndRun \/ StartBatch
  <2>1. tasks' = <<>> /\ UNCHANGED <<denied, recent>> /\ phase' # "asking"
    BY <1>2 DEF EndRun, StartBatch, NoBatch, userVars
  <2> QED BY <2>1 DEF AskedNotDenied, AcceptedBeforeDenied
<1>3. ASSUME UNCHANGED <<tasks, batch, denied, recent>>, phase' # "idle" => phase # "idle",
             phase' = "asking" => phase = "asking" \/ ~PreviouslyDenied(Upcoming)
      PROVE  DenialInv'
  BY <1>3 DEF AskedNotDenied, AcceptedBeforeDenied, Started, AnswersTo, Upcoming, PreviouslyDenied
<1>4. CASE Ask \/ StartTools \/ Collect \/ Cancel \/ UNCHANGED vars
  BY <1>3, <1>4 DEF Ask, StartTools, Collect, Cancel, vars, batchVars, userVars
<1>5. ASSUME NEW stage \in {"refused", "repeat", "ready", "denied"}, Prepared(stage),
             Len(tasks) < Len(batch), phase # "idle", phase' = "preflight", denied \subseteq denied',
             recent' = IF stage = "denied" THEN recent \cup {Upcoming} ELSE recent,
             stage = "denied" => Upcoming \in denied',
             stage = "ready" => Upcoming \notin denied
      PROVE  DenialInv'
  <2>1. stage \in Stages
    BY <1>5 DEF Stages, Refusals
  <2>2. /\ tasks' \in Seq(Task) /\ Len(tasks') = Len(tasks) + 1
        /\ \A j \in DOMAIN tasks : tasks'[j] = tasks[j]
        /\ tasks'[Len(tasks) + 1] = [action |-> Upcoming, stage |-> stage]
    BY <1>5, <2>1, PreparedEffect
  <2>3. RecentDenied'
    BY <1>5
  <2>4. SUFFICES ASSUME NEW j \in DOMAIN tasks', (Started(j) \/ tasks[j].stage = "ready")',
                        tasks'[j].action \in recent'
                 PROVE  \E i \in j + 1 .. Len(tasks') : AnswersTo(j, i)'
    BY <1>5, <2>3 DEF AskedNotDenied, AcceptedBeforeDenied
  <2>5. CASE j = Len(tasks) + 1
    <3>1. tasks'[j].action = Upcoming /\ tasks'[j].stage = stage
      BY <2>2, <2>5
    <3>2. stage = "ready"
      BY <1>5, <2>4, <3>1 DEF Started
    <3> QED BY <1>5, <2>4, <3>1, <3>2
  <2>6. CASE j \in DOMAIN tasks
    <3>1. tasks'[j] = tasks[j] /\ (Started(j) \/ tasks[j].stage = "ready")
      BY <2>2, <2>4, <2>6 DEF Started
    <3>2. CASE tasks[j].action \in recent
      <4>1. PICK i \in j + 1 .. Len(tasks) : AnswersTo(j, i)
        BY <1>5, <2>6, <3>1, <3>2 DEF AcceptedBeforeDenied
      <4>2. i \in DOMAIN tasks /\ i \in j + 1 .. Len(tasks')
        BY <1>types, <2>2, <2>6, <4>1
      <4>3. AnswersTo(j, i)'
        BY <2>2, <3>1, <4>1, <4>2 DEF AnswersTo
      <4> QED BY <4>2, <4>3
    <3>3. CASE tasks[j].action \notin recent
      <4>1. stage = "denied" /\ Upcoming = tasks[j].action
        BY <1>5, <2>4, <3>1, <3>3
      <4>2. PICK i \in j + 1 .. Len(tasks') : i = Len(tasks) + 1
        BY <1>types, <2>2, <2>6
      <4>3. AnswersTo(j, i)'
        BY <2>2, <3>1, <4>1, <4>2 DEF AnswersTo
      <4> QED BY <4>3
    <3> QED BY <3>2, <3>3
  <2> QED BY <1>types, <2>2, <2>4, <2>5, <2>6
<1>6. CASE Refuse \/ RefuseRepeat \/ Accept
  <2>1. PICK stage \in {"refused", "repeat", "ready"} :
           Prepared(stage) /\ (stage = "ready" => ~PreviouslyDenied(Upcoming))
    BY <1>6 DEF Refuse, RefuseRepeat, Accept
  <2>2. Len(tasks) < Len(batch) /\ UNCHANGED <<phase, denied, recent>> /\ phase = "preflight"
    BY <1>6, <1>types DEF Refuse, RefuseRepeat, Accept, AllPrepared, TypeInv, TypeOK, userVars
  <2> QED BY <1>5, <2>1, <2>2 DEF PreviouslyDenied
<1>7. CASE AnswerYes \/ AnswerAlways \/ AnswerDirectory \/ NoAnswer
  <2>1. PICK stage \in {"ready", "refused"} : Answered(stage)
    BY <1>7 DEF AnswerYes, AnswerAlways, AnswerDirectory, NoAnswer
  <2>2. /\ Len(tasks) < Len(batch) /\ phase = "asking" /\ phase' = "preflight" /\ Prepared(stage)
        /\ Upcoming \notin denied
    BY <2>1 DEF Answered, TypeInv, AskedCallLeft, AskedNotDenied
  <2>3. UNCHANGED <<denied, recent>>
    BY <1>7 DEF AnswerYes, AnswerAlways, AnswerDirectory, NoAnswer
  <2> QED BY <1>5, <2>1, <2>2, <2>3
<1>8. CASE AnswerNo
  <2>1. /\ Len(tasks) < Len(batch) /\ phase = "asking" /\ phase' = "preflight" /\ Prepared("denied")
        /\ denied' = denied \cup {Upcoming} /\ recent' = recent \cup {Upcoming}
    BY <1>8 DEF AnswerNo, Answered, TypeInv, AskedCallLeft
  <2> QED BY <1>5, <2>1
<1>9. ASSUME NEW k \in DOMAIN tasks, NEW stage \in Stages, Stage(k, stage),
             tasks[k].stage \in {"ready", "running", "half"}, phase = "running",
             UNCHANGED <<phase, denied, recent>>
      PROVE  DenialInv'
  <2>1. /\ DOMAIN tasks' = DOMAIN tasks /\ Len(tasks') = Len(tasks)
        /\ \A j \in DOMAIN tasks : tasks'[j].action = tasks[j].action
        /\ \A j \in DOMAIN tasks \ {k} : tasks'[j] = tasks[j]
    BY <1>9, StageEffect DEF TypeInv
  <2>2. SUFFICES ASSUME NEW j \in DOMAIN tasks, (Started(j) \/ tasks[j].stage = "ready")',
                        tasks[j].action \in recent
                 PROVE  \E i \in j + 1 .. Len(tasks) : AnswersTo(j, i)'
    BY <1>9, <2>1 DEF AskedNotDenied, AcceptedBeforeDenied
  <2>3. Started(j) \/ tasks[j].stage = "ready"
    BY <1>9, <2>1, <2>2 DEF Started
  <2>4. PICK i \in j + 1 .. Len(tasks) : AnswersTo(j, i)
    BY <1>9, <2>2, <2>3 DEF AcceptedBeforeDenied
  <2>5. i \in DOMAIN tasks
    BY <1>types, <2>4
  <2>6. tasks[i].stage = "denied"
    BY <2>4 DEF AnswersTo
  <2>7. tasks'[i] = tasks[i] /\ tasks'[j].action = tasks[j].action
    BY <1>9, <2>1, <2>5, <2>6
  <2> QED BY <2>4, <2>7 DEF AnswersTo
<1>10. ASSUME NEW i \in 1 .. MaxCalls, Begin(i) \/ Finish(i) \/ WriteFirst(i) \/ WriteSecond(i) \/ Interrupt(i)
       PROVE  DenialInv'
  <2>1. /\ i \in DOMAIN tasks /\ tasks[i].stage \in {"ready", "running", "half"} /\ phase = "running"
        /\ UNCHANGED <<phase, denied, recent>>
    BY <1>10 DEF Begin, Finish, WriteFirst, WriteSecond, Interrupt, Works, userVars
  <2>2. PICK stage \in Stages : Stage(i, stage)
    BY <1>10 DEF Begin, Finish, WriteFirst, WriteSecond, Interrupt, Stages, Finished
  <2> QED BY <1>9, <2>1, <2>2
<1>11. CASE Abort
  BY <1>11 DEF Abort, userVars, AskedNotDenied, AcceptedBeforeDenied
<1> QED
  BY <1>1, <1>2, <1>4, <1>6, <1>7, <1>8, <1>10, <1>11 DEF Next, Preflight

(* What the user denied has no effect until the next prompt, but for a call*)
(* of the same batch accepted before (denied_tool_actions).                *)
THEOREM DenialsHold == Spec => []DeniedHasNoEffect
<1>1. Init => DenialInv
  BY DEF Init, DenialInv, RecentDenied, AskedNotDenied, AcceptedBeforeDenied
<1>2. DenialInv => DeniedHasNoEffect
  BY DEF DenialInv, AcceptedBeforeDenied, AnswersTo, DeniedHasNoEffect
<1> QED BY TypeInit, TypeNext, DenialsNext, <1>1, <1>2, PTL DEF Spec

-----------------------------------------------------------------------------
(* Outcomes.                                                               *)

(* Counting positions upwards tells the members of a set apart.             *)
LEMMA RankInjective ==
    ASSUME NEW n \in Nat, NEW S \in SUBSET (1 .. n), NEW i \in S, NEW j \in S, Rank(S, i) = Rank(S, j)
    PROVE  i = j
<1>1. \A k \in 1 .. n : IsFiniteSet({m \in S : m <= k})
  <2>1. IsFiniteSet(1 .. n)
    BY FS_Interval
  <2> QED BY <2>1, FS_Subset
<1>2. ASSUME NEW a \in S, NEW b \in S, a < b PROVE Rank(S, a) < Rank(S, b)
  <2>1. {m \in S : m <= a} \subseteq {m \in S : m <= b}
    <3>1. a \in Int /\ b \in Int /\ \A m \in S : m \in Int
      OBVIOUS
    <3>2. \A m \in S : m <= a => m <= b
      BY <1>2, <3>1
    <3> QED BY <3>2
  <2>2. b \in {m \in S : m <= b} /\ b \notin {m \in S : m <= a}
    BY <1>2
  <2>3. IsFiniteSet({m \in S : m <= b})
    BY <1>1
  <2>4. PICK X, Y : X = {m \in S : m <= a} /\ Y = {m \in S : m <= b}
    OBVIOUS
  <2>5. IsFiniteSet(Y) /\ X \in SUBSET Y /\ X # Y
    BY <2>1, <2>2, <2>3, <2>4
  <2>6. IsFiniteSet(X) /\ Cardinality(X) <= Cardinality(Y) /\ (Cardinality(X) = Cardinality(Y) => X = Y)
    BY <2>5, FS_Subset
  <2>7. Cardinality(X) \in Nat /\ Cardinality(Y) \in Nat
    BY <2>5, <2>6, FS_CardinalityType
  <2>8. Cardinality(X) < Cardinality(Y)
    BY <2>5, <2>6, <2>7
  <2> QED BY <2>4, <2>8 DEF Rank
<1>3. i < j \/ j < i \/ i = j
  OBVIOUS
<1>4. \A k \in S : Rank(S, k) \in Nat
  BY <1>1, FS_CardinalityType DEF Rank
<1> QED BY <1>2, <1>3, <1>4

(* Every step keeps an outcome for each call that was reported.             *)
LEMMA OutcomesNext == TypeInv /\ OutcomesPaired /\ [Next]_vars => OutcomesPaired'
<1> SUFFICES ASSUME TypeInv, OutcomesPaired, [Next]_vars
             PROVE  OutcomesPaired'
  OBVIOUS
<1>1. CASE reported' = <<>>
  BY <1>1 DEF OutcomesPaired
<1>2. CASE reported' = reported
  BY <1>2 DEF OutcomesPaired
<1>3. CASE Collect
  <2>1. Len(tasks) \in Nat /\ Executed \in SUBSET (1 .. Len(tasks)) /\ DOMAIN tasks = 1 .. Len(tasks)
    BY DEF TypeInv, TypeOK, Executed
  <2>2. WithResult = Executed
    BY <1>3 DEF Collect, WithResult, HasResult, Over
  <2>3. ASSUME NEW i \in DOMAIN tasks PROVE Dealt(i) = i
    <3>1. CASE ~Executable(i)
      BY <3>1 DEF Dealt
    <3>2. CASE Executable(i)
      <4>1. i \in Executed
        BY <2>3, <3>2 DEF Executed
      <4>2. \A j \in Executed : Rank(Executed, j) = Rank(Executed, i) => j = i
        BY <2>1, <4>1, RankInjective
      <4>3. {j \in WithResult : Rank(WithResult, j) = Rank(Executed, i)} = {i}
        BY <2>2, <4>1, <4>2
      <4> QED BY <3>2, <4>3 DEF Dealt
    <3> QED BY <3>1, <3>2
  <2>4. reported' = [i \in DOMAIN tasks |-> Dealt(i)]
    BY <1>3 DEF Collect
  <2> QED BY <2>3, <2>4 DEF OutcomesPaired
<1>4. ~Collect => reported' = <<>> \/ reported' = reported
  BY DEF Next, Preflight, vars, batchVars, NewPrompt, QueuedPrompt, EndRun, StartBatch, NoBatch, Refuse,
         RefuseRepeat, Accept, Ask, AnswerYes, AnswerNo, AnswerAlways, AnswerDirectory, NoAnswer, Answered,
         StartTools, Begin, Finish, WriteFirst, WriteSecond, Interrupt, Works, Cancel, Abort
<1> QED BY <1>1, <1>2, <1>3, <1>4

(* Each named call gets its own outcome (collect_ordered_outcomes).        *)
THEOREM OutcomesMatch == Spec => []OutcomesPaired
<1>1. Init => OutcomesPaired
  BY DEF Init, OutcomesPaired
<1> QED BY TypeInit, TypeNext, OutcomesNext, <1>1, PTL DEF Spec

-----------------------------------------------------------------------------
(* The processes the calls of a batch start: what holds of ChildProcesses   *)
(* for any number of children, runs and cancellations.                      *)
Stops == {"timedout", "cancelled"}
AfterSpawn == {"spawned", "waiting", "stopping", "grace"}
AfterExit == {"draining", "restopping", "regrace", "unregistering"}
Registered == {"waiting", "stopping", "grace", "reaping"} \cup AfterExit

Settled(c) == GroupAlive(c) => why[c] = "exited" /\ ~ HoldsPipes(c)

(* How far a runner is says what became of its child: a stop leaves nothing *)
(* of the group, and nobody looks at the pipes before the leader was waited *)
(* for.                                                                     *)
RunnerInv(c) ==
    /\ at[c] # "idle" => kind[c] # "none"
    /\ at[c] \in {"idle", "queued"} => leader[c] = "none"
    /\ at[c] \in AfterSpawn \cup {"reaping", "dropped", "lost"} => leader[c] # "none"
    /\ at[c] \in {"stopping", "grace", "reaping"} => why[c] \in Stops
    /\ at[c] = "reaping" => ~ GroupAlive(c)
    /\ at[c] \in AfterExit => leader[c] = "reaped" /\ why[c] # "none" /\ (why[c] \in Stops => ~ GroupAlive(c))
    /\ at[c] \in {"restopping", "regrace"} => Detached(c)
    /\ at[c] = "unregistering" /\ Detached(c) => Settled(c)
    /\ at[c] = "ended" /\ leader[c] # "none" /\ (why[c] \in Stops \/ Detached(c))
         => leader[c] = "reaped" /\ Settled(c)
    /\ at[c] = "dropped" => ~ Detached(c)

(* One call holds the agent, and only while it runs or is being aborted.   *)
OneCall == \A c \in Children : (~ Detached(c) /\ Live(c)) => (joined = {} /\ run \in {"running", "aborted"})

(* The cleanup and a run never overlap, but for the end of the aborted one. *)
CleanupApart ==
    /\ run \in {"running", "killing"} => killer["terminal"] = Off
    /\ killer["terminal"].at \in {"off", "take"} => killer["terminal"].list = {}
    /\ \A k \in Killers : killer[k].at = "grace" => killer[k].now \in Children

(* A group of a call that was registered and is alive stays listed: in the  *)
(* task's list, or in the cleanup's copy.  abort_task keeps the list until  *)
(* it has worked through its copy.                                          *)
Listed(c) == c \in pids \/ c \in killer["terminal"].list
StaysListed(c) ==
    /\ at[c] \in Registered \cup {"dropped"} /\ ~ Detached(c) /\ GroupAlive(c) => Listed(c)
    /\ run = "killing" /\ at[c] = "dropped" /\ GroupAlive(c) => c \in killer["agent"].list

Inv == ProcessTypeOK /\ CleanupApart /\ \A c \in Children : RunnerInv(c) /\ StaysListed(c)

-----------------------------------------------------------------------------
(* Types.                                                                  *)
Kinds == {"none", "command", "script", "subagent"}
Reasons == {"none", "failed", "exited", "timedout", "cancelled"}
Killer == [at : {"off", "take", "next", "grace"}, list : SUBSET Children, now : Children \cup {None}]

FlagOK == flag \in BOOLEAN
SessionOK ==
    /\ run \in {"idle", "running", "killing", "aborted"}
    /\ runs \in 0 .. MaxRuns /\ cancels \in 0 .. MaxCancels
    /\ pids \subseteq Children /\ joined \subseteq Children
RunnersOK == kind \in [Children -> Kinds] /\ at \in [Children -> RunnerStages] /\ why \in [Children -> Reasons]
ProcessesOK ==
    /\ leader \in [Children -> {"none", "running", "zombie", "reaped"}]
    /\ helper \in [Children -> Helpers]
KillersOK == killer \in [Killers -> Killer]
Runners == \A c \in Children : RunnerInv(c)

(* ProcessTypeOK in parts; that a dropped call had been started is known of its    *)
(* runner.                                                                  *)
LEMMA TypeParts ==
    Runners => (ProcessTypeOK <=> FlagOK /\ SessionOK /\ RunnersOK /\ ProcessesOK /\ KillersOK /\ OneCall)
BY DEF ProcessTypeOK, FlagOK, SessionOK, RunnersOK, ProcessesOK, KillersOK, OneCall, Kinds, Reasons, Killer,
       Runners, RunnerInv

(* The flag stays a flag.                                                   *)
LEMMA FlagNext == FlagOK /\ [ProcessNext]_processVars => FlagOK'
<1> SUFFICES ASSUME FlagOK, [ProcessNext]_processVars PROVE FlagOK'
  OBVIOUS
<1> USE DEF FlagOK, session
<1>1. ASSUME NEW c \in Children, Process(c) \/ StartCommand(c) \/ Runner(c) \/ WaitFails(c) PROVE FlagOK'
  BY Zenon, <1>1
     DEF Process, LeaderExits, HelperExits, StartCommand, Runner, Spawn, Register, Exited, TimesOut, SeesCancel,
         StopTerm, StopKill, StopReap, Drained, Restop, RestopKill, Unregister, WaitFails
<1>2. ASSUME NEW group \in SUBSET Children, StartSubagents(group) PROVE FlagOK'
  BY Zenon, <1>2 DEF StartSubagents
<1>3. CASE JoinSubagents \/ StartRun \/ RunEnds \/ Signal \/ DropOnFlag \/ AbortTask
  BY Zenon, <1>3 DEF JoinSubagents, StartRun, RunEnds, Signal, DropOnFlag, AbortTask
<1>4. CASE CtrlC \/ DropTask \/ Take
  BY Zenon, <1>4 DEF CtrlC, DropTask, Take
<1>5. ASSUME NEW k \in Killers, Killing(k) PROVE FlagOK'
  BY Zenon, <1>5 DEF Killing, KillNext, KillGrace, KillsDone
<1>6. CASE UNCHANGED processVars
  BY Zenon, <1>6 DEF processVars
<1> QED BY <1>1, <1>2, <1>3, <1>4, <1>5, <1>6 DEF ProcessNext

(* Only children are listed or joined.                                      *)
LEMMA SessionNext == Inv /\ [ProcessNext]_processVars => SessionOK'
<1> SUFFICES ASSUME Inv, [ProcessNext]_processVars PROVE SessionOK'
  OBVIOUS
<1>0. SessionOK
  BY TypeParts DEF Inv, Runners
<1>1. CASE UNCHANGED <<run, runs, cancels>> /\ pids' \subseteq Children /\ joined' \subseteq Children
  BY <1>0, <1>1 DEF SessionOK
<1>2. ASSUME NEW c \in Children, Process(c) \/ StartCommand(c) \/ Runner(c) \/ WaitFails(c) PROVE SessionOK'
  <2>1. UNCHANGED <<session, joined>> /\ pids' \in {pids, pids \cup {c}, pids \ {c}}
    BY <1>2
     DEF Process, LeaderExits, HelperExits, StartCommand, Runner, Spawn, Register, Exited, TimesOut, SeesCancel,
         StopTerm, StopKill, StopReap, Drained, Restop, RestopKill, Unregister, WaitFails
  <2> QED BY <1>0, <1>1, <2>1 DEF SessionOK, session
<1>3. ASSUME NEW group \in SUBSET Children, StartSubagents(group) PROVE SessionOK'
  BY <1>0, <1>1, <1>3 DEF StartSubagents, session, SessionOK
<1>4. CASE JoinSubagents \/ DropOnFlag \/ Take \/ UNCHANGED processVars
  BY <1>0, <1>1, <1>4 DEF JoinSubagents, DropOnFlag, DropCall, Take, session, SessionOK, processVars
<1>5. CASE StartRun
  BY <1>0, <1>5, ParametersAssumption DEF StartRun, SessionOK
<1>6. CASE RunEnds \/ AbortTask \/ DropTask
  BY <1>0, <1>6 DEF RunEnds, AbortTask, DropTask, DropCall, SessionOK
<1>7. CASE Signal \/ CtrlC
  BY <1>0, <1>7, ParametersAssumption DEF Signal, CtrlC, SessionOK
<1>8. ASSUME NEW k \in Killers, Killing(k) PROVE SessionOK'
  BY <1>0, <1>8 DEF Killing, KillNext, KillGrace, KillsDone, session, SessionOK
<1> QED BY <1>2, <1>3, <1>4, <1>5, <1>6, <1>7, <1>8 DEF ProcessNext

(* A runner goes from stage to stage; a wait that fails knows its kind.     *)
LEMMA RunnersNext == Inv /\ [ProcessNext]_processVars => RunnersOK'
<1> SUFFICES ASSUME Inv, [ProcessNext]_processVars PROVE RunnersOK'
  OBVIOUS
<1>0. RunnersOK /\ Runners
  BY TypeParts DEF Inv, Runners
<1> USE DEF RunnerStages, Gone, Kinds, Reasons
<1>1. CASE UNCHANGED runners
  BY <1>0, <1>1 DEF RunnersOK, runners
<1>2. ASSUME NEW c \in Children, NEW pc \in RunnerStages, Goto(c, pc), UNCHANGED <<kind, why>> PROVE RunnersOK'
  BY <1>0, <1>2 DEF RunnersOK, Goto
<1>3. ASSUME NEW c \in Children, NEW pc \in RunnerStages, NEW reason \in Reasons,
             Ends(c, reason, pc), UNCHANGED kind
      PROVE  RunnersOK'
  BY <1>0, <1>3 DEF RunnersOK, Ends, Goto
<1>4. ASSUME NEW c \in Children, Process(c) \/ StartCommand(c) \/ Runner(c) \/ WaitFails(c) PROVE RunnersOK'
  <2>1. CASE Process(c)
    BY <1>1, <2>1 DEF Process, LeaderExits, HelperExits
  <2>2. CASE StartCommand(c)
    BY <1>0, <2>2 DEF StartCommand, Goto, RunnersOK
  <2>3. CASE Spawn(c)
    BY <1>2, <1>3, <2>3 DEF Spawn, Ends
  <2>4. CASE Register(c) \/ StopTerm(c) \/ StopKill(c) \/ Restop(c) \/ RestopKill(c) \/ Unregister(c)
    BY <1>2, <2>4 DEF Register, StopTerm, StopKill, Restop, RestopKill, Unregister
  <2>5. CASE StopReap(c) \/ Drained(c)
    BY <1>2, <2>5 DEF StopReap, AfterStop, Drained
  <2>6. CASE Exited(c) \/ TimesOut(c) \/ SeesCancel(c)
    BY <1>3, <2>6 DEF Exited, TimesOut, SeesCancel
  <2>7. CASE WaitFails(c)
    <3>1. kind[c] \in Kinds /\ kind[c] # "none"
      BY <1>0, <2>7 DEF RunnersOK, Runners, RunnerInv, WaitFails
    <3> QED BY <1>3, <2>7, <3>1 DEF WaitFails
  <2> QED BY <1>4, <2>1, <2>2, <2>3, <2>4, <2>5, <2>6, <2>7 DEF Runner
<1>5. ASSUME NEW group \in SUBSET Children, StartSubagents(group) PROVE RunnersOK'
  BY <1>0, <1>5 DEF StartSubagents, RunnersOK
<1>6. CASE DropCall /\ UNCHANGED <<kind, why>>
  <2>1. \A c \in Children : Fate(c) \in RunnerStages
    BY <1>0 DEF RunnersOK, Fate
  <2> QED BY <1>0, <1>6, <2>1 DEF DropCall, RunnersOK
<1>7. ASSUME NEW k \in Killers, Killing(k) PROVE RunnersOK'
  BY <1>1, <1>7 DEF Killing, KillNext, KillGrace, KillsDone
<1> QED BY <1>1, <1>4, <1>5, <1>6, <1>7
    DEF ProcessNext, JoinSubagents, StartRun, RunEnds, Signal, DropOnFlag, AbortTask, CtrlC, DropTask, Take, processVars, runners

(* The lists that are worked through are lists of children.                 *)
LEMMA KillersNext == Inv /\ [ProcessNext]_processVars => KillersOK'
<1> SUFFICES ASSUME Inv, [ProcessNext]_processVars PROVE KillersOK'
  OBVIOUS
<1>0. KillersOK /\ SessionOK
  BY TypeParts DEF Inv, Runners
<1> USE DEF Killer
<1>1. CASE UNCHANGED killer
  BY <1>0, <1>1 DEF KillersOK
<1>2. ASSUME NEW k \in Killers, NEW r \in Killer, killer' = [killer EXCEPT ![k] = r] PROVE KillersOK'
  BY <1>0, <1>2 DEF KillersOK
<1>3. ASSUME NEW c \in Children, Process(c) \/ StartCommand(c) \/ Runner(c) \/ WaitFails(c) PROVE UNCHANGED killer
  BY <1>3
     DEF Process, LeaderExits, HelperExits, StartCommand, Runner, Spawn, Register, Exited, TimesOut, SeesCancel,
         StopTerm, StopKill, StopReap, Drained, Restop, RestopKill, Unregister, WaitFails
<1>4. Off \in Killer /\ {"agent", "terminal"} \subseteq Killers
  BY DEF Off, Killers
<1>5. CASE AbortTask
  BY <1>0, <1>1, <1>2, <1>4, <1>5 DEF AbortTask, SessionOK
<1>6. CASE CtrlC
  BY <1>0, <1>4, <1>6 DEF CtrlC, KillersOK
<1>7. CASE DropTask
  BY <1>2, <1>4, <1>7 DEF DropTask
<1>8. CASE Take
  BY <1>0, <1>2, <1>4, <1>8 DEF Take, Taken, SessionOK
<1>9. ASSUME NEW k \in Killers, Killing(k) PROVE KillersOK'
  <2>1. CASE KillNext(k)
    BY <1>0, <2>1 DEF KillNext, KillersOK
  <2>2. CASE KillGrace(k)
    BY <1>0, <2>2 DEF KillGrace, KillersOK
  <2>3. CASE KillsDone(k)
    BY <1>2, <1>4, <2>3 DEF KillsDone
  <2> QED BY <1>9, <2>1, <2>2, <2>3 DEF Killing
<1> QED BY <1>1, <1>3, <1>5, <1>6, <1>7, <1>8, <1>9
    DEF ProcessNext, StartSubagents, JoinSubagents, StartRun, RunEnds, Signal, DropOnFlag, processVars

-----------------------------------------------------------------------------
(* What becomes of processes.  Nothing but the spawn of its leader brings a *)
(* group to life, and once the leader has exited nobody joins the group or  *)
(* opens its pipes.                                                         *)
Ages(d) ==
    /\ leader[d] = "none" <=> leader'[d] = "none"
    /\ leader[d] = "reaped" => leader'[d] = "reaped"
    /\ ~ GroupAlive(d) => ~ GroupAlive(d)'
    /\ leader[d] # "running" /\ HoldsPipes(d)' => HoldsPipes(d)

(* A step of one child's processes, by what it is: an exit, a wait.         *)
LEMMA OneAges ==
    ASSUME ProcessesOK, NEW c \in Children,
           NEW l \in {"zombie", "reaped"}, NEW h \in Helpers,
           leader[c] # "none",
           leader' = leader \/ leader' = [leader EXCEPT ![c] = l],
           helper' = helper \/ helper' = [helper EXCEPT ![c] = h],
           leader[c] = "reaped" => leader'[c] = "reaped",
           leader[c] # "running" => h \in {"none", helper[c]}
    PROVE  ProcessesOK' /\ \A d \in Children : Ages(d)
<1>1. ProcessesOK'
  BY DEF ProcessesOK
<1>2. ASSUME NEW d \in Children, d # c PROVE Ages(d)
  BY <1>2 DEF ProcessesOK, Ages, GroupAlive, HoldsPipes
<1>3. Ages(c)
  BY DEF ProcessesOK, Ages, GroupAlive, HoldsPipes, InGroup
<1> QED BY <1>1, <1>2, <1>3

(* SIGTERM may be ignored by each member, and the leader may leave a helper *)
(* as it goes.                                                              *)
LEMMA TermAges ==
    ASSUME ProcessesOK, NEW c \in Children, Term(c)
    PROVE  ProcessesOK' /\ \A d \in Children : Ages(d)
<1>1. CASE UNCHANGED processes
  BY <1>1 DEF processes, ProcessesOK, Ages, GroupAlive, HoldsPipes
<1>2. CASE ~ UNCHANGED processes
  <2>1. PICK h \in Helpers :
           /\ leader[c] # "running" => h = "none"
           /\ leader' = [leader EXCEPT ![c] = IF @ = "running" THEN "zombie" ELSE @]
           /\ helper' = [helper EXCEPT ![c] = h]
    BY <1>2 DEF Term, Helpers
  <2>2. ProcessesOK'
    BY <2>1 DEF ProcessesOK
  <2>3. ASSUME NEW d \in Children PROVE Ages(d)
    BY <2>1, <2>3 DEF ProcessesOK, Ages, GroupAlive, HoldsPipes, InGroup
  <2> QED BY <2>2, <2>3
<1> QED BY <1>1, <1>2

(* SIGKILL leaves nothing of a group.                                      *)
LEMMA KillAges ==
    ASSUME ProcessesOK, NEW c \in Children, Kill(c)
    PROVE  ProcessesOK' /\ ~ GroupAlive(c)' /\ \A d \in Children : Ages(d)
<1>1. PICK h \in Helpers :
         /\ leader[c] # "running" => h = helper[c]
         /\ leader' = [leader EXCEPT ![c] = IF @ = "running" THEN "zombie" ELSE @]
         /\ helper' = [helper EXCEPT ![c] = IF h \in InGroup THEN "none" ELSE h]
  <2>1. helper[c] \in Helpers
    BY DEF ProcessesOK
  <2>2. PICK h \in IF leader[c] = "running" THEN Helpers ELSE {helper[c]} :
           /\ leader' = [leader EXCEPT ![c] = IF @ = "running" THEN "zombie" ELSE @]
           /\ helper' = [helper EXCEPT ![c] = IF h \in InGroup THEN "none" ELSE h]
    BY DEF Kill
  <2>3. h \in Helpers /\ (leader[c] # "running" => h = helper[c])
    BY <2>1, <2>2
  <2> QED BY <2>2, <2>3
<1>2. ProcessesOK'
  BY <1>1 DEF ProcessesOK, Helpers
<1>3. ~ GroupAlive(c)'
  BY <1>1 DEF ProcessesOK, GroupAlive, InGroup
<1>4. ASSUME NEW d \in Children PROVE Ages(d)
  BY <1>1, <1>4 DEF ProcessesOK, Ages, GroupAlive, HoldsPipes, InGroup
<1> QED BY <1>2, <1>3, <1>4

(* A step that touches no process.                                          *)
LEMMA SameAges ==
    ASSUME ProcessesOK, UNCHANGED processes
    PROVE  ProcessesOK' /\ \A d \in Children : Ages(d)
BY DEF processes, ProcessesOK, Ages, GroupAlive, HoldsPipes

(* No group comes to life in a step, but the one that is spawned in it.    *)
LEMMA ProcessesNext ==
    ASSUME Inv, [ProcessNext]_processVars
    PROVE  ProcessesOK' /\ \A d \in Children : Ages(d) \/ Spawn(d)
<1>0. ProcessesOK /\ Runners /\ KillersOK
  BY TypeParts DEF Inv, Runners
<1>1. ASSUME NEW c \in Children, Process(c) \/ StartCommand(c) \/ Runner(c) \/ WaitFails(c)
      PROVE  ProcessesOK' /\ \A d \in Children : Ages(d) \/ Spawn(d)
  <2>0. RunnerInv(c) /\ helper[c] \in Helpers /\ "none" \in Helpers
    BY <1>0 DEF Runners, ProcessesOK, Helpers
  <2>1. CASE LeaderExits(c)
    BY <1>0, <2>1, OneAges DEF LeaderExits
  <2>2. CASE HelperExits(c)
    <3>1. ProcessesOK'
      BY <1>0, <2>0, <2>2 DEF HelperExits, ProcessesOK
    <3>2. ASSUME NEW d \in Children PROVE Ages(d)
      BY <1>0, <2>2, <3>2 DEF HelperExits, ProcessesOK, Ages, GroupAlive, HoldsPipes, InGroup
    <3> QED BY <3>1, <3>2
  <2>3. CASE Spawn(c)
    <3>1. ProcessesOK' /\ helper' = helper /\ (leader' = leader \/ leader' = [leader EXCEPT ![c] = "running"])
      BY <1>0, <2>3 DEF Spawn, ProcessesOK
    <3>2. \A d \in Children \ {c} : Ages(d)
      BY <1>0, <3>1 DEF ProcessesOK, Ages, GroupAlive, HoldsPipes
    <3> QED BY <2>3, <3>1, <3>2
  <2>4. CASE Exited(c) \/ WaitFails(c)
    BY <1>0, <2>0, <2>4, OneAges DEF Exited, WaitFails
  <2>5. CASE StopReap(c)
    <3>1. leader[c] # "none"
      BY <2>0, <2>5 DEF StopReap, RunnerInv
    <3>2. leader' = [leader EXCEPT ![c] = "reaped"] /\ helper' = helper
      BY <2>5 DEF StopReap
    <3>3. leader'[c] = "reaped"
      BY <1>0, <3>2 DEF ProcessesOK
    <3> QED BY <1>0, <2>0, <3>1, <3>2, <3>3, OneAges
  <2>6. CASE StopTerm(c) \/ Restop(c)
    BY <1>0, <2>6, TermAges, SameAges DEF StopTerm, Restop
  <2>7. CASE StopKill(c) \/ RestopKill(c)
    BY <1>0, <2>7, KillAges DEF StopKill, RestopKill
  <2>8. CASE StartCommand(c) \/ Register(c) \/ TimesOut(c) \/ SeesCancel(c) \/ Drained(c) \/ Unregister(c)
    BY <1>0, <2>8, SameAges DEF StartCommand, Register, TimesOut, SeesCancel, Drained, Unregister, processes
  <2> QED BY <1>1, <2>1, <2>2, <2>3, <2>4, <2>5, <2>6, <2>7, <2>8 DEF Process, Runner
<1>2. ASSUME NEW k \in Killers, Killing(k) PROVE ProcessesOK' /\ \A d \in Children : Ages(d)
  <2>1. CASE KillNext(k)
    <3>1. killer[k].list \subseteq Children
      BY <1>0 DEF KillersOK, Killer
    <3> QED BY <1>0, <2>1, <3>1, TermAges, SameAges DEF KillNext
  <2>2. CASE KillGrace(k)
    BY <1>0, <2>2, KillAges DEF KillGrace, Inv, CleanupApart
  <2>3. CASE KillsDone(k)
    BY <1>0, <2>3, SameAges DEF KillsDone
  <2> QED BY <1>2, <2>1, <2>2, <2>3 DEF Killing
<1>3. CASE \E group \in SUBSET Children : StartSubagents(group)
  BY <1>0, <1>3, SameAges DEF StartSubagents
<1>4. CASE \/ JoinSubagents \/ StartRun \/ RunEnds \/ Signal \/ DropOnFlag \/ AbortTask
           \/ CtrlC \/ DropTask \/ Take \/ UNCHANGED processVars
  BY <1>0, <1>4, SameAges
     DEF JoinSubagents, StartRun, RunEnds, Signal, DropOnFlag, AbortTask, CtrlC, DropTask, Take, processVars, processes
<1> QED BY <1>1, <1>2, <1>3, <1>4 DEF ProcessNext

-----------------------------------------------------------------------------
(* What is known of a runner.                                              *)

(* A runner that stays where it is: what others do to its child, by a       *)
(* signal or an exit, disturbs nothing that is known of it.                 *)
LEMMA RunnerKept ==
    ASSUME Inv, [ProcessNext]_processVars, NEW d \in Children,
           at'[d] = at[d], why'[d] = why[d], kind'[d] = kind[d]
    PROVE  RunnerInv(d)'
<1>0. RunnerInv(d) /\ RunnersOK
  BY TypeParts DEF Inv, Runners
<1>1. ~ Spawn(d)
  BY <1>0 DEF Spawn, Goto, RunnersOK
<1>2. Ages(d)
  BY <1>1, ProcessesNext
<1>3. Detached(d)' <=> Detached(d)
  BY DEF Detached
<1>4. Settled(d) /\ leader[d] = "reaped" => Settled(d)'
  BY <1>2 DEF Settled, Ages
<1> QED BY <1>0, <1>2, <1>3, <1>4 DEF RunnerInv, Ages, AfterSpawn, AfterExit

(* A runner's own step.                                                     *)
LEMMA RunnerSteps ==
    ASSUME Inv, [ProcessNext]_processVars, NEW c \in Children,
           StartCommand(c) \/ Runner(c) \/ WaitFails(c)
    PROVE  RunnerInv(c)'
<1>0. RunnerInv(c) /\ RunnersOK /\ ProcessesOK
  BY TypeParts DEF Inv, Runners
<1>1. Ages(c) \/ Spawn(c)
  BY ProcessesNext
<1>3. ASSUME NEW pc, Goto(c, pc) PROVE at'[c] = pc
  BY <1>0, <1>3 DEF Goto, RunnersOK
<1>4. ASSUME NEW pc, NEW reason, Ends(c, reason, pc) PROVE at'[c] = pc /\ why'[c] = reason
  BY <1>0, <1>3, <1>4 DEF Ends, RunnersOK
<1> USE DEF RunnerInv, AfterSpawn, AfterExit, Stops
<1>5. CASE StartCommand(c)
  <2>1. at'[c] = "queued" /\ at[c] = "idle" /\ kind'[c] # "none" /\ leader' = leader
    BY <1>0, <1>3, <1>5 DEF StartCommand, Fresh, RunnersOK, processes
  <2> QED BY <1>0, <2>1
<1>6. CASE Spawn(c)
  <2>1. CASE at'[c] = "spawned" /\ leader'[c] = "running" /\ kind'[c] = kind[c] /\ at[c] = "queued"
    BY <1>0, <2>1
  <2>2. CASE at'[c] = "ended" /\ leader'[c] = leader[c] /\ kind'[c] = kind[c] /\ at[c] = "queued"
    BY <1>0, <2>2
  <2> QED BY <1>0, <1>3, <1>6, <2>1, <2>2 DEF Spawn, ProcessesOK
<1>7. CASE Register(c)
  <2>1. at'[c] = "waiting" /\ at[c] = "spawned" /\ kind'[c] = kind[c] /\ leader' = leader
    BY <1>3, <1>7 DEF Register, processes
  <2> QED BY <1>0, <2>1
<1>8. CASE Exited(c)
  <2>1. at'[c] = "draining" /\ at[c] = "waiting" /\ kind'[c] = kind[c] /\ leader'[c] = "reaped" /\ why'[c] = "exited"
    BY <1>0, <1>4, <1>8 DEF Exited, ProcessesOK
  <2> QED BY <1>0, <2>1
<1>9. CASE WaitFails(c)
  <2>1. kind[c] \in {"command", "script", "subagent"}
    BY <1>0, <1>9 DEF WaitFails, RunnersOK, Kinds
  <2>2. /\ at'[c] = IF kind[c] = "command" THEN "ended"
                     ELSE IF kind[c] = "script" THEN "unregistering" ELSE "draining"
        /\ at[c] = "waiting" /\ kind'[c] = kind[c] /\ leader'[c] = "reaped" /\ why'[c] = "failed"
    BY <1>0, <1>4, <1>9, <2>1 DEF WaitFails, ProcessesOK
  <2> QED BY <1>0, <2>1, <2>2 DEF Detached
<1>10. CASE TimesOut(c) \/ SeesCancel(c)
  <2>1. /\ at'[c] = "stopping" /\ why'[c] \in Stops /\ kind'[c] = kind[c] /\ leader' = leader
        /\ at[c] \in {"waiting", "stopping", "grace", "reaping", "unregistering"}
    BY <1>4, <1>10 DEF TimesOut, SeesCancel, processes
  <2> QED BY <1>0, <2>1
<1>11. CASE StopTerm(c)
  <2>1. /\ at[c] = "stopping" /\ kind'[c] = kind[c] /\ why'[c] = why[c] /\ (leader[c] # "none" => leader'[c] # "none")
        /\ at'[c] = "grace" \/ (at'[c] = "reaping" /\ ~ GroupExists(c) /\ UNCHANGED processes)
    BY <1>1, <1>3, <1>11 DEF StopTerm, Ages, Spawn
  <2>2. ~ GroupExists(c) /\ UNCHANGED processes => ~ GroupAlive(c)'
    BY DEF GroupExists, GroupAlive, processes
  <2> QED BY <1>0, <2>1, <2>2
<1>12. CASE StopKill(c)
  <2>1. /\ at[c] = "grace" /\ at'[c] = "reaping" /\ kind'[c] = kind[c] /\ why'[c] = why[c]
        /\ (leader[c] # "none" => leader'[c] # "none") /\ ~ GroupAlive(c)'
    BY <1>0, <1>1, <1>3, <1>12, KillAges DEF StopKill, Ages, Spawn
  <2> QED BY <1>0, <2>1
<1>13. CASE StopReap(c)
  <2>1. /\ at[c] = "reaping" /\ at'[c] \in {"draining", "unregistering"} /\ kind'[c] = kind[c] /\ why'[c] = why[c]
        /\ leader'[c] = "reaped" /\ (~ GroupAlive(c) => ~ GroupAlive(c)')
    BY <1>0, <1>1, <1>3, <1>13 DEF StopReap, AfterStop, Ages, Spawn, ProcessesOK
  <2> QED BY <1>0, <2>1 DEF Settled
<1>14. CASE Drained(c)
  <2>1. /\ at[c] = "draining" /\ kind'[c] = kind[c] /\ why'[c] = why[c] /\ UNCHANGED processes
        /\ at'[c] = IF StopsAfterDrain(c) THEN "restopping"
                    ELSE IF kind[c] = "script" /\ why[c] = "timedout" THEN "ended" ELSE "unregistering"
    BY <1>3, <1>14 DEF Drained
  <2>2. leader'[c] = leader[c] /\ (GroupAlive(c)' <=> GroupAlive(c)) /\ (HoldsPipes(c)' <=> HoldsPipes(c))
        /\ (Detached(c)' <=> Detached(c)) /\ (kind[c] = "script" => ~ Detached(c))
    BY <2>1 DEF processes, GroupAlive, HoldsPipes, Detached
  <2>3. why[c] \in {"exited", "failed", "timedout", "cancelled"}
    BY <1>0, <2>1 DEF RunnersOK, Reasons
  <2> QED BY <1>0, <2>1, <2>2, <2>3 DEF Settled, StopsAfterDrain
<1>15. CASE Restop(c)
  <2>1. /\ at[c] = "restopping" /\ kind'[c] = kind[c] /\ why'[c] = why[c] /\ Ages(c)
        /\ at'[c] = "regrace" \/ (at'[c] = "unregistering" /\ ~ GroupExists(c) /\ UNCHANGED processes)
    BY <1>1, <1>3, <1>15 DEF Restop, Spawn
  <2>2. ~ GroupExists(c) /\ UNCHANGED processes => ~ GroupAlive(c)'
    BY DEF GroupExists, GroupAlive, processes
  <2> QED BY <1>0, <2>1, <2>2 DEF Settled, Ages, Detached
<1>16. CASE RestopKill(c)
  <2>1. /\ at[c] = "regrace" /\ at'[c] = "unregistering" /\ kind'[c] = kind[c] /\ why'[c] = why[c]
        /\ Ages(c) /\ ~ GroupAlive(c)'
    BY <1>0, <1>1, <1>3, <1>16, KillAges DEF RestopKill, Spawn
  <2> QED BY <1>0, <2>1 DEF Settled, Ages, Detached
<1>17. CASE Unregister(c)
  <2>1. /\ at[c] = "unregistering" /\ kind'[c] = kind[c] /\ why'[c] = why[c] /\ Ages(c)
        /\ at'[c] = IF kind[c] = "script" /\ why[c] = "timedout" THEN "draining" ELSE "ended"
    BY <1>1, <1>3, <1>17 DEF Unregister, Spawn
  <2>2. Settled(c) /\ leader[c] = "reaped" => Settled(c)'
    BY <2>1 DEF Settled, Ages
  <2> QED BY <1>0, <2>1, <2>2 DEF Settled, Ages, Detached
<1> QED BY <1>5, <1>6, <1>7, <1>8, <1>9, <1>10, <1>11, <1>12, <1>13, <1>14, <1>15, <1>16, <1>17 DEF Runner

(* A runner's step is about its own child.                                  *)
LEMMA OthersKept ==
    ASSUME RunnersOK, NEW c \in Children, StartCommand(c) \/ Runner(c) \/ WaitFails(c)
    PROVE  \A d \in Children \ {c} : at'[d] = at[d] /\ why'[d] = why[d] /\ kind'[d] = kind[d]
BY DEF StartCommand, Runner, Spawn, Register, Exited, TimesOut, SeesCancel, StopTerm, StopKill, StopReap,
       Drained, Restop, RestopKill, Unregister, WaitFails, Goto, Ends, RunnersOK

(* What a step does to the runners: its own child's, the new subagents', or *)
(* every runner of a call that is dropped.                                  *)
LEMMA RunnersStep ==
    ASSUME Inv, [ProcessNext]_processVars
    PROVE  \/ UNCHANGED runners
           \/ \E c \in Children : /\ StartCommand(c) \/ Runner(c) \/ WaitFails(c)
                                /\ \A d \in Children \ {c} :
                                      at'[d] = at[d] /\ why'[d] = why[d] /\ kind'[d] = kind[d]
           \/ \E group \in SUBSET Children : StartSubagents(group)
           \/ (DropOnFlag \/ DropTask) /\ DropCall /\ UNCHANGED <<kind, why, processes>>
<1>0. RunnersOK
  BY TypeParts DEF Inv, Runners
<1>1. ASSUME NEW c \in Children, StartCommand(c) \/ Runner(c) \/ WaitFails(c)
      PROVE  \A d \in Children \ {c} : at'[d] = at[d] /\ why'[d] = why[d] /\ kind'[d] = kind[d]
  BY <1>0, <1>1, OthersKept
<1>2. ASSUME NEW c \in Children, Process(c) PROVE UNCHANGED runners
  BY <1>2 DEF Process, LeaderExits, HelperExits
<1>3. ASSUME NEW k \in Killers, Killing(k) PROVE UNCHANGED runners
  BY <1>3 DEF Killing, KillNext, KillGrace, KillsDone
<1>4. CASE JoinSubagents \/ StartRun \/ RunEnds \/ Signal \/ AbortTask \/ CtrlC \/ Take \/ UNCHANGED processVars
  BY <1>4 DEF JoinSubagents, StartRun, RunEnds, Signal, AbortTask, CtrlC, Take, processVars, runners
<1>5. CASE DropOnFlag \/ DropTask
  BY <1>5 DEF DropOnFlag, DropTask
<1> QED BY <1>1, <1>2, <1>3, <1>4, <1>5 DEF ProcessNext

(* Every step keeps what is known of every runner.                          *)
LEMMA RunnerInvNext == Inv /\ [ProcessNext]_processVars => Runners'
<1> SUFFICES ASSUME Inv, [ProcessNext]_processVars, NEW d \in Children PROVE RunnerInv(d)'
  BY DEF Runners
<1>0. RunnerInv(d) /\ RunnersOK /\ ProcessesOK
  BY TypeParts DEF Inv, Runners
<1>1. CASE UNCHANGED runners
  BY <1>1, RunnerKept DEF runners
<1>2. ASSUME NEW c \in Children, StartCommand(c) \/ Runner(c) \/ WaitFails(c),
             \A e \in Children \ {c} : at'[e] = at[e] /\ why'[e] = why[e] /\ kind'[e] = kind[e]
      PROVE  RunnerInv(d)'
  BY <1>2, RunnerKept, RunnerSteps
<1>3. ASSUME NEW group \in SUBSET Children, StartSubagents(group) PROVE RunnerInv(d)'
  <2>1. CASE d \notin group
    BY <1>0, <1>3, <2>1, RunnerKept DEF StartSubagents, RunnersOK
  <2>2. CASE d \in group
    <3>1. at[d] = "idle" /\ at'[d] = "queued" /\ kind'[d] = "subagent" /\ leader'[d] = leader[d]
      BY <1>3, <2>2 DEF StartSubagents, Fresh, processes
    <3> QED BY <1>0, <3>1 DEF RunnerInv, AfterSpawn, AfterExit
  <2> QED BY <2>1, <2>2
<1>4. CASE DropCall /\ UNCHANGED <<kind, why, processes>>
  <2>1. at'[d] = Fate(d)
    BY <1>4 DEF DropCall
  <2>2. CASE Detached(d) \/ ~ Live(d)
    <3>1. Fate(d) = at[d]
      BY <2>2 DEF Fate, Live, Gone
    <3> QED BY <1>4, <2>1, <3>1, RunnerKept
  <2>3. CASE ~ Detached(d) /\ Live(d)
    <3>1. at'[d] = IF at[d] = "queued" THEN "ended" ELSE IF at[d] = "spawned" THEN "lost" ELSE "dropped"
      BY <2>1, <2>3 DEF Fate
    <3>2. leader' = leader /\ kind' = kind /\ at[d] # "idle"
      BY <1>4, <2>3 DEF processes, Live
    <3>3. at[d] # "queued" => leader[d] # "none"
      BY <1>0, <2>3 DEF RunnerInv, RunnersOK, RunnerStages, Gone, AfterSpawn, AfterExit, Live
    <3> QED BY <1>0, <2>3, <3>1, <3>2, <3>3 DEF RunnerInv, AfterSpawn, AfterExit, Detached
  <2> QED BY <2>2, <2>3
<1> QED BY <1>1, <1>2, <1>3, <1>4, RunnersStep

(* A step that starts no call and does not stop the run keeps OneCall.     *)
LEMMA OneCallNext == Inv /\ [ProcessNext]_processVars => OneCall'
<1> SUFFICES ASSUME Inv, [ProcessNext]_processVars PROVE OneCall'
  OBVIOUS
<1>0. RunnersOK /\ SessionOK /\ OneCall
  BY TypeParts DEF Inv, Runners
<1>1. ASSUME \A d \in Children : (~ Detached(d) /\ Live(d))' => ~ Detached(d) /\ Live(d),
             joined' \in {joined, {}}, run \in {"running", "aborted"} => run' \in {"running", "aborted"}
      PROVE  OneCall'
  BY <1>0, <1>1 DEF OneCall
<1>2. ASSUME \A d \in Children : (Detached(d) \/ ~ Live(d))' PROVE OneCall'
  BY <1>2 DEF OneCall
<1>3. ASSUME NEW d \in Children, at'[d] = at[d], kind'[d] = kind[d]
      PROVE  (~ Detached(d) /\ Live(d))' => ~ Detached(d) /\ Live(d)
  BY <1>3 DEF Detached, Live
<1>4. ~ CallOpen => \A d \in Children : Detached(d) \/ ~ Live(d)
  BY DEF CallOpen
<1>5. ASSUME NEW c \in Children, Process(c) \/ StartCommand(c) \/ Runner(c) \/ WaitFails(c) PROVE OneCall'
  <2>1. CASE StartCommand(c)
    <3>1. joined' = {} /\ run' = "running"
      BY <2>1 DEF StartCommand, CallOpen, session
    <3> QED BY <3>1 DEF OneCall
  <2>2. CASE Process(c)
    BY <1>1, <1>3, <2>2 DEF Process, LeaderExits, HelperExits, runners, session
  <2>3. CASE Runner(c) \/ WaitFails(c)
    <3>1. UNCHANGED <<joined, run, kind>> /\ (\E pc : Goto(c, pc)) /\ Live(c)
      BY <2>3
         DEF Runner, Spawn, Register, Exited, TimesOut, SeesCancel, StopTerm, StopKill, StopReap,
             Drained, Restop, RestopKill, Unregister, WaitFails, Ends, session, Live, Gone
    <3>2. \A d \in Children \ {c} : at'[d] = at[d]
      BY <1>0, <3>1 DEF Goto, RunnersOK
    <3> QED BY <1>1, <1>3, <3>1, <3>2 DEF Detached
  <2> QED BY <1>5, <2>1, <2>2, <2>3
<1>6. ASSUME NEW group \in SUBSET Children, StartSubagents(group) PROVE OneCall'
  <2>1. ASSUME NEW d \in Children PROVE (Detached(d) \/ ~ Live(d))'
    <3>1. CASE d \in group
      BY <1>6, <3>1 DEF StartSubagents, Detached
    <3>2. CASE d \notin group
      BY <1>4, <1>6, <3>2 DEF StartSubagents, Detached, Live
    <3> QED BY <3>1, <3>2
  <2> QED BY <1>2, <2>1
<1>7. CASE RunEnds \/ AbortTask
  <2>1. \A d \in Children : (Detached(d) \/ ~ Live(d))'
    BY <1>4, <1>7 DEF RunEnds, AbortTask, runners, Detached, Live
  <2> QED BY <1>2, <2>1
<1>8. CASE StartRun
  <2>1. run = "idle" /\ UNCHANGED runners
    BY <1>8 DEF StartRun
  <2>2. \A d \in Children : (Detached(d) \/ ~ Live(d))'
    BY <1>0, <2>1 DEF OneCall, runners, Detached, Live
  <2> QED BY <1>2, <2>2
<1>9. CASE DropCall /\ UNCHANGED kind
  <2>1. \A d \in Children : (Detached(d) \/ ~ Live(d))'
    BY <1>9 DEF DropCall, Fate, Detached, Live, Gone
  <2> QED BY <1>2, <2>1
<1>10. CASE JoinSubagents \/ Signal \/ Take \/ CtrlC \/ UNCHANGED processVars
  BY <1>1, <1>3, <1>10 DEF JoinSubagents, Signal, Take, CtrlC, processVars, runners, session
<1>11. ASSUME NEW k \in Killers, Killing(k) PROVE OneCall'
  <2>1. UNCHANGED <<runners, joined>> /\ (run' = run \/ run = "killing")
    BY <1>11 DEF Killing, KillNext, KillGrace, KillsDone, KillerRuns, session, Killers
  <2> QED BY <1>1, <1>3, <2>1 DEF runners
<1> QED BY <1>5, <1>6, <1>7, <1>8, <1>9, <1>10, <1>11 DEF ProcessNext, DropOnFlag, DropTask

(* A run starts only when the cleanup is over, and the cleanup only ends    *)
(* what Ctrl+C aborted.                                                     *)
LEMMA CleanupNext == Inv /\ [ProcessNext]_processVars => CleanupApart'
<1> SUFFICES ASSUME Inv, [ProcessNext]_processVars PROVE CleanupApart'
  OBVIOUS
<1>0. SessionOK /\ KillersOK /\ CleanupApart
  BY TypeParts DEF Inv, Runners
<1>1. /\ {"agent", "terminal"} = Killers /\ Off.at = "off" /\ Off.list = {}
  BY DEF Killers, Off
<1> USE DEF CleanupApart
<1>2. CASE UNCHANGED killer /\ (run' \in {run, "idle"} \/ killer["terminal"] = Off)
  BY <1>0, <1>2
<1>3. ASSUME NEW c \in Children, Process(c) \/ StartCommand(c) \/ Runner(c) \/ WaitFails(c)
      PROVE  UNCHANGED <<killer, run>>
  BY <1>3
     DEF Process, LeaderExits, HelperExits, StartCommand, Runner, Spawn, Register, Exited, TimesOut, SeesCancel,
         StopTerm, StopKill, StopReap, Drained, Restop, RestopKill, Unregister, WaitFails, session
<1>4. CASE \/ \E group \in SUBSET Children : StartSubagents(group)
           \/ JoinSubagents \/ StartRun \/ RunEnds \/ Signal \/ DropOnFlag \/ UNCHANGED processVars
  BY <1>2, <1>4 DEF StartSubagents, JoinSubagents, StartRun, RunEnds, Signal, DropOnFlag, processVars, session
<1>5. CASE AbortTask
  BY <1>0, <1>1, <1>5 DEF AbortTask, KillersOK
<1>6. CASE CtrlC
  BY <1>0, <1>1, <1>6 DEF CtrlC, KillersOK, Killer
<1>7. CASE DropTask
  BY <1>0, <1>1, <1>7 DEF DropTask, KillersOK
<1>8. CASE Take
  BY <1>0, <1>1, <1>8 DEF Take, KillersOK
<1>9. ASSUME NEW k \in Killers, Killing(k) PROVE CleanupApart'
  <2>1. CASE KillNext(k)
    <3>1. run' = run /\ killer[k].at = "next" /\ killer[k].list \subseteq Children
      BY <1>0, <2>1 DEF KillNext, KillersOK, Killer, session
    <3>2. /\ \A j \in Killers \ {k} : killer'[j] = killer[j]
          /\ \/ killer'[k].at = "grace" /\ killer'[k].now \in Children
             \/ killer'[k].at = "next"
      BY <1>0, <2>1, <3>1 DEF KillNext, KillersOK, Killer
    <3> QED BY <1>0, <1>1, <3>1, <3>2
  <2>2. CASE KillGrace(k)
    <3>1. run' = run /\ killer[k].at = "grace" /\ killer'[k].at = "next" /\ \A j \in Killers \ {k} : killer'[j] = killer[j]
      BY <1>0, <2>2 DEF KillGrace, KillersOK, session
    <3> QED BY <1>0, <1>1, <3>1
  <2>3. CASE KillsDone(k)
    BY <1>0, <1>1, <2>3 DEF KillsDone, KillersOK
  <2> QED BY <1>9, <2>1, <2>2, <2>3 DEF Killing
<1> QED BY <1>2, <1>3, <1>4, <1>5, <1>6, <1>7, <1>8, <1>9 DEF ProcessNext

-----------------------------------------------------------------------------
(* Who can still stop a group.                                             *)

(* Nothing is lost where a list only grows, a run does not begin to abort,  *)
(* and the runner of the child stays where it is.                           *)
LEMMA ListedKept ==
    ASSUME Inv, [ProcessNext]_processVars, NEW d \in Children, at'[d] = at[d], kind'[d] = kind[d],
           Listed(d) => Listed(d)',
           run' = "killing" => run = "killing" /\ killer'["agent"] = killer["agent"]
    PROVE  StaysListed(d)'
<1>1. RunnersOK
  BY TypeParts DEF Inv, Runners
<1>2. Ages(d)
  BY <1>1, ProcessesNext DEF Spawn, Goto, RunnersOK
<1> QED BY <1>2 DEF Inv, StaysListed, Ages, Detached

(* Every step keeps living groups listed: abort_task empties the list when  *)
(* its copy is worked through, the cleanup takes all of it, and a runner    *)
(* takes its own group out when nothing is left of it, or when it returns.  *)
LEMMA ListedNext == Inv /\ [ProcessNext]_processVars => \A c \in Children : StaysListed(c)'
<1> SUFFICES ASSUME Inv, [ProcessNext]_processVars, NEW d \in Children PROVE StaysListed(d)'
  OBVIOUS
<1>0. RunnersOK /\ SessionOK /\ KillersOK /\ OneCall /\ CleanupApart /\ StaysListed(d) /\ RunnerInv(d)
  BY TypeParts DEF Inv, Runners
<1>1. Ages(d) \/ Spawn(d)
  BY ProcessesNext
<1>2. {"agent", "terminal"} = Killers /\ Off.at = "off" /\ Off.list = {}
  BY DEF Killers, Off
<1>3. CASE UNCHANGED <<runners, pids, killer>> /\ (run' = run \/ run' # "killing")
  BY <1>3, ListedKept DEF runners, Listed
<1>4. ASSUME NEW c \in Children, StartCommand(c) \/ Runner(c) \/ WaitFails(c),
             \A e \in Children \ {c} : at'[e] = at[e] /\ why'[e] = why[e] /\ kind'[e] = kind[e]
      PROVE  StaysListed(d)'
  <2>1. /\ UNCHANGED <<killer, run>> /\ pids' \in {pids, pids \cup {c}, pids \ {c}}
        /\ pids' = pids \ {c} \/ pids \subseteq pids'
    BY <1>4
       DEF StartCommand, Runner, Spawn, Register, Exited, TimesOut, SeesCancel, StopTerm, StopKill, StopReap,
           Drained, Restop, RestopKill, Unregister, WaitFails, session
  <2>2. CASE c # d
    BY <1>4, <2>1, <2>2, ListedKept DEF Listed
  <2> SUFFICES ASSUME c = d PROVE StaysListed(d)'
    BY <2>2
  <2>3. ASSUME NEW pc, Goto(d, pc) PROVE at'[d] = pc
    BY <1>0, <2>3 DEF Goto, RunnersOK
  <2>4. CASE StartCommand(d) \/ Spawn(d)
    <3>1. at'[d] \in {"queued", "spawned", "ended"}
      BY <2>3, <2>4 DEF StartCommand, Spawn
    <3> QED BY <3>1 DEF StaysListed, Registered, AfterExit
  <2>5. CASE Register(d)
    <3>1. d \in pids' /\ at'[d] = "waiting"
      BY <2>3, <2>5 DEF Register
    <3> QED BY <3>1 DEF StaysListed, Listed
  <2>6. CASE Unregister(d)
    <3>1. /\ at[d] = "unregistering" /\ UNCHANGED processes
          /\ at'[d] = "ended" \/ (at'[d] = "draining" /\ why[d] = "timedout")
      BY <2>3, <2>6 DEF Unregister
    <3>2. why[d] = "timedout" => ~ GroupAlive(d)
      BY <1>0, <3>1 DEF RunnerInv, AfterExit, Stops
    <3>3. GroupAlive(d)' <=> GroupAlive(d)
      BY <3>1 DEF processes, GroupAlive
    <3> QED BY <3>1, <3>2, <3>3 DEF StaysListed, Registered, AfterExit
  <2>7. ASSUME at[d] \in Registered, at'[d] \in Registered \cup {"ended"}, UNCHANGED <<kind, pids>>
        PROVE  StaysListed(d)'
    <3>1. Ages(d)
      BY <1>1, <2>7 DEF Spawn, Registered, AfterExit
    <3> QED BY <1>0, <2>1, <2>7, <3>1 DEF StaysListed, Ages, Detached, Listed, Registered, AfterExit
  <2> USE DEF Registered, AfterExit
  <2>8. CASE Exited(d) \/ TimesOut(d) \/ SeesCancel(d) \/ StopTerm(d) \/ StopKill(d)
    BY <2>3, <2>7, <2>8 DEF Exited, TimesOut, SeesCancel, StopTerm, StopKill, Ends
  <2>9. CASE StopReap(d) \/ Drained(d) \/ Restop(d) \/ RestopKill(d)
    BY <2>3, <2>7, <2>9 DEF StopReap, AfterStop, Drained, Restop, RestopKill
  <2>10. CASE WaitFails(d)
    <3>1. kind[d] \in {"command", "script", "subagent"}
      BY <1>0, <2>10 DEF WaitFails, RunnersOK, Kinds, RunnerInv
    <3> QED BY <2>3, <2>7, <2>10, <3>1 DEF WaitFails, Ends
  <2> QED BY <1>4, <2>4, <2>5, <2>6, <2>8, <2>9, <2>10 DEF Runner
<1>5. ASSUME NEW group \in SUBSET Children, StartSubagents(group) PROVE StaysListed(d)'
  <2>1. CASE d \in group
    BY <1>0, <1>5, <2>1 DEF StartSubagents, StaysListed, Registered, AfterExit
  <2>2. CASE d \notin group
    BY <1>5, <2>2, ListedKept DEF StartSubagents, Listed, session
  <2> QED BY <2>1, <2>2
<1>6. CASE DropOnFlag \/ DropTask
  <2>1. /\ UNCHANGED <<kind, pids, processes>> /\ killer'["terminal"] = killer["terminal"]
        /\ run' # "killing" /\ at'[d] = Fate(d)
    BY <1>0, <1>2, <1>6 DEF DropOnFlag, DropTask, DropCall, KillersOK, session
  <2>2. Fate(d) \in {at[d], "ended", "lost"} \/ (Fate(d) = "dropped" /\ at[d] \in Registered /\ ~ Detached(d))
    BY <1>0 DEF Fate, Live, RunnersOK, RunnerStages, Gone, Registered, AfterExit
  <2>3. (GroupAlive(d)' <=> GroupAlive(d)) /\ (Detached(d)' <=> Detached(d)) /\ (Listed(d)' <=> Listed(d))
    BY <2>1 DEF processes, GroupAlive, Detached, Listed
  <2> QED BY <1>0, <2>1, <2>2, <2>3 DEF StaysListed, Registered, AfterExit
<1>7. CASE AbortTask
  <2>1. /\ UNCHANGED <<at, kind, pids, processes>> /\ run = "running" /\ killer'["terminal"] = killer["terminal"]
        /\ run' = "idle" \/ killer'["agent"].list = pids
    BY <1>0, <1>2, <1>7 DEF AbortTask, KillersOK, runners
  <2>2. (GroupAlive(d)' <=> GroupAlive(d)) /\ (Detached(d)' <=> Detached(d)) /\ (Listed(d)' <=> Listed(d))
    BY <2>1 DEF processes, GroupAlive, Detached, Listed
  <2>3. Listed(d) => d \in pids
    BY <1>0, <1>2, <2>1 DEF Listed, CleanupApart
  <2>4. at[d] = "dropped" => ~ Detached(d)
    BY <1>0 DEF RunnerInv
  <2> QED BY <1>0, <2>1, <2>2, <2>3, <2>4 DEF StaysListed
<1>8. CASE CtrlC
  <2>1. UNCHANGED <<runners, pids>> /\ run' = "aborted" /\ killer'["terminal"].list = killer["terminal"].list
    BY <1>0, <1>2, <1>8 DEF CtrlC, KillersOK, Killer
  <2> QED BY <2>1, ListedKept DEF runners, Listed
<1>9. CASE Take
  <2>1. /\ UNCHANGED <<run, runners>> /\ killer'["terminal"].list = pids /\ killer["terminal"].list = {}
        /\ killer'["agent"] = killer["agent"]
    BY <1>0, <1>2, <1>9 DEF Take, Taken, KillersOK, CleanupApart
  <2> QED BY <2>1, ListedKept DEF runners, Listed
<1>10. ASSUME NEW k \in Killers, Killing(k) PROVE StaysListed(d)'
  <2>1. UNCHANGED runners /\ Ages(d)
    BY <1>1, <1>0, <1>10 DEF Killing, KillNext, KillGrace, KillsDone, Spawn, Goto, runners, RunnersOK
  <2>2. ASSUME UNCHANGED <<run, pids>>, \A j \in Killers : d \in killer[j].list => d \in killer'[j].list \/ ~ GroupAlive(d)'
        PROVE  StaysListed(d)'
    BY <1>0, <1>2, <2>1, <2>2 DEF StaysListed, Listed, Ages, Detached, runners
  <2>3. CASE KillNext(k)
    <3>1. UNCHANGED <<run, pids>> /\ \A j \in Killers \ {k} : killer'[j] = killer[j]
      BY <1>0, <2>3 DEF KillNext, KillersOK, session
    <3>2. d \in killer[k].list => d \in killer'[k].list \/ (~ GroupExists(d) /\ UNCHANGED processes)
      BY <1>0, <2>3 DEF KillNext, KillersOK, Killer
    <3>3. ~ GroupExists(d) /\ UNCHANGED processes => ~ GroupAlive(d)'
      BY DEF GroupExists, GroupAlive, processes
    <3> QED BY <2>2, <3>1, <3>2, <3>3
  <2>4. CASE KillGrace(k)
    <3>1. UNCHANGED <<run, pids>> /\ \A j \in Killers \ {k} : killer'[j] = killer[j]
      BY <1>0, <2>4 DEF KillGrace, KillersOK, session
    <3>2. Kill(killer[k].now) /\ killer[k].now \in Children /\ killer'[k].list = killer[k].list \ {killer[k].now}
      BY <1>0, <2>4 DEF KillGrace, KillersOK, Killer, CleanupApart
    <3>3. ProcessesOK
      BY TypeParts DEF Inv, Runners
    <3>4. d = killer[k].now => ~ GroupAlive(d)'
      BY <3>2, <3>3, KillAges
    <3> QED BY <2>2, <3>1, <3>2, <3>4
  <2>5. CASE KillsDone("terminal")
    <3>1. UNCHANGED <<run, pids>> /\ killer'["agent"] = killer["agent"] /\ killer["terminal"].list = {}
      BY <1>0, <1>2, <2>5 DEF KillsDone, KillersOK
    <3> QED BY <1>2, <2>2, <3>1
  <2>6. CASE KillsDone("agent")
    <3>1. run = "killing" /\ run' = "idle" /\ killer["agent"].list = {}
      BY <2>6 DEF KillsDone, KillerRuns
    <3>2. at[d] = "dropped" => ~ GroupAlive(d)
      BY <1>0, <3>1 DEF StaysListed
    <3>3. at[d] \in Registered => Detached(d)
      BY <1>0, <3>1 DEF OneCall, Live, Registered, AfterExit, Gone
    <3> QED BY <2>1, <3>1, <3>2, <3>3 DEF StaysListed, Ages, Detached, runners
  <2> QED BY <1>2, <1>10, <2>3, <2>4, <2>5, <2>6 DEF Killing
<1>11. CASE (\E c \in Children : Process(c)) \/ JoinSubagents \/ StartRun \/ RunEnds \/ Signal \/ UNCHANGED processVars
  BY <1>3, <1>11
     DEF Process, LeaderExits, HelperExits, JoinSubagents, StartRun, RunEnds, Signal, processVars, runners, session
<1> QED BY <1>0, <1>4, <1>5, <1>6, <1>7, <1>8, <1>9, <1>10, <1>11, OthersKept DEF ProcessNext

-----------------------------------------------------------------------------
(* In the beginning there is no child.                                      *)
LEMMA InvInit == ProcessInit => Inv
<1> SUFFICES ASSUME ProcessInit PROVE Inv
  OBVIOUS
<1>1. FlagOK
  BY Zenon DEF ProcessInit, FlagOK
<1>2. SessionOK /\ RunnersOK /\ ProcessesOK
  BY ParametersAssumption
     DEF ProcessInit, SessionOK, RunnersOK, ProcessesOK, RunnerStages, Gone, Kinds, Reasons, Helpers
<1>3. KillersOK /\ CleanupApart
  BY DEF ProcessInit, KillersOK, Killer, Off, CleanupApart, Killers
<1>4. ASSUME NEW c \in Children PROVE at[c] = "idle" /\ leader[c] = "none"
  BY <1>4 DEF ProcessInit
<1>5. Runners /\ OneCall /\ \A c \in Children : StaysListed(c)
  BY <1>4 DEF Runners, RunnerInv, AfterSpawn, AfterExit, OneCall, Live, StaysListed, Registered
<1> QED BY <1>1, <1>2, <1>3, <1>5, TypeParts DEF Inv, Runners

(* Every step keeps the invariant.                                          *)
LEMMA InvNext == Inv /\ [ProcessNext]_processVars => Inv'
<1> SUFFICES ASSUME Inv, [ProcessNext]_processVars PROVE Inv'
  OBVIOUS
<1>1. FlagOK'
  BY FlagNext, TypeParts DEF Inv, Runners
<1>2. Runners' => (ProcessTypeOK' <=> FlagOK' /\ SessionOK' /\ RunnersOK' /\ ProcessesOK' /\ KillersOK' /\ OneCall')
  BY TypeParts, PTL
<1>3. Runners'
  BY RunnerInvNext
<1>4. ProcessTypeOK'
  BY <1>1, <1>2, <1>3, SessionNext, RunnersNext, ProcessesNext, KillersNext, OneCallNext
<1> QED BY <1>3, <1>4, CleanupNext, ListedNext DEF Inv, Runners

(* The invariant holds in every state of every behaviour.                   *)
LEMMA Invariance == ProcessSpec => []Inv
BY InvInit, InvNext, PTL DEF ProcessSpec

(* Every variable has its type, whatever was started and cancelled; a child *)
(* whose call was dropped had been started; one call holds the agent, and   *)
(* abort_task finds none open (run_tool_unless_cancelled, abort_task).      *)
THEOREM ProcessTypeCorrect == ProcessSpec => []ProcessTypeOK
<1>1. Inv => ProcessTypeOK
  BY DEF Inv
<1> QED BY <1>1, Invariance, PTL

(* No process of a call outlives it unattended, for any number of children, *)
(* runs and cancellations: what is still alive of a dropped call is in a    *)
(* list that somebody works through, and what was stopped is gone           *)
(* (terminate_process_group, running_command_pids, stop_subagent).          *)
THEOREM NoneSurvives == ProcessSpec => []NothingSurvives
<1>1. Inv => NothingSurvives
  <2> SUFFICES ASSUME Inv, NEW c \in Children, RunnerInv(c), StaysListed(c)
               PROVE  /\ (at[c] = "dropped" /\ GroupAlive(c))
                           => c \in pids \/ \E k \in Killers : c \in killer[k].list
                      /\ at[c] = "ended" /\ leader[c] # "none" /\ (why[c] \in {"cancelled", "timedout"} \/ Detached(c))
                           => leader[c] = "reaped" /\ (GroupAlive(c) => why[c] = "exited" /\ ~ HoldsPipes(c))
    BY DEF NothingSurvives, NothingEscapes, StoppedIsGone, Inv
  <2> QED BY DEF RunnerInv, StaysListed, Listed, Settled, Stops, Killers
<1> QED BY <1>1, Invariance, PTL

-----------------------------------------------------------------------------
(* Two sequences one after the other.                                       *)
LEMMA BothPlaces ==
    ASSUME NEW S, NEW a \in Seq(S), NEW b \in Seq(S)
    PROVE  /\ a \o b \in Seq(S) /\ Len(a \o b) = Len(a) + Len(b)
           /\ \A k \in 1 .. Len(a) : (a \o b)[k] = a[k]
           /\ \A k \in Len(a) + 1 .. Len(a) + Len(b) : (a \o b)[k] = b[k - Len(a)]
OBVIOUS

(* What removing and inserting do to a sequence.                            *)
LEMMA RemoveFacts ==
    ASSUME NEW S, NEW s \in Seq(S), NEW i \in 1 .. Len(s)
    PROVE  /\ RemoveAt(s, i) \in Seq(S) /\ Len(RemoveAt(s, i)) = Len(s) - 1
           /\ \A k \in 1 .. Len(s) - 1 : RemoveAt(s, i)[k] = IF k < i THEN s[k] ELSE s[k + 1]
<1> DEFINE a == SubSeq(s, 1, i - 1)
           b == SubSeq(s, i + 1, Len(s))
<1>1. a \in Seq(S) /\ Len(a) = i - 1 /\ \A k \in 1 .. i - 1 : a[k] = s[k]
  OBVIOUS
<1>2. b \in Seq(S) /\ Len(b) = Len(s) - i /\ \A k \in 1 .. Len(s) - i : b[k] = s[i + k]
  OBVIOUS
<1>3. RemoveAt(s, i) = a \o b
  BY DEF RemoveAt
<1>4. Len(s) \in Nat
  OBVIOUS
<1> HIDE DEF a, b
<1>51. a \in Seq(S) /\ b \in Seq(S)
  BY <1>1, <1>2
<1>52. /\ a \o b \in Seq(S) /\ Len(a \o b) = Len(a) + Len(b)
       /\ \A k \in 1 .. Len(a) : (a \o b)[k] = a[k]
       /\ \A k \in Len(a) + 1 .. Len(a) + Len(b) : (a \o b)[k] = b[k - Len(a)]
  BY <1>51, BothPlaces, Zenon
<1>53. Len(a) = i - 1 /\ Len(b) = Len(s) - i
  BY <1>1, <1>2
<1>5. a \o b \in Seq(S) /\ Len(a \o b) = Len(s) - 1
  BY <1>52, <1>53, <1>4
<1>6. ASSUME NEW k \in 1 .. Len(s) - 1 PROVE (a \o b)[k] = IF k < i THEN s[k] ELSE s[k + 1]
  <2>1. CASE k < i
    <3>1. k \in 1 .. Len(a)
      BY <2>1, <1>53, <1>4
    <3>2. k \in 1 .. i - 1
      BY <2>1, <1>4
    <3> QED BY <2>1, <3>1, <3>2, <1>52, <1>1
  <2>2. CASE ~ k < i
    <3>1. (a \o b)[k] = b[k - (i - 1)]
      <4>1. k \in Len(a) + 1 .. Len(a) + Len(b)
        BY <2>2, <1>53, <1>4
      <4> QED BY <4>1, <1>52, <1>53
    <3>2. PICK q : q = k - (i - 1)
      OBVIOUS
    <3>3. q \in 1 .. Len(s) - i /\ i + q = k + 1
      BY <2>2, <3>2, <1>4
    <3>4. b[q] = s[k + 1]
      BY <3>3, <1>2
    <3> QED BY <2>2, <3>1, <3>2, <3>4
  <2> QED BY <2>1, <2>2
<1> QED BY <1>3, <1>5, <1>6

LEMMA InsertFacts ==
    ASSUME NEW S, NEW s \in Seq(S), NEW i \in 1 .. Len(s) + 1, NEW e \in S
    PROVE  /\ InsertAt(s, i, e) \in Seq(S) /\ Len(InsertAt(s, i, e)) = Len(s) + 1
           /\ \A k \in 1 .. Len(s) + 1 : /\ k < i => InsertAt(s, i, e)[k] = s[k]
                                         /\ k = i => InsertAt(s, i, e)[k] = e
                                         /\ i < k => InsertAt(s, i, e)[k] = s[k - 1]
<1> DEFINE a == SubSeq(s, 1, i - 1)
           b == SubSeq(s, i, Len(s))
           c == a \o <<e>>
<1>1. a \in Seq(S) /\ Len(a) = i - 1 /\ \A k \in 1 .. i - 1 : a[k] = s[k]
  OBVIOUS
<1>2. b \in Seq(S) /\ Len(b) = Len(s) - i + 1 /\ \A k \in 1 .. Len(s) - i + 1 : b[k] = s[i + k - 1]
  OBVIOUS
<1>3. InsertAt(s, i, e) = c \o b
  BY DEF InsertAt
<1>4. Len(s) \in Nat
  OBVIOUS
<1> HIDE DEF a, b
<1>5. c \in Seq(S) /\ Len(c) = i /\ c[i] = e /\ \A k \in 1 .. i - 1 : c[k] = s[k]
  BY <1>1, <1>4
<1> HIDE DEF c
<1>6. c \o b \in Seq(S) /\ Len(c \o b) = Len(s) + 1
  <2>1. c \in Seq(S) /\ b \in Seq(S)
    BY <1>5, <1>2
  <2>2. c \o b \in Seq(S) /\ Len(c \o b) = Len(c) + Len(b)
    BY <2>1, BothPlaces, Zenon
  <2> QED BY <2>2, <1>5, <1>2, <1>4
<1>61. /\ \A k \in 1 .. i : (c \o b)[k] = c[k]
       /\ \A k \in i + 1 .. Len(s) + 1 : (c \o b)[k] = b[k - i]
  <2>1. c \in Seq(S) /\ b \in Seq(S)
    BY <1>5, <1>2
  <2>2. /\ \A k \in 1 .. Len(c) : (c \o b)[k] = c[k]
        /\ \A k \in Len(c) + 1 .. Len(c) + Len(b) : (c \o b)[k] = b[k - Len(c)]
    BY <2>1, BothPlaces, Zenon
  <2>3. Len(c) = i /\ Len(c) + Len(b) = Len(s) + 1
    BY <1>5, <1>2, <1>4
  <2> QED BY <2>2, <2>3
<1>7. ASSUME NEW k \in 1 .. Len(s) + 1
      PROVE  /\ k < i => (c \o b)[k] = s[k]
             /\ k = i => (c \o b)[k] = e
             /\ i < k => (c \o b)[k] = s[k - 1]
  <2>0. k \in Nat /\ i \in Nat /\ k <= Len(s) + 1
    BY <1>4
  <2>1. CASE k <= i
    <3>1. k \in 1 .. i /\ (k < i => k \in 1 .. i - 1)
      BY <2>1, <1>4
    <3> QED BY <2>1, <3>1, <1>61, <1>5
  <2>2. CASE k > i
    <3>0. k \in i + 1 .. Len(s) + 1
      BY <2>2, <2>0
    <3>1. (c \o b)[k] = b[k - i]
      BY <3>0, <1>61
    <3>2. k - i \in 1 .. Len(s) - i + 1 /\ i + (k - i) - 1 = k - 1
      BY <2>2, <1>4
    <3>3. b[k - i] = s[i + (k - i) - 1]
      BY <3>2, <1>2
    <3>4. (c \o b)[k] = s[k - 1]
      BY <3>1, <3>2, <3>3
    <3> QED BY <2>0, <2>2, <3>4
  <2>3. k <= i \/ k > i
    BY <2>0
  <2> QED BY <2>1, <2>2, <2>3
<1> QED BY <1>3, <1>6, <1>7

(* The texts of lines.                                                      *)
LEMMA TextsFacts ==
    ASSUME NEW c \in Seq(Lines)
    PROVE  /\ TextsOf(c) \in Seq(Texts) /\ Len(TextsOf(c)) = Len(c)
           /\ \A i \in 1 .. Len(c) : TextsOf(c)[i] = c[i].text
           /\ \A i \in 1 .. Len(c) : c[i] \in Lines
<1>1. DOMAIN c = 1 .. Len(c) /\ Len(c) \in Nat /\ \A i \in 1 .. Len(c) : c[i] \in Lines
  OBVIOUS
<1>2. \A i \in 1 .. Len(c) : c[i].text \in Texts
  BY <1>1 DEF Lines
<1>3. TextsOf(c) = [i \in 1 .. Len(c) |-> c[i].text]
  BY <1>1 DEF TextsOf
<1>4. TextsOf(c) \in [1 .. Len(c) -> Texts]
  BY <1>2, <1>3
<1>5. TextsOf(c) \in Seq(Texts) /\ Len(TextsOf(c)) = Len(c)
  BY <1>1, <1>4
<1> QED BY <1>1, <1>3, <1>5

-----------------------------------------------------------------------------
(* A document names each of its lines, each with an identity of its own that *)
(* its counter is past.                                                      *)
GoodIds(d) ==
    /\ Len(d.ids) = Len(d.texts)
    /\ \A i \in 1 .. Len(d.ids) : d.ids[i].space = d.space /\ d.ids[i].n < d.next /\ d.ids[i].of = <<>>
    /\ \A i, j \in 1 .. Len(d.ids) : d.ids[i] = d.ids[j] => i = j
GoodDoc(d) == d \in Docs /\ GoodIds(d) /\ d.space >= 1 /\ d.next >= 1

(* The positions before j that get a new identity.                          *)
Before(K, j) == {i \in 1 .. (j - 1) : i \notin K}

(* How many these are.                                                      *)
LEMMA BeforeFacts ==
    ASSUME NEW K, NEW n \in Nat, K \subseteq 1 .. n
    PROVE  /\ \A j \in 1 .. n : Cardinality(Before(K, j)) \in Nat
           /\ \A j, k \in 1 .. n : j < k /\ j \notin K => Cardinality(Before(K, j)) < Cardinality(Before(K, k))
           /\ \A j \in 1 .. n : j \notin K => Cardinality(Before(K, j)) < n - Cardinality(K)
           /\ Cardinality(K) \in 0 .. n
<1> DEFINE B(j) == {i \in 1 .. (j - 1) : i \notin K}
<1> USE DEF Before
<1>1. \A j \in 1 .. n + 1 : IsFiniteSet(B(j)) /\ Cardinality(B(j)) \in Nat
  <2> SUFFICES ASSUME NEW j \in 1 .. n + 1 PROVE IsFiniteSet(B(j)) /\ Cardinality(B(j)) \in Nat
    OBVIOUS
  <2>1. IsFiniteSet(1 .. n)
    BY FS_Interval
  <2>2. B(j) \subseteq 1 .. n
    OBVIOUS
  <2> QED BY <2>1, <2>2, FS_Subset, FS_CardinalityType
<1>2. ASSUME NEW j \in 1 .. n, NEW k \in 1 .. n + 1, j < k, j \notin K
      PROVE  Cardinality(B(j)) < Cardinality(B(k))
  <2>1. B(j) \subseteq B(k) /\ j \in B(k) /\ j \notin B(j)
    BY <1>2
  <2>2. B(j) # B(k) /\ IsFiniteSet(B(k))
    BY <2>1, <1>1
  <2>3. Cardinality(B(k)) \in Nat /\ Cardinality(B(j)) \in Nat
    <3>1. j \in 1 .. n + 1
      OBVIOUS
    <3> QED BY <3>1, <1>1
  <2> HIDE DEF B
  <2>4. Cardinality(B(j)) <= Cardinality(B(k)) /\ Cardinality(B(j)) # Cardinality(B(k))
    <3>1. B(j) \in SUBSET B(k)
      BY <2>1
    <3> QED BY <3>1, <2>2, FS_Subset, Zenon
  <2> QED BY <2>3, <2>4
<1>3. Cardinality(K) \in 0 .. n /\ Cardinality(B(n + 1)) = n - Cardinality(K)
  <2>1. IsFiniteSet(1 .. n) /\ Cardinality(1 .. n) = n
    BY FS_Interval
  <2>2. IsFiniteSet(K) /\ Cardinality(K) <= n /\ Cardinality(K) \in Nat
    <3>1. K \in SUBSET (1 .. n)
      OBVIOUS
    <3> QED BY <3>1, <2>1, FS_Subset, FS_CardinalityType
  <2>3. (1 .. n) \cap K = K
    OBVIOUS
  <2>4. B(n + 1) = (1 .. n) \ K
    OBVIOUS
  <2>5. Cardinality((1 .. n) \ K) = Cardinality(1 .. n) - Cardinality((1 .. n) \cap K)
    BY <2>1, FS_Difference
  <2>6. Cardinality(B(n + 1)) = n - Cardinality(K)
    <3> HIDE DEF B
    <3> QED BY <2>1, <2>3, <2>4, <2>5, Zenon
  <2> QED BY <2>2, <2>6
<1>4. ASSUME NEW j \in 1 .. n, j \notin K PROVE Cardinality(B(j)) < n - Cardinality(K)
  <2>1. j < n + 1 /\ n + 1 \in 1 .. n + 1
    OBVIOUS
  <2> HIDE DEF B
  <2> QED BY <2>1, <1>2, <1>3, <1>4
<1>5. \A j \in 1 .. n : j \in 1 .. n + 1
  OBVIOUS
<1>6. \A j \in 1 .. n : Cardinality(B(j)) \in Nat
  BY <1>1, <1>5
<1>7. \A j, k \in 1 .. n : j < k /\ j \notin K => Cardinality(B(j)) < Cardinality(B(k))
  BY <1>2, <1>5
<1> QED BY <1>3, <1>4, <1>6, <1>7

(* How far the counter is when all lines have their identities.             *)
Past(next, said, kept) == next + Len(said) - Cardinality(DOMAIN kept)

(* The kept identities are kept, the others are minted past the counter.    *)
LEMMA DocumentFacts ==
    ASSUME NEW gen \in Nat, NEW said \in Seq(Texts), NEW kept, NEW space \in Nat, NEW next \in Nat,
           DOMAIN kept \subseteq 1 .. Len(said),
           \A j \in DOMAIN kept : /\ kept[j] \in Ids /\ kept[j].n < next
                                  /\ kept[j].space = space /\ kept[j].of = <<>>,
           \A i, j \in DOMAIN kept : kept[i] = kept[j] => i = j
    PROVE  /\ Document(gen, said, kept, space, next) \in Docs
           /\ GoodIds(Document(gen, said, kept, space, next))
           /\ Document(gen, said, kept, space, next).next = Past(next, said, kept)
           /\ Document(gen, said, kept, space, next).next >= next
           /\ \A j \in 1 .. Len(said) : Document(gen, said, kept, space, next).ids[j].n < next
                => j \in DOMAIN kept /\ Document(gen, said, kept, space, next).ids[j] = kept[j]
<1> DEFINE K == DOMAIN kept
<1> DEFINE ids == Minted(kept, Len(said), space, next)
           B(j) == Before(K, j)
<1>0. Len(said) \in Nat /\ <<>> \in Seq(Texts)
  OBVIOUS
<1>2. ids = [j \in 1 .. Len(said) |-> IF j \in K THEN kept[j] ELSE [space |-> space, n |-> next + Cardinality(B(j)), of |-> <<>>]]
  BY DEF Minted, Tracked, Before
<1>20. K \subseteq 1 .. Len(said)
  OBVIOUS
<1>21. /\ \A j \in 1 .. Len(said) : Cardinality(B(j)) \in Nat
       /\ \A j, k \in 1 .. Len(said) : j < k /\ j \notin K => Cardinality(B(j)) < Cardinality(B(k))
       /\ \A j \in 1 .. Len(said) : j \notin K => Cardinality(B(j)) < Len(said) - Cardinality(K)
       /\ Cardinality(K) \in 0 .. Len(said)
  BY <1>0, <1>20, BeforeFacts, Zenon
<1>22. K = DOMAIN kept
  OBVIOUS
<1>3. \A j \in 1 .. Len(said) : Cardinality(B(j)) \in Nat
  BY <1>21
<1>4. \A j, k \in 1 .. Len(said) : j < k /\ j \notin K => Cardinality(B(j)) < Cardinality(B(k))
  BY <1>21
<1>5. \A j \in 1 .. Len(said) : j \notin K => Cardinality(B(j)) < Len(said) - Cardinality(K)
  BY <1>21
<1>6. Cardinality(K) \in 0 .. Len(said)
  BY <1>21
<1> HIDE DEF ids, B
<1>7. \A j \in 1 .. Len(said) : j \in K => ids[j] = kept[j] /\ ids[j] \in Ids
  BY <1>2
<1>8. \A j \in 1 .. Len(said) : j \notin K =>
        /\ ids[j] \in Ids /\ ids[j].n = next + Cardinality(B(j)) /\ ids[j].space = space /\ ids[j].of = <<>>
  <2> SUFFICES ASSUME NEW j \in 1 .. Len(said), j \notin K
               PROVE /\ ids[j] \in Ids /\ ids[j].n = next + Cardinality(B(j)) /\ ids[j].space = space /\ ids[j].of = <<>>
    OBVIOUS
  <2>1. ids[j] = [space |-> space, n |-> next + Cardinality(B(j)), of |-> <<>>]
    BY <1>2
  <2>2. next + Cardinality(B(j)) \in Nat
    BY <1>3
  <2> QED BY <2>1, <2>2, <1>0 DEF Ids
<1>9. ids \in Seq(Ids) /\ Len(ids) = Len(said)
  <2>1. \A j \in 1 .. Len(said) : ids[j] \in Ids
    BY <1>7, <1>8
  <2>2. ids \in [1 .. Len(said) -> Ids]
    BY <2>1, <1>2
  <2> QED BY <2>2, <1>0
<1>10. \A j \in 1 .. Len(said) : ids[j].space = space /\ ids[j].n < next + Len(said) - Cardinality(K) /\ ids[j].of = <<>>
  <2> SUFFICES ASSUME NEW j \in 1 .. Len(said)
               PROVE ids[j].space = space /\ ids[j].n < next + Len(said) - Cardinality(K) /\ ids[j].of = <<>>
    OBVIOUS
  <2>1. CASE j \in K
    <3>1. ids[j].n \in Nat
      BY <2>1, <1>7 DEF Ids
    <3> QED BY <2>1, <3>1, <1>7, <1>6, <1>0
  <2>2. CASE j \notin K
    BY <2>2, <1>8, <1>5, <1>3, <1>6, <1>0
  <2> QED BY <2>1, <2>2
<1>11. \A i, j \in 1 .. Len(said) : ids[i] = ids[j] => i = j
  <2> SUFFICES ASSUME NEW i \in 1 .. Len(said), NEW j \in 1 .. Len(said), ids[i] = ids[j] PROVE i = j
    OBVIOUS
  <2>1. CASE i \in K /\ j \in K
    BY <2>1, <1>7
  <2>2. CASE i \in K /\ j \notin K
    BY <2>2, <1>7, <1>8, <1>3
  <2>3. CASE i \notin K /\ j \in K
    BY <2>3, <1>7, <1>8, <1>3
  <2>4. CASE i \notin K /\ j \notin K
    <3>1. Cardinality(B(i)) = Cardinality(B(j))
      BY <2>4, <1>8, <1>3
    <3>2. i < j \/ j < i \/ i = j
      OBVIOUS
    <3>3. Cardinality(B(i)) \in Nat
      BY <1>3
    <3> QED BY <2>4, <3>1, <3>2, <3>3, <1>4
  <2> QED BY <2>1, <2>2, <2>3, <2>4
<1>12. Document(gen, said, kept, space, next)
         = [gen |-> gen, texts |-> said, ids |-> ids, space |-> space, next |-> next + Len(said) - Cardinality(K)]
  BY DEF Document, ids
<1>13. next + Len(said) - Cardinality(K) \in Nat /\ next + Len(said) - Cardinality(K) >= next
  BY <1>6, <1>0
<1>14. \A j \in 1 .. Len(said) : ids[j].n < next => j \in K /\ ids[j] = kept[j]
  BY <1>7, <1>8, <1>3
<1> HIDE DEF ids
<1>15. Document(gen, said, kept, space, next) \in Docs
  BY <1>12, <1>13, <1>9 DEF Docs
<1>16. GoodIds(Document(gen, said, kept, space, next))
  BY <1>12, <1>9, <1>10, <1>11 DEF GoodIds
<1> QED BY <1>12, <1>13, <1>14, <1>15, <1>16 DEF Past

(* A first document numbers its lines from zero.                            *)
LEMMA FreshFacts ==
    ASSUME NEW said \in Seq(Texts), NEW space \in Nat, NEW kept, DOMAIN kept = {}, NEW z \in Nat
    PROVE  /\ Document(z, said, kept, space, z) \in Docs /\ GoodIds(Document(z, said, kept, space, z))
           /\ Document(z, said, kept, space, z).next = Past(z, said, kept)
<1>1. /\ DOMAIN kept \subseteq 1 .. Len(said)
      /\ \A j \in DOMAIN kept : /\ kept[j] \in Ids /\ kept[j].n < z
                                  /\ kept[j].space = space /\ kept[j].of = <<>>
      /\ \A i, j \in DOMAIN kept : kept[i] = kept[j] => i = j
  OBVIOUS
<1>2. Document(z, said, kept, space, z) \in Docs
  BY <1>1, DocumentFacts, Zenon
<1>3. GoodIds(Document(z, said, kept, space, z))
  BY <1>1, DocumentFacts, Zenon
<1>4. Document(z, said, kept, space, z).next = Past(z, said, kept)
  BY DEF Document, Past
<1> QED BY <1>2, <1>3, <1>4

LEMMA FirstFacts ==
    ASSUME NEW said \in Seq(Texts), NEW space \in Nat
    PROVE  /\ First(said, space) \in Docs /\ GoodIds(First(said, space))
           /\ First(said, space).texts = said /\ First(said, space).space = space
           /\ First(said, space).next = Len(said) /\ First(said, space).gen = 0
<1>0. DOMAIN <<>> = {} /\ Cardinality({}) = 0 /\ Len(said) \in Nat
  BY FS_EmptySet
<1>1. PICK kept : kept = <<>>
  OBVIOUS
<1>2. PICK z \in Nat : z = 0
  OBVIOUS
<1>3. First(said, space) = Document(z, said, kept, space, z) /\ DOMAIN kept = {}
  BY <1>0, <1>1, <1>2 DEF First
<1>4. /\ First(said, space) \in Docs /\ GoodIds(First(said, space))
      /\ First(said, space).next = Past(z, said, kept)
  <2>1. /\ Document(z, said, kept, space, z) \in Docs /\ GoodIds(Document(z, said, kept, space, z))
        /\ Document(z, said, kept, space, z).next = Past(z, said, kept)
    BY <1>3, FreshFacts
  <2> QED BY <2>1, <1>3
<1>5. First(said, space).next = Len(said)
  BY <1>0, <1>2, <1>3, <1>4 DEF Past
<1>6. /\ First(said, space).texts = said /\ First(said, space).space = space
      /\ First(said, space).gen = 0
  BY <1>2, <1>3 DEF Document
<1> QED BY <1>4, <1>5, <1>6

-----------------------------------------------------------------------------
(* What a line alignment is.                                                *)
LEMMA AlignmentFacts ==
    ASSUME NEW S, NEW old \in Seq(S), NEW new \in Seq(S), NEW A \in Alignments(old, new)
    PROVE  /\ \A p \in A : p[1] \in DOMAIN old /\ p[2] \in DOMAIN new /\ old[p[1]] = new[p[2]]
           /\ \A p, q \in A : p[1] = q[1] \/ p[2] = q[2] => p = q
<1> DEFINE Same == {p \in (DOMAIN old) \X (DOMAIN new) : old[p[1]] = new[p[2]]}
<1>1. A \in SUBSET Same
  BY DEF Alignments
<1>2. ASSUME NEW p \in A, NEW q \in A
      PROVE  p = q \/ (p[1] < q[1] /\ p[2] < q[2]) \/ (q[1] < p[1] /\ q[2] < p[2])
  BY <1>2 DEF Alignments
<1>3. \A p \in A : p[1] \in DOMAIN old /\ p[2] \in DOMAIN new /\ old[p[1]] = new[p[2]]
  BY <1>1
<1>4. ASSUME NEW p \in A, NEW q \in A, p[1] = q[1] \/ p[2] = q[2] PROVE p = q
  <2>1. p[1] \in Nat /\ p[2] \in Nat /\ q[1] \in Nat /\ q[2] \in Nat
    BY <1>3
  <2> QED BY <2>1, <1>2, <1>4
<1> QED BY <1>3, <1>4

(* The identities a reconciliation keeps are those of lines that say the    *)
(* same and stand for themselves.                                           *)
LEMMA KeptFacts ==
    ASSUME NEW doc, GoodDoc(doc), NEW said \in Seq(Texts), NEW A \in Alignments(doc.texts, said)
    PROVE  /\ DOMAIN KeptBy(A, doc, said) \subseteq 1 .. Len(said)
           /\ \A j \in DOMAIN KeptBy(A, doc, said) : \E i \in 1 .. Len(doc.texts) :
                /\ KeptBy(A, doc, said)[j] = doc.ids[i] /\ doc.texts[i] = said[j]
                /\ Unambiguous(said[j], doc.texts, said)
           /\ \A j, k \in DOMAIN KeptBy(A, doc, said) : KeptBy(A, doc, said)[j] = KeptBy(A, doc, said)[k] => j = k
<1> DEFINE Sure == {p \in A : Unambiguous(doc.texts[p[1]], doc.texts, said)}
           pair(j) == CHOOSE p \in Sure : p[2] = j
           kept == KeptBy(A, doc, said)
<1>1. kept = [j \in {p[2] : p \in Sure} |-> doc.ids[pair(j)[1]]]
  BY DEF KeptBy
<1>2. DOMAIN doc.texts = 1 .. Len(doc.texts) /\ DOMAIN said = 1 .. Len(said)
  BY DEF GoodDoc, Docs
<1>3. \A p \in Sure : p \in A /\ Unambiguous(doc.texts[p[1]], doc.texts, said)
  OBVIOUS
<1>4. \A j \in {p[2] : p \in Sure} : pair(j) \in Sure /\ pair(j)[2] = j
  OBVIOUS
<1>21. doc.texts \in Seq(Texts)
  BY DEF GoodDoc, Docs
<1>5. \A p \in A : p[1] \in 1 .. Len(doc.texts) /\ p[2] \in 1 .. Len(said) /\ doc.texts[p[1]] = said[p[2]]
  BY <1>2, <1>21, AlignmentFacts
<1>6. \A p, q \in A : p[1] = q[1] => p = q
  BY <1>21, AlignmentFacts
<1>7. DOMAIN kept = {p[2] : p \in Sure} /\ \A j \in DOMAIN kept : kept[j] = doc.ids[pair(j)[1]]
  BY <1>1
<1> HIDE DEF pair, Sure, kept
<1>8. \A j \in DOMAIN kept : pair(j) \in A /\ pair(j)[2] = j
  BY <1>3, <1>4, <1>7
<1>9. DOMAIN kept \subseteq 1 .. Len(said)
  BY <1>5, <1>8
<1>10. ASSUME NEW j \in DOMAIN kept
       PROVE  \E i \in 1 .. Len(doc.texts) : /\ kept[j] = doc.ids[i] /\ doc.texts[i] = said[j]
                                             /\ Unambiguous(said[j], doc.texts, said)
  <2>1. pair(j) \in Sure /\ pair(j) \in A /\ pair(j)[2] = j
    BY <1>4, <1>7, <1>8
  <2>2. pair(j)[1] \in 1 .. Len(doc.texts) /\ doc.texts[pair(j)[1]] = said[j]
    BY <2>1, <1>5
  <2> QED BY <2>1, <2>2, <1>3, <1>7
<1>11. ASSUME NEW j \in DOMAIN kept, NEW k \in DOMAIN kept, kept[j] = kept[k] PROVE j = k
  <2>1. pair(j)[1] \in 1 .. Len(doc.ids) /\ pair(k)[1] \in 1 .. Len(doc.ids)
    BY <1>5, <1>8 DEF GoodDoc, GoodIds
  <2>2. pair(j)[1] = pair(k)[1]
    BY <2>1, <1>7, <1>11 DEF GoodDoc, GoodIds
  <2> QED BY <2>2, <1>6, <1>8
<1> QED BY <1>9, <1>10, <1>11 DEF kept

LEMMA GoodIdFacts ==
    ASSUME NEW doc, GoodDoc(doc)
    PROVE  /\ doc.texts \in Seq(Texts) /\ doc.ids \in Seq(Ids) /\ Len(doc.ids) = Len(doc.texts)
           /\ doc.gen \in Nat /\ doc.space \in Nat /\ doc.next \in Nat /\ doc.space >= 1 /\ doc.next >= 1
           /\ \A i \in 1 .. Len(doc.texts) : /\ doc.ids[i] \in Ids /\ doc.ids[i].n < doc.next
                                             /\ doc.ids[i].space = doc.space /\ doc.ids[i].of = <<>>
BY DEF GoodDoc, GoodIds, Docs

LEMMA ReconciledFacts ==
    ASSUME NEW doc, GoodDoc(doc), NEW said \in Seq(Texts), NEW A \in Alignments(doc.texts, said)
    PROVE  /\ GoodDoc(Reconciled(A, doc, said))
           /\ Reconciled(A, doc, said).gen = doc.gen + 1 /\ Reconciled(A, doc, said).texts = said
           /\ Reconciled(A, doc, said).space = doc.space /\ Reconciled(A, doc, said).next >= doc.next
           /\ \A j \in 1 .. Len(said) : Reconciled(A, doc, said).ids[j].n < doc.next
                => \E i \in 1 .. Len(doc.texts) :
                     /\ Reconciled(A, doc, said).ids[j] = doc.ids[i] /\ doc.texts[i] = said[j]
                     /\ Unambiguous(said[j], doc.texts, said)
<1>1. PICK kept : kept = KeptBy(A, doc, said)
  OBVIOUS
<1>2. /\ DOMAIN kept \subseteq 1 .. Len(said)
      /\ \A j \in DOMAIN kept : \E i \in 1 .. Len(doc.texts) :
           kept[j] = doc.ids[i] /\ doc.texts[i] = said[j] /\ Unambiguous(said[j], doc.texts, said)
      /\ \A j, k \in DOMAIN kept : kept[j] = kept[k] => j = k
  BY <1>1, KeptFacts
<1>3. /\ doc.gen + 1 \in Nat /\ doc.space \in Nat /\ doc.next \in Nat /\ doc.space >= 1 /\ doc.next >= 1
      /\ \A i \in 1 .. Len(doc.texts) : /\ doc.ids[i] \in Ids /\ doc.ids[i].n < doc.next
                                        /\ doc.ids[i].space = doc.space /\ doc.ids[i].of = <<>>
  BY GoodIdFacts
<1>4. \A j \in DOMAIN kept : /\ kept[j] \in Ids /\ kept[j].n < doc.next
                             /\ kept[j].space = doc.space /\ kept[j].of = <<>>
  BY <1>2, <1>3
<1>5. PICK next : next = doc.next
  OBVIOUS
<1>6. PICK gen \in Nat : gen = doc.gen + 1
  BY <1>3
<1>7. PICK space \in Nat : space = doc.space
  BY <1>3
<1>8. PICK R : R = Document(gen, said, kept, space, next)
  OBVIOUS
<1>9. /\ R \in Docs /\ GoodIds(R) /\ R.next >= next
      /\ \A j \in 1 .. Len(said) : R.ids[j].n < next => j \in DOMAIN kept /\ R.ids[j] = kept[j]
  <2>1. next \in Nat /\ DOMAIN kept \subseteq 1 .. Len(said) /\ \A i, j \in DOMAIN kept : kept[i] = kept[j] => i = j
    BY <1>2, <1>3, <1>5
  <2>2. \A j \in DOMAIN kept : /\ kept[j] \in Ids /\ kept[j].n < next
                               /\ kept[j].space = space /\ kept[j].of = <<>>
    BY <1>4, <1>5, <1>7
  <2>3. R \in Docs
    BY <2>1, <2>2, <1>8, DocumentFacts, Zenon
  <2>4. GoodIds(R)
    BY <2>1, <2>2, <1>8, DocumentFacts, Zenon
  <2>5. R.next >= next
    <3>1. PICK u : u = Document(gen, said, kept, space, next).next
      OBVIOUS
    <3>2. u >= next
      BY <2>1, <2>2, <3>1, DocumentFacts
    <3> QED BY <3>1, <3>2, <1>8
  <2>6. \A j \in 1 .. Len(said) : R.ids[j].n < next => j \in DOMAIN kept /\ R.ids[j] = kept[j]
    <3>1. \A j \in 1 .. Len(said) : Document(gen, said, kept, space, next).ids[j].n < next
            => j \in DOMAIN kept /\ Document(gen, said, kept, space, next).ids[j] = kept[j]
      BY <2>1, <2>2, DocumentFacts, Zenon
    <3> QED BY <3>1, <1>8
  <2> QED BY <2>3, <2>4, <2>5, <2>6
<1>10. R = Reconciled(A, doc, said)
  BY <1>1, <1>5, <1>6, <1>7, <1>8 DEF Reconciled
<1>11. R.gen = gen /\ R.texts = said /\ R.space = space
  BY <1>8 DEF Document
<1>12. GoodDoc(R) /\ R.gen = doc.gen + 1 /\ R.texts = said /\ R.space = doc.space /\ R.next >= doc.next
  <2>1. R.next \in Nat
    BY <1>9 DEF Docs
  <2> QED BY <2>1, <1>3, <1>5, <1>6, <1>7, <1>9, <1>11 DEF GoodDoc
<1>13. \A j \in 1 .. Len(said) : R.ids[j].n < doc.next
        => \E i \in 1 .. Len(doc.texts) :
             R.ids[j] = doc.ids[i] /\ doc.texts[i] = said[j] /\ Unambiguous(said[j], doc.texts, said)
  BY <1>2, <1>5, <1>9
<1> QED BY <1>10, <1>12, <1>13

-----------------------------------------------------------------------------
(* Lines that differ in their numbers, n the greatest there was; and lines d *)
(* that follow c: what they have in common is the same and in the same order. *)
Fine(c, n) ==
    /\ c \in Seq(Lines)
    /\ \A i \in 1 .. Len(c) : c[i].line <= n
    /\ \A i, j \in 1 .. Len(c) : c[i].line = c[j].line => i = j
Follows(c, d) ==
    /\ \A i \in 1 .. Len(c), j \in 1 .. Len(d) : c[i].line = d[j].line => c[i] = d[j]
    /\ \A i, k \in 1 .. Len(c) : \A j, l \in 1 .. Len(d) :
         c[i].line = d[j].line /\ c[k].line = d[l].line /\ i < k => j < l

(* What a line of the new lines was before, 0 if it was not there.          *)
LEMMA FollowsByPlace ==
    ASSUME NEW c, NEW n \in Nat, Fine(c, n), NEW d \in Seq(Lines), NEW from \in [1 .. Len(d) -> Nat],
           \A j \in 1 .. Len(d) : \/ from[j] \in 1 .. Len(c) /\ d[j] = c[from[j]]
                                  \/ from[j] = 0 /\ d[j].line = n + 1,
           \A j, k \in 1 .. Len(d) : from[j] = 0 /\ from[k] = 0 => j = k,
           \A j, k \in 1 .. Len(d) : from[j] # 0 /\ from[k] # 0 => (j < k <=> from[j] < from[k])
    PROVE  Fine(d, n + 1) /\ Follows(c, d)
<1>1. Len(d) \in Nat /\ Len(c) \in Nat /\ (\A j \in 1 .. Len(d) : d[j] \in Lines) /\ \A i \in 1 .. Len(c) : c[i] \in Lines
  BY DEF Fine
<1>2. (\A j \in 1 .. Len(d) : d[j].line \in Nat) /\ \A i \in 1 .. Len(c) : c[i].line \in Nat
  BY <1>1 DEF Lines
<1>3. \A i \in 1 .. Len(c), j \in 1 .. Len(d) : c[i].line = d[j].line => from[j] = i /\ from[j] # 0
  <2> SUFFICES ASSUME NEW i \in 1 .. Len(c), NEW j \in 1 .. Len(d), c[i].line = d[j].line
               PROVE from[j] = i /\ from[j] # 0
    OBVIOUS
  <2>1. CASE from[j] \in 1 .. Len(c) /\ d[j] = c[from[j]]
    BY <2>1 DEF Fine
  <2>2. CASE from[j] = 0 /\ d[j].line = n + 1
    <3>1. c[i].line <= n /\ c[i].line \in Nat
      BY <1>2 DEF Fine
    <3> QED BY <2>2, <3>1
  <2> QED BY <2>1, <2>2
<1>4. \A j \in 1 .. Len(d) : d[j].line <= n + 1
  BY <1>2 DEF Fine
<1>5. ASSUME NEW j \in 1 .. Len(d), NEW k \in 1 .. Len(d), d[j].line = d[k].line PROVE j = k
  <2>1. CASE from[j] = 0 /\ from[k] = 0
    BY <2>1
  <2>2. CASE from[j] # 0
    <3>1. from[j] \in 1 .. Len(c) /\ c[from[j]].line = d[k].line
      BY <2>2, <1>5
    <3>2. from[j] = from[k] /\ from[k] # 0
      BY <3>1, <1>3
    <3> QED BY <3>2, <2>2
  <2>3. CASE from[k] # 0
    <3>1. from[k] \in 1 .. Len(c) /\ c[from[k]].line = d[j].line
      BY <2>3, <1>5
    <3>2. from[j] = from[k] /\ from[j] # 0
      BY <3>1, <1>3
    <3> QED BY <3>2, <2>3
  <2> QED BY <2>1, <2>2, <2>3
<1>6. Fine(d, n + 1)
  BY <1>4, <1>5 DEF Fine
<1>7. \A i \in 1 .. Len(c), j \in 1 .. Len(d) : c[i].line = d[j].line => c[i] = d[j]
  BY <1>3
<1>8. \A i, k \in 1 .. Len(c) : \A j, l \in 1 .. Len(d) :
         c[i].line = d[j].line /\ c[k].line = d[l].line /\ i < k => j < l
  BY <1>3
<1> QED BY <1>6, <1>7, <1>8 DEF Follows

LEMMA RemovedFollows ==
    ASSUME NEW c, NEW n \in Nat, Fine(c, n), NEW i \in 1 .. Len(c)
    PROVE  Fine(RemoveAt(c, i), n + 1) /\ Follows(c, RemoveAt(c, i))
<1>1. PICK d : d = RemoveAt(c, i)
  OBVIOUS
<1>2. /\ d \in Seq(Lines) /\ Len(d) = Len(c) - 1
      /\ \A k \in 1 .. Len(c) - 1 : d[k] = IF k < i THEN c[k] ELSE c[k + 1]
  BY <1>1, RemoveFacts DEF Fine
<1>3. PICK from : from = [j \in 1 .. Len(d) |-> IF j < i THEN j ELSE j + 1]
  OBVIOUS
<1>4. Len(c) \in Nat
  BY DEF Fine
<1>5. from \in [1 .. Len(d) -> Nat]
  BY <1>3
<1>6. \A j \in 1 .. Len(d) : from[j] \in 1 .. Len(c) /\ d[j] = c[from[j]] /\ from[j] # 0
  <2> SUFFICES ASSUME NEW j \in 1 .. Len(d)
               PROVE from[j] \in 1 .. Len(c) /\ d[j] = c[from[j]] /\ from[j] # 0
    OBVIOUS
  <2>1. j \in 1 .. Len(c) - 1 /\ j \in 1 .. Len(c) /\ j + 1 \in 1 .. Len(c) /\ j # 0 /\ j + 1 # 0
    BY <1>2, <1>4
  <2>2. CASE j < i
    <3>1. from[j] = j /\ d[j] = c[j]
      BY <1>2, <1>3, <2>1, <2>2
    <3> QED BY <2>1, <3>1
  <2>3. CASE ~ j < i
    <3>1. from[j] = j + 1 /\ d[j] = c[j + 1]
      BY <1>2, <1>3, <2>1, <2>3
    <3> QED BY <2>1, <3>1
  <2> QED BY <2>2, <2>3
<1>7. \A j, k \in 1 .. Len(d) : from[j] # 0 /\ from[k] # 0 => (j < k <=> from[j] < from[k])
  BY <1>3
<1>8. \A j \in 1 .. Len(d) : \/ from[j] \in 1 .. Len(c) /\ d[j] = c[from[j]]
                             \/ from[j] = 0 /\ d[j].line = n + 1
  BY <1>6
<1>9. \A j, k \in 1 .. Len(d) : from[j] = 0 /\ from[k] = 0 => j = k
  BY <1>6
<1>10. d \in Seq(Lines)
  BY <1>2
<1>11. Fine(d, n + 1) /\ Follows(c, d)
  BY <1>10, <1>5, <1>7, <1>8, <1>9, FollowsByPlace, Zenon
<1> QED BY <1>1, <1>11

LEMMA InsertedFollows ==
    ASSUME NEW c, NEW n \in Nat, Fine(c, n), NEW i \in 1 .. Len(c) + 1, NEW e \in Lines, e.line = n + 1
    PROVE  Fine(InsertAt(c, i, e), n + 1) /\ Follows(c, InsertAt(c, i, e))
<1>1. PICK d : d = InsertAt(c, i, e)
  OBVIOUS
<1>2. /\ d \in Seq(Lines) /\ Len(d) = Len(c) + 1
      /\ \A k \in 1 .. Len(c) + 1 : /\ k < i => d[k] = c[k]
                                    /\ k = i => d[k] = e
                                    /\ i < k => d[k] = c[k - 1]
  <2>1. c \in Seq(Lines)
    BY DEF Fine
  <2>2. PICK L : L = Lines
    OBVIOUS
  <2>3. c \in Seq(L) /\ e \in L
    BY <2>1, <2>2
  <2>4. InsertAt(c, i, e) \in Seq(L) /\ Len(InsertAt(c, i, e)) = Len(c) + 1
    BY <2>3, InsertFacts
  <2>5. \A k \in 1 .. Len(c) + 1 : /\ k < i => InsertAt(c, i, e)[k] = c[k]
                                   /\ k = i => InsertAt(c, i, e)[k] = e
                                   /\ i < k => InsertAt(c, i, e)[k] = c[k - 1]
    BY <2>3, InsertFacts
  <2> QED BY <2>2, <2>4, <2>5, <1>1
<1>3. PICK from : from = [j \in 1 .. Len(d) |-> IF j < i THEN j ELSE IF j = i THEN 0 ELSE j - 1]
  OBVIOUS
<1>4. Len(c) \in Nat
  BY DEF Fine
<1>5. from \in [1 .. Len(d) -> Nat]
  BY <1>3
<1>6. \A j \in 1 .. Len(d) : \/ from[j] \in 1 .. Len(c) /\ d[j] = c[from[j]]
                             \/ from[j] = 0 /\ d[j].line = n + 1
  BY <1>2, <1>3, <1>4
<1>7. \A j, k \in 1 .. Len(d) : from[j] = 0 /\ from[k] = 0 => j = k
  BY <1>3
<1>8. \A j, k \in 1 .. Len(d) : from[j] # 0 /\ from[k] # 0 => (j < k <=> from[j] < from[k])
  BY <1>3
<1>10. d \in Seq(Lines)
  BY <1>2
<1>11. Fine(d, n + 1) /\ Follows(c, d)
  BY <1>10, <1>5, <1>6, <1>7, <1>8, FollowsByPlace, Zenon
<1> QED BY <1>1, <1>11

LEMMA ReplacedFollows ==
    ASSUME NEW c, NEW n \in Nat, Fine(c, n), NEW i \in 1 .. Len(c), NEW e \in Lines, e.line = n + 1
    PROVE  Fine([c EXCEPT ![i] = e], n + 1) /\ Follows(c, [c EXCEPT ![i] = e])
<1>1. PICK d : d = [c EXCEPT ![i] = e]
  OBVIOUS
<1>2. /\ d \in Seq(Lines) /\ Len(d) = Len(c)
      /\ \A k \in 1 .. Len(c) : d[k] = IF k = i THEN e ELSE c[k]
  BY <1>1 DEF Fine
<1>3. PICK from : from = [j \in 1 .. Len(d) |-> IF j = i THEN 0 ELSE j]
  OBVIOUS
<1>5. from \in [1 .. Len(d) -> Nat]
  BY <1>3
<1>6. \A j \in 1 .. Len(d) : \/ from[j] \in 1 .. Len(c) /\ d[j] = c[from[j]]
                             \/ from[j] = 0 /\ d[j].line = n + 1
  BY <1>2, <1>3
<1>7. \A j, k \in 1 .. Len(d) : from[j] = 0 /\ from[k] = 0 => j = k
  BY <1>3
<1>8. \A j, k \in 1 .. Len(d) : from[j] # 0 /\ from[k] # 0 => (j < k <=> from[j] < from[k])
  BY <1>3
<1>10. d \in Seq(Lines)
  BY <1>2
<1>11. Fine(d, n + 1) /\ Follows(c, d)
  BY <1>10, <1>5, <1>6, <1>7, <1>8, FollowsByPlace, Zenon
<1> QED BY <1>1, <1>11

(* An edit, and another change of the file.                                 *)
LEMMA ChangeFollows ==
    ASSUME lines \in Nat, NEW c, Fine(c, lines)
    PROVE  /\ \A d \in ChangesOf(c) : Fine(d, lines + 1) /\ Follows(c, d) /\ Fits(d)
           /\ \A i \in DOMAIN c : \A d \in EditsAt(c, i) : Fine(d, lines + 1) /\ Follows(c, d)
<1>1. DOMAIN c = 1 .. Len(c) /\ Len(c) \in Nat
  BY DEF Fine
<1>2. \A t \in Texts : NewLine(t) \in Lines /\ NewLine(t).line = lines + 1
  BY DEF NewLine, Lines
<1>3. \A i \in 1 .. Len(c) : Fine(RemoveAt(c, i), lines + 1) /\ Follows(c, RemoveAt(c, i))
  BY RemovedFollows
<1>4. \A i \in 1 .. Len(c) + 1, t \in Texts : Fine(Added(c, i, t), lines + 1) /\ Follows(c, Added(c, i, t))
  BY <1>2, InsertedFollows DEF Added
<1>5. \A i \in 1 .. Len(c), t \in Texts :
        Fine([c EXCEPT ![i] = NewLine(t)], lines + 1) /\ Follows(c, [c EXCEPT ![i] = NewLine(t)])
  BY <1>2, ReplacedFollows
<1>6. ASSUME NEW d \in ChangesOf(c) PROVE Fine(d, lines + 1) /\ Follows(c, d) /\ Fits(d)
  BY <1>1, <1>3, <1>4 DEF ChangesOf
<1>7. ASSUME NEW i \in DOMAIN c, NEW d \in EditsAt(c, i) PROVE Fine(d, lines + 1) /\ Follows(c, d)
  <2>1. i \in 1 .. Len(c) /\ i \in 1 .. Len(c) + 1 /\ i + 1 \in 1 .. Len(c) + 1
    BY <1>1
  <2>2. \/ d = RemoveAt(c, i)
        \/ \E t \in Texts : d = [c EXCEPT ![i] = NewLine(t)]
        \/ \E t \in Texts : d = Added(c, i, t) \/ d = Added(c, i + 1, t)
    BY DEF EditsAt
  <2> QED BY <2>1, <2>2, <1>3, <1>4, <1>5
<1> QED BY <1>6, <1>7

-----------------------------------------------------------------------------
(* The identities of a file with too many lines.                            *)
LEMMA SnapshotFacts ==
    ASSUME NEW said \in Seq(Texts)
    PROVE  /\ SnapshotIds(said) \in Seq(Ids) /\ Len(SnapshotIds(said)) = Len(said)
           /\ \A i \in 1 .. Len(said) : SnapshotIds(said)[i] = [space |-> 0, n |-> i, of |-> said]
<1>1. DOMAIN said = 1 .. Len(said) /\ Len(said) \in Nat
  OBVIOUS
<1>2. SnapshotIds(said) = [i \in 1 .. Len(said) |-> [space |-> 0, n |-> i, of |-> said]]
  BY <1>1 DEF SnapshotIds
<1>3. \A i \in 1 .. Len(said) : [space |-> 0, n |-> i, of |-> said] \in Ids
  BY DEF Ids
<1>4. SnapshotIds(said) \in [1 .. Len(said) -> Ids]
  BY <1>2, <1>3
<1>5. SnapshotIds(said) \in Seq(Ids) /\ Len(SnapshotIds(said)) = Len(said)
  BY <1>1, <1>4
<1> QED BY <1>2, <1>5

(* What an edit starts from: the document, or the identities of a long file. *)
Observation(doc, c) ==
    /\ doc \in Docs /\ doc.texts = TextsOf(c) /\ Len(doc.ids) = Len(c)
    /\ GoodDoc(doc) \/ (doc.space = 0 /\ doc.next = 0)

(* The identities a transition keeps.                                       *)
KeptLines(doc, c, d) ==
    [j \in (IF doc.space = 0 THEN {} ELSE {j \in DOMAIN d : Origin(c, d, j) # {}}) |->
        doc.ids[CHOOSE i \in Origin(c, d, j) : TRUE]]

LEMMA KeptLinesFacts ==
    ASSUME NEW doc, NEW c, NEW d, NEW n \in Nat, NEW l \in Nat,
           Fine(c, n), Fine(d, l), Observation(doc, c)
    PROVE  /\ DOMAIN KeptLines(doc, c, d) \subseteq 1 .. Len(d)
           /\ \A j \in DOMAIN KeptLines(doc, c, d) :
                /\ doc.space # 0
                /\ \E i \in 1 .. Len(c) : c[i].line = d[j].line /\ KeptLines(doc, c, d)[j] = doc.ids[i]
           /\ \A j, k \in DOMAIN KeptLines(doc, c, d) :
                KeptLines(doc, c, d)[j] = KeptLines(doc, c, d)[k] => j = k
<1> DEFINE kept == KeptLines(doc, c, d)
           place(j) == CHOOSE i \in Origin(c, d, j) : TRUE
<1>1. DOMAIN d = 1 .. Len(d) /\ DOMAIN c = 1 .. Len(c)
  BY DEF Fine
<1>2. kept = [j \in (IF doc.space = 0 THEN {} ELSE {j \in DOMAIN d : Origin(c, d, j) # {}}) |-> doc.ids[place(j)]]
  BY DEF KeptLines
<1>3. \A j \in DOMAIN kept : /\ j \in 1 .. Len(d) /\ doc.space # 0 /\ Origin(c, d, j) # {}
                             /\ kept[j] = doc.ids[place(j)]
  BY <1>1, <1>2
<1>4. \A j \in DOMAIN kept : place(j) \in Origin(c, d, j)
  BY <1>3
<1> HIDE DEF place, kept
<1>5. \A j \in DOMAIN kept : place(j) \in 1 .. Len(c) /\ c[place(j)].line = d[j].line
  BY <1>1, <1>4 DEF Origin
<1>6. ASSUME NEW j \in DOMAIN kept, NEW k \in DOMAIN kept, kept[j] = kept[k] PROVE j = k
  <2>1. GoodDoc(doc) /\ Len(doc.ids) = Len(c)
    BY <1>3 DEF Observation
  <2>2. place(j) = place(k)
    BY <2>1, <1>3, <1>5, <1>6 DEF GoodDoc, GoodIds
  <2>3. d[j].line = d[k].line
    BY <2>2, <1>5
  <2> QED BY <2>3, <1>3 DEF Fine
<1>7. DOMAIN kept \subseteq 1 .. Len(d)
  BY <1>3
<1>8. \A j \in DOMAIN kept : /\ doc.space # 0
                             /\ \E i \in 1 .. Len(c) : c[i].line = d[j].line /\ kept[j] = doc.ids[i]
  BY <1>3, <1>5
<1> QED BY <1>6, <1>7, <1>8 DEF kept

(* stage_transition.                                                        *)
LEMMA TransitionFacts ==
    ASSUME minted \in Seq(Nat), NEW doc, NEW c, NEW d, NEW n \in Nat, NEW l \in Nat,
           Fine(c, n), Fine(d, l), Observation(doc, c), Fits(d)
    PROVE  /\ Transition(doc, c, d) \in Docs
           /\ Transition(doc, c, d).gen = doc.gen + 1
           /\ Transition(doc, c, d).texts = TextsOf(d)
           /\ Len(d) > MaxTracked =>
                /\ Transition(doc, c, d).ids = SnapshotIds(TextsOf(d))
                /\ Transition(doc, c, d).space = doc.space
           /\ Len(d) <= MaxTracked =>
                /\ GoodDoc(Transition(doc, c, d))
                /\ Transition(doc, c, d).space = (IF doc.space = 0 THEN NewSpace ELSE doc.space)
                /\ Transition(doc, c, d).next >= doc.next
                /\ \A j \in 1 .. Len(d) : Transition(doc, c, d).ids[j].n < doc.next
                     => \E i \in 1 .. Len(c) : /\ c[i].line = d[j].line
                                               /\ Transition(doc, c, d).ids[j] = doc.ids[i]
<1>1. /\ TextsOf(d) \in Seq(Texts) /\ Len(TextsOf(d)) = Len(d)
      /\ doc.gen \in Nat /\ doc.space \in Nat /\ doc.next \in Nat /\ doc \in Docs
      /\ Len(d) \in Nat /\ Len(d) >= 1 /\ MaxTracked \in Nat
  BY TextsFacts, BoundsAssumption DEF Fine, Observation, Docs, Fits
<1>2. NewSpace \in Nat /\ NewSpace >= 1
  BY DEF NewSpace
<1>3. CASE Len(d) > MaxTracked
  <2>1. Transition(doc, c, d) = [doc EXCEPT !.gen = doc.gen + 1, !.texts = TextsOf(d), !.ids = SnapshotIds(TextsOf(d))]
    BY <1>1, <1>3 DEF Transition
  <2>2. SnapshotIds(TextsOf(d)) \in Seq(Ids)
    BY <1>1, SnapshotFacts
  <2>3. PICK s : s = SnapshotIds(TextsOf(d))
    OBVIOUS
  <2>4. PICK t : t = TextsOf(d)
    OBVIOUS
  <2>5. Transition(doc, c, d) = [doc EXCEPT !.gen = doc.gen + 1, !.texts = t, !.ids = s]
    BY <2>1, <2>3, <2>4
  <2>6. s \in Seq(Ids) /\ t \in Seq(Texts) /\ ~ Len(d) <= MaxTracked
    BY <2>2, <2>3, <2>4, <1>1, <1>3
  <2>7. Transition(doc, c, d) \in Docs
    <3>1. PICK g : g = doc.gen + 1
      OBVIOUS
    <3>2. g \in Nat /\ s \in Seq(Ids) /\ t \in Seq(Texts)
      BY <3>1, <2>6, <1>1
    <3>3. doc \in [gen : Nat, texts : Seq(Texts), ids : Seq(Ids), space : Nat, next : Nat]
      BY <1>1 DEF Docs
    <3>4. [[[doc EXCEPT !.gen = g] EXCEPT !.texts = t] EXCEPT !.ids = s] \in Docs
      BY <3>2, <3>3 DEF Docs
    <3>5. Transition(doc, c, d) = [[[doc EXCEPT !.gen = g] EXCEPT !.texts = t] EXCEPT !.ids = s]
      BY <2>5, <3>1
    <3> QED BY <3>4, <3>5
  <2>8. /\ Transition(doc, c, d).gen = doc.gen + 1 /\ Transition(doc, c, d).texts = t
        /\ Transition(doc, c, d).ids = s /\ Transition(doc, c, d).space = doc.space
    BY <2>5, <1>1 DEF Docs
  <2> QED BY <2>3, <2>4, <2>6, <2>7, <2>8
<1>4. CASE Len(d) <= MaxTracked
  <2>1. PICK kept : kept = KeptLines(doc, c, d)
    OBVIOUS
  <2>2. PICK said : said = TextsOf(d)
    OBVIOUS
  <2>3. PICK space \in Nat : space = (IF doc.space = 0 THEN NewSpace ELSE doc.space)
    BY <1>1, <1>2
  <2>4. PICK gen \in Nat : gen = doc.gen + 1
    BY <1>1
  <2>5. PICK next \in Nat : next = doc.next
    BY <1>1
  <2>6. PICK R : R = Document(gen, said, kept, space, next)
    OBVIOUS
  <2>7. R = Transition(doc, c, d)
    BY <1>1, <1>4, <2>1, <2>2, <2>3, <2>4, <2>5, <2>6 DEF Transition, KeptLines
  <2>8. /\ DOMAIN kept \subseteq 1 .. Len(said) /\ said \in Seq(Texts)
        /\ \A i, j \in DOMAIN kept : kept[i] = kept[j] => i = j
    BY <1>1, <2>1, <2>2, KeptLinesFacts
  <2>9. \A j \in DOMAIN kept :
           /\ doc.space # 0
           /\ \E i \in 1 .. Len(c) : c[i].line = d[j].line /\ kept[j] = doc.ids[i]
    BY <2>1, KeptLinesFacts
  <2>10. \A j \in DOMAIN kept : /\ kept[j] \in Ids /\ kept[j].n < next
                                /\ kept[j].space = space /\ kept[j].of = <<>>
    <3> SUFFICES ASSUME NEW j \in DOMAIN kept
                 PROVE /\ kept[j] \in Ids /\ kept[j].n < next
                       /\ kept[j].space = space /\ kept[j].of = <<>>
      OBVIOUS
    <3>1. GoodDoc(doc) /\ Len(doc.ids) = Len(c)
      BY <2>9 DEF Observation
    <3>2. PICK i \in 1 .. Len(doc.texts) : kept[j] = doc.ids[i]
      BY <3>1, <2>9, GoodIdFacts
    <3> QED BY <3>1, <3>2, <2>3, <2>5, <2>9, GoodIdFacts
  <2>11. R \in Docs
    BY <2>6, <2>8, <2>10, DocumentFacts, Zenon
  <2>12. GoodIds(R)
    BY <2>6, <2>8, <2>10, DocumentFacts, Zenon
  <2>13. R.next >= next
    <3>1. PICK u : u = Document(gen, said, kept, space, next).next
      OBVIOUS
    <3>2. u >= next
      BY <2>8, <2>10, <3>1, DocumentFacts
    <3> QED BY <3>1, <3>2, <2>6
  <2>14. \A j \in 1 .. Len(said) : R.ids[j].n < next => j \in DOMAIN kept /\ R.ids[j] = kept[j]
    <3>1. \A j \in 1 .. Len(said) : Document(gen, said, kept, space, next).ids[j].n < next
            => j \in DOMAIN kept /\ Document(gen, said, kept, space, next).ids[j] = kept[j]
      BY <2>8, <2>10, DocumentFacts, Zenon
    <3> QED BY <3>1, <2>6
  <2>15. R.gen = gen /\ R.texts = said /\ R.space = space
    BY <2>6 DEF Document
  <2>16. R.next >= 1
    <3>1. Len(R.ids) = Len(d) /\ Len(R.ids) >= 1 /\ R.next \in Nat
      BY <1>1, <2>2, <2>11, <2>12, <2>15 DEF GoodIds, Docs
    <3>2. R.ids[1].n < R.next /\ R.ids[1].n \in Nat
      <4>1. 1 \in 1 .. Len(R.ids)
        BY <3>1
      <4>2. R.ids[1] \in Ids
        BY <4>1, <2>11 DEF Docs
      <4> QED BY <4>1, <4>2, <2>12 DEF GoodIds, Ids
    <3> QED BY <3>1, <3>2
  <2>17. GoodDoc(R)
    BY <1>1, <1>2, <2>3, <2>11, <2>12, <2>15, <2>16 DEF GoodDoc
  <2>18. \A j \in 1 .. Len(d) : R.ids[j].n < doc.next
           => \E i \in 1 .. Len(c) : c[i].line = d[j].line /\ R.ids[j] = doc.ids[i]
    BY <1>1, <2>2, <2>5, <2>9, <2>14
  <2>19. ~ Len(d) > MaxTracked
    BY <1>1, <1>4
  <2> QED BY <2>2, <2>3, <2>4, <2>5, <2>7, <2>11, <2>13, <2>15, <2>17, <2>18, <2>19
<1> QED BY <1>1, <1>3, <1>4

-----------------------------------------------------------------------------
(* The inductive invariant, part by part: the file's lines, the shard, what  *)
(* the managers remember, the calls under way, the anchor shown.            *)
Version(d) == d = NoDoc \/ GoodDoc(d)
Editing == {"staged", "valid", "written"}
Pending == {"reconciled"} \cup Editing

CallFits(c, n) ==
    /\ c \in Calls /\ Fine(c.read, n) /\ Fits(c.read)
    /\ c.at \in {"reconciled", "republishing"} =>
         c.kind \in Reconciling /\ GoodDoc(c.doc) /\ c.doc.texts = TextsOf(c.read)
    /\ c.at \in Editing =>
         /\ c.kind = "edit" /\ Fine(c.new, n) /\ Fits(c.new) /\ Follows(c.read, c.new)
         /\ c.doc \in Docs /\ c.doc.texts = TextsOf(c.new)
         /\ IF Len(c.new) <= MaxTracked THEN GoodDoc(c.doc) ELSE c.doc.ids = SnapshotIds(TextsOf(c.new))
    /\ c.at \in Pending /\ c.exp # NoDoc => c.doc.gen = c.exp.gen + 1

FileOK == /\ Fine(content, lines) /\ Fits(content) /\ lines \in Nat
          /\ added \subseteq Texts /\ removed \subseteq Texts
CachesOK == /\ decoded \in [Managers -> Docs \cup {NoDoc, Right}]
            /\ \A m \in Managers : decoded[m] = Right \/ Version(decoded[m])
ShardOK == Version(durable) /\ CachesOK /\ minted \in Seq(Nat) /\ rolledBack \in BOOLEAN
MemoryOK == /\ mem \in [Managers -> Docs \cup {NoDoc, Unloaded}]
            /\ \A m \in Managers : mem[m] = Unloaded \/ Version(mem[m])
CallsOK == /\ op \in [Managers -> Calls \cup {Idle}]
           /\ \A m \in Managers : op[m] = Idle \/ CallFits(op[m], lines)
ShownOK == held \in [id : Ids, text : Texts, line : Nat \ {0}] \cup {NoAnchor}
CountsOK == ops \in 0 .. MaxOps /\ faults \in 0 .. MaxFaults
AnchorInv == FileOK /\ ShardOK /\ MemoryOK /\ CallsOK /\ ShownOK /\ CountsOK

LEMMA AnchorInvImpliesTypeOK ==
    ASSUME AnchorInv PROVE AnchorTypeOK
<1>1. content \in Seq(Lines) /\ Fits(content) /\ lines \in Nat
  BY DEF AnchorInv, FileOK, Fine
<1>2. durable \in Docs \cup {NoDoc}
  BY DEF AnchorInv, ShardOK, Version, GoodDoc
<1>3. ASSUME durable # NoDoc PROVE Len(durable.ids) = Len(durable.texts) /\ IsInjective(durable.ids)
  <2>1. GoodDoc(durable)
    BY <1>3 DEF AnchorInv, ShardOK, Version
  <2>2. durable.ids \in Seq(Ids)
    BY <2>1, GoodIdFacts
  <2>3. DOMAIN durable.ids = 1 .. Len(durable.ids)
    BY <2>2
  <2>4. \A i, j \in 1 .. Len(durable.ids) : durable.ids[i] = durable.ids[j] => i = j
    BY <2>1 DEF GoodDoc, GoodIds
  <2>5. IsInjective(durable.ids)
    BY <2>3, <2>4 DEF IsInjective
  <2> QED BY <2>1, <2>5, GoodIdFacts
<1> QED BY <1>1, <1>2, <1>3 DEF AnchorInv, FileOK, ShardOK, CachesOK, MemoryOK, CallsOK, ShownOK, CountsOK, AnchorTypeOK

(* Lines get more, never fewer.                                             *)
LEMMA FineLater ==
    ASSUME NEW c, NEW n \in Nat, NEW l \in Nat, n <= l, Fine(c, n) PROVE Fine(c, l)
<1>1. \A i \in 1 .. Len(c) : c[i] \in Lines
  BY DEF Fine
<1>2. \A i \in 1 .. Len(c) : c[i].line \in Nat
  BY <1>1 DEF Lines
<1> QED BY <1>2 DEF Fine

LEMMA CallFitsLater ==
    ASSUME NEW c, NEW n \in Nat, NEW l \in Nat, n <= l, CallFits(c, n) PROVE CallFits(c, l)
<1>1. Fine(c.read, l)
  BY FineLater DEF CallFits
<1>2. c.at \in Editing => Fine(c.new, l)
  BY FineLater DEF CallFits
<1> QED BY <1>1, <1>2, Zenon DEF CallFits

(* What a step leaves alone stays as it was.                                *)
LEMMA AnchorsKept ==
    ASSUME AnchorInv
    PROVE  /\ content' = content /\ fileGhost' = fileGhost => FileOK'
           /\ decoded' = decoded => CachesOK'
           /\ durable' = durable /\ decoded' = decoded /\ shardGhost' = shardGhost => ShardOK'
           /\ mem' = mem => MemoryOK'
           /\ op' = op /\ lines' \in {lines, lines + 1} => CallsOK'
           /\ held' = held => ShownOK'
           /\ counters' = counters => CountsOK'
<1>1. ASSUME content' = content, fileGhost' = fileGhost PROVE FileOK'
  BY <1>1 DEF AnchorInv, FileOK, fileGhost
<1>7. ASSUME decoded' = decoded PROVE CachesOK'
  BY <1>7 DEF AnchorInv, ShardOK, CachesOK
<1>2. ASSUME durable' = durable, decoded' = decoded, shardGhost' = shardGhost PROVE ShardOK'
  BY <1>2, <1>7 DEF AnchorInv, ShardOK, shardGhost
<1>3. ASSUME mem' = mem PROVE MemoryOK'
  BY <1>3 DEF AnchorInv, MemoryOK
<1>4. ASSUME op' = op, lines' \in {lines, lines + 1} PROVE CallsOK'
  <2>1. lines \in Nat /\ lines' \in Nat /\ lines <= lines'
    BY <1>4 DEF AnchorInv, FileOK
  <2>2. \A m \in Managers : op[m] = Idle \/ CallFits(op[m], lines')
    BY <2>1, CallFitsLater DEF AnchorInv, CallsOK
  <2> QED BY <1>4, <2>2 DEF AnchorInv, CallsOK
<1>5. ASSUME held' = held PROVE ShownOK'
  BY <1>5 DEF AnchorInv, ShownOK
<1>6. ASSUME counters' = counters PROVE CountsOK'
  BY <1>6 DEF AnchorInv, CountsOK, counters
<1> QED BY <1>1, <1>2, <1>3, <1>4, <1>5, <1>6, <1>7

(* The shard is replaced, perhaps in the middle of someone's read: what is   *)
(* remembered for it is right or the version that was there; the bound counts *)
(* such a write.                                                             *)
LEMMA Replacing ==
    ASSUME AnchorInv, NEW W, Replaced(W)
    PROVE  /\ CachesOK'
           /\ \A m \in Managers : decoded'[m] = Right \/ decoded'[m] = durable
           /\ \A m \in Managers : m \in W => decoded'[m] = Right
<1>1. Version(durable) /\ durable \in Docs \cup {NoDoc}
  BY DEF AnchorInv, ShardOK, Version, GoodDoc
<1>2. PICK late \in SUBSET {m \in Managers \ W : decoded[m] = Right /\ durable' # durable} :
        decoded' = [m \in Managers |-> IF m \in late THEN durable ELSE Right]
  BY DEF Replaced
<1>3. decoded' \in [Managers -> Docs \cup {NoDoc, Right}]
  BY <1>1, <1>2
<1>4. \A m \in Managers : decoded'[m] = Right \/ decoded'[m] = durable
  BY <1>2
<1>5. \A m \in Managers : m \in W => decoded'[m] = Right
  BY <1>2
<1>6. \A m \in Managers : decoded'[m] = Right \/ Version(decoded'[m])
  BY <1>1, <1>4
<1> QED BY <1>3, <1>4, <1>5, <1>6 DEF CachesOK, Version

LEMMA CountedOK ==
    ASSUME AnchorInv, Counted, ops' = ops PROVE CountsOK'
<1>1. faults \in Nat /\ MaxFaults \in Nat /\ ops \in 0 .. MaxOps
  BY BoundsAssumption DEF AnchorInv, CountsOK
<1>2. faults' \in {faults, faults + 1} /\ faults' <= MaxFaults
  BY DEF Counted
<1> QED BY <1>1, <1>2 DEF CountsOK

(* A manager comes to remember another version; a call goes on; an anchor is *)
(* shown; a namespace is opened; the file changes; a call or a fault counts. *)
LEMMA Remembering ==
    ASSUME AnchorInv, NEW m \in Managers, NEW d, d = Unloaded \/ Version(d), mem' = [mem EXCEPT ![m] = d]
    PROVE  MemoryOK'
<1>1. d \in Docs \cup {NoDoc, Unloaded}
  BY DEF Version, GoodDoc
<1>2. mem' \in [Managers -> Docs \cup {NoDoc, Unloaded}]
  BY <1>1 DEF AnchorInv, MemoryOK
<1>3. \A a \in Managers : mem'[a] = IF a = m THEN d ELSE mem[a]
  BY DEF AnchorInv, MemoryOK
<1>4. ASSUME NEW a \in Managers PROVE mem'[a] = Unloaded \/ Version(mem'[a])
  <2>1. CASE a = m
    BY <2>1, <1>3, Zenon
  <2>2. CASE a # m
    BY <2>2, <1>3, Zenon DEF AnchorInv, MemoryOK
  <2> QED BY <2>1, <2>2
<1> QED BY <1>2, <1>4 DEF MemoryOK, Version

LEMMA GoingOn ==
    ASSUME AnchorInv, NEW m \in Managers, NEW c, c = Idle \/ CallFits(c, lines'), To(m, c),
           lines' \in {lines, lines + 1}
    PROVE  CallsOK'
<1>0. lines \in Nat /\ lines' \in Nat /\ lines <= lines'
  BY DEF AnchorInv, FileOK
<1>1. c \in Calls \cup {Idle}
  BY DEF CallFits
<1>2. op' \in [Managers -> Calls \cup {Idle}]
  BY <1>1 DEF AnchorInv, CallsOK, To
<1>3. \A a \in Managers : op'[a] = IF a = m THEN c ELSE op[a]
  BY DEF AnchorInv, CallsOK, To
<1>4. ASSUME NEW a \in Managers PROVE op'[a] = Idle \/ CallFits(op'[a], lines')
  <2>1. CASE a = m
    BY <2>1, <1>3, Zenon
  <2>2. CASE a # m
    <3>1. op[a] = Idle \/ CallFits(op[a], lines')
      BY <1>0, CallFitsLater DEF AnchorInv, CallsOK
    <3> QED BY <2>2, <3>1, <1>3, Zenon
  <2> QED BY <2>1, <2>2
<1> QED BY <1>2, <1>4 DEF CallsOK

LEMMA Ending ==
    ASSUME AnchorInv, NEW m \in Managers, EndCall(m), lines' \in {lines, lines + 1} PROVE CallsOK'
BY GoingOn DEF EndCall

LEMMA Showing ==
    ASSUME AnchorInv, NEW said \in Seq(Lines), NEW ids \in Seq(Ids), Len(ids) = Len(said), Show(said, ids)
    PROVE  ShownOK'
<1>1. CASE held' = held
  BY <1>1, AnchorsKept
<1>2. ASSUME NEW i \in DOMAIN ids, held' = [id |-> ids[i], text |-> said[i].text, line |-> said[i].line]
      PROVE  ShownOK'
  <2>1. ids[i] \in Ids /\ said[i] \in Lines
    BY <1>2
  <2> QED BY <2>1, <1>2 DEF ShownOK, Lines
<1> QED BY <1>1, <1>2 DEF Show

LEMMA NamedOK ==
    ASSUME AnchorInv, NEW doc, Named(doc) PROVE minted' \in Seq(Nat)
BY DEF AnchorInv, ShardOK, Named

LEMMA Swapping ==
    ASSUME AnchorInv, NEW new, Fine(new, lines + 1), Fits(new), Swapped(new)
    PROVE  FileOK' /\ lines' = lines + 1 /\ content' = new
<1>1. content' = new /\ lines' = lines + 1 /\ lines \in Nat
  BY DEF AnchorInv, FileOK, Swapped
<1>2. \A i \in DOMAIN content : content[i].text \in Texts
  <2>1. content \in Seq(Lines)
    BY DEF AnchorInv, FileOK, Fine
  <2>2. \A i \in DOMAIN content : content[i] \in Lines
    BY <2>1
  <2> QED BY <2>2 DEF Lines
<1>3. \A i \in DOMAIN new : new[i].text \in Texts
  <2>1. new \in Seq(Lines)
    BY DEF Fine
  <2>2. \A i \in DOMAIN new : new[i] \in Lines
    BY <2>1
  <2> QED BY <2>2 DEF Lines
<1>4. added' \subseteq Texts /\ removed' \subseteq Texts
  BY <1>2, <1>3 DEF AnchorInv, FileOK, Swapped
<1> QED BY <1>1, <1>4 DEF FileOK

LEMMA Counting ==
    ASSUME AnchorInv
    PROVE  /\ BeginCall /\ faults' = faults => CountsOK'
           /\ Fault /\ ops' = ops => CountsOK'
BY BoundsAssumption DEF AnchorInv, CountsOK, BeginCall, Fault

-----------------------------------------------------------------------------
(* What a manager remembers, and what a call under way is.                  *)
LEMMA Versions ==
    ASSUME AnchorInv, NEW m \in Managers
    PROVE  /\ Version(durable) /\ Version(View(m)) /\ Version(InMemory(m)) /\ Version(Loaded(m)) /\ Version(Adopted(m))
           /\ Version(Remembered(m)) /\ Version(Recalled(m)) /\ Version(NoDoc)
           /\ mem[m] = Unloaded \/ Version(mem[m])
<1>1. Version(durable) /\ (mem[m] = Unloaded \/ Version(mem[m])) /\ Version(NoDoc)
  BY DEF AnchorInv, ShardOK, MemoryOK, Version
<1>3. Version(View(m))
  BY <1>1 DEF View, AnchorInv, ShardOK, CachesOK
<1>2. Version(InMemory(m)) /\ Version(Loaded(m))
  BY <1>1, <1>3 DEF InMemory, Loaded
<1> QED BY <1>1, <1>2, <1>3 DEF Adopted, Remembered, Recalled

LEMMA CallFacts ==
    ASSUME AnchorInv, NEW m \in Managers, op[m] # Idle
    PROVE  CallFits(op[m], lines) /\ op[m] \in Calls /\ Fine(op[m].read, lines) /\ Fits(op[m].read)
BY DEF AnchorInv, CallsOK, CallFits

LEMMA NewCallFits ==
    ASSUME NEW kd \in {"read", "edit", "write"}, NEW c, NEW n, Fine(c, n), Fits(c) PROVE CallFits(Call(kd, c), n)
<1>1. c \in Seq(Lines) /\ <<>> \in Seq(Lines)
  BY DEF Fine
<1>2. PICK e : e = <<>>
  OBVIOUS
<1>3. /\ Call(kd, c).read = c /\ Call(kd, c).at = "fetched"
      /\ Call(kd, c) \in Calls
  BY <1>1, <1>2 DEF Call, Calls
<1> QED BY <1>3 DEF CallFits, Editing, Pending

LEMMA StagedFits ==
    ASSUME NEW c, NEW n, CallFits(c, n), NEW doc, GoodDoc(doc), doc.texts = TextsOf(c.read),
           NEW old, NEW prior, Version(old), Version(prior), prior # NoDoc => doc.gen = prior.gen + 1,
           c.kind \in Reconciling
    PROVE  CallFits([c EXCEPT !.at = "reconciled", !.doc = doc, !.mexp = old, !.exp = prior], n)
<1>1. PICK t : t = [c EXCEPT !.at = "reconciled", !.doc = doc, !.mexp = old, !.exp = prior]
  OBVIOUS
<1>2. doc \in Docs /\ old \in Docs \cup {NoDoc} /\ prior \in Docs \cup {NoDoc} /\ c \in Calls
  BY DEF GoodDoc, Version, CallFits
<1>3. t \in Calls
  BY <1>1, <1>2 DEF Calls
<1>4. /\ t.at = "reconciled" /\ t.doc = doc /\ t.exp = prior /\ t.kind = c.kind
      /\ t.read = c.read
  BY <1>1, <1>2 DEF Calls
<1>5. t.at \notin Editing
  BY <1>4 DEF Editing
<1> QED BY <1>1, <1>3, <1>4, <1>5 DEF CallFits

LEMMA RepublishingFits ==
    ASSUME NEW c, NEW n, CallFits(c, n), NEW doc, GoodDoc(doc), doc.texts = TextsOf(c.read),
           c.kind \in Reconciling
    PROVE  CallFits([c EXCEPT !.at = "republishing", !.doc = doc], n)
<1>1. PICK t : t = [c EXCEPT !.at = "republishing", !.doc = doc]
  OBVIOUS
<1>2. doc \in Docs /\ c \in Calls
  BY DEF GoodDoc, CallFits
<1>3. t \in Calls
  BY <1>1, <1>2 DEF Calls
<1>4. /\ t.at = "republishing" /\ t.doc = doc /\ t.kind = c.kind
      /\ t.read = c.read
  BY <1>1, <1>2 DEF Calls
<1>5. t.at \notin Pending
  BY <1>4 DEF Editing, Pending
<1>6. t.at \notin Editing
  BY <1>4 DEF Editing
<1> QED BY <1>1, <1>3, <1>4, <1>5, <1>6 DEF CallFits

LEMMA EditFits ==
    ASSUME NEW c, NEW n \in Nat, CallFits(c, n), NEW doc, NEW old, NEW prior, NEW d,
           doc \in Docs, doc.texts = TextsOf(d), Version(old), Version(prior),
           prior # NoDoc => doc.gen = prior.gen + 1, c.kind = "edit",
           Fine(d, n + 1), Fits(d), Follows(c.read, d),
           Len(d) <= MaxTracked => GoodDoc(doc),
           Len(d) > MaxTracked => doc.ids = SnapshotIds(TextsOf(d))
    PROVE  CallFits([c EXCEPT !.at = "staged", !.exp = prior, !.mexp = old, !.doc = doc, !.new = d], n + 1)
<1>1. PICK t : t = [c EXCEPT !.at = "staged", !.exp = prior, !.mexp = old, !.doc = doc, !.new = d]
  OBVIOUS
<1>2. old \in Docs \cup {NoDoc} /\ prior \in Docs \cup {NoDoc} /\ c \in Calls /\ d \in Seq(Lines)
  BY DEF GoodDoc, Version, CallFits, Fine
<1>3. t \in Calls
  BY <1>1, <1>2 DEF Calls
<1>4. /\ t.at = "staged" /\ t.doc = doc /\ t.exp = prior /\ t.kind = c.kind
      /\ t.read = c.read /\ t.new = d
  BY <1>1, <1>2 DEF Calls
<1>5. Fine(t.read, n + 1)
  BY <1>4, FineLater DEF CallFits
<1>6. Len(d) \in Nat /\ MaxTracked \in Nat
  BY <1>2, BoundsAssumption
<1>7. IF Len(d) <= MaxTracked THEN GoodDoc(doc) ELSE doc.ids = SnapshotIds(TextsOf(d))
  BY <1>6
<1>8. Fits(t.read) /\ t.at \notin {"reconciled", "republishing"}
  BY <1>4 DEF CallFits
<1> QED BY <1>1, <1>3, <1>4, <1>5, <1>7, <1>8 DEF CallFits

LEMMA StageFits ==
    ASSUME NEW c, NEW n, CallFits(c, n), NEW s, c.at \in Editing, s \in Editing
    PROVE  CallFits([c EXCEPT !.at = s], n)
<1>1. PICK t : t = [c EXCEPT !.at = s]
  OBVIOUS
<1>2. c \in Calls
  BY DEF CallFits
<1>3. t \in Calls
  BY <1>1, <1>2 DEF Calls, Editing
<1>4. /\ t.at = s /\ t.doc = c.doc /\ t.exp = c.exp /\ t.kind = c.kind
      /\ t.read = c.read /\ t.new = c.new
  BY <1>1, <1>2 DEF Calls
<1>5. s \notin {"reconciled", "republishing"} /\ s \in Pending /\ c.at \in Pending
  BY DEF Editing, Pending
<1> QED BY <1>1, <1>3, <1>4, <1>5 DEF CallFits

(* observe_snapshot.                                                        *)
LEMMA ObservedFacts ==
    ASSUME AnchorInv, NEW m \in Managers, At(m, {"edit"}, "fetched"), ~StaleToEdit(m)
    PROVE  /\ Observation(Observed(m), op[m].read)
           /\ View(m) # NoDoc => Observed(m).gen = View(m).gen
           /\ Len(op[m].read) > MaxTracked =>
                Observed(m).ids = SnapshotIds(TextsOf(op[m].read)) /\ Observed(m).space = 0
           /\ Len(op[m].read) <= MaxTracked =>
                /\ GoodDoc(Observed(m))
                /\ Observed(m) = IF View(m) # NoDoc THEN View(m) ELSE First(TextsOf(op[m].read), NewSpace)
<1>1. PICK c : c = op[m].read
  OBVIOUS
<1>2. c \in Seq(Lines) /\ Fits(c) /\ Len(c) \in Nat /\ Len(c) >= 1 /\ MaxTracked \in Nat
  BY <1>1, CallFacts, BoundsAssumption DEF At, Fine, Fits
<1>3. PICK said : said = TextsOf(c)
  OBVIOUS
<1>4. said \in Seq(Texts) /\ Len(said) = Len(c)
  BY <1>2, <1>3, TextsFacts
<1>5. Version(View(m)) /\ NewSpace \in Nat /\ NewSpace >= 1
  BY Versions DEF AnchorInv, ShardOK, NewSpace
<1>6. CASE Len(c) > MaxTracked
  <2>1. Observed(m) = [gen |-> IF View(m) = NoDoc THEN 0 ELSE View(m).gen,
                       texts |-> said, ids |-> SnapshotIds(said), space |-> 0, next |-> 0]
    BY <1>1, <1>3, <1>4, <1>6 DEF Observed
  <2>2. PICK g : g = IF View(m) = NoDoc THEN 0 ELSE View(m).gen
    OBVIOUS
  <2>3. g \in Nat /\ (View(m) # NoDoc => g = View(m).gen)
    BY <1>5, <2>2, GoodIdFacts DEF Version
  <2>4. PICK ids : ids = SnapshotIds(said)
    OBVIOUS
  <2>5. ids \in Seq(Ids) /\ Len(ids) = Len(c)
    BY <1>4, <2>4, SnapshotFacts
  <2>6. Observed(m) = [gen |-> g, texts |-> said, ids |-> ids, space |-> 0, next |-> 0]
    BY <2>1, <2>2, <2>4
  <2>7. Observation(Observed(m), c)
    BY <2>3, <2>5, <2>6, <1>3, <1>4 DEF Observation, Docs
  <2>8. ~ Len(c) <= MaxTracked
    BY <1>2, <1>6
  <2> QED BY <1>1, <1>3, <2>3, <2>4, <2>6, <2>7, <2>8
<1>7. CASE Len(c) <= MaxTracked
  <2>1. ~ Len(c) > MaxTracked /\ ~ Len(said) > MaxTracked
    BY <1>2, <1>4, <1>7
  <2>2. Observed(m) = IF View(m) # NoDoc THEN View(m) ELSE First(said, NewSpace)
    BY <1>1, <1>3, <2>1 DEF Observed
  <2>3. CASE View(m) # NoDoc
    <3>1. GoodDoc(View(m)) /\ View(m).texts = said
      BY <1>1, <1>3, <1>5, <1>7, <2>3 DEF Version, StaleToEdit
    <3>2. Len(View(m).ids) = Len(c) /\ View(m) \in Docs
      BY <3>1, <1>4 DEF GoodDoc, GoodIds
    <3> QED BY <1>1, <1>3, <2>1, <2>2, <2>3, <3>1, <3>2 DEF Observation
  <2>4. CASE View(m) = NoDoc
    <3>1. PICK f : f = First(said, NewSpace)
      OBVIOUS
    <3>2. /\ f \in Docs /\ GoodIds(f) /\ f.texts = said /\ f.space = NewSpace /\ f.next = Len(said)
      BY <3>1, <1>4, <1>5, FirstFacts
    <3>3. GoodDoc(f)
      BY <3>2, <1>2, <1>4, <1>5 DEF GoodDoc
    <3>4. Observation(f, c)
      BY <3>2, <3>3, <1>3, <1>4 DEF Observation, GoodIds
    <3> QED BY <1>1, <1>3, <2>1, <2>2, <2>4, <3>1, <3>3, <3>4
  <2> QED BY <2>3, <2>4
<1> QED BY <1>1, <1>2, <1>6, <1>7

-----------------------------------------------------------------------------
(* Every step keeps the invariant.                                          *)
LEMMA BeginSteps ==
    ASSUME AnchorInv, NEW m \in Managers
    PROVE  /\ \A kd \in {"read", "edit"} : Fetch(m, kd) => AnchorInv'
           /\ WriteFile(m) => AnchorInv'
           /\ RangeEdit(m) => AnchorInv'
<1>0. Fine(content, lines) /\ Fits(content) /\ lines \in Nat
  BY DEF AnchorInv, FileOK
<1>1. ASSUME NEW kd \in {"read", "edit"}, Fetch(m, kd) PROVE AnchorInv'
  <2>1. FileOK' /\ ShardOK' /\ MemoryOK' /\ ShownOK' /\ CountsOK'
    BY <1>1, AnchorsKept, Counting, Zenon DEF Fetch, ghost, fileGhost, shardGhost
  <2>2. lines' = lines
    BY <1>1 DEF Fetch, ghost, fileGhost
  <2>3. CallFits(Call(kd, content), lines')
    BY <1>0, <2>2, NewCallFits
  <2>4. CallsOK'
    BY <1>1, <2>2, <2>3, GoingOn DEF Fetch
  <2> QED BY <2>1, <2>4 DEF AnchorInv
<1>2. ASSUME WriteFile(m) PROVE AnchorInv'
  <2>1. PICK new \in ChangesOf(content) : Swapped(new) /\ To(m, Call("write", new))
    BY <1>2 DEF WriteFile
  <2>2. Fine(new, lines + 1) /\ Fits(new)
    BY <1>0, ChangeFollows
  <2>3. FileOK' /\ lines' = lines + 1
    BY <2>1, <2>2, Swapping
  <2>4. ShardOK' /\ MemoryOK' /\ ShownOK' /\ CountsOK'
    BY <1>2, AnchorsKept, Counting, Zenon DEF WriteFile
  <2>5. CallFits(Call("write", new), lines')
    BY <2>2, <2>3, NewCallFits
  <2>6. CallsOK'
    BY <2>1, <2>3, <2>5, GoingOn
  <2> QED BY <2>3, <2>4, <2>6 DEF AnchorInv
<1>3. ASSUME RangeEdit(m) PROVE AnchorInv'
  <2>1. PICK new \in ChangesOf(content) : Swapped(new)
    BY <1>3 DEF RangeEdit
  <2>2. Fine(new, lines + 1) /\ Fits(new)
    BY <1>0, ChangeFollows
  <2>3. FileOK' /\ lines' = lines + 1
    BY <2>1, <2>2, Swapping
  <2>4. ShardOK' /\ ShownOK' /\ CountsOK'
    BY <1>3, AnchorsKept, Counting, Zenon DEF RangeEdit
  <2>5. MemoryOK'
    BY <1>3, Versions, Remembering DEF RangeEdit
  <2>6. CallsOK'
    BY <1>3, <2>3, Ending DEF RangeEdit
  <2> QED BY <2>3, <2>4, <2>5, <2>6 DEF AnchorInv
<1> QED BY <1>1, <1>2, <1>3

(* The counter of a namespace moves in the shard.                           *)
LEMMA CounterSet ==
    ASSUME NEW s \in Seq(Nat), NEW k, NEW v \in Nat
    PROVE  /\ [s EXCEPT ![k] = v] \in Seq(Nat) /\ Len([s EXCEPT ![k] = v]) = Len(s)
           /\ \A i \in 1 .. Len(s) : [s EXCEPT ![k] = v][i] = IF i = k THEN v ELSE s[i]
<1>1. s \in [1 .. Len(s) -> Nat] /\ Len(s) \in Nat
  OBVIOUS
<1>2. PICK t : t = [s EXCEPT ![k] = v]
  OBVIOUS
<1>3. t \in [1 .. Len(s) -> Nat]
  BY <1>1, <1>2
<1>4. t \in Seq(Nat) /\ Len(t) = Len(s)
  BY <1>1, <1>3
<1>5. \A i \in 1 .. Len(s) : t[i] = IF i = k THEN v ELSE s[i]
  BY <1>1, <1>2
<1> QED BY <1>2, <1>4, <1>5

(* What is shown with a result has an identity for each line.               *)
LEMMA ShowsOK ==
    ASSUME AnchorInv, NEW m \in Managers, NEW said \in Seq(Lines), NEW ids \in Seq(Ids), Len(ids) = Len(said),
           Shown(m, said, ids), lines' = lines
    PROVE  CallsOK' /\ ShownOK'
<1>1. CallsOK'
  BY Ending DEF Shown
<1>2. ShownOK'
  BY Showing, AnchorsKept DEF Shown
<1> QED BY <1>1, <1>2

LEMMA ReconcileSteps ==
    ASSUME AnchorInv, NEW m \in Managers
    PROVE  /\ TooLong(m) => AnchorInv'
           /\ Unchanged(m) => AnchorInv'
           /\ FirstSeen(m) => AnchorInv'
           /\ Reconcile(m) => AnchorInv'
           /\ Publish(m) => AnchorInv'
           /\ CannotPublish(m) => AnchorInv'
           /\ Republish(m) => AnchorInv'
<1> DEFINE c == op[m]
<1>0. ASSUME op[m] # Idle
      PROVE  /\ CallFits(c, lines) /\ c.read \in Seq(Lines) /\ Fits(c.read) /\ lines \in Nat
             /\ TextsOf(c.read) \in Seq(Texts) /\ Len(TextsOf(c.read)) = Len(c.read)
  BY <1>0, CallFacts, TextsFacts DEF Fine, AnchorInv, FileOK
<1>1. ASSUME TooLong(m) PROVE AnchorInv'
  <2>1. FileOK' /\ ShardOK' /\ MemoryOK' /\ CountsOK' /\ lines' = lines
    BY <1>1, AnchorsKept, Zenon DEF TooLong, fileGhost
  <2>2. CallsOK' /\ ShownOK'
    BY <1>0, <1>1, <2>1, SnapshotFacts, ShowsOK DEF TooLong, At
  <2> QED BY <2>1, <2>2 DEF AnchorInv
<1>2. ASSUME Unchanged(m) PROVE AnchorInv'
  <2>0. op[m] # Idle /\ c.kind \in Reconciling
    BY <1>2 DEF Unchanged, At
  <2>1. FileOK' /\ ShardOK' /\ CountsOK' /\ lines' = lines
    BY <1>2, AnchorsKept, Zenon DEF Unchanged, fileGhost
  <2>2. GoodDoc(Adopted(m)) /\ Adopted(m).texts = TextsOf(c.read)
    BY <1>2, Versions DEF Unchanged, Version
  <2>3. MemoryOK'
    BY <1>2, Versions, Remembering DEF Unchanged
  <2>4. CASE Shown(m, op[m].read, Adopted(m).ids)
    <3>1. Adopted(m).ids \in Seq(Ids) /\ Len(Adopted(m).ids) = Len(c.read)
      BY <1>0, <2>0, <2>2, GoodIdFacts
    <3>2. CallsOK' /\ ShownOK'
      BY <1>0, <2>0, <2>1, <2>4, <3>1, ShowsOK
    <3> QED BY <2>1, <2>3, <3>2 DEF AnchorInv
  <2>5. CASE To(m, [op[m] EXCEPT !.at = "republishing", !.doc = Adopted(m)]) /\ held' = held
    <3>1. CallFits([op[m] EXCEPT !.at = "republishing", !.doc = Adopted(m)], lines')
      BY <1>0, <2>0, <2>1, <2>2, RepublishingFits
    <3>2. CallsOK'
      BY <2>1, <2>5, <3>1, GoingOn
    <3> QED BY <2>1, <2>3, <2>5, <3>2, AnchorsKept DEF AnchorInv
  <2> QED BY <1>2, <2>4, <2>5 DEF Unchanged
<1>3. ASSUME FirstSeen(m) PROVE AnchorInv'
  <2>0. op[m] # Idle /\ c.kind \in Reconciling
    BY <1>3 DEF FirstSeen, At
  <2>1. FileOK' /\ ShownOK' /\ CountsOK' /\ lines' = lines
    BY <1>3, AnchorsKept, Zenon DEF FirstSeen, fileGhost
  <2>2. PICK doc : /\ doc = First(TextsOf(op[m].read), NewSpace)
                   /\ To(m, Staging(m, doc, NoDoc)) /\ Named(doc)
    BY <1>3 DEF FirstSeen
  <2>3. NewSpace \in Nat /\ NewSpace >= 1
    BY DEF AnchorInv, ShardOK, NewSpace
  <2>4. GoodDoc(doc) /\ doc.texts = TextsOf(c.read)
    <3>1. /\ doc \in Docs /\ GoodIds(doc) /\ doc.texts = TextsOf(c.read) /\ doc.space = NewSpace
          /\ doc.next = Len(TextsOf(c.read))
      BY <1>0, <2>0, <2>2, <2>3, FirstFacts
    <3>2. doc.next >= 1
      BY <1>0, <2>0, <3>1 DEF Fits
    <3> QED BY <2>3, <3>1, <3>2 DEF GoodDoc
  <2>5. ShardOK'
    BY <1>3, <2>2, NamedOK, AnchorsKept DEF FirstSeen, AnchorInv, ShardOK, Version
  <2>6. MemoryOK'
    BY <1>3, Versions, Remembering DEF FirstSeen
  <2>7. View(m) = NoDoc
    BY <1>3 DEF FirstSeen, Adopted
  <2>8. CallFits(Staging(m, doc, NoDoc), lines')
    BY <1>0, <2>0, <2>1, <2>4, <2>7, Versions, StagedFits DEF Staging
  <2>9. CallsOK'
    BY <2>1, <2>2, <2>8, GoingOn
  <2> QED BY <2>1, <2>5, <2>6, <2>9 DEF AnchorInv
<1>4. ASSUME Reconcile(m) PROVE AnchorInv'
  <2>0. op[m] # Idle /\ c.kind \in Reconciling
    BY <1>4 DEF Reconcile, At
  <2>1. FileOK' /\ ShardOK' /\ ShownOK' /\ CountsOK' /\ lines' = lines
    BY <1>4, AnchorsKept, Zenon DEF Reconcile, ghost, fileGhost, shardGhost
  <2>2. GoodDoc(Adopted(m))
    BY <1>4, Versions DEF Reconcile, Version
  <2>3. MemoryOK'
    BY <1>4, Versions, Remembering DEF Reconcile
  <2>4. PICK A \in Alignments(Adopted(m).texts, TextsOf(op[m].read)) :
          To(m, Staging(m, Reconciled(A, Adopted(m), TextsOf(op[m].read)), Adopted(m)))
    BY <1>4 DEF Reconcile
  <2>5. PICK doc : doc = Reconciled(A, Adopted(m), TextsOf(op[m].read))
    OBVIOUS
  <2>6. GoodDoc(doc) /\ doc.gen = Adopted(m).gen + 1 /\ doc.texts = TextsOf(c.read)
    BY <1>0, <2>0, <2>2, <2>5, ReconciledFacts
  <2>7. View(m) # NoDoc => doc.gen = View(m).gen + 1
    BY <2>6 DEF Adopted
  <2>8. CallFits(Staging(m, doc, Adopted(m)), lines')
    BY <1>0, <2>0, <2>1, <2>6, <2>7, Versions, StagedFits DEF Staging
  <2>9. CallsOK'
    BY <2>1, <2>4, <2>5, <2>8, GoingOn
  <2> QED BY <2>1, <2>3, <2>9 DEF AnchorInv
<1>5. ASSUME Publish(m) PROVE AnchorInv'
  <2>0. op[m] # Idle /\ c.at = "reconciled"
    BY <1>5 DEF Publish, At
  <2>1. FileOK' /\ CountsOK' /\ lines' = lines
    BY <1>5, AnchorsKept, CountedOK, Zenon DEF Publish, Written, fileGhost
  <2>2. GoodDoc(c.doc) /\ c.doc.texts = TextsOf(c.read)
    BY <1>0, <2>0 DEF CallFits
  <2>3. MemoryOK'
    BY <1>5, <2>2, Remembering DEF Publish, Version
  <2>4. ShardOK'
    <3>1. c.doc.next \in Nat
      BY <2>2, GoodIdFacts
    <3>3. minted \in Seq(Nat)
      BY DEF AnchorInv, ShardOK
    <3>4. [minted EXCEPT ![c.doc.space] = c.doc.next] \in Seq(Nat)
      BY <3>1, <3>3, CounterSet, Zenon
    <3>2. minted' \in Seq(Nat) /\ Version(durable')
      BY <1>5, <2>2, <3>4 DEF Publish, Version
    <3>5. CachesOK'
      BY <1>5, Replacing DEF Publish, Written
    <3>6. rolledBack' \in BOOLEAN
      BY <1>5, Zenon DEF Publish, Written
    <3> QED BY <3>2, <3>5, <3>6 DEF ShardOK
  <2>5. c.doc.ids \in Seq(Ids) /\ Len(c.doc.ids) = Len(c.read)
    BY <1>0, <2>0, <2>2, GoodIdFacts
  <2>6. CallsOK' /\ ShownOK'
    BY <1>0, <1>5, <2>0, <2>1, <2>5, ShowsOK DEF Publish
  <2> QED BY <2>1, <2>3, <2>4, <2>6 DEF AnchorInv
<1>6. ASSUME CannotPublish(m) PROVE AnchorInv'
  <2>1. FileOK' /\ ShardOK' /\ MemoryOK' /\ ShownOK' /\ CountsOK' /\ lines' = lines
    BY <1>6, AnchorsKept, Zenon DEF CannotPublish, RefuseCall, ghost, fileGhost, shardGhost
  <2>2. CallsOK'
    BY <1>6, <2>1, Ending DEF CannotPublish, RefuseCall
  <2> QED BY <2>1, <2>2 DEF AnchorInv
<1>7. ASSUME Republish(m) PROVE AnchorInv'
  <2>0. op[m] # Idle /\ c.at = "republishing"
    BY <1>7 DEF Republish, At
  <2>1. FileOK' /\ lines' = lines /\ minted' = minted /\ ops' = ops
    BY <1>7, AnchorsKept, Zenon DEF Republish, fileGhost
  <2>2. GoodDoc(c.doc) /\ c.doc.texts = TextsOf(c.read)
    BY <1>0, <2>0 DEF CallFits
  <2>3. c.doc.ids \in Seq(Ids) /\ Len(c.doc.ids) = Len(c.read)
    BY <1>0, <2>0, <2>2, GoodIdFacts
  <2>4. CASE View(m) = NoDoc
    <3>1. /\ durable' = c.doc /\ mem' = [mem EXCEPT ![m] = c.doc]
          /\ Replaced({m}) /\ Counted
          /\ rolledBack' = (rolledBack \/ Misled(m) \/ Resurrects(c.doc))
          /\ Shown(m, c.read, c.doc.ids)
      BY <1>7, <2>4 DEF Republish
    <3>2. Version(c.doc)
      BY <2>2 DEF Version
    <3>3. MemoryOK' /\ CountsOK' /\ CachesOK'
      BY <2>1, <3>1, <3>2, Remembering, CountedOK, Replacing
    <3>4. rolledBack' \in BOOLEAN
      BY <3>1, Zenon
    <3>5. ShardOK'
      BY <2>1, <3>1, <3>2, <3>3, <3>4 DEF AnchorInv, ShardOK
    <3>6. CallsOK' /\ ShownOK'
      BY <1>0, <2>0, <2>1, <2>3, <3>1, ShowsOK
    <3> QED BY <2>1, <3>3, <3>5, <3>6 DEF AnchorInv
  <2>5. CASE View(m) # NoDoc
    <3>1. /\ mem' = [mem EXCEPT ![m] = View(m)]
          /\ durable' = durable /\ decoded' = decoded /\ rolledBack' = rolledBack /\ faults' = faults
          /\ Shown(m, c.read, c.doc.ids) \/ (EndCall(m) /\ held' = held)
      BY <1>7, <2>5, Zenon DEF Republish
    <3>2. MemoryOK'
      BY <3>1, Versions, Remembering
    <3>3. ShardOK' /\ CountsOK'
      BY <2>1, <3>1, AnchorsKept DEF shardGhost, counters
    <3>4. CallsOK' /\ ShownOK'
      BY <1>0, <2>0, <2>1, <2>3, <3>1, ShowsOK, Ending, AnchorsKept
    <3> QED BY <2>1, <3>2, <3>3, <3>4 DEF AnchorInv
  <2> QED BY <2>4, <2>5
<1> QED BY <1>1, <1>2, <1>3, <1>4, <1>5, <1>6, <1>7

LEMMA EditSteps ==
    ASSUME AnchorInv, NEW m \in Managers
    PROVE  /\ Observe(m) => AnchorInv'
           /\ RefuseEdit(m) => AnchorInv'
           /\ NotFound(m) => AnchorInv'
           /\ Validate(m) => AnchorInv'
           /\ WriteEdit(m) => AnchorInv'
           /\ Commit(m) => AnchorInv'
           /\ CannotCommit(m) => AnchorInv'
<1> DEFINE c == op[m]
<1>0. ASSUME op[m] # Idle
      PROVE  /\ CallFits(c, lines) /\ Fine(c.read, lines) /\ c.read \in Seq(Lines) /\ Fits(c.read) /\ lines \in Nat
             /\ TextsOf(c.read) \in Seq(Texts) /\ Len(TextsOf(c.read)) = Len(c.read)
  BY <1>0, CallFacts, TextsFacts DEF Fine, AnchorInv, FileOK
<1>1. ASSUME Observe(m) PROVE AnchorInv'
  <2>0. op[m] # Idle /\ c.kind = "edit" /\ At(m, {"edit"}, "fetched") /\ ~StaleToEdit(m)
    BY <1>1 DEF Observe, At
  <2>1. PICK i \in DOMAIN c.read : \E new \in EditsAt(c.read, i) :
          LET doc == Transition(Observed(m), c.read, new)
          IN /\ Fits(new)
             /\ To(m, [c EXCEPT !.at = "staged", !.exp = View(m),
                          !.mexp = Remembered(m), !.doc = doc, !.new = new])
             /\ Named(doc)
    BY <1>1 DEF Observe
  <2>11. PICK new \in EditsAt(c.read, i) :
          LET doc == Transition(Observed(m), c.read, new)
          IN /\ Fits(new)
             /\ To(m, [c EXCEPT !.at = "staged", !.exp = View(m),
                          !.mexp = Remembered(m), !.doc = doc, !.new = new])
             /\ Named(doc)
    BY <2>1
  <2>2. PICK doc :
          /\ doc = Transition(Observed(m), c.read, new) /\ Fits(new)
          /\ To(m, [c EXCEPT !.at = "staged", !.exp = View(m),
                          !.mexp = Remembered(m), !.doc = doc, !.new = new])
          /\ Named(doc)
    BY <2>11
  <2>3. lines' = lines + 1 /\ lines \in Nat
    BY <1>0, <1>1, <2>0 DEF Observe
  <2>4. Fine(new, lines + 1) /\ Follows(c.read, new)
    BY <1>0, <2>0, <2>1, <2>2, ChangeFollows
  <2>5. Observation(Observed(m), c.read) /\ (View(m) # NoDoc => Observed(m).gen = View(m).gen)
    BY <2>0, ObservedFacts
  <2>6. /\ doc \in Docs /\ doc.gen = Observed(m).gen + 1 /\ doc.texts = TextsOf(new)
        /\ Len(new) > MaxTracked => doc.ids = SnapshotIds(TextsOf(new))
        /\ Len(new) <= MaxTracked => GoodDoc(doc)
    <3>1. minted \in Seq(Nat) /\ lines + 1 \in Nat
      BY <2>3 DEF AnchorInv, ShardOK
    <3> QED BY <1>0, <2>0, <2>2, <2>3, <2>4, <2>5, <3>1, TransitionFacts
  <2>7. View(m) # NoDoc => doc.gen = View(m).gen + 1
    BY <2>5, <2>6
  <2>8. CallFits([c EXCEPT !.at = "staged", !.exp = View(m),
                      !.mexp = Remembered(m), !.doc = doc, !.new = new], lines + 1)
    BY <1>0, <2>0, <2>2, <2>4, <2>6, <2>7, Versions, EditFits
  <2>9. CallsOK'
    BY <2>2, <2>3, <2>8, GoingOn
  <2>10. FileOK'
    <3>1. content' = content /\ added' = added /\ removed' = removed
      BY <1>1 DEF Observe
    <3>2. Fine(content, lines + 1)
      BY <2>3, FineLater DEF AnchorInv, FileOK
    <3> QED BY <2>3, <3>1, <3>2 DEF AnchorInv, FileOK
  <2>14. ShardOK'
    BY <1>1, <2>2, NamedOK, AnchorsKept DEF Observe, AnchorInv, ShardOK
  <2>12. MemoryOK'
    BY <1>1, Versions, Remembering DEF Observe
  <2>13. ShownOK' /\ CountsOK'
    BY <1>1, AnchorsKept, Zenon DEF Observe
  <2> QED BY <2>9, <2>10, <2>14, <2>12, <2>13 DEF AnchorInv
<1>2. ASSUME RefuseEdit(m) PROVE AnchorInv'
  <2>1. FileOK' /\ ShardOK' /\ ShownOK' /\ CountsOK' /\ lines' = lines
    BY <1>2, AnchorsKept, Zenon DEF RefuseEdit, RefuseCall, ghost, fileGhost, shardGhost
  <2>2. CallsOK'
    BY <1>2, <2>1, Ending DEF RefuseEdit, RefuseCall
  <2>3. MemoryOK'
    BY <1>2, Versions, Remembering DEF RefuseEdit
  <2> QED BY <2>1, <2>2, <2>3 DEF AnchorInv
<1>3. ASSUME NotFound(m) PROVE AnchorInv'
  <2>1. FileOK' /\ ShardOK' /\ ShownOK' /\ CountsOK' /\ lines' = lines
    BY <1>3, AnchorsKept, Zenon DEF NotFound, ghost, fileGhost, shardGhost
  <2>2. CallsOK'
    BY <1>3, <2>1, Ending DEF NotFound
  <2>3. MemoryOK'
    BY <1>3, Versions, Remembering DEF NotFound
  <2> QED BY <2>1, <2>2, <2>3 DEF AnchorInv
<1>4. ASSUME Validate(m) PROVE AnchorInv'
  <2>1. FileOK' /\ ShardOK' /\ ShownOK' /\ CountsOK' /\ lines' = lines
    <3>1. /\ content' = content /\ durable' = durable /\ decoded' = decoded
          /\ ghost' = ghost /\ counters' = counters
      BY <1>4, Zenon DEF Validate, RefuseCall
    <3> QED BY <3>1, AnchorsKept, Zenon DEF ghost, fileGhost, shardGhost
  <2>2. CASE To(m, [op[m] EXCEPT !.at = "valid"])
    <3>1. c.at \in Editing /\ "valid" \in Editing /\ op[m] # Idle
      BY <1>4 DEF Validate, At, Editing
    <3>2. CallFits([op[m] EXCEPT !.at = "valid"], lines')
      BY <1>0, <2>1, <3>1, StageFits
    <3> QED BY <2>1, <2>2, <3>2, GoingOn, Remembering, Versions, <1>4 DEF Validate, Recall, AnchorInv
  <2>3. CASE EndCall(m)
    BY <2>1, <2>3, Ending, Remembering, Versions, <1>4 DEF Validate, Recall, AnchorInv
  <2> QED BY <1>4, <2>2, <2>3 DEF Validate, RefuseCall
<1>5. ASSUME WriteEdit(m) PROVE AnchorInv'
  <2>0. op[m] # Idle /\ c.at = "valid" /\ c.at \in Editing /\ "written" \in Editing
    BY <1>5 DEF WriteEdit, At, Editing
  <2>1. ShardOK' /\ MemoryOK' /\ ShownOK' /\ CountsOK'
    BY <1>5, AnchorsKept, Zenon DEF WriteEdit
  <2>2. CASE content = op[m].read
    <3>1. Swapped(c.new) /\ To(m, [op[m] EXCEPT !.at = "written"])
      BY <1>5, <2>2 DEF WriteEdit
    <3>2. Fine(c.new, lines) /\ Fits(c.new)
      BY <1>0, <2>0 DEF CallFits
    <3>3. Fine(c.new, lines + 1)
      BY <1>0, <2>0, <3>2, FineLater
    <3>4. FileOK' /\ lines' = lines + 1
      BY <3>1, <3>2, <3>3, Swapping
    <3>5. CallFits([op[m] EXCEPT !.at = "written"], lines + 1)
      BY <1>0, <2>0, StageFits, CallFitsLater
    <3>6. CallsOK'
      BY <3>1, <3>4, <3>5, GoingOn
    <3> QED BY <2>1, <3>4, <3>6 DEF AnchorInv
  <2>3. CASE content # op[m].read
    <3>1. EndCall(m) /\ content' = content /\ fileGhost' = fileGhost
      BY <1>5, <2>3 DEF WriteEdit
    <3>2. lines' = lines
      BY <3>1 DEF fileGhost
    <3> QED BY <2>1, <3>1, <3>2, AnchorsKept, Ending DEF AnchorInv
  <2> QED BY <2>2, <2>3
<1>6. ASSUME Commit(m) PROVE AnchorInv'
  <2>0. op[m] # Idle /\ c.at \in Editing
    BY <1>6 DEF Commit, At, Editing
  <2>1. FileOK' /\ CountsOK' /\ lines' = lines
    BY <1>6, AnchorsKept, CountedOK, Zenon DEF Commit, Written, fileGhost
  <2>2. /\ c.new \in Seq(Lines) /\ c.doc \in Docs /\ c.doc.texts = TextsOf(c.new)
        /\ IF Len(c.new) <= MaxTracked THEN GoodDoc(c.doc) ELSE c.doc.ids = SnapshotIds(TextsOf(c.new))
    BY <1>0, <2>0 DEF CallFits, Fine
  <2>3. TextsOf(c.new) \in Seq(Texts) /\ Len(TextsOf(c.new)) = Len(c.new)
    BY <2>2, TextsFacts
  <2>4. c.doc.ids \in Seq(Ids) /\ Len(c.doc.ids) = Len(c.new)
    <3>1. CASE Len(c.new) <= MaxTracked
      BY <2>2, <2>3, <3>1, GoodIdFacts
    <3>2. CASE ~ Len(c.new) <= MaxTracked
      BY <2>2, <2>3, <3>2, SnapshotFacts
    <3> QED BY <3>1, <3>2
  <2>5. Version(durable') /\ (minted' = minted \/ minted' = [minted EXCEPT ![c.doc.space] = c.doc.next])
    <3>1. Len(c.new) \in Nat /\ MaxTracked \in Nat
      BY <2>2, BoundsAssumption
    <3>2. CASE Len(c.new) > MaxTracked
      BY <1>6, <3>2 DEF Commit, Version
    <3>3. CASE ~ Len(c.new) > MaxTracked
      BY <1>6, <2>2, <3>1, <3>3 DEF Commit, Version
    <3> QED BY <3>2, <3>3
  <2>6. ShardOK'
    <3>1. c.doc.next \in Nat
      BY <2>2 DEF Docs
    <3>5. CachesOK'
      BY <1>6, Replacing DEF Commit, Written
    <3>6. rolledBack' \in BOOLEAN
      BY <1>6, Zenon DEF Commit, Written
    <3>2. minted \in Seq(Nat)
      BY DEF AnchorInv, ShardOK
    <3>3. [minted EXCEPT ![c.doc.space] = c.doc.next] \in Seq(Nat)
      BY <3>1, <3>2, CounterSet, Zenon
    <3>4. minted' \in Seq(Nat)
      BY <2>5, <3>2, <3>3
    <3> QED BY <2>5, <3>4, <3>5, <3>6 DEF ShardOK
  <2>7. MemoryOK'
    BY <1>6, <2>5, Remembering DEF Commit
  <2>8. CallsOK' /\ ShownOK'
    BY <1>6, <2>1, <2>2, <2>4, ShowsOK DEF Commit
  <2> QED BY <2>1, <2>6, <2>7, <2>8 DEF AnchorInv
<1>7. ASSUME CannotCommit(m) PROVE AnchorInv'
  <2>1. FileOK' /\ ShardOK' /\ ShownOK' /\ CountsOK' /\ lines' = lines
    BY <1>7, AnchorsKept, Zenon DEF CannotCommit, RefuseCall, ghost, fileGhost, shardGhost
  <2>2. CallsOK'
    BY <1>7, <2>1, Ending DEF CannotCommit, RefuseCall
  <2>3. MemoryOK'
    BY <1>7, Versions, Remembering DEF CannotCommit
  <2> QED BY <2>1, <2>2, <2>3 DEF AnchorInv
<1> QED BY <1>1, <1>2, <1>3, <1>4, <1>5, <1>6, <1>7

LEMMA OtherSteps ==
    ASSUME AnchorInv
    PROVE  /\ Evict => AnchorInv'
           /\ Outside => AnchorInv'
           /\ \A m \in Managers : OtherPublishes(m) \/ Forget(m) \/ Reset(m) \/ Restart(m) => AnchorInv'
<1>1. ASSUME Evict PROVE AnchorInv'
  <2>1. FileOK' /\ MemoryOK' /\ ShownOK' /\ CountsOK' /\ lines' = lines
    BY <1>1, AnchorsKept, Counting, Zenon DEF Evict, ghost, fileGhost
  <2>2. CallsOK'
    BY <1>1, <2>1, AnchorsKept DEF Evict
  <2>3. ShardOK'
    BY <1>1, Replacing DEF Evict, ghost, shardGhost, AnchorInv, ShardOK, Version
  <2> QED BY <2>1, <2>2, <2>3 DEF AnchorInv
<1>2. ASSUME Outside PROVE AnchorInv'
  <2>0. Fine(content, lines) /\ Fits(content) /\ lines \in Nat
    BY DEF AnchorInv, FileOK
  <2>1. PICK new \in ChangesOf(content) : Swapped(new)
    BY <1>2 DEF Outside
  <2>2. Fine(new, lines + 1) /\ Fits(new)
    BY <2>0, ChangeFollows
  <2>3. FileOK' /\ lines' = lines + 1
    BY <2>1, <2>2, Swapping
  <2>4. ShardOK' /\ MemoryOK' /\ ShownOK' /\ CountsOK'
    BY <1>2, AnchorsKept, Counting, Zenon DEF Outside
  <2>5. CallsOK'
    BY <1>2, <2>3, AnchorsKept DEF Outside
  <2> QED BY <2>3, <2>4, <2>5 DEF AnchorInv
<1>3. ASSUME NEW m \in Managers, OtherPublishes(m) PROVE AnchorInv'
  <2>1. FileOK' /\ ShownOK' /\ CountsOK' /\ lines' = lines
    BY <1>3, AnchorsKept, CountedOK, Zenon DEF OtherPublishes, Written, fileGhost
  <2>3. ShardOK'
    <3>1. CachesOK' /\ Version(durable')
      BY <1>3, Replacing, Versions DEF OtherPublishes, Written
    <3>2. rolledBack' \in BOOLEAN
      BY <1>3, Zenon DEF OtherPublishes, Written
    <3> QED BY <1>3, <3>1, <3>2 DEF OtherPublishes, AnchorInv, ShardOK
  <2>2. CallsOK' /\ MemoryOK'
    BY <1>3, <2>1, AnchorsKept, Versions, Remembering DEF OtherPublishes
  <2> QED BY <2>1, <2>2, <2>3 DEF AnchorInv
<1>4. ASSUME NEW m \in Managers, Forget(m) PROVE AnchorInv'
  <2>1. FileOK' /\ ShardOK' /\ ShownOK' /\ CountsOK' /\ lines' = lines
    BY <1>4, AnchorsKept, Counting, Zenon DEF Forget, ghost, fileGhost, shardGhost
  <2>2. CallsOK' /\ MemoryOK'
    BY <1>4, <2>1, AnchorsKept, Remembering DEF Forget
  <2> QED BY <2>1, <2>2 DEF AnchorInv
<1>5. ASSUME NEW m \in Managers, Reset(m) PROVE AnchorInv'
  <2>1. FileOK' /\ ShownOK' /\ CountsOK' /\ lines' = lines /\ op' = op
    BY <1>5, AnchorsKept, Counting, Zenon DEF Reset, ghost, fileGhost
  <2>2. CASE Loaded(m) = View(m)
    <3>1. durable' = NoDoc /\ mem' = [mem EXCEPT ![m] = NoDoc] /\ Replaced({m})
      BY <1>5, <2>2 DEF Reset
    <3>2. MemoryOK' /\ CachesOK' /\ Version(durable')
      BY <3>1, Remembering, Replacing, Versions
    <3>3. ShardOK'
      BY <1>5, <3>2 DEF Reset, ghost, shardGhost, AnchorInv, ShardOK
    <3> QED BY <2>1, <3>2, <3>3, AnchorsKept DEF AnchorInv
  <2>3. CASE Loaded(m) # View(m)
    <3>1. durable' = durable /\ mem' = [mem EXCEPT ![m] = View(m)] /\ decoded' = decoded
      BY <1>5, <2>3 DEF Reset
    <3>2. MemoryOK'
      BY <3>1, Remembering, Versions
    <3>3. ShardOK'
      BY <1>5, <3>1, AnchorsKept DEF Reset, ghost
    <3> QED BY <2>1, <3>2, <3>3, AnchorsKept DEF AnchorInv
  <2> QED BY <2>2, <2>3
<1>6. ASSUME NEW m \in Managers, Restart(m) PROVE AnchorInv'
  <2>1. FileOK' /\ ShownOK' /\ CountsOK' /\ lines' = lines
    BY <1>6, AnchorsKept, Counting, Zenon DEF Restart, ghost, fileGhost
  <2>2. CallsOK' /\ MemoryOK'
    BY <1>6, <2>1, Ending, Remembering DEF Restart
  <2>3. CachesOK'
    <3>1. decoded' = [decoded EXCEPT ![m] = Right] /\ CachesOK
      BY <1>6 DEF Restart, AnchorInv, ShardOK
    <3> QED BY <3>1 DEF CachesOK, Version
  <2>4. ShardOK'
    BY <1>6, <2>3 DEF Restart, ghost, shardGhost, AnchorInv, ShardOK
  <2> QED BY <2>1, <2>2, <2>4 DEF AnchorInv
<1> QED BY <1>1, <1>2, <1>3, <1>4, <1>5, <1>6

LEMMA AnchorInitInv ==
    ASSUME AnchorInit PROVE AnchorInv
<1>1. PICK n \in 1 .. MaxTracked, said \in [1 .. MaxLines -> Texts] :
        content = [i \in 1 .. n |-> [text |-> said[i], line |-> i]]
  BY DEF AnchorInit
<1>2. n \in Nat /\ n <= MaxTracked /\ n <= MaxLines /\ n >= 1 /\ MaxTracked \in Nat /\ MaxLines \in Nat
  BY BoundsAssumption
<1>3. \A i \in 1 .. n : [text |-> said[i], line |-> i] \in Lines
  BY <1>2 DEF Lines
<1>4. content \in [1 .. n -> Lines]
  BY <1>1, <1>3
<1>5. content \in Seq(Lines) /\ Len(content) = n /\ \A i \in 1 .. n : content[i].line = i
  BY <1>1, <1>2, <1>4
<1>6. Fine(content, MaxTracked) /\ Fits(content) /\ lines = MaxTracked
  BY <1>2, <1>5 DEF Fine, Fits, AnchorInit
<1>7. FileOK /\ CountsOK
  BY <1>2, <1>6, BoundsAssumption DEF AnchorInit, FileOK, CountsOK
<1>8. TextsOf(content) \in Seq(Texts) /\ Len(TextsOf(content)) = n
  BY <1>5, TextsFacts
<1>9. /\ Version(durable) /\ minted \in Seq(Nat) /\ ShownOK
  <2>1. CASE durable = NoDoc /\ held = NoAnchor /\ minted = <<>>
    BY <2>1 DEF Version, ShownOK
  <2>2. CASE /\ durable = First(TextsOf(content), 1)
             /\ minted = <<durable.next>>
             /\ \E i \in DOMAIN content :
                  held = [id |-> durable.ids[i], text |-> content[i].text, line |-> i]
    <3>1. PICK one \in Nat : one = 1
      OBVIOUS
    <3>2. /\ durable \in Docs /\ GoodIds(durable) /\ durable.texts = TextsOf(content) /\ durable.space = one
          /\ durable.next = n
      BY <1>8, <2>2, <3>1, FirstFacts
    <3>3. GoodDoc(durable)
      BY <1>2, <3>1, <3>2 DEF GoodDoc
    <3>4. minted \in Seq(Nat)
      BY <1>2, <2>2, <3>2
    <3>5. PICK i \in 1 .. n : held = [id |-> durable.ids[i], text |-> content[i].text, line |-> i]
      BY <1>5, <2>2
    <3>6. durable.ids[i] \in Ids /\ content[i] \in Lines
      BY <1>5, <1>8, <3>2, <3>3, GoodIdFacts
    <3>7. ShownOK
      BY <3>5, <3>6, <1>2 DEF ShownOK, Lines
    <3> QED BY <3>3, <3>4, <3>7 DEF Version
  <2> QED BY <2>1, <2>2 DEF AnchorInit
<1>10. ShardOK
  <2>1. decoded = [m \in Managers |-> Right]
    BY DEF AnchorInit
  <2>2. CachesOK
    BY <2>1 DEF CachesOK
  <2> QED BY <1>9, <2>2 DEF AnchorInit, ShardOK
<1>11. MemoryOK
  <2>1. mem \in [Managers -> {Unloaded, durable}] /\ durable \in Docs \cup {NoDoc}
    BY <1>9 DEF AnchorInit, Version, GoodDoc
  <2>2. \A m \in Managers : mem[m] = Unloaded \/ mem[m] = durable
    BY <2>1
  <2> QED BY <1>9, <2>1, <2>2 DEF MemoryOK
<1>12. CallsOK
  BY DEF AnchorInit, CallsOK
<1> QED BY <1>7, <1>9, <1>10, <1>11, <1>12 DEF AnchorInv

LEMMA AnchorStepInv ==
    ASSUME AnchorInv, [AnchorNext]_anchorVars PROVE AnchorInv'
<1>1. CASE UNCHANGED anchorVars
  BY <1>1, AnchorsKept DEF anchorVars, ghost, fileGhost, AnchorInv
<1>2. CASE Evict \/ Outside
  BY <1>2, OtherSteps
<1>3. ASSUME NEW m \in Managers,
        \/ Fetch(m, "read") \/ Fetch(m, "edit") \/ WriteFile(m) \/ RangeEdit(m)
      PROVE AnchorInv'
  BY <1>3, BeginSteps
<1>4. ASSUME NEW m \in Managers,
        \/ TooLong(m) \/ Unchanged(m) \/ FirstSeen(m) \/ Reconcile(m)
        \/ Publish(m) \/ CannotPublish(m) \/ Republish(m)
      PROVE AnchorInv'
  BY <1>4, ReconcileSteps
<1>5. ASSUME NEW m \in Managers,
        \/ Observe(m) \/ RefuseEdit(m) \/ NotFound(m)
        \/ Validate(m) \/ WriteEdit(m) \/ Commit(m) \/ CannotCommit(m)
      PROVE AnchorInv'
  BY <1>5, EditSteps
<1>6. ASSUME NEW m \in Managers,
        \/ OtherPublishes(m) \/ Forget(m) \/ Reset(m) \/ Restart(m)
      PROVE AnchorInv'
  BY <1>6, OtherSteps
<1> QED BY <1>1, <1>2, <1>3, <1>4, <1>5, <1>6 DEF AnchorNext

(* The store's state has its types, and a document names each of its lines, no *)
(* two of them the same way (allocate_identity, file_editor.rs).            *)
THEOREM AnchorsTypeCorrect == AnchorSpec => []AnchorTypeOK
<1>1. AnchorInit => AnchorInv
  BY AnchorInitInv
<1>2. AnchorInv /\ [AnchorNext]_anchorVars => AnchorInv'
  BY AnchorStepInv
<1>3. AnchorInv => AnchorTypeOK
  BY AnchorInvImpliesTypeOK
<1> QED BY <1>1, <1>2, <1>3, PTL DEF AnchorSpec

(* No version of the document gives way to one that did not come of it, but by *)
(* a writer that takes an older version for the shard: any other step that     *)
(* replaces it publishes the next one (publish_reconciled_document).           *)
Supersedes == durable'.gen > durable.gen
MisledWrite == \E m \in Managers : Misled(m) /\ mem'[m] = durable'

LEMMA VersionsInOrder ==
    ASSUME AnchorInv, [AnchorNext]_anchorVars, durable # NoDoc, durable' # NoDoc, durable' # durable
    PROVE  Supersedes \/ MisledWrite
<1>1. durable.gen \in Nat
  BY GoodIdFacts DEF AnchorInv, ShardOK, Version
<1>2. ASSUME NEW m \in Managers, mem' = [mem EXCEPT ![m] = durable'], Misled(m) PROVE MisledWrite
  <2>1. mem'[m] = durable'
    BY <1>2 DEF AnchorInv, MemoryOK
  <2> QED BY <1>2, <2>1 DEF MisledWrite
<1>3. ASSUME NEW m \in Managers, op[m] # Idle, op[m].at \in Pending,
             durable' = op[m].doc, mem' = [mem EXCEPT ![m] = durable'], View(m) = op[m].exp
      PROVE  Supersedes \/ MisledWrite
  <2>1. CASE Misled(m)
    BY <1>2, <1>3, <2>1
  <2>2. CASE ~Misled(m)
    <3>1. op[m].exp = durable
      BY <1>3, <2>2 DEF Misled
    <3>2. durable'.gen = durable.gen + 1
      BY <1>3, <3>1, CallFacts DEF CallFits
    <3> QED BY <1>1, <3>2 DEF Supersedes
  <2> QED BY <2>1, <2>2
<1>4. ASSUME NEW m \in Managers, Publish(m) \/ Commit(m) PROVE Supersedes \/ MisledWrite
  <2>1. op[m] # Idle /\ op[m].at \in Pending /\ View(m) = op[m].exp
    BY <1>4 DEF Publish, CanPublish, Commit, Current, At, Pending, Editing
  <2>2. durable' = op[m].doc /\ mem' = [mem EXCEPT ![m] = durable']
    BY <1>4 DEF Publish, Commit
  <2> QED BY <1>3, <2>1, <2>2
<1>5. ASSUME NEW m \in Managers, Republish(m) \/ OtherPublishes(m) PROVE MisledWrite
  <2>1. Misled(m) /\ mem' = [mem EXCEPT ![m] = durable']
    BY <1>5 DEF Republish, OtherPublishes, Misled
  <2> QED BY <1>2, <2>1
<1>6. ASSUME NEW m \in Managers, Reset(m) PROVE FALSE
  BY <1>6 DEF Reset
<1>7. CASE UNCHANGED anchorVars
  BY <1>7 DEF anchorVars
<1>8. CASE Evict \/ Outside
  BY <1>8 DEF Evict, Outside
<1>9. ASSUME NEW m \in Managers,
        \/ Fetch(m, "read") \/ Fetch(m, "edit") \/ WriteFile(m) \/ RangeEdit(m)
        \/ TooLong(m) \/ Unchanged(m) \/ FirstSeen(m) \/ Reconcile(m) \/ CannotPublish(m)
        \/ Observe(m) \/ RefuseEdit(m) \/ NotFound(m)
        \/ Validate(m) \/ WriteEdit(m) \/ CannotCommit(m)
        \/ Forget(m) \/ Restart(m)
      PROVE FALSE
  <2>1. durable' = durable
    BY <1>9, Zenon DEF Fetch, WriteFile, RangeEdit, TooLong, Unchanged, FirstSeen, Reconcile, CannotPublish,
        Observe, RefuseEdit, NotFound, Validate, WriteEdit, CannotCommit, Forget, Restart
  <2> QED BY <2>1
<1>10. CASE AnchorNext
  BY <1>4, <1>5, <1>6, <1>8, <1>9, <1>10 DEF AnchorNext
<1> QED BY <1>7, <1>10

(* A document in the shard only gives way to a later version of itself, is   *)
(* dropped whole, or is written over by a manager whose decoded copy of the  *)
(* shard is an older one (publish_reconciled_document, check_transitions,    *)
(* save, read_task_documents_cached).                                        *)
THEOREM NoLostPublication == AnchorSpec => GenerationsGrow
<1>1. AnchorInit => AnchorInv
  BY AnchorInitInv
<1>2. AnchorInv /\ [AnchorNext]_anchorVars => AnchorInv'
  BY AnchorStepInv
<1>3. AnchorInv /\ [AnchorNext]_anchorVars
        => [durable # NoDoc /\ durable' # NoDoc /\ durable' # durable
              => \/ durable'.gen > durable.gen
                 \/ \E m \in Managers : Misled(m) /\ mem'[m] = durable']_anchorVars
  BY VersionsInOrder DEF Supersedes, MisledWrite
<1> QED BY <1>1, <1>2, <1>3, PTL DEF AnchorSpec, GenerationsGrow

-----------------------------------------------------------------------------
(* Which line is which, from one content of the file to another.            *)

(* A set of places that is not empty has a first one, and a last one.       *)
LEMMA FirstPlace ==
    ASSUME NEW T, T \subseteq Nat, T # {}
    PROVE  \E x \in T : \A y \in T : x <= y
<1> DEFINE R == {ss \in Nat \X Nat : ss[1] < ss[2]}
<1>1. IsWellFoundedOn(R, Nat)
  BY NatLessThanWellFounded DEF OpToRel
<1>2. \A x, y \in Nat : <<y, x>> \in R <=> y < x
  OBVIOUS
<1> HIDE DEF R
<1>3. PICK x \in T : \A y \in T : ~ (<<y, x>> \in R)
  BY <1>1, WFMin
<1>4. \A y \in T : ~ (y < x)
  BY <1>2, <1>3
<1> QED BY <1>3, <1>4

LEMMA LastPlace ==
    ASSUME NEW n \in Nat, NEW T, T \subseteq 1 .. n, T # {}
    PROVE  \E x \in T : \A y \in T : y <= x
<1> DEFINE U == {i \in Nat : n - i \in T}
<1>1. U \subseteq Nat /\ U # {}
  <2>1. PICK x \in T : TRUE
    OBVIOUS
  <2>2. n - x \in Nat /\ n - (n - x) = x
    <3>1. x \in 1 .. n
      BY <2>1
    <3> QED BY <3>1
  <2> QED BY <2>1, <2>2
<1> HIDE DEF U
<1>2. PICK i \in U : \A j \in U : i <= j
  BY <1>1, FirstPlace
<1>3. i \in Nat /\ n - i \in T
  BY <1>2 DEF U
<1>4. ASSUME NEW y \in T PROVE y <= n - i
  <2>0. y \in 1 .. n
    OBVIOUS
  <2>1. y \in Nat /\ n - y \in Nat /\ n - (n - y) = y
    BY <2>0
  <2>2. n - y \in U
    BY <2>1 DEF U
  <2>3. i <= n - y
    BY <1>2, <2>2
  <2> QED BY <1>3, <2>1, <2>3
<1> QED BY <1>3, <1>4

(* Finitely many places have one order: what maps them to themselves and keeps *)
(* their order moves none.                                                  *)
LEMMA OneOrder ==
    ASSUME NEW n \in Nat, NEW T, T \subseteq 1 .. n, NEW e \in [T -> T],
           \A i, k \in T : i < k => e[i] < e[k]
    PROVE  \A i \in T : e[i] = i
<1>0. \A i \in T : i \in Nat /\ e[i] \in T /\ e[i] \in Nat
  <2>1. \A i \in T : i \in 1 .. n
    OBVIOUS
  <2>2. \A i \in T : e[i] \in T
    OBVIOUS
  <2>3. \A i \in 1 .. n : i \in Nat
    OBVIOUS
  <2> QED BY <2>1, <2>2, <2>3
<1>1. \A i \in T : ~ (e[i] < i)
  <2> DEFINE Bad == {i \in T : e[i] < i}
  <2> SUFFICES ASSUME Bad # {} PROVE FALSE
    OBVIOUS
  <2>1. Bad \subseteq Nat
    BY <1>0
  <2>2. PICK i \in Bad : \A j \in Bad : i <= j
    <3> HIDE DEF Bad
    <3> QED BY <2>1, FirstPlace
  <2>3. i \in T /\ e[i] \in T /\ e[i] < i /\ e[e[i]] < e[i]
    BY <2>2
  <2>4. e[i] \in Bad
    BY <2>3
  <2> QED BY <1>0, <2>2, <2>3, <2>4
<1>2. \A i \in T : ~ (i < e[i])
  <2> DEFINE Bad == {i \in T : i < e[i]}
  <2> SUFFICES ASSUME Bad # {} PROVE FALSE
    OBVIOUS
  <2>1. Bad \subseteq 1 .. n
    OBVIOUS
  <2>2. PICK i \in Bad : \A j \in Bad : j <= i
    <3> HIDE DEF Bad
    <3> QED BY <2>1, LastPlace
  <2>3. i \in T /\ e[i] \in T /\ i < e[i] /\ e[i] < e[e[i]]
    BY <2>2
  <2>4. e[i] \in Bad
    BY <2>3
  <2> QED BY <1>0, <2>2, <2>3, <2>4
<1> QED BY <1>0, <1>1, <1>2

(* The lines of c that say t are lines of d, in the same order.             *)
Embeds(t, c, d) ==
    /\ \A i \in 1 .. Len(c) : c[i].text = t => \E j \in 1 .. Len(d) : d[j] = c[i]
    /\ \A i, k \in 1 .. Len(c) : \A j, l \in 1 .. Len(d) :
         c[i].text = t /\ c[k].text = t /\ d[j] = c[i] /\ d[l] = c[k] /\ i < k => j < l

LEMMA EmbedsTrans ==
    ASSUME NEW t, NEW b, NEW c, NEW d, Embeds(t, b, c), Embeds(t, c, d) PROVE Embeds(t, b, d)
<1>1. \A i \in 1 .. Len(b) : b[i].text = t => \E j \in 1 .. Len(d) : d[j] = b[i]
  BY DEF Embeds
<1>2. ASSUME NEW i \in 1 .. Len(b), NEW k \in 1 .. Len(b), NEW j \in 1 .. Len(d), NEW l \in 1 .. Len(d),
             b[i].text = t, b[k].text = t, d[j] = b[i], d[l] = b[k], i < k
      PROVE  j < l
  <2>1. PICK p \in 1 .. Len(c) : c[p] = b[i]
    BY <1>2 DEF Embeds
  <2>2. PICK q \in 1 .. Len(c) : c[q] = b[k]
    BY <1>2 DEF Embeds
  <2>3. p < q
    BY <1>2, <2>1, <2>2 DEF Embeds
  <2>4. c[p].text = t /\ c[q].text = t /\ d[j] = c[p] /\ d[l] = c[q]
    BY <1>2, <2>1, <2>2
  <2>5. \A x, y \in 1 .. Len(c) : \A u, z \in 1 .. Len(d) :
          c[x].text = t /\ c[y].text = t /\ d[u] = c[x] /\ d[z] = c[y] /\ x < y => u < z
    BY Zenon DEF Embeds
  <2> QED BY <2>3, <2>4, <2>5
<1> QED BY <1>1, <1>2 DEF Embeds

LEMMA EmbedsSelf ==
    ASSUME NEW t, NEW c, NEW n, Fine(c, n) PROVE Embeds(t, c, c)
BY DEF Embeds, Fine

(* Two contents that read the same, one embedded in the other: the lines that *)
(* say t are the same ones.                                                 *)
LEMMA EmbeddedSame ==
    ASSUME NEW t, NEW c, NEW d, NEW n, Fine(c, n), Fine(d, n), Embeds(t, c, d), TextsOf(c) = TextsOf(d)
    PROVE  Len(c) = Len(d) /\ \A i \in 1 .. Len(c) : c[i].text = t => d[i] = c[i]
<1>1. /\ Len(c) = Len(d) /\ Len(c) \in Nat
      /\ \A i \in 1 .. Len(c) : c[i].text = d[i].text
  <2>1. c \in Seq(Lines) /\ d \in Seq(Lines)
    BY DEF Fine
  <2>2. Len(c) = Len(d)
    BY <2>1, TextsFacts
  <2>3. \A i \in 1 .. Len(c) : TextsOf(c)[i] = c[i].text /\ TextsOf(d)[i] = d[i].text
    BY <2>1, <2>2, TextsFacts
  <2> QED BY <2>1, <2>2, <2>3
<1> DEFINE T == {i \in 1 .. Len(c) : c[i].text = t}
           place(i) == CHOOSE j \in 1 .. Len(d) : d[j] = c[i]
           e == [i \in T |-> place(i)]
<1>2. \A i \in T : place(i) \in 1 .. Len(d) /\ d[place(i)] = c[i]
  BY DEF Embeds
<1>3. \A i \in T : place(i) \in T
  BY <1>1, <1>2
<1>4. \A i, k \in T : i < k => place(i) < place(k)
  <2> HIDE DEF place
  <2> QED BY <1>2 DEF Embeds
<1>5. e \in [T -> T] /\ \A i \in T : e[i] = place(i)
  BY <1>3
<1>6. T \subseteq 1 .. Len(c)
  OBVIOUS
<1>7. \A i, k \in T : i < k => e[i] < e[k]
  BY <1>4, <1>5
<1> HIDE DEF e, place
<1>8. \A i \in T : e[i] = i
  <2> HIDE DEF T
  <2> QED BY <1>1, <1>5, <1>6, <1>7, OneOrder
<1>9. \A i \in T : d[i] = c[i]
  BY <1>2, <1>5, <1>8
<1> QED BY <1>1, <1>9

(* Where a text occurs once.                                                *)
LEMMA OccursOnce ==
    ASSUME NEW said \in Seq(Texts), NEW t, Occurs(t, said) = 1
    PROVE  \A i, j \in 1 .. Len(said) : said[i] = t /\ said[j] = t => i = j
<1> DEFINE T == {i \in DOMAIN said : said[i] = t}
<1>1. DOMAIN said = 1 .. Len(said) /\ Len(said) \in Nat
  OBVIOUS
<1>2. IsFiniteSet(T)
  <2>1. IsFiniteSet(1 .. Len(said))
    BY <1>1, FS_Interval
  <2>2. T \in SUBSET (1 .. Len(said))
    BY <1>1
  <2> QED BY <2>1, <2>2, FS_Subset
<1>3. Cardinality(T) = 1
  BY DEF Occurs
<1>4. \E x : T = {x}
  <2> HIDE DEF T
  <2> QED BY <1>2, <1>3, FS_Singleton
<1>5. \A i, j \in T : i = j
  <2> HIDE DEF T
  <2> QED BY <1>4
<1> QED BY <1>1, <1>5

LEMMA EmbeddedOnce ==
    ASSUME NEW t, NEW c \in Seq(Lines), NEW d \in Seq(Lines), Embeds(t, c, d),
           Occurs(t, TextsOf(d)) = 1,
           NEW i \in 1 .. Len(c), NEW j \in 1 .. Len(d), c[i].text = t, d[j].text = t
    PROVE  d[j] = c[i]
<1>1. PICK k \in 1 .. Len(d) : d[k] = c[i]
  BY DEF Embeds
<1>2. /\ TextsOf(d) \in Seq(Texts) /\ Len(TextsOf(d)) = Len(d)
      /\ TextsOf(d)[k] = t /\ TextsOf(d)[j] = t
  BY <1>1, TextsFacts
<1>3. k = j
  BY <1>2, OccursOnce
<1> QED BY <1>1, <1>3

-----------------------------------------------------------------------------
(* A text of which lines were added, or removed, but not both.              *)
Clean(t) == t \notin added \cap removed

(* H: contents the file had, all it is about.  Of a clean text any two of them *)
(* have the same lines or one has more, and the order is the same.          *)
Histories(H) ==
    /\ content \in H
    /\ \A c \in H : Fine(c, lines)
    /\ \A c \in H : \A t \in Texts : /\ t \notin added => Embeds(t, content, c)
                                     /\ t \notin removed => Embeds(t, c, content)
    /\ \A c, d \in H : \A t \in Texts : Clean(t) => Embeds(t, c, d) \/ Embeds(t, d, c)

(* A change of the file, and the texts it touches.                          *)
LEMMA SwapEmbeds ==
    ASSUME AnchorInv, NEW new, Fine(new, lines + 1), Follows(content, new), Swapped(new), NEW t \in Texts
    PROVE  /\ added \subseteq added' /\ removed \subseteq removed'
           /\ t \notin added' => Embeds(t, new, content)
           /\ t \notin removed' => Embeds(t, content, new)
<1> DEFINE before == {content[i].line : i \in DOMAIN content}
           after == {new[i].line : i \in DOMAIN new}
           lost == {content[i].text : i \in {i \in DOMAIN content : content[i].line \notin after}}
           gained == {new[i].text : i \in {i \in DOMAIN new : new[i].line \notin before}}
<1>0. /\ Fine(content, lines)
      /\ DOMAIN content = 1 .. Len(content) /\ DOMAIN new = 1 .. Len(new)
      /\ Len(content) \in Nat /\ Len(new) \in Nat
  BY DEF AnchorInv, FileOK, Fine
<1>1. removed' = removed \cup lost /\ added' = added \cup gained
  BY DEF Swapped
<1>2. ASSUME t \notin added', NEW j \in 1 .. Len(new), new[j].text = t
      PROVE  \E i \in 1 .. Len(content) : content[i] = new[j]
  <2>1. new[j].line \in before
    BY <1>0, <1>1, <1>2
  <2>2. PICK i \in 1 .. Len(content) : content[i].line = new[j].line
    BY <1>0, <2>1
  <2> QED BY <2>2 DEF Follows
<1>3. ASSUME t \notin removed', NEW i \in 1 .. Len(content), content[i].text = t
      PROVE  \E j \in 1 .. Len(new) : new[j] = content[i]
  <2>1. content[i].line \in after
    BY <1>0, <1>1, <1>3
  <2>2. PICK j \in 1 .. Len(new) : content[i].line = new[j].line
    BY <1>0, <2>1
  <2>3. content[i] = new[j]
    BY <2>2 DEF Follows
  <2> QED BY <2>3
<1>4. \A i, k \in 1 .. Len(content) : \A j, l \in 1 .. Len(new) :
        new[j] = content[i] /\ new[l] = content[k] /\ i < k => j < l
  BY DEF Follows
<1>5. \A j, l \in 1 .. Len(new) : \A i, k \in 1 .. Len(content) :
        content[i] = new[j] /\ content[k] = new[l] /\ j < l => i < k
  <2> SUFFICES ASSUME NEW j \in 1 .. Len(new), NEW l \in 1 .. Len(new),
                      NEW i \in 1 .. Len(content), NEW k \in 1 .. Len(content),
                      content[i] = new[j], content[k] = new[l], j < l
               PROVE i < k
    OBVIOUS
  <2>1. CASE k < i
    BY <2>1, <1>4
  <2>2. CASE i = k
    <3>1. new[j].line = new[l].line
      BY <2>2
    <3> QED BY <3>1 DEF Fine
  <2> QED BY <2>1, <2>2
<1> HIDE DEF before, after, lost, gained
<1>6. t \notin added' => Embeds(t, new, content)
  BY <1>2, <1>5 DEF Embeds
<1>7. t \notin removed' => Embeds(t, content, new)
  BY <1>3, <1>4 DEF Embeds
<1> QED BY <1>1, <1>6, <1>7

LEMMA HistoriesGo ==
    ASSUME AnchorInv, NEW H, Histories(H), NEW new, Fine(new, lines + 1), Follows(content, new), Swapped(new)
    PROVE  Histories(H \cup {new})'
<1>1. /\ content' = new /\ lines' = lines + 1 /\ lines \in Nat /\ Fine(content, lines)
  BY DEF AnchorInv, FileOK, Swapped
<1>2. \A t \in Texts : /\ t \notin added' => t \notin added /\ Embeds(t, new, content)
                       /\ t \notin removed' => t \notin removed /\ Embeds(t, content, new)
  BY SwapEmbeds
<1>3. \A c \in H \cup {new} : Fine(c, lines')
  BY <1>1, FineLater DEF Histories
<1>4. \A c \in H \cup {new} : \A t \in Texts : /\ t \notin added' => Embeds(t, new, c)
                                               /\ t \notin removed' => Embeds(t, c, new)
  <2> SUFFICES ASSUME NEW c \in H \cup {new}, NEW t \in Texts
               PROVE /\ t \notin added' => Embeds(t, new, c)
                     /\ t \notin removed' => Embeds(t, c, new)
    OBVIOUS
  <2>1. CASE c = new
    BY <2>1, EmbedsSelf
  <2>2. CASE c \in H
    <3>1. t \notin added' => Embeds(t, content, c) /\ Embeds(t, new, content)
      BY <1>2, <2>2 DEF Histories
    <3>2. t \notin removed' => Embeds(t, c, content) /\ Embeds(t, content, new)
      BY <1>2, <2>2 DEF Histories
    <3> QED BY <3>1, <3>2, EmbedsTrans
  <2> QED BY <2>1, <2>2
<1>5. \A c, d \in H \cup {new} : \A t \in Texts : Clean(t)' => Embeds(t, c, d) \/ Embeds(t, d, c)
  <2> SUFFICES ASSUME NEW c \in H \cup {new}, NEW d \in H \cup {new}, NEW t \in Texts, Clean(t)'
               PROVE Embeds(t, c, d) \/ Embeds(t, d, c)
    OBVIOUS
  <2>1. t \notin added' \/ t \notin removed'
    BY DEF Clean
  <2>2. CASE c \in H /\ d \in H
    <3>1. Clean(t)
      BY <1>2, <2>1 DEF Clean
    <3> QED BY <2>2, <3>1 DEF Histories
  <2>3. CASE c = new
    <3>1. (t \notin added' => Embeds(t, new, d)) /\ (t \notin removed' => Embeds(t, d, new))
      BY <1>4
    <3> QED BY <2>1, <2>3, <3>1
  <2>4. CASE d = new
    <3>1. (t \notin added' => Embeds(t, new, c)) /\ (t \notin removed' => Embeds(t, c, new))
      BY <1>4
    <3> QED BY <2>1, <2>4, <3>1
  <2> QED BY <2>2, <2>3, <2>4
<1>6. \A c \in H \cup {new} : \A t \in Texts : /\ t \notin added' => Embeds(t, content', c)
                                               /\ t \notin removed' => Embeds(t, c, content')
  BY <1>1, <1>4
<1>7. content' \in H \cup {new}
  BY <1>1
<1> QED BY <1>3, <1>5, <1>6, <1>7, Zenon DEF Histories

(* Contents that read the same have the same lines, where the text is clean, *)
(* and so has a text that occurs once in each.                              *)
LEMMA SameLines ==
    ASSUME NEW H, Histories(H), NEW c \in H, NEW d \in H, TextsOf(c) = TextsOf(d)
    PROVE  Len(c) = Len(d) /\ \A i \in 1 .. Len(c) : Clean(c[i].text) => d[i] = c[i]
<1>1. Fine(c, lines) /\ Fine(d, lines) /\ c \in Seq(Lines) /\ d \in Seq(Lines)
  BY DEF Histories, Fine
<1>2. Len(c) = Len(d)
  BY <1>1, TextsFacts
<1>3. ASSUME NEW i \in 1 .. Len(c), Clean(c[i].text) PROVE d[i] = c[i]
  <2>1. c[i].text \in Texts /\ d[i].text = c[i].text
    <3>1. c[i] \in Lines
      BY <1>1
    <3>2. c[i].text = TextsOf(c)[i] /\ d[i].text = TextsOf(d)[i]
      BY <1>1, <1>2, TextsFacts
    <3> QED BY <3>1, <3>2 DEF Lines
  <2>2. Embeds(c[i].text, c, d) \/ Embeds(c[i].text, d, c)
    BY <1>3, <2>1 DEF Histories
  <2>3. CASE Embeds(c[i].text, c, d)
    BY <1>1, <2>3, EmbeddedSame
  <2>4. CASE Embeds(c[i].text, d, c)
    BY <1>1, <1>2, <2>1, <2>4, EmbeddedSame
  <2> QED BY <2>2, <2>3, <2>4
<1> QED BY <1>2, <1>3

LEMMA OnceLines ==
    ASSUME NEW H, Histories(H), NEW c \in H, NEW d \in H,
           NEW i \in 1 .. Len(c), NEW j \in 1 .. Len(d), c[i].text = d[j].text, Clean(d[j].text),
           Unambiguous(d[j].text, TextsOf(c), TextsOf(d))
    PROVE  c[i] = d[j]
<1>1. Fine(c, lines) /\ Fine(d, lines) /\ c \in Seq(Lines) /\ d \in Seq(Lines)
  BY DEF Histories, Fine
<1>2. d[j].text \in Texts
  <2>1. d[j] \in Lines
    BY <1>1
  <2> QED BY <2>1 DEF Lines
<1>3. Occurs(d[j].text, TextsOf(c)) = 1 /\ Occurs(d[j].text, TextsOf(d)) = 1
  BY DEF Unambiguous
<1>4. Embeds(d[j].text, c, d) \/ Embeds(d[j].text, d, c)
  BY <1>2 DEF Histories
<1>5. CASE Embeds(d[j].text, c, d)
  BY <1>1, <1>3, <1>5, EmbeddedOnce
<1>6. CASE Embeds(d[j].text, d, c)
  BY <1>1, <1>3, <1>6, EmbeddedOnce
<1> QED BY <1>4, <1>5, <1>6

-----------------------------------------------------------------------------
(* What identities stand for.  F: of an identity, the line it was given to.  *)
(* w: how far the counters are; D: the texts that are not clean.            *)
Dirty == added \cap removed

(* A version of the document names the lines of a content the file had.      *)
OfLines(d, H, F, w, D) ==
    /\ d.space \in 1 .. Len(w) /\ d.next <= w[d.space]
    /\ \E c \in H : /\ TextsOf(c) = d.texts
                    /\ \A i \in 1 .. Len(c) : c[i].text \notin D => F[d.ids[i]] = c[i].line

(* A call that may yet publish its document: of a namespace of its own, or    *)
(* with the identities kept from the version it saw.                        *)
Publishes(c) ==
    /\ c.at \in Pending
    /\ IF c.kind = "edit" THEN Len(c.new) <= MaxTracked ELSE ~ (c.exp = NoDoc /\ c.mexp # NoDoc)
Own(c) == c.exp = NoDoc \/ c.doc.space # c.exp.space
Base(c) == IF Own(c) THEN 0 ELSE c.exp.next
Target(c) == IF c.kind = "edit" THEN c.new ELSE c.read

ToPublish(c, F, w, D) ==
    /\ c.doc.space \in 1 .. Len(w)
    /\ IF Own(c) THEN w[c.doc.space] = 0 ELSE c.exp.next <= w[c.doc.space]
    /\ Base(c) <= c.doc.next
    /\ \A j \in 1 .. Len(Target(c)) :
         Target(c)[j].text \notin D /\ c.doc.ids[j].n < Base(c) => F[c.doc.ids[j]] = Target(c)[j].line

CallLines(c, H, F, w, D) ==
    /\ c.read \in H
    /\ c.at = "written" => c.new \in H
    /\ c.at = "republishing" => OfLines(c.doc, H, F, w, D)
    /\ Publishes(c) => ToPublish(c, F, w, D)

(* The anchor shown was that of its line.                                    *)
HeldLine(h, H, F, w, D) ==
    h # NoAnchor =>
        IF h.id.space = 0
        THEN \E c \in H : /\ TextsOf(c) = h.id.of /\ h.id.n \in 1 .. Len(c)
                          /\ c[h.id.n].text = h.text /\ c[h.id.n].line = h.line
        ELSE /\ h.id.space \in 1 .. Len(w) /\ h.id.n < w[h.id.space]
             /\ h.text \notin D => F[h.id] = h.line

OwnCall(m) == op[m] # Idle /\ Publishes(op[m]) /\ Own(op[m])

LineState(H, F) ==
    /\ F \in [Ids -> Nat] /\ Histories(H)
    /\ durable # NoDoc => OfLines(durable, H, F, minted, Dirty) /\ durable.next = minted[durable.space]
    /\ \A m \in Managers : mem[m] \in {NoDoc, Unloaded} \/ OfLines(mem[m], H, F, minted, Dirty)
    /\ \A m \in Managers : decoded[m] \in {NoDoc, Right} \/ OfLines(decoded[m], H, F, minted, Dirty)
    /\ \A m \in Managers : op[m] = Idle \/ CallLines(op[m], H, F, minted, Dirty)
    /\ \A a, b \in Managers : a # b /\ OwnCall(a) /\ OwnCall(b) => op[a].doc.space # op[b].doc.space
    /\ HeldLine(held, H, F, minted, Dirty)

LinesInv == ~ rolledBack => \E H, F : LineState(H, F)

(* Contents, texts touched and counters only get more, and what an identity  *)
(* that was given stands for stays.                                         *)
Grows(H, F, w, D, K, G, v, E) ==
    /\ H \subseteq K /\ D \subseteq E /\ w \in Seq(Nat) /\ v \in Seq(Nat)
    /\ Len(w) <= Len(v) /\ \A s \in 1 .. Len(w) : w[s] <= v[s]
    /\ G \in [Ids -> Nat]
    /\ \A id \in Ids : id.space \in 1 .. Len(w) /\ id.n < w[id.space] => G[id] = F[id]

LEMMA CountersGrow ==
    ASSUME NEW H, NEW F, NEW w, NEW D, NEW K, NEW G, NEW v, NEW E, Grows(H, F, w, D, K, G, v, E),
           NEW s \in 1 .. Len(w)
    PROVE  /\ s \in 1 .. Len(v) /\ w[s] <= v[s] /\ w[s] \in Nat /\ v[s] \in Nat
           /\ Len(w) \in Nat /\ Len(v) \in Nat /\ Len(w) <= Len(v)
<1>1. w \in Seq(Nat) /\ v \in Seq(Nat) /\ Len(w) <= Len(v) /\ w[s] <= v[s]
  BY DEF Grows
<1>2. Len(w) \in Nat /\ Len(v) \in Nat /\ w[s] \in Nat
  BY <1>1
<1>3. s \in 1 .. Len(v)
  BY <1>1, <1>2
<1> QED BY <1>1, <1>2, <1>3

LEMMA OfLinesKept ==
    ASSUME NEW d, GoodDoc(d), NEW H, NEW F, NEW w, NEW D, NEW K, NEW G, NEW v, NEW E,
           Grows(H, F, w, D, K, G, v, E), OfLines(d, H, F, w, D)
    PROVE  OfLines(d, K, G, v, E)
<1>1. /\ d.space \in 1 .. Len(w) /\ d.next <= w[d.space] /\ w[d.space] <= v[d.space]
      /\ Len(w) \in Nat /\ Len(v) \in Nat /\ Len(w) <= Len(v) /\ w[d.space] \in Nat /\ d.next \in Nat
  <2>1. d.space \in 1 .. Len(w) /\ d.next <= w[d.space] /\ d.next \in Nat
    BY GoodIdFacts DEF OfLines
  <2> QED BY <2>1, CountersGrow
<1>2. v[d.space] \in Nat
  BY <1>1, CountersGrow
<1>3. d.space \in 1 .. Len(v) /\ d.next <= v[d.space]
  BY <1>1, <1>2
<1>4. PICK c \in H : /\ TextsOf(c) = d.texts
                     /\ \A i \in 1 .. Len(c) : c[i].text \notin D => F[d.ids[i]] = c[i].line
  BY DEF OfLines
<1>5. Len(TextsOf(c)) = Len(d.ids) /\ c \in K
  BY <1>4, GoodIdFacts DEF Grows
<1>6. \A i \in 1 .. Len(d.texts) : G[d.ids[i]] = F[d.ids[i]]
  <2> SUFFICES ASSUME NEW i \in 1 .. Len(d.texts) PROVE G[d.ids[i]] = F[d.ids[i]]
    OBVIOUS
  <2>1. d.ids[i] \in Ids /\ d.ids[i].n < d.next /\ d.ids[i].space = d.space
    BY GoodIdFacts
  <2>2. d.ids[i].n \in Nat
    BY <2>1 DEF Ids
  <2>3. d.ids[i].n < w[d.ids[i].space] /\ d.ids[i].space \in 1 .. Len(w)
    BY <1>1, <2>1, <2>2
  <2> QED BY <2>1, <2>3 DEF Grows
<1>7. \A i \in 1 .. Len(c) : c[i].text \notin E => i \in 1 .. Len(d.texts)
  <2>1. DOMAIN TextsOf(c) = DOMAIN c
    BY DEF TextsOf
  <2>2. DOMAIN d.texts = 1 .. Len(d.texts) /\ Len(d.texts) \in Nat
    BY GoodIdFacts
  <2>3. Len(c) = Len(d.texts)
    BY <2>1, <2>2, <1>4
  <2> QED BY <2>3
<1>8. \A i \in 1 .. Len(c) : c[i].text \notin E => G[d.ids[i]] = c[i].line
  BY <1>4, <1>6, <1>7 DEF Grows
<1> QED BY <1>3, <1>4, <1>5, <1>8 DEF OfLines

(* The document of a call that may publish names the lines it is to be for.  *)
LEMMA PublishesFacts ==
    ASSUME NEW c, NEW n, CallFits(c, n), Publishes(c)
    PROVE  /\ GoodDoc(c.doc) /\ c.doc.texts = TextsOf(Target(c)) /\ Target(c) \in Seq(Lines)
           /\ Fine(Target(c), n) /\ Len(c.doc.ids) = Len(Target(c)) /\ Len(c.doc.texts) = Len(Target(c))
           /\ c.exp # NoDoc => c.exp.next \in Nat
           /\ Base(c) \in Nat
<1>1. CASE c.at = "reconciled"
  <2>1. c.kind \in Reconciling /\ GoodDoc(c.doc) /\ c.doc.texts = TextsOf(c.read) /\ Fine(c.read, n)
    BY <1>1 DEF CallFits
  <2>2. Target(c) = c.read
    BY <2>1 DEF Target, Reconciling
  <2> QED BY <2>1, <2>2, GoodIdFacts, TextsFacts DEF Fine, CallFits, Calls, Docs, Base, Own
<1>2. CASE c.at \in Editing
  <2>1. c.kind = "edit" /\ Fine(c.new, n) /\ c.doc.texts = TextsOf(c.new) /\ Len(c.new) <= MaxTracked /\ GoodDoc(c.doc)
    BY <1>2 DEF CallFits, Publishes
  <2>2. Target(c) = c.new
    BY <2>1 DEF Target
  <2> QED BY <2>1, <2>2, GoodIdFacts, TextsFacts DEF Fine, CallFits, Calls, Docs, Base, Own
<1> QED BY <1>1, <1>2 DEF Publishes, Pending

LEMMA ToPublishKept ==
    ASSUME NEW c, NEW n, CallFits(c, n), Publishes(c),
           NEW H, NEW F, NEW w, NEW D, NEW K, NEW G, NEW v, NEW E,
           Grows(H, F, w, D, K, G, v, E), ToPublish(c, F, w, D), Own(c) => v[c.doc.space] = 0
    PROVE  ToPublish(c, G, v, E)
<1>0. /\ GoodDoc(c.doc) /\ Len(c.doc.texts) = Len(Target(c)) /\ Base(c) \in Nat
      /\ c.exp # NoDoc => c.exp.next \in Nat
  BY PublishesFacts
<1>1. /\ c.doc.space \in 1 .. Len(w) /\ w[c.doc.space] <= v[c.doc.space]
      /\ Len(w) \in Nat /\ Len(v) \in Nat /\ Len(w) <= Len(v) /\ w[c.doc.space] \in Nat
  <2>1. c.doc.space \in 1 .. Len(w)
    BY DEF ToPublish
  <2> QED BY <2>1, CountersGrow
<1>2. c.doc.space \in 1 .. Len(v)
  BY <1>1
<1>3. v[c.doc.space] \in Nat
  BY <1>2 DEF Grows
<1>4. IF Own(c) THEN v[c.doc.space] = 0 ELSE c.exp.next <= v[c.doc.space]
  BY <1>0, <1>1, <1>3 DEF ToPublish, Own
<1>5. ASSUME NEW j \in 1 .. Len(Target(c)), Target(c)[j].text \notin E, c.doc.ids[j].n < Base(c)
      PROVE  G[c.doc.ids[j]] = Target(c)[j].line
  <2>1. c.doc.ids[j] \in Ids /\ c.doc.ids[j].space = c.doc.space
    BY <1>0, GoodIdFacts
  <2>2. F[c.doc.ids[j]] = Target(c)[j].line
    BY <1>5 DEF ToPublish, Grows
  <2>3. c.doc.ids[j].n \in Nat
    BY <2>1 DEF Ids
  <2>4. ~ Own(c) /\ c.doc.ids[j].n < c.exp.next /\ c.exp.next \in Nat /\ c.exp.next <= w[c.doc.space]
    BY <1>0, <1>5, <2>3 DEF Base, Own, ToPublish
  <2>5. c.doc.ids[j].n < w[c.doc.space]
    BY <1>1, <2>3, <2>4
  <2> QED BY <1>1, <2>1, <2>2, <2>5 DEF Grows
<1> QED BY <1>2, <1>4, <1>5 DEF ToPublish

LEMMA HeldLineKept ==
    ASSUME NEW h \in [id : Ids, text : Texts, line : Nat \ {0}] \cup {NoAnchor},
           NEW H, NEW F, NEW w, NEW D, NEW K, NEW G, NEW v, NEW E,
           Grows(H, F, w, D, K, G, v, E), HeldLine(h, H, F, w, D)
    PROVE  HeldLine(h, K, G, v, E)
<1> SUFFICES ASSUME h # NoAnchor PROVE HeldLine(h, K, G, v, E)
  BY DEF HeldLine
<1>1. h.id \in Ids /\ h.id.n \in Nat
  BY DEF Ids
<1>2. CASE h.id.space = 0
  BY <1>2 DEF HeldLine, Grows
<1>3. CASE h.id.space # 0
  <2>1. /\ h.id.space \in 1 .. Len(w) /\ h.id.n < w[h.id.space] /\ (h.text \notin D => F[h.id] = h.line)
        /\ Len(w) \in Nat /\ Len(v) \in Nat /\ Len(w) <= Len(v) /\ w[h.id.space] <= v[h.id.space]
        /\ w[h.id.space] \in Nat
    <3>1. h.id.space \in 1 .. Len(w) /\ h.id.n < w[h.id.space] /\ (h.text \notin D => F[h.id] = h.line)
      BY <1>3 DEF HeldLine
    <3> QED BY <3>1, CountersGrow
  <2>2. h.id.space \in 1 .. Len(v)
    BY <2>1
  <2>3. v[h.id.space] \in Nat
    BY <2>2 DEF Grows
  <2>4. h.id.n < v[h.id.space]
    BY <1>1, <2>1, <2>3
  <2>5. G[h.id] = F[h.id] /\ (h.text \notin E => h.text \notin D)
    BY <1>1, <2>1 DEF Grows
  <2> QED BY <1>3, <2>1, <2>2, <2>4, <2>5 DEF HeldLine
<1> QED BY <1>2, <1>3

(* What is known of a version that is remembered, and of a call under way.  *)
LEMMA DurableLines ==
    ASSUME AnchorInv, NEW H, NEW F, LineState(H, F)
    PROVE  /\ durable # NoDoc => GoodDoc(durable) /\ OfLines(durable, H, F, minted, Dirty)
           /\ \A m \in Managers : mem[m] \notin {NoDoc, Unloaded} =>
                GoodDoc(mem[m]) /\ OfLines(mem[m], H, F, minted, Dirty)
           /\ \A m \in Managers : decoded[m] \notin {NoDoc, Right} =>
                GoodDoc(decoded[m]) /\ OfLines(decoded[m], H, F, minted, Dirty)
           /\ minted \in Seq(Nat) /\ Histories(H) /\ F \in [Ids -> Nat]
BY DEF AnchorInv, ShardOK, CachesOK, MemoryOK, LineState, Version

(* What a manager has for the shard is what it had, what the shard was when it *)
(* was replaced in the middle of a read, or right.                            *)
CachesFollow == \A a \in Managers : decoded'[a] \in {Right, decoded[a], durable}

LEMMA CacheSteps ==
    ASSUME AnchorInv, [AnchorNext]_anchorVars PROVE CachesFollow
<1>1. ASSUME decoded' = decoded PROVE CachesFollow
  BY <1>1 DEF CachesFollow
<1>2. ASSUME NEW W, Replaced(W) PROVE CachesFollow
  BY <1>2, Replacing DEF CachesFollow
<1>3. CASE UNCHANGED anchorVars
  BY <1>1, <1>3 DEF anchorVars
<1>4. CASE Evict \/ Outside
  BY <1>1, <1>2, <1>4 DEF Evict, Outside
<1>5. ASSUME NEW m \in Managers,
        \/ Fetch(m, "read") \/ Fetch(m, "edit") \/ WriteFile(m) \/ RangeEdit(m)
        \/ TooLong(m) \/ Unchanged(m) \/ FirstSeen(m) \/ Reconcile(m) \/ CannotPublish(m)
        \/ Observe(m) \/ RefuseEdit(m) \/ NotFound(m)
        \/ Validate(m) \/ WriteEdit(m) \/ CannotCommit(m) \/ Forget(m)
      PROVE CachesFollow
  <2>1. decoded' = decoded
    BY <1>5, Zenon DEF Fetch, WriteFile, RangeEdit, TooLong, Unchanged, FirstSeen, Reconcile, CannotPublish,
        Observe, RefuseEdit, NotFound, Validate, WriteEdit, CannotCommit, Forget
  <2> QED BY <1>1, <2>1
<1>6. ASSUME NEW m \in Managers, \/ Publish(m) \/ Republish(m) \/ Commit(m) \/ OtherPublishes(m) \/ Reset(m)
      PROVE CachesFollow
  BY <1>1, <1>2, <1>6 DEF Publish, Republish, Commit, OtherPublishes, Reset, Written
<1>7. ASSUME NEW m \in Managers, Restart(m) PROVE CachesFollow
  BY <1>7 DEF Restart, CachesFollow, AnchorInv, ShardOK, CachesOK
<1> QED BY <1>3, <1>4, <1>5, <1>6, <1>7 DEF AnchorNext

LEMMA CachedLines ==
    ASSUME AnchorInv, NEW H, NEW F, NEW K, NEW G, LineState(H, F), CachesFollow,
           Grows(H, F, minted, Dirty, K, G, minted', Dirty')
    PROVE  \A a \in Managers : decoded'[a] \in {NoDoc, Right} \/ OfLines(decoded'[a], K, G, minted', Dirty')
<1> SUFFICES ASSUME NEW a \in Managers, decoded'[a] \notin {NoDoc, Right}
             PROVE  OfLines(decoded'[a], K, G, minted', Dirty')
  OBVIOUS
<1>1. decoded'[a] \in {decoded[a], durable}
  BY DEF CachesFollow
<1>2. GoodDoc(decoded'[a]) /\ OfLines(decoded'[a], H, F, minted, Dirty)
  BY <1>1, DurableLines
<1> QED BY <1>2, OfLinesKept, Zenon

(* A call under way goes on as it was, whatever the others do meanwhile.     *)
LEMMA CallLinesKept ==
    ASSUME NEW c, NEW n, CallFits(c, n),
           NEW H, NEW F, NEW w, NEW D, NEW K, NEW G, NEW v, NEW E,
           Grows(H, F, w, D, K, G, v, E), CallLines(c, H, F, w, D),
           Publishes(c) /\ Own(c) => v[c.doc.space] = 0
    PROVE  CallLines(c, K, G, v, E)
<1>1. c.at = "republishing" => OfLines(c.doc, K, G, v, E)
  <2>1. c.at = "republishing" => GoodDoc(c.doc) /\ OfLines(c.doc, H, F, w, D)
    BY DEF CallLines, CallFits
  <2> QED BY <2>1, OfLinesKept, Zenon
<1>2. Publishes(c) => ToPublish(c, G, v, E)
  <2> SUFFICES ASSUME Publishes(c) PROVE ToPublish(c, G, v, E)
    OBVIOUS
  <2>1. ToPublish(c, F, w, D) /\ (Own(c) => v[c.doc.space] = 0)
    BY DEF CallLines
  <2> QED BY <2>1, ToPublishKept, Zenon
<1> QED BY <1>1, <1>2 DEF CallLines, Grows

(* One manager moves, to a call c and with d in memory; what the others do and *)
(* remember stays true.                                                     *)
LEMMA MoverLines ==
    ASSUME AnchorInv, AnchorInv', NEW H, NEW F, NEW K, NEW G, LineState(H, F),
           Grows(H, F, minted, Dirty, K, G, minted', Dirty'), Histories(K)', CachesFollow,
           NEW m \in Managers, NEW c, NEW d, To(m, c), mem' = [mem EXCEPT ![m] = d],
           c = Idle \/ CallLines(c, K, G, minted', Dirty'),
           d = mem[m] \/ d \in {NoDoc, Unloaded} \/ OfLines(d, K, G, minted', Dirty'),
           durable' # NoDoc => /\ OfLines(durable', K, G, minted', Dirty')
                               /\ durable'.next = minted'[durable'.space],
           HeldLine(held', K, G, minted', Dirty'),
           c # Idle /\ Publishes(c) /\ Own(c) =>
             \/ OwnCall(m) /\ c.doc.space = op[m].doc.space
             \/ c.doc.space > Len(minted),
           \A a \in Managers \ {m} : OwnCall(a) => minted'[op[a].doc.space] = 0
    PROVE  LineState(K, G)'
<1>1. \A a \in Managers : op'[a] = IF a = m THEN c ELSE op[a]
  BY DEF AnchorInv, CallsOK, To
<1>2. \A a \in Managers : mem'[a] = IF a = m THEN d ELSE mem[a]
  BY DEF AnchorInv, MemoryOK
<1>3. G \in [Ids -> Nat]
  BY DEF Grows
<1>4. ASSUME NEW a \in Managers PROVE mem'[a] \in {NoDoc, Unloaded} \/ OfLines(mem'[a], K, G, minted', Dirty')
  <2>1. ASSUME mem'[a] = mem[a], mem[a] \notin {NoDoc, Unloaded} PROVE OfLines(mem'[a], K, G, minted', Dirty')
    <3>1. GoodDoc(mem[a]) /\ OfLines(mem[a], H, F, minted, Dirty)
      BY <2>1, DurableLines
    <3>2. OfLines(mem[a], K, G, minted', Dirty')
      BY <3>1, OfLinesKept, Zenon
    <3> QED BY <2>1, <3>2
  <2>2. CASE a = m
    <3>1. mem'[a] = d
      BY <1>2, <2>2
    <3> QED BY <2>1, <2>2, <3>1
  <2>3. CASE a # m
    <3>1. mem'[a] = mem[a]
      BY <1>2, <2>3
    <3> QED BY <2>1, <3>1
  <2> QED BY <2>2, <2>3
<1>5. ASSUME NEW a \in Managers PROVE op'[a] = Idle \/ CallLines(op'[a], K, G, minted', Dirty')
  <2>1. CASE a = m
    BY <1>1, <2>1
  <2>2. CASE a # m /\ op[a] # Idle
    <3>1. CallLines(op[a], H, F, minted, Dirty) /\ CallFits(op[a], lines)
      BY <2>2, CallFacts DEF LineState
    <3>2. Publishes(op[a]) /\ Own(op[a]) => minted'[op[a].doc.space] = 0
      BY <2>2 DEF OwnCall
    <3>4. op'[a] = op[a]
      BY <1>1, <2>2
    <3>5. CallLines(op[a], K, G, minted', Dirty')
      BY <3>1, <3>2, CallLinesKept, Zenon
    <3> QED BY <3>4, <3>5
  <2>3. CASE a # m /\ op[a] = Idle
    BY <1>1, <2>3
  <2> QED BY <2>1, <2>2, <2>3
<1>6. ASSUME NEW a \in Managers, NEW b \in Managers, a # b, OwnCall(a)', OwnCall(b)'
      PROVE  op'[a].doc.space # op'[b].doc.space
  <2>1. \A e \in Managers \ {m} : OwnCall(e)' => OwnCall(e) /\ op'[e] = op[e]
    BY <1>1 DEF OwnCall
  <2>2. \A e \in Managers : OwnCall(e) => op[e].doc.space \in 1 .. Len(minted)
    BY DEF OwnCall, LineState, CallLines, ToPublish
  <2>3. OwnCall(m)' => \/ OwnCall(m) /\ op'[m].doc.space = op[m].doc.space
                       \/ op'[m].doc.space > Len(minted)
    BY <1>1 DEF OwnCall
  <2>4. CASE a # m /\ b # m
    BY <1>6, <2>1, <2>4 DEF LineState
  <2>5. CASE a = m
    <3>1. OwnCall(b) /\ op'[b] = op[b]
      BY <1>6, <2>1, <2>5
    <3>2. CASE OwnCall(m) /\ op'[m].doc.space = op[m].doc.space
      BY <1>6, <2>5, <3>1, <3>2 DEF LineState
    <3>3. CASE op'[m].doc.space > Len(minted)
      BY <2>2, <2>5, <3>1, <3>3 DEF AnchorInv, ShardOK
    <3> QED BY <1>6, <2>3, <2>5, <3>2, <3>3
  <2>6. CASE b = m
    <3>1. OwnCall(a) /\ op'[a] = op[a]
      BY <1>6, <2>1, <2>6
    <3>2. CASE OwnCall(m) /\ op'[m].doc.space = op[m].doc.space
      BY <1>6, <2>6, <3>1, <3>2 DEF LineState
    <3>3. CASE op'[m].doc.space > Len(minted)
      BY <2>2, <2>6, <3>1, <3>3 DEF AnchorInv, ShardOK
    <3> QED BY <1>6, <2>3, <2>6, <3>2, <3>3
  <2> QED BY <2>4, <2>5, <2>6
<1>7. \A a \in Managers : decoded'[a] \in {NoDoc, Right} \/ OfLines(decoded'[a], K, G, minted', Dirty')
  BY CachedLines
<1> QED BY <1>3, <1>4, <1>5, <1>6, <1>7, Zenon DEF LineState

-----------------------------------------------------------------------------
(* The identities of a step that publishes nothing, and of a file's change.  *)
Known(d, H, F) == d \in {NoDoc, Unloaded} \/ (GoodDoc(d) /\ OfLines(d, H, F, minted, Dirty))

LEMMA KnownVersions ==
    ASSUME AnchorInv, NEW H, NEW F, LineState(H, F), NEW m \in Managers
    PROVE  /\ Known(NoDoc, H, F) /\ Known(Unloaded, H, F) /\ Known(durable, H, F) /\ Known(mem[m], H, F)
           /\ Known(View(m), H, F) /\ Known(Loaded(m), H, F) /\ Known(Adopted(m), H, F) /\ Known(InMemory(m), H, F)
<1>1. Known(durable, H, F) /\ Known(mem[m], H, F) /\ Known(NoDoc, H, F) /\ Known(Unloaded, H, F)
  <2>1. /\ durable # NoDoc => GoodDoc(durable) /\ OfLines(durable, H, F, minted, Dirty)
        /\ mem[m] \notin {NoDoc, Unloaded} => GoodDoc(mem[m]) /\ OfLines(mem[m], H, F, minted, Dirty)
    BY DurableLines, Zenon
  <2>2. Known(durable, H, F) /\ Known(mem[m], H, F)
    BY <2>1 DEF Known
  <2>3. Known(NoDoc, H, F) /\ Known(Unloaded, H, F)
    BY DEF Known
  <2> QED BY <2>2, <2>3
<1>4. Known(View(m), H, F)
  <2>1. decoded[m] \notin {NoDoc, Right} => GoodDoc(decoded[m]) /\ OfLines(decoded[m], H, F, minted, Dirty)
    BY DurableLines, Zenon
  <2> QED BY <1>1, <2>1 DEF View, Known
<1>2. Loaded(m) \in {View(m), mem[m]} /\ InMemory(m) \in {NoDoc, mem[m]}
  BY DEF Loaded, InMemory
<1>3. Adopted(m) \in {View(m), mem[m]}
  BY <1>2 DEF Adopted
<1> QED BY <1>1, <1>2, <1>3, <1>4

LEMMA AdoptedLines ==
    ASSUME AnchorInv, NEW H, NEW F, LineState(H, F), NEW m \in Managers
    PROVE  /\ View(m) # NoDoc => GoodDoc(View(m)) /\ OfLines(View(m), H, F, minted, Dirty)
           /\ Adopted(m) # NoDoc => GoodDoc(Adopted(m)) /\ OfLines(Adopted(m), H, F, minted, Dirty)
<1>1. ASSUME View(m) # NoDoc PROVE GoodDoc(View(m)) /\ OfLines(View(m), H, F, minted, Dirty)
  BY <1>1, DurableLines DEF View
<1>2. ASSUME Adopted(m) # NoDoc, View(m) = NoDoc
      PROVE  GoodDoc(Adopted(m)) /\ OfLines(Adopted(m), H, F, minted, Dirty)
  <2>1. Adopted(m) = mem[m] /\ mem[m] \notin {NoDoc, Unloaded}
    BY <1>2 DEF Adopted, Loaded
  <2> QED BY <2>1, DurableLines
<1> QED BY <1>1, <1>2 DEF Adopted

(* A new namespace, or none.                                                *)
LEMMA NamespacesStay ==
    ASSUME minted \in Seq(Nat), minted' \in {minted, Append(minted, 0)}
    PROVE  /\ minted' \in Seq(Nat) /\ Len(minted) \in Nat /\ Len(minted') \in Nat /\ Len(minted) <= Len(minted')
           /\ \A s \in 1 .. Len(minted) : minted'[s] = minted[s] /\ minted[s] \in Nat
<1>1. Len(minted) \in Nat /\ \A s \in 1 .. Len(minted) : minted[s] \in Nat
  OBVIOUS
<1>2. CASE minted' = minted
  BY <1>1, <1>2
<1>3. CASE minted' = Append(minted, 0)
  <2>1. minted' \in Seq(Nat) /\ Len(minted') = Len(minted) + 1
    BY <1>3
  <2>2. \A s \in 1 .. Len(minted) : minted'[s] = minted[s]
    BY <1>1, <1>3
  <2> QED BY <1>1, <2>1, <2>2
<1> QED BY <1>2, <1>3

LEMMA NamedStays ==
    ASSUME minted \in Seq(Nat), NEW doc, Named(doc)
    PROVE  minted' \in {minted, Append(minted, 0)}
BY DEF Named

LEMMA GrownQuiet ==
    ASSUME AnchorInv, NEW H, NEW F, LineState(H, F), NEW K, H \subseteq K,
           added \subseteq added', removed \subseteq removed', minted' \in {minted, Append(minted, 0)}
    PROVE  /\ Grows(H, F, minted, Dirty, K, F, minted', Dirty')
           /\ \A a \in Managers : OwnCall(a) => minted'[op[a].doc.space] = 0
<1>1. minted \in Seq(Nat) /\ F \in [Ids -> Nat]
  BY DurableLines
<1>2. /\ minted' \in Seq(Nat) /\ Len(minted) \in Nat /\ Len(minted') \in Nat /\ Len(minted) <= Len(minted')
      /\ \A s \in 1 .. Len(minted) : minted'[s] = minted[s] /\ minted[s] \in Nat
  BY <1>1, NamespacesStay
<1>3. \A s \in 1 .. Len(minted) : minted[s] <= minted'[s]
  BY <1>2
<1>4. Dirty \subseteq Dirty'
  BY DEF Dirty
<1>5. Grows(H, F, minted, Dirty, K, F, minted', Dirty')
  BY <1>1, <1>2, <1>3, <1>4 DEF Grows
<1>6. ASSUME NEW a \in Managers, OwnCall(a) PROVE minted'[op[a].doc.space] = 0
  <2>1. op[a].doc.space \in 1 .. Len(minted) /\ minted[op[a].doc.space] = 0
    BY <1>6 DEF OwnCall, LineState, CallLines, ToPublish
  <2> QED BY <1>2, <2>1
<1> QED BY <1>5, <1>6

LEMMA HistoriesStay ==
    ASSUME AnchorInv, NEW H, Histories(H), content' = content, added' = added, removed' = removed,
           lines' \in {lines, lines + 1}
    PROVE  Histories(H)'
<1>1. lines \in Nat /\ lines' \in Nat /\ lines <= lines'
  BY DEF AnchorInv, FileOK
<1>2. \A c \in H : Fine(c, lines')
  BY <1>1, FineLater DEF Histories
<1>3. \A t : Clean(t)' <=> Clean(t)
  BY DEF Clean
<1>4. content' \in H
  BY DEF Histories
<1>5. \A c \in H : \A t \in Texts : /\ t \notin added' => Embeds(t, content', c)
                                    /\ t \notin removed' => Embeds(t, c, content')
  BY DEF Histories
<1>6. \A c, d \in H : \A t \in Texts : Clean(t)' => Embeds(t, c, d) \/ Embeds(t, d, c)
  BY <1>3 DEF Histories
<1> QED BY <1>2, <1>4, <1>5, <1>6, Zenon DEF Histories

(* A step of one manager that changes no file and publishes nothing new.    *)
LEMMA QuietLines ==
    ASSUME AnchorInv, AnchorInv', NEW H, NEW F, LineState(H, F),
           content' = content, added' = added, removed' = removed, lines' \in {lines, lines + 1},
           minted' \in {minted, Append(minted, 0)}, CachesFollow,
           NEW m \in Managers, NEW c, NEW d, To(m, c), mem' = [mem EXCEPT ![m] = d],
           Known(d, H, F),
           durable' # NoDoc => OfLines(durable', H, F, minted, Dirty) /\ durable'.next = minted[durable'.space],
           c = Idle \/ CallLines(c, H, F, minted', Dirty'),
           HeldLine(held', H, F, minted, Dirty),
           c # Idle /\ Publishes(c) /\ Own(c) =>
             \/ OwnCall(m) /\ c.doc.space = op[m].doc.space
             \/ c.doc.space > Len(minted)
    PROVE  LineState(H, F)'
<1>1. /\ Grows(H, F, minted, Dirty, H, F, minted', Dirty')
      /\ \A a \in Managers : OwnCall(a) => minted'[op[a].doc.space] = 0
  BY GrownQuiet
<1>2. Histories(H)'
  BY HistoriesStay DEF LineState
<1>3. \A e : Known(e, H, F) => e \in {NoDoc, Unloaded} \/ OfLines(e, H, F, minted', Dirty')
  BY <1>1, OfLinesKept DEF Known
<1>4. HeldLine(held', H, F, minted', Dirty')
  <2>1. held' \in [id : Ids, text : Texts, line : Nat \ {0}] \cup {NoAnchor}
    BY DEF AnchorInv, ShownOK
  <2> QED BY <1>1, <2>1, HeldLineKept
<1>5. ASSUME durable' # NoDoc
      PROVE  OfLines(durable', H, F, minted', Dirty') /\ durable'.next = minted'[durable'.space]
  <2>1. GoodDoc(durable') /\ OfLines(durable', H, F, minted, Dirty)
    BY <1>5 DEF AnchorInv, ShardOK, Version
  <2>2. OfLines(durable', H, F, minted', Dirty')
    BY <1>1, <2>1, OfLinesKept
  <2>3. durable'.space \in 1 .. Len(minted)
    BY <2>1 DEF OfLines
  <2>4. minted'[durable'.space] = minted[durable'.space]
    BY <2>3, NamespacesStay DEF AnchorInv, ShardOK
  <2> QED BY <1>5, <2>2, <2>4
<1> QED BY <1>1, <1>2, <1>3, <1>4, <1>5, MoverLines

(* A step of one manager that changes the file.                             *)
LEMMA SwapLines ==
    ASSUME AnchorInv, AnchorInv', NEW H, NEW F, LineState(H, F),
           NEW new, Fine(new, lines + 1), Follows(content, new), Swapped(new),
           durable' = durable, minted' = minted, held' = held, CachesFollow,
           NEW m \in Managers, NEW c, NEW d, To(m, c), mem' = [mem EXCEPT ![m] = d],
           Known(d, H, F),
           c = Idle \/ CallLines(c, H \cup {new}, F, minted', Dirty'),
           c # Idle /\ Publishes(c) /\ Own(c) => OwnCall(m) /\ c.doc.space = op[m].doc.space
    PROVE  LineState(H \cup {new}, F)'
<1> DEFINE K == H \cup {new}
<1>0. Histories(H) /\ H \subseteq K /\ added \subseteq added' /\ removed \subseteq removed'
  BY DEF LineState, Swapped
<1>1. /\ Grows(H, F, minted, Dirty, K, F, minted', Dirty')
      /\ \A a \in Managers : OwnCall(a) => minted'[op[a].doc.space] = 0
  BY <1>0, GrownQuiet
<1>2. Histories(K)'
  BY <1>0, HistoriesGo
<1>3. \A e : Known(e, H, F) => e \in {NoDoc, Unloaded} \/ OfLines(e, K, F, minted', Dirty')
  BY <1>1, OfLinesKept DEF Known
<1>4. HeldLine(held', K, F, minted', Dirty')
  <2>1. held \in [id : Ids, text : Texts, line : Nat \ {0}] \cup {NoAnchor} /\ HeldLine(held, H, F, minted, Dirty)
    BY DEF AnchorInv, ShownOK, LineState
  <2> QED BY <1>1, <2>1, HeldLineKept
<1>5. ASSUME durable' # NoDoc
      PROVE  OfLines(durable', K, F, minted', Dirty') /\ durable'.next = minted'[durable'.space]
  <2>1. GoodDoc(durable) /\ OfLines(durable, H, F, minted, Dirty) /\ durable.next = minted[durable.space]
    BY <1>5, DurableLines DEF LineState
  <2>2. OfLines(durable, K, F, minted', Dirty')
    BY <1>1, <2>1, OfLinesKept
  <2> QED BY <2>1, <2>2
<1>7. c = Idle \/ CallLines(c, K, F, minted', Dirty')
  OBVIOUS
<1> HIDE DEF K
<1>6. LineState(K, F)'
  BY <1>1, <1>2, <1>3, <1>4, <1>5, <1>7, MoverLines
<1> QED BY <1>6 DEF K

(* A step of no manager.                                                    *)
LEMMA StillLines ==
    ASSUME AnchorInv, NEW H, NEW F, LineState(H, F), NEW K, H \subseteq K, Histories(K)',
           added \subseteq added', removed \subseteq removed',
           minted' = minted, held' = held, op' = op, mem' = mem, durable' \in {durable, NoDoc}, CachesFollow
    PROVE  LineState(K, F)'
<1>1. Grows(H, F, minted, Dirty, K, F, minted', Dirty') /\ F \in [Ids -> Nat]
  BY GrownQuiet DEF LineState
<1>2. HeldLine(held', K, F, minted', Dirty')
  <2>1. held \in [id : Ids, text : Texts, line : Nat \ {0}] \cup {NoAnchor} /\ HeldLine(held, H, F, minted, Dirty)
    BY DEF AnchorInv, ShownOK, LineState
  <2> QED BY <1>1, <2>1, HeldLineKept
<1>3. ASSUME durable' # NoDoc
      PROVE  OfLines(durable', K, F, minted', Dirty') /\ durable'.next = minted'[durable'.space]
  <2>1. GoodDoc(durable) /\ OfLines(durable, H, F, minted, Dirty) /\ durable.next = minted[durable.space]
    BY <1>3, DurableLines DEF LineState
  <2>2. OfLines(durable, K, F, minted', Dirty')
    BY <1>1, <2>1, OfLinesKept
  <2> QED BY <1>3, <2>1, <2>2
<1>4. ASSUME NEW a \in Managers PROVE mem'[a] \in {NoDoc, Unloaded} \/ OfLines(mem'[a], K, F, minted', Dirty')
  <2>1. mem[a] \notin {NoDoc, Unloaded} => GoodDoc(mem[a]) /\ OfLines(mem[a], H, F, minted, Dirty)
    BY DurableLines, Zenon
  <2>2. mem[a] \notin {NoDoc, Unloaded} => OfLines(mem[a], K, F, minted', Dirty')
    BY <1>1, <2>1, OfLinesKept
  <2> QED BY <2>2
<1>5. ASSUME NEW a \in Managers PROVE op'[a] = Idle \/ CallLines(op'[a], K, F, minted', Dirty')
  <2> SUFFICES ASSUME op[a] # Idle PROVE CallLines(op[a], K, F, minted', Dirty')
    OBVIOUS
  <2>1. CallLines(op[a], H, F, minted, Dirty) /\ CallFits(op[a], lines)
    BY CallFacts DEF LineState
  <2>2. Publishes(op[a]) /\ Own(op[a]) => minted'[op[a].doc.space] = 0
    BY <2>1 DEF CallLines, ToPublish
  <2> QED BY <1>1, <2>1, <2>2, CallLinesKept, Zenon
<1>6. ASSUME NEW a \in Managers, NEW b \in Managers, a # b, OwnCall(a)', OwnCall(b)'
      PROVE  op'[a].doc.space # op'[b].doc.space
  BY <1>6 DEF OwnCall, LineState
<1>7. \A a \in Managers : decoded'[a] \in {NoDoc, Right} \/ OfLines(decoded'[a], K, F, minted', Dirty')
  BY <1>1, CachedLines
<1> QED BY <1>1, <1>2, <1>3, <1>4, <1>5, <1>6, <1>7, Zenon DEF LineState

-----------------------------------------------------------------------------
(* Every step keeps what is known of the lines.                             *)
LEMMA BeginLines ==
    ASSUME AnchorInv, AnchorInv', NEW H, NEW F, LineState(H, F), CachesFollow, NEW m \in Managers
    PROVE  /\ \A kd \in {"read", "edit"} : Fetch(m, kd) => LineState(H, F)'
           /\ WriteFile(m) => \E K : LineState(K, F)'
           /\ RangeEdit(m) => \E K : LineState(K, F)'
<1>0. /\ Fine(content, lines) /\ lines \in Nat /\ content \in H
      /\ HeldLine(held, H, F, minted, Dirty)
      /\ durable # NoDoc => OfLines(durable, H, F, minted, Dirty) /\ durable.next = minted[durable.space]
      /\ mem = [mem EXCEPT ![m] = mem[m]]
  BY DEF AnchorInv, FileOK, LineState, Histories, MemoryOK
<1>1. ASSUME NEW kd \in {"read", "edit"}, Fetch(m, kd) PROVE LineState(H, F)'
  <2>1. /\ content' = content /\ added' = added /\ removed' = removed /\ lines' = lines /\ minted' = minted
        /\ held' = held /\ durable' = durable /\ mem' = mem /\ To(m, Call(kd, content))
    BY <1>1 DEF Fetch, ghost, fileGhost, shardGhost
  <2>2. PICK c : c = Call(kd, content)
    OBVIOUS
  <2>3. CallLines(c, H, F, minted', Dirty') /\ ~ Publishes(c)
    BY <1>0, <2>2 DEF Call, CallLines, Publishes, Pending, Editing
  <2>4. Known(mem[m], H, F) /\ To(m, c)
    BY <2>1, <2>2, KnownVersions
  <2> QED BY <1>0, <2>1, <2>3, <2>4, QuietLines
<1>2. ASSUME WriteFile(m) PROVE \E K : LineState(K, F)'
  <2>1. PICK new \in ChangesOf(content) : Swapped(new) /\ To(m, Call("write", new))
    BY <1>2 DEF WriteFile
  <2>2. Fine(new, lines + 1) /\ Follows(content, new)
    BY <1>0, ChangeFollows
  <2>3. durable' = durable /\ minted' = minted /\ held' = held /\ mem' = mem
    BY <1>2 DEF WriteFile, shardGhost
  <2>4. PICK c : c = Call("write", new)
    OBVIOUS
  <2>5. CallLines(c, H \cup {new}, F, minted', Dirty') /\ ~ Publishes(c)
    BY <2>4 DEF Call, CallLines, Publishes, Pending, Editing
  <2>6. Known(mem[m], H, F) /\ To(m, c)
    BY <2>1, <2>4, KnownVersions
  <2>7. LineState(H \cup {new}, F)'
    BY <1>0, <2>1, <2>2, <2>3, <2>5, <2>6, SwapLines
  <2> QED BY <2>7
<1>3. ASSUME RangeEdit(m) PROVE \E K : LineState(K, F)'
  <2>1. PICK new \in ChangesOf(content) : Swapped(new)
    BY <1>3 DEF RangeEdit
  <2>2. Fine(new, lines + 1) /\ Follows(content, new)
    BY <1>0, ChangeFollows
  <2>3. durable' = durable /\ minted' = minted /\ held' = held /\ mem' = [mem EXCEPT ![m] = NoDoc] /\ To(m, Idle)
    BY <1>3 DEF RangeEdit, shardGhost, EndCall
  <2>4. Known(NoDoc, H, F)
    BY KnownVersions
  <2>7. LineState(H \cup {new}, F)'
    BY <2>1, <2>2, <2>3, <2>4, SwapLines
  <2> QED BY <2>7
<1> QED BY <1>1, <1>2, <1>3

LEMMA OtherLines ==
    ASSUME AnchorInv, AnchorInv', NEW H, NEW F, LineState(H, F), CachesFollow
    PROVE  /\ Evict => LineState(H, F)'
           /\ Outside => \E K : LineState(K, F)'
           /\ \A m \in Managers : OtherPublishes(m) /\ ~ rolledBack' => LineState(H, F)'
           /\ \A m \in Managers : Forget(m) \/ Reset(m) \/ Restart(m) => LineState(H, F)'
<1>0. /\ Fine(content, lines) /\ lines \in Nat /\ Histories(H)
      /\ HeldLine(held, H, F, minted, Dirty)
      /\ durable # NoDoc => OfLines(durable, H, F, minted, Dirty) /\ durable.next = minted[durable.space]
      /\ \A m \in Managers : op = [op EXCEPT ![m] = op[m]]
  BY DEF AnchorInv, FileOK, LineState, CallsOK
<1>1. ASSUME Evict PROVE LineState(H, F)'
  <2>1. /\ content' = content /\ added' = added /\ removed' = removed /\ lines' = lines /\ minted' = minted
        /\ held' = held /\ durable' = NoDoc /\ mem' = mem /\ op' = op
    BY <1>1 DEF Evict, ghost, fileGhost, shardGhost
  <2>2. Histories(H)'
    BY <1>0, <2>1, HistoriesStay
  <2> QED BY <2>1, <2>2, StillLines
<1>2. ASSUME Outside PROVE \E K : LineState(K, F)'
  <2>1. PICK new \in ChangesOf(content) : Swapped(new)
    BY <1>2 DEF Outside
  <2>2. Fine(new, lines + 1) /\ Follows(content, new)
    BY <1>0, ChangeFollows
  <2>3. durable' = durable /\ minted' = minted /\ held' = held /\ mem' = mem /\ op' = op
    BY <1>2 DEF Outside, shardGhost
  <2>4. Histories(H \cup {new})'
    BY <1>0, <2>1, <2>2, HistoriesGo
  <2>5. added \subseteq added' /\ removed \subseteq removed'
    BY <2>1 DEF Swapped
  <2>6. LineState(H \cup {new}, F)'
    BY <2>3, <2>4, <2>5, StillLines
  <2> QED BY <2>6
<1>3. ASSUME NEW m \in Managers,
             (OtherPublishes(m) /\ ~ rolledBack') \/ Forget(m) \/ Reset(m) \/ Restart(m)
      PROVE  LineState(H, F)'
  <2>1. /\ content' = content /\ added' = added /\ removed' = removed /\ lines' = lines /\ minted' = minted
        /\ held' = held
    BY <1>3, Zenon DEF OtherPublishes, Forget, Reset, Restart, ghost, fileGhost, shardGhost
  <2>2. PICK d : mem' = [mem EXCEPT ![m] = d] /\ d \in {Unloaded, NoDoc, View(m)}
    BY <1>3 DEF OtherPublishes, Forget, Reset, Restart
  <2>3. Known(d, H, F)
    BY <2>2, KnownVersions
  <2>4. durable' \in {durable, NoDoc}
    <3>1. OtherPublishes(m) /\ ~ rolledBack' => durable' = durable
      BY DEF OtherPublishes, Written, Misled
    <3> QED BY <1>3, <3>1 DEF Forget, Reset, Restart
  <2>5. PICK c : To(m, c) /\ c \in {Idle, op[m]}
    BY <1>0, <1>3 DEF OtherPublishes, Forget, Reset, Restart, EndCall, To
  <2>6. c = Idle \/ (CallLines(c, H, F, minted, Dirty) /\ c = op[m] /\ op[m] # Idle)
    BY <2>5 DEF LineState
  <2>7. Dirty' = Dirty
    BY <2>1 DEF Dirty
  <2>8. c # Idle /\ Publishes(c) /\ Own(c) => OwnCall(m) /\ c.doc.space = op[m].doc.space
    BY <2>6 DEF OwnCall
  <2> QED BY <1>0, <2>1, <2>2, <2>3, <2>4, <2>5, <2>6, <2>7, <2>8, QuietLines
<1> QED BY <1>1, <1>2, <1>3

(* What is shown with a result leads to the lines it was shown with.        *)
LEMMA ShownLines ==
    ASSUME NEW H, Histories(H), NEW F, NEW w \in Seq(Nat), NEW doc, GoodDoc(doc), OfLines(doc, H, F, w, Dirty),
           NEW c \in H, TextsOf(c) = doc.texts, NEW m, Shown(m, c, doc.ids), HeldLine(held, H, F, w, Dirty)
    PROVE  HeldLine(held', H, F, w, Dirty)
<1> SUFFICES ASSUME held' # held PROVE HeldLine(held', H, F, w, Dirty)
  OBVIOUS
<1>0. c \in Seq(Lines)
  BY DEF Histories, Fine
<1>1. Len(doc.ids) = Len(c) /\ doc.ids \in Seq(Ids)
  BY <1>0, TextsFacts, GoodIdFacts
<1>2. PICK i \in 1 .. Len(c) : held' = [id |-> doc.ids[i], text |-> c[i].text, line |-> c[i].line]
  <2>1. DOMAIN doc.ids = 1 .. Len(c)
    BY <1>1
  <2> QED BY <2>1 DEF Shown, Show
<1>3. /\ doc.ids[i] \in Ids /\ doc.ids[i].n < doc.next /\ doc.ids[i].space = doc.space
      /\ doc.space >= 1 /\ doc.next \in Nat /\ doc.space \in Nat
  BY <1>1, GoodIdFacts
<1>4. doc.space \in 1 .. Len(w) /\ doc.next <= w[doc.space] /\ w[doc.space] \in Nat
  BY DEF OfLines
<1>5. doc.ids[i].n \in Nat
  BY <1>3 DEF Ids
<1>6. doc.ids[i].n < w[doc.space]
  BY <1>3, <1>4, <1>5
<1>7. ASSUME c[i].text \notin Dirty PROVE F[doc.ids[i]] = c[i].line
  <2>1. PICK b \in H : /\ TextsOf(b) = doc.texts
                       /\ \A k \in 1 .. Len(b) : b[k].text \notin Dirty => F[doc.ids[k]] = b[k].line
    BY DEF OfLines
  <2>2. Clean(c[i].text)
    BY <1>7 DEF Clean, Dirty
  <2>3. b[i] = c[i] /\ Len(b) = Len(c)
    BY <2>1, <2>2, SameLines
  <2> QED BY <1>7, <2>1, <2>3
<1>8. PICK h : h = held'
  OBVIOUS
<1>9. h.id = doc.ids[i] /\ h.text = c[i].text /\ h.line = c[i].line
  BY <1>2, <1>8
<1>10. h.id.space \in 1 .. Len(w) /\ h.id.space # 0 /\ h.id.n < w[h.id.space]
  BY <1>3, <1>4, <1>6, <1>9
<1>11. h.text \notin Dirty => F[h.id] = h.line
  BY <1>7, <1>9
<1>12. HeldLine(h, H, F, w, Dirty)
  BY <1>10, <1>11 DEF HeldLine
<1> QED BY <1>8, <1>12

LEMMA ShownSnapshot ==
    ASSUME NEW H, Histories(H), NEW F, NEW w,
           NEW c \in H, NEW m, Shown(m, c, SnapshotIds(TextsOf(c))), HeldLine(held, H, F, w, Dirty)
    PROVE  HeldLine(held', H, F, w, Dirty)
<1> SUFFICES ASSUME held' # held PROVE HeldLine(held', H, F, w, Dirty)
  OBVIOUS
<1>0. c \in Seq(Lines)
  BY DEF Histories, Fine
<1>1. /\ TextsOf(c) \in Seq(Texts) /\ Len(TextsOf(c)) = Len(c) /\ SnapshotIds(TextsOf(c)) \in Seq(Ids)
      /\ Len(SnapshotIds(TextsOf(c))) = Len(c)
      /\ \A i \in 1 .. Len(c) : SnapshotIds(TextsOf(c))[i] = [space |-> 0, n |-> i, of |-> TextsOf(c)]
  BY <1>0, TextsFacts, SnapshotFacts
<1>2. PICK i \in 1 .. Len(c) :
        held' = [id |-> SnapshotIds(TextsOf(c))[i], text |-> c[i].text, line |-> c[i].line]
  <2>1. DOMAIN SnapshotIds(TextsOf(c)) = 1 .. Len(c)
    BY <1>1
  <2> QED BY <2>1 DEF Shown, Show
<1>3. SnapshotIds(TextsOf(c))[i] = [space |-> 0, n |-> i, of |-> TextsOf(c)]
  BY <1>1
<1>8. PICK h : h = held'
  OBVIOUS
<1>9. h.id.space = 0 /\ h.id.n = i /\ h.id.of = TextsOf(c) /\ h.text = c[i].text /\ h.line = c[i].line
  BY <1>2, <1>3, <1>8
<1>12. HeldLine(h, H, F, w, Dirty)
  BY <1>9 DEF HeldLine
<1> QED BY <1>8, <1>12

(* The identities of the next version after a reconciliation are those of the *)
(* lines they were given to.                                                *)
LEMMA StagedLines ==
    ASSUME AnchorInv, NEW H, NEW F, LineState(H, F), NEW m \in Managers, op[m] # Idle,
           op[m].kind \in Reconciling, View(m) # NoDoc,
           NEW A \in Alignments(View(m).texts, TextsOf(op[m].read)),
           NEW c, c = Staging(m, Reconciled(A, View(m), TextsOf(op[m].read)), View(m))
    PROVE  CallLines(c, H, F, minted, Dirty) /\ ~ Own(c)
<1>1. /\ GoodDoc(View(m)) /\ OfLines(View(m), H, F, minted, Dirty) /\ Histories(H)
      /\ op[m].read \in H /\ op[m].read \in Seq(Lines) /\ op[m].kind # "edit"
      /\ TextsOf(op[m].read) \in Seq(Texts) /\ Len(TextsOf(op[m].read)) = Len(op[m].read)
  <2>1. GoodDoc(View(m)) /\ OfLines(View(m), H, F, minted, Dirty)
    BY AdoptedLines
  <2> QED BY <2>1, DurableLines, CallFacts, TextsFacts DEF LineState, CallLines, Fine, Reconciling
<1>2. PICK doc : doc = Reconciled(A, View(m), TextsOf(op[m].read))
  OBVIOUS
<1>3. /\ doc.space = View(m).space /\ doc.next >= View(m).next
      /\ \A j \in 1 .. Len(op[m].read) : doc.ids[j].n < View(m).next
           => \E i \in 1 .. Len(View(m).texts) :
                /\ doc.ids[j] = View(m).ids[i] /\ View(m).texts[i] = TextsOf(op[m].read)[j]
                /\ Unambiguous(TextsOf(op[m].read)[j], View(m).texts, TextsOf(op[m].read))
  BY <1>1, <1>2, ReconciledFacts
<1>4. /\ c.doc = doc /\ c.exp = View(m) /\ c.read = op[m].read /\ c.at = "reconciled"
      /\ c.kind = op[m].kind /\ Target(c) = op[m].read
  BY <1>1, <1>2, CallFacts DEF Staging, Calls, Target
<1>5. ~ Own(c) /\ Base(c) = View(m).next /\ View(m).next \in Nat
  BY <1>1, <1>3, <1>4, GoodIdFacts DEF Own, Base
<1>6. ASSUME NEW j \in 1 .. Len(op[m].read), op[m].read[j].text \notin Dirty, doc.ids[j].n < View(m).next
      PROVE  F[doc.ids[j]] = op[m].read[j].line
  <2>1. PICK i \in 1 .. Len(View(m).texts) :
          /\ doc.ids[j] = View(m).ids[i] /\ View(m).texts[i] = TextsOf(op[m].read)[j]
          /\ Unambiguous(TextsOf(op[m].read)[j], View(m).texts, TextsOf(op[m].read))
    BY <1>3, <1>6
  <2>2. PICK b \in H : /\ TextsOf(b) = View(m).texts
                       /\ \A k \in 1 .. Len(b) : b[k].text \notin Dirty => F[View(m).ids[k]] = b[k].line
    BY <1>1 DEF OfLines
  <2>3. b \in Seq(Lines)
    BY <1>1 DEF Histories, Fine
  <2>4. Len(b) = Len(View(m).texts) /\ b[i].text = View(m).texts[i]
    BY <2>2, <2>3, TextsFacts
  <2>5. TextsOf(op[m].read)[j] = op[m].read[j].text
    BY <1>1, TextsFacts
  <2>6. Clean(op[m].read[j].text)
    BY <1>6 DEF Clean, Dirty
  <2>7. b[i] = op[m].read[j]
    <3>1. PICK d : d = op[m].read
      OBVIOUS
    <3>2. d \in H /\ j \in 1 .. Len(d) /\ i \in 1 .. Len(b) /\ Clean(d[j].text) /\ b[i].text = d[j].text
      BY <1>1, <2>1, <2>4, <2>5, <2>6, <3>1
    <3>3. Unambiguous(d[j].text, TextsOf(b), TextsOf(d))
      BY <2>1, <2>2, <2>5, <3>1
    <3>4. b[i] = d[j]
      BY <1>1, <2>2, <3>2, <3>3, OnceLines
    <3> QED BY <3>1, <3>4
  <2> QED BY <1>6, <2>1, <2>2, <2>4, <2>7
<1>7. ToPublish(c, F, minted, Dirty)
  BY <1>1, <1>3, <1>4, <1>5, <1>6 DEF ToPublish, OfLines
<1>8. CallLines(c, H, F, minted, Dirty)
  BY <1>1, <1>4, <1>7 DEF CallLines
<1> QED BY <1>5, <1>8

LEMMA ReconcileLines ==
    ASSUME AnchorInv, AnchorInv', NEW H, NEW F, LineState(H, F), CachesFollow, NEW m \in Managers
    PROVE  /\ TooLong(m) => LineState(H, F)'
           /\ Unchanged(m) => LineState(H, F)'
           /\ FirstSeen(m) => LineState(H, F)'
           /\ Reconcile(m) => LineState(H, F)'
           /\ CannotPublish(m) => LineState(H, F)'
           /\ Republish(m) /\ ~ rolledBack' => LineState(H, F)'
<1>0. /\ lines \in Nat /\ Histories(H) /\ minted \in Seq(Nat)
      /\ HeldLine(held, H, F, minted, Dirty)
      /\ durable # NoDoc => /\ GoodDoc(durable) /\ OfLines(durable, H, F, minted, Dirty)
                            /\ durable.next = minted[durable.space]
      /\ mem = [mem EXCEPT ![m] = mem[m]]
      /\ op[m] # Idle => CallLines(op[m], H, F, minted, Dirty) /\ op[m].read \in H /\ CallFits(op[m], lines)
  BY DurableLines, CallFacts DEF AnchorInv, FileOK, LineState, MemoryOK, CallLines
<1>1. ASSUME TooLong(m) PROVE LineState(H, F)'
  <2>1. /\ content' = content /\ added' = added /\ removed' = removed /\ lines' = lines /\ minted' = minted
        /\ durable' = durable /\ mem' = mem /\ To(m, Idle) /\ op[m] # Idle
        /\ Shown(m, op[m].read, SnapshotIds(TextsOf(op[m].read)))
    BY <1>1 DEF TooLong, fileGhost, shardGhost, Shown, EndCall, At
  <2>2. HeldLine(held', H, F, minted, Dirty)
    BY <1>0, <2>1, ShownSnapshot
  <2>3. Known(mem[m], H, F)
    BY KnownVersions
  <2> QED BY <1>0, <2>1, <2>2, <2>3, QuietLines
<1>2. ASSUME Unchanged(m) PROVE LineState(H, F)'
  <2>1. /\ content' = content /\ added' = added /\ removed' = removed /\ lines' = lines /\ minted' = minted
        /\ durable' = durable /\ mem' = [mem EXCEPT ![m] = Adopted(m)] /\ op[m] # Idle
        /\ Adopted(m) # NoDoc /\ Adopted(m).texts = TextsOf(op[m].read)
    BY <1>2 DEF Unchanged, fileGhost, shardGhost, At
  <2>2. Known(Adopted(m), H, F)
    BY KnownVersions
  <2>3. CASE View(m) # NoDoc /\ Shown(m, op[m].read, Adopted(m).ids)
    <3>1. GoodDoc(Adopted(m)) /\ OfLines(Adopted(m), H, F, minted, Dirty)
      BY <2>1, AdoptedLines
    <3>2. HeldLine(held', H, F, minted, Dirty)
      BY <1>0, <2>1, <2>3, <3>1, ShownLines
    <3>3. To(m, Idle)
      BY <2>3 DEF Shown, EndCall
    <3> QED BY <1>0, <2>1, <2>2, <3>2, <3>3, QuietLines
  <2>4. CASE /\ View(m) = NoDoc /\ held' = held
             /\ To(m, [op[m] EXCEPT !.at = "republishing", !.doc = Adopted(m)])
    <3>2. OfLines(Adopted(m), H, F, minted, Dirty)
      BY <2>1, AdoptedLines
    <3>3. PICK c : c = [op[m] EXCEPT !.at = "republishing", !.doc = Adopted(m)]
      OBVIOUS
    <3>4. c.at = "republishing" /\ c.doc = Adopted(m) /\ c.read = op[m].read
      BY <1>0, <2>1, <3>3 DEF CallFits, Calls
    <3>5. CallLines(c, H, F, minted, Dirty) /\ ~ Publishes(c)
      BY <1>0, <2>1, <3>2, <3>4 DEF CallLines, Publishes, Pending, Editing
    <3>6. To(m, c) /\ Dirty' = Dirty
      BY <2>1, <2>4, <3>3 DEF Dirty
    <3> QED BY <1>0, <2>1, <2>2, <2>4, <3>5, <3>6, QuietLines
  <2> QED BY <1>2, <2>3, <2>4 DEF Unchanged
<1>3. ASSUME FirstSeen(m) PROVE LineState(H, F)'
  <2>1. PICK doc : /\ doc = First(TextsOf(op[m].read), NewSpace)
                   /\ To(m, Staging(m, doc, NoDoc)) /\ Named(doc)
    BY <1>3 DEF FirstSeen
  <2>2. /\ content' = content /\ added' = added /\ removed' = removed /\ lines' = lines /\ held' = held
        /\ durable' = durable /\ View(m) = NoDoc /\ mem' = [mem EXCEPT ![m] = NoDoc] /\ op[m] # Idle
        /\ op[m].kind \in Reconciling
    BY <1>3 DEF FirstSeen, fileGhost, Adopted, At
  <2>3. /\ op[m].read \in Seq(Lines) /\ TextsOf(op[m].read) \in Seq(Texts)
        /\ Len(TextsOf(op[m].read)) = Len(op[m].read) /\ Fits(op[m].read)
    BY <2>2, CallFacts, TextsFacts DEF Fine
  <2>4. NewSpace = Len(minted) + 1 /\ NewSpace \in Nat /\ Len(minted) \in Nat
    BY <1>0 DEF NewSpace
  <2>5. doc \in Docs /\ GoodIds(doc) /\ doc.space = NewSpace /\ doc.next \in Nat /\ doc.texts = TextsOf(op[m].read)
    BY <2>1, <2>3, <2>4, FirstFacts
  <2>6. minted' = Append(minted, 0) /\ Len(minted') = Len(minted) + 1 /\ minted'[NewSpace] = 0
    BY <1>0, <2>1, <2>4, <2>5 DEF Named
  <2>7. PICK c : c = Staging(m, doc, NoDoc)
    OBVIOUS
  <2>8. /\ c.at = "reconciled" /\ c.doc = doc /\ c.exp = NoDoc /\ c.read = op[m].read /\ c.kind = op[m].kind
        /\ Own(c) /\ Base(c) = 0 /\ Target(c) = op[m].read
    BY <1>0, <2>2, <2>7 DEF CallFits, Calls, Staging, Own, Base, Target, Reconciling
  <2>9. \A j \in 1 .. Len(op[m].read) : ~ (doc.ids[j].n < 0)
    <3>1. \A j \in 1 .. Len(op[m].read) : doc.ids[j] \in Ids
      BY <2>3, <2>5 DEF GoodIds, Docs
    <3>2. \A j \in 1 .. Len(op[m].read) : doc.ids[j].n \in Nat
      BY <3>1 DEF Ids
    <3> QED BY <3>2
  <2>10. ToPublish(c, F, minted', Dirty')
    BY <2>4, <2>5, <2>6, <2>8, <2>9 DEF ToPublish
  <2>11. CallLines(c, H, F, minted', Dirty') /\ c.doc.space > Len(minted)
    BY <1>0, <2>2, <2>4, <2>5, <2>8, <2>10 DEF CallLines
  <2>12. Known(NoDoc, H, F) /\ To(m, c)
    BY <2>1, <2>7, KnownVersions
  <2> QED BY <1>0, <2>2, <2>6, <2>11, <2>12, QuietLines
<1>4. ASSUME Reconcile(m) PROVE LineState(H, F)'
  <2>1. /\ content' = content /\ added' = added /\ removed' = removed /\ lines' = lines /\ minted' = minted
        /\ durable' = durable /\ mem' = [mem EXCEPT ![m] = Adopted(m)] /\ op[m] # Idle /\ held' = held
        /\ op[m].kind \in Reconciling /\ Adopted(m) # NoDoc /\ Dirty' = Dirty
    BY <1>4 DEF Reconcile, ghost, fileGhost, shardGhost, At, Dirty
  <2>2. PICK A \in Alignments(Adopted(m).texts, TextsOf(op[m].read)) :
          To(m, Staging(m, Reconciled(A, Adopted(m), TextsOf(op[m].read)), Adopted(m)))
    BY <1>4 DEF Reconcile
  <2>3. PICK c : c = Staging(m, Reconciled(A, Adopted(m), TextsOf(op[m].read)), Adopted(m))
    OBVIOUS
  <2>4. Known(Adopted(m), H, F) /\ To(m, c)
    BY <2>2, <2>3, KnownVersions
  <2>5. CASE View(m) # NoDoc
    <3>1. Adopted(m) = View(m)
      BY <2>5 DEF Adopted
    <3>2. CallLines(c, H, F, minted, Dirty) /\ ~ Own(c)
      BY <2>1, <2>2, <2>3, <2>5, <3>1, StagedLines
    <3> QED BY <1>0, <2>1, <2>4, <3>2, QuietLines
  <2>6. CASE View(m) = NoDoc
    <3>1. c.at = "reconciled" /\ c.read = op[m].read /\ c.exp = NoDoc /\ c.mexp # NoDoc /\ c.kind # "edit"
      BY <1>0, <2>1, <2>3, <2>6 DEF CallFits, Calls, Staging, Reconciling
    <3>2. CallLines(c, H, F, minted, Dirty) /\ ~ Publishes(c)
      BY <1>0, <2>1, <3>1 DEF CallLines, Publishes
    <3> QED BY <1>0, <2>1, <2>4, <3>2, QuietLines
  <2> QED BY <2>5, <2>6
<1>5. ASSUME CannotPublish(m) PROVE LineState(H, F)'
  <2>1. /\ content' = content /\ added' = added /\ removed' = removed /\ lines' = lines /\ minted' = minted
        /\ durable' = durable /\ mem' = mem /\ To(m, Idle) /\ held' = held
    BY <1>5 DEF CannotPublish, RefuseCall, ghost, fileGhost, shardGhost, EndCall
  <2>2. Known(mem[m], H, F)
    BY KnownVersions
  <2> QED BY <1>0, <2>1, <2>2, QuietLines
<1>6. ASSUME Republish(m), ~ rolledBack' PROVE LineState(H, F)'
  <2>1. /\ content' = content /\ added' = added /\ removed' = removed /\ lines' = lines /\ minted' = minted
        /\ op[m] # Idle /\ op[m].at = "republishing"
    BY <1>6 DEF Republish, fileGhost, At
  <2>2. /\ GoodDoc(op[m].doc) /\ OfLines(op[m].doc, H, F, minted, Dirty)
        /\ TextsOf(op[m].read) = op[m].doc.texts
    BY <1>0, <2>1 DEF CallLines, CallFits
  <2>3. CASE View(m) = NoDoc
    <3>1. /\ durable' = op[m].doc /\ mem' = [mem EXCEPT ![m] = op[m].doc]
          /\ Shown(m, op[m].read, op[m].doc.ids)
          /\ ~ (op[m].doc.next < minted[op[m].doc.space])
      BY <1>6, <2>3 DEF Republish, Resurrects
    <3>2. op[m].doc.next = minted[op[m].doc.space]
      <4>1. /\ op[m].doc.space \in 1 .. Len(minted) /\ op[m].doc.next <= minted[op[m].doc.space]
            /\ op[m].doc.next \in Nat
        BY <2>2, GoodIdFacts DEF OfLines
      <4>2. minted[op[m].doc.space] \in Nat
        BY <1>0, <4>1
      <4> QED BY <3>1, <4>1, <4>2
    <3>3. HeldLine(held', H, F, minted, Dirty)
      BY <1>0, <2>1, <2>2, <3>1, ShownLines
    <3>4. Known(op[m].doc, H, F) /\ To(m, Idle)
      BY <2>2, <3>1 DEF Known, Shown, EndCall
    <3> QED BY <1>0, <2>1, <2>2, <3>1, <3>2, <3>3, <3>4, QuietLines
  <2>4. CASE View(m) # NoDoc
    <3>1. /\ durable' = durable /\ mem' = [mem EXCEPT ![m] = View(m)]
          /\ Shown(m, op[m].read, op[m].doc.ids) \/ (EndCall(m) /\ held' = held)
      BY <1>6, <2>4, Zenon DEF Republish
    <3>2. HeldLine(held', H, F, minted, Dirty)
      BY <1>0, <2>1, <2>2, <3>1, ShownLines
    <3>3. Known(View(m), H, F) /\ To(m, Idle)
      BY <3>1, KnownVersions DEF Shown, EndCall
    <3> QED BY <1>0, <2>1, <3>1, <3>2, <3>3, QuietLines
  <2> QED BY <2>3, <2>4
<1> QED BY <1>1, <1>2, <1>3, <1>4, <1>5, <1>6

-----------------------------------------------------------------------------
(* A version is published: its new identities are given to the lines it names. *)
Extends(G, F, doc, c, base) ==
    /\ G \in [Ids -> Nat]
    /\ \A id \in Ids : id.space # doc.space \/ id.n < base => G[id] = F[id]
    /\ \A j \in 1 .. Len(c) : ~ (doc.ids[j].n < base) => G[doc.ids[j]] = c[j].line

LEMMA Extension ==
    ASSUME NEW F \in [Ids -> Nat], NEW doc, GoodDoc(doc), NEW c \in Seq(Lines), Len(c) = Len(doc.ids), NEW base
    PROVE  \E G : Extends(G, F, doc, c, base)
<1> DEFINE New(id) == ~ (id.n < base) /\ id.space = doc.space /\ \E j \in 1 .. Len(c) : doc.ids[j] = id
           place(id) == CHOOSE j \in 1 .. Len(c) : doc.ids[j] = id
           G == [id \in Ids |-> IF New(id) THEN c[place(id)].line ELSE F[id]]
<1>1. \A id \in Ids : New(id) => place(id) \in 1 .. Len(c) /\ doc.ids[place(id)] = id
  OBVIOUS
<1>2. \A j \in 1 .. Len(c) : c[j].line \in Nat
  <2>1. \A j \in 1 .. Len(c) : c[j] \in Lines
    OBVIOUS
  <2> QED BY <2>1 DEF Lines
<1>3. /\ Len(doc.ids) = Len(doc.texts)
      /\ \A j \in 1 .. Len(c) : doc.ids[j] \in Ids /\ doc.ids[j].space = doc.space
      /\ \A i, j \in 1 .. Len(c) : doc.ids[i] = doc.ids[j] => i = j
  BY GoodIdFacts DEF GoodDoc, GoodIds
<1>4. \A id \in Ids : id.space # doc.space \/ id.n < base => ~ New(id)
  OBVIOUS
<1>5. \A j \in 1 .. Len(c) : ~ (doc.ids[j].n < base) => New(doc.ids[j])
  BY <1>3
<1> HIDE DEF New, place
<1>6. G \in [Ids -> Nat]
  BY <1>1, <1>2
<1>7. \A id \in Ids : id.space # doc.space \/ id.n < base => G[id] = F[id]
  BY <1>4
<1>8. ASSUME NEW j \in 1 .. Len(c), ~ (doc.ids[j].n < base) PROVE G[doc.ids[j]] = c[j].line
  <2>1. New(doc.ids[j]) /\ doc.ids[j] \in Ids
    BY <1>3, <1>5, <1>8
  <2>2. place(doc.ids[j]) = j
    BY <1>1, <1>3, <2>1
  <2> QED BY <2>1, <2>2
<1> HIDE DEF G
<1> QED BY <1>6, <1>7, <1>8 DEF Extends

LEMMA PublishLines ==
    ASSUME AnchorInv, AnchorInv', NEW H, NEW F, LineState(H, F),
           content' = content, added' = added, removed' = removed, lines' = lines, CachesFollow,
           NEW m \in Managers, NEW c, c = op[m], c # Idle, Publishes(c), durable = c.exp, Target(c) \in H,
           durable' = c.doc, mem' = [mem EXCEPT ![m] = c.doc],
           minted' = [minted EXCEPT ![c.doc.space] = c.doc.next],
           Shown(m, Target(c), c.doc.ids)
    PROVE  \E G : LineState(H, G)'
<1>0. PICK T : T = Target(c)
  OBVIOUS
<1>1. /\ GoodDoc(c.doc) /\ c.doc.texts = TextsOf(T) /\ T \in Seq(Lines)
      /\ Len(c.doc.ids) = Len(T) /\ Base(c) \in Nat
  BY <1>0, CallFacts, PublishesFacts
<1>2. /\ c.doc.space \in Nat /\ c.doc.next \in Nat
      /\ \A j \in 1 .. Len(T) : c.doc.ids[j] \in Ids /\ c.doc.ids[j].n \in Nat
  <2>1. \A j \in 1 .. Len(T) : c.doc.ids[j] \in Ids
    BY <1>1, GoodIdFacts
  <2> QED BY <1>1, <2>1, GoodIdFacts DEF Ids
<1>3. F \in [Ids -> Nat] /\ minted \in Seq(Nat) /\ Histories(H) /\ Dirty' = Dirty
  BY DurableLines DEF Dirty
<1>4. ToPublish(c, F, minted, Dirty)
  BY DEF LineState, CallLines
<1>5. c.doc.space \in 1 .. Len(minted) /\ Base(c) = minted[c.doc.space] /\ Base(c) <= c.doc.next
  <2>1. CASE Own(c)
    BY <1>4, <2>1 DEF ToPublish, Base
  <2>2. CASE ~ Own(c)
    <3>1. c.exp # NoDoc /\ c.doc.space = durable.space /\ durable # NoDoc
      BY <2>2 DEF Own
    <3>2. durable.next = minted[durable.space]
      BY <3>1 DEF LineState
    <3> QED BY <1>4, <2>2, <3>1, <3>2 DEF ToPublish, Base
  <2> QED BY <2>1, <2>2
<1>6. PICK G : Extends(G, F, c.doc, T, Base(c))
  <2>1. T \in Seq(Lines) /\ Len(T) = Len(c.doc.ids) /\ GoodDoc(c.doc) /\ F \in [Ids -> Nat]
    BY <1>1, <1>3
  <2> QED BY <2>1, Extension
<1>15. /\ G \in [Ids -> Nat]
       /\ \A id \in Ids : id.space # c.doc.space \/ id.n < Base(c) => G[id] = F[id]
       /\ \A j \in 1 .. Len(T) : ~ (c.doc.ids[j].n < Base(c)) => G[c.doc.ids[j]] = T[j].line
  BY <1>6 DEF Extends
<1>7. /\ minted' \in Seq(Nat) /\ Len(minted') = Len(minted) /\ Len(minted) \in Nat
      /\ \A i \in 1 .. Len(minted) : /\ minted'[i] = IF i = c.doc.space THEN c.doc.next ELSE minted[i]
                                     /\ minted[i] \in Nat
  BY <1>2, <1>3, CounterSet
<1>8. Grows(H, F, minted, Dirty, H, G, minted', Dirty')
  <2>1. \A i \in 1 .. Len(minted) : minted[i] <= minted'[i]
    BY <1>5, <1>7
  <2>2. \A id \in Ids : id.space \in 1 .. Len(minted) /\ id.n < minted[id.space] => G[id] = F[id]
    BY <1>5, <1>15
  <2> QED BY <1>3, <1>7, <1>15, <2>1, <2>2 DEF Grows
<1>9. OfLines(c.doc, H, G, minted', Dirty') /\ c.doc.next = minted'[c.doc.space]
  <2>1. ASSUME NEW j \in 1 .. Len(T), T[j].text \notin Dirty PROVE G[c.doc.ids[j]] = T[j].line
    <3>1. CASE c.doc.ids[j].n < Base(c)
      <4>1. F[c.doc.ids[j]] = T[j].line
        BY <1>0, <1>4, <2>1, <3>1 DEF ToPublish
      <4> QED BY <1>2, <1>15, <3>1, <4>1
    <3>2. CASE ~ (c.doc.ids[j].n < Base(c))
      BY <1>15, <3>2
    <3> QED BY <3>1, <3>2
  <2>2. c.doc.space \in 1 .. Len(minted') /\ c.doc.next = minted'[c.doc.space] /\ c.doc.next <= minted'[c.doc.space]
    BY <1>2, <1>5, <1>7
  <2> QED BY <1>0, <1>1, <1>3, <2>1, <2>2 DEF OfLines
<1>10. ASSUME NEW a \in Managers \ {m}, OwnCall(a) PROVE minted'[op[a].doc.space] = 0
  <2>1. op[a].doc.space \in 1 .. Len(minted) /\ minted[op[a].doc.space] = 0
    BY <1>10 DEF OwnCall, LineState, CallLines, ToPublish
  <2>2. op[a].doc.space # c.doc.space
    <3>1. CASE Own(c)
      BY <1>10, <3>1 DEF OwnCall, LineState
    <3>2. CASE ~ Own(c)
      <4>1. c.exp = durable /\ durable # NoDoc /\ GoodDoc(durable) /\ Base(c) = durable.next
        BY <3>2, DurableLines DEF Own, Base
      <4>2. Base(c) >= 1
        BY <4>1, GoodIdFacts
      <4> QED BY <1>5, <2>1, <4>2
    <3> QED BY <3>1, <3>2
  <2> QED BY <1>7, <2>1, <2>2
<1>11. HeldLine(held', H, G, minted', Dirty')
  <2>1. held \in [id : Ids, text : Texts, line : Nat \ {0}] \cup {NoAnchor} /\ HeldLine(held, H, F, minted, Dirty)
    BY DEF AnchorInv, ShownOK, LineState
  <2>2. HeldLine(held, H, G, minted', Dirty)
    <3>1. HeldLine(held, H, G, minted', Dirty')
      BY <1>8, <2>1, HeldLineKept
    <3> QED BY <1>3, <3>1
  <2>3. HeldLine(held', H, G, minted', Dirty)
    BY <1>0, <1>1, <1>3, <1>7, <1>9, <2>2, ShownLines
  <2> QED BY <1>3, <2>3
<1>12. Histories(H)'
  BY <1>3, HistoriesStay
<1>13. To(m, Idle)
  BY DEF Shown, EndCall
<1>14. LineState(H, G)'
  BY <1>8, <1>9, <1>10, <1>11, <1>12, <1>13, MoverLines
<1> QED BY <1>14

-----------------------------------------------------------------------------
(* The identities of the next version after an edit: those of a namespace of *)
(* its own, or those of the lines the edit keeps.                           *)
LEMMA FreshLines ==
    ASSUME NEW c, NEW F, NEW D, NEW w \in Seq(Nat), GoodDoc(c.doc), c.doc.space = Len(w), w[Len(w)] = 0,
           Len(w) \in Nat \ {0}, Own(c), Len(c.doc.texts) = Len(Target(c))
    PROVE  ToPublish(c, F, w, D)
<1>1. /\ c.doc.next \in Nat /\ Len(c.doc.ids) = Len(Target(c)) /\ Base(c) = 0
      /\ \A j \in 1 .. Len(Target(c)) : c.doc.ids[j] \in Ids
  BY GoodIdFacts DEF Base
<1>2. \A j \in 1 .. Len(Target(c)) : ~ (c.doc.ids[j].n < 0)
  <2>1. \A j \in 1 .. Len(Target(c)) : c.doc.ids[j].n \in Nat
    BY <1>1 DEF Ids
  <2> QED BY <2>1
<1>3. c.doc.space \in 1 .. Len(w) /\ w[c.doc.space] = 0
  OBVIOUS
<1> QED BY <1>1, <1>2, <1>3 DEF ToPublish

LEMMA EditedLines ==
    ASSUME AnchorInv, NEW H, NEW F, LineState(H, F), NEW m \in Managers, View(m) # NoDoc,
           NEW old \in H, NEW new, Follows(old, new), TextsOf(old) = View(m).texts,
           NEW c, c.kind = "edit", c.new = new, c.exp = View(m),
           c.doc.space = View(m).space, c.doc.next >= View(m).next,
           \A j \in 1 .. Len(new) : c.doc.ids[j].n < View(m).next
             => \E i \in 1 .. Len(old) : old[i].line = new[j].line /\ c.doc.ids[j] = View(m).ids[i]
    PROVE  ToPublish(c, F, minted, Dirty) /\ ~ Own(c)
<1>1. /\ GoodDoc(View(m)) /\ OfLines(View(m), H, F, minted, Dirty) /\ Histories(H)
      /\ View(m).next \in Nat
  BY DurableLines, AdoptedLines, GoodIdFacts
<1>2. ~ Own(c) /\ Base(c) = View(m).next /\ Target(c) = new
  BY DEF Own, Base, Target
<1>3. ASSUME NEW j \in 1 .. Len(new), new[j].text \notin Dirty, c.doc.ids[j].n < View(m).next
      PROVE  F[c.doc.ids[j]] = new[j].line
  <2>1. PICK i \in 1 .. Len(old) : old[i].line = new[j].line /\ c.doc.ids[j] = View(m).ids[i]
    BY <1>3
  <2>2. old[i] = new[j]
    BY <2>1 DEF Follows
  <2>3. PICK b \in H : /\ TextsOf(b) = View(m).texts
                       /\ \A k \in 1 .. Len(b) : b[k].text \notin Dirty => F[View(m).ids[k]] = b[k].line
    BY <1>1 DEF OfLines
  <2>4. Clean(old[i].text)
    BY <1>3, <2>2 DEF Clean, Dirty
  <2>5. b[i] = old[i] /\ Len(b) = Len(old)
    BY <1>1, <2>3, <2>4, SameLines
  <2> QED BY <1>3, <2>1, <2>2, <2>3, <2>5
<1> QED BY <1>1, <1>2, <1>3 DEF ToPublish, OfLines

LEMMA ObserveLines ==
    ASSUME AnchorInv, AnchorInv', NEW H, NEW F, LineState(H, F), CachesFollow, NEW m \in Managers, Observe(m)
    PROVE  LineState(H, F)'
<1>0. /\ At(m, {"edit"}, "fetched") /\ ~ StaleToEdit(m) /\ op[m] # Idle /\ op[m].kind = "edit"
      /\ lines \in Nat /\ Fine(op[m].read, lines) /\ minted \in Seq(Nat) /\ Histories(H)
      /\ op[m].read \in H /\ op[m] \in Calls /\ Len(op[m].read) \in Nat /\ MaxTracked \in Nat
      /\ TextsOf(op[m].read) \in Seq(Texts) /\ Len(TextsOf(op[m].read)) = Len(op[m].read)
  <2>1. At(m, {"edit"}, "fetched") /\ ~ StaleToEdit(m) /\ op[m] # Idle /\ op[m].kind = "edit"
    BY DEF Observe, At
  <2>2. Fine(op[m].read, lines) /\ op[m] \in Calls /\ op[m].read \in Seq(Lines)
    BY <2>1, CallFacts DEF Fine
  <2>3. lines \in Nat /\ minted \in Seq(Nat) /\ Histories(H) /\ op[m].read \in H
    BY <2>1, DurableLines DEF AnchorInv, FileOK, LineState, CallLines
  <2> QED BY <2>1, <2>2, <2>3, TextsFacts, BoundsAssumption
<1>1. PICK new :
        /\ Fits(new) /\ \E i \in DOMAIN op[m].read : new \in EditsAt(op[m].read, i)
        /\ To(m, [op[m] EXCEPT !.at = "staged", !.exp = View(m), !.mexp = Remembered(m),
                               !.doc = Transition(Observed(m), op[m].read, new), !.new = new])
        /\ Named(Transition(Observed(m), op[m].read, new))
  BY DEF Observe
<1>2. Fine(new, lines + 1) /\ Follows(op[m].read, new)
  <2>1. PICK i \in DOMAIN op[m].read : new \in EditsAt(op[m].read, i)
    BY <1>1
  <2> QED BY <1>0, <2>1, ChangeFollows
<1>3. PICK doc : doc = Transition(Observed(m), op[m].read, new)
  OBVIOUS
<1>4. PICK c : c = [op[m] EXCEPT !.at = "staged", !.exp = View(m), !.mexp = Remembered(m),
                                 !.doc = doc, !.new = new]
  OBVIOUS
<1>5. /\ c.at = "staged" /\ c.exp = View(m) /\ c.doc = doc /\ c.new = new /\ c.kind = "edit"
      /\ c.read = op[m].read /\ Target(c) = new
  BY <1>0, <1>4 DEF Calls, Target
<1>6. To(m, c) /\ Named(doc) /\ minted' \in {minted, Append(minted, 0)}
  BY <1>0, <1>1, <1>3, <1>4, NamedStays
<1>7. /\ content' = content /\ added' = added /\ removed' = removed /\ lines' = lines + 1 /\ held' = held
      /\ durable' = durable /\ mem' = [mem EXCEPT ![m] = IF View(m) = NoDoc THEN mem[m] ELSE Loaded(m)]
      /\ Dirty' = Dirty
  BY DEF Observe, Dirty
<1>8. PICK d : d = (IF View(m) = NoDoc THEN mem[m] ELSE Loaded(m))
  OBVIOUS
<1>9. Known(d, H, F) /\ mem' = [mem EXCEPT ![m] = d]
  BY <1>7, <1>8, KnownVersions
<1>10. /\ Observation(Observed(m), op[m].read)
       /\ Len(op[m].read) > MaxTracked => Observed(m).space = 0
       /\ Len(op[m].read) <= MaxTracked => GoodDoc(Observed(m))
       /\ Len(op[m].read) <= MaxTracked =>
            Observed(m) = IF View(m) # NoDoc THEN View(m) ELSE First(TextsOf(op[m].read), NewSpace)
  BY <1>0, ObservedFacts
<1>11. NewSpace = Len(minted) + 1 /\ NewSpace \in Nat /\ Len(minted) \in Nat
  BY <1>0 DEF NewSpace
<1>12. ASSUME Publishes(c)
       PROVE  /\ ToPublish(c, F, minted', Dirty')
              /\ Own(c) => c.doc.space > Len(minted)
  <2>1. Len(new) <= MaxTracked /\ lines + 1 \in Nat /\ Fits(new)
    BY <1>0, <1>1, <1>5, <1>12 DEF Publishes
  <2>2. /\ GoodDoc(doc) /\ doc.texts = TextsOf(new)
        /\ doc.space = (IF Observed(m).space = 0 THEN NewSpace ELSE Observed(m).space)
        /\ doc.next >= Observed(m).next
        /\ \A j \in 1 .. Len(new) : doc.ids[j].n < Observed(m).next
             => \E k \in 1 .. Len(op[m].read) : /\ op[m].read[k].line = new[j].line
                                                /\ doc.ids[j] = Observed(m).ids[k]
    <3>1. PICK ob, old, l : ob = Observed(m) /\ old = op[m].read /\ l = lines + 1
      OBVIOUS
    <3>2. Fine(old, lines) /\ Fine(new, l) /\ Observation(ob, old) /\ lines \in Nat /\ l \in Nat
      BY <1>0, <1>2, <1>10, <2>1, <3>1
    <3>3. Transition(ob, old, new) = doc
      BY <1>3, <3>1
    <3>4. /\ GoodDoc(doc) /\ doc.texts = TextsOf(new)
          /\ doc.space = (IF ob.space = 0 THEN NewSpace ELSE ob.space)
          /\ doc.next >= ob.next
          /\ \A j \in 1 .. Len(new) : doc.ids[j].n < ob.next
               => \E k \in 1 .. Len(old) : old[k].line = new[j].line /\ doc.ids[j] = ob.ids[k]
      <4>1. minted \in Seq(Nat) /\ Fits(new) /\ Len(new) <= MaxTracked
        BY <1>0, <2>1
      <4>2. /\ GoodDoc(Transition(ob, old, new)) /\ Transition(ob, old, new).texts = TextsOf(new)
            /\ Transition(ob, old, new).space = (IF ob.space = 0 THEN NewSpace ELSE ob.space)
            /\ Transition(ob, old, new).next >= ob.next
            /\ \A j \in 1 .. Len(new) : Transition(ob, old, new).ids[j].n < ob.next
                 => \E k \in 1 .. Len(old) : /\ old[k].line = new[j].line
                                              /\ Transition(ob, old, new).ids[j] = ob.ids[k]
        BY <3>2, <4>1, TransitionFacts
      <4> QED BY <3>3, <4>2
    <3> QED BY <3>1, <3>4
  <2>3. CASE Len(op[m].read) > MaxTracked \/ View(m) = NoDoc
    <3>1. doc.space = NewSpace
      <4>1. CASE Len(op[m].read) > MaxTracked
        BY <1>10, <2>2, <4>1
      <4>2. CASE Len(op[m].read) <= MaxTracked /\ View(m) = NoDoc
        BY <1>0, <1>10, <1>11, <2>2, <4>2, FirstFacts
      <4> QED BY <1>0, <2>3, <4>1, <4>2
    <3>2. minted' = Append(minted, 0)
      BY <1>6, <1>11, <3>1 DEF Named
    <3>3. minted' \in Seq(Nat) /\ Len(minted') = Len(minted) + 1 /\ minted'[Len(minted')] = 0
      BY <1>0, <3>2
    <3>4. Own(c)
      <4>1. View(m) # NoDoc => View(m).space \in 1 .. Len(minted)
        BY AdoptedLines DEF OfLines
      <4> QED BY <1>5, <1>11, <3>1, <4>1 DEF Own
    <3>5. Len(c.doc.texts) = Len(Target(c))
      BY <1>2, <1>5, <2>2, TextsFacts DEF Fine
    <3>6. GoodDoc(c.doc) /\ c.doc.space = Len(minted') /\ Len(minted') \in Nat \ {0}
      BY <1>5, <1>11, <2>2, <3>1, <3>3
    <3>7. ToPublish(c, F, minted', Dirty')
      BY <3>3, <3>4, <3>5, <3>6, FreshLines
    <3> QED BY <1>5, <1>11, <3>1, <3>7
  <2>4. CASE Len(op[m].read) <= MaxTracked /\ View(m) # NoDoc
    <3>1. Observed(m) = View(m) /\ GoodDoc(View(m)) /\ View(m).space >= 1 /\ View(m).space \in Nat
      BY <1>10, <2>4, GoodIdFacts
    <3>2. doc.space = View(m).space
      BY <2>2, <3>1
    <3>3. View(m).space \in 1 .. Len(minted)
      BY <2>4, AdoptedLines DEF OfLines
    <3>4. minted' = minted
      BY <1>6, <1>11, <3>2, <3>3 DEF Named
    <3>5. TextsOf(op[m].read) = View(m).texts
      BY <1>0, <2>4 DEF StaleToEdit
    <3>6. \A j \in 1 .. Len(new) : c.doc.ids[j].n < View(m).next
            => \E k \in 1 .. Len(op[m].read) : /\ op[m].read[k].line = new[j].line
                                               /\ c.doc.ids[j] = View(m).ids[k]
      BY <1>5, <2>2, <3>1
    <3>7. c.doc.space = View(m).space /\ c.doc.next >= View(m).next
      BY <1>5, <2>2, <3>1, <3>2
    <3>8. ToPublish(c, F, minted, Dirty) /\ ~ Own(c)
      <4>1. PICK old : old = op[m].read
        OBVIOUS
      <4>2. old \in H /\ Follows(old, new) /\ TextsOf(old) = View(m).texts
        BY <1>0, <1>2, <3>5, <4>1
      <4>3. \A j \in 1 .. Len(new) : c.doc.ids[j].n < View(m).next
              => \E k \in 1 .. Len(old) : old[k].line = new[j].line /\ c.doc.ids[j] = View(m).ids[k]
        BY <3>6, <4>1
      <4>4. c.kind = "edit" /\ c.new = new /\ c.exp = View(m)
        BY <1>5
      <4> QED BY <2>4, <3>7, <4>2, <4>3, <4>4, EditedLines
    <3> QED BY <1>7, <3>4, <3>8
  <2> QED BY <1>0, <2>3, <2>4
<1>13. CallLines(c, H, F, minted', Dirty')
  BY <1>0, <1>5, <1>12 DEF CallLines
<1>14. /\ durable # NoDoc => OfLines(durable, H, F, minted, Dirty) /\ durable.next = minted[durable.space]
       /\ HeldLine(held, H, F, minted, Dirty)
  BY DEF LineState
<1> QED BY <1>6, <1>7, <1>9, <1>12, <1>13, <1>14, QuietLines

LEMMA EditLines ==
    ASSUME AnchorInv, AnchorInv', NEW H, NEW F, LineState(H, F), CachesFollow, NEW m \in Managers
    PROVE  /\ RefuseEdit(m) \/ NotFound(m) => LineState(H, F)'
           /\ Validate(m) => LineState(H, F)'
           /\ WriteEdit(m) => \E K : LineState(K, F)'
           /\ CannotCommit(m) => LineState(H, F)'
<1>0. /\ lines \in Nat /\ Histories(H) /\ HeldLine(held, H, F, minted, Dirty)
      /\ durable # NoDoc => OfLines(durable, H, F, minted, Dirty) /\ durable.next = minted[durable.space]
      /\ mem = [mem EXCEPT ![m] = mem[m]]
      /\ op[m] # Idle => /\ CallLines(op[m], H, F, minted, Dirty) /\ op[m].read \in H
                         /\ CallFits(op[m], lines) /\ op[m] \in Calls
      /\ Known(mem[m], H, F) /\ Known(Loaded(m), H, F) /\ Known(NoDoc, H, F)
  BY DurableLines, CallFacts, KnownVersions DEF AnchorInv, FileOK, LineState, MemoryOK, CallLines
<1>1. ASSUME RefuseEdit(m) \/ NotFound(m) PROVE LineState(H, F)'
  <2>1. /\ content' = content /\ added' = added /\ removed' = removed /\ lines' = lines /\ minted' = minted
        /\ durable' = durable /\ To(m, Idle) /\ held' = held
        /\ mem' = [mem EXCEPT ![m] = IF View(m) = NoDoc THEN mem[m] ELSE Loaded(m)]
    BY <1>1 DEF RefuseEdit, NotFound, RefuseCall, ghost, fileGhost, shardGhost, EndCall
  <2>2. PICK d : d = (IF View(m) = NoDoc THEN mem[m] ELSE Loaded(m))
    OBVIOUS
  <2>3. Known(d, H, F) /\ mem' = [mem EXCEPT ![m] = d]
    BY <1>0, <2>1, <2>2
  <2> QED BY <1>0, <2>1, <2>3, QuietLines
<1>2. ASSUME Validate(m) PROVE LineState(H, F)'
  <2>1. /\ content' = content /\ durable' = durable /\ ghost' = ghost
        /\ mem' = [mem EXCEPT ![m] = IF op[m].mexp = NoDoc THEN mem[m] ELSE Loaded(m)]
        /\ op[m] # Idle /\ op[m].at = "staged"
        /\ To(m, Idle) \/ To(m, [op[m] EXCEPT !.at = "valid"])
    BY <1>2 DEF Validate, Recall, RefuseCall, EndCall, At
  <2>2. /\ added' = added /\ removed' = removed /\ lines' = lines /\ minted' = minted /\ held' = held
        /\ Dirty' = Dirty
    BY <2>1 DEF ghost, fileGhost, shardGhost, Dirty
  <2>3. PICK d : d = (IF op[m].mexp = NoDoc THEN mem[m] ELSE Loaded(m))
    OBVIOUS
  <2>4. Known(d, H, F) /\ mem' = [mem EXCEPT ![m] = d]
    BY <1>0, <2>1, <2>3
  <2>5. CASE To(m, Idle)
    BY <1>0, <2>1, <2>2, <2>4, <2>5, QuietLines
  <2>6. CASE To(m, [op[m] EXCEPT !.at = "valid"])
    <3>1. PICK c : c = [op[m] EXCEPT !.at = "valid"]
      OBVIOUS
    <3>2. /\ c.at = "valid" /\ c.doc = op[m].doc /\ c.read = op[m].read /\ c.new = op[m].new /\ c.exp = op[m].exp
          /\ c.mexp = op[m].mexp /\ c.kind = op[m].kind
      BY <1>0, <2>1, <3>1 DEF Calls
    <3>3. /\ Publishes(c) <=> Publishes(op[m])
          /\ Own(c) <=> Own(op[m])
          /\ ToPublish(op[m], F, minted, Dirty) => ToPublish(c, F, minted, Dirty)
      BY <2>1, <3>2 DEF Publishes, Own, ToPublish, Base, Target, Pending, Editing
    <3>4. CallLines(c, H, F, minted, Dirty)
      BY <1>0, <2>1, <3>2, <3>3 DEF CallLines
    <3>5. Publishes(c) /\ Own(c) => OwnCall(m) /\ c.doc.space = op[m].doc.space
      BY <2>1, <3>2, <3>3 DEF OwnCall
    <3>6. To(m, c)
      BY <2>6, <3>1
    <3> QED BY <1>0, <2>1, <2>2, <2>4, <3>4, <3>5, <3>6, QuietLines
  <2> QED BY <2>1, <2>5, <2>6
<1>3. ASSUME WriteEdit(m) PROVE \E K : LineState(K, F)'
  <2>1. /\ durable' = durable /\ mem' = mem /\ held' = held /\ minted' = minted
        /\ op[m] # Idle /\ op[m].at = "valid" /\ op[m].kind = "edit"
    BY <1>3 DEF WriteEdit, shardGhost, At
  <2>2. CASE content # op[m].read
    <3>1. /\ content' = content /\ added' = added /\ removed' = removed /\ lines' = lines /\ To(m, Idle)
      BY <1>3, <2>2 DEF WriteEdit, EndCall, fileGhost
    <3>2. LineState(H, F)'
      BY <1>0, <2>1, <3>1, QuietLines
    <3> QED BY <3>2
  <2>3. CASE content = op[m].read
    <3>1. Swapped(op[m].new) /\ To(m, [op[m] EXCEPT !.at = "written"])
      BY <1>3, <2>3 DEF WriteEdit
    <3>2. PICK new, c : new = op[m].new /\ c = [op[m] EXCEPT !.at = "written"]
      OBVIOUS
    <3>3. Fine(new, lines) /\ Follows(content, new)
      BY <1>0, <2>1, <2>3, <3>2 DEF CallFits, Editing
    <3>4. Fine(new, lines + 1)
      BY <1>0, <3>3, FineLater
    <3>5. Swapped(new) /\ To(m, c)
      BY <3>1, <3>2
    <3>6. /\ c.at = "written" /\ c.doc = op[m].doc /\ c.read = op[m].read /\ c.new = new /\ c.exp = op[m].exp
          /\ c.mexp = op[m].mexp /\ c.kind = op[m].kind
      BY <1>0, <2>1, <3>2 DEF Calls
    <3>7. /\ Publishes(c) <=> Publishes(op[m])
          /\ Own(c) <=> Own(op[m])
          /\ ToPublish(op[m], F, minted, Dirty) => ToPublish(c, F, minted, Dirty)
      BY <2>1, <3>2, <3>6 DEF Publishes, Own, ToPublish, Base, Target, Pending, Editing
    <3>8. CallLines(c, H \cup {new}, F, minted, Dirty)
      BY <1>0, <2>1, <3>6, <3>7 DEF CallLines
    <3>9. Publishes(c) => ToPublish(c, F, minted, Dirty)
      BY <3>8 DEF CallLines
    <3>10. CallLines(c, H \cup {new}, F, minted', Dirty')
      <4>1. \A j : c.new[j].text \notin Dirty' => c.new[j].text \notin Dirty
        BY <3>5 DEF Swapped, Dirty
      <4>2. Publishes(c) => ToPublish(c, F, minted', Dirty')
        BY <2>1, <3>6, <3>9, <4>1 DEF ToPublish, Target
      <4> QED BY <3>6, <3>8, <4>2 DEF CallLines
    <3>11. Publishes(c) /\ Own(c) => OwnCall(m) /\ c.doc.space = op[m].doc.space
      BY <2>1, <3>6, <3>7 DEF OwnCall
    <3>12. LineState(H \cup {new}, F)'
      BY <1>0, <2>1, <3>3, <3>4, <3>5, <3>10, <3>11, SwapLines
    <3> QED BY <3>12
  <2> QED BY <2>2, <2>3
<1>4. ASSUME CannotCommit(m) PROVE LineState(H, F)'
  <2>1. /\ content' = content /\ added' = added /\ removed' = removed /\ lines' = lines /\ minted' = minted
        /\ durable' = durable /\ To(m, Idle) /\ held' = held /\ mem' = [mem EXCEPT ![m] = NoDoc]
    BY <1>4 DEF CannotCommit, RefuseCall, ghost, fileGhost, shardGhost, EndCall
  <2> QED BY <1>0, <2>1, QuietLines
<1> QED BY <1>1, <1>2, <1>3, <1>4

LEMMA PublicationLines ==
    ASSUME AnchorInv, AnchorInv', NEW H, NEW F, LineState(H, F), CachesFollow, NEW m \in Managers
    PROVE  /\ Publish(m) /\ ~ rolledBack' => \E G : LineState(H, G)'
           /\ Commit(m) /\ ~ rolledBack' => \E G : LineState(H, G)'
<1> DEFINE c == op[m]
<1>0. ASSUME c # Idle
      PROVE  /\ CallLines(c, H, F, minted, Dirty) /\ CallFits(c, lines) /\ c.read \in H
             /\ MaxTracked \in Nat /\ Len(c.new) \in Nat
  BY <1>0, CallFacts, BoundsAssumption DEF LineState, CallLines, Calls
<1>1. ASSUME Publish(m), ~ rolledBack' PROVE \E G : LineState(H, G)'
  <2>1. /\ content' = content /\ added' = added /\ removed' = removed /\ lines' = lines
        /\ durable' = c.doc /\ mem' = [mem EXCEPT ![m] = c.doc]
        /\ minted' = [minted EXCEPT ![c.doc.space] = c.doc.next]
        /\ Shown(m, c.read, c.doc.ids) /\ c # Idle /\ c.at = "reconciled" /\ c.kind \in Reconciling
        /\ durable = c.exp /\ ~ (c.exp = NoDoc /\ c.mexp # NoDoc)
    BY <1>1 DEF Publish, CanPublish, Current, Written, Misled, At, fileGhost
  <2>2. c.kind # "edit" /\ Target(c) = c.read /\ Publishes(c)
    BY <2>1 DEF Target, Publishes, Pending, Reconciling
  <2>3. Target(c) \in H /\ Shown(m, Target(c), c.doc.ids)
    BY <1>0, <2>1, <2>2
  <2> QED BY <2>1, <2>2, <2>3, PublishLines
<1>2. ASSUME Commit(m), ~ rolledBack' PROVE \E G : LineState(H, G)'
  <2>1. /\ content' = content /\ added' = added /\ removed' = removed /\ lines' = lines
        /\ mem' = [mem EXCEPT ![m] = durable'] /\ Shown(m, c.new, c.doc.ids)
        /\ c # Idle /\ c.at = "written" /\ c.kind = "edit" /\ durable = c.exp
    BY <1>2 DEF Commit, Current, Written, Misled, At, fileGhost
  <2>2. c.new \in H /\ Target(c) = c.new /\ c.at \in Pending /\ c.at \in Editing
    BY <1>0, <2>1 DEF CallLines, Target, Pending, Editing
  <2>3. CASE Len(c.new) <= MaxTracked
    <3>1. durable' = c.doc /\ minted' = [minted EXCEPT ![c.doc.space] = c.doc.next]
      BY <1>0, <1>2, <2>1, <2>3 DEF Commit
    <3>2. Publishes(c) /\ Target(c) \in H /\ Shown(m, Target(c), c.doc.ids)
      BY <2>1, <2>2, <2>3 DEF Publishes
    <3> QED BY <2>1, <3>1, <3>2, PublishLines
  <2>4. CASE Len(c.new) > MaxTracked
    <3>1. durable' = NoDoc /\ minted' = minted
      BY <1>2, <2>1, <2>4 DEF Commit
    <3>2. c.doc.ids = SnapshotIds(TextsOf(c.new))
      BY <1>0, <2>1, <2>2, <2>4 DEF CallFits
    <3>3. HeldLine(held, H, F, minted, Dirty) /\ Histories(H)
      BY DEF LineState
    <3>4. Shown(m, c.new, SnapshotIds(TextsOf(c.new)))
      BY <2>1, <3>2
    <3>5. HeldLine(held', H, F, minted, Dirty)
      BY <2>2, <3>3, <3>4, ShownSnapshot
    <3>6. To(m, Idle) /\ mem' = [mem EXCEPT ![m] = NoDoc] /\ Known(NoDoc, H, F)
      BY <2>1, <3>1 DEF Shown, EndCall, Known
    <3>7. LineState(H, F)'
      BY <2>1, <3>1, <3>5, <3>6, QuietLines
    <3> QED BY <3>7
  <2> QED BY <1>0, <2>1, <2>3, <2>4
<1> QED BY <1>1, <1>2

-----------------------------------------------------------------------------
(* What is known of the lines holds from the first state on.                *)
LEMMA LinesStep ==
    ASSUME AnchorInv, LinesInv, [AnchorNext]_anchorVars PROVE LinesInv'
<1>0. AnchorInv'
  BY AnchorStepInv
<1> SUFFICES ASSUME ~ rolledBack' PROVE \E H, F : LineState(H, F)'
  BY DEF LinesInv
<1>1. ~ rolledBack
  <2>1. ASSUME NEW m \in Managers,
          \/ Fetch(m, "read") \/ Fetch(m, "edit") \/ WriteFile(m) \/ RangeEdit(m)
          \/ TooLong(m) \/ Unchanged(m) \/ FirstSeen(m) \/ Reconcile(m)
          \/ Publish(m) \/ CannotPublish(m) \/ Republish(m)
          \/ Observe(m) \/ RefuseEdit(m) \/ NotFound(m)
          \/ Validate(m) \/ WriteEdit(m) \/ Commit(m) \/ CannotCommit(m)
          \/ OtherPublishes(m) \/ Forget(m) \/ Reset(m) \/ Restart(m)
        PROVE ~ rolledBack
    <3>1. \/ rolledBack' = rolledBack
          \/ rolledBack' = (rolledBack \/ Misled(m))
          \/ rolledBack' = (rolledBack \/ Misled(m) \/ Resurrects(op[m].doc))
      BY <2>1, Zenon DEF Fetch, WriteFile, RangeEdit, TooLong, Unchanged, FirstSeen, Reconcile, Publish, CannotPublish,
          Republish, Observe, RefuseEdit, NotFound, Validate, WriteEdit, Commit, CannotCommit, RefuseCall, Written,
          OtherPublishes, Forget, Reset, Restart, ghost, shardGhost
    <3> QED BY <3>1
  <2>2. CASE Evict \/ Outside
    BY <2>2 DEF Evict, Outside, ghost, shardGhost
  <2>3. CASE UNCHANGED anchorVars
    BY <2>3 DEF anchorVars, ghost, shardGhost
  <2> QED BY <2>1, <2>2, <2>3 DEF AnchorNext
<1>2. PICK H, F : LineState(H, F)
  BY <1>1 DEF LinesInv
<1>10. CachesFollow
  BY CacheSteps
<1>3. CASE UNCHANGED anchorVars
  <2>1. LineState(H, F)'
    BY <1>2, <1>3 DEF anchorVars, ghost, fileGhost, shardGhost, LineState, Histories, Clean, Dirty, OwnCall
  <2> QED BY <2>1
<1>4. CASE Evict \/ Outside
  BY <1>0, <1>2, <1>10, <1>4, OtherLines
<1>5. ASSUME NEW m \in Managers,
        \/ Fetch(m, "read") \/ Fetch(m, "edit") \/ WriteFile(m) \/ RangeEdit(m)
      PROVE \E K, G : LineState(K, G)'
  BY <1>0, <1>2, <1>10, <1>5, BeginLines
<1>6. ASSUME NEW m \in Managers,
        \/ TooLong(m) \/ Unchanged(m) \/ FirstSeen(m) \/ Reconcile(m)
        \/ CannotPublish(m) \/ Republish(m)
      PROVE \E K, G : LineState(K, G)'
  BY <1>0, <1>2, <1>10, <1>6, ReconcileLines
<1>7. ASSUME NEW m \in Managers, Publish(m) \/ Commit(m)
      PROVE \E K, G : LineState(K, G)'
  BY <1>0, <1>2, <1>10, <1>7, PublicationLines
<1>8. ASSUME NEW m \in Managers,
        \/ Observe(m) \/ RefuseEdit(m) \/ NotFound(m)
        \/ Validate(m) \/ WriteEdit(m) \/ CannotCommit(m)
      PROVE \E K, G : LineState(K, G)'
  BY <1>0, <1>2, <1>10, <1>8, EditLines, ObserveLines
<1>9. ASSUME NEW m \in Managers,
        \/ OtherPublishes(m) \/ Forget(m) \/ Reset(m) \/ Restart(m)
      PROVE \E K, G : LineState(K, G)'
  BY <1>0, <1>2, <1>10, <1>9, OtherLines
<1> QED BY <1>3, <1>4, <1>5, <1>6, <1>7, <1>8, <1>9 DEF AnchorNext

LEMMA LinesInit ==
    ASSUME AnchorInit PROVE LinesInv
<1>0. AnchorInv
  BY AnchorInitInv
<1>1. /\ Fine(content, lines) /\ content \in Seq(Lines) /\ Len(content) \in Nat /\ Fits(content)
      /\ TextsOf(content) \in Seq(Texts) /\ Len(TextsOf(content)) = Len(content)
      /\ DOMAIN content = 1 .. Len(content)
  BY <1>0, TextsFacts DEF AnchorInv, FileOK, Fine
<1>2. Histories({content}) /\ Dirty = {}
  <2>1. \A t : Embeds(t, content, content)
    BY <1>1, EmbedsSelf
  <2> QED BY <1>1, <2>1 DEF Histories, Dirty, AnchorInit
<1>3. PICK F0 \in [Ids -> Nat] : TRUE
  <2>1. [id \in Ids |-> 0] \in [Ids -> Nat]
    OBVIOUS
  <2> QED BY <2>1
<1>4. \A m \in Managers : op[m] = Idle
  BY DEF AnchorInit
<1>5. \A m \in Managers : mem[m] = Unloaded \/ mem[m] = durable
  BY DEF AnchorInit
<1>9. \A m \in Managers : decoded[m] = Right
  BY DEF AnchorInit
<1>6. \A m \in Managers : ~ OwnCall(m)
  BY <1>4 DEF OwnCall
<1>7. CASE durable = NoDoc /\ held = NoAnchor
  <2>1. HeldLine(held, {content}, F0, minted, Dirty)
    BY <1>7 DEF HeldLine
  <2>2. LineState({content}, F0)
    BY <1>2, <1>3, <1>4, <1>5, <1>6, <1>7, <1>9, <2>1 DEF LineState
  <2> QED BY <2>2 DEF LinesInv
<1>8. CASE /\ durable = First(TextsOf(content), 1)
           /\ minted = <<durable.next>>
           /\ \E i \in DOMAIN content :
                held = [id |-> durable.ids[i], text |-> content[i].text, line |-> i]
  <2>0. PICK one \in Nat : one = 1
    OBVIOUS
  <2>1. /\ durable \in Docs /\ GoodIds(durable) /\ durable.texts = TextsOf(content) /\ durable.space = one
        /\ durable.next = Len(TextsOf(content))
    BY <1>1, <1>8, <2>0, FirstFacts
  <2>2. GoodDoc(durable)
    BY <1>1, <2>0, <2>1 DEF GoodDoc, Fits
  <2>3. /\ Len(durable.ids) = Len(content) /\ durable.next \in Nat
        /\ \A j \in 1 .. Len(content) : durable.ids[j] \in Ids /\ durable.ids[j].n \in Nat
                                        /\ durable.ids[j].space = 1 /\ durable.ids[j].n < durable.next
    <3>1. /\ Len(durable.ids) = Len(content) /\ durable.next \in Nat
          /\ \A j \in 1 .. Len(content) : durable.ids[j] \in Ids /\ durable.ids[j].space = durable.space
                                          /\ durable.ids[j].n < durable.next
      BY <1>1, <2>1, <2>2, GoodIdFacts
    <3> QED BY <2>0, <2>1, <3>1 DEF Ids
  <2>4. PICK G : Extends(G, F0, durable, content, 0)
    BY <1>1, <1>3, <2>2, <2>3, Extension
  <2>5. G \in [Ids -> Nat] /\ \A j \in 1 .. Len(content) : G[durable.ids[j]] = content[j].line
    <3>1. \A j \in 1 .. Len(content) : ~ (durable.ids[j].n < 0)
      BY <2>3
    <3> QED BY <2>4, <3>1 DEF Extends
  <2>6. Len(minted) = 1 /\ minted[1] = durable.next /\ minted \in Seq(Nat)
    BY <1>8, <2>3
  <2>7. OfLines(durable, {content}, G, minted, Dirty) /\ durable.next = minted[durable.space]
    BY <2>0, <2>1, <2>3, <2>5, <2>6 DEF OfLines
  <2>8. HeldLine(held, {content}, G, minted, Dirty)
    <3>1. PICK i \in 1 .. Len(content) :
            held = [id |-> durable.ids[i], text |-> content[i].text, line |-> i]
      BY <1>1, <1>8
    <3>2. content[i].line = i
      BY <1>1, <3>1 DEF AnchorInit
    <3>3. held.id = durable.ids[i] /\ held.line = i
      BY <3>1
    <3> QED BY <2>3, <2>5, <2>6, <3>2, <3>3 DEF HeldLine
  <2>9. LineState({content}, G)
    BY <1>2, <1>4, <1>5, <1>6, <1>9, <2>5, <2>7, <2>8 DEF LineState
  <2> QED BY <2>9 DEF LinesInv
<1> QED BY <1>7, <1>8 DEF AnchorInit

LEMMA LinesAreRight ==
    ASSUME AnchorInv, LinesInv PROVE RightLine
<1> SUFFICES ASSUME ~ rolledBack, NEW m \in Managers, At(m, {"edit"}, "fetched"), ~ StaleToEdit(m),
                    NEW i \in DOMAIN op[m].read, Resolves(i, m), held.text \notin (added \cap removed)
             PROVE  op[m].read[i].line = held.line
  BY DEF RightLine
<1>1. PICK H, F : LineState(H, F)
  BY DEF LinesInv
<1>2. PICK read : read = op[m].read
  OBVIOUS
<1>3. /\ op[m] # Idle /\ read \in H /\ Histories(H) /\ read \in Seq(Lines) /\ i \in 1 .. Len(read)
      /\ TextsOf(read) \in Seq(Texts) /\ Len(TextsOf(read)) = Len(read) /\ TextsOf(read)[i] = read[i].text
      /\ Len(read) \in Nat /\ MaxTracked \in Nat
  <2>1. op[m] # Idle
    BY DEF At
  <2>2. read \in H /\ Histories(H) /\ read \in Seq(Lines)
    BY <1>1, <1>2, <2>1, CallFacts DEF LineState, CallLines, Fine
  <2>3. i \in 1 .. Len(read)
    BY <1>2, <2>2
  <2> QED BY <2>1, <2>2, <2>3, TextsFacts, BoundsAssumption
<1>4. /\ held # NoAnchor /\ Observed(m).ids[i] = held.id /\ read[i].text = held.text /\ Clean(held.text)
      /\ held.text \notin Dirty /\ HeldLine(held, H, F, minted, Dirty)
  BY <1>1, <1>2 DEF Resolves, Clean, Dirty, LineState
<1>5. CASE Len(read) > MaxTracked
  <2>1. Observed(m).ids = SnapshotIds(TextsOf(read))
    BY <1>2, <1>5, ObservedFacts
  <2>2. held.id = [space |-> 0, n |-> i, of |-> TextsOf(read)]
    BY <1>3, <1>4, <2>1, SnapshotFacts
  <2>3. held.id.space = 0 /\ held.id.n = i /\ held.id.of = TextsOf(read)
    BY <2>2
  <2>4. PICK c \in H : TextsOf(c) = TextsOf(read) /\ i \in 1 .. Len(c) /\ c[i].text = held.text /\ c[i].line = held.line
    BY <1>4, <2>3 DEF HeldLine
  <2>5. read[i] = c[i]
    BY <1>3, <1>4, <2>4, SameLines
  <2> QED BY <1>2, <2>4, <2>5
<1>6. CASE Len(read) <= MaxTracked /\ View(m) # NoDoc
  <2>1. Observed(m) = View(m) /\ GoodDoc(View(m)) /\ OfLines(View(m), H, F, minted, Dirty)
    BY <1>1, <1>2, <1>6, ObservedFacts, AdoptedLines
  <2>2. View(m).texts = TextsOf(read)
    BY <1>2, <1>6 DEF StaleToEdit
  <2>3. View(m).ids[i].space = View(m).space /\ View(m).space >= 1 /\ View(m).space \in Nat
    BY <1>3, <2>1, <2>2, GoodIdFacts
  <2>4. F[View(m).ids[i]] = held.line
    BY <1>4, <2>1, <2>3 DEF HeldLine
  <2>5. PICK b \in H : /\ TextsOf(b) = View(m).texts
                       /\ \A k \in 1 .. Len(b) : b[k].text \notin Dirty => F[View(m).ids[k]] = b[k].line
    BY <2>1 DEF OfLines
  <2>6. b \in Seq(Lines)
    BY <1>3, <2>5 DEF Histories, Fine
  <2>7. Len(b) = Len(read) /\ b[i].text = held.text
    BY <1>3, <1>4, <2>2, <2>5, <2>6, TextsFacts
  <2>8. read[i] = b[i]
    BY <1>3, <1>4, <2>2, <2>5, <2>7, SameLines
  <2>9. F[View(m).ids[i]] = b[i].line
    BY <1>3, <1>4, <2>5, <2>7
  <2> QED BY <1>2, <2>4, <2>8, <2>9
<1>7. CASE Len(read) <= MaxTracked /\ View(m) = NoDoc
  <2>1. GoodDoc(Observed(m)) /\ Observed(m) = First(TextsOf(read), NewSpace)
    BY <1>2, <1>7, ObservedFacts
  <2>2. NewSpace \in Nat /\ NewSpace = Len(minted) + 1 /\ Len(minted) \in Nat
    BY DEF AnchorInv, ShardOK, NewSpace
  <2>3. Observed(m).space = NewSpace /\ Observed(m).texts = TextsOf(read)
    BY <1>3, <2>1, <2>2, FirstFacts
  <2>4. held.id.space = NewSpace
    BY <1>3, <1>4, <2>1, <2>3, GoodIdFacts
  <2>5. held.id.space \in 1 .. Len(minted)
    BY <1>4, <2>2, <2>4 DEF HeldLine
  <2> QED BY <2>2, <2>4, <2>5
<1> QED BY <1>3, <1>5, <1>6, <1>7

(* An edit by anchor changes the very line the anchor was shown for, however *)
(* the file, the shard and the managers went on since; the exceptions are a  *)
(* text of which lines came and went, and an older version that came back,   *)
(* after the shard was emptied or from a manager with an old decoded copy of *)
(* it (reconcile_checked, stage_transition, resolve_anchor_with_hint).       *)
THEOREM AnchorsLeadToTheirLines == AnchorSpec => []RightLine
<1>1. AnchorInit => AnchorInv /\ LinesInv
  BY AnchorInitInv, LinesInit
<1>2. AnchorInv /\ LinesInv /\ [AnchorNext]_anchorVars => AnchorInv' /\ LinesInv'
  BY AnchorStepInv, LinesStep
<1>3. AnchorInv /\ LinesInv => RightLine
  BY LinesAreRight
<1> QED BY <1>1, <1>2, <1>3, PTL DEF AnchorSpec
=============================================================================
