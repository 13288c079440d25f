---------------------------- MODULE MCToolBatch ----------------------------
(* Instances of ToolBatch for TLC, and statements of the code's comments   *)
(* that the model refutes.                                                 *)
EXTENDS ToolBatch

(* "an already-started future runs to completion so a file transaction is  *)
(* never dropped mid-application" (run_tool_unless_cancelled).             *)
StartedEditsFinish == \A i \in DOMAIN tasks : tasks[i].stage # "cut"

(* "Exact denied tool calls for the current recovery context": a call is   *)
(* refused as denied before only if it was since the user's last prompt.   *)
RefusedOnlyWhileRecent ==
    phase # "idle" => \A i \in DOMAIN tasks : tasks[i].stage = "repeat" => tasks[i].action \in recent

(* Nobody is asked on behalf of a cancelled run.                           *)
NoQuestionAfterCancel == [][Ask => ~cancelled]_vars
=============================================================================
