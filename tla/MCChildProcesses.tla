-------------------------- MODULE MCChildProcesses --------------------------
(* An instance of ChildProcesses for TLC, and statements of the code's       *)
(* comments that the model refutes.                                          *)
EXTENDS ChildProcesses

(* "so Ctrl+C can terminate a script even though the agent task itself is    *)
(* aborted" (execute_command.rs:1648), "Kill running background commands"    *)
(* (abort_task): when a cancelled run is over, with abort_task and the       *)
(* cleanup done, nothing of a call that was dropped is still alive.          *)
CancelKills ==
    (run = "idle" /\ \A k \in Killers : killer[k] = Off)
      => \A c \in Children : at[c] \in {"dropped", "lost"} => ~ GroupAlive(c)

(* "script should time out" (execute_command.rs:3262): a script's runner is  *)
(* no more stuck than the others.                                            *)
ScriptNeverStuck == \A c \in Children : (Live(c) /\ Polled(c)) => ENABLED Runner(c)

(* A run finds no child of an earlier run at work.                           *)
RunsApart == StartRun => \A c \in Children : ~ Live(c) /\ ~ GroupAlive(c)
NoneFromBefore == [][RunsApart]_processVars
=============================================================================
