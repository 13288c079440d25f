--------------------------- MODULE MCStateManager ---------------------------
EXTENDS StateManager, TLC

CONSTANTS agent, other, command, turn, terminal, run, config,
          model, apiKey, task1, task2

\* An interactive process with a turn and the terminal; a
\* process that runs another task; and a `sned auth' command.
MCHome == (turn :> agent) @@ (terminal :> agent)
          @@ (run :> other) @@ (config :> command)
MCOwns == (turn :> {task1}) @@ (terminal :> {apiKey})
          @@ (run :> {task2}) @@ (config :> {model})
=============================================================================
