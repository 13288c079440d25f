--------------------------- MODULE MCAgentSession ---------------------------
(* Instances of AgentSession for TLC, and four statements of the code's      *)
(* comments and messages that the model refutes.  The README says how to     *)
(* see each of them fail; no invariant of the project rests on them.         *)
EXTENDS AgentSession

(* A cancellation cleanup reaches only tasks spawned before it was         *)
(* requested, by abort or through the flags (cancel_agent_resources).      *)
CleanupSparesLaterTask ==
    [][\A c \in Cleanups :
          /\ cleanup'[c].victim \in cleanup'[c].before \cup {NoTask}
          /\ CleanupFlags(c) => holder \in cleanup[c].before \cup {NoTask}]_vars

(* A retry never records its user turn a second time.                      *)
RetryRecordedOnce ==
    \A i, j \in 1 .. Len(history) : history[i] = history[j] /\ history[i].id > 0 => i = j

(* After a turn was cancelled, /retry has the request to resend.           *)
CancelledCanRetry ==
    \A c \in Cleanups :
       LET t == cleanup[c].victim IN
         /\ cleanup[c].at = "done" /\ t # NoTask
         /\ pc[t] = "aborted" /\ turns[t] > 0 /\ ended[t] = "no"
         /\ \A u \in Spawned : u <= t
         => retryable # NoMessage

(* What /retry resends is a request the user wrote.                        *)
RetryIsUserAuthored == retryable # toolResults
=============================================================================
