----------------------------- MODULE MCApproval -----------------------------
(* Instances of Approval for TLC, and statements of the code's comments that *)
(* the model refutes.                                                        *)
EXTENDS Approval

(* "Approval bypasses transcript backlog so the panel is rendered before the *)
(* user can accidentally act on an unseen request" (output.rs 1252): what is *)
(* approved was on the screen when the key was read.                         *)
NothingUnseenApproved ==
    [][\A r \in Calls : inbox'[r] = "approved" /\ inbox[r] # "approved" => screen = r]_vars

(* "A matching finish event keeps timeouts and UI failures from leaving a    *)
(* stale panel" (prompt_for_approval_in_workspace).                          *)
NoStalePanel == \A r \in Calls : panel = r /\ ~Busy(r) ~> panel # r

(* The same, but for the combined prompt whose task was dropped: a panel that*)
(* Enter brought up before /retry waits for the run stays with its prompt    *)
(* long over.                                                                *)
NoStalePanelOfARun ==
    \A r \in Calls : panel = r /\ ~Busy(r) ~> panel # r \/ LeftBehind(r, "future")

(* The user is told when a decision came too late.                           *)
ToldWhenLate ==
    [][\A r \in Calls : inbox'[r] # inbox[r] /\ inbox'[r] \in Decisions => result[r] = None]_vars
=============================================================================
