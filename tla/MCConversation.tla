--------------------------- MODULE MCConversation ---------------------------
(* Instances of Conversation for TLC, and statements of the code's comments  *)
(* that the model refutes.                                                   *)
EXTENDS Conversation

(* The newest prompt, once it is in the history, is in the request.          *)
NewestPromptSent ==
    request # <<>> =>
       \A i \in 1 .. Len(history) :
          history[i].kind = "prompt" /\ (\A j \in i + 1 .. Len(history) : history[j].kind = "note")
            => \E k \in 1 .. Len(request) : request[k] = history[i]

(* What was hidden stays hidden: only an emergency, a restart or an undo     *)
(* brings a hidden message back.                                             *)
HiddenStaysHidden ==
    [][cut' < cut => EmergencyTruncate \/ EmergencyFails \/ Restart \/ spent.undos > 0]_vars

(* No call is answered twice in a request.                                   *)
NoDuplicateResults ==
    \A j, k \in 1 .. Len(request) :
       request[j].results \cap request[k].results # {} => j = k

(* Pruning splits no pair: a first message with calls keeps its results too. *)
RootKeepsPair ==
    request # <<>> /\ request[1].calls # {} /\ request[1].calls \cap mixed = {}
      => Len(request) > 1 /\ request[1].calls \subseteq request[2].results

(* A range read back after a restart hides only what was hidden before.      *)
RestartHidesNothingNew ==
    [][Restart => \A i \in 3 .. Len(history') :
          i <= cut' => \/ history'[i] \notin Elements(history)
                       \/ \E j \in 3 .. cut : j <= Len(history) /\ history[j] = history'[i]]_vars
=============================================================================
