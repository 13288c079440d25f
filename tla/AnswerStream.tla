---------------------------- MODULE AnswerStream ----------------------------
(***************************************************************************)
(* What the request phase of a turn promises to the user who watches it:   *)
(* output only ever grows; an answer is begun again only when nothing of   *)
(* it was shown but a leftover of the thinking filter; and the accepted    *)
(* answer is what was shown since it was begun, no matter how many         *)
(* attempts, retries and failures it took.                                 *)
(***************************************************************************)
EXTENDS Integers, Sequences

CONSTANTS
    Chunks,        \* the pieces of output a provider can produce
    Leftover       \* the one that can be shown without counting as output

VARIABLES
    shown,         \* the output the user has seen, in order
    begun,         \* how much of it came before the answer in progress
    outcome,       \* "pending" until the turn has its answer or gives up
    answer         \* the accepted answer

vars == <<shown, begun, outcome, answer>>

Current == SubSeq(shown, begun + 1, Len(shown))

Init == shown = <<>> /\ begun = 0 /\ outcome = "pending" /\ answer = <<>>

(* A piece of output, with the leftover that waited for it.                *)
Show(c) ==
    /\ outcome = "pending"
    /\ shown' \in {Append(shown, c), shown \o <<Leftover, c>>}
    /\ UNCHANGED <<begun, outcome, answer>>

BeginAgain ==
    /\ outcome = "pending"
    /\ Current \in {<<>>, <<Leftover>>}
    /\ begun' = Len(shown)
    /\ UNCHANGED <<shown, outcome, answer>>

Accept ==
    /\ outcome = "pending"
    /\ outcome' = "accepted"
    /\ answer' = Current
    /\ UNCHANGED <<shown, begun>>

GiveUp ==
    /\ outcome = "pending"
    /\ outcome' \in {"failed", "cancelled", "aborted"}
    /\ UNCHANGED <<shown, begun, answer>>

Next == (\E c \in Chunks : Show(c)) \/ BeginAgain \/ Accept \/ GiveUp

Spec == Init /\ [][Next]_vars
=============================================================================
