--------------------------- MODULE MCMessageQueue ---------------------------
(* A small instance of MessageQueue for TLC: two handles, a clearing task   *)
(* and a queue of two messages, with the limit reached by four.             *)
EXTENDS MessageQueue

CONSTANTS h1, h2, c1
=============================================================================
