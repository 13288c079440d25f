-------------------------- MODULE MCProviderStream --------------------------
(* A small instance of ProviderStream for TLC: attempts of up to three       *)
(* chunks through a channel of one, two attempts of two connections each.    *)
EXTENDS ProviderStream

(* "Provider stream stalled before output; retrying" (agent_loop.rs          *)
(* 3393-3400): what an accepted answer shows is all the turn has shown.      *)
(* Refuted: the end of an attempt shows the tail its filter held back, which *)
(* the retry decision does not count as output.                              *)
OneAnswerShown == outcome = "accepted" => shown = kept
=============================================================================
