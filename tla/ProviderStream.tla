--------------------------- MODULE ProviderStream ---------------------------
(***************************************************************************)
(* The request phase of a turn: the loop of stream attempts in             *)
(* AgentLoop::execute_turn, the connection retries inside an attempt       *)
(* (create_message_with_retry), the task that pumps the provider's stream  *)
(* into a bounded channel, the consumer that interprets the chunks         *)
(* (StreamAccumulator), the pre-output time budget and cancellation.       *)
(*                                                                         *)
(* A chunk is its position in what the provider sent in this attempt; the  *)
(* kind of the chunk is all that is kept of its content.  Usage and timing *)
(* telemetry changes nothing here; "usage" stands for every chunk that     *)
(* counts as a first chunk and carries no output.                          *)
(***************************************************************************)
EXTENDS Integers, Sequences, FiniteSets

CONSTANTS
    MaxStreamRetries,  \* MAX_STREAM_RETRY_ATTEMPTS
    MaxRetries,        \* RetryConfig::max_retries
    Capacity,          \* of the chunk channel (10 000)
    Budget,            \* the pre-output budget, in ticks
    MaxChunks          \* bound on the chunks of an attempt

ASSUME StreamBounds ==
    /\ MaxStreamRetries \in Nat /\ MaxRetries \in Nat /\ MaxChunks \in Nat
    /\ Capacity \in Nat \ {0} /\ Budget \in Nat \ {0}

VARIABLES
    mode,         \* "tui", "headless" or "json" output
    at,           \* where execute_turn is
    outcome,      \* of the request phase
    attempt,      \* stream_retry_attempt
    tries,        \* retry_attempt of create_message_with_retry
    failures,     \* consecutive_provider_failures
    spent,        \* elapsed pre-output time, up to the budget
    cancelled,    \* AgentLoop::cancelled
    retryable,    \* the turn recorded its request for /retry
    sent,         \* kinds of the chunks the provider sent in this attempt
    pump,         \* the pump task: "reading", "holding" or "ended"
    channel,      \* the chunks between pump and consumer
    rxOpen,       \* the consumer still holds the receiver
    got,          \* the chunks the accumulator has taken
    kept,         \* the output it accumulated from them
    heldBack,     \* its filter holds text back that could begin a thinking tag
    firstChunk,   \* first_chunk_received
    deadline,     \* preoutput_deadline_exceeded
    failure,      \* the accumulator's error state
    shown,        \* auxiliary: output delivered in the turn, over all attempts
    orphanReads   \* auxiliary: chunks the pump read after the turn was over

turnVars   == <<mode, at, outcome, attempt, tries, failures, retryable>>
pumpVars   == <<sent, pump, channel, orphanReads>>
acceptVars == <<rxOpen, got, kept, heldBack, firstChunk, deadline, failure, shown>>
vars == <<turnVars, spent, cancelled, pumpVars, acceptVars>>

(* Text is shown, "hidden" in thinking tags, or a "tail": text the filter   *)
(* holds back because it may be the beginning of a tag or a fence.         *)
OutputKinds == {"text", "hidden", "tail", "reasoning", "tool"}
ErrorKinds  == {"retryErr", "fatalErr"}
Kinds       == OutputKinds \cup ErrorKinds \cup {"usage"}

(* What the accumulator calls visible and substantive output: text inside  *)
(* thinking tags is filtered out and a tail is not counted, except in JSON *)
(* mode, where the text goes out as it came.                               *)
Visible     == {"text", "tool"} \cup IF mode = "json" THEN {"hidden", "tail"} ELSE {}
Substantive == Visible \cup {"reasoning"}

(* What has been shown for good: the terminal can take reasoning back.     *)
Output == IF mode = "tui" THEN Visible ELSE Substantive

Held == Len(sent)          \* the chunk a holding pump holds is the last one
KindsOf(chunks) == {sent[chunks[i]] : i \in 1 .. Len(chunks)}

noFailure == [beforeOutput |-> FALSE, beforeVisible |-> FALSE,
              errored |-> FALSE, fatal |-> FALSE]

TypeOK ==
    /\ mode \in {"tui", "headless", "json"}
    /\ at \in {"attempt", "connect", "backoff", "stream", "finish", "delay", "done"}
    /\ outcome \in {"pending", "accepted", "failed", "cancelled", "aborted"}
    /\ attempt \in 0 .. MaxStreamRetries /\ tries \in 0 .. MaxRetries
    /\ failures \in 0 .. 1 /\ spent \in 0 .. Budget
    /\ cancelled \in BOOLEAN /\ retryable \in BOOLEAN
    /\ sent \in Seq(Kinds) /\ Len(sent) <= MaxChunks
    /\ pump \in {"reading", "holding", "ended"}
    /\ channel \in Seq(1 .. MaxChunks) /\ Len(channel) <= Capacity
    /\ got \in Seq(1 .. MaxChunks) /\ kept \in Seq(OutputKinds)
    /\ rxOpen \in BOOLEAN /\ firstChunk \in BOOLEAN /\ deadline \in BOOLEAN
    /\ heldBack \in BOOLEAN
    /\ failure \in [beforeOutput: BOOLEAN, beforeVisible: BOOLEAN,
                    errored: BOOLEAN, fatal: BOOLEAN]
    /\ shown \in Seq(OutputKinds) /\ orphanReads \in 0 .. MaxChunks

Init ==
    /\ mode \in {"tui", "headless", "json"}
    /\ at = "attempt" /\ outcome = "pending"
    /\ attempt = 0 /\ tries = 0 /\ failures = 0
    /\ spent = 0 /\ cancelled = FALSE /\ retryable = FALSE
    /\ sent = <<>> /\ pump = "ended" /\ channel = <<>> /\ rxOpen = FALSE
    /\ got = <<>> /\ kept = <<>> /\ heldBack = FALSE /\ firstChunk = FALSE /\ deadline = FALSE
    /\ failure = noFailure
    /\ shown = <<>> /\ orphanReads = 0

End(how, offerRetry) ==
    /\ at' = "done"
    /\ outcome' = how
    /\ retryable' = (retryable \/ offerRetry)

-----------------------------------------------------------------------------
(* The top of 'provider_stream_attempt: the budget is left, or it is not.  *)
BeginAttempt ==
    /\ at = "attempt" /\ spent < Budget
    /\ at' = "connect"
    /\ tries' = 0
    /\ UNCHANGED <<mode, outcome, attempt, failures, retryable, spent, cancelled,
                   pumpVars, acceptVars>>

BudgetSpent ==
    /\ at = "attempt" /\ spent = Budget
    /\ End("failed", FALSE)
    /\ UNCHANGED <<mode, attempt, tries, failures, spent, cancelled, pumpVars, acceptVars>>

(* The select over the request: cancellation first, then the request, then *)
(* the timeout; a cancellation that comes with the result wins as well.    *)
RequestCancelled ==
    /\ at \in {"connect", "backoff"} /\ cancelled
    /\ End("cancelled", TRUE)
    /\ UNCHANGED <<mode, attempt, tries, failures, spent, cancelled, pumpVars, acceptVars>>

RequestTimesOut_OnlyInPause ==
    /\ at = "backoff" /\ spent = Budget
    /\ IF cancelled THEN End("cancelled", TRUE) ELSE End("failed", FALSE)
    /\ UNCHANGED <<mode, attempt, tries, failures, spent, cancelled, pumpVars, acceptVars>>

RequestTimesOut ==
    /\ at \in {"connect", "backoff"} /\ spent = Budget
    /\ IF cancelled THEN End("cancelled", TRUE) ELSE End("failed", FALSE)
    /\ UNCHANGED <<mode, attempt, tries, failures, spent, cancelled, pumpVars, acceptVars>>

OpenStream ==
    /\ at' = "stream"
    /\ sent' = <<>> /\ channel' = <<>> /\ pump' = "reading"
    /\ rxOpen' = TRUE /\ got' = <<>> /\ kept' = <<>> /\ heldBack' = FALSE
    /\ firstChunk' = FALSE /\ deadline' = FALSE /\ failure' = noFailure

(* The provider answers: a stream, whose success forgets earlier failures, *)
Connected ==
    /\ at = "connect"
    /\ failures' = 0
    /\ IF cancelled
         THEN /\ End("cancelled", TRUE)
              /\ UNCHANGED <<sent, channel, pump, rxOpen, got, kept, heldBack, firstChunk,
                             deadline, failure>>
         ELSE OpenStream /\ UNCHANGED <<outcome, retryable>>
    /\ UNCHANGED <<mode, attempt, tries, spent, cancelled, shown, orphanReads>>

MayReconnect_OnceMore == tries <= MaxRetries
MayReconnect == tries < MaxRetries

(* an error worth another try, after a pause that polls for cancellation,  *)
ConnectFails ==
    /\ at = "connect"
    /\ IF MayReconnect
         THEN /\ tries' = tries + 1
              /\ at' = "backoff"
              /\ UNCHANGED <<outcome, retryable, failures>>
         ELSE /\ failures' = 1
              /\ End(IF cancelled THEN "cancelled" ELSE "failed", TRUE)
              /\ UNCHANGED tries
    /\ UNCHANGED <<mode, attempt, spent, cancelled, pumpVars, acceptVars>>

BackoffOver ==
    /\ at = "backoff" /\ ~cancelled
    /\ at' = "connect"
    /\ UNCHANGED <<mode, outcome, attempt, tries, failures, retryable, spent, cancelled,
                   pumpVars, acceptVars>>

(* or one that is not (authentication, a bad request).                     *)
ConnectRejected ==
    /\ at = "connect"
    /\ End(IF cancelled THEN "cancelled" ELSE "failed", TRUE)
    /\ UNCHANGED <<mode, attempt, tries, failures, spent, cancelled, pumpVars, acceptVars>>

-----------------------------------------------------------------------------
(* The pump task.  It reads from the provider, drops what it has when the  *)
(* turn is cancelled, waits for a place in the channel, and ends with the  *)
(* stream, with the receiver, or with a cancellation it polls for.         *)
SentRetryable == \E i \in 1 .. Len(sent) : sent[i] = "retryErr"

(* No provider produces output after a transport error or a timeout; what  *)
(* the model itself reports as an error can come between other chunks.     *)
PumpReads(kind) ==
    /\ pump = "reading"
    /\ Len(sent) < MaxChunks
    /\ SentRetryable => kind \notin OutputKinds
    /\ sent' = Append(sent, kind)
    /\ pump' = IF cancelled THEN "ended" ELSE "holding"
    /\ orphanReads' = IF at = "done" THEN orphanReads + 1 ELSE orphanReads
    /\ UNCHANGED <<turnVars, spent, cancelled, channel, acceptVars>>

PumpSends ==
    /\ pump = "holding" /\ rxOpen /\ Len(channel) < Capacity
    /\ channel' = Append(channel, Held)
    /\ pump' = "reading"
    /\ UNCHANGED <<turnVars, spent, cancelled, sent, orphanReads, acceptVars>>

PumpLosesReceiver_GoesOn ==
    /\ pump = "holding" /\ ~rxOpen
    /\ pump' = "reading"
    /\ UNCHANGED <<turnVars, spent, cancelled, sent, channel, orphanReads, acceptVars>>

PumpLosesReceiver ==
    /\ pump = "holding" /\ ~rxOpen
    /\ pump' = "ended"
    /\ UNCHANGED <<turnVars, spent, cancelled, sent, channel, orphanReads, acceptVars>>

PumpSeesCancellation_OnlyHolding ==
    /\ pump = "holding" /\ cancelled
    /\ pump' = "ended"
    /\ UNCHANGED <<turnVars, spent, cancelled, sent, channel, orphanReads, acceptVars>>

PumpSeesCancellation ==
    /\ pump # "ended" /\ cancelled
    /\ pump' = "ended"
    /\ UNCHANGED <<turnVars, spent, cancelled, sent, channel, orphanReads, acceptVars>>

StreamEnds ==
    /\ pump = "reading"
    /\ pump' = "ended"
    /\ UNCHANGED <<turnVars, spent, cancelled, sent, channel, orphanReads, acceptVars>>

-----------------------------------------------------------------------------
(* StreamAccumulator::push, for the error kinds: a retryable error counts  *)
(* against what came before it; the first fatal one silences the others.   *)
AfterError(kind) ==
    LET before == KindsOf(got) IN
      IF kind = "fatalErr" THEN [failure EXCEPT !.errored = TRUE, !.fatal = TRUE]
      ELSE IF failure.fatal THEN failure
      ELSE IF before \cap Substantive = {}
        THEN [failure EXCEPT !.beforeOutput = TRUE, !.beforeVisible = TRUE]
        ELSE [failure EXCEPT !.errored = TRUE,
                             !.beforeVisible = @ \/ before \cap Visible = {}]

(* What a chunk brings to the screen: a tail comes out before the text that *)
(* shows it was no tag, and is gone with the tag it was the beginning of.  *)
Released(kind) ==
    IF kind = "text" /\ heldBack THEN <<"tail", "text">>
    ELSE IF kind \in Output THEN <<kind>> ELSE <<>>

HoldsAfter(kind) ==
    mode # "json" /\ (kind = "tail" \/ (heldBack /\ kind \notin {"text", "hidden"}))

(* StreamAccumulator::finish: at the end of every attempt, whatever becomes *)
(* of it, a tail that is still held is shown.                              *)
Flush ==
    /\ kept' = IF heldBack THEN Append(kept, "tail") ELSE kept
    /\ shown' = IF heldBack THEN Append(shown, "tail") ELSE shown
    /\ heldBack' = FALSE

(* The consumer takes a chunk: it drops it and returns when cancelled.     *)
Receive ==
    /\ at = "stream" /\ channel # <<>> /\ ~cancelled
    /\ LET c == Head(channel)  kind == sent[c] IN
          /\ got' = Append(got, c)
          /\ firstChunk' = (firstChunk \/ kind \notin ErrorKinds)
          /\ failure' = IF kind \in ErrorKinds THEN AfterError(kind) ELSE failure
          /\ kept' = kept \o Released(kind)
          /\ shown' = shown \o Released(kind)
          /\ heldBack' = HoldsAfter(kind)
    /\ channel' = Tail(channel)
    /\ UNCHANGED <<turnVars, spent, cancelled, sent, pump, orphanReads, rxOpen, deadline>>

ReceiveCancelled ==
    /\ at = "stream" /\ channel # <<>> /\ cancelled
    /\ End("cancelled", FALSE)
    /\ channel' = <<>> /\ rxOpen' = FALSE
    /\ UNCHANGED <<mode, attempt, tries, failures, spent, cancelled, sent, pump, orphanReads,
                   got, kept, heldBack, firstChunk, deadline, failure, shown>>

ChannelCloses_Undrained ==
    /\ at = "stream" /\ pump = "ended"
    /\ at' = "finish"
    /\ Flush
    /\ UNCHANGED <<mode, outcome, attempt, tries, failures, retryable, spent, cancelled,
                   pumpVars, rxOpen, got, firstChunk, deadline, failure>>

ChannelCloses ==
    /\ at = "stream" /\ channel = <<>> /\ pump = "ended"
    /\ at' = "finish"
    /\ Flush
    /\ UNCHANGED <<mode, outcome, attempt, tries, failures, retryable, spent, cancelled,
                   pumpVars, rxOpen, got, firstChunk, deadline, failure>>

(* No first chunk within the budget: the pump is aborted.                  *)
DeadlinePasses ==
    /\ at = "stream" /\ ~firstChunk /\ spent = Budget
    /\ deadline' = TRUE
    /\ failure' = [failure EXCEPT !.beforeOutput = TRUE, !.beforeVisible = TRUE]
    /\ pump' = "ended"
    /\ at' = "finish"
    /\ Flush
    /\ UNCHANGED <<mode, outcome, attempt, tries, failures, retryable, spent, cancelled,
                   sent, channel, orphanReads, rxOpen, got, firstChunk>>

RetriesAttempt_BeforeVisible == failure.beforeVisible

RetriesAttempt ==
    IF mode = "tui" THEN failure.beforeVisible ELSE failure.beforeOutput

AttemptsLeft == ~deadline /\ attempt < MaxStreamRetries

(* The attempt is over: give up on a fatal error, retry (after a pause)    *)
(* one that failed before any output, offer /retry for one that failed     *)
(* later, and accept the rest.                                             *)
FinishAttempt ==
    /\ at = "finish"
    /\ CASE failure.fatal -> End("failed", FALSE) /\ UNCHANGED attempt
         [] ~failure.fatal /\ RetriesAttempt /\ ~AttemptsLeft ->
               End("failed", FALSE) /\ UNCHANGED attempt
         [] ~failure.fatal /\ RetriesAttempt /\ AttemptsLeft ->
               /\ attempt' = attempt + 1
               /\ at' = "delay"
               /\ UNCHANGED <<outcome, retryable>>
         [] ~failure.fatal /\ ~RetriesAttempt /\ failure.errored ->
               End("failed", TRUE) /\ UNCHANGED attempt
         [] OTHER -> End("accepted", FALSE) /\ UNCHANGED attempt
    /\ rxOpen' = FALSE /\ channel' = <<>>
    /\ UNCHANGED <<mode, tries, failures, spent, cancelled, sent, pump, orphanReads, got,
                   kept, heldBack, firstChunk, deadline, failure, shown>>

DelayOver ==
    /\ at = "delay"
    /\ IF cancelled
         THEN End("cancelled", FALSE)
         ELSE at' = "attempt" /\ UNCHANGED <<outcome, retryable>>
    /\ UNCHANGED <<mode, attempt, tries, failures, spent, cancelled, pumpVars, acceptVars>>

-----------------------------------------------------------------------------
(* Around the turn: time, Ctrl+C (the flag alone when headless, the flag   *)
(* and an aborted task in the terminal), and the next run, which clears    *)
(* the flag; the run of an accepted answer is not over yet.                *)
Tick ==
    /\ at # "done" /\ spent < Budget
    /\ spent' = spent + 1
    /\ UNCHANGED <<turnVars, cancelled, pumpVars, acceptVars>>

Cancel ==
    /\ at # "done" /\ ~cancelled
    /\ cancelled' = TRUE
    /\ UNCHANGED <<turnVars, spent, pumpVars, acceptVars>>

TaskAborted ==
    /\ at # "done" /\ mode = "tui"
    /\ End("aborted", FALSE)
    /\ channel' = <<>> /\ rxOpen' = FALSE
    /\ UNCHANGED <<mode, attempt, tries, failures, spent, cancelled, sent, pump, orphanReads,
                   got, kept, heldBack, firstChunk, deadline, failure, shown>>

NextRun ==
    /\ at = "done" /\ outcome # "accepted" /\ cancelled
    /\ cancelled' = FALSE
    /\ UNCHANGED <<turnVars, spent, pumpVars, acceptVars>>

Provider == Connected \/ ConnectFails \/ ConnectRejected
            \/ (\E k \in Kinds : PumpReads(k)) \/ StreamEnds
Pump == PumpSends \/ PumpLosesReceiver \/ PumpSeesCancellation
Turn ==
    \/ BeginAttempt \/ BudgetSpent \/ RequestCancelled \/ RequestTimesOut \/ BackoffOver
    \/ Receive \/ ReceiveCancelled \/ ChannelCloses \/ DeadlinePasses
    \/ FinishAttempt \/ DelayOver

Next == Provider \/ Pump \/ Turn \/ Tick \/ Cancel \/ TaskAborted \/ NextRun

(* Both tasks are scheduled and time passes; the provider owes nothing.    *)
Fairness == WF_vars(Turn) /\ WF_vars(Pump) /\ WF_vars(Tick)

-----------------------------------------------------------------------------
(* An answer that is accepted while nobody cancelled is everything the     *)
(* provider sent, in order, and no part of it was an error (the pump and   *)
(* its channel, StreamAccumulator::finish).                                *)
AcceptedIsWhole ==
    outcome = "accepted" /\ ~cancelled =>
       /\ got = [i \in 1 .. Len(sent) |-> i]
       /\ KindsOf(got) \cap ErrorKinds = {}

(* A pump whose turn is over reads at most one more chunk, even when the   *)
(* next run has cleared the flag it polls (the send fails once the         *)
(* receiver is gone).                                                      *)
OrphanReadsOnce == orphanReads <= 1

(* Cancelling ends the request phase, wherever it waits: for the provider, *)
(* the channel, or the pause between attempts.  A provider that stays      *)
(* silent does not hold the turn either: it ends within the budget, or a   *)
(* first chunk arrived (preoutput_budget).                                 *)
TurnEnds ==
    /\ cancelled ~> at = "done"
    /\ at # "done" ~> at = "done" \/ firstChunk

(* To the user the request phase is an output that only grows, an answer   *)
(* begun again only when no more than a tail of it was shown, and an       *)
(* accepted answer that is what was shown since it was begun.              *)
Answer == INSTANCE AnswerStream WITH
    Chunks <- OutputKinds,
    Leftover <- "tail",
    begun <- Len(shown) - Len(kept),
    answer <- IF outcome = "accepted" THEN kept ELSE <<>>
ShowsOneAnswer == Answer!Spec

Spec == Init /\ [][Next]_vars
FairSpec == Spec /\ Fairness
=============================================================================
