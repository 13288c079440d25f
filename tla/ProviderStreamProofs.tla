------------------------- MODULE ProviderStreamProofs -------------------------
(***************************************************************************)
(* What holds of ProviderStream for any number of attempts and retries,    *)
(* any channel, any budget and attempts of any length: an accepted answer  *)
(* is whole, an orphaned pump stops, and the request phase implements      *)
(* AnswerStream.                                                           *)
(***************************************************************************)
EXTENDS ProviderStream, SequenceTheorems, TLAPS

Holding == IF pump = "holding" THEN 1 ELSE 0

(* Where the turn is decides whether the consumer holds the receiver, what *)
(* the pump can still be doing and whether the outcome is known.           *)
TurnShape ==
    /\ outcome = "pending" <=> at # "done"
    /\ rxOpen <=> at \in {"stream", "finish"}
    /\ at = "finish" => pump = "ended"
    /\ at = "stream" => ~deadline
    /\ at # "done" => orphanReads = 0
    /\ orphanReads > 0 => orphanReads = 1 /\ pump # "reading"

(* Chunks arrive in order, and none is lost while the receiver is there:   *)
(* the accumulator's, the channel's and the pump's make up what was sent,  *)
(* unless the pump ended early.                                            *)
InOrder ==
    /\ \A i \in 1 .. Len(got) : got[i] = i
    /\ \A i \in 1 .. Len(channel) : channel[i] = Len(got) + i
    /\ Len(got) + Len(channel) + Holding <= Len(sent)
    /\ rxOpen /\ (pump # "ended" \/ (~cancelled /\ ~deadline)) =>
          Len(got) + Len(channel) + Holding = Len(sent)
    /\ at = "finish" /\ ~deadline => channel = <<>>

Taken == {sent[i] : i \in 1 .. Len(got)}

(* The accumulator's error state says what it took.                        *)
FailuresTrue ==
    /\ \A i, j \in 1 .. Len(sent) : i < j /\ sent[i] = "retryErr" => sent[j] \notin OutputKinds
    /\ "fatalErr" \in Taken => failure.fatal
    /\ "retryErr" \in Taken =>
          failure.fatal \/ failure.errored \/ (failure.beforeOutput /\ failure.beforeVisible)
    /\ failure.beforeOutput => Taken \cap Substantive = {}
    /\ failure.beforeVisible => Taken \cap Visible = {}
    /\ at = "stream" /\ (failure.beforeOutput \/ failure.beforeVisible) => "retryErr" \in Taken
    /\ ~firstChunk => Taken \subseteq ErrorKinds
    /\ deadline => failure.beforeOutput /\ failure.beforeVisible

EndsIn(s, t) == /\ Len(t) <= Len(s)
                /\ \A i \in 1 .. Len(t) : t[i] = s[Len(s) - Len(t) + i]

(* The last the user saw in this turn is what this attempt accumulated; an *)
(* attempt that is repeated had shown nothing but a tail, and that only    *)
(* when its stream was over.                                               *)
ShownIsKept ==
    /\ EndsIn(shown, kept)
    /\ Taken \cap Output = {} =>
          kept = <<>> \/ (at # "stream" /\ kept = <<"tail">>)
    /\ at \in {"attempt", "connect", "backoff", "delay"} => kept \in {<<>>, <<"tail">>}

(* What was accepted met no error and no early end of its pump.            *)
AcceptedClean ==
    outcome = "accepted" =>
       /\ pump = "ended" /\ Taken \cap ErrorKinds = {}
       /\ ~cancelled => Len(got) = Len(sent)

Inv == TypeOK /\ TurnShape /\ InOrder /\ FailuresTrue /\ ShownIsKept /\ AcceptedClean

-----------------------------------------------------------------------------
(* What is appended to both keeps the one at the end of the other,         *)
LEMMA EndsInAppended ==
    ASSUME NEW S, NEW s \in Seq(S), NEW t \in Seq(S), NEW p \in Seq(S), EndsIn(s, t)
    PROVE  EndsIn(s \o p, t \o p)
<1> DEFINE sp == s \o p  tp == t \o p
<1>1. /\ Len(sp) = Len(s) + Len(p) /\ Len(tp) = Len(t) + Len(p)
      /\ Len(s) \in Nat /\ Len(t) \in Nat /\ Len(p) \in Nat
  OBVIOUS
<1>2. ASSUME NEW i \in 1 .. Len(t) + Len(p) PROVE tp[i] = sp[Len(s) - Len(t) + i]
  <2>1. CASE i <= Len(t)
    <3>1. tp[i] = t[i] /\ sp[Len(s) - Len(t) + i] = s[Len(s) - Len(t) + i]
      BY <1>1, <2>1 DEF EndsIn
    <3> QED BY <1>1, <2>1, <3>1 DEF EndsIn
  <2>2. CASE i > Len(t)
    <3>1. tp[i] = p[i - Len(t)] /\ sp[Len(s) - Len(t) + i] = p[i - Len(t)]
      BY <1>1, <2>2 DEF EndsIn
    <3> QED BY <3>1
  <2>3. i <= Len(t) \/ i > Len(t)
    BY <1>1
  <2> HIDE DEF sp, tp
  <2> QED BY <2>1, <2>2, <2>3
<1> HIDE DEF sp, tp
<1>3. EndsIn(sp, tp)
  <2>1. Len(sp) - Len(tp) = Len(s) - Len(t) /\ Len(t) <= Len(s)
    BY <1>1 DEF EndsIn
  <2> QED BY <1>1, <1>2, <2>1 DEF EndsIn
<1> QED BY <1>3 DEF sp, tp

(* and a sequence is the last part of one it is at the end of.             *)
LEMMA EndsInLast ==
    ASSUME NEW S, NEW s \in Seq(S), NEW t \in Seq(S), EndsIn(s, t)
    PROVE  SubSeq(s, Len(s) - Len(t) + 1, Len(s)) = t
<1> DEFINE u == SubSeq(s, Len(s) - Len(t) + 1, Len(s))
<1>1. Len(s) \in Nat /\ Len(t) \in Nat /\ Len(t) <= Len(s)
  BY DEF EndsIn
<1>2. u \in Seq(S) /\ Len(u) = Len(t)
  BY <1>1
<1>3. \A i \in 1 .. Len(t) : u[i] = t[i]
  BY <1>1 DEF EndsIn
<1> QED BY <1>2, <1>3

-----------------------------------------------------------------------------
(* The steps of a turn that waits for a connection or between attempts all *)
(* do the same to what the proof is about: they move on, or end the turn.  *)
Places  == {"attempt", "connect", "backoff", "delay"}
Waiting == /\ at \in Places
           /\ \/ at' \in Places /\ outcome' = outcome
              \/ at' = "done" /\ outcome' \in {"failed", "cancelled"}
           /\ UNCHANGED <<mode, cancelled, pumpVars, acceptVars>>

(* Every step outside a stream is such a step, a request cancelled as it   *)
(* connects included.                                                      *)
LEMMA WaitingSteps ==
    ASSUME \/ BeginAttempt \/ BudgetSpent \/ RequestCancelled \/ RequestTimesOut \/ ConnectFails
           \/ ConnectRejected \/ BackoffOver \/ DelayOver \/ (Connected /\ cancelled)
    PROVE  Waiting
<1>1. CASE BeginAttempt
  BY <1>1 DEF BeginAttempt, Waiting, Places
<1>2. CASE BudgetSpent
  BY <1>2 DEF BudgetSpent, End, Waiting, Places
<1>3. CASE RequestCancelled
  BY <1>3 DEF RequestCancelled, End, Waiting, Places
<1>4. CASE RequestTimesOut
  BY <1>4 DEF RequestTimesOut, End, Waiting, Places
<1>5. CASE ConnectFails
  BY <1>5 DEF ConnectFails, End, Waiting, Places
<1>6. CASE ConnectRejected
  BY <1>6 DEF ConnectRejected, End, Waiting, Places
<1>7. CASE BackoffOver
  BY <1>7 DEF BackoffOver, Waiting, Places
<1>8. CASE DelayOver
  BY <1>8 DEF DelayOver, End, Waiting, Places
<1>9. CASE Connected /\ cancelled
  BY <1>9 DEF Connected, End, Waiting, Places, pumpVars, acceptVars
<1> QED BY <1>1, <1>2, <1>3, <1>4, <1>5, <1>6, <1>7, <1>8, <1>9

(* The pump's ways to end; one of them before it sent all it read.         *)
PumpStops == PumpLosesReceiver \/ PumpSeesCancellation \/ StreamEnds

(* The consumer's ways to leave without an answer.                         *)
Leaves == ReceiveCancelled \/ TaskAborted

(* Leaving drops the receiver and what is in the channel.                   *)
LEMMA LeavesEffect ==
    ASSUME Leaves
    PROVE  /\ at # "done" /\ at' = "done" /\ outcome' \in {"cancelled", "aborted"}
           /\ rxOpen' = FALSE /\ channel' = <<>>
           /\ UNCHANGED <<mode, cancelled, sent, pump, orphanReads, got, kept, heldBack,
                          firstChunk, deadline, failure, shown>>
BY DEF Leaves, ReceiveCancelled, TaskAborted, End

-----------------------------------------------------------------------------
(* Types: the flags, and everything else.                                  *)
FlagsOK ==
    /\ cancelled \in BOOLEAN /\ retryable \in BOOLEAN
    /\ rxOpen \in BOOLEAN /\ firstChunk \in BOOLEAN /\ deadline \in BOOLEAN
    /\ heldBack \in BOOLEAN

ValuesOK ==
    /\ mode \in {"tui", "headless", "json"}
    /\ at \in Places \cup {"stream", "finish", "done"}
    /\ outcome \in {"pending", "accepted", "failed", "cancelled", "aborted"}
    /\ attempt \in 0 .. MaxStreamRetries /\ tries \in 0 .. MaxRetries
    /\ failures \in 0 .. 1 /\ spent \in 0 .. Budget
    /\ sent \in Seq(Kinds) /\ Len(sent) <= MaxChunks
    /\ pump \in {"reading", "holding", "ended"}
    /\ channel \in Seq(1 .. MaxChunks) /\ Len(channel) <= Capacity
    /\ got \in Seq(1 .. MaxChunks) /\ kept \in Seq(OutputKinds)
    /\ failure \in [beforeOutput: BOOLEAN, beforeVisible: BOOLEAN,
                    errored: BOOLEAN, fatal: BOOLEAN]
    /\ shown \in Seq(OutputKinds) /\ orphanReads \in 0 .. MaxChunks

(* The two parts are the type invariant.                                    *)
LEMMA TypeParts ==
    /\ TypeOK <=> FlagsOK /\ ValuesOK
    /\ (FlagsOK /\ ValuesOK)' => TypeOK'
BY DEF TypeOK, FlagsOK, ValuesOK, Places

(* The invariant holds before the first attempt.                            *)
LEMMA InvInit == Init => Inv
<1> SUFFICES ASSUME Init PROVE Inv
  OBVIOUS
<1>1. FlagsOK
  BY Zenon DEF Init, FlagsOK
<1>2. ValuesOK
  <2>1. failure \in [beforeOutput: BOOLEAN, beforeVisible: BOOLEAN, errored: BOOLEAN, fatal: BOOLEAN]
    BY DEF Init, noFailure
  <2>2. 0 <= MaxChunks /\ Len(channel) = 0 /\ Len(sent) = 0
    BY StreamBounds DEF Init
  <2>3. sent \in Seq(Kinds) /\ channel \in Seq(1 .. MaxChunks) /\ got \in Seq(1 .. MaxChunks)
    BY DEF Init
  <2>4. kept \in Seq(OutputKinds) /\ shown \in Seq(OutputKinds)
    BY DEF Init
  <2> QED BY <2>1, <2>2, <2>3, <2>4, StreamBounds DEF Init, ValuesOK, Places
<1>3. TurnShape
  BY DEF Init, TurnShape
<1>4. Taken = {}
  BY DEF Init, Taken
<1>5. InOrder
  BY DEF Init, InOrder, Holding
<1>6. FailuresTrue
  BY <1>4 DEF Init, FailuresTrue, noFailure
<1>7. ShownIsKept /\ AcceptedClean
  BY DEF Init, ShownIsKept, EndsIn, AcceptedClean
<1> QED BY <1>1, <1>2, <1>3, <1>5, <1>6, <1>7, TypeParts DEF Inv

(* The chunk the consumer takes next is the next one the provider sent.    *)
LEMMA NextChunk ==
    ASSUME Inv, channel # <<>>
    PROVE  /\ Head(channel) = Len(got) + 1 /\ Head(channel) \in 1 .. Len(sent)
           /\ sent[Head(channel)] \in Kinds /\ Len(sent) \in 0 .. MaxChunks
           /\ Len(got) \in Nat /\ Len(channel) \in Nat \ {0}
<1>1. /\ sent \in Seq(Kinds) /\ Len(sent) <= MaxChunks
      /\ channel \in Seq(1 .. MaxChunks) /\ got \in Seq(1 .. MaxChunks)
  BY DEF Inv, TypeOK
<1>2. Len(channel) > 0 /\ Head(channel) = channel[1]
  BY <1>1
<1>3. channel[1] = Len(got) + 1
  BY <1>1, <1>2 DEF Inv, InOrder
<1>4. Len(got) + Len(channel) <= Len(sent)
  BY <1>1 DEF Inv, InOrder, Holding
<1> QED BY <1>1, <1>2, <1>3, <1>4, StreamBounds

(* What a chunk releases is output.                                         *)
LEMMA ReleasedType == \A kind : Released(kind) \in Seq(OutputKinds)
<1>1. Output \subseteq OutputKinds /\ "tail" \in OutputKinds /\ "text" \in OutputKinds
  BY DEF Output, Substantive, Visible, OutputKinds
<1> QED BY <1>1 DEF Released

(* Flushing shows what it keeps, a tail if one is held.                      *)
LEMMA FlushEffect ==
    ASSUME Flush, kept \in Seq(OutputKinds), shown \in Seq(OutputKinds)
    PROVE  /\ kept' \in Seq(OutputKinds) /\ shown' \in Seq(OutputKinds)
           /\ (kept' = kept /\ shown' = shown)
              \/ (kept' = kept \o <<"tail">> /\ shown' = shown \o <<"tail">>)
<1>1. "tail" \in OutputKinds
  BY DEF OutputKinds
<1>2. Append(kept, "tail") = kept \o <<"tail">> /\ Append(shown, "tail") = shown \o <<"tail">>
  BY <1>1
<1> QED BY <1>1, <1>2 DEF Flush

(* Every step keeps the flags Boolean.                                      *)
LEMMA FlagsNext == Inv /\ [Next]_vars => FlagsOK'
<1> SUFFICES ASSUME FlagsOK, [Next]_vars PROVE FlagsOK'
  BY TypeParts DEF Inv
<1> USE DEF FlagsOK, End, turnVars, pumpVars, acceptVars
<1>1. CASE BeginAttempt \/ BudgetSpent \/ RequestCancelled \/ ConnectRejected \/ BackoffOver
  BY Zenon, <1>1 DEF BeginAttempt, BudgetSpent, RequestCancelled, ConnectRejected, BackoffOver
<1>2. CASE RequestTimesOut
  BY Zenon, <1>2 DEF RequestTimesOut
<1>3. CASE ConnectFails
  BY Zenon, <1>3 DEF ConnectFails
<1>4. CASE DelayOver
  BY Zenon, <1>4 DEF DelayOver
<1>5. CASE Connected
  BY Zenon, <1>5 DEF Connected, OpenStream
<1>6. ASSUME NEW k \in Kinds, PumpReads(k) PROVE FlagsOK'
  BY Zenon, <1>6 DEF PumpReads
<1>7. CASE PumpSends \/ PumpStops
  BY Zenon, <1>7 DEF PumpSends, PumpStops, PumpLosesReceiver, PumpSeesCancellation, StreamEnds
<1>8. CASE Receive
  BY Zenon, <1>8 DEF Receive, HoldsAfter
<1>9. CASE Leaves
  BY Zenon, <1>9 DEF Leaves, ReceiveCancelled, TaskAborted
<1>10. CASE ChannelCloses \/ DeadlinePasses
  BY Zenon, <1>10 DEF ChannelCloses, DeadlinePasses, Flush
<1>11. CASE FinishAttempt
  <2>1. /\ retryable' \in BOOLEAN /\ rxOpen' = FALSE
        /\ UNCHANGED <<cancelled, firstChunk, deadline, heldBack>>
    BY Zenon, <1>11 DEF FinishAttempt
  <2> QED BY Zenon, <2>1
<1>12. CASE Tick \/ Cancel \/ NextRun \/ UNCHANGED vars
  BY Zenon, <1>12 DEF Tick, Cancel, NextRun, vars
<1> QED BY <1>1, <1>2, <1>3, <1>4, <1>5, <1>6, <1>7, <1>8, <1>9, <1>10, <1>11, <1>12
    DEF Next, Provider, Pump, Turn, PumpStops, Leaves

(* Every step keeps the counters within their limits (the retry guards of   *)
(* create_message_with_retry and AttemptsLeft) and the channel within its   *)
(* capacity.                                                                *)
LEMMA ValuesNext == Inv /\ [Next]_vars => ValuesOK'
<1> SUFFICES ASSUME Inv, [Next]_vars PROVE ValuesOK'
  OBVIOUS
<1> USE StreamBounds
<1>0. ValuesOK
  BY TypeParts DEF Inv
<1> USE DEF Places
<1>1. CASE BeginAttempt \/ BackoffOver
  <2>1. /\ at' = "connect" /\ tries' \in {0, tries}
        /\ UNCHANGED <<mode, outcome, attempt, failures, spent, pumpVars, acceptVars>>
    BY <1>1 DEF BeginAttempt, BackoffOver
  <2> QED BY <1>0, <2>1 DEF ValuesOK, pumpVars, acceptVars
<1>2. CASE BudgetSpent \/ RequestCancelled \/ RequestTimesOut \/ ConnectRejected \/ DelayOver
  BY <1>0, <1>2 DEF BudgetSpent, RequestCancelled, RequestTimesOut, ConnectRejected, DelayOver, End,
                    ValuesOK, pumpVars, acceptVars
<1>3. CASE ConnectFails
  BY <1>0, <1>3 DEF ConnectFails, MayReconnect, End, ValuesOK, pumpVars, acceptVars
<1>4. CASE Connected /\ cancelled
  BY <1>0, <1>4 DEF Connected, End, ValuesOK
<1>5. CASE Connected /\ ~cancelled
  <2>1. /\ sent' \in Seq(Kinds) /\ channel' \in Seq(1 .. MaxChunks)
        /\ got' \in Seq(1 .. MaxChunks) /\ kept' \in Seq(OutputKinds)
        /\ Len(sent') = 0 /\ Len(channel') = 0
    BY <1>5 DEF Connected, OpenStream
  <2>2. failure' = noFailure
    BY <1>5 DEF Connected, OpenStream
  <2>3. failure' \in [beforeOutput: BOOLEAN, beforeVisible: BOOLEAN, errored: BOOLEAN, fatal: BOOLEAN]
    BY <2>2 DEF noFailure
  <2> QED BY <1>0, <1>5, <2>1, <2>3 DEF Connected, OpenStream, ValuesOK
<1>6. ASSUME NEW k \in Kinds, PumpReads(k) PROVE ValuesOK'
  BY <1>0, <1>6 DEF PumpReads, ValuesOK, turnVars, acceptVars, Inv, TurnShape
<1>7. CASE PumpSends
  BY <1>0, <1>7 DEF PumpSends, Held, ValuesOK, turnVars, acceptVars, Inv, InOrder, Holding
<1>8. CASE PumpStops
  BY <1>0, <1>8 DEF PumpStops, PumpLosesReceiver, PumpSeesCancellation, StreamEnds, ValuesOK,
                    turnVars, acceptVars
<1>9. CASE Receive
  <2> DEFINE kind == sent[Head(channel)]
  <2>1. /\ Head(channel) \in 1 .. MaxChunks /\ kind \in Kinds
        /\ sent \in Seq(Kinds) /\ channel \in Seq(1 .. MaxChunks) /\ channel # <<>>
        /\ got \in Seq(1 .. MaxChunks) /\ kept \in Seq(OutputKinds) /\ shown \in Seq(OutputKinds)
    BY <1>0, <1>9, NextChunk DEF Receive, ValuesOK
  <2>2. got' \in Seq(1 .. MaxChunks) /\ channel' \in Seq(1 .. MaxChunks) /\ Len(channel') <= Capacity
    BY <1>0, <1>9, <2>1 DEF Receive, ValuesOK
  <2>3. failure' \in [beforeOutput: BOOLEAN, beforeVisible: BOOLEAN, errored: BOOLEAN, fatal: BOOLEAN]
    BY <1>0, <1>9 DEF Receive, AfterError, ValuesOK
  <2>4. Released(kind) \in Seq(OutputKinds)
    BY ReleasedType
  <2>5. kept' \in Seq(OutputKinds) /\ shown' \in Seq(OutputKinds)
    BY <1>9, <2>1, <2>4 DEF Receive
  <2> QED BY <1>0, <1>9, <2>2, <2>3, <2>5 DEF Receive, ValuesOK, turnVars
<1>10. CASE Leaves
  <2>1. /\ at' = "done" /\ outcome' \in {"cancelled", "aborted"} /\ channel' = <<>>
        /\ UNCHANGED <<mode, attempt, tries, failures, spent, sent, pump, orphanReads, got, kept,
                       failure, shown>>
    BY <1>10 DEF Leaves, ReceiveCancelled, TaskAborted, End
  <2>2. channel' \in Seq(1 .. MaxChunks) /\ Len(channel') = 0
    BY <2>1
  <2> QED BY <1>0, <2>1, <2>2 DEF ValuesOK
<1>11. CASE ChannelCloses \/ DeadlinePasses
  <2>1. kept' \in Seq(OutputKinds) /\ shown' \in Seq(OutputKinds)
    BY <1>0, <1>11, FlushEffect DEF ChannelCloses, DeadlinePasses, ValuesOK
  <2> QED BY <1>0, <1>11, <2>1 DEF ChannelCloses, DeadlinePasses, ValuesOK, pumpVars
<1>12. CASE FinishAttempt
  <2>1. /\ at' \in {"done", "delay"} /\ outcome' \in {"accepted", "failed", outcome}
        /\ attempt' \in 0 .. MaxStreamRetries
    BY <1>0, <1>12 DEF FinishAttempt, AttemptsLeft, End, ValuesOK
  <2> QED BY <1>0, <1>12, <2>1 DEF FinishAttempt, ValuesOK
<1>13. CASE Tick \/ Cancel \/ NextRun
  <2>1. spent' \in 0 .. Budget
    BY <1>0, <1>13 DEF Tick, Cancel, NextRun, ValuesOK
  <2>2. UNCHANGED <<turnVars, pumpVars, acceptVars>>
    BY <1>13 DEF Tick, Cancel, NextRun
  <2> QED BY <1>0, <2>1, <2>2 DEF ValuesOK, turnVars, pumpVars, acceptVars
<1>14. CASE UNCHANGED vars
  BY <1>0, <1>14 DEF vars, ValuesOK, turnVars, pumpVars, acceptVars
<1> QED BY <1>1, <1>2, <1>3, <1>4, <1>5, <1>6, <1>7, <1>8, <1>9, <1>10, <1>11, <1>12, <1>13, <1>14
    DEF Next, Provider, Pump, Turn, PumpStops, Leaves

-----------------------------------------------------------------------------
(* The kinds of step the rest of the proof distinguishes, and what each of *)
(* the larger ones does to the chunks.                                     *)
Opens == Connected /\ ~cancelled

(* Every step is one of these.                                              *)
LEMMA StepKinds ==
    ASSUME [Next]_vars
    PROVE  \/ Waiting \/ Opens \/ (\E k \in Kinds : PumpReads(k)) \/ PumpSends \/ PumpStops
           \/ Receive \/ Leaves \/ ChannelCloses \/ DeadlinePasses \/ FinishAttempt
           \/ Tick \/ Cancel \/ NextRun \/ UNCHANGED vars
BY WaitingSteps DEF Next, Provider, Pump, Turn, PumpStops, Leaves, Opens

(* An attempt starts with a fresh channel and a fresh accumulator.          *)
LEMMA OpensEffect ==
    ASSUME Opens
    PROVE  /\ at = "connect" /\ at' = "stream" /\ outcome' = outcome /\ pump' = "reading"
           /\ rxOpen' = TRUE /\ deadline' = FALSE /\ failure' = noFailure /\ firstChunk' = FALSE
           /\ sent' = <<>> /\ channel' = <<>> /\ got' = <<>> /\ kept' = <<>> /\ Taken' = {}
           /\ UNCHANGED <<mode, cancelled, shown, orphanReads>>
<1>1. /\ at = "connect" /\ at' = "stream" /\ outcome' = outcome /\ pump' = "reading"
      /\ rxOpen' = TRUE /\ deadline' = FALSE /\ failure' = noFailure /\ firstChunk' = FALSE
      /\ sent' = <<>> /\ channel' = <<>> /\ got' = <<>> /\ kept' = <<>>
      /\ UNCHANGED <<mode, cancelled, shown, orphanReads>>
  BY DEF Opens, Connected, OpenStream
<1>2. Taken' = {}
  BY <1>1 DEF Taken
<1> QED BY <1>1, <1>2

(* Reading a chunk leaves the earlier ones as they were.                    *)
LEMMA ReadsEffect ==
    ASSUME Inv, NEW k \in Kinds, PumpReads(k)
    PROVE  /\ sent' \in Seq(Kinds) /\ Len(sent') = Len(sent) + 1 /\ sent'[Len(sent) + 1] = k
           /\ \A i \in 1 .. Len(sent) : sent'[i] = sent[i]
           /\ Taken' = Taken
<1>1. sent \in Seq(Kinds) /\ sent' = Append(sent, k) /\ got' = got
  BY TypeParts DEF Inv, ValuesOK, PumpReads, acceptVars
<1>2. /\ sent' \in Seq(Kinds) /\ Len(sent') = Len(sent) + 1 /\ sent'[Len(sent) + 1] = k
      /\ \A i \in 1 .. Len(sent) : sent'[i] = sent[i]
  BY <1>1
<1>3. Len(got) \in Nat /\ Len(channel) \in Nat /\ Len(sent) \in Nat /\ Len(got) <= Len(sent)
  BY TypeParts DEF Inv, ValuesOK, InOrder, Holding
<1>4. \A i \in 1 .. Len(got) : sent'[i] = sent[i]
  BY <1>2, <1>3
<1>5. Taken' = {sent'[i] : i \in 1 .. Len(got)}
  BY <1>1 DEF Taken
<1> QED BY <1>2, <1>4, <1>5 DEF Taken

(* Taking a chunk adds it to what was taken.                                *)
LEMMA ReceiveEffect ==
    ASSUME Inv, Receive
    PROVE  /\ got' = Append(got, Len(got) + 1) /\ Len(got') = Len(got) + 1
           /\ Len(got) + 1 <= Len(sent) /\ sent[Head(channel)] = sent[Len(got) + 1]
           /\ \A i \in 1 .. Len(got) : got'[i] = got[i]
           /\ got'[Len(got) + 1] = Len(got) + 1
           /\ Taken' = Taken \cup {sent[Head(channel)]}
           /\ KindsOf(got) = Taken
<1>1. channel # <<>> /\ got' = Append(got, Head(channel)) /\ sent' = sent
  BY DEF Receive
<1>2. /\ Head(channel) = Len(got) + 1 /\ Head(channel) \in 1 .. Len(sent)
      /\ Len(got) \in Nat /\ Len(sent) \in Nat
  BY <1>1, NextChunk
<1>3. got \in Seq(1 .. MaxChunks)
  BY TypeParts DEF Inv, ValuesOK
<1>4. /\ got' = Append(got, Len(got) + 1) /\ Len(got') = Len(got) + 1
      /\ got'[Len(got) + 1] = Len(got) + 1
      /\ \A i \in 1 .. Len(got) : got'[i] = got[i]
  BY <1>1, <1>2, <1>3
<1>5. Taken' = {sent[i] : i \in 1 .. Len(got) + 1}
  BY <1>1, <1>4 DEF Taken
<1>6. 1 .. Len(got) + 1 = (1 .. Len(got)) \cup {Len(got) + 1}
  BY <1>2
<1>7. Taken' = Taken \cup {sent[Len(got) + 1]}
  BY <1>5, <1>6 DEF Taken
<1>8. KindsOf(got) = Taken
  BY DEF KindsOf, Taken, Inv, InOrder
<1> QED BY <1>2, <1>4, <1>7, <1>8

-----------------------------------------------------------------------------
(* The invariant is preserved.                                             *)
(* Every step keeps the shape of the turn; an orphaned pump reads its last  *)
(* chunk when it leaves "reading" for good, since no receiver comes back.   *)
LEMMA ShapeNext == Inv /\ [Next]_vars => TurnShape'
<1> SUFFICES ASSUME Inv, [Next]_vars PROVE TurnShape'
  OBVIOUS
<1>0. TurnShape /\ rxOpen \in BOOLEAN /\ ValuesOK
  BY TypeParts DEF Inv, FlagsOK
<1>1. CASE Waiting
  BY <1>0, <1>1 DEF TurnShape, Waiting, Places, pumpVars, acceptVars
<1>2. CASE Opens
  BY <1>0, <1>2, OpensEffect DEF TurnShape
<1>3. ASSUME NEW k \in Kinds, PumpReads(k) PROVE TurnShape'
  BY <1>0, <1>3 DEF TurnShape, ValuesOK, PumpReads, turnVars, acceptVars
<1>4. CASE PumpSends
  BY <1>0, <1>4 DEF TurnShape, ValuesOK, PumpSends, turnVars, acceptVars
<1>5. CASE PumpStops
  BY <1>0, <1>5 DEF TurnShape, PumpStops, PumpLosesReceiver, PumpSeesCancellation, StreamEnds,
                    turnVars, acceptVars
<1>6. CASE Receive
  BY <1>0, <1>6 DEF TurnShape, Receive, turnVars
<1>7. CASE Leaves
  BY <1>0, <1>7, LeavesEffect DEF TurnShape
<1>8. CASE ChannelCloses
  BY <1>0, <1>8 DEF TurnShape, ChannelCloses, pumpVars
<1>9. CASE DeadlinePasses
  BY <1>0, <1>9 DEF TurnShape, DeadlinePasses
<1>10. CASE FinishAttempt
  BY <1>0, <1>10 DEF TurnShape, FinishAttempt, End
<1>11. CASE Tick \/ Cancel \/ NextRun \/ UNCHANGED vars
  BY <1>0, <1>11 DEF TurnShape, Tick, Cancel, NextRun, vars, turnVars, pumpVars, acceptVars
<1> QED BY <1>1, <1>2, <1>3, <1>4, <1>5, <1>6, <1>7, <1>8, <1>9, <1>10, <1>11, StepKinds

(* Every step keeps the chunks in order; only a cancellation, the deadline  *)
(* or the loss of the receiver makes the pump forget the one it holds.      *)
LEMMA OrderNext == Inv /\ [Next]_vars => InOrder'
<1> SUFFICES ASSUME Inv, [Next]_vars PROVE InOrder'
  OBVIOUS
<1>0. /\ InOrder /\ TurnShape /\ FlagsOK
      /\ sent \in Seq(Kinds) /\ got \in Seq(1 .. MaxChunks) /\ channel \in Seq(1 .. MaxChunks)
      /\ at \in Places \cup {"stream", "finish", "done"} /\ pump \in {"reading", "holding", "ended"}
      /\ Holding \in 0 .. 1 /\ (pump = "ended" => Holding = 0)
  BY TypeParts DEF Inv, ValuesOK, Holding
<1>1. CASE Waiting
  BY <1>0, <1>1 DEF InOrder, Holding, TurnShape, Waiting, Places, pumpVars, acceptVars
<1>2. CASE Opens
  BY <1>0, <1>2, OpensEffect DEF InOrder, Holding
<1>3. ASSUME NEW k \in Kinds, PumpReads(k) PROVE InOrder'
  BY <1>0, <1>3, ReadsEffect DEF InOrder, Holding, TurnShape, PumpReads, turnVars, acceptVars
<1>4. CASE PumpSends
  <2>1. /\ pump = "holding" /\ rxOpen /\ pump' = "reading" /\ channel' = Append(channel, Len(sent))
        /\ UNCHANGED <<at, rxOpen, sent, got, cancelled, deadline>>
    BY <1>4 DEF PumpSends, Held, turnVars, acceptVars
  <2>2. Len(got) + Len(channel) + 1 = Len(sent)
    BY <1>0, <2>1 DEF InOrder, Holding
  <2>3. /\ Len(channel') = Len(channel) + 1
        /\ \A i \in 1 .. Len(channel') : channel'[i] = Len(got) + i
    <3>1. Len(channel) \in Nat /\ Len(got) \in Nat /\ Len(sent) = Len(got) + Len(channel) + 1
      BY <1>0, <2>2
    <3>2. /\ Len(channel') = Len(channel) + 1 /\ channel'[Len(channel) + 1] = Len(sent)
          /\ \A i \in 1 .. Len(channel) : channel'[i] = channel[i]
      BY <1>0, <2>1
    <3>3. \A i \in 1 .. Len(channel) : channel[i] = Len(got) + i
      BY <1>0 DEF InOrder
    <3> QED BY <3>1, <3>2, <3>3
  <2>4. at # "finish"
    BY <1>0, <2>1 DEF TurnShape
  <2> QED BY <1>0, <2>1, <2>2, <2>3, <2>4 DEF InOrder, Holding
<1>5. CASE PumpStops
  <2>1. /\ pump' = "ended" /\ UNCHANGED <<at, rxOpen, sent, got, channel, cancelled, deadline>>
        /\ Holding' = 0
    BY <1>5 DEF PumpStops, PumpLosesReceiver, PumpSeesCancellation, StreamEnds, turnVars, acceptVars,
                Holding
  <2>2. pump = "reading" \/ ~rxOpen \/ cancelled
    BY <1>5 DEF PumpStops, PumpLosesReceiver, PumpSeesCancellation, StreamEnds
  <2>3. pump = "reading" => Holding = 0
    BY DEF Holding
  <2> QED BY <1>0, <2>1, <2>2, <2>3 DEF InOrder
<1>6. CASE Receive
  BY <1>0, <1>6, NextChunk, ReceiveEffect DEF InOrder, Holding, TurnShape, Receive, turnVars
<1>7. CASE Leaves
  BY <1>0, <1>7, LeavesEffect DEF InOrder, Holding
<1>8. CASE ChannelCloses
  BY <1>0, <1>8 DEF InOrder, Holding, ChannelCloses, pumpVars
<1>9. CASE DeadlinePasses
  BY <1>0, <1>9 DEF InOrder, Holding, DeadlinePasses
<1>10. CASE FinishAttempt
  BY <1>0, <1>10 DEF InOrder, Holding, TurnShape, FinishAttempt, End
<1>11. CASE Tick \/ Cancel \/ NextRun \/ UNCHANGED vars
  <2>1. /\ UNCHANGED <<at, pump, rxOpen, sent, got, channel, deadline>>
        /\ (cancelled' => cancelled) => at = "done" \/ UNCHANGED cancelled
    BY <1>11 DEF Tick, Cancel, NextRun, vars, turnVars, pumpVars, acceptVars
  <2>2. Holding' = Holding /\ (at = "done" => ~rxOpen)
    BY <1>0, <2>1 DEF Holding, TurnShape
  <2> QED BY <1>0, <2>1, <2>2 DEF InOrder
<1> QED BY <1>1, <1>2, <1>3, <1>4, <1>5, <1>6, <1>7, <1>8, <1>9, <1>10, <1>11, StepKinds

(* Every step keeps the error state true: push_error compares a retryable   *)
(* error with what came before it, and no output comes after it.            *)
LEMMA FailuresNext == Inv /\ [Next]_vars => FailuresTrue'
<1> SUFFICES ASSUME Inv, [Next]_vars PROVE FailuresTrue'
  OBVIOUS
<1>0. /\ FailuresTrue /\ InOrder /\ TurnShape /\ FlagsOK
      /\ sent \in Seq(Kinds) /\ got \in Seq(1 .. MaxChunks) /\ Len(sent) \in Nat /\ Len(got) \in Nat
      /\ failure \in [beforeOutput: BOOLEAN, beforeVisible: BOOLEAN, errored: BOOLEAN, fatal: BOOLEAN]
      /\ at \in Places \cup {"stream", "finish", "done"}
  BY TypeParts DEF Inv, ValuesOK
<1>1. CASE UNCHANGED <<mode, sent, got, failure, firstChunk, deadline>> /\ (at' = "stream" => at = "stream")
  <2>1. Taken' = Taken /\ Visible' = Visible /\ Substantive' = Substantive
    BY <1>1 DEF Taken, Visible, Substantive
  <2> QED BY <1>0, <1>1, <2>1 DEF FailuresTrue
<1>2. CASE Opens
  BY <1>2, OpensEffect DEF FailuresTrue, noFailure
<1>3. ASSUME NEW k \in Kinds, PumpReads(k) PROVE FailuresTrue'
  <2>1. /\ UNCHANGED <<mode, at, failure, firstChunk, deadline>>
        /\ (\E i \in 1 .. Len(sent) : sent[i] = "retryErr") => k \notin OutputKinds
    BY <1>3 DEF PumpReads, turnVars, acceptVars, SentRetryable
  <2>2. Taken' = Taken /\ Visible' = Visible /\ Substantive' = Substantive
    BY <1>3, <2>1, ReadsEffect DEF Visible, Substantive
  <2>3. \A i, j \in 1 .. Len(sent') : i < j /\ sent'[i] = "retryErr" => sent'[j] \notin OutputKinds
    BY <1>0, <1>3, <2>1, ReadsEffect DEF FailuresTrue
  <2> QED BY <1>0, <2>1, <2>2, <2>3 DEF FailuresTrue
<1>4. CASE Receive
  <2> DEFINE kind == sent[Head(channel)]
  <2>1. /\ at = "stream" /\ at' = "stream" /\ ~deadline
        /\ UNCHANGED <<mode, sent, deadline>>
        /\ firstChunk' = (firstChunk \/ kind \notin ErrorKinds)
        /\ failure' = IF kind \in ErrorKinds THEN AfterError(kind) ELSE failure
    BY <1>0, <1>4 DEF Receive, turnVars, TurnShape
  <2>2. /\ Taken' = Taken \cup {kind} /\ Visible' = Visible /\ Substantive' = Substantive
        /\ KindsOf(got) = Taken /\ kind \in Kinds
    BY <1>4, <2>1, ReceiveEffect, NextChunk DEF Visible, Substantive, Receive
  <2>3. "retryErr" \in Taken => kind \notin OutputKinds
    <3>1. kind = sent[Len(got) + 1] /\ Len(got) + 1 <= Len(sent)
      BY <1>4, ReceiveEffect
    <3>2. ASSUME NEW i \in 1 .. Len(got), sent[i] = "retryErr" PROVE kind \notin OutputKinds
      BY <1>0, <3>1, <3>2 DEF FailuresTrue
    <3> QED BY <3>2 DEF Taken
  <2>4. \A x \in {Visible, Substantive} : x \subseteq OutputKinds
    BY DEF Visible, Substantive, OutputKinds
  <2>5. Visible \subseteq Substantive /\ ErrorKinds \cap OutputKinds = {}
    BY DEF Visible, Substantive, OutputKinds, ErrorKinds
  <2> HIDE DEF kind
  <2>6. CASE kind \notin ErrorKinds
    <3>1. failure' = failure /\ firstChunk' = TRUE /\ kind \notin {"fatalErr", "retryErr"}
      BY <2>1, <2>6 DEF ErrorKinds
    <3>2. failure.beforeOutput \/ failure.beforeVisible => kind \notin OutputKinds
      BY <1>0, <2>1, <2>3 DEF FailuresTrue
    <3> QED BY <1>0, <2>1, <2>2, <2>4, <3>1, <3>2 DEF FailuresTrue
  <2>7. CASE kind = "fatalErr"
    <3>1. failure' = [failure EXCEPT !.errored = TRUE, !.fatal = TRUE] /\ firstChunk' = firstChunk
      <4>1. firstChunk' = firstChunk /\ failure' = AfterError(kind)
        BY <1>0, <2>1, <2>7 DEF ErrorKinds, FlagsOK
      <4>2. AfterError("fatalErr") = [failure EXCEPT !.errored = TRUE, !.fatal = TRUE]
        BY DEF AfterError
      <4> QED BY <2>7, <4>1, <4>2
    <3>2. /\ failure'.fatal /\ failure'.beforeOutput = failure.beforeOutput
          /\ failure'.beforeVisible = failure.beforeVisible
      BY <1>0, <3>1
    <3> QED BY <1>0, <2>1, <2>2, <2>4, <2>5, <2>7, <3>1, <3>2 DEF FailuresTrue, ErrorKinds
  <2>8. CASE kind = "retryErr"
    <3>1. firstChunk' = firstChunk /\ failure' = AfterError(kind) /\ kind # "fatalErr"
      BY <1>0, <2>1, <2>8 DEF ErrorKinds, FlagsOK
    <3>2. /\ failure'.fatal = failure.fatal
          /\ failure'.fatal \/ failure'.errored \/ (failure'.beforeOutput /\ failure'.beforeVisible)
          /\ failure'.beforeOutput => failure.beforeOutput \/ Taken \cap Substantive = {}
          /\ failure'.beforeVisible =>
                failure.beforeVisible \/ Taken \cap Substantive = {} \/ Taken \cap Visible = {}
      <4>1. CASE failure.fatal
        BY <1>0, <2>2, <3>1, <4>1 DEF AfterError
      <4>2. CASE ~failure.fatal /\ Taken \cap Substantive = {}
        BY <1>0, <2>2, <3>1, <4>2 DEF AfterError
      <4>3. CASE ~failure.fatal /\ Taken \cap Substantive # {}
        BY <1>0, <2>2, <3>1, <4>3 DEF AfterError
      <4> QED BY <4>1, <4>2, <4>3
    <3> QED BY <1>0, <2>1, <2>2, <2>4, <2>5, <2>8, <3>1, <3>2 DEF FailuresTrue, ErrorKinds
  <2> QED BY <2>6, <2>7, <2>8 DEF ErrorKinds
<1>5. CASE DeadlinePasses
  <2>1. /\ ~firstChunk /\ firstChunk' = firstChunk /\ at' = "finish"
        /\ UNCHANGED <<mode, sent, got>>
        /\ failure' = [failure EXCEPT !.beforeOutput = TRUE, !.beforeVisible = TRUE]
    BY <1>5 DEF DeadlinePasses
  <2>2. Taken' = Taken /\ Visible' = Visible /\ Substantive' = Substantive
    BY <2>1 DEF Taken, Visible, Substantive
  <2>3. Taken \cap Visible = {} /\ Taken \cap Substantive = {}
    BY <1>0, <2>1 DEF FailuresTrue, Visible, Substantive, ErrorKinds
  <2>4. /\ failure'.beforeOutput /\ failure'.beforeVisible
        /\ failure'.fatal = failure.fatal /\ failure'.errored = failure.errored
    BY <1>0, <2>1
  <2> QED BY <1>0, <2>1, <2>2, <2>3, <2>4 DEF FailuresTrue
<1>6. CASE FinishAttempt
  BY <1>1, <1>6 DEF FinishAttempt, End
<1> QED BY <1>1, <1>2, <1>3, <1>4, <1>5, <1>6, StepKinds, LeavesEffect
    DEF Waiting, Places, PumpSends, PumpStops, PumpLosesReceiver, PumpSeesCancellation, StreamEnds,
        ChannelCloses, Tick, Cancel, NextRun, vars, turnVars, pumpVars, acceptVars

(* Every step keeps what the attempt accumulated at the end of what the     *)
(* turn has shown; an attempt is repeated only if what it took contained    *)
(* no output.                                                               *)
LEMMA ShownNext == Inv /\ [Next]_vars => ShownIsKept'
<1> SUFFICES ASSUME Inv, [Next]_vars PROVE ShownIsKept'
  OBVIOUS
<1>0. /\ ShownIsKept /\ FailuresTrue /\ InOrder /\ TurnShape /\ FlagsOK
      /\ sent \in Seq(Kinds) /\ got \in Seq(1 .. MaxChunks) /\ Len(got) \in Nat
      /\ kept \in Seq(OutputKinds) /\ shown \in Seq(OutputKinds)
      /\ at \in Places \cup {"stream", "finish", "done"}
  BY TypeParts DEF Inv, ValuesOK
<1> USE DEF EndsIn
<1>1. CASE /\ UNCHANGED <<mode, sent, got, kept, shown>>
           /\ at' \in {at, "done"} \/ (at \in Places /\ at' \in Places)
  <2>1. Taken' = Taken /\ Output' = Output
    BY <1>1 DEF Taken, Output, Visible, Substantive
  <2> QED BY <1>0, <1>1, <2>1 DEF ShownIsKept, Places
<1>2. CASE Opens
  BY <1>0, <1>2, OpensEffect DEF ShownIsKept
<1>3. ASSUME NEW k \in Kinds, PumpReads(k) PROVE ShownIsKept'
  <2>1. UNCHANGED <<mode, at, kept, shown>> /\ Taken' = Taken
    BY <1>3, ReadsEffect DEF PumpReads, turnVars, acceptVars
  <2>2. Output' = Output
    BY <2>1 DEF Output, Visible, Substantive
  <2> QED BY <1>0, <2>1, <2>2 DEF ShownIsKept
<1>4. CASE Receive
  <2> DEFINE kind == sent[Head(channel)]
  <2>1. /\ at = "stream" /\ at' = "stream" /\ mode' = mode
        /\ kept' = kept \o Released(kind) /\ shown' = shown \o Released(kind)
        /\ Taken' = Taken \cup {kind}
    BY <1>4, ReceiveEffect DEF Receive, turnVars
  <2>2. Output' = Output
    BY <2>1 DEF Output, Visible, Substantive
  <2>3. EndsIn(shown, kept)'
    <3>1. Released(kind) \in Seq(OutputKinds)
      BY ReleasedType
    <3>2. EndsIn(shown, kept)
      BY <1>0 DEF ShownIsKept
    <3>3. EndsIn(shown \o Released(kind), kept \o Released(kind))
      BY <1>0, <3>1, <3>2, EndsInAppended
    <3> QED BY <2>1, <3>3
  <2>4. kind \notin Output => Released(kind) = <<>>
    BY DEF Released, Output, Visible, Substantive
  <2>5. Taken' \cap Output' = {} => kept' = <<>>
    BY <1>0, <2>1, <2>2, <2>4 DEF ShownIsKept
  <2> QED BY <2>1, <2>3, <2>5 DEF ShownIsKept
<1>5. CASE ChannelCloses \/ DeadlinePasses
  <2>1. /\ at = "stream" /\ at' = "finish" /\ Flush
        /\ UNCHANGED <<mode, sent, got>>
    BY <1>5 DEF ChannelCloses, DeadlinePasses, pumpVars
  <2>2. Taken' = Taken /\ Output' = Output
    BY <2>1 DEF Taken, Output, Visible, Substantive
  <2>3. EndsIn(shown, kept)'
    <3>1. <<"tail">> \in Seq(OutputKinds) /\ EndsIn(shown, kept)
      BY <1>0 DEF ShownIsKept, OutputKinds
    <3>2. EndsIn(shown \o <<"tail">>, kept \o <<"tail">>)
      BY <1>0, <3>1, EndsInAppended
    <3> QED BY <1>0, <2>1, <3>1, <3>2, FlushEffect
  <2>4. Taken' \cap Output' = {} => kept' \in {<<>>, <<"tail">>}
    <3> SUFFICES ASSUME Taken \cap Output = {} PROVE kept' \in {<<>>, <<"tail">>}
      BY <2>2
    <3>1. kept = <<>>
      BY <1>0, <2>1 DEF ShownIsKept
    <3> QED BY <2>1, <3>1 DEF Flush
  <2> QED BY <2>1, <2>3, <2>4 DEF ShownIsKept
<1>6. CASE FinishAttempt
  <2>1. /\ at = "finish" /\ at' \in {"done", "delay"}
        /\ at' = "delay" => RetriesAttempt
        /\ UNCHANGED <<mode, sent, got, kept, shown>>
    BY <1>6 DEF FinishAttempt, End
  <2>2. Taken' = Taken /\ Output' = Output
    BY <2>1 DEF Taken, Output, Visible, Substantive
  <2>3. RetriesAttempt => Taken \cap Output = {}
    BY <1>0 DEF RetriesAttempt, FailuresTrue, Output
  <2> QED BY <1>0, <2>1, <2>2, <2>3 DEF ShownIsKept
<1> QED BY <1>1, <1>2, <1>3, <1>4, <1>5, <1>6, StepKinds, LeavesEffect
    DEF Waiting, PumpSends, PumpStops, PumpLosesReceiver, PumpSeesCancellation, StreamEnds,
        Tick, Cancel, NextRun, vars, turnVars, pumpVars, acceptVars

(* What is accepted is clean when it is accepted, and stays as it was.      *)
LEMMA AcceptedNext == Inv /\ [Next]_vars => AcceptedClean'
<1> SUFFICES ASSUME Inv, [Next]_vars, outcome' = "accepted" PROVE AcceptedClean'
  BY DEF AcceptedClean
<1>0. /\ AcceptedClean /\ FailuresTrue /\ InOrder /\ TurnShape /\ FlagsOK
      /\ sent \in Seq(Kinds) /\ got \in Seq(1 .. MaxChunks) /\ channel \in Seq(1 .. MaxChunks)
  BY TypeParts DEF Inv, ValuesOK
<1>1. CASE outcome = "accepted"
  <2>1. at = "done" /\ pump = "ended" /\ ~rxOpen
    BY <1>0, <1>1 DEF TurnShape, AcceptedClean
  <2>2. UNCHANGED <<cancelled, pump, sent, got>>
    BY <1>1, <2>1, StepKinds, OpensEffect, LeavesEffect
    DEF Waiting, Places, PumpReads, PumpSends, PumpStops, PumpLosesReceiver, PumpSeesCancellation,
        StreamEnds, Receive, ChannelCloses, DeadlinePasses, FinishAttempt, Tick, Cancel, NextRun,
        vars, turnVars, pumpVars, acceptVars
  <2> QED BY <1>0, <1>1, <2>2 DEF AcceptedClean, Taken
<1>2. CASE outcome # "accepted"
  <2>1. FinishAttempt
    BY <1>2, StepKinds, OpensEffect, LeavesEffect
    DEF Waiting, PumpReads, PumpSends, PumpStops, PumpLosesReceiver, PumpSeesCancellation,
        StreamEnds, Receive, ChannelCloses, DeadlinePasses, Tick, Cancel, NextRun,
        vars, turnVars, pumpVars, acceptVars
  <2>2. /\ at = "finish" /\ UNCHANGED <<cancelled, pump, sent, got>>
        /\ ~failure.fatal /\ ~RetriesAttempt /\ ~failure.errored
    BY <1>2, <2>1 DEF FinishAttempt, End
  <2>3. pump = "ended" /\ rxOpen
    BY <1>0, <2>2 DEF TurnShape
  <2>4. ~deadline /\ "retryErr" \notin Taken /\ "fatalErr" \notin Taken
    BY <1>0, <2>2 DEF FailuresTrue, RetriesAttempt
  <2>5. ~cancelled => Len(got) = Len(sent)
    BY <1>0, <2>2, <2>3, <2>4 DEF InOrder, Holding
  <2> QED BY <2>2, <2>3, <2>4, <2>5 DEF AcceptedClean, Taken, ErrorKinds
<1> QED BY <1>1, <1>2

-----------------------------------------------------------------------------
(* The theorems.                                                           *)
(* The inductive invariant.                                                 *)
THEOREM Invariance == Spec => []Inv
<1>1. Inv /\ [Next]_vars => Inv'
  BY FlagsNext, ValuesNext, TypeParts, ShapeNext, OrderNext, FailuresNext, ShownNext, AcceptedNext DEF Inv
<1> QED BY InvInit, <1>1, PTL DEF Spec

(* Every variable has its type: attempts and retries stay within their      *)
(* limits, the channel within its capacity.                                 *)
THEOREM TypeCorrect == Spec => []TypeOK
<1>1. Inv => TypeOK
  BY DEF Inv
<1> QED BY <1>1, Invariance, PTL

(* An answer accepted while nobody cancelled is all the provider sent, in   *)
(* order and without an error (the pump, StreamAccumulator::finish).        *)
THEOREM AcceptedAnswerIsWhole == Spec => []AcceptedIsWhole
<1>1. Inv => AcceptedIsWhole
  <2> SUFFICES ASSUME Inv, outcome = "accepted", ~cancelled PROVE AcceptedIsWhole
    BY DEF AcceptedIsWhole
  <2>1. got \in Seq(1 .. MaxChunks) /\ Len(got) = Len(sent) /\ \A i \in 1 .. Len(got) : got[i] = i
    BY TypeParts DEF Inv, ValuesOK, AcceptedClean, InOrder
  <2>2. KindsOf(got) = Taken
    BY <2>1 DEF KindsOf, Taken
  <2>3. KindsOf(got) \cap ErrorKinds = {}
    BY <2>2 DEF Inv, AcceptedClean
  <2> QED BY <2>1, <2>3 DEF AcceptedIsWhole
<1> QED BY <1>1, Invariance, PTL

(* The pump of a turn that is over reads at most one more chunk, for any    *)
(* number of later runs that clear the flag it polls.                       *)
THEOREM OrphanStops == Spec => []OrphanReadsOnce
<1>1. Inv => OrphanReadsOnce
  BY TypeParts DEF Inv, ValuesOK, TurnShape, OrphanReadsOnce
<1> QED BY <1>1, Invariance, PTL

(* The request phase implements AnswerStream: over all attempts and retries *)
(* the output only grows, an answer is begun again only when nothing of it  *)
(* was shown but a tail the thinking filter held back, and the accepted     *)
(* answer is what was shown since it was begun (the retry decision of       *)
(* execute_turn, StreamAccumulator::finish).                                *)
THEOREM ImplementsAnswerStream == Spec => ShowsOneAnswer
<1>1. Init => Answer!Init
  BY DEF Init, Answer!Init
<1>2. Inv /\ [Next]_vars => [Answer!Next]_(Answer!vars)
  <2> SUFFICES ASSUME Inv, [Next]_vars PROVE Answer!Next \/ UNCHANGED Answer!vars
    OBVIOUS
  <2> USE DEF Answer!vars
  <2>0. TurnShape /\ ShownIsKept /\ ValuesOK
    BY TypeParts DEF Inv
  <2>a. Answer!Current = kept
    BY <2>0, EndsInLast DEF Answer!Current, ValuesOK, ShownIsKept
  <2>1. CASE UNCHANGED <<shown, outcome, kept>>
    BY <2>1
  <2>2. CASE Waiting
    BY <2>0, <2>2 DEF Waiting, Places, acceptVars, TurnShape, Answer!Next, Answer!GiveUp
  <2>3. CASE Opens
    <3>1. /\ outcome = "pending" /\ kept \in {<<>>, <<"tail">>}
          /\ outcome' = outcome /\ shown' = shown /\ kept' = <<>>
      BY <2>0, <2>3, OpensEffect DEF TurnShape, ShownIsKept
    <3>2. Len(shown') - Len(kept') = Len(shown)
      BY <2>0, <3>1 DEF ValuesOK
    <3>3. Answer!BeginAgain
      BY <2>a, <3>1, <3>2 DEF Answer!BeginAgain
    <3> QED BY <3>3 DEF Answer!Next
  <2>4. CASE Receive
    <3> DEFINE kind == sent[Head(channel)]
    <3>1. /\ outcome = "pending" /\ outcome' = outcome
          /\ kept' = kept \o Released(kind) /\ shown' = shown \o Released(kind)
      BY <2>0, <2>4 DEF Receive, turnVars, TurnShape
    <3>2. Released(kind) \in {<<>>, <<kind>>, <<"tail", kind>>} /\ (Released(kind) # <<>> => kind \in OutputKinds)
      BY DEF Released, Output, Visible, Substantive, OutputKinds
    <3>3. Len(shown') - Len(kept') = Len(shown) - Len(kept)
      <4>1. Released(kind) \in Seq(OutputKinds)
        BY ReleasedType
      <4> QED BY <2>0, <3>1, <4>1 DEF ValuesOK
    <3> HIDE DEF kind
    <3>4. CASE Released(kind) = <<>>
      <4>1. kept' = kept /\ shown' = shown
        BY <2>0, <3>1, <3>4 DEF ValuesOK
      <4> QED BY <3>1, <4>1
    <3>5. CASE Released(kind) # <<>>
      <4>1. shown \o <<kind>> = Append(shown, kind)
        BY <2>0, <3>2, <3>5 DEF ValuesOK
      <4>2. shown' \in {Append(shown, kind), shown \o <<"tail", kind>>}
        BY <3>1, <3>2, <3>5, <4>1
      <4> QED BY <3>1, <3>2, <3>3, <3>5, <4>2 DEF Answer!Next, Answer!Show
    <3> QED BY <3>4, <3>5
  <2>5. CASE Leaves
    BY <2>0, <2>5, LeavesEffect DEF TurnShape, Answer!Next, Answer!GiveUp
  <2>6. CASE ChannelCloses \/ DeadlinePasses
    <3>1. outcome = "pending" /\ outcome' = outcome /\ Flush
      BY <2>0, <2>6 DEF ChannelCloses, DeadlinePasses, TurnShape
    <3>2. CASE heldBack
      <4>1. kept' = Append(kept, "tail") /\ shown' = Append(shown, "tail") /\ "tail" \in OutputKinds
        BY <3>1, <3>2 DEF Flush, OutputKinds
      <4>2. Len(shown') - Len(kept') = Len(shown) - Len(kept)
        BY <2>0, <4>1 DEF ValuesOK
      <4> QED BY <3>1, <4>1, <4>2 DEF Answer!Next, Answer!Show
    <3>3. CASE ~heldBack
      BY <3>1, <3>3 DEF Flush
    <3> QED BY <3>2, <3>3
  <2>7. CASE FinishAttempt
    BY <2>0, <2>a, <2>7 DEF FinishAttempt, End, TurnShape, Answer!Next, Answer!GiveUp, Answer!Accept
  <2> QED BY <2>1, <2>2, <2>3, <2>4, <2>5, <2>6, <2>7, StepKinds
      DEF PumpReads, PumpSends, PumpStops, PumpLosesReceiver, PumpSeesCancellation, StreamEnds,
          Tick, Cancel, NextRun, vars, turnVars, pumpVars, acceptVars
<1> QED BY <1>1, <1>2, Invariance, PTL DEF Spec, ShowsOneAnswer, Answer!Spec
=============================================================================
