------------------------ MODULE BatchConsumerProofs -------------------------
(***************************************************************************)
(* Theorems about BatchConsumer for every number of messages, every limit  *)
(* and every policy.                                                       *)
(***************************************************************************)
EXTENDS BatchConsumer, Sums, TLAPS

\* Messages are accumulated only between flushes, and a flush has some.
HeldMessages ==
  /\ sent \in 0..MaxMessages
  /\ taken \in 0..sent
  /\ batch \in Seq(Messages)
  /\ flushes \in Seq(Seq(Messages))
  /\ pc # "select" => batch = <<>>
  /\ pc = "flush" => flushes # <<>> /\ Flushing # <<>> /\ visiting \in 0..Len(Flushing)

\* Batch keeps spans only during a flush; under the on-demand policy those of
\* whoever asked last.
HeldSpans ==
  /\ pc # "flush" => running = {} /\ openMessage = 0 /\ visiting = 0
  /\ running \subseteq Messages
  /\ policy = "never" => running = {}
  /\ policy = "on-demand" => running \subseteq {openMessage, Visited}

\* The timer's value is never left over from before the timer was set.
HeldTimer == timer = "fired" => aged

BatchInv == HeldMessages /\ HeldSpans /\ HeldTimer

-----------------------------------------------------------------------------

\* The last batch handed over.
LEMMA LastFlush ==
  ASSUME NEW s \in Seq(Seq(Messages)), s # <<>>
  PROVE  Last(s) \in Seq(Messages)
BY DEF Last

\* What a flush begins with.
LEMMA FlushKeepsBatchInv ==
  ASSUME BatchInv, pc = "select", NEW messages \in Seq(Messages), messages # <<>>,
         NEW why, Flush(messages, why),
         UNCHANGED <<policy, sent>>, taken' \in 0..sent, HeldTimer'
  PROVE  BatchInv'
<1> USE DEF BatchInv, Flush
<1>1. /\ flushes' \in Seq(Seq(Messages))
      /\ flushes' # <<>>
      /\ Last(flushes') = messages
  BY DEF HeldMessages, Last
<1>2. visiting' = 0 /\ openMessage' = 0
  BY DEF HeldSpans
<1>3. Len(messages) \in Nat
  OBVIOUS
<1>4. HeldMessages'
  <2>1. batch' \in Seq(Messages) /\ batch' = <<>>
    OBVIOUS
  <2>2. Flushing' # <<>> /\ visiting' \in 0..Len(Flushing')
    BY <1>1, <1>2, <1>3 DEF Flushing
  <2>3. QED BY <1>1, <2>1, <2>2 DEF HeldMessages
<1>5. HeldSpans'
  <2>1. ToSet(messages) \subseteq Messages
    BY DEF ToSet
  <2>2. running' \subseteq Messages
    BY <2>1
  <2>3. policy' # "always" => running' = {}
    OBVIOUS
  <2>4. QED BY <2>2, <2>3 DEF HeldSpans
<1>6. QED BY <1>4, <1>5

\* The branches of the select.
LEMMA SelectKeepsBatchInv ==
  ASSUME BatchInv, Select
  PROVE  BatchInv'
<1> USE DEF BatchInv
<1>1. CASE Receive
  <2> DEFINE grown == Append(batch, taken + 1)
  <2>1. taken' \in 0..sent /\ taken + 1 \in Messages /\ batch \in Seq(Messages)
    BY <1>1, LimitsAssumption DEF Receive, HeldMessages, Messages
  <2>2. grown \in Seq(Messages) /\ grown # <<>>
    BY <2>1
  <2>3. HeldTimer' /\ UNCHANGED <<policy, sent>> /\ pc = "select"
    BY <1>1 DEF Receive, HeldTimer, sourceVars
  <2>4. CASE Full(grown)
    <3>1. Flush(grown, "full")
      BY <1>1, <2>4 DEF Receive
    <3>2. QED BY <2>1, <2>2, <2>3, <3>1, FlushKeepsBatchInv
  <2>5. CASE ~Full(grown)
    <3>1. batch' = grown /\ UNCHANGED <<pc, trigger, flushes, batchVars>>
      BY <1>1, <2>5 DEF Receive
    <3>2. HeldMessages'
      BY <2>1, <2>2, <2>3, <3>1 DEF HeldMessages
    <3>3. HeldSpans'
      BY <2>3, <3>1 DEF HeldSpans, Visited, Flushing, batchVars
    <3>4. QED BY <2>3, <3>2, <3>3
  <2>6. QED BY <2>4, <2>5
<1>2. CASE ChannelClosed \/ Shutdown
  <2>1. PICK why \in {"channel-closed", "shutdown"} : FlushAndReturn(why)
    BY <1>2 DEF ChannelClosed, Shutdown
  <2>2. /\ UNCHANGED <<policy, sent, taken>> /\ pc = "select" /\ HeldTimer'
        /\ taken \in 0..sent /\ batch \in Seq(Messages)
    BY <1>2, <2>1 DEF ChannelClosed, Shutdown, FlushAndReturn, HeldTimer, HeldMessages,
                      sourceVars
  <2>3. CASE batch # <<>>
    BY <2>1, <2>2, <2>3, FlushKeepsBatchInv DEF FlushAndReturn
  <2>4. CASE batch = <<>>
    <3>1. pc' = "returned" /\ UNCHANGED <<batch, flushes, batchVars>>
      BY <2>1, <2>4 DEF FlushAndReturn
    <3>2. HeldMessages'
      BY <2>2, <2>4, <3>1 DEF HeldMessages
    <3>3. HeldSpans'
      BY <2>2, <3>1 DEF HeldSpans, Visited, Flushing, batchVars
    <3>4. QED BY <2>2, <3>2, <3>3
  <2>5. QED BY <2>3, <2>4
<1>3. CASE MaxWait
  <2>1. UNCHANGED <<policy, sent, taken>> /\ pc = "select" /\ taken \in 0..sent
        /\ batch \in Seq(Messages) /\ HeldTimer'
    BY <1>3 DEF MaxWait, HeldMessages, HeldTimer, sourceVars
  <2>2. CASE batch # <<>>
    BY <1>3, <2>1, <2>2, FlushKeepsBatchInv DEF MaxWait
  <2>3. CASE batch = <<>>
    <3>1. UNCHANGED <<pc, batch, flushes, batchVars>>
      BY <1>3, <2>3 DEF MaxWait
    <3>2. HeldMessages'
      BY <2>1, <3>1 DEF HeldMessages
    <3>3. HeldSpans'
      BY <2>1, <3>1 DEF HeldSpans, Visited, Flushing, batchVars
    <3>4. QED BY <2>1, <3>2, <3>3
  <2>4. QED BY <2>2, <2>3
<1>4. QED BY <1>1, <1>2, <1>3 DEF Select

\* Each comes to a message of the flush.
LEMMA VisitKeepsBatchInv ==
  ASSUME BatchInv, pc = "flush", NEW i \in 1..Len(Flushing), Visit(i),
         running' = (running \ {Visited}) \cup Started(i),
         UNCHANGED <<policy, sourceVars, pc, claimVars, trigger, flushes>>
  PROVE  BatchInv'
<1> USE DEF BatchInv
<1>1. Flushing \in Seq(Messages)
  BY LastFlush DEF HeldMessages, Flushing
<1>2. i # 0 /\ i \in 0..Len(Flushing) /\ Flushing[i] \in Messages /\ Flushing[i] # 0
  BY <1>1, LimitsAssumption DEF Messages
<1>3. visiting' = i /\ Visited' = Flushing[i]
  BY <1>2 DEF Visit, Visited, Flushing
<1>4. HeldMessages'
  BY <1>2, <1>3 DEF HeldMessages, Flushing, sourceVars, claimVars
<1>5. HeldSpans'
  <2>1. running' \subseteq Messages
    BY <1>2 DEF HeldSpans, Started
  <2>2. policy' = "never" => running' = {}
    BY DEF HeldSpans, Started
  <2>3. ASSUME policy' = "on-demand" PROVE running' \subseteq {openMessage', Visited'}
    <3>1. running' \subseteq {openMessage, Flushing[i]}
      BY <2>3 DEF HeldSpans, Started
    <3>2. openMessage' = IF openMessage = Flushing[i] THEN 0 ELSE openMessage
      BY <2>3 DEF Visit
    <3>3. QED BY <1>3, <3>1, <3>2
  <2>4. QED BY <2>1, <2>2, <2>3 DEF HeldSpans
<1>6. HeldTimer'
  BY DEF HeldTimer, claimVars
<1>7. QED BY <1>4, <1>5, <1>6

\* What ConsumeBatch does, and its end.
LEMMA HandlerKeepsBatchInv ==
  ASSUME BatchInv, Handler
  PROVE  BatchInv'
<1> USE DEF BatchInv
<1>1. ASSUME NEW m \in Messages, ContextFor(m) PROVE BatchInv'
  <2> USE <1>1 DEF ContextFor
  <2>1. HeldMessages' /\ HeldTimer'
    BY DEF HeldMessages, HeldTimer, Flushing, sourceVars, claimVars
  <2>2. Visited' = Visited
    BY DEF Visited, Flushing
  <2>3. HeldSpans'
    BY <2>2 DEF HeldSpans
  <2>4. QED BY <2>1, <2>3
<1>2. CASE EachBegins
  <2>1. Flushing \in Seq(Messages) /\ Flushing # <<>>
    BY <1>2, LastFlush DEF EachBegins, HeldMessages, Flushing
  <2>2. 1 \in 1..Len(Flushing)
    BY <2>1
  <2>3. Visited = 0 /\ 0 \notin running
    BY <1>2, LimitsAssumption DEF EachBegins, Visited, HeldSpans, Messages
  <2>4. running' = (running \ {Visited}) \cup Started(1)
    BY <1>2, <2>3 DEF EachBegins
  <2>5. QED BY <1>2, <2>2, <2>4, VisitKeepsBatchInv DEF EachBegins
<1>3. CASE EachContinues
  <2>1. Flushing \in Seq(Messages)
    BY <1>3, LastFlush DEF EachContinues, HeldMessages, Flushing
  <2>2. visiting \in 0..Len(Flushing) /\ visiting < Len(Flushing) /\ Len(Flushing) \in Nat
    BY <1>3, <2>1 DEF EachContinues, HeldMessages
  <2>3. visiting + 1 \in 1..Len(Flushing)
    BY <2>2
  <2>4. QED BY <1>3, <2>3, VisitKeepsBatchInv DEF EachContinues
<1>4. CASE EachReturns
  <2> USE <1>4 DEF EachReturns
  <2>1. Flushing \in Seq(Messages)
    BY LastFlush DEF HeldMessages, Flushing
  <2>2. 0 \in 0..Len(Flushing)
    BY <2>1
  <2>3. HeldMessages' /\ HeldTimer'
    BY <2>2 DEF HeldMessages, HeldTimer, Flushing, sourceVars, claimVars
  <2>4. HeldSpans'
    BY DEF HeldSpans
  <2>5. QED BY <2>3, <2>4
<1>5. CASE HandlerReturns \/ HandlerFails \/ HandlerPanics
  <2>1. /\ pc = "flush" /\ pc' # "flush" /\ End
        /\ UNCHANGED <<policy, sourceVars, taken, batch, flushes>>
    BY <1>5 DEF HandlerReturns, HandlerFails, HandlerPanics, claimVars
  <2>2. HeldMessages'
    BY <2>1 DEF HeldMessages, sourceVars
  <2>3. HeldSpans'
    BY <2>1 DEF HeldSpans, End
  <2>4. HeldTimer'
    BY <1>5 DEF HandlerReturns, HandlerFails, HandlerPanics, HeldTimer, claimVars
  <2>5. QED BY <2>2, <2>3, <2>4
<1>6. QED BY <1>1, <1>2, <1>3, <1>4, <1>5 DEF Handler

\* The broker, the session and the clock.
LEMMA OutsideKeepsBatchInv ==
  ASSUME BatchInv, SourceSends \/ SourceCloses \/ SessionEnds \/ TimerFires \/ UNCHANGED vars
  PROVE  BatchInv'
<1> USE DEF BatchInv
<1>1. UNCHANGED <<policy, pc, taken, batch, flushes, batchVars>>
  BY DEF SourceSends, SourceCloses, SessionEnds, TimerFires, vars, claimVars
<1>2. sent' \in 0..MaxMessages /\ taken' \in 0..sent'
  BY LimitsAssumption
  DEF SourceSends, SourceCloses, SessionEnds, TimerFires, vars, claimVars, sourceVars, HeldMessages
<1>3. HeldMessages'
  BY <1>1, <1>2 DEF HeldMessages, Flushing, batchVars
<1>4. HeldSpans'
  BY <1>1 DEF HeldSpans, Visited, Flushing, batchVars
<1>5. HeldTimer'
  BY DEF SourceSends, SourceCloses, SessionEnds, TimerFires, vars, claimVars, HeldTimer
<1>6. QED BY <1>3, <1>4, <1>5

\* BatchInv is inductive.
THEOREM BatchInvariant == Spec => []BatchInv
<1>1. Init => BatchInv
  BY LimitsAssumption
  DEF Init, BatchInv, HeldMessages, HeldSpans, HeldTimer, Policies
<1>2. BatchInv /\ [Next]_vars => BatchInv'
  BY SelectKeepsBatchInv, HandlerKeepsBatchInv, OutsideKeepsBatchInv DEF Next
<1>3. QED BY <1>1, <1>2, PTL DEF Spec

-----------------------------------------------------------------------------

\* However ConsumeClaim ends, it holds no message back.
THEOREM BatchHoldsNothingBack == Spec => []NothingHeldBack
<1>1. BatchInv => NothingHeldBack
  BY DEF BatchInv, HeldMessages, NothingHeldBack
<1>2. QED BY <1>1, BatchInvariant, PTL

\* No span of a message outlives its flush (Batch.end).
THEOREM FlushEndsSpans == Spec => []SpansEndWithFlush
<1>1. BatchInv => SpansEndWithFlush
  BY DEF BatchInv, HeldSpans, SpansEndWithFlush
<1>2. QED BY <1>1, BatchInvariant, PTL

\* On demand, at most the spans of the last ContextFor and of Each's message run.
THEOREM AskersHoldOneSpan == Spec => []OneRunningPerAsker
<1>1. BatchInv => OneRunningPerAsker
  BY DEF BatchInv, HeldSpans, OneRunningPerAsker
<1>2. QED BY <1>1, BatchInvariant, PTL

\* A value the timer has left behind during a flush flushes nothing (reset).
THEOREM AgedFlushes == Spec => AgedFlushesAreOld
<1>1. ASSUME BatchInv, [Next]_vars, pc = "select", pc' = "flush", trigger' = "max-wait"
      PROVE  aged
  <2>1. Select
    BY <1>1
    DEF Next, SourceSends, SourceCloses, SessionEnds, TimerFires, vars, Handler,
        ContextFor, EachBegins, EachContinues, EachReturns, HandlerReturns,
        HandlerFails, HandlerPanics
  <2>2. CASE MaxWait
    BY <1>1, <2>2 DEF MaxWait, BatchInv, HeldTimer
  <2>3. CASE Receive \/ ChannelClosed \/ Shutdown
    BY <1>1, <2>3 DEF Receive, ChannelClosed, Shutdown, FlushAndReturn, Flush
  <2>4. QED BY <2>1, <2>2, <2>3 DEF Select
<1>2. QED BY <1>1, BatchInvariant, PTL DEF Spec, AgedFlushesAreOld
-----------------------------------------------------------------------------
(* FlattenSeq, which the library defines by a recursive function. *)

FlattenStep(s, h, i) == IF i = 1 THEN s[i] ELSE h[i - 1] \o s[i]

\* The flattened prefixes of s.
FlatPrefixes(s) == CHOOSE h : h = [i \in 1..Len(s) |-> FlattenStep(s, h, i)]

\* The recursion has a solution: one for n prefixes extends to the next.
LEMMA FlatPrefixesExist ==
  ASSUME NEW S, NEW s \in Seq(Seq(S))
  PROVE  \A i \in 1..Len(s) : FlatPrefixes(s)[i] = FlattenStep(s, FlatPrefixes(s), i)
<1> DEFINE Solves(h, n) == h = [i \in 1..n |-> FlattenStep(s, h, i)]
           Failing == {n \in Nat : ~ \E h : Solves(h, n)}
<1>1. Failing = {}
  <2>1. SUFFICES ASSUME Failing # {} PROVE FALSE
    OBVIOUS
  <2>2. PICK n \in Failing : \A m \in Failing : n <= m
    BY <2>1, Smallest
  <2>3. CASE n = 0
    <3>1. Solves([i \in 1..0 |-> 0], 0)
      OBVIOUS
    <3>2. QED BY <2>2, <2>3, <3>1
  <2>4. CASE n # 0
    <3>1. n - 1 \in Nat /\ n - 1 \notin Failing
      BY <2>2, <2>4
    <3>2. PICK h : Solves(h, n - 1)
      BY <3>1
    <3> DEFINE g == [i \in 1..n |-> FlattenStep(s, h, i)]
    <3>3. \A i \in 1..(n - 1) : g[i] = h[i]
      BY <3>1, <3>2
    <3>4. \A i \in 1..n : FlattenStep(s, g, i) = FlattenStep(s, h, i)
      <4>1. \A i \in 1..n : i = 1 \/ i - 1 \in 1..(n - 1)
        BY <3>1
      <4> HIDE DEF g
      <4>2. QED BY <3>3, <4>1 DEF FlattenStep
    <3>5. Solves(g, n)
      BY <3>4
    <3>6. QED BY <3>5, <2>2
  <2>5. QED BY <2>3, <2>4
<1>2. \E h : Solves(h, Len(s))
  <2>1. Len(s) \in Nat
    OBVIOUS
  <2> DEFINE Solvable(n) == \E h : Solves(h, n)
  <2>2. \A n \in Nat : Solvable(n)
    BY <1>1
  <2> HIDE DEF Solvable
  <2>3. Solvable(Len(s))
    BY <2>1, <2>2
  <2>4. QED BY <2>3 DEF Solvable
<1>3. FlatPrefixes(s) = [i \in 1..Len(s) |-> FlattenStep(s, FlatPrefixes(s), i)]
  BY <1>2 DEF FlatPrefixes
<1>4. QED BY <1>3

\* What has been flattened in the end.
LEMMA FlattenUnfolds ==
  ASSUME NEW s
  PROVE  FlattenSeq(s) = IF Len(s) = 0 THEN s ELSE FlatPrefixes(s)[Len(s)]
BY DEF FlattenSeq, FlatPrefixes, FlattenStep

\* One sequence more at the end is one more at the end of the flattened ones.
LEMMA FlattenGrows ==
  ASSUME NEW S, NEW s \in Seq(Seq(S)), NEW x \in Seq(S)
  PROVE  /\ FlattenSeq(s) \in Seq(S)
         /\ FlattenSeq(Append(s, x)) = FlattenSeq(s) \o x
<1> DEFINE t == Append(s, x)
           F == FlatPrefixes(s)
           G == FlatPrefixes(t)
           Good(i) == F[i] \in Seq(S) /\ G[i] = F[i]
           Bad == {i \in 1..Len(s) : ~Good(i)}
<1>1. /\ t \in Seq(Seq(S)) /\ Len(t) = Len(s) + 1 /\ t[Len(t)] = x /\ Len(s) \in Nat
      /\ \A i \in 1..Len(s) : t[i] = s[i] /\ s[i] \in Seq(S)
  OBVIOUS
<1>2. /\ \A i \in 1..Len(s) : F[i] = FlattenStep(s, F, i)
      /\ \A i \in 1..Len(t) : G[i] = FlattenStep(t, G, i)
  BY <1>1, FlatPrefixesExist
<1>3. /\ FlattenSeq(t) = G[Len(t)]
      /\ s # <<>> => FlattenSeq(s) = F[Len(s)]
      /\ s = <<>> => FlattenSeq(s) = <<>>
  <2>1. Len(t) # 0 /\ (s = <<>> <=> Len(s) = 0)
    BY <1>1
  <2> HIDE DEF t
  <2>2. QED BY <2>1, FlattenUnfolds
<1> HIDE DEF t, F, G
<1>4. Bad = {}
  <2>1. SUFFICES ASSUME Bad # {} PROVE FALSE
    OBVIOUS
  <2>2. PICK i \in Bad : \A j \in Bad : i <= j
    <3>1. Bad \in SUBSET Nat
      BY <1>1
    <3> HIDE DEF Bad
    <3>2. QED BY <2>1, <3>1, Smallest
  <2>3. i \in 1..Len(s) /\ i \in 1..Len(t)
    BY <1>1
  <2>4. CASE i = 1
    BY <1>1, <1>2, <2>3, <2>4 DEF FlattenStep
  <2>5. CASE i # 1
    <3>1. i - 1 \in 1..Len(s) /\ i - 1 \notin Bad
      BY <2>2, <2>5
    <3>2. Good(i - 1)
      BY <3>1
    <3>3. F[i] = F[i - 1] \o s[i] /\ G[i] = G[i - 1] \o s[i]
      BY <1>1, <1>2, <2>3, <2>5 DEF FlattenStep
    <3>4. Good(i)
      BY <1>1, <2>3, <3>2, <3>3
    <3>5. QED BY <3>4
  <2>6. QED BY <2>4, <2>5
<1>5. CASE s = <<>>
  <2>1. Len(t) = 1 /\ G[1] = x
    BY <1>1, <1>2, <1>5 DEF FlattenStep
  <2>2. FlattenSeq(s) = <<>> /\ FlattenSeq(t) = x
    BY <1>3, <1>5, <2>1
  <2>3. <<>> \in Seq(S) /\ <<>> \o x = x
    OBVIOUS
  <2>4. QED BY <1>5, <2>2, <2>3 DEF t
<1>6. CASE s # <<>>
  <2>1. Len(s) \in 1..Len(s) /\ Len(t) \in 1..Len(t) /\ Len(t) # 1
    BY <1>1, <1>6
  <2>2. Good(Len(s))
    BY <1>4, <2>1
  <2>3. G[Len(t)] = G[Len(s)] \o x
    <3>1. G[Len(t)] = G[Len(t) - 1] \o t[Len(t)]
      BY <1>2, <2>1 DEF FlattenStep
    <3>2. QED BY <1>1, <3>1
  <2>4. QED BY <1>3, <1>6, <2>2, <2>3 DEF t
<1>7. QED BY <1>5, <1>6

-----------------------------------------------------------------------------
(* What ConsumeClaim hands over. *)

\* A batch without messages has no bytes.
LEMMA NoBytes == Bytes(<<>>) = 0
<1> DEFINE f == [i \in DOMAIN <<>> |-> Size(<<>>[i])]
<1>1. DOMAIN f = {} /\ f \in [{} -> Int]
  OBVIOUS
<1>2. IsFiniteSet({})
  BY FS_EmptySet
<1> HIDE DEF f
<1>3. SumFunctionOnSet(f, {}) = 0
  BY <1>1, <1>2, SumOfZeros
<1>4. QED BY <1>1, <1>3 DEF Bytes, SumFunction, f

\* The size of a batch is a number.
LEMMA BytesCount ==
  ASSUME NEW s \in Seq(Messages)
  PROVE  Bytes(s) \in Int
<1>1. CASE s = <<>>
  BY <1>1, NoBytes
<1>2. CASE s # <<>>
  <2> DEFINE f == [i \in DOMAIN s |-> Size(s[i])]
  <2>1. DOMAIN s = 1..Len(s) /\ Len(s) \in Nat /\ 1 \in DOMAIN s
    BY <1>2
  <2>2. f \in [DOMAIN s -> Int] /\ DOMAIN f = DOMAIN s
    BY DEF Size
  <2>3. IsFiniteSet(DOMAIN s)
    BY <2>1, FS_Interval
  <2> HIDE DEF f
  <2>4. SumFunctionOnSet(f, DOMAIN s) \in Int
    BY <2>1, <2>2, <2>3, SumChanges
  <2>5. QED BY <2>2, <2>4 DEF Bytes, SumFunction, f
<1>3. QED BY <1>1, <1>2

\* A batch before its last message is not full, whether it is still accumulated
\* or has been handed over.
Within(messages) ==
  /\ MaxRecords > 0 => Len(messages) <= MaxRecords
  /\ MaxBytes > 0 => Bytes(Front(messages)) < MaxBytes

\* Nothing is lost, repeated or out of order between the claim and ConsumeBatch,
\* and what is accumulated is not full.
InOrder ==
  /\ FlattenSeq(flushes) \o batch = [i \in 1..taken |-> i]
  /\ \A i \in 1..Len(flushes) : flushes[i] # <<>> /\ Within(flushes[i])
  /\ ~Full(batch)
  /\ batch # <<>> => Within(batch)

\* A flush hands over what was accumulated, and leaves nothing.
LEMMA FlushKeepsInOrder ==
  ASSUME BatchInv, NEW messages \in Seq(Messages), messages # <<>>, Within(messages),
         NEW why, Flush(messages, why),
         FlattenSeq(flushes) \o messages = [i \in 1..taken' |-> i],
         \A i \in 1..Len(flushes) : flushes[i] # <<>> /\ Within(flushes[i])
  PROVE  InOrder'
<1>1. flushes \in Seq(Seq(Messages)) /\ flushes' = Append(flushes, messages) /\ batch' = <<>>
  BY DEF BatchInv, HeldMessages, Flush
<1>2. /\ FlattenSeq(flushes) \in Seq(Messages)
      /\ FlattenSeq(flushes') = FlattenSeq(flushes) \o messages
  BY <1>1, FlattenGrows
<1>3. FlattenSeq(flushes') \o batch' = FlattenSeq(flushes')
  <2>1. FlattenSeq(flushes') \in Seq(Messages)
    <3> DEFINE flat == FlattenSeq(flushes)
    <3>1. flat \in Seq(Messages) /\ FlattenSeq(flushes') = flat \o messages
      BY <1>2
    <3> HIDE DEF flat
    <3>2. QED BY <3>1
  <2>2. QED BY <1>1, <2>1
<1>4. \A i \in 1..Len(flushes') : flushes'[i] # <<>> /\ Within(flushes'[i])
  <2>1. \A i \in 1..Len(flushes') :
          IF i = Len(flushes') THEN flushes'[i] = messages
                               ELSE i \in 1..Len(flushes) /\ flushes'[i] = flushes[i]
    BY <1>1
  <2>2. QED BY <2>1
<1>5. ~Full(batch')
  <2>1. Len(<<>>) = 0
    OBVIOUS
  <2>2. QED BY <1>1, <2>1, NoBytes, LimitsAssumption DEF Full
<1>6. QED
  <2>1. \A m : Within(m)' = Within(m)
    BY DEF Within
  <2>2. \A m : Full(m)' = Full(m)
    BY DEF Full
  <2>3. QED BY <1>1, <1>2, <1>3, <1>4, <1>5 DEF InOrder, Within

\* Every step keeps it.
LEMMA StepKeepsInOrder ==
  ASSUME BatchInv, InOrder, [Next]_vars
  PROVE  InOrder'
<1>1. /\ batch \in Seq(Messages) /\ flushes \in Seq(Seq(Messages))
      /\ taken \in Nat /\ sent \in 0..MaxMessages /\ taken \in 0..sent
  BY DEF BatchInv, HeldMessages
<1>2. /\ FlattenSeq(flushes) \o batch = [i \in 1..taken |-> i]
      /\ \A i \in 1..Len(flushes) : flushes[i] # <<>> /\ Within(flushes[i])
      /\ ~Full(batch)
      /\ batch # <<>> => Within(batch)
  BY DEF InOrder
<1>3. ASSUME UNCHANGED <<batch, taken, flushes>> PROVE InOrder'
  BY <1>3 DEF InOrder, Within, Full
<1>4. CASE Receive
  <2> DEFINE grown == Append(batch, taken + 1)
  <2>1. taken + 1 \in Messages /\ taken' = taken + 1
    BY <1>1, <1>4, LimitsAssumption DEF Receive, Messages
  <2>2. /\ grown \in Seq(Messages) /\ grown # <<>> /\ Len(grown) = Len(batch) + 1
        /\ Front(grown) = batch /\ Len(batch) \in Nat
    <3>1. grown \in Seq(Messages) /\ Len(grown) = Len(batch) + 1 /\ Len(batch) \in Nat
          /\ \A i \in 1..Len(batch) : grown[i] = batch[i]
      BY <1>1, <2>1
    <3>2. grown # <<>>
      <4> HIDE DEF grown
      <4>1. QED BY <3>1
    <3> HIDE DEF grown
    <3>3. Front(grown) = SubSeq(grown, 1, Len(batch))
      BY <3>1 DEF Front
    <3>4. SubSeq(grown, 1, Len(batch)) = batch
      BY <1>1, <3>1
    <3>5. QED BY <3>1, <3>2, <3>3, <3>4
  <2>3. FlattenSeq(flushes) \o grown = [i \in 1..taken' |-> i]
    <3>1. FlattenSeq(flushes) \in Seq(Messages)
      BY <1>1, FlattenGrows
    <3> DEFINE before == FlattenSeq(flushes)
               all == before \o grown
    <3>2. Len(before) \in Nat /\ Len(batch) \in Nat
      BY <1>1, <3>1
    <3>3. before \o batch = [i \in 1..taken |-> i]
      BY <1>2
    <3>4. Len(before) + Len(batch) = taken /\ \A i \in 1..taken : (before \o batch)[i] = i
      <4>1. Len(before \o batch) = Len(before) + Len(batch)
        BY <1>1, <3>1
      <4>2. Len([i \in 1..taken |-> i]) = taken
        BY <1>1
      <4> HIDE DEF before
      <4>3. QED BY <3>3, <4>1, <4>2
    <3>5. all \in Seq(Messages) /\ Len(all) = taken + 1
      BY <1>1, <2>1, <3>1, <3>2, <3>4
    <3>6. \A i \in 1..(taken + 1) : all[i] = i
      <4> HIDE DEF before
      <4>1. \A i \in 1..Len(before) : all[i] = before[i] /\ (before \o batch)[i] = before[i]
        BY <1>1, <2>1, <3>1, <3>2 DEF before
      <4>2. \A i \in 1..Len(batch) :
              /\ all[Len(before) + i] = batch[i]
              /\ (before \o batch)[Len(before) + i] = batch[i]
        BY <1>1, <2>1, <3>1, <3>2 DEF before
      <4>3. all[taken + 1] = taken + 1
        BY <1>1, <2>1, <3>1, <3>2, <3>4 DEF before
      <4>4. ASSUME NEW i \in 1..(taken + 1) PROVE all[i] = i
        <5>1. CASE i = taken + 1
          BY <4>3, <5>1
        <5>2. CASE i \in 1..Len(before)
          BY <1>1, <3>2, <3>4, <4>1, <5>2
        <5>3. CASE i \in (Len(before) + 1)..taken
          <6>1. i - Len(before) \in 1..Len(batch) /\ Len(before) + (i - Len(before)) = i
            BY <1>1, <3>2, <3>4, <5>3
          <6>2. QED BY <1>1, <3>2, <3>4, <4>2, <5>3, <6>1
        <5>4. QED BY <1>1, <3>2, <3>4, <5>1, <5>2, <5>3
      <4>5. QED BY <4>4
    <3> HIDE DEF all
    <3>7. all = [i \in 1..(taken + 1) |-> i]
      BY <1>1, <3>5, <3>6
    <3>8. QED BY <2>1, <3>7 DEF all
  <2>4. Within(grown)
    <3>1. Bytes(batch) \in Int
      BY <1>1, BytesCount
    <3>2. MaxRecords > 0 => Len(grown) <= MaxRecords
      BY <1>2, <2>2, LimitsAssumption DEF Full
    <3>3. MaxBytes > 0 => Bytes(batch) < MaxBytes
      BY <1>2, <3>1, LimitsAssumption DEF Full
    <3>4. QED BY <2>2, <3>2, <3>3 DEF Within
  <2> HIDE DEF grown
  <2>5. CASE Full(grown)
    <3>1. Flush(grown, "full")
      BY <1>4, <2>5 DEF Receive, grown
    <3>2. QED BY <1>2, <2>2, <2>3, <2>4, <3>1, FlushKeepsInOrder
  <2>6. CASE ~Full(grown)
    <3>1. batch' = grown /\ flushes' = flushes
      BY <1>4, <2>6 DEF Receive, grown
    <3>2. QED BY <1>2, <2>3, <2>4, <2>6, <3>1 DEF InOrder, Within, Full
  <2>7. QED BY <2>5, <2>6
<1>5. CASE ChannelClosed \/ Shutdown \/ MaxWait
  <2>1. CASE batch = <<>>
    BY <1>3, <1>5, <2>1 DEF ChannelClosed, Shutdown, MaxWait, FlushAndReturn
  <2>2. CASE batch # <<>>
    <3>1. taken' = taken /\ \E why : Flush(batch, why)
      BY <1>5, <2>2 DEF ChannelClosed, Shutdown, MaxWait, FlushAndReturn
    <3>2. QED BY <1>1, <1>2, <2>2, <3>1, FlushKeepsInOrder
  <2>3. QED BY <2>1, <2>2
<1>6. CASE Handler
  BY <1>3, <1>6
  DEF Handler, ContextFor, EachBegins, EachContinues, EachReturns, HandlerReturns,
      HandlerFails, HandlerPanics, claimVars
<1>7. CASE SourceSends \/ SourceCloses \/ SessionEnds \/ TimerFires \/ UNCHANGED vars
  BY <1>3, <1>7 DEF SourceSends, SourceCloses, SessionEnds, TimerFires, vars, claimVars
<1>8. QED BY <1>4, <1>5, <1>6, <1>7 DEF Next, Select

\* Every message taken from the claim is handed to ConsumeBatch once, in
\* partition order, or is still accumulated, and no batch is over its limits
\* (ConsumeClaim).
THEOREM FlushesInOrder == Spec => []FlushedOnceInOrder
<1>1. Init => InOrder
  <2>1. SUFFICES ASSUME Init PROVE InOrder
    OBVIOUS
  <2>2. flushes = <<>> /\ batch = <<>> /\ taken = 0
    BY <2>1 DEF Init
  <2>3. FlattenSeq(<<>>) = <<>>
    BY DEF FlattenSeq
  <2>4. <<>> \o <<>> = [i \in 1..0 |-> i]
    OBVIOUS
  <2>5. ~Full(<<>>)
    <3>1. Len(<<>>) = 0
      OBVIOUS
    <3>2. QED BY <3>1, NoBytes, LimitsAssumption DEF Full
  <2>6. QED BY <2>2, <2>3, <2>4, <2>5 DEF InOrder
<1>2. BatchInv /\ InOrder /\ [Next]_vars => InOrder'
  BY StepKeepsInOrder
<1>3. InOrder => FlushedOnceInOrder
  BY DEF InOrder, Within, FlushedOnceInOrder
<1>4. QED BY <1>1, <1>2, <1>3, BatchInvariant, PTL DEF Spec

=============================================================================
