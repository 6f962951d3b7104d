-------------------------- MODULE ClaimProxyProofs --------------------------
(***************************************************************************)
(* Theorems about ClaimProxy for every number of messages, workers and     *)
(* proxies.                                                                *)
(***************************************************************************)
EXTENDS ClaimProxy, FiniteSetTheorems, TLAPS

\* No proxy runs but the one whose channel the workers hold, and before the
\* first call of Messages nothing has been taken.
OneProxy ==
  /\ \A p \in Proxies : p # out => proxy[p] = "unborn"
  /\ \A p \in Proxies : proxy[p] = "unborn" => open[p] = 0
  /\ out = NoProxy => taken = 0
  /\ out # NoProxy => proxy[out] # "unborn"

\* The messages handed over are the first of the partition: all that were taken,
\* but for one that the proxy offers.
HandedOver ==
  /\ \A i \in 1..Len(delivered) : delivered[i] = i
  /\ Len(delivered) =
       IF out # NoProxy /\ proxy[out] = "hand" THEN taken - 1 ELSE taken

\* The proxy holds the span of the message taken last, until it closes its
\* channel; all earlier ones have ended.
HeldOpen ==
  /\ out # NoProxy => open[out] = taken
  /\ 1..(taken - 1) \subseteq spansEnded

ProxyInv == TypeOK /\ OneProxy /\ HandedOver /\ HeldOpen

-----------------------------------------------------------------------------

\* Before the first message.
LEMMA InitProxyInv == Init => ProxyInv
<1> SUFFICES ASSUME Init PROVE ProxyInv
  OBVIOUS
<1> USE DEF Init
<1>1. TypeOK
  <2>1. <<>> \in Seq(Messages)
    OBVIOUS
  <2>2. 0 \in 0..MaxMessages
    BY MessagesAssumption
  <2>3. taken \in 0..sent
    OBVIOUS
  <2>4. /\ proxy \in [Proxies -> {"unborn", "receive", "hand", "closed"}]
        /\ worker \in [Workers -> {"ready", "waiting", "working", "returned"}]
    OBVIOUS
  <2>5. /\ open \in [Proxies -> Messages \cup {0}]
        /\ message \in [Workers -> Messages \cup {0}]
    OBVIOUS
  <2>6. QED BY <2>1, <2>2, <2>3, <2>4, <2>5 DEF TypeOK
<1>2. OneProxy
  BY DEF OneProxy
<1>3. HandedOver
  BY DEF HandedOver
<1>4. HeldOpen
  BY DEF HeldOpen
<1>5. QED BY <1>1, <1>2, <1>3, <1>4 DEF ProxyInv

\* The steps of the broker and of the workers, which leave the proxy as it is.
LEMMA OthersKeepProxyInv ==
  ASSUME ProxyInv,
         \/ SourceSends
         \/ SourceCloses
         \/ \E w \in Workers : Processed(w) \/ Drained(w) \/ Leaves(w)
         \/ UNCHANGED vars
  PROVE  ProxyInv'
<1>1. UNCHANGED <<taken, proxy, open, out, delivered, spansEnded>>
  BY DEF SourceSends, SourceCloses, Processed, Drained, Leaves, vars, sourceVars,
         proxyVars, workerVars
<1>2. TypeOK'
  <2>1. CASE SourceSends
    BY <1>1, <2>1, MessagesAssumption
    DEF ProxyInv, TypeOK, SourceSends, workerVars, Messages
  <2>2. CASE SourceCloses
    BY <1>1, <2>2 DEF ProxyInv, TypeOK, SourceCloses, workerVars
  <2>3. CASE \E w \in Workers : Processed(w) \/ Drained(w) \/ Leaves(w)
    BY <1>1, <2>3 DEF ProxyInv, TypeOK, Processed, Drained, Leaves, sourceVars
  <2>4. CASE UNCHANGED vars
    BY <1>1, <2>4 DEF ProxyInv, TypeOK, vars, sourceVars, workerVars
  <2>5. QED BY <2>1, <2>2, <2>3, <2>4
<1>3. OneProxy' /\ HandedOver' /\ HeldOpen'
  BY <1>1 DEF ProxyInv, OneProxy, HandedOver, HeldOpen
<1>4. QED BY <1>2, <1>3 DEF ProxyInv

\* The first call of Messages starts the proxy; later ones return its channel.
LEMMA AskKeepsProxyInv ==
  ASSUME ProxyInv, NEW w \in Workers, Ask(w)
  PROVE  ProxyInv'
<1>1. CASE out # NoProxy
  BY <1>1 DEF ProxyInv, TypeOK, OneProxy, HandedOver, HeldOpen, Ask, sourceVars
<1>2. CASE out = NoProxy
  <2>1. PICK p \in Proxies : proxy' = [proxy EXCEPT ![p] = "receive"] /\ out' = p
    BY <1>2 DEF Ask
  <2>2. proxy[p] = "unborn" /\ open[p] = 0 /\ taken = 0 /\ p # NoProxy
    BY <1>2, ProxiesAssumption DEF ProxyInv, OneProxy
  <2>3. UNCHANGED <<sent, closed, taken, open, message, delivered, spansEnded>>
    BY DEF Ask, sourceVars
  <2>4. TypeOK'
    BY <2>1, <2>3 DEF ProxyInv, TypeOK, Ask
  <2>5. OneProxy'
    <3>1. proxy'[p] = "receive"
      BY <2>1 DEF ProxyInv, TypeOK
    <3>2. ASSUME NEW q \in Proxies PROVE q # p => proxy'[q] = "unborn"
      BY <1>2, <2>1, ProxiesAssumption DEF ProxyInv, TypeOK, OneProxy
    <3>3. ASSUME NEW q \in Proxies PROVE open[q] = 0
      BY <1>2, ProxiesAssumption DEF ProxyInv, OneProxy
    <3>4. QED BY <2>1, <2>2, <2>3, <3>1, <3>2, <3>3 DEF OneProxy
  <2>6. HandedOver'
    BY <1>2, <2>1, <2>2, <2>3 DEF ProxyInv, TypeOK, HandedOver
  <2>7. HeldOpen'
    BY <2>1, <2>2, <2>3 DEF ProxyInv, HeldOpen
  <2>8. QED BY <2>4, <2>5, <2>6, <2>7 DEF ProxyInv
<1>3. QED BY <1>1, <1>2

\* A proxy that takes a message is the one whose channel the workers hold.
LEMMA TakeKeepsProxyInv ==
  ASSUME ProxyInv, NEW p \in Proxies, Take(p)
  PROVE  ProxyInv'
<1> USE DEF Take, workerVars
<1>1. p = out /\ p # NoProxy /\ open[p] = taken
  BY ProxiesAssumption DEF ProxyInv, OneProxy, HeldOpen
<1>2. taken \in Nat /\ taken + 1 \in Messages
  BY MessagesAssumption DEF ProxyInv, TypeOK, Messages
<1>3. TypeOK'
  <2>1. spansEnded' \subseteq Messages
    BY DEF ProxyInv, TypeOK
  <2>2. taken' \in 0..sent'
    BY MessagesAssumption DEF ProxyInv, TypeOK
  <2>3. QED BY <1>2, <2>1, <2>2 DEF ProxyInv, TypeOK
<1>4. OneProxy'
  BY <1>1 DEF ProxyInv, TypeOK, OneProxy
<1>5. HandedOver'
  BY <1>1, <1>2 DEF ProxyInv, TypeOK, HandedOver
<1>6. HeldOpen'
  <2>1. open'[out'] = taken'
    BY <1>1 DEF ProxyInv, TypeOK
  <2>2. 1..(taken' - 1) \subseteq spansEnded'
    BY <1>1, <1>2 DEF ProxyInv, HeldOpen
  <2>3. QED BY <2>1, <2>2 DEF HeldOpen
<1>7. QED BY <1>3, <1>4, <1>5, <1>6 DEF ProxyInv

\* The worker gets the message whose span the proxy has just opened.
LEMMA HandKeepsProxyInv ==
  ASSUME ProxyInv, NEW p \in Proxies, NEW w \in Workers, Hand(p, w)
  PROVE  ProxyInv'
<1> USE DEF Hand, sourceVars
<1>1. p = out /\ p # NoProxy /\ open[p] = taken /\ Len(delivered) = taken - 1
  BY ProxiesAssumption DEF ProxyInv, OneProxy, HeldOpen, HandedOver
<1>2. taken \in Messages /\ taken \in Nat
  BY <1>1, MessagesAssumption DEF ProxyInv, TypeOK, Messages
<1>3. delivered' = Append(delivered, taken) /\ delivered \in Seq(Messages)
  BY <1>1 DEF ProxyInv, TypeOK
<1>4. TypeOK'
  BY <1>1, <1>2, <1>3 DEF ProxyInv, TypeOK
<1>5. OneProxy'
  BY <1>1 DEF ProxyInv, TypeOK, OneProxy
<1>6. HandedOver'
  <2>1. Len(delivered') = taken
    BY <1>1, <1>2, <1>3
  <2>2. ASSUME NEW i \in 1..Len(delivered') PROVE delivered'[i] = i
    BY <1>1, <1>2, <1>3, <2>1, <2>2 DEF ProxyInv, HandedOver
  <2>3. proxy'[out'] # "hand"
    BY <1>1 DEF ProxyInv, TypeOK
  <2>4. QED BY <2>1, <2>2, <2>3 DEF HandedOver
<1>7. HeldOpen'
  BY DEF ProxyInv, HeldOpen
<1>8. QED BY <1>4, <1>5, <1>6, <1>7 DEF ProxyInv

\* The proxy's deferred calls.
LEMMA CloseKeepsProxyInv ==
  ASSUME ProxyInv, NEW p \in Proxies, Close(p)
  PROVE  ProxyInv'
<1> USE DEF Close, sourceVars, workerVars
<1>1. p = out
  BY DEF ProxyInv, OneProxy
<1>2. TypeOK'
  BY DEF ProxyInv, TypeOK
<1>3. OneProxy'
  BY <1>1 DEF ProxyInv, TypeOK, OneProxy
<1>4. HandedOver'
  BY <1>1 DEF ProxyInv, TypeOK, HandedOver
<1>5. HeldOpen'
  BY DEF ProxyInv, HeldOpen
<1>6. QED BY <1>2, <1>3, <1>4, <1>5 DEF ProxyInv

\* ProxyInv is inductive.
THEOREM ProxyInvariant == Spec => []ProxyInv
<1>1. ProxyInv /\ [Next]_vars => ProxyInv'
  <2> SUFFICES ASSUME ProxyInv, [Next]_vars PROVE ProxyInv'
    OBVIOUS
  <2>1. CASE SourceSends \/ SourceCloses \/ UNCHANGED vars
    BY <2>1, OthersKeepProxyInv
  <2>2. ASSUME NEW p \in Proxies, ProxyRuns(p) PROVE ProxyInv'
    BY <2>2, TakeKeepsProxyInv, HandKeepsProxyInv, CloseKeepsProxyInv DEF ProxyRuns
  <2>3. ASSUME NEW w \in Workers, WorkerRuns(w) \/ Leaves(w) PROVE ProxyInv'
    BY <2>3, AskKeepsProxyInv, OthersKeepProxyInv DEF WorkerRuns
  <2>4. QED BY <2>1, <2>2, <2>3 DEF Next
<1>2. QED BY <1>1, InitProxyInv, PTL DEF Spec

-----------------------------------------------------------------------------

\* However often and from however many goroutines Messages is called, a message
\* taken from the claim reaches a worker, once and in order, or is on offer on
\* the channel that the workers hold (Messages and its sync.Once).
THEOREM ProxySwallowsNothing == Spec => []NothingSwallowed
<1>1. ProxyInv => NothingSwallowed
  <2> SUFFICES ASSUME ProxyInv PROVE NothingSwallowed
    OBVIOUS
  <2>1. delivered = [i \in 1..Len(delivered) |-> i]
    BY DEF ProxyInv, TypeOK, HandedOver
  <2>2. ASSUME taken # Len(delivered)
        PROVE  taken = Len(delivered) + 1 /\ proxy[out] = "hand" /\ open[out] = taken
    BY <2>2 DEF ProxyInv, TypeOK, HandedOver, HeldOpen
  <2>3. QED BY <2>1, <2>2 DEF NothingSwallowed
<1>2. QED BY <1>1, ProxyInvariant, PTL

\* The proxy has at most one span open (the open.End() of each iteration).
THEOREM ProxyEndsSpans == Spec => []OneOpenSpan
<1>1. ProxyInv => OneOpenSpan
  <2> SUFFICES ASSUME ProxyInv PROVE OneOpenSpan
    OBVIOUS
  <2>1. taken \in Nat /\ 1..taken \ spansEnded \subseteq {taken}
    BY MessagesAssumption DEF ProxyInv, TypeOK, HeldOpen
  <2>2. IsFiniteSet({taken}) /\ Cardinality({taken}) = 1
    BY FS_Singleton
  <2>3. Cardinality(1..taken \ spansEnded) <= 1
    BY <2>1, <2>2, FS_Subset
  <2>4. QED BY <2>3 DEF OneOpenSpan
<1>2. QED BY <1>1, ProxyInvariant, PTL
=============================================================================
