-------------------------- MODULE SpanBufferProofs --------------------------
(***************************************************************************)
(* Theorems about SpanBuffer for every number of spans and goroutines and  *)
(* every configured size.                                                  *)
(***************************************************************************)
EXTENDS SpanBuffer, SequenceTheorems, FiniteSetTheorems, TLAPS

-----------------------------------------------------------------------------
(* Lemmas about sequences of records. *)

\* The buffer always has room for one full batch: newSpanBuffer's clamp.
LEMMA SizesClamped ==
  /\ batchSize \in Nat \ {0}
  /\ maxBuffered \in Nat \ {0}
  /\ batchSize <= maxBuffered
BY SizesAssumption DEF batchSize, maxBuffered, requestedBatch

LEMMA RangeOfConcat ==
  ASSUME NEW S, NEW s \in Seq(S), NEW t \in Seq(S)
  PROVE  Range(s \o t) = Range(s) \cup Range(t)
<1>1. Range(s \o t) \subseteq Range(s) \cup Range(t)
  BY DEF Range
<1>2. ASSUME NEW x \in Range(s) PROVE x \in Range(s \o t)
  <2>1. PICK i \in 1..Len(s) : x = s[i]
    BY DEF Range
  <2>2. i \in DOMAIN (s \o t) /\ (s \o t)[i] = x
    BY <2>1
  <2>3. QED BY <2>2 DEF Range
<1>3. ASSUME NEW x \in Range(t) PROVE x \in Range(s \o t)
  <2>1. PICK i \in 1..Len(t) : x = t[i]
    BY DEF Range
  <2>2. Len(s) + i \in DOMAIN (s \o t) /\ (s \o t)[Len(s) + i] = x
    BY <2>1
  <2>3. QED BY <2>2 DEF Range
<1>4. QED BY <1>1, <1>2, <1>3

\* Putting two repetition-free sequences with nothing in common together.
LEMMA ConcatInjective ==
  ASSUME NEW S, NEW s \in Seq(S), NEW t \in Seq(S),
         IsInjective(s), IsInjective(t), Range(s) \cap Range(t) = {}
  PROVE  IsInjective(s \o t)
<1> SUFFICES ASSUME NEW i \in 1..(Len(s) + Len(t)), NEW j \in 1..(Len(s) + Len(t)),
                    (s \o t)[i] = (s \o t)[j]
             PROVE  i = j
  BY DEF IsInjective
<1>1. ASSUME NEW m \in 1..Len(s), NEW n \in 1..Len(t) PROVE s[m] # t[n]
  BY DEF Range
<1>2. CASE i <= Len(s) /\ j <= Len(s)
  BY <1>2 DEF IsInjective
<1>3. CASE i > Len(s) /\ j > Len(s)
  <2>1. t[i - Len(s)] = t[j - Len(s)]
    BY <1>3
  <2>2. i - Len(s) = j - Len(s)
    BY <1>3, <2>1 DEF IsInjective
  <2>3. QED BY <2>2
<1>4. CASE i <= Len(s) /\ j > Len(s)
  BY <1>1, <1>4
<1>5. CASE i > Len(s) /\ j <= Len(s)
  BY <1>1, <1>5
<1>6. QED BY <1>2, <1>3, <1>4, <1>5

\* Cutting a sequence in two loses nothing and, without repetitions, shares
\* nothing between the parts.
LEMMA SplitSequence ==
  ASSUME NEW S, NEW s \in Seq(S), NEW n \in 0..Len(s)
  PROVE  LET a == SubSeq(s, 1, n)
             b == SubSeq(s, n + 1, Len(s))
         IN  /\ a \in Seq(S) /\ Len(a) = n
             /\ b \in Seq(S) /\ Len(b) = Len(s) - n
             /\ Range(a) \cup Range(b) = Range(s)
             /\ IsInjective(s) => /\ IsInjective(a)
                                  /\ IsInjective(b)
                                  /\ Range(a) \cap Range(b) = {}
<1> DEFINE a == SubSeq(s, 1, n)
           b == SubSeq(s, n + 1, Len(s))
<1>1. /\ a \in Seq(S) /\ Len(a) = n
      /\ \A i \in 1..n : a[i] = s[i]
  OBVIOUS
<1>2. /\ b \in Seq(S) /\ Len(b) = Len(s) - n
      /\ \A i \in 1..(Len(s) - n) : b[i] = s[n + i]
  OBVIOUS
<1> HIDE DEF a, b
<1>3. Range(a) \cup Range(b) \subseteq Range(s)
  BY <1>1, <1>2 DEF Range
<1>4. ASSUME NEW i \in 1..Len(s) PROVE s[i] \in Range(a) \cup Range(b)
  <2>1. CASE i <= n
    BY <1>1, <2>1 DEF Range
  <2>2. CASE i > n
    <3>1. i - n \in 1..Len(b) /\ b[i - n] = s[i]
      BY <1>2, <2>2
    <3>2. QED BY <1>2, <3>1 DEF Range
  <2>3. QED BY <2>1, <2>2
<1>5. Range(s) \subseteq Range(a) \cup Range(b)
  BY <1>4 DEF Range
<1>6. ASSUME IsInjective(s)
      PROVE  IsInjective(a) /\ IsInjective(b) /\ Range(a) \cap Range(b) = {}
  <2>1. IsInjective(a)
    BY <1>1, <1>6 DEF IsInjective
  <2>2. IsInjective(b)
    <3> SUFFICES ASSUME NEW i \in 1..(Len(s) - n), NEW j \in 1..(Len(s) - n), b[i] = b[j]
                 PROVE  i = j
      BY <1>2 DEF IsInjective
    <3>1. /\ n + i \in 1..Len(s) /\ n + j \in 1..Len(s)
          /\ s[n + i] = s[n + j]
      BY <1>2
    <3>2. n + i = n + j
      BY <1>6, <3>1 DEF IsInjective
    <3>3. QED BY <3>2
  <2>3. ASSUME NEW x \in Range(a), x \in Range(b) PROVE FALSE
    <3>1. PICK i \in 1..n : x = s[i]
      BY <1>1, <2>3 DEF Range
    <3>2. PICK j \in 1..(Len(s) - n) : x = s[n + j]
      BY <1>2, <2>3 DEF Range
    <3>3. i \in 1..Len(s) /\ n + j \in 1..Len(s) /\ i # n + j
      OBVIOUS
    <3>4. s[i] = s[n + j]
      BY <3>1, <3>2
    <3>5. QED BY <1>6, <3>3, <3>4 DEF IsInjective
  <2>4. QED BY <2>1, <2>2, <2>3
<1>7. QED BY <1>1, <1>2, <1>3, <1>5, <1>6 DEF a, b

\* A sequence without repetitions has as many members as it is long.
LEMMA CardinalityOfRange ==
  ASSUME NEW S, NEW s \in Seq(S), IsInjective(s)
  PROVE  IsFiniteSet(Range(s)) /\ Cardinality(Range(s)) = Len(s)
<1>1. s \in Bijection(1..Len(s), Range(s))
  BY DEF Bijection, Injection, Surjection, Range, IsInjective
<1>2. ExistsBijection(1..Len(s), Range(s))
  BY <1>1 DEF ExistsBijection
<1>3. IsFiniteSet(1..Len(s)) /\ Cardinality(1..Len(s)) = Len(s)
  <2>1. Len(s) \in Nat
    OBVIOUS
  <2>2. Cardinality(1..Len(s)) = IF 1 > Len(s) THEN 0 ELSE Len(s) - 1 + 1
    BY <2>1, FS_Interval
  <2>3. QED BY <2>1, <2>2, FS_Interval
<1>4. QED BY <1>2, <1>3, FS_Bijection

-----------------------------------------------------------------------------
(* Type correctness. *)

LEMMA TypeInit == Init => TypeOK
<1> SUFFICES ASSUME Init PROVE TypeOK
  OBVIOUS
<1>1. pc \in [Procs -> Locations]
  BY DEF Init, Locations
<1>2. <<>> \in Seq(Spans) /\ <<>> \in Seq(Seq(Spans))
  OBVIOUS
<1>3. held \in [Procs -> Seq(Spans)]
  BY <1>2 DEF Init
<1>4. QED
  BY <1>1, <1>2, <1>3 DEF Init, TypeOK

LEMMA TypeStep == TypeOK /\ [Next]_vars => TypeOK'
<1> SUFFICES ASSUME TypeOK, [Next]_vars PROVE TypeOK'
  OBVIOUS
<1> USE DEF TypeOK, Goto, Holds, StartFlush, Return, Locations
<1>1. Main \in Procs /\ Loop \in Procs
  BY DEF Procs
<1>2. ASSUME NEW p \in Procs, NEW s \in Spans, Finish(p, s) PROVE TypeOK'
  <2>1. <<s>> \in Seq(Spans)
    OBVIOUS
  <2>2. QED BY <1>2, <2>1 DEF Finish, envVars
<1>3. ASSUME NEW p \in Procs, AddDrop(p) PROVE TypeOK'
  BY <1>3 DEF AddDrop, envVars
<1>4. ASSUME NEW p \in Procs, AddBank(p) PROVE TypeOK'
  <2>1. spans' \in Seq(Spans)
    BY <1>4 DEF AddBank
  <2>2. pc' \in [Procs -> Locations] /\ all' \in [Procs -> BOOLEAN]
    BY <1>4 DEF AddBank
  <2>3. held' \in [Procs -> Seq(Spans)]
    BY <1>4 DEF AddBank
  <2>4. QED BY <1>4, <2>1, <2>2, <2>3 DEF AddBank, envVars
<1>5. ASSUME NEW p \in Procs, TakeNothing(p) PROVE TypeOK'
  BY <1>5 DEF TakeNothing, bufferVars, envVars
<1>6. ASSUME NEW p \in Procs, Take(p) PROVE TypeOK'
  <2> DEFINE n == TakeCount(all[p])
  <2>1. n \in 0..Len(spans)
    BY SizesClamped DEF TakeCount
  <2>2. SubSeq(spans, 1, n) \in Seq(Spans) /\ SubSeq(spans, n + 1, Len(spans)) \in Seq(Spans)
    BY <2>1, SplitSequence
  <2>3. spans' \in Seq(Spans) /\ held' \in [Procs -> Seq(Spans)]
    BY <1>6, <2>2 DEF Take
  <2>4. QED BY <1>6, <2>3 DEF Take, envVars
<1>7. ASSUME NEW p \in Procs, WriteAccepted(p) PROVE TypeOK'
  <2>1. written' \in Seq(Seq(Spans))
    BY <1>7 DEF WriteAccepted
  <2>2. pc' \in [Procs -> Locations] /\ all' \in [Procs -> BOOLEAN]
    BY <1>7 DEF WriteAccepted
  <2>3. held' \in [Procs -> Seq(Spans)]
    BY <1>7 DEF WriteAccepted
  <2>4. QED BY <1>7, <2>1, <2>2, <2>3 DEF WriteAccepted, bufferVars, envVars
<1>8. ASSUME NEW p \in Procs, WriteRefused(p) PROVE TypeOK'
  BY <1>8 DEF WriteRefused, bufferVars, envVars
<1>9. ASSUME NEW p \in Procs, Requeue(p) PROVE TypeOK'
  <2> DEFINE kept == Least(Len(held[p]), Room)
  <2>1. kept \in 0..Len(held[p])
    BY SizesClamped DEF Least, Room
  <2>2. SubSeq(held[p], 1, kept) \in Seq(Spans)
    BY <2>1, SplitSequence
  <2>3. spans' \in Seq(Spans) /\ dropped' \in Nat
    BY <1>9, <2>1, <2>2 DEF Requeue
  <2>4. QED BY <1>9, <2>3 DEF Requeue, envVars
<1>10. ASSUME NEW p \in Procs, FlushSpans(p) PROVE TypeOK'
  BY <1>10 DEF FlushSpans, bufferVars, envVars
<1>11. CASE Tick
  BY <1>1, <1>11 DEF Tick, bufferVars, envVars
<1>12. CASE LoopExit
  BY <1>1, <1>12 DEF LoopExit, bufferVars, envVars
<1>13. CASE Shutdown
  BY <1>1, <1>13 DEF Shutdown, bufferVars
<1>14. CASE ShutdownJoined
  BY <1>1, <1>14 DEF ShutdownJoined, bufferVars, envVars
<1>15. CASE ShutdownExpired
  BY <1>1, <1>15 DEF ShutdownExpired, bufferVars
<1>16. CASE SpoolToggles
  BY <1>16 DEF SpoolToggles, bufferVars
<1>17. CASE UNCHANGED vars
  BY <1>17 DEF vars, bufferVars, envVars
<1>18. QED
  BY <1>2, <1>3, <1>4, <1>5, <1>6, <1>7, <1>8, <1>9, <1>10, <1>11, <1>12, <1>13,
     <1>14, <1>15, <1>16, <1>17 DEF Next, Flush

\* The variables always have the values their Go types and the goroutines'
\* control allow.
THEOREM TypeCorrect == Spec => []TypeOK
BY TypeInit, TypeStep, PTL DEF Spec

-----------------------------------------------------------------------------
(* The memory bound. *)

\* What a goroutine holds follows from where it is: the one record it is
\* adding, the non-empty batch it is writing or requeueing, else nothing.
Control ==
  \A p \in Procs :
    /\ pc[p] = "add" => Len(held[p]) = 1
    /\ pc[p] \in {"write", "requeue"} => held[p] # <<>>
    /\ pc[p] \notin {"add", "write", "requeue"} => held[p] = <<>>

\* The buffer's bound is inductive only together with Control: add appends
\* what the goroutine holds, so it must be a single record.
BoundInv == Control /\ Bounded

LEMMA BoundInit == Init => BoundInv
BY SizesClamped DEF Init, BoundInv, Control, Bounded

\* A goroutine that holds nothing starts, or ends, a flush.
LEMMA EmptyHandMoves ==
  ASSUME TypeOK, BoundInv,
         NEW p \in Procs, NEW loc \in Locations \ {"add", "write", "requeue"}, NEW b \in BOOLEAN,
         pc[p] \notin {"add", "write", "requeue"},
         pc' = [pc EXCEPT ![p] = loc], all' = [all EXCEPT ![p] = b],
         held' = held, spans' = spans
  PROVE  BoundInv'
<1>1. held[p] = <<>> /\ Len(held[p]) = 0
  BY DEF BoundInv, Control
<1>2. Control'
  BY <1>1 DEF BoundInv, Control, TypeOK
<1>3. ASSUME NEW q \in Procs
      PROVE  Len(held'[q]) <= IF all'[q] THEN maxBuffered ELSE batchSize
  <2>1. CASE q = p
    BY <1>1, <2>1, SizesClamped
  <2>2. CASE q # p
    BY <2>2 DEF BoundInv, Bounded, TypeOK
  <2>3. QED BY <2>1, <2>2
<1>4. QED
  BY <1>2, <1>3 DEF BoundInv, Bounded

LEMMA BoundStep == TypeOK /\ BoundInv /\ [Next]_vars => BoundInv'
<1> SUFFICES ASSUME TypeOK, BoundInv, [Next]_vars PROVE BoundInv'
  OBVIOUS
<1> USE SizesClamped DEF TypeOK, BoundInv, Control, Bounded, Goto, Holds, StartFlush, Return
<1>1. Main \in Procs /\ Loop \in Procs
  BY DEF Procs
<1>2. ASSUME NEW p \in Procs, NEW s \in Spans, Finish(p, s) PROVE BoundInv'
  BY <1>2 DEF Finish, envVars
<1>3. ASSUME NEW p \in Procs, AddDrop(p) PROVE BoundInv'
  BY <1>3 DEF AddDrop, envVars
<1>4. ASSUME NEW p \in Procs, AddBank(p) PROVE BoundInv'
  <2>1. Len(spans') = Len(spans) + 1
    <3> DEFINE h == held[p]
    <3>1. Len(h) = 1 /\ spans' = spans \o h
      BY <1>4 DEF AddBank
    <3>2. h \in Seq(Spans) /\ spans \in Seq(Spans)
      OBVIOUS
    <3> HIDE DEF h
    <3>3. ASSUME NEW S, NEW a \in Seq(S), NEW b \in Seq(S) PROVE Len(a \o b) = Len(a) + Len(b)
      OBVIOUS
    <3>4. Len(spans \o h) = Len(spans) + Len(h)
      BY ONLY <3>2, <3>3
    <3>5. QED BY ONLY <3>1, <3>4
  <2>2. Len(spans') <= maxBuffered
    BY <1>4, <2>1 DEF AddBank
  <2>3. /\ held' = [held EXCEPT ![p] = <<>>]
        /\ pc' \in {[pc EXCEPT ![p] = "take"], [pc EXCEPT ![p] = "idle"]}
        /\ all' \in {[all EXCEPT ![p] = FALSE], all}
    BY <1>4 DEF AddBank
  <2>4. QED BY <2>2, <2>3
<1>5. ASSUME NEW p \in Procs, TakeNothing(p) PROVE BoundInv'
  BY <1>5, EmptyHandMoves DEF TakeNothing, bufferVars, Locations
<1>6. ASSUME NEW p \in Procs, Take(p) PROVE BoundInv'
  <2> DEFINE n == TakeCount(all[p])
             batch == SubSeq(spans, 1, n)
             rest == SubSeq(spans, n + 1, Len(spans))
  <2>1. /\ n \in 1..Len(spans)
        /\ n <= IF all[p] THEN maxBuffered ELSE batchSize
    BY <1>6 DEF Take, TakeCount
  <2>2. Len(batch) = n /\ Len(rest) = Len(spans) - n /\ batch # <<>>
    BY <2>1, SplitSequence
  <2>3. /\ held' = [held EXCEPT ![p] = batch]
        /\ spans' = rest
        /\ pc' = [pc EXCEPT ![p] = "write"]
        /\ all' = all
    BY <1>6 DEF Take
  <2> HIDE DEF n, batch, rest
  <2>4. QED BY <2>1, <2>2, <2>3
<1>7. ASSUME NEW p \in Procs, WriteAccepted(p) PROVE BoundInv'
  <2>1. /\ held' = [held EXCEPT ![p] = <<>>]
        /\ \E loc \in {"take", "idle", "returned", "failed"} : pc' = [pc EXCEPT ![p] = loc]
        /\ all' \in {[all EXCEPT ![p] = FALSE], all}
        /\ spans' = spans
    BY <1>7 DEF WriteAccepted, bufferVars
  <2>2. QED BY <2>1
<1>8. ASSUME NEW p \in Procs, WriteRefused(p) PROVE BoundInv'
  BY <1>8 DEF WriteRefused, bufferVars, envVars
<1>9. ASSUME NEW p \in Procs, Requeue(p) PROVE BoundInv'
  <2> DEFINE kept == Least(Len(held[p]), Room)
             back == SubSeq(held[p], 1, kept)
  <2>1. kept \in 0..Len(held[p]) /\ kept <= maxBuffered - Len(spans)
    BY DEF Least, Room
  <2>2. back \in Seq(Spans) /\ Len(back) = kept
    BY <2>1, SplitSequence
  <2>3. spans' = back \o spans
    BY <1>9 DEF Requeue
  <2>4. Len(spans') <= maxBuffered
    BY <2>1, <2>2, <2>3
  <2>5. /\ held' = [held EXCEPT ![p] = <<>>]
        /\ \E loc \in {"idle", "returned", "failed"} : pc' = [pc EXCEPT ![p] = loc]
        /\ all' = [all EXCEPT ![p] = FALSE]
    BY <1>9 DEF Requeue
  <2>6. QED BY <2>4, <2>5
<1>10. ASSUME NEW p \in Procs, FlushSpans(p) PROVE BoundInv'
  BY <1>10, EmptyHandMoves DEF FlushSpans, bufferVars, Locations
<1>11. CASE Tick
  BY <1>1, <1>11, EmptyHandMoves DEF Tick, bufferVars, Locations
<1>12. CASE LoopExit
  BY <1>1, <1>12 DEF LoopExit, bufferVars, envVars
<1>13. CASE Shutdown
  BY <1>1, <1>13 DEF Shutdown, bufferVars
<1>14. CASE ShutdownJoined
  BY <1>1, <1>14, EmptyHandMoves DEF ShutdownJoined, bufferVars, Locations
<1>15. CASE ShutdownExpired
  BY <1>1, <1>15, EmptyHandMoves DEF ShutdownExpired, bufferVars, Locations
<1>16. CASE SpoolToggles
  BY <1>16 DEF SpoolToggles, bufferVars
<1>17. CASE UNCHANGED vars
  BY <1>17 DEF vars, bufferVars, envVars
<1>18. QED
  BY <1>2, <1>3, <1>4, <1>5, <1>6, <1>7, <1>8, <1>9, <1>10, <1>11, <1>12, <1>13,
     <1>14, <1>15, <1>16, <1>17 DEF Next, Flush

LEMMA BoundInvariant == Spec => []BoundInv
BY BoundInit, BoundStep, TypeCorrect, PTL DEF Spec

\* Whatever the configured sizes, the number of goroutines and the failures of
\* the spool, the buffer keeps within SpanMaxBuffered, and no batch in flight
\* exceeds the bound of the flush that took it (add, take, requeue).
THEOREM BufferBounded == Spec => []Bounded
BY BoundInvariant, PTL DEF BoundInv

-----------------------------------------------------------------------------
(* No span is lost uncounted, and none is recorded twice. *)

\* What the other goroutines hold.
Others(p) == UNION {Range(held[q]) : q \in Procs \ {p}}

Lost == ended \ (InMemory \cup Spooled)

LEMMA DisjointUnionCardinality ==
  ASSUME NEW S, NEW T, IsFiniteSet(S), IsFiniteSet(T), S \cap T = {}
  PROVE  IsFiniteSet(S \cup T) /\ Cardinality(S \cup T) = Cardinality(S) + Cardinality(T)
<1>1. Cardinality(S \cap T) = 0
  BY FS_EmptySet
<1>2. Cardinality(S) \in Nat /\ Cardinality(T) \in Nat
  BY FS_CardinalityType
<1>3. Cardinality(S \cup T) = Cardinality(S) + Cardinality(T) - Cardinality(S \cap T)
  BY FS_Union
<1>4. IsFiniteSet(S \cup T)
  BY FS_Union
<1>5. QED BY <1>1, <1>2, <1>3, <1>4

\* What is in hand, seen from one goroutine.
LEMMA HandOf ==
  ASSUME NEW p \in Procs
  PROVE  InHand = Range(held[p]) \cup Others(p)
BY DEF InHand, Others

\* ... after p's hand has changed.
LEMMA HandChanged ==
  ASSUME TypeOK, NEW p \in Procs, NEW x, held' = [held EXCEPT ![p] = x]
  PROVE  /\ held'[p] = x
         /\ \A q \in Procs \ {p} : held'[q] = held[q]
         /\ InHand' = Range(x) \cup Others(p)
<1>1. held'[p] = x /\ \A q \in Procs \ {p} : held'[q] = held[q]
  BY DEF TypeOK
<1>2. InHand' = UNION {Range(held'[q]) : q \in Procs}
  BY DEF InHand
<1>3. UNION {Range(held'[q]) : q \in Procs} = Range(x) \cup Others(p)
  BY <1>1 DEF Others
<1>4. QED BY <1>1, <1>2, <1>3

\* The four places a span can be, seen from one goroutine, have nothing in
\* common.
LEMMA Apart ==
  ASSUME Unshared, NEW p \in Procs
  PROVE  /\ Range(spans) \cap Range(held[p]) = {}
         /\ Range(spans) \cap Others(p) = {}
         /\ Range(held[p]) \cap Others(p) = {}
         /\ Spooled \cap (Range(spans) \cup Range(held[p]) \cup Others(p)) = {}
BY DEF Unshared, Others

\* A step that moves records between the buffer and p's hand, and counts those
\* it leaves behind, keeps the account right.
LEMMA Rearranged ==
  ASSUME TypeOK, Accounted, NEW p \in Procs, NEW x,
         held' = [held EXCEPT ![p] = x], ended' = ended, written' = written,
         IsInjective(spans'), IsInjective(x),
         Range(spans') \cap Range(x) = {},
         Range(spans') \cup Range(x) \subseteq Range(spans) \cup Range(held[p]),
         dropped' = dropped + Cardinality((Range(spans) \cup Range(held[p]))
                                            \ (Range(spans') \cup Range(x)))
  PROVE  Accounted'
<1> DEFINE M == Range(spans)  H == Range(held[p])  O == Others(p)  W == Spooled
           M1 == Range(spans')  X == Range(x)
           gone == (M \cup H) \ (M1 \cup X)
<1>1. Spooled' = W
  BY DEF Spooled, Documents
<1>2. /\ held'[p] = x
      /\ \A q \in Procs \ {p} : held'[q] = held[q]
      /\ InHand' = X \cup O
  BY HandChanged
<1>3. InHand = H \cup O
  BY HandOf
<1>4. M \cap H = {} /\ M \cap O = {} /\ H \cap O = {} /\ W \cap (M \cup H \cup O) = {}
  BY Apart DEF Accounted
<1>5. M1 \cup X \subseteq M \cup H /\ M1 \cap X = {}
  OBVIOUS
<1>6. Unshared'
  <2>1. ASSUME NEW q \in Procs
        PROVE  /\ IsInjective(held'[q])
               /\ Range(held'[q]) \cap (Range(spans') \cup Spooled') = {}
               /\ \A r \in Procs \ {q} : Range(held'[q]) \cap Range(held'[r]) = {}
    <3>1. \A r \in Procs \ {p} : /\ Range(held[r]) \subseteq O
                                 /\ IsInjective(held[r])
      BY DEF Others, Accounted, Unshared
    <3>2. CASE q = p
      BY <1>1, <1>2, <1>4, <1>5, <3>1, <3>2
    <3>3. CASE q # p
      <4>1. Range(held'[q]) \cap (Range(spans') \cup Spooled') = {}
        BY <1>1, <1>2, <1>4, <1>5, <3>1, <3>3
      <4>2. \A r \in Procs \ {q} : Range(held'[q]) \cap Range(held'[r]) = {}
        <5>1. ASSUME NEW r \in Procs \ {q}, r # p
              PROVE  Range(held'[q]) \cap Range(held'[r]) = {}
          BY <1>2, <3>3, <5>1 DEF Accounted, Unshared
        <5>2. Range(held'[q]) \cap Range(held'[p]) = {}
          BY <1>2, <1>4, <1>5, <3>1, <3>3
        <5>3. QED BY <5>1, <5>2
      <4>3. QED BY <1>2, <3>1, <3>3, <4>1, <4>2
    <3>4. QED BY <3>2, <3>3
  <2>2. M1 \cap Spooled' = {}
    BY <1>1, <1>4, <1>5
  <2>3. \A i \in 1..Len(written') :
          /\ IsInjective(written'[i])
          /\ \A j \in 1..Len(written') :
               i # j => Range(written'[i]) \cap Range(written'[j]) = {}
    BY DEF Accounted, Unshared
  <2>4. QED BY <2>1, <2>2, <2>3 DEF Unshared
<1>7. (InMemory \cup Spooled)' \subseteq ended'
  BY <1>1, <1>2, <1>3, <1>5 DEF Accounted, InMemory
<1>8. Lost' = Lost \cup gone /\ Lost \cap gone = {}
  BY <1>1, <1>2, <1>3, <1>4, <1>5 DEF Accounted, Lost, InMemory
<1>9. IsFiniteSet(Lost) /\ IsFiniteSet(gone)
  <2>1. Lost \subseteq Spans /\ gone \subseteq Spans
    BY <1>3 DEF Accounted, Lost, InMemory, TypeOK
  <2>2. QED BY <2>1, SpansAssumption, FS_Subset
<1>10. Cardinality(Lost') = Cardinality(Lost) + Cardinality(gone)
  BY <1>8, <1>9, DisjointUnionCardinality
<1>11. dropped' = Cardinality(Lost')
  BY <1>10 DEF Accounted, Lost
<1>12. QED
  BY <1>6, <1>7, <1>11 DEF Accounted, Lost

LEMMA EmptyRange == Range(<<>>) = {} /\ IsInjective(<<>>)
BY DEF Range, IsInjective

LEMMA SingleRange ==
  ASSUME NEW x
  PROVE  Range(<<x>>) = {x} /\ IsInjective(<<x>>)
BY DEF Range, IsInjective

LEMMA AccountInit == Init => Accounted
<1> SUFFICES ASSUME Init PROVE Accounted
  OBVIOUS
<1>1. /\ ended = {} /\ spans = <<>> /\ dropped = 0 /\ written = <<>>
      /\ \A p \in Procs : held[p] = <<>>
  BY DEF Init
<1>2. Documents = {} /\ Spooled = {}
  BY <1>1 DEF Documents, Spooled
<1>3. InHand = {} /\ InMemory = {}
  BY <1>1, EmptyRange DEF InHand, InMemory
<1>4. Unshared
  BY <1>1, <1>2, EmptyRange DEF Unshared
<1>5. Cardinality(ended \ (InMemory \cup Spooled)) = 0
  BY <1>1, FS_EmptySet
<1>6. QED BY <1>1, <1>2, <1>3, <1>4, <1>5 DEF Accounted

LEMMA FinishAccounted ==
  ASSUME TypeOK, Control, Accounted, NEW p \in Procs, NEW s \in Spans, Finish(p, s)
  PROVE  Accounted'
<1>1. held' = [held EXCEPT ![p] = <<s>>] /\ held[p] = <<>>
  BY DEF Finish, Holds, Control
<1>2. s \notin ended /\ ended' = ended \cup {s} /\ spans' = spans /\ written' = written
      /\ dropped' = dropped
  BY DEF Finish
<1>3. /\ held'[p] = <<s>>
      /\ \A q \in Procs \ {p} : held'[q] = held[q]
      /\ InHand' = {s} \cup Others(p)
  BY <1>1, HandChanged, SingleRange
<1>4. InHand = Others(p)
  BY <1>1, HandOf, EmptyRange
<1>5. Spooled' = Spooled
  BY <1>2 DEF Spooled, Documents
<1>6. s \notin InMemory \cup Spooled
  BY <1>2 DEF Accounted
<1>7. /\ \A q \in Procs : s \notin Range(held[q])
      /\ s \notin Range(spans') \cup Spooled'
  BY <1>2, <1>5, <1>6 DEF InMemory, InHand
<1>8. Unshared'
  <2>1. ASSUME NEW q \in Procs
        PROVE  /\ IsInjective(held'[q])
               /\ Range(held'[q]) \cap (Range(spans') \cup Spooled') = {}
               /\ \A r \in Procs \ {q} : Range(held'[q]) \cap Range(held'[r]) = {}
    <3>1. CASE q = p
      <4>1. Range(held'[q]) = {s} /\ IsInjective(held'[q])
        BY <1>3, <3>1, SingleRange
      <4>2. \A r \in Procs \ {q} : Range(held'[r]) = Range(held[r])
        BY <1>3, <3>1
      <4>3. QED BY <1>7, <4>1, <4>2
    <3>2. CASE q # p
      <4>1. IsInjective(held'[q]) /\ Range(held'[q]) \cap (Range(spans') \cup Spooled') = {}
        BY <1>2, <1>3, <1>5, <3>2 DEF Accounted, Unshared
      <4>2. ASSUME NEW r \in Procs \ {q} PROVE Range(held'[q]) \cap Range(held'[r]) = {}
        <5>1. CASE r = p
          <6>1. Range(held'[r]) = {s} /\ Range(held'[q]) = Range(held[q])
            BY <1>3, <3>2, <5>1, SingleRange
          <6>2. QED BY <1>7, <6>1
        <5>2. CASE r # p
          BY <1>3, <3>2, <5>2 DEF Accounted, Unshared
        <5>3. QED BY <5>1, <5>2
      <4>3. QED BY <4>1, <4>2
    <3>3. QED BY <3>1, <3>2
  <2>2. QED BY <1>2, <1>5, <2>1 DEF Accounted, Unshared
<1>9. (InMemory \cup Spooled)' = InMemory \cup Spooled \cup {s}
  BY <1>2, <1>3, <1>4, <1>5 DEF InMemory
<1>10. ended' \ (InMemory \cup Spooled)' = ended \ (InMemory \cup Spooled)
  BY <1>2, <1>6, <1>9
<1>11. QED BY <1>2, <1>8, <1>9, <1>10 DEF Accounted

LEMMA AddDropAccounted ==
  ASSUME TypeOK, Control, Accounted, NEW p \in Procs, AddDrop(p)
  PROVE  Accounted'
<1>1. /\ held' = [held EXCEPT ![p] = <<>>]
      /\ ended' = ended /\ written' = written /\ spans' = spans
      /\ dropped' = dropped + 1
  BY DEF AddDrop, Holds
<1>2. Len(held[p]) = 1 /\ held[p] \in Seq(Spans) /\ IsInjective(held[p])
  BY DEF AddDrop, Control, TypeOK, Accounted, Unshared
<1>3. Cardinality(Range(held[p])) = 1
  BY <1>2, CardinalityOfRange
<1>4. (Range(spans) \cup Range(held[p])) \ (Range(spans') \cup Range(<<>>)) = Range(held[p])
  BY <1>1, EmptyRange, Apart DEF Accounted
<1>5. IsInjective(spans')
  BY <1>1 DEF Accounted, Unshared
<1>6. QED
  BY <1>1, <1>3, <1>4, <1>5, EmptyRange, Rearranged

LEMMA AddBankAccounted ==
  ASSUME TypeOK, Accounted, NEW p \in Procs, AddBank(p)
  PROVE  Accounted'
<1>1. /\ held' = [held EXCEPT ![p] = <<>>]
      /\ ended' = ended /\ written' = written /\ spans' = spans \o held[p]
      /\ dropped' = dropped
  BY DEF AddBank, Holds, envVars
<1>2. /\ spans \in Seq(Spans) /\ held[p] \in Seq(Spans)
      /\ IsInjective(spans) /\ IsInjective(held[p])
      /\ Range(spans) \cap Range(held[p]) = {}
  BY Apart DEF TypeOK, Accounted, Unshared
<1>3. IsInjective(spans')
  BY <1>1, <1>2, ConcatInjective
<1>4. Range(spans') = Range(spans) \cup Range(held[p])
  BY <1>1, <1>2, RangeOfConcat
<1>5. (Range(spans) \cup Range(held[p])) \ (Range(spans') \cup Range(<<>>)) = {}
  BY <1>4
<1>6. dropped' = dropped + Cardinality({})
  BY <1>1, FS_EmptySet DEF TypeOK
<1>7. QED
  BY <1>1, <1>3, <1>4, <1>5, <1>6, EmptyRange, Rearranged

LEMMA TakeAccounted ==
  ASSUME TypeOK, Control, Accounted, NEW p \in Procs, Take(p)
  PROVE  Accounted'
<1> DEFINE n == TakeCount(all[p])
           batch == SubSeq(spans, 1, n)
           rest == SubSeq(spans, n + 1, Len(spans))
<1>1. /\ held' = [held EXCEPT ![p] = batch]
      /\ ended' = ended /\ written' = written /\ spans' = rest
      /\ dropped' = dropped
  BY DEF Take, Holds
<1>2. spans \in Seq(Spans) /\ IsInjective(spans) /\ n \in 0..Len(spans)
  BY SizesClamped DEF TypeOK, Accounted, Unshared, TakeCount
<1>3. /\ Range(batch) \cup Range(rest) = Range(spans)
      /\ IsInjective(batch) /\ IsInjective(rest)
      /\ Range(batch) \cap Range(rest) = {}
  BY <1>2, SplitSequence
<1>4. held[p] = <<>>
  BY DEF Take, Control
<1> HIDE DEF n, batch, rest
<1>5. (Range(spans) \cup Range(held[p])) \ (Range(spans') \cup Range(batch)) = {}
  BY <1>1, <1>3, <1>4, EmptyRange
<1>6. dropped' = dropped + Cardinality({})
  BY <1>1, FS_EmptySet DEF TypeOK
<1>7. Range(spans') \cap Range(batch) = {}
  BY <1>1, <1>3
<1>8. Range(spans') \cup Range(batch) \subseteq Range(spans) \cup Range(held[p])
  BY <1>1, <1>3
<1>9. QED
  BY <1>1, <1>3, <1>5, <1>6, <1>7, <1>8, Rearranged

LEMMA RequeueAccounted ==
  ASSUME TypeOK, Accounted, NEW p \in Procs, Requeue(p)
  PROVE  Accounted'
<1> DEFINE h == held[p]
           kept == Least(Len(h), Room)
           back == SubSeq(h, 1, kept)
           gone == SubSeq(h, kept + 1, Len(h))
<1>1. /\ held' = [held EXCEPT ![p] = <<>>]
      /\ ended' = ended /\ written' = written /\ spans' = back \o spans
      /\ dropped' = dropped + (Len(h) - kept)
  BY DEF Requeue, Holds
<1>2. h \in Seq(Spans) /\ IsInjective(h) /\ spans \in Seq(Spans) /\ IsInjective(spans)
  BY DEF TypeOK, Accounted, Unshared
<1>3. kept \in 0..Len(h)
  BY <1>2, SizesClamped DEF Least, Room
<1>4. Range(spans) \cap Range(h) = {}
  BY Apart DEF Accounted
<1> HIDE DEF h, kept
<1>5. /\ back \in Seq(Spans) /\ gone \in Seq(Spans)
      /\ Len(gone) = Len(h) - kept
      /\ Range(back) \cup Range(gone) = Range(h)
      /\ IsInjective(back) /\ IsInjective(gone)
      /\ Range(back) \cap Range(gone) = {}
  BY <1>2, <1>3, SplitSequence
<1> HIDE DEF back, gone
<1>6. Range(spans') = Range(back) \cup Range(spans)
  BY <1>1, <1>2, <1>5, RangeOfConcat
<1>7. IsInjective(spans')
  <2>1. Range(back) \cap Range(spans) = {}
    BY <1>4, <1>5
  <2>2. QED BY <1>1, <1>2, <1>5, <2>1, ConcatInjective
<1>8. (Range(spans) \cup Range(h)) \ (Range(spans') \cup Range(<<>>)) = Range(gone)
  BY <1>4, <1>5, <1>6, EmptyRange
<1>9. Cardinality(Range(gone)) = Len(h) - kept
  BY <1>5, CardinalityOfRange
<1>10. Range(spans') \cup Range(<<>>) \subseteq Range(spans) \cup Range(h)
  BY <1>5, <1>6, EmptyRange
<1>11. dropped' = dropped + Cardinality((Range(spans) \cup Range(h))
                                           \ (Range(spans') \cup Range(<<>>)))
  BY <1>1, <1>8, <1>9
<1>12. QED
  BY <1>1, <1>7, <1>10, <1>11, EmptyRange, Rearranged DEF h

\* One more document in the spool.
LEMMA SpooledMore ==
  ASSUME TypeOK, NEW h \in Seq(Spans), written' = Append(written, h)
  PROVE  /\ Len(written') = Len(written) + 1
         /\ written'[Len(written) + 1] = h
         /\ \A i \in 1..Len(written) : written'[i] = written[i]
         /\ Spooled' = Spooled \cup Range(h)
<1>1. /\ Len(written') = Len(written) + 1
      /\ written'[Len(written) + 1] = h
      /\ \A i \in 1..Len(written) : written'[i] = written[i]
      /\ Len(written) \in Nat
  BY DEF TypeOK
<1>2. Spooled' \subseteq Spooled \cup Range(h)
  <2>1. ASSUME NEW i \in 1..Len(written') PROVE Range(written'[i]) \subseteq Spooled \cup Range(h)
    BY <1>1, <2>1 DEF Spooled, Documents
  <2>2. QED BY <2>1 DEF Spooled, Documents
<1>3. Spooled \subseteq Spooled'
  <2>1. ASSUME NEW i \in 1..Len(written) PROVE Range(written[i]) \subseteq Spooled'
    <3>1. i \in 1..Len(written') /\ written'[i] = written[i]
      BY <1>1
    <3>2. QED BY <3>1 DEF Spooled, Documents
  <2>2. QED BY <2>1 DEF Spooled, Documents
<1>4. Range(h) \subseteq Spooled'
  <2>1. Len(written) + 1 \in 1..Len(written')
    BY <1>1
  <2>2. QED BY <1>1, <2>1 DEF Spooled, Documents
<1>5. QED BY <1>1, <1>2, <1>3, <1>4

LEMMA WriteAcceptedAccounted ==
  ASSUME TypeOK, Accounted, NEW p \in Procs, WriteAccepted(p)
  PROVE  Accounted'
<1> DEFINE h == held[p]
<1>1. /\ held' = [held EXCEPT ![p] = <<>>]
      /\ ended' = ended /\ written' = Append(written, h)
      /\ spans' = spans /\ dropped' = dropped
  BY DEF WriteAccepted, Holds, bufferVars
<1>2. h \in Seq(Spans) /\ IsInjective(h)
  BY DEF TypeOK, Accounted, Unshared
<1>3. /\ Len(written') = Len(written) + 1
      /\ written'[Len(written) + 1] = h
      /\ \A i \in 1..Len(written) : written'[i] = written[i]
      /\ Spooled' = Spooled \cup Range(h)
      /\ Len(written) \in Nat
  BY <1>1, <1>2, SpooledMore DEF TypeOK
<1>4. /\ held'[p] = <<>>
      /\ \A q \in Procs \ {p} : held'[q] = held[q]
      /\ InHand' = Others(p)
  <2>1. /\ held'[p] = <<>>
        /\ \A q \in Procs \ {p} : held'[q] = held[q]
        /\ InHand' = Range(<<>>) \cup Others(p)
    BY <1>1, HandChanged
  <2>2. QED BY <2>1, EmptyRange
<1>5. InHand = Range(h) \cup Others(p)
  BY HandOf
<1>6. /\ Range(spans) \cap Range(h) = {}
      /\ Range(h) \cap Others(p) = {}
      /\ Spooled \cap (Range(spans) \cup Range(h) \cup Others(p)) = {}
  BY Apart DEF Accounted
<1>7. \A i \in 1..Len(written) : Range(written[i]) \subseteq Spooled
  BY DEF Spooled, Documents
<1>8. Unshared'
  <2>1. ASSUME NEW q \in Procs
        PROVE  /\ IsInjective(held'[q])
               /\ Range(held'[q]) \cap (Range(spans') \cup Spooled') = {}
               /\ \A r \in Procs \ {q} : Range(held'[q]) \cap Range(held'[r]) = {}
    <3>1. CASE q = p
      BY <1>4, <3>1, EmptyRange
    <3>2. CASE q # p
      <4>1. Range(held[q]) \subseteq Others(p)
        BY <3>2 DEF Others
      <4>2. \A r \in Procs \ {q} : Range(held'[q]) \cap Range(held'[r]) = {}
        <5>1. Range(held'[q]) \cap Range(held'[p]) = {}
          BY <1>4, EmptyRange
        <5>2. \A r \in Procs \ {q} : r # p => Range(held'[q]) \cap Range(held'[r]) = {}
          BY <1>4, <3>2 DEF Accounted, Unshared
        <5>3. QED BY <5>1, <5>2
      <4>3. IsInjective(held'[q]) /\ Range(held'[q]) \cap (Range(spans') \cup Spooled') = {}
        BY <1>1, <1>3, <1>4, <1>6, <3>2, <4>1 DEF Accounted, Unshared
      <4>4. QED BY <4>2, <4>3
    <3>3. QED BY <3>1, <3>2
  <2>2. Range(spans') \cap Spooled' = {}
    BY <1>1, <1>3, <1>6
  <2>3. ASSUME NEW i \in 1..Len(written'), NEW j \in 1..Len(written')
        PROVE  /\ IsInjective(written'[i])
               /\ i # j => Range(written'[i]) \cap Range(written'[j]) = {}
    <3> HIDE DEF h
    <3>1. CASE i <= Len(written) /\ j <= Len(written)
      <4>1. i \in 1..Len(written) /\ j \in 1..Len(written)
        BY <1>3, <3>1
      <4>2. QED BY <1>3, <4>1 DEF Accounted, Unshared
    <3>2. CASE i > Len(written) /\ j > Len(written)
      <4>1. i = Len(written) + 1 /\ j = Len(written) + 1
        BY <1>3, <3>2
      <4>2. QED BY <1>2, <1>3, <4>1
    <3>3. CASE i > Len(written) /\ j <= Len(written)
      <4>1. i = Len(written) + 1 /\ j \in 1..Len(written)
        BY <1>3, <3>3
      <4>2. QED BY <1>2, <1>3, <1>6, <1>7, <4>1
    <3>4. CASE i <= Len(written) /\ j > Len(written)
      <4>1. j = Len(written) + 1 /\ i \in 1..Len(written)
        BY <1>3, <3>4
      <4>2. QED BY <1>3, <1>6, <1>7, <4>1 DEF Accounted, Unshared
    <3>5. QED BY <1>3, <3>1, <3>2, <3>3, <3>4
  <2>4. IsInjective(spans')
    BY <1>1 DEF Accounted, Unshared
  <2>5. QED BY <2>1, <2>2, <2>3, <2>4 DEF Unshared
<1>9. (InMemory \cup Spooled)' = InMemory \cup Spooled
  BY <1>1, <1>3, <1>4, <1>5 DEF InMemory
<1>10. QED BY <1>1, <1>8, <1>9 DEF Accounted

LEMMA AccountStep == TypeOK /\ Control /\ Accounted /\ [Next]_vars => Accounted'
<1> SUFFICES ASSUME TypeOK, Control, Accounted, [Next]_vars PROVE Accounted'
  OBVIOUS
<1>1. ASSUME ended' = ended, spans' = spans, dropped' = dropped, held' = held, written' = written
      PROVE  Accounted'
  <2>1. Spooled' = Spooled
    BY <1>1 DEF Spooled, Documents
  <2>2. InMemory' = InMemory
    BY <1>1 DEF InMemory, InHand
  <2>3. Unshared'
    BY <1>1, <2>1 DEF Accounted, Unshared
  <2>4. QED BY <1>1, <2>1, <2>2, <2>3 DEF Accounted
<1>2. ASSUME NEW p \in Procs, TakeNothing(p) PROVE Accounted'
  BY <1>1, <1>2 DEF TakeNothing, bufferVars
<1>3. ASSUME NEW p \in Procs, WriteRefused(p) PROVE Accounted'
  BY <1>1, <1>3 DEF WriteRefused, bufferVars
<1>4. ASSUME NEW p \in Procs, FlushSpans(p) PROVE Accounted'
  BY <1>1, <1>4 DEF FlushSpans, bufferVars
<1>5. CASE Tick \/ LoopExit \/ Shutdown \/ ShutdownJoined \/ ShutdownExpired \/ SpoolToggles
  BY <1>1, <1>5 DEF Tick, LoopExit, Shutdown, ShutdownJoined, ShutdownExpired, SpoolToggles,
     bufferVars
<1>6. CASE UNCHANGED vars
  BY <1>1, <1>6 DEF vars, bufferVars
<1>7. ASSUME NEW p \in Procs, NEW s \in Spans, Finish(p, s) PROVE Accounted'
  BY <1>7, FinishAccounted
<1>8. ASSUME NEW p \in Procs, AddDrop(p) PROVE Accounted'
  BY <1>8, AddDropAccounted
<1>9. ASSUME NEW p \in Procs, AddBank(p) PROVE Accounted'
  BY <1>9, AddBankAccounted
<1>10. ASSUME NEW p \in Procs, Take(p) PROVE Accounted'
  BY <1>10, TakeAccounted
<1>11. ASSUME NEW p \in Procs, WriteAccepted(p) PROVE Accounted'
  BY <1>11, WriteAcceptedAccounted
<1>12. ASSUME NEW p \in Procs, Requeue(p) PROVE Accounted'
  BY <1>12, RequeueAccounted
<1>13. QED
  BY <1>2, <1>3, <1>4, <1>5, <1>6, <1>7, <1>8, <1>9, <1>10, <1>11, <1>12 DEF Next, Flush

\* No interleaving of ends, flushes, failures and retries records a span twice
\* or loses one uncounted: DroppedSpans is exactly the number of ended spans
\* that are neither in memory nor in an accepted document.
THEOREM SpansAccounted == Spec => []Accounted
<1>1. BoundInv => Control
  BY DEF BoundInv
<1>2. QED
  BY AccountInit, AccountStep, TypeCorrect, BoundInvariant, <1>1, PTL DEF Spec

-----------------------------------------------------------------------------
(* Action properties. *)

LEMMA ShedStep ==
  TypeOK /\ BoundInv /\ [Next]_vars => (dropped' # dropped => Len(spans') = maxBuffered)
<1> SUFFICES ASSUME TypeOK, BoundInv, [Next]_vars, dropped' # dropped
             PROVE  Len(spans') = maxBuffered
  OBVIOUS
<1>1. Len(spans) \in Nat /\ Len(spans) <= maxBuffered /\ maxBuffered \in Nat
  BY SizesClamped DEF TypeOK, BoundInv, Bounded
<1>2. ASSUME NEW p \in Procs, AddDrop(p) PROVE Len(spans') = maxBuffered
  BY <1>1, <1>2 DEF AddDrop
<1>3. ASSUME NEW p \in Procs, Requeue(p) PROVE Len(spans') = maxBuffered
  <2> DEFINE h == held[p]
             kept == Least(Len(h), Room)
             back == SubSeq(h, 1, kept)
  <2>1. h \in Seq(Spans) /\ spans \in Seq(Spans)
    BY DEF TypeOK
  <2>2. spans' = back \o spans /\ dropped' = dropped + (Len(h) - kept)
    BY <1>3 DEF Requeue
  <2>3. kept \in 0..Len(h) /\ kept # Len(h)
    BY <1>1, <2>1, <2>2 DEF Least, Room, TypeOK
  <2>4. kept = maxBuffered - Len(spans)
    BY <1>1, <2>1, <2>3 DEF Least, Room
  <2> HIDE DEF h, kept
  <2>5. back \in Seq(Spans) /\ Len(back) = kept
    BY <2>1, <2>3, SplitSequence
  <2> HIDE DEF back
  <2>6. Len(back \o spans) = Len(back) + Len(spans)
    BY ONLY <2>1, <2>5, ConcatProperties
  <2>7. QED BY <1>1, <2>2, <2>4, <2>5, <2>6
<1>4. QED
  BY <1>2, <1>3 DEF Next, Flush, Finish, AddBank, TakeNothing, Take, WriteAccepted, WriteRefused,
     FlushSpans, Tick, LoopExit, Shutdown, ShutdownJoined, ShutdownExpired, SpoolToggles,
     vars, bufferVars

\* A span is shed only by a step that leaves the buffer full, whatever other
\* flushes are in flight (add, requeue).
THEOREM ShedOnlyAtCap == Spec => ShedsOnlyAtCap
BY TypeCorrect, BoundInvariant, ShedStep, PTL DEF Spec, ShedsOnlyAtCap

\* Shutdown's goroutine only ever flushes everything, and, unless its deadline
\* expired, only after the loop has exited.
ShutdownInv ==
  /\ pc[Main] # "add"
  /\ pc[Main] \in {"take", "write", "requeue"} =>
       all[Main] /\ (expired \/ pc[Loop] = "exited")

LEMMA ShutdownStep == TypeOK /\ ShutdownInv /\ [Next]_vars => ShutdownInv'
<1> SUFFICES ASSUME TypeOK, ShutdownInv, [Next]_vars PROVE ShutdownInv'
  OBVIOUS
<1> USE ProcsAssumption DEF TypeOK, ShutdownInv, Goto, StartFlush, Return
<1>1. Main \in Procs /\ Loop \in Procs
  BY DEF Procs
<1>2. ASSUME NEW p \in Procs, NEW s \in Spans, Finish(p, s) PROVE ShutdownInv'
  BY <1>1, <1>2 DEF Finish, envVars
<1>3. ASSUME NEW p \in Procs, AddDrop(p) PROVE ShutdownInv'
  BY <1>1, <1>3 DEF AddDrop, envVars
<1>4. ASSUME NEW p \in Procs, AddBank(p) PROVE ShutdownInv'
  <2>1. p # Main /\ expired' = expired
    BY <1>4 DEF AddBank, envVars
  <2>2. /\ pc' \in {[pc EXCEPT ![p] = "take"], [pc EXCEPT ![p] = "idle"]}
        /\ all' \in {[all EXCEPT ![p] = FALSE], all}
        /\ pc[p] = "add"
    BY <1>4 DEF AddBank
  <2>3. QED BY <1>1, <2>1, <2>2
<1>5. ASSUME NEW p \in Procs, TakeNothing(p) PROVE ShutdownInv'
  BY <1>1, <1>5 DEF TakeNothing, envVars
<1>6. ASSUME NEW p \in Procs, Take(p) PROVE ShutdownInv'
  BY <1>1, <1>6 DEF Take, envVars
<1>7. ASSUME NEW p \in Procs, WriteAccepted(p) PROVE ShutdownInv'
  <2>1. expired' = expired /\ pc[p] = "write"
    BY <1>7 DEF WriteAccepted, envVars
  <2>2. CASE all[p]
    BY <1>1, <1>7, <2>1, <2>2 DEF WriteAccepted
  <2>3. CASE ~all[p]
    BY <1>1, <1>7, <2>1, <2>3 DEF WriteAccepted
  <2>4. QED BY <2>2, <2>3
<1>8. ASSUME NEW p \in Procs, WriteRefused(p) PROVE ShutdownInv'
  BY <1>1, <1>8 DEF WriteRefused, envVars
<1>9. ASSUME NEW p \in Procs, Requeue(p) PROVE ShutdownInv'
  BY <1>1, <1>9 DEF Requeue, envVars
<1>10. ASSUME NEW p \in Procs, FlushSpans(p) PROVE ShutdownInv'
  BY <1>1, <1>10 DEF FlushSpans, envVars
<1>11. CASE Tick
  BY <1>1, <1>11 DEF Tick, envVars
<1>12. CASE LoopExit
  BY <1>1, <1>12 DEF LoopExit, envVars
<1>13. CASE Shutdown
  BY <1>1, <1>13 DEF Shutdown
<1>14. CASE ShutdownJoined
  BY <1>1, <1>14 DEF ShutdownJoined, envVars
<1>15. CASE ShutdownExpired
  BY <1>1, <1>15 DEF ShutdownExpired
<1>16. CASE SpoolToggles
  BY <1>16 DEF SpoolToggles
<1>17. CASE UNCHANGED vars
  BY <1>17 DEF vars, envVars
<1>18. QED
  BY <1>2, <1>3, <1>4, <1>5, <1>6, <1>7, <1>8, <1>9, <1>10, <1>11, <1>12, <1>13,
     <1>14, <1>15, <1>16, <1>17 DEF Next, Flush

LEMMA ShutdownInvariant == Spec => []ShutdownInv
<1>1. Init => ShutdownInv
  BY ProcsAssumption DEF Init, ShutdownInv, Procs
<1>2. QED BY <1>1, ShutdownStep, TypeCorrect, PTL DEF Spec

LEMMA ReturnStep ==
  TypeOK /\ Control /\ ShutdownInv /\ [Next]_vars =>
    ( (pc[Main] # "returned" /\ pc'[Main] = "returned" /\ ~expired)
      => InMemory \subseteq UNION {Range(held[p]) : p \in Goroutines} )
<1> SUFFICES ASSUME TypeOK, Control, ShutdownInv, [Next]_vars,
                    pc[Main] # "returned", pc'[Main] = "returned", ~expired
             PROVE  InMemory \subseteq UNION {Range(held[p]) : p \in Goroutines}
  OBVIOUS
<1>1. Main \in Procs /\ Loop \in Procs
  BY DEF Procs
<1>2. TakeNothing(Main)
  BY <1>1, ProcsAssumption DEF Next, Flush, Finish, AddDrop, AddBank, TakeNothing, Take,
     WriteAccepted, WriteRefused, Requeue, FlushSpans, Tick, LoopExit, Shutdown, ShutdownJoined,
     ShutdownExpired, SpoolToggles, vars, Goto, StartFlush, Return, TypeOK, ShutdownInv
<1>3. spans = <<>> /\ pc[Main] = "take" /\ pc[Loop] = "exited"
  BY <1>2 DEF TakeNothing, ShutdownInv
<1>4. held[Main] = <<>> /\ held[Loop] = <<>>
  BY <1>1, <1>3 DEF Control
<1>5. InMemory = UNION {Range(held[p]) : p \in Procs}
  BY <1>3, EmptyRange DEF InMemory, InHand
<1>6. ASSUME NEW p \in Procs, NEW s \in Range(held[p]) PROVE p \in Goroutines
  BY <1>4, <1>6, EmptyRange DEF Procs
<1>7. QED BY <1>5, <1>6

\* A Shutdown that waited for the loop and reports no error leaves nothing in
\* memory but what the application's own goroutines are adding or writing.
THEOREM ShutdownClean == Spec => CleanShutdown
<1>1. BoundInv => Control
  BY DEF BoundInv
<1>2. QED
  BY <1>1, TypeCorrect, BoundInvariant, ShutdownInvariant, ReturnStep, PTL
  DEF Spec, CleanShutdown

-----------------------------------------------------------------------------
(* Refinement. *)

LEMMA RefinesInit == Init => Delivery!Init
<1> SUFFICES ASSUME Init PROVE Delivery!Init
  OBVIOUS
<1>1. ended = {} /\ spans = <<>> /\ written = <<>> /\ dropped = 0
      /\ \A p \in Procs : held[p] = <<>>
  BY DEF Init
<1>2. InMemory = {}
  BY <1>1, EmptyRange DEF InMemory, InHand
<1>3. [i \in 1..Len(written) |-> Range(written[i])] = <<>>
  BY <1>1
<1>4. QED BY <1>1, <1>2, <1>3 DEF Delivery!Init

\* The documents as the abstract specification sees them.
Docs == [i \in 1..Len(written) |-> Range(written[i])]

\* A step that leaves every span where it is changes nothing the abstract
\* specification sees.
LEMMA Stutter ==
  ASSUME InMemory' = InMemory, ended' = ended, dropped' = dropped, written' = written
  PROVE  UNCHANGED Delivery!vars
BY DEF Delivery!vars

LEMMA RefinesFinish ==
  ASSUME TypeOK, Control, NEW p \in Procs, NEW s \in Spans, Finish(p, s)
  PROVE  Delivery!End(s)
<1>1. /\ held' = [held EXCEPT ![p] = <<s>>] /\ held[p] = <<>>
      /\ s \notin ended /\ ended' = ended \cup {s} /\ spans' = spans
      /\ written' = written /\ dropped' = dropped
  BY DEF Finish, Holds, Control
<1>2. InHand' = {s} \cup Others(p) /\ InHand = Others(p)
  BY <1>1, HandChanged, HandOf, EmptyRange, SingleRange
<1>3. InMemory' = InMemory \cup {s}
  BY <1>1, <1>2 DEF InMemory
<1>4. Spans \ ended' = (Spans \ ended) \ {s} /\ s \in Spans \ ended
  BY <1>1
<1>5. QED BY <1>1, <1>3, <1>4 DEF Delivery!End

\* p's records leave memory, or go back to the buffer.
LEMMA MemoryAfter ==
  ASSUME TypeOK, Accounted, NEW p \in Procs, NEW x, held' = [held EXCEPT ![p] = x],
         Range(spans') \cup Range(x) \subseteq Range(spans) \cup Range(held[p])
  PROVE  InMemory' = InMemory \ ((Range(spans) \cup Range(held[p])) \ (Range(spans') \cup Range(x)))
<1>1. InHand' = Range(x) \cup Others(p) /\ InHand = Range(held[p]) \cup Others(p)
  BY HandChanged, HandOf
<1>2. (Range(spans) \cup Range(held[p])) \cap Others(p) = {}
  BY Apart DEF Accounted
<1>3. QED BY <1>1, <1>2 DEF InMemory

LEMMA RefinesShed ==
  ASSUME NEW lost \in SUBSET InMemory, lost # {},
         InMemory' = InMemory \ lost, dropped' = dropped + Cardinality(lost),
         ended' = ended, written' = written
  PROVE  Delivery!Shed(lost)
<1>1. Docs' = Docs
  BY DEF Docs
<1>2. (Spans \ ended)' = Spans \ ended
  OBVIOUS
<1>3. Delivery!Cardinality(lost) = Cardinality(lost)
  BY DEF Delivery!Cardinality, Cardinality
<1>4. QED BY <1>1, <1>2, <1>3 DEF Delivery!Shed, Docs

LEMMA RefinesAddDrop ==
  ASSUME TypeOK, Control, Accounted, NEW p \in Procs, AddDrop(p)
  PROVE  Delivery!Shed(Range(held[p])) /\ Range(held[p]) \subseteq InMemory
<1>1. /\ held' = [held EXCEPT ![p] = <<>>]
      /\ ended' = ended /\ written' = written /\ spans' = spans
      /\ dropped' = dropped + 1
  BY DEF AddDrop, Holds
<1>2. Len(held[p]) = 1 /\ held[p] \in Seq(Spans) /\ IsInjective(held[p])
  BY DEF AddDrop, Control, TypeOK, Accounted, Unshared
<1>3. Cardinality(Range(held[p])) = 1
  BY <1>2, CardinalityOfRange
<1> Range(held[p]) # {}
  BY <1>3, FS_EmptySet
<1>4. (Range(spans) \cup Range(held[p])) \ (Range(spans') \cup Range(<<>>)) = Range(held[p])
  BY <1>1, EmptyRange, Apart DEF Accounted
<1>5. Range(held[p]) \subseteq InMemory
  BY HandOf DEF InMemory
<1>6. InMemory' = InMemory \ Range(held[p])
  BY <1>1, <1>4, EmptyRange, MemoryAfter
<1>7. QED BY <1>1, <1>3, <1>5, <1>6, RefinesShed

LEMMA RefinesAddBank ==
  ASSUME TypeOK, Accounted, NEW p \in Procs, AddBank(p)
  PROVE  UNCHANGED Delivery!vars
<1>1. /\ held' = [held EXCEPT ![p] = <<>>]
      /\ ended' = ended /\ written' = written /\ spans' = spans \o held[p]
      /\ dropped' = dropped
  BY DEF AddBank, Holds, envVars
<1>2. spans \in Seq(Spans) /\ held[p] \in Seq(Spans)
  BY DEF TypeOK
<1>3. Range(spans') = Range(spans) \cup Range(held[p])
  BY <1>1, <1>2, RangeOfConcat
<1>4. InMemory' = InMemory \ {}
  <2>1. (Range(spans) \cup Range(held[p])) \ (Range(spans') \cup Range(<<>>)) = {}
    BY <1>3
  <2>2. Range(spans') \cup Range(<<>>) \subseteq Range(spans) \cup Range(held[p])
    BY <1>3, EmptyRange
  <2>3. QED BY <1>1, <2>1, <2>2, MemoryAfter
<1>5. QED BY <1>1, <1>4, Stutter

LEMMA RefinesTake ==
  ASSUME TypeOK, Control, Accounted, NEW p \in Procs, Take(p)
  PROVE  UNCHANGED Delivery!vars
<1> DEFINE n == TakeCount(all[p])
           batch == SubSeq(spans, 1, n)
           rest == SubSeq(spans, n + 1, Len(spans))
<1>1. /\ held' = [held EXCEPT ![p] = batch]
      /\ ended' = ended /\ written' = written /\ spans' = rest
      /\ dropped' = dropped
  BY DEF Take, Holds
<1>2. spans \in Seq(Spans) /\ n \in 0..Len(spans)
  BY SizesClamped DEF TypeOK, TakeCount
<1>3. Range(batch) \cup Range(rest) = Range(spans)
  BY <1>2, SplitSequence
<1>4. held[p] = <<>>
  BY DEF Take, Control
<1> HIDE DEF n, batch, rest
<1>5. InMemory' = InMemory \ {}
  <2>1. (Range(spans) \cup Range(held[p])) \ (Range(spans') \cup Range(batch)) = {}
    BY <1>1, <1>3, <1>4, EmptyRange
  <2>2. Range(spans') \cup Range(batch) \subseteq Range(spans) \cup Range(held[p])
    BY <1>1, <1>3
  <2>3. QED BY <1>1, <2>1, <2>2, MemoryAfter
<1>6. QED BY <1>1, <1>5, Stutter

LEMMA RefinesRequeue ==
  ASSUME TypeOK, Accounted, NEW p \in Procs, Requeue(p)
  PROVE  Delivery!Next \/ UNCHANGED Delivery!vars
<1> DEFINE h == held[p]
           kept == Least(Len(h), Room)
           back == SubSeq(h, 1, kept)
           gone == SubSeq(h, kept + 1, Len(h))
<1>1. /\ held' = [held EXCEPT ![p] = <<>>]
      /\ ended' = ended /\ written' = written /\ spans' = back \o spans
      /\ dropped' = dropped + (Len(h) - kept)
  BY DEF Requeue, Holds
<1>2. h \in Seq(Spans) /\ IsInjective(h) /\ spans \in Seq(Spans)
  BY DEF TypeOK, Accounted, Unshared
<1>3. kept \in 0..Len(h)
  BY <1>2, SizesClamped DEF Least, Room
<1>4. Range(spans) \cap Range(h) = {}
  BY Apart DEF Accounted
<1>5. Range(h) \subseteq InMemory
  BY HandOf DEF InMemory
<1> HIDE DEF kept
<1>6. /\ back \in Seq(Spans) /\ gone \in Seq(Spans)
      /\ Len(gone) = Len(h) - kept
      /\ Range(back) \cup Range(gone) = Range(h)
      /\ IsInjective(gone)
      /\ Range(back) \cap Range(gone) = {}
  BY <1>2, <1>3, SplitSequence
<1> HIDE DEF back, gone
<1>7. Range(spans') = Range(back) \cup Range(spans)
  BY <1>1, <1>2, <1>6, RangeOfConcat
<1>8. (Range(spans) \cup Range(h)) \ (Range(spans') \cup Range(<<>>)) = Range(gone)
  BY <1>4, <1>6, <1>7, EmptyRange
<1>9. Range(spans') \cup Range(<<>>) \subseteq Range(spans) \cup Range(h)
  BY <1>6, <1>7, EmptyRange
<1>10. InMemory' = InMemory \ Range(gone)
  BY <1>1, <1>8, <1>9, MemoryAfter
<1>11. Cardinality(Range(gone)) = Len(h) - kept
  BY <1>6, CardinalityOfRange
<1>12. Range(gone) \subseteq InMemory
  BY <1>5, <1>6
<1>13. CASE Range(gone) = {}
  <2>1. Cardinality(Range(gone)) = 0
    BY <1>13, FS_EmptySet
  <2>2. dropped' = dropped /\ InMemory' = InMemory
    BY <1>1, <1>10, <1>11, <1>13, <2>1 DEF TypeOK
  <2>3. QED BY <1>1, <2>2, Stutter
<1>14. CASE Range(gone) # {}
  <2>1. Delivery!Shed(Range(gone))
    BY <1>1, <1>10, <1>11, <1>12, <1>14, RefinesShed
  <2>2. QED BY <1>12, <2>1 DEF Delivery!Next
<1>15. QED BY <1>13, <1>14

LEMMA RefinesWriteAccepted ==
  ASSUME TypeOK, Control, Accounted, NEW p \in Procs, WriteAccepted(p)
  PROVE  Delivery!Deliver(Range(held[p])) /\ Range(held[p]) \subseteq InMemory
<1> DEFINE h == held[p]
<1>1. /\ held' = [held EXCEPT ![p] = <<>>]
      /\ ended' = ended /\ written' = Append(written, h)
      /\ spans' = spans /\ dropped' = dropped
  BY DEF WriteAccepted, Holds, bufferVars
<1>2. h \in Seq(Spans) /\ h # <<>>
  BY DEF TypeOK, Control, WriteAccepted
<1>3. Range(h) # {}
  <2>1. 1 \in DOMAIN h
    BY <1>2
  <2>2. QED BY <2>1 DEF Range
<1>4. /\ Len(written') = Len(written) + 1
      /\ written'[Len(written) + 1] = h
      /\ \A i \in 1..Len(written) : written'[i] = written[i]
      /\ Len(written) \in Nat
  BY <1>1, <1>2, SpooledMore DEF TypeOK
<1>5. Range(h) \subseteq InMemory
  BY HandOf DEF InMemory
<1>6. Range(spans) \cap Range(h) = {}
  BY Apart DEF Accounted
<1> HIDE DEF h
<1>7. InMemory' = InMemory \ Range(h)
  <2>1. (Range(spans) \cup Range(h)) \ (Range(spans') \cup Range(<<>>)) = Range(h)
    BY <1>1, <1>6, EmptyRange
  <2>2. Range(spans') \cup Range(<<>>) \subseteq Range(spans) \cup Range(h)
    BY <1>1, EmptyRange
  <2>3. QED BY <1>1, <2>1, <2>2, MemoryAfter DEF h
<1>8. Docs' = Append(Docs, Range(h))
  <2>1. Docs \in Seq(SUBSET Spans) /\ Len(Docs) = Len(written)
    <3>1. \A i \in 1..Len(written) : Range(written[i]) \in SUBSET Spans
      BY DEF TypeOK, Range
    <3>2. QED BY <1>4, <3>1 DEF Docs
  <2>2. Range(h) \in SUBSET Spans
    BY <1>2 DEF Range
  <2>3. /\ Append(Docs, Range(h)) \in Seq(SUBSET Spans)
        /\ Len(Append(Docs, Range(h))) = Len(written) + 1
        /\ \A i \in 1..(Len(written) + 1) :
             Append(Docs, Range(h))[i] = IF i <= Len(written) THEN Docs[i] ELSE Range(h)
    BY ONLY <1>4, <2>1, <2>2, AppendProperties
  <2>4. \A i \in 1..(Len(written) + 1) : Docs'[i] = Append(Docs, Range(h))[i]
    BY <1>4, <2>3 DEF Docs
  <2>5. Docs' \in Seq(SUBSET Spans) /\ Len(Docs') = Len(written) + 1
    <3>1. \A i \in 1..(Len(written) + 1) : Range(written'[i]) \in SUBSET Spans
      <4>1. \A i \in 1..Len(written) : Range(written[i]) \in SUBSET Spans
        BY DEF TypeOK, Range
      <4>2. QED BY <1>4, <2>2, <4>1
    <3>2. QED BY <1>4, <3>1 DEF Docs
  <2>6. QED BY <2>3, <2>4, <2>5, SeqEqual
<1>9. (Spans \ ended)' = Spans \ ended
  BY <1>1
<1>10. QED
  BY <1>1, <1>3, <1>5, <1>7, <1>8, <1>9 DEF Delivery!Deliver, Docs, h

LEMMA RefinesStep ==
  TypeOK /\ Control /\ Accounted /\ [Next]_vars => [Delivery!Next]_Delivery!vars
<1> SUFFICES ASSUME TypeOK, Control, Accounted, [Next]_vars
             PROVE  Delivery!Next \/ UNCHANGED Delivery!vars
  OBVIOUS
<1>1. ASSUME ended' = ended, spans' = spans, dropped' = dropped, held' = held, written' = written
      PROVE  UNCHANGED Delivery!vars
  <2>1. InMemory' = InMemory
    BY <1>1 DEF InMemory, InHand
  <2>2. QED BY <1>1, <2>1, Stutter
<1>2. ASSUME NEW p \in Procs, TakeNothing(p) PROVE UNCHANGED Delivery!vars
  BY <1>1, <1>2 DEF TakeNothing, bufferVars
<1>3. ASSUME NEW p \in Procs, WriteRefused(p) PROVE UNCHANGED Delivery!vars
  BY <1>1, <1>3 DEF WriteRefused, bufferVars
<1>4. ASSUME NEW p \in Procs, FlushSpans(p) PROVE UNCHANGED Delivery!vars
  BY <1>1, <1>4 DEF FlushSpans, bufferVars
<1>5. CASE Tick \/ LoopExit \/ Shutdown \/ ShutdownJoined \/ ShutdownExpired \/ SpoolToggles
  BY <1>1, <1>5 DEF Tick, LoopExit, Shutdown, ShutdownJoined, ShutdownExpired, SpoolToggles,
     bufferVars
<1>6. CASE UNCHANGED vars
  BY <1>1, <1>6 DEF vars, bufferVars
<1>7. ASSUME NEW p \in Procs, NEW s \in Spans, Finish(p, s) PROVE Delivery!Next
  BY <1>7, RefinesFinish DEF Delivery!Next
<1>8. ASSUME NEW p \in Procs, AddDrop(p) PROVE Delivery!Next
  BY <1>8, RefinesAddDrop DEF Delivery!Next
<1>9. ASSUME NEW p \in Procs, AddBank(p) PROVE UNCHANGED Delivery!vars
  BY <1>9, RefinesAddBank
<1>10. ASSUME NEW p \in Procs, Take(p) PROVE UNCHANGED Delivery!vars
  BY <1>10, RefinesTake
<1>11. ASSUME NEW p \in Procs, WriteAccepted(p) PROVE Delivery!Next
  BY <1>11, RefinesWriteAccepted DEF Delivery!Next
<1>12. ASSUME NEW p \in Procs, Requeue(p) PROVE Delivery!Next \/ UNCHANGED Delivery!vars
  BY <1>12, RefinesRequeue
<1>13. QED
  BY <1>2, <1>3, <1>4, <1>5, <1>6, <1>7, <1>8, <1>9, <1>10, <1>11, <1>12 DEF Next, Flush

\* The span buffer implements what batching promises: every ended span is
\* pending, in exactly one document, or counted as dropped, and moves between
\* these only forward.
THEOREM BufferImplementsDelivery == Spec => Implements
<1>1. BoundInv => Control
  BY DEF BoundInv
<1>2. QED
  BY <1>1, RefinesInit, RefinesStep, TypeCorrect, BoundInvariant, SpansAccounted, PTL
  DEF Spec, Implements, Delivery!Spec
=============================================================================
