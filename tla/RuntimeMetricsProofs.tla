------------------------ MODULE RuntimeMetricsProofs ------------------------
(***************************************************************************)
(* Theorems about RuntimeMetrics for every number of handlers, emitters,   *)
(* requests and collections.                                               *)
(***************************************************************************)
EXTENDS RuntimeMetrics, Sums, TLAPS

Locations == {"idle", "requests", "errors", "duration", "collections", "pause", "write"}

\* What the variables hold; what is pending is a difference of two counts.
TypeInv ==
  /\ serving \in [Handlers -> {"idle", "error", "duration"}]
  /\ counter \in [Counters -> Nat]
  /\ pending \in [Counters -> Int]
  /\ runtime \in [Totals -> Nat]
  /\ previous \in [Totals -> Nat]
  /\ published \in [Totals -> Nat]
  /\ pc \in [Emitters -> Locations]
  /\ point \in [Emitters -> [Quantities -> Nat]]
  /\ seen \in [Emitters -> [Totals -> Nat]]
  /\ overlapped \in BOOLEAN

\* The counters, and the totals, that an emitter has still to swap.
CountersAhead(loc) ==
  IF loc \in {"idle", "requests"} THEN Counters
  ELSE IF loc = "errors" THEN {"errors", "duration"}
  ELSE {"duration"} \cap {loc}

TotalsAhead(loc) == IF loc = "pause" THEN {"pause"} ELSE IF loc = "write" THEN {} ELSE Totals

\* A point holds nothing of a counter that is still to be swapped: a swap
\* overwrites nothing, and so does the empty point of the next round.
PointsFill ==
  \A e \in Emitters : \A c \in CountersAhead(pc[e]) : point[e][c] = 0

\* What an emitter has read is a reading of the past.
SeenBefore ==
  \A e \in Emitters : \A t \in Totals : seen[e][t] <= runtime[t]

\* Without an overlap there is one emitter at most between ReadMemStats and
\* gcDelta, and nobody has overtaken what it has read.
OneReads ==
  ~overlapped =>
    /\ \A d, e \in Reading : d = e
    /\ \A e \in Reading : \A t \in TotalsAhead(pc[e]) : previous[t] <= seen[e][t]

MetricsInv == TypeInv /\ PointsFill /\ RequestsOnce /\ SeenBefore /\ OneReads /\ WindowsAddUp

-----------------------------------------------------------------------------
(* Lemmas. *)

\* Steps lists the locations in the order of the code.
LEMMA StepOrder ==
  /\ After("requests") = "errors"
  /\ After("errors") = "duration"
  /\ After("duration") = "collections"
  /\ After("collections") = "pause"
  /\ After("pause") = "write"
<1>1. Len(Steps) = 7
  BY DEF Steps
<1>2. ASSUME NEW i \in 1..6
      PROVE  After(Steps[i]) = Steps[1 + i]
  <2>1. \A j \in 1..7 : Steps[j] = Steps[i] => j = i
    BY DEF Steps
  <2>2. (CHOOSE j \in 1..Len(Steps) : Steps[j] = Steps[i]) = i
    BY <1>1, <2>1
  <2>3. QED BY <2>2 DEF After
<1>3. QED BY <1>2 DEF Steps

\* The emitters are the loop and the calls of the application.
LEMMA EmittersFinite == IsFiniteSet(Emitters)
BY GoroutinesAssumption, FS_AddElement DEF Emitters

\* What the points of all emitters hold of c.
Held(c) == SumFunctionOnSet([e \in Emitters |-> point[e][c]], Emitters)

\* When one emitter's point changes, so does what all of them hold.
LEMMA HeldChanges ==
  ASSUME TypeInv, TypeInv', NEW e \in Emitters, NEW c \in Counters,
         \A d \in Emitters \ {e} : point'[d] = point[d]
  PROVE  /\ Held(c) \in Int
         /\ Held(c)' = Held(c) + point'[e][c] - point[e][c]
<1> DEFINE f == [d \in Emitters |-> point[d][c]]
           g == [d \in Emitters |-> point'[d][c]]
<1>1. f \in [Emitters -> Int] /\ g \in [Emitters -> Int]
  BY DEF TypeInv, Quantities
<1>2. \A d \in Emitters \ {e} : g[d] = f[d]
  OBVIOUS
<1>3. /\ SumFunctionOnSet(f, Emitters) \in Int
      /\ SumFunctionOnSet(g, Emitters) = SumFunctionOnSet(f, Emitters) + g[e] - f[e]
  <2> HIDE DEF f, g
  <2>1. QED BY <1>1, <1>2, EmittersFinite, SumChanges
<1>4. QED BY <1>3 DEF Held

\* It is a number.
LEMMA HeldTyped ==
  ASSUME TypeInv, NEW c \in Counters
  PROVE  Held(c) \in Int
<1> DEFINE f == [d \in Emitters |-> point[d][c]]
<1>1. f \in [Emitters -> Int]
  BY DEF TypeInv, Quantities
<1>2. Loop \in Emitters
  BY DEF Emitters
<1>3. SumFunctionOnSet(f, Emitters) \in Int
  <2> HIDE DEF f
  <2>1. QED BY <1>1, <1>2, EmittersFinite, SumChanges
<1>4. QED BY <1>3 DEF Held

\* No request has been counted, and no point emitted.
LEMMA InitHolds == Init => MetricsInv
<1> SUFFICES ASSUME Init PROVE MetricsInv
  OBVIOUS
<1> USE DEF Init
<1>1. TypeInv
  <2>1. Nothing \in [Quantities -> Nat]
    BY DEF Nothing
  <2>2. point \in [Emitters -> [Quantities -> Nat]]
    BY <2>1
  <2>3. seen \in [Emitters -> [Totals -> Nat]]
    OBVIOUS
  <2>4. /\ serving \in [Handlers -> {"idle", "error", "duration"}]
        /\ counter \in [Counters -> Nat]
        /\ pending \in [Counters -> Int]
    OBVIOUS
  <2>5. /\ runtime \in [Totals -> Nat]
        /\ previous \in [Totals -> Nat]
        /\ published \in [Totals -> Nat]
    OBVIOUS
  <2>6. pc \in [Emitters -> Locations] /\ overlapped \in BOOLEAN
    BY DEF Locations
  <2> HIDE DEF Init
  <2>7. QED BY <2>2, <2>3, <2>4, <2>5, <2>6 DEF TypeInv
<1>2. PointsFill
  BY DEF PointsFill, CountersAhead, Nothing, Quantities
<1>3. RequestsOnce
  <2>1. SUFFICES ASSUME NEW c \in Counters PROVE Held(c) = 0
    BY DEF RequestsOnce, Held
  <2> DEFINE f == [e \in Emitters |-> point[e][c]]
  <2>2. f \in [Emitters -> Int] /\ \A e \in Emitters : f[e] = 0
    BY DEF Nothing, Quantities
  <2> HIDE DEF f
  <2>3. SumFunctionOnSet(f, Emitters) = 0
    BY <2>2, EmittersFinite, SumOfZeros
  <2>4. QED BY <2>3 DEF Held, f
<1>4. SeenBefore
  BY DEF SeenBefore
<1>5. OneReads
  BY DEF OneReads, Reading
<1>6. WindowsAddUp
  BY DEF WindowsAddUp, Nothing, Quantities
<1>7. QED BY <1>1, <1>2, <1>3, <1>4, <1>5, <1>6 DEF MetricsInv

-----------------------------------------------------------------------------
(* One lemma for each kind of step. *)

\* An addition of recordHTTP is pending as soon as it is in the counter.
LEMMA AddKeeps ==
  ASSUME MetricsInv, NEW h \in Handlers, NEW c \in Counters,
         NEW next \in {"idle", "error", "duration"}, Add(h, c, next)
  PROVE  MetricsInv'
<1> USE DEF MetricsInv
<1>1. TypeInv'
  BY DEF Add, TypeInv, gcVars, pointVars
<1>2. UNCHANGED <<runtime, previous, published, pc, point, seen, overlapped>>
  BY DEF Add, gcVars, pointVars
<1>3. PointsFill' /\ SeenBefore' /\ OneReads' /\ WindowsAddUp'
  BY <1>2 DEF PointsFill, SeenBefore, OneReads, Reading, WindowsAddUp
<1>4. RequestsOnce'
  <2>1. SUFFICES ASSUME NEW d \in Counters
                 PROVE  pending'[d] = counter'[d] + Held(d)
    BY <1>2 DEF RequestsOnce, Held
  <2>2. /\ pending[d] = counter[d] + Held(d)
        /\ Held(d) \in Int
    BY HeldTyped DEF RequestsOnce, Held
  <2>3. QED BY <2>2 DEF Add, TypeInv
<1>5. QED BY <1>1, <1>3, <1>4

\* A garbage collection.
LEMMA CollectKeeps == MetricsInv /\ Collect => MetricsInv'
<1> SUFFICES ASSUME MetricsInv, Collect PROVE MetricsInv'
  OBVIOUS
<1> USE DEF MetricsInv
<1>1. /\ UNCHANGED <<serving, counter, pending, previous, published, pc, point, seen, overlapped>>
      /\ runtime' = [t \in Totals |-> runtime[t] + 1]
  BY DEF Collect, pointVars
<1>2. TypeInv'
  BY <1>1 DEF TypeInv
<1>3. PointsFill' /\ RequestsOnce' /\ OneReads'
  BY <1>1 DEF PointsFill, RequestsOnce, OneReads, Reading
<1>4. \A t \in Totals : runtime[t] \in Nat /\ runtime'[t] = runtime[t] + 1
  BY <1>1 DEF TypeInv
<1>5. SeenBefore'
  BY <1>1, <1>4 DEF SeenBefore, TypeInv
<1>6. WindowsAddUp'
  <2>1. ASSUME NEW t \in Totals, NEW e \in Emitters PROVE point[e][t] \in Nat
    BY DEF TypeInv, Quantities
  <2>2. QED BY <1>1, <1>4, <2>1 DEF WindowsAddUp, TypeInv
<1>7. QED BY <1>2, <1>3, <1>5, <1>6

\* ReadMemStats; the point of the round before has been written.
LEMMA BeginKeeps ==
  ASSUME MetricsInv, NEW e \in Emitters, Begin(e)
  PROVE  MetricsInv'
<1> USE DEF MetricsInv
<1>1. /\ pc[e] = "idle"
      /\ seen' = [seen EXCEPT ![e] = runtime]
      /\ point' = [point EXCEPT ![e] = Nothing]
      /\ pc' = [pc EXCEPT ![e] = "requests"]
      /\ overlapped' = (overlapped \/ Reading # {})
      /\ UNCHANGED <<serving, counter, pending, runtime, previous, published>>
  BY DEF Begin, gcVars
<1>2. Nothing \in [Quantities -> Nat] /\ \A q \in Quantities : Nothing[q] = 0
  BY DEF Nothing
<1>3. TypeInv'
  BY <1>1, <1>2 DEF TypeInv, Locations
<1>4. PointsFill'
  BY <1>1, <1>2 DEF PointsFill, CountersAhead, TypeInv, Quantities
<1>5. RequestsOnce'
  <2>1. SUFFICES ASSUME NEW c \in Counters
                 PROVE  pending'[c] = counter'[c] + Held(c)'
    BY DEF RequestsOnce, Held
  <2>2. Held(c)' = Held(c) + point'[e][c] - point[e][c] /\ Held(c) \in Int
    BY <1>1, <1>3, HeldChanges DEF TypeInv
  <2>3. point'[e][c] = 0 /\ point[e][c] = 0
    BY <1>1, <1>2 DEF PointsFill, CountersAhead, TypeInv, Quantities
  <2>4. pending[c] = counter[c] + Held(c)
    BY DEF RequestsOnce, Held
  <2>5. QED BY <1>1, <2>2, <2>3, <2>4
<1>6. SeenBefore'
  BY <1>1 DEF SeenBefore, TypeInv
<1>7. OneReads'
  <2>1. SUFFICES ASSUME ~overlapped'
                 PROVE  /\ \A d, f \in Reading' : d = f
                        /\ \A d \in Reading' : \A t \in TotalsAhead(pc'[d]) :
                             previous'[t] <= seen'[d][t]
    BY DEF OneReads
  <2>2. ~overlapped /\ Reading = {}
    BY <1>1, <2>1 DEF TypeInv
  <2>3. Reading' = {e}
    BY <1>1, <2>2 DEF Reading, TypeInv
  <2>4. \A t \in Totals : previous[t] <= runtime[t]
    BY <2>2 DEF WindowsAddUp
  <2>5. pc'[e] = "requests" /\ seen'[e] = runtime
    BY <1>1 DEF TypeInv
  <2>6. QED BY <1>1, <2>3, <2>4, <2>5 DEF TotalsAhead
<1>8. WindowsAddUp'
  <2>1. \A d \in Emitters : \A t \in Totals : point'[d][t] <= runtime[t]
    BY <1>1, <1>2 DEF WindowsAddUp, TypeInv, Quantities
  <2>2. ~overlapped' => ~overlapped
    BY <1>1
  <2>3. QED BY <1>1, <2>1, <2>2 DEF WindowsAddUp
<1>9. QED BY <1>3, <1>4, <1>5, <1>6, <1>7, <1>8

\* A swap moves what is in the counter to the point, which had none of it.
LEMMA DrainKeeps ==
  ASSUME MetricsInv, NEW e \in Emitters, NEW c \in Counters, Drain(e, c)
  PROVE  MetricsInv'
<1> USE DEF MetricsInv
<1>1. /\ pc[e] = c
      /\ point' = [point EXCEPT ![e][c] = counter[c]]
      /\ counter' = [counter EXCEPT ![c] = 0]
      /\ pc' = [pc EXCEPT ![e] = After(c)]
      /\ UNCHANGED <<serving, pending, runtime, previous, published, seen, overlapped>>
  BY DEF Drain, gcVars
<1>2. \/ c = "requests" /\ After(c) = "errors"
      \/ c = "errors" /\ After(c) = "duration"
      \/ c = "duration" /\ After(c) = "collections"
  BY StepOrder DEF Counters
<1>3. TypeInv'
  BY <1>1, <1>2 DEF TypeInv, Locations, Quantities
<1>4. /\ \A d \in Emitters \ {e} : point'[d] = point[d] /\ pc'[d] = pc[d]
      /\ \A q \in Quantities \ {c} : point'[e][q] = point[e][q]
      /\ point'[e][c] = counter[c]
      /\ pc'[e] = After(c)
  BY <1>1 DEF TypeInv, Quantities
<1>5. PointsFill'
  <2>1. \A d \in CountersAhead(After(c)) : d \in CountersAhead(c) /\ d # c /\ d \in Counters
    BY <1>2 DEF CountersAhead, Counters
  <2>2. \A d \in CountersAhead(pc'[e]) : point'[e][d] = 0
    BY <1>1, <1>4, <2>1 DEF PointsFill, Quantities
  <2>3. QED BY <1>4, <2>2 DEF PointsFill
<1>6. RequestsOnce'
  <2>1. SUFFICES ASSUME NEW d \in Counters
                 PROVE  pending'[d] = counter'[d] + Held(d)'
    BY DEF RequestsOnce, Held
  <2>2. Held(d)' = Held(d) + point'[e][d] - point[e][d] /\ Held(d) \in Int
    BY <1>3, <1>4, HeldChanges
  <2>3. pending[d] = counter[d] + Held(d) /\ counter[d] \in Int
    BY DEF RequestsOnce, Held, TypeInv
  <2>4. CASE d = c
    <3>1. point[e][c] = 0
      BY <1>1, <1>2 DEF PointsFill, CountersAhead, Counters
    <3>2. QED BY <1>1, <1>4, <2>2, <2>3, <2>4, <3>1 DEF TypeInv
  <2>5. CASE d # c
    <3>1. point'[e][d] = point[e][d] /\ point[e][d] \in Nat /\ counter'[d] = counter[d]
      BY <1>1, <1>4, <2>5 DEF TypeInv, Quantities
    <3>2. QED BY <1>1, <2>2, <2>3, <3>1
  <2>6. QED BY <2>4, <2>5
<1>7. SeenBefore'
  BY <1>1 DEF SeenBefore
<1>8. OneReads'
  <2>1. Reading' = Reading
    BY <1>1, <1>2 DEF Reading, TypeInv
  <2>2. \A d \in Emitters : TotalsAhead(pc'[d]) = TotalsAhead(pc[d])
    BY <1>1, <1>2, <1>4 DEF TotalsAhead
  <2>3. QED BY <1>1, <2>1, <2>2 DEF OneReads, Reading
<1>9. WindowsAddUp'
  <2>1. \A d \in Emitters : \A t \in Totals : point'[d][t] = point[d][t]
    BY <1>4 DEF Totals, Counters, Quantities
  <2>2. QED BY <1>1, <2>1 DEF WindowsAddUp
<1>10. QED BY <1>3, <1>5, <1>6, <1>7, <1>8, <1>9

\* A window is the work since the total of the last one: without an overlap it
\* brings the sum of the windows up to what the emitter has read.
LEMMA SubtractKeeps ==
  ASSUME MetricsInv, NEW e \in Emitters, NEW t \in Totals, Subtract(e, t)
  PROVE  MetricsInv'
<1> USE DEF MetricsInv
<1> DEFINE window == Delta(seen[e][t], previous[t])
<1>1. /\ pc[e] = t
      /\ point' = [point EXCEPT ![e][t] = window]
      /\ published' = [published EXCEPT ![t] = @ + window]
      /\ previous' = [previous EXCEPT ![t] = seen[e][t]]
      /\ pc' = [pc EXCEPT ![e] = After(t)]
      /\ UNCHANGED <<serving, counter, pending, runtime, seen, overlapped>>
  BY DEF Subtract
<1>2. \/ t = "collections" /\ After(t) = "pause"
      \/ t = "pause" /\ After(t) = "write"
  BY StepOrder DEF Totals
<1>3. seen[e][t] \in Nat /\ previous[t] \in Nat /\ runtime[t] \in Nat /\ published[t] \in Nat
  BY DEF TypeInv
<1>4. /\ window \in Nat
      /\ window <= seen[e][t]
      /\ previous[t] <= seen[e][t] => previous[t] + window = seen[e][t]
  BY <1>3 DEF Delta
<1> HIDE DEF window
<1>5. TypeInv'
  <2>1. point' \in [Emitters -> [Quantities -> Nat]]
    BY <1>1, <1>4 DEF TypeInv
  <2>2. /\ published' \in [Totals -> Nat]
        /\ previous' \in [Totals -> Nat]
    BY <1>1, <1>3, <1>4 DEF TypeInv
  <2>3. pc' \in [Emitters -> Locations]
    BY <1>1, <1>2 DEF TypeInv, Locations
  <2>4. QED BY <1>1, <2>1, <2>2, <2>3 DEF TypeInv
<1>6. /\ \A d \in Emitters \ {e} : point'[d] = point[d] /\ pc'[d] = pc[d]
      /\ \A q \in Quantities \ {t} : point'[e][q] = point[e][q]
      /\ point'[e][t] = window
      /\ pc'[e] = After(t)
  BY <1>1 DEF TypeInv, Quantities
<1>7. \A c \in Counters : c \in Quantities \ {t}
  BY DEF Counters, Totals, Quantities
<1>8. PointsFill'
  <2>1. CountersAhead(pc'[e]) = {}
    BY <1>2, <1>6 DEF CountersAhead
  <2>2. QED BY <1>6, <2>1 DEF PointsFill
<1>9. RequestsOnce'
  <2>1. SUFFICES ASSUME NEW c \in Counters
                 PROVE  pending'[c] = counter'[c] + Held(c)'
    BY DEF RequestsOnce, Held
  <2>2. Held(c)' = Held(c) + point'[e][c] - point[e][c] /\ Held(c) \in Int
    BY <1>5, <1>6, HeldChanges
  <2>3. point'[e][c] = point[e][c] /\ point[e][c] \in Nat
    BY <1>6, <1>7 DEF TypeInv
  <2>4. pending[c] = counter[c] + Held(c)
    BY DEF RequestsOnce, Held
  <2>5. QED BY <1>1, <2>2, <2>3, <2>4
<1>10. SeenBefore'
  BY <1>1 DEF SeenBefore
<1>11. e \in Reading /\ Reading' \subseteq Reading
  BY <1>1, <1>2, <1>6 DEF Reading, Totals
<1>12. ~overlapped => previous[t] <= seen[e][t]
  BY <1>1, <1>2, <1>11 DEF OneReads, TotalsAhead, Totals
<1>13. OneReads'
  <2>1. SUFFICES ASSUME ~overlapped', NEW d \in Reading', NEW u \in TotalsAhead(pc'[d])
                 PROVE  previous'[u] <= seen'[d][u]
    BY <1>1, <1>11 DEF OneReads
  <2>2. d = e
    BY <1>1, <1>11, <2>1 DEF OneReads
  <2>3. u \in Totals /\ u # t /\ u \in TotalsAhead(t)
    BY <1>2, <1>6, <2>2 DEF TotalsAhead, Totals
  <2>4. previous[u] <= seen[e][u]
    BY <1>1, <1>11, <2>1, <2>3 DEF OneReads
  <2>5. QED BY <1>1, <2>2, <2>3, <2>4 DEF TypeInv
<1>14. WindowsAddUp'
  <2>1. SUFFICES ASSUME NEW u \in Totals
                 PROVE  /\ ~overlapped => published'[u] = previous'[u] /\ previous'[u] <= runtime[u]
                        /\ \A d \in Emitters : point'[d][u] <= runtime[u]
    BY <1>1 DEF WindowsAddUp
  <2>2. /\ ~overlapped => published[u] = previous[u] /\ previous[u] <= runtime[u]
        /\ \A d \in Emitters : point[d][u] <= runtime[u]
    BY DEF WindowsAddUp
  <2>3. CASE u = t
    <3>1. seen[e][t] <= runtime[t]
      BY DEF SeenBefore
    <3>2. previous'[t] = seen[e][t] /\ published'[t] = published[t] + window
      BY <1>1 DEF TypeInv
    <3>3. window <= runtime[t]
      BY <1>3, <1>4, <3>1
    <3>4. QED BY <1>3, <1>4, <1>6, <1>12, <2>2, <2>3, <3>1, <3>2, <3>3
  <2>4. CASE u # t
    <3>1. previous'[u] = previous[u] /\ published'[u] = published[u]
      BY <1>1, <2>4 DEF TypeInv
    <3>2. \A d \in Emitters : point'[d][u] = point[d][u]
      BY <1>6, <2>4 DEF Quantities
    <3>3. QED BY <2>2, <3>1, <3>2
  <2>5. QED BY <2>3, <2>4
<1>15. QED BY <1>5, <1>8, <1>9, <1>10, <1>13, <1>14

\* A written, or a refused, point takes what it holds out of what is pending.
LEMMA WriteKeeps ==
  ASSUME MetricsInv, NEW e \in Emitters, Write(e)
  PROVE  MetricsInv'
<1> USE DEF MetricsInv
<1>1. /\ pc[e] = "write"
      /\ pending' = [c \in Counters |-> pending[c] - point[e][c]]
      /\ pc' = [pc EXCEPT ![e] = "idle"]
      /\ point' = [point EXCEPT ![e] = Nothing]
      /\ seen' = [seen EXCEPT ![e] = [t \in Totals |-> 0]]
      /\ UNCHANGED <<serving, counter, runtime, previous, published, overlapped>>
  BY DEF Write, gcVars
<1>2. Nothing \in [Quantities -> Nat] /\ \A q \in Quantities : Nothing[q] = 0
  BY DEF Nothing
<1>3. \A c \in Counters : c \in Quantities /\ point[e][c] \in Nat
  BY DEF TypeInv, Quantities
<1>4. TypeInv'
  <2>1. pending' \in [Counters -> Int]
    BY <1>1, <1>3 DEF TypeInv
  <2>2. pc' \in [Emitters -> Locations]
    BY <1>1 DEF TypeInv, Locations
  <2>3. QED BY <1>1, <1>2, <2>1, <2>2 DEF TypeInv
<1>5. PointsFill'
  BY <1>1, <1>2 DEF PointsFill, CountersAhead, TypeInv, Quantities
<1>6. RequestsOnce'
  <2>1. SUFFICES ASSUME NEW c \in Counters
                 PROVE  pending'[c] = counter'[c] + Held(c)'
    BY DEF RequestsOnce, Held
  <2>2. Held(c)' = Held(c) + point'[e][c] - point[e][c] /\ Held(c) \in Int
    BY <1>1, <1>4, HeldChanges DEF TypeInv
  <2>3. point'[e][c] = 0
    BY <1>1, <1>2, <1>3 DEF TypeInv
  <2>4. pending[c] = counter[c] + Held(c) /\ counter[c] \in Nat
    BY DEF RequestsOnce, Held, TypeInv
  <2>5. QED BY <1>1, <1>3, <2>2, <2>3, <2>4
<1>7. SeenBefore'
  <2>1. \A d \in Emitters, t \in Totals : seen'[d][t] = 0 \/ seen'[d][t] = seen[d][t]
    BY <1>1 DEF TypeInv
  <2>2. QED BY <1>1, <2>1 DEF SeenBefore, TypeInv
<1>8. OneReads'
  <2>1. Reading' = Reading /\ e \notin Reading
    BY <1>1 DEF Reading, TypeInv
  <2>2. \A d \in Reading : pc'[d] = pc[d] /\ seen'[d] = seen[d]
    BY <1>1, <2>1 DEF Reading, TypeInv
  <2>3. QED BY <1>1, <2>1, <2>2 DEF OneReads
<1>9. WindowsAddUp'
  <2>1. \A d \in Emitters : \A t \in Totals : point'[d][t] <= runtime[t]
    BY <1>1, <1>2 DEF WindowsAddUp, TypeInv, Quantities
  <2>2. QED BY <1>1, <2>1 DEF WindowsAddUp
<1>10. QED BY <1>4, <1>5, <1>6, <1>7, <1>8, <1>9

-----------------------------------------------------------------------------
(* Theorems. *)

\* The invariant the properties follow from: points hold nothing that is still
\* to be swapped, what an emitter has read is past, and an emitter that reads
\* alone is not overtaken (EmitRuntimeMetrics, gcDelta, recordHTTP).
THEOREM MetricsInvariant == Spec => []MetricsInv
<1>1. ASSUME MetricsInv, [Next]_vars
      PROVE  MetricsInv'
  <2>1. ASSUME NEW h \in Handlers, RecordRequest(h) \/ RecordError(h) \/ RecordDuration(h)
        PROVE  MetricsInv'
    BY <1>1, <2>1, AddKeeps DEF RecordRequest, RecordError, RecordDuration, Counters
  <2>2. CASE Collect
    BY <1>1, <2>2, CollectKeeps
  <2>3. ASSUME NEW e \in Callers, Call(e)
        PROVE  MetricsInv'
    BY <1>1, <2>3, BeginKeeps DEF Call, Emitters
  <2>4. CASE Tick
    BY <1>1, <2>4, BeginKeeps DEF Tick, Emitters
  <2>5. CASE Cancel
    BY <1>1, <2>5 DEF Cancel, MetricsInv, TypeInv, PointsFill, RequestsOnce, SeenBefore,
                      OneReads, Reading, WindowsAddUp, gcVars, pointVars
  <2>6. ASSUME NEW e \in Emitters, Emit(e)
        PROVE  MetricsInv'
    BY <1>1, <2>6, DrainKeeps, SubtractKeeps, WriteKeeps DEF Emit
  <2>7. CASE UNCHANGED vars
    BY <1>1, <2>7 DEF vars, MetricsInv, TypeInv, PointsFill, RequestsOnce, SeenBefore,
                      OneReads, Reading, WindowsAddUp, gcVars, pointVars
  <2>8. QED BY <1>1, <2>1, <2>2, <2>3, <2>4, <2>5, <2>6, <2>7 DEF Next
<1>2. QED BY InitHolds, <1>1, PTL DEF Spec

\* Every request, error and duration is in one point or still in its counter,
\* for any number of handlers and emitters (recordHTTP, EmitRuntimeMetrics).
THEOREM RequestsCountedOnce == Spec => []RequestsOnce
BY MetricsInvariant, PTL DEF MetricsInv

\* The windows of the runtime's totals add up, and none is larger than what the
\* process has done (gcDelta).
THEOREM RuntimeWindows == Spec => []WindowsAddUp
BY MetricsInvariant, PTL DEF MetricsInv
=============================================================================
