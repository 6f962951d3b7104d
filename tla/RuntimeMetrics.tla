--------------------------- MODULE RuntimeMetrics ---------------------------
(***************************************************************************)
(* The runtime metrics of one client (metrics.go; recordHTTP and           *)
(* metricsLoop of client.go).  HTTP handlers add to three counters, one    *)
(* atomic addition after the other; metricsLoop, and any goroutine of the  *)
(* application that calls EmitRuntimeMetrics, drains them with one atomic  *)
(* swap after the other, and turns Go's totals since process start into    *)
(* the work of a window.  No lock orders any of this: one action is one    *)
(* atomic operation.                                                       *)
(*                                                                         *)
(* A point of a window without requests reports one, so that the           *)
(* application stays in the catalog; that heartbeat is no request and is   *)
(* not counted here.                                                       *)
(***************************************************************************)
EXTENDS Integers, Sequences, FiniteSets, Functions

CONSTANTS
  Handlers,       \* goroutines that serve requests
  Callers,        \* goroutines of the application that emit points
  Loop,           \* metricsLoop
  MaxRequests,    \* bound: requests served in a behaviour
  MaxCollections, \* bound: garbage collections in a behaviour
  MaxCalls        \* bound: points emitted by Callers in a behaviour

ASSUME GoroutinesAssumption ==
  /\ IsFiniteSet(Handlers)
  /\ IsFiniteSet(Callers)
  /\ Loop \notin Callers

ASSUME BoundsAssumption == {MaxRequests, MaxCollections, MaxCalls} \subseteq Nat

Emitters == Callers \cup {Loop}

\* What a handler counts and a point reports.
Counters == {"requests", "errors", "duration"}

\* What the runtime counts since process start: NumGC and PauseTotalNs.
Totals == {"collections", "pause"}

VARIABLES
  serving,    \* where each handler is in recordHTTP
  counter,    \* httpRequests, httpErrors, httpDuration
  served,     \* requests recorded
  pending,    \* what was added to the counters and is in no finished point yet
  runtime,    \* the totals of the runtime
  previous,   \* gcNum, gcPauseNs: the totals the last point was computed from
  pc,         \* where each emitter is in EmitRuntimeMetrics
  point,      \* the point it is building
  seen,       \* the totals it has read
  published,  \* the sum of all windows of the runtime's totals
  overlapped, \* have two emitters been between ReadMemStats and gcDelta's last swap?
  calls,      \* how often the application has emitted a point
  cancelled   \* Shutdown has cancelled the loop

gcVars == <<runtime, previous, published>>
pointVars == <<pc, point, seen, overlapped>>
clientVars == <<calls, cancelled>>
vars == <<serving, counter, served, pending, gcVars, pointVars, clientVars>>

Quantities == Counters \cup Totals

Nothing == [q \in Quantities |-> 0]

\* The steps of EmitRuntimeMetrics, in order.
Steps == <<"idle", "requests", "errors", "duration", "collections", "pause", "write">>

Init ==
  /\ serving = [h \in Handlers |-> "idle"]
  /\ counter = [c \in Counters |-> 0]
  /\ served = 0
  /\ pending = [c \in Counters |-> 0]
  /\ runtime = [t \in Totals |-> 1]
  /\ previous = [t \in Totals |-> 0]
  /\ pc = [e \in Emitters |-> "idle"]
  /\ point = [e \in Emitters |-> Nothing]
  /\ seen = [e \in Emitters |-> [t \in Totals |-> 0]]
  /\ published = [t \in Totals |-> 0]
  /\ overlapped = FALSE
  /\ calls = 0
  /\ cancelled = FALSE

-----------------------------------------------------------------------------
(* recordHTTP: a request, then an error if its status is 500 or above, then  *)
(* its duration, which is positive.                                           *)

Add(h, c, next) ==
  /\ counter' = [counter EXCEPT ![c] = @ + 1]
  /\ pending' = [pending EXCEPT ![c] = @ + 1]
  /\ serving' = [serving EXCEPT ![h] = next]
  /\ UNCHANGED <<gcVars, pointVars, clientVars>>

RecordRequest(h) ==
  /\ serving[h] = "idle"
  /\ served < MaxRequests
  /\ served' = served + 1
  /\ \E next \in {"error", "duration"} : Add(h, "requests", next)

RecordError(h) ==
  /\ serving[h] = "error"
  /\ Add(h, "errors", "duration")
  /\ UNCHANGED served

RecordDuration(h) ==
  /\ serving[h] = "duration"
  /\ Add(h, "duration", "idle")
  /\ UNCHANGED served

\* External: the runtime collects garbage.
Collect ==
  /\ runtime["collections"] < MaxCollections
  /\ runtime' = [t \in Totals |-> runtime[t] + 1]
  /\ UNCHANGED <<serving, counter, served, pending, previous, published, pointVars, clientVars>>

-----------------------------------------------------------------------------
(* EmitRuntimeMetrics. *)

\* The emitters between ReadMemStats and the last swap of gcDelta.
Reading == {e \in Emitters : pc[e] \notin {"idle", "write"}}

\* ReadMemStats.
Begin(e) ==
  /\ pc[e] = "idle"
  /\ seen' = [seen EXCEPT ![e] = runtime]
  /\ point' = [point EXCEPT ![e] = Nothing]
  /\ pc' = [pc EXCEPT ![e] = "requests"]
  /\ overlapped' = (overlapped \/ Reading # {})
  /\ UNCHANGED <<serving, counter, served, pending, gcVars>>

\* The application asks for a point.
Call(e) ==
  /\ calls < MaxCalls
  /\ calls' = calls + 1
  /\ Begin(e)
  /\ UNCHANGED cancelled

\* Mutant: the loop emits its first point only.
TickOnce ==
  /\ ~cancelled
  /\ previous["pause"] = 0
  /\ Begin(Loop)
  /\ UNCHANGED <<calls, cancelled>>

\* metricsLoop emits a point at start and at every tick of its ticker.
Tick ==
  /\ ~cancelled
  /\ Begin(Loop)
  /\ UNCHANGED <<calls, cancelled>>

\* Shutdown cancels the loop, which returns when it next looks.  It emits no
\* last point.
Cancel ==
  /\ cancelled' = TRUE
  /\ UNCHANGED <<serving, counter, served, pending, gcVars, pointVars, calls>>

After(step) == Steps[1 + CHOOSE i \in 1..Len(Steps) : Steps[i] = step]

\* Mutant: the counter is read and then cleared, and what was added in between
\* is cleared with it.
DrainMisses(e, c) ==
  /\ pc[e] = c
  /\ \E n \in 0..counter[c] : point' = [point EXCEPT ![e][c] = n]
  /\ counter' = [counter EXCEPT ![c] = 0]
  /\ pc' = [pc EXCEPT ![e] = After(c)]
  /\ UNCHANGED <<serving, served, pending, gcVars, seen, overlapped, clientVars>>

\* One counter is swapped with zero.
Drain(e, c) ==
  /\ pc[e] = c
  /\ point' = [point EXCEPT ![e][c] = counter[c]]
  /\ counter' = [counter EXCEPT ![c] = 0]
  /\ pc' = [pc EXCEPT ![e] = After(c)]
  /\ UNCHANGED <<serving, served, pending, gcVars, seen, overlapped, clientVars>>

\* Mutant: a total that went back wraps around instead of counting nothing.
DeltaWraps(now, before) == IF now >= before THEN now - before ELSE 2^30 - (before - now)

\* The work of a window; zero when MemStats was read out of order.
Delta(now, before) == IF now >= before THEN now - before ELSE 0

\* gcDelta swaps one stored total for the one read before.
Subtract(e, t) ==
  /\ pc[e] = t
  /\ LET window == Delta(seen[e][t], previous[t]) IN
       /\ point' = [point EXCEPT ![e][t] = window]
       /\ published' = [published EXCEPT ![t] = @ + window]
  /\ previous' = [previous EXCEPT ![t] = seen[e][t]]
  /\ pc' = [pc EXCEPT ![e] = After(t)]
  /\ UNCHANGED <<serving, counter, served, pending, runtime, seen, overlapped, clientVars>>

\* The point is written, or the spool refuses it: what was drained is gone
\* either way.
Write(e) ==
  /\ pc[e] = "write"
  /\ pending' = [c \in Counters |-> pending[c] - point[e][c]]
  /\ pc' = [pc EXCEPT ![e] = "idle"]
  /\ point' = [point EXCEPT ![e] = Nothing]
  /\ seen' = [seen EXCEPT ![e] = [t \in Totals |-> 0]]
  /\ UNCHANGED <<serving, counter, served, gcVars, overlapped, clientVars>>

Emit(e) ==
  \/ \E c \in Counters : Drain(e, c)
  \/ \E t \in Totals : Subtract(e, t)
  \/ Write(e)

Next ==
  \/ \E h \in Handlers : RecordRequest(h) \/ RecordError(h) \/ RecordDuration(h)
  \/ Collect
  \/ \E e \in Callers : Call(e)
  \/ Tick
  \/ Cancel
  \/ \E e \in Emitters : Emit(e)

Spec == Init /\ [][Next]_vars

\* Goroutines that run keep running, and the ticker keeps firing.
Fairness ==
  /\ WF_vars(Tick)
  /\ \A e \in Emitters : WF_vars(Emit(e))

FairSpec == Spec /\ Fairness

-----------------------------------------------------------------------------
(* Properties. *)

\* However recordHTTP's additions interleave with the swaps of two emitters,
\* every request, error and duration is in exactly one point or still in its
\* counter: none is drained twice, and none is lost but with a point the spool
\* refused (EmitRuntimeMetrics, recordHTTP).
RequestsOnce ==
  \A c \in Counters :
    pending[c] = counter[c] + SumFunctionOnSet([e \in Emitters |-> point[e][c]], Emitters)

\* As long as no two emitters are between ReadMemStats and gcDelta at once, the
\* windows add up to the totals of the runtime; and no window, not even one of
\* an emitter whose totals another one has overtaken, reports more than the
\* process has done ("zero is the honest answer, not a wrapped-around huge
\* number", gcDelta).
WindowsAddUp ==
  \A t \in Totals :
    /\ ~overlapped => published[t] = previous[t] /\ previous[t] <= runtime[t]
    /\ \A e \in Emitters : point[e][t] <= runtime[t]

\* Without a call from the application, metricsLoop alone drains every counter,
\* whether the spool accepts its points or not, unless it is shut down first.
Drained == \A c \in Counters : counter[c] > 0 ~> (counter[c] = 0 \/ cancelled)
=============================================================================
