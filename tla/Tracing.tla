------------------------------ MODULE Tracing ------------------------------
(***************************************************************************)
(* Spans and the contexts that carry them (tracing.go), and the operations *)
(* of operation.go and fs.go that put a span around a function.  Http,     *)
(* Messaging and Clients add the other instrumented operations, Services   *)
(* composes them all.                                                      *)
(*                                                                         *)
(* A goroutine is a stack of instrumented calls.  On top of it either a    *)
(* function of the application runs, which may make further calls, or a    *)
(* library does.                                                           *)
(***************************************************************************)
EXTENDS Naturals, SequencesExt

CONSTANTS
  Goroutines,
  Programs,  \* the sets of operations that a program uses together
  MaxSpans,  \* bound: spans started in a behaviour
  MaxDepth   \* bound: nested instrumented calls

ASSUME TracingAssumption == {MaxSpans, MaxDepth} \subseteq Nat \ {0}

VARIABLES
  uses,   \* the operations that the program uses
  spans,  \* every span started, in order
  calls,  \* the stack of instrumented calls of each goroutine
  bound,  \* what the function that Bind has returned has captured
  ended   \* what the last step handed to the span buffer, and to the caller

tracingVars == <<uses, spans, calls, bound, ended>>

(* What StartSpan reads of the ambient span, what Span.RemoteContext hands   *)
(* to the next hop, and what ContextWithRemoteContext puts into a context.    *)
(* "companions" are tracestate and baggage.                                   *)
NoContext == [trace |-> 0, id |-> 0, sampled |-> TRUE, companions |-> "none"]

\* A trace that another program has started and decided not to sample.
Foreign == MaxSpans + 1
ForeignContext ==
  [trace |-> Foreign, id |-> Foreign, sampled |-> FALSE, companions |-> "theirs"]

Valid(ctx) == ctx.trace # 0 /\ ctx.id # 0

Top(g) == Last(calls[g])

Idle(g) == calls[g] = <<>>

InFunction(g) == ~Idle(g) /\ Top(g).at = "function"

InLibrary(g, ops) == ~Idle(g) /\ Top(g).at = "library" /\ Top(g).op \in ops

\* The application's function can make an instrumented call.
CanCall(g, op) == op \in uses /\ InFunction(g) /\ Len(calls[g]) < MaxDepth

\* An idle goroutine starts with the background context.
Ambient(g) == IF Idle(g) THEN NoContext ELSE Top(g).ctx

\* The span whose work a call made on this stack is, whatever the context says.
Innermost(stack) ==
  LET traced == {i \in DOMAIN stack : stack[i].own # {}} IN
  IF traced = {} THEN 0 ELSE CHOOSE s \in stack[Max(traced)].own : TRUE

Enclosing(g) == Innermost(calls[g])

Push(g, frame) == calls' = [calls EXCEPT ![g] = Append(@, frame)]
Pop(g) == calls' = [calls EXCEPT ![g] = Front(@)]
Replace(g, frame) == calls' = [calls EXCEPT ![g] = Append(Front(@), frame)]

\* A call: its spans, the context its function runs in, what it works on, the
\* status code it has seen or written, and its attempts.
Frame(op, own, ctx, at, ref) ==
  [op |-> op, own |-> own, ctx |-> ctx, at |-> at, ref |-> ref, code |-> "none", tries |-> 1]

-----------------------------------------------------------------------------
(* Spans *)

\* "cause" is no field of a span: it is the span whose work this one is.
StartSpan(op, ctx, cause) ==
  LET joins == ctx.trace # 0 IN
  [op |-> op,
   trace |-> IF joins THEN ctx.trace ELSE Len(spans) + 1,
   parent |-> IF joins THEN ctx.id ELSE 0,
   sampled |-> IF joins THEN ctx.sampled ELSE TRUE,
   companions |-> IF joins THEN ctx.companions ELSE "none",
   cause |-> cause,
   state |-> "open"]

RemoteContext(id, span) ==
  [trace |-> span.trace, id |-> id, sampled |-> span.sampled, companions |-> span.companions]

\* A mutant: the sampling decision is the span's own.
AdoptSampled(span, remote) ==
  IF Valid(remote)
    THEN [span EXCEPT !.trace = remote.trace, !.parent = remote.id,
                      !.companions = remote.companions]
    ELSE span

Adopt(span, remote) ==
  IF Valid(remote)
    THEN [span EXCEPT !.trace = remote.trace, !.parent = remote.id,
                      !.sampled = remote.sampled, !.companions = remote.companions]
    ELSE span

\* Starts a span and the call it belongs to.
Begin(g, span, at, ref) ==
  LET id == Len(spans) + 1 IN
  /\ Len(spans) < MaxSpans
  /\ spans' = Append(spans, span)
  /\ Push(g, Frame(span.op, {id}, RemoteContext(id, span), at, ref))
  /\ ended' = {}

\* The spans of some calls reach a state.
Marked(own, state) ==
  [s \in DOMAIN spans |-> IF s \in own THEN [spans[s] EXCEPT !.state = state] ELSE spans[s]]

\* Span.End, of the spans of a call that gives its caller result.
Record(f, status, code, result) ==
  IF f.own = {} THEN {} ELSE {[op |-> f.op, status |-> status, code |-> code, result |-> result]}

Status(result) == IF result = "error" THEN "error" ELSE "ok"

\* statusFromCode.
CodeStatus(code) == IF code = "failed" THEN "error" ELSE "ok"

\* The innermost call ends its spans and returns.
End(g, status, code, result) ==
  /\ spans' = Marked(Top(g).own, "recorded")
  /\ ended' = Record(Top(g), status, code, result)
  /\ Pop(g)

-----------------------------------------------------------------------------
(* Operations around a function of the application. *)

\* Client.Run; the program begins with one, unless a request arrives first.
Run(g) ==
  /\ "run" \in uses
  /\ (Idle(g) /\ spans = <<>>) \/ CanCall(g, "run")
  /\ Begin(g, StartSpan("run", Ambient(g), Enclosing(g)), "function", {})
  /\ UNCHANGED bound

\* Client.Bind captures the context; a worker calls Run with it later, perhaps
\* long after the dispatching span has ended.
Bind(g) ==
  /\ CanCall(g, "bind")
  /\ bound = {}
  /\ bound' = {[ctx |-> Ambient(g), cause |-> Enclosing(g)]}
  /\ ended' = {}
  /\ UNCHANGED <<spans, calls>>

RunBound(g) ==
  /\ Idle(g)
  /\ \E b \in bound : Begin(g, StartSpan("run", b.ctx, b.cause), "function", {})
  /\ bound' = {}

\* Client.File; ReadFile, WriteFile, Copy, Stat and Remove are it with a
\* function of their own.
File(g) ==
  /\ CanCall(g, "file")
  /\ Begin(g, StartSpan("file", Ambient(g), Enclosing(g)), "function", {})
  /\ UNCHANGED bound

\* The function returns, and its span ends; so does a message's (Batch.each).
Return(g) ==
  /\ InFunction(g)
  /\ Top(g).op \in {"run", "file", "process"}
  /\ \E result \in {"ok", "error"} : End(g, Status(result), "none", result)
  /\ UNCHANGED bound

\* instrumentedFS.Open: its span stands alone, and a failed open is repeated
\* for its error.
Open(g) ==
  /\ CanCall(g, "open")
  /\ Begin(g, StartSpan("open", NoContext, Enclosing(g)), "library", {})
  /\ UNCHANGED bound

OpenReturns(g) ==
  /\ InLibrary(g, {"open"})
  /\ \/ End(g, "ok", "none", "ok")
     \/ \E second \in {"ok", "error"} : End(g, "error", "none", second)
  /\ UNCHANGED bound

-----------------------------------------------------------------------------
(* Panics *)

\* A mutant: Handler ends its span when the handler has returned.
DeferringLess == {"run", "process", "publish", "stmt"}

\* The calls that end their span in a deferred function: Run (operation.go:59),
\* Handler (http.go:79), a message's processing (RecordMessaging, messaging.go:212;
\* Each, batch.go:319; the claim's proxy, sarama.go:305), SendMessage
\* (sarama.go:131) and a prepared statement (sql_driver.go:234, 255).
Deferring == {"run", "process", "handler", "publish", "stmt"}

(* A panic ends the calls above the one that recovers it; at the bottom of    *)
(* the stack net/http, or the application, does.  Nothing that another        *)
(* goroutine could see happens on the way: one action.  A span that is not    *)
(* ended stays so for ever: it has leaked.                                    *)
Panic(g) ==
  \E kept \in 0..(Len(calls[g]) - 1) :
    LET gone == ToSet(SubSeq(calls[g], kept + 1, Len(calls[g])))
        deferred == {f \in gone : f.op \in Deferring}
        lost == UNION {f.own : f \in gone \ deferred} IN
    /\ kept > 0 => calls[g][kept].at = "function"
    /\ calls' = [calls EXCEPT ![g] = SubSeq(@, 1, kept)]
    /\ spans' = [s \in DOMAIN spans |->
         IF s \in lost THEN [spans[s] EXCEPT !.state = "leaked"]
         ELSE Marked(UNION {f.own : f \in deferred}, "recorded")[s]]
    /\ ended' = UNION {Record(f, CodeStatus(f.code), f.code, "panic") : f \in deferred}
    /\ UNCHANGED bound

TracingInit ==
  /\ uses \in Programs
  /\ spans = <<>>
  /\ calls = [g \in Goroutines |-> <<>>]
  /\ bound = {}
  /\ ended = {}
=============================================================================
