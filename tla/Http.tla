-------------------------------- MODULE Http --------------------------------
(***************************************************************************)
(* Handler and Transport (http.go).  A request travels from one goroutine  *)
(* to another, of the same program or of another one; it or its answer may *)
(* be lost, and the client may give up while the server still works on it. *)
(* Status codes are "ok" (below 500), "failed" and "interim" (1xx).        *)
(***************************************************************************)
EXTENDS Tracing

CONSTANT Requests  \* HTTP requests that can be under way at once

VARIABLE wire      \* each of them

Unused == [state |-> "unused", header |-> NoContext, cause |-> 0, awaited |-> FALSE, code |-> "none"]

\* What it carries, who has sent it, and whether somebody waits for its answer.
Sent(header, cause, awaited) ==
  [state |-> "sent", header |-> header, cause |-> cause, awaited |-> awaited, code |-> "none"]

\* External: a program that is not instrumented, or another one, calls.  Bound:
\* before any span is started.
Arrive ==
  /\ "serve" \in uses
  /\ spans = <<>>
  /\ \E r \in Requests, header \in {NoContext, ForeignContext} :
       /\ wire[r] = Unused
       /\ wire' = [wire EXCEPT ![r] = Sent(header, header.id, FALSE)]
  /\ ended' = {}
  /\ UNCHANGED <<spans, calls, bound>>

-----------------------------------------------------------------------------
(* Transport *)

\* A mutant: the context of the caller is handed on.
RoundTripForwards(g) ==
  /\ CanCall(g, "http")
  /\ \E r \in Requests :
       /\ wire[r] = Unused
       /\ LET ctx == Ambient(g)
              span == StartSpan("client", ctx, Enclosing(g)) IN
          /\ Valid(ctx)
          /\ Begin(g, span, "library", {r})
          /\ wire' = [wire EXCEPT ![r] = Sent(ctx, Len(spans) + 1, TRUE)]
  /\ UNCHANGED bound

\* RoundTrip starts a span only below another one, hands the span's context to
\* the server and calls the next transport.
RoundTrip(g) ==
  /\ CanCall(g, "http")
  /\ \E r \in Requests :
       /\ wire[r] = Unused
       /\ LET ctx == Ambient(g)
              span == StartSpan("client", ctx, Enclosing(g))
              id == Len(spans) + 1 IN
          IF Valid(ctx)
            THEN /\ Begin(g, span, "library", {r})
                 /\ wire' = [wire EXCEPT ![r] = Sent(RemoteContext(id, span), id, TRUE)]
            ELSE /\ Push(g, Frame("client", {}, ctx, "library", {r}))
                 /\ wire' = [wire EXCEPT ![r] = Sent(NoContext, Enclosing(g), TRUE)]
                 /\ ended' = {}
                 /\ UNCHANGED spans
  /\ UNCHANGED bound

\* The answer arrives.
Answered(g) ==
  /\ InLibrary(g, {"client"})
  /\ \E r \in Top(g).ref :
       /\ wire[r].state = "answered"
       /\ End(g, CodeStatus(wire[r].code), wire[r].code, wire[r].code)
       /\ wire' = [wire EXCEPT ![r] = Unused]
  /\ UNCHANGED bound

\* What is left of a request whose client has turned away.
Forsaken(request) ==
  IF request.state \in {"sent", "serving"} THEN [request EXCEPT !.awaited = FALSE] ELSE Unused

\* The transport fails, or the context of the request expires.
GivesUp(g) ==
  /\ InLibrary(g, {"client"})
  /\ End(g, "error", "none", "error")
  /\ wire' = [r \in Requests |-> IF r \in Top(g).ref THEN Forsaken(wire[r]) ELSE wire[r]]
  /\ UNCHANGED bound

\* External: a request that nobody waits for is lost.
Lost ==
  /\ \E r \in Requests :
       /\ wire[r].state = "sent" /\ ~wire[r].awaited
       /\ wire' = [wire EXCEPT ![r] = Unused]
  /\ ended' = {}
  /\ UNCHANGED <<spans, calls, bound>>

-----------------------------------------------------------------------------
(* Handler *)

\* A path of HTTPSkipPaths is served without a span, in the request's context.
Skip(g, r) ==
  /\ "skip" \in uses
  /\ Push(g, Frame("skipped", {}, NoContext, "function", {r}))
  /\ ended' = {}
  /\ UNCHANGED spans

Serve(g, r) ==
  Begin(g, Adopt(StartSpan("handler", NoContext, wire[r].cause), wire[r].header), "function", {r})

Handle(g) ==
  /\ Idle(g)
  /\ \E r \in Requests :
       /\ wire[r].state = "sent"
       /\ wire' = [wire EXCEPT ![r].state = "serving"]
       /\ Skip(g, r) \/ Serve(g, r)
  /\ UNCHANGED bound

\* What net/http sends: the first final code that reaches it, and 200 if none.
Sends(request, code) ==
  IF request.code = "none" /\ code # "interim" THEN code ELSE request.code

\* A handler that does more than return.
Answers(g) == "answer" \in uses /\ InFunction(g) /\ Top(g).op = "handler"

\* A mutant: the guard on wroteHeader is missing.
WriteHeaderAgain(g) ==
  /\ Answers(g)
  /\ \E code \in {"interim", "ok", "failed"}, r \in Top(g).ref :
       /\ Replace(g, [Top(g) EXCEPT !.code = code])
       /\ wire' = [wire EXCEPT ![r].code = Sends(wire[r], code)]
  /\ ended' = {}
  /\ UNCHANGED <<spans, bound>>

(* responseRecorder.WriteHeader, and Write, which is WriteHeader(200) first:  *)
(* the first code counts and reaches net/http, the others are dropped.        *)
WriteHeader(g) ==
  /\ Answers(g)
  /\ Top(g).code = "none"
  /\ \E code \in {"interim", "ok", "failed"}, r \in Top(g).ref :
       /\ Replace(g, [Top(g) EXCEPT !.code = code])
       /\ wire' = [wire EXCEPT ![r].code = Sends(wire[r], code)]
  /\ ended' = {}
  /\ UNCHANGED <<spans, bound>>

\* The exchange is over on the server's side.
Over(request, state, code) ==
  IF request.awaited THEN [request EXCEPT !.state = state, !.code = code] ELSE Unused

\* responseRecorder.Flush, through which net/http sends 200 if nothing was sent
\* yet; the recorder does not take note.
Flush(g) ==
  /\ Answers(g)
  /\ \E r \in Top(g).ref :
       /\ wire[r].code = "none"
       /\ wire' = [wire EXCEPT ![r].code = Sends(wire[r], "ok")]
  /\ ended' = {}
  /\ UNCHANGED <<spans, calls, bound>>

\* ServeHTTP returns: the deferred function ends the span, net/http answers.
HandlerReturns(g) ==
  /\ InFunction(g) /\ Top(g).op \in {"handler", "skipped"}
  /\ \E r \in Top(g).ref :
       \E code \in IF Top(g).op = "skipped" THEN {"ok", "failed"} ELSE {Sends(wire[r], "ok")} :
         /\ End(g, CodeStatus(Top(g).code), Top(g).code, code)
         /\ wire' = [wire EXCEPT ![r] = Over(@, "answered", code)]
  /\ UNCHANGED bound

(* A panic has ended these calls: net/http closes the connection of a         *)
(* handler, behind an answer that it has already sent; and whoever waited for *)
(* an answer does not any more.                                               *)
AfterPanic(gone) ==
  wire' = [r \in Requests |->
    IF \E f \in gone : f.op = "client" /\ r \in f.ref THEN Forsaken(wire[r])
    ELSE IF \E f \in gone : f.op \in {"handler", "skipped"} /\ r \in f.ref
      THEN Over(wire[r], IF wire[r].code = "none" THEN "aborted" ELSE "answered", wire[r].code)
    ELSE wire[r]]

HttpInit == wire = [r \in Requests |-> Unused]
=============================================================================
