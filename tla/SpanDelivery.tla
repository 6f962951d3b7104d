---------------------------- MODULE SpanDelivery ----------------------------
(***************************************************************************)
(* What span batching promises an application: a span that has ended is    *)
(* pending until it is either part of exactly one document the spool       *)
(* accepted or shed, and every shed span is counted.  Nothing is said of   *)
(* goroutines, locks, batches in flight or retries: those are the detail   *)
(* of module SpanBuffer, which implements this specification.              *)
(***************************************************************************)
EXTENDS Naturals, Sequences, FiniteSets

CONSTANT Spans   \* the spans the application may end

VARIABLES
  open,        \* spans that have not ended
  pending,     \* ended spans held in memory
  documents,   \* the documents the spool accepted, each a set of spans
  dropped      \* the value Client.DroppedSpans reports

vars == <<open, pending, documents, dropped>>

Init ==
  /\ open = Spans
  /\ pending = {}
  /\ documents = <<>>
  /\ dropped = 0

\* Span.End: the first call records the span, later calls do nothing.
End(s) ==
  /\ s \in open
  /\ open' = open \ {s}
  /\ pending' = pending \cup {s}
  /\ UNCHANGED <<documents, dropped>>

\* A non-empty batch leaves memory by becoming one document.
Deliver(batch) ==
  /\ batch # {}
  /\ pending' = pending \ batch
  /\ documents' = Append(documents, batch)
  /\ UNCHANGED <<open, dropped>>

\* Spans leave memory unwritten only by being counted.
Shed(lost) ==
  /\ lost # {}
  /\ pending' = pending \ lost
  /\ dropped' = dropped + Cardinality(lost)
  /\ UNCHANGED <<open, documents>>

Next ==
  \/ \E s \in Spans : End(s)
  \/ \E batch \in SUBSET pending : Deliver(batch)
  \/ \E lost \in SUBSET pending : Shed(lost)

Spec == Init /\ [][Next]_vars
=============================================================================
