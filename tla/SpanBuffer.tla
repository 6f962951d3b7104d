----------------------------- MODULE SpanBuffer -----------------------------
(***************************************************************************)
(* The span buffer of the client (span_buffer.go), with the goroutines     *)
(* that share it: the application's goroutines, which end spans and may    *)
(* call FlushSpans, the background spanLoop, and the goroutine that calls  *)
(* Shutdown.  spanBuffer's methods run under its mutex and are one step    *)
(* each; the spool write between take and requeue runs without it, and     *)
(* several flushes may be in flight at once.                               *)
(*                                                                         *)
(* A span is the span record Span.finish snapshots.  The spool is external *)
(* at this level: it accepts a document while it is up and refuses it      *)
(* while it is down.  Module SpoolLog models it.                           *)
(***************************************************************************)
EXTENDS Integers, Sequences, FiniteSets, Functions

CONSTANTS
  Spans,             \* spans the application may end
  Goroutines,        \* application goroutines
  Loop,              \* the spanLoop goroutine
  Main,              \* the goroutine that calls Shutdown
  SpanBatchSize,     \* Config.SpanBatchSize, any integer
  SpanMaxBuffered,   \* Config.SpanMaxBuffered, any integer
  DefaultBatchSize,  \* defaultSpanBatchSize
  Background         \* Config.Background: does spanLoop run?

Procs == Goroutines \cup {Loop, Main}

ASSUME SpansAssumption == IsFiniteSet(Spans)

ASSUME ProcsAssumption ==
  /\ Loop # Main
  /\ Loop \notin Goroutines
  /\ Main \notin Goroutines

ASSUME SizesAssumption ==
  /\ SpanBatchSize \in Int
  /\ SpanMaxBuffered \in Int
  /\ DefaultBatchSize \in Nat \ {0}

ASSUME BackgroundAssumption == Background \in BOOLEAN

-----------------------------------------------------------------------------
(* The sizes newSpanBuffer derives from the configuration. *)

requestedBatch == IF SpanBatchSize <= 0 THEN DefaultBatchSize ELSE SpanBatchSize

batchSize ==
  IF SpanMaxBuffered > 0 /\ SpanMaxBuffered < requestedBatch
    THEN SpanMaxBuffered
    ELSE requestedBatch

maxBuffered == IF SpanMaxBuffered <= 0 THEN batchSize ELSE SpanMaxBuffered

-----------------------------------------------------------------------------
VARIABLES
  ended,      \* spans whose ended flag is set
  spans,      \* the buffer: spanBuffer.spans
  dropped,    \* spanBuffer.dropped
  pc,         \* where each goroutine is
  all,        \* the argument of the flush a goroutine is running, else FALSE
  held,       \* the records a goroutine holds outside the buffer
  written,    \* documents the spool accepted, oldest first
  spoolUp,    \* does the spool accept writes?
  cancelled,  \* has Shutdown cancelled the loops' context?
  expired     \* did Shutdown's context expire before the loop had exited?

bufferVars == <<spans, dropped>>
envVars == <<spoolUp, cancelled, expired>>
vars == <<ended, bufferVars, pc, all, held, written, envVars>>

Locations ==
  {"idle", "add", "take", "write", "requeue",   \* every goroutine
   "exited",                                    \* Loop only
   "wait", "returned", "failed"}                \* Main only

TypeOK ==
  /\ ended \subseteq Spans
  /\ spans \in Seq(Spans)
  /\ dropped \in Nat
  /\ pc \in [Procs -> Locations]
  /\ all \in [Procs -> BOOLEAN]
  /\ held \in [Procs -> Seq(Spans)]
  /\ written \in Seq(Seq(Spans))
  /\ spoolUp \in BOOLEAN
  /\ cancelled \in BOOLEAN
  /\ expired \in BOOLEAN

Init ==
  /\ ended = {}
  /\ spans = <<>>
  /\ dropped = 0
  /\ pc = [p \in Procs |-> IF p = Loop /\ ~Background THEN "exited" ELSE "idle"]
  /\ all = [p \in Procs |-> FALSE]
  /\ held = [p \in Procs |-> <<>>]
  /\ written = <<>>
  /\ spoolUp = TRUE
  /\ cancelled = FALSE
  /\ expired = FALSE

Goto(p, loc) == pc' = [pc EXCEPT ![p] = loc]

Holds(p, records) == held' = [held EXCEPT ![p] = records]

\* p enters flushSpanBatch(everything).
StartFlush(p, everything) ==
  /\ Goto(p, "take")
  /\ all' = [all EXCEPT ![p] = everything]

\* Mutant: spanLoop gives up at the first error of its flush.
ReturnEndsLoop(p, ok) ==
  /\ Goto(p, IF p = Loop /\ ~ok THEN "exited"
             ELSE IF p # Main THEN "idle" ELSE IF ok THEN "returned" ELSE "failed")
  /\ all' = [all EXCEPT ![p] = FALSE]

\* flushSpanBatch returns, ok if it returns no error.
Return(p, ok) ==
  /\ Goto(p, IF p # Main THEN "idle" ELSE IF ok THEN "returned" ELSE "failed")
  /\ all' = [all EXCEPT ![p] = FALSE]

-----------------------------------------------------------------------------
(* Ending a span: Span.End -> finish -> enqueueSpan -> add. *)

\* Mutant: finish does not look at the ended flag.
FinishTwice(p, s) ==
  /\ p \in Goroutines
  /\ pc[p] = "idle"
  /\ ended' = ended \cup {s}
  /\ Holds(p, <<s>>)
  /\ Goto(p, "add")
  /\ UNCHANGED <<spans, dropped, all, written, envVars>>

\* Span.finish under the span's own mutex.  A second End finds the flag set
\* and returns, which changes nothing.
Finish(p, s) ==
  /\ p \in Goroutines
  /\ pc[p] = "idle"
  /\ s \notin ended
  /\ ended' = ended \cup {s}
  /\ Holds(p, <<s>>)
  /\ Goto(p, "add")
  /\ UNCHANGED <<spans, dropped, all, written, envVars>>

\* spanBuffer.add: at the cap the newest span is dropped and counted.
AddDrop(p) ==
  /\ pc[p] = "add"
  /\ Len(spans) >= maxBuffered
  /\ dropped' = dropped + 1
  /\ Holds(p, <<>>)
  /\ Goto(p, "idle")
  /\ UNCHANGED <<ended, spans, all, written, envVars>>

\* Mutant: the cap is compared with > instead of >=.
AddBankOverCap(p) ==
  /\ pc[p] = "add"
  /\ Len(spans) <= maxBuffered
  /\ spans' = spans \o held[p]
  /\ Holds(p, <<>>)
  /\ IF Len(spans') >= batchSize
       THEN StartFlush(p, FALSE)
       ELSE Goto(p, "idle") /\ UNCHANGED all
  /\ UNCHANGED <<ended, dropped, written, envVars>>

\* spanBuffer.add below the cap; enqueueSpan flushes when it reports full.
AddBank(p) ==
  /\ pc[p] = "add"
  /\ Len(spans) < maxBuffered
  /\ spans' = spans \o held[p]
  /\ Holds(p, <<>>)
  /\ IF Len(spans') >= batchSize
       THEN StartFlush(p, FALSE)
       ELSE Goto(p, "idle") /\ UNCHANGED all
  /\ UNCHANGED <<ended, dropped, written, envVars>>

-----------------------------------------------------------------------------
(* flushSpanBatch. *)

\* The number of records spanBuffer.take removes.
TakeCount(everything) ==
  IF ~everything /\ Len(spans) > batchSize THEN batchSize ELSE Len(spans)

\* take found nothing: the flush returns nil.
TakeNothing(p) ==
  /\ pc[p] = "take"
  /\ spans = <<>>
  /\ Return(p, TRUE)
  /\ UNCHANGED <<ended, bufferVars, held, written, envVars>>

Take(p) ==
  /\ pc[p] = "take"
  /\ spans # <<>>
  /\ LET n == TakeCount(all[p])
     IN /\ Holds(p, SubSeq(spans, 1, n))
        /\ spans' = SubSeq(spans, n + 1, Len(spans))
  /\ Goto(p, "write")
  /\ UNCHANGED <<ended, dropped, all, written, envVars>>

\* WriteJSON accepted the batch; flushing everything takes again.
WriteAccepted(p) ==
  /\ pc[p] = "write"
  /\ spoolUp
  /\ written' = Append(written, held[p])
  /\ Holds(p, <<>>)
  /\ IF all[p] THEN Goto(p, "take") /\ UNCHANGED all ELSE Return(p, TRUE)
  /\ UNCHANGED <<ended, bufferVars, envVars>>

WriteRefused(p) ==
  /\ pc[p] = "write"
  /\ ~spoolUp
  /\ Goto(p, "requeue")
  /\ UNCHANGED <<ended, bufferVars, all, held, written, envVars>>

Least(m, n) == IF m <= n THEN m ELSE n

\* Mutant: the room under the cap is one short.
RoomOneShort == IF maxBuffered - Len(spans) < 1 THEN 0 ELSE maxBuffered - Len(spans) - 1

\* How many of the returned records fit under the cap.
Room == IF maxBuffered - Len(spans) < 0 THEN 0 ELSE maxBuffered - Len(spans)

\* Mutants: the records that do not fit are not counted; their number is
\* computed the wrong way round; the flush retries instead of returning.
RequeueUncounted(p) ==
  /\ pc[p] = "requeue"
  /\ spans' = SubSeq(held[p], 1, Least(Len(held[p]), Room)) \o spans
  /\ Holds(p, <<>>)
  /\ Return(p, FALSE)
  /\ UNCHANGED <<ended, dropped, written, envVars>>

RequeueMiscounted(p) ==
  /\ pc[p] = "requeue"
  /\ LET kept == Least(Len(held[p]), Room)
     IN /\ spans' = SubSeq(held[p], 1, kept) \o spans
        /\ dropped' = dropped + (kept - Len(held[p]))
  /\ Holds(p, <<>>)
  /\ Return(p, FALSE)
  /\ UNCHANGED <<ended, written, envVars>>

RequeueRetries(p) ==
  /\ pc[p] = "requeue"
  /\ LET kept == Least(Len(held[p]), Room)
     IN /\ spans' = SubSeq(held[p], 1, kept) \o spans
        /\ dropped' = dropped + (Len(held[p]) - kept)
  /\ Holds(p, <<>>)
  /\ Goto(p, "take")
  /\ UNCHANGED <<ended, all, written, envVars>>

\* spanBuffer.requeue: the records that fit go back to the head of the
\* buffer, the others are dropped and counted; the flush returns its error.
Requeue(p) ==
  /\ pc[p] = "requeue"
  /\ LET kept == Least(Len(held[p]), Room)
     IN /\ spans' = SubSeq(held[p], 1, kept) \o spans
        /\ dropped' = dropped + (Len(held[p]) - kept)
  /\ Holds(p, <<>>)
  /\ Return(p, FALSE)
  /\ UNCHANGED <<ended, written, envVars>>

Flush(p) ==
  \/ TakeNothing(p)
  \/ Take(p)
  \/ WriteAccepted(p)
  \/ WriteRefused(p)
  \/ Requeue(p)

-----------------------------------------------------------------------------
(* Who flushes besides the goroutine that filled the buffer. *)

\* FlushSpans called by the application.
FlushSpans(p) ==
  /\ p \in Goroutines
  /\ pc[p] = "idle"
  /\ StartFlush(p, TRUE)
  /\ UNCHANGED <<ended, bufferVars, held, written, envVars>>

\* Mutant: the ticker only flushes full batches.
TickFullOnly ==
  /\ pc[Loop] = "idle"
  /\ Len(spans) >= batchSize
  /\ StartFlush(Loop, TRUE)
  /\ UNCHANGED <<ended, bufferVars, held, written, envVars>>

\* spanLoop's select takes a tick ...
Tick ==
  /\ pc[Loop] = "idle"
  /\ StartFlush(Loop, TRUE)
  /\ UNCHANGED <<ended, bufferVars, held, written, envVars>>

\* ... or sees the cancelled context and returns.
LoopExit ==
  /\ pc[Loop] = "idle"
  /\ cancelled
  /\ Goto(Loop, "exited")
  /\ UNCHANGED <<ended, bufferVars, all, held, written, envVars>>

\* Shutdown cancels the loops' context and waits for them.  A client without
\* background loops has no context to cancel and nothing to wait for: its loop
\* counts as exited from the start.
Shutdown ==
  /\ pc[Main] = "idle"
  /\ cancelled' = TRUE
  /\ Goto(Main, "wait")
  /\ UNCHANGED <<ended, bufferVars, all, held, written, spoolUp, expired>>

\* Mutant: Shutdown does not wait for the loop.
ShutdownUnjoined ==
  /\ pc[Main] = "wait"
  /\ StartFlush(Main, TRUE)
  /\ UNCHANGED <<ended, bufferVars, held, written, envVars>>

\* wg.Wait returned: flush what is left.
ShutdownJoined ==
  /\ pc[Main] = "wait"
  /\ pc[Loop] = "exited"
  /\ StartFlush(Main, TRUE)
  /\ UNCHANGED <<ended, bufferVars, held, written, envVars>>

\* The caller's deadline expired first: flush with the loop still running.
ShutdownExpired ==
  /\ pc[Main] = "wait"
  /\ pc[Loop] # "exited"
  /\ expired' = TRUE
  /\ StartFlush(Main, TRUE)
  /\ UNCHANGED <<ended, bufferVars, held, written, spoolUp, cancelled>>

\* External: the spool stops, or resumes, accepting documents.
SpoolToggles ==
  /\ spoolUp' = ~spoolUp
  /\ UNCHANGED <<ended, bufferVars, pc, all, held, written, cancelled, expired>>

-----------------------------------------------------------------------------
Next ==
  \/ \E p \in Procs :
       \/ \E s \in Spans : Finish(p, s)
       \/ AddDrop(p)
       \/ AddBank(p)
       \/ Flush(p)
       \/ FlushSpans(p)
  \/ Tick
  \/ LoopExit
  \/ Shutdown
  \/ ShutdownJoined
  \/ ShutdownExpired
  \/ SpoolToggles

Spec == Init /\ [][Next]_vars

(***************************************************************************)
(* Fairness.  A goroutine inside add or flushSpanBatch keeps running: Go   *)
(* schedules every runnable goroutine.  spanLoop's ticker keeps firing,    *)
(* and select takes a ready ctx.Done eventually even when ticks keep       *)
(* arriving (it picks at random among the ready cases), hence SF.  Nothing *)
(* is assumed of the spool or of the application.                          *)
(***************************************************************************)
Running(p) == AddDrop(p) \/ AddBank(p) \/ Flush(p)

Fairness ==
  /\ \A p \in Procs : WF_vars(Running(p))
  /\ WF_vars(Tick)
  /\ SF_vars(LoopExit)
  /\ WF_vars(ShutdownJoined)

FairSpec == Spec /\ Fairness

-----------------------------------------------------------------------------
(* Where a span can be. *)

Documents == {Range(written[i]) : i \in 1..Len(written)}
Spooled == UNION Documents
InHand == UNION {Range(held[p]) : p \in Procs}
InMemory == Range(spans) \cup InHand

\* The buffer, each goroutine's hand and each document hold a span at most
\* once, and no two of them hold the same one.
Unshared ==
  /\ IsInjective(spans)
  /\ \A p \in Procs : /\ IsInjective(held[p])
                      /\ Range(held[p]) \cap (Range(spans) \cup Spooled) = {}
                      /\ \A q \in Procs \ {p} : Range(held[p]) \cap Range(held[q]) = {}
  /\ Range(spans) \cap Spooled = {}
  /\ \A i \in 1..Len(written) :
       /\ IsInjective(written[i])
       /\ \A j \in 1..Len(written) : i # j => Range(written[i]) \cap Range(written[j]) = {}

\* However the flushes of several goroutines interleave, fail and retry, no
\* span is recorded twice, none is invented, and DroppedSpans counts exactly
\* the ended spans that are neither in memory nor in the spool
\* (span_buffer.go: add, take, requeue, flushSpanBatch).
Accounted ==
  /\ Unshared
  /\ InMemory \cup Spooled \subseteq ended
  /\ dropped = Cardinality(ended \ (InMemory \cup Spooled))

\* The buffer never exceeds its cap, a flush in flight never carries more than
\* the cap, and one started by a full batch never more than the batch size
\* (span_buffer.go: newSpanBuffer's clamp, add, take, requeue).
Bounded ==
  /\ Len(spans) <= maxBuffered
  /\ \A p \in Procs : Len(held[p]) <= IF all[p] THEN maxBuffered ELSE batchSize

\* Spans are shed only by a step that leaves the buffer full: while it has
\* room, nothing is dropped, whatever is in flight (add, requeue).
ShedsOnlyAtCap == [][dropped' # dropped => Len(spans') = maxBuffered]_vars

\* When Shutdown has waited for spanLoop and its flush reports no error, the
\* only spans left in memory are those application goroutines are themselves
\* adding or writing (client.go: Shutdown).
CleanShutdown ==
  [][ (pc[Main] # "returned" /\ pc'[Main] = "returned" /\ ~expired)
      => InMemory \subseteq UNION {Range(held[p]) : p \in Goroutines} ]_vars

\* Once the spool works for good, a span that has ended leaves memory, written
\* or counted as dropped, unless the client is shut down first (spanLoop).
Settles ==
  <>[]spoolUp => \A s \in Spans : s \in InMemory ~> (s \notin InMemory \/ cancelled)

\* Shutdown returns: it waits for a loop that stops, and its own flush ends,
\* whether the spool accepts writes or not.
ShutdownReturns == pc[Main] = "wait" ~> pc[Main] \in {"returned", "failed"}

-----------------------------------------------------------------------------
(* The buffer implements what batching promises. *)

Delivery == INSTANCE SpanDelivery WITH
  open <- Spans \ ended,
  pending <- InMemory,
  documents <- [i \in 1..Len(written) |-> Range(written[i])],
  dropped <- dropped

\* Every step of the buffer ends one span, turns one batch of pending spans
\* into one document, sheds and counts pending spans, or changes nothing the
\* application could observe.
Implements == Delivery!Spec
=============================================================================
