--------------------------- MODULE BatchConsumer ----------------------------
(***************************************************************************)
(* The batch-aware consumer of the sarama wrapper (contrib/sarama/batch.go)*)
(* on one claim: ConsumeClaim accumulates messages and flushes them when   *)
(* the batch is full, when it is old, when the claim's channel closes and  *)
(* when the session ends; Batch keeps the spans of the flush and of its    *)
(* messages while the application's ConsumeBatch runs.                     *)
(*                                                                         *)
(* The messages of the claim are 1, 2, 3, ... in partition order, and the  *)
(* span of a message is named by the message.                              *)
(***************************************************************************)
EXTENDS Integers, Sequences, FiniteSets, SequencesExt

CONSTANTS
  MaxMessages,   \* bound: messages the broker delivers to the claim
  Large,         \* messages of two bytes; the others have one
  MaxRecords,    \* BatchOptions.MaxRecords, 0 for no limit
  MaxBytes       \* BatchOptions.MaxBytes, 0 for no limit

ASSUME LimitsAssumption ==
  /\ MaxMessages \in Nat
  /\ MaxRecords \in Nat
  /\ MaxBytes \in Nat

VARIABLES
  policy,      \* BatchOptions.MessageSpans
  sent,        \* messages the broker has put in the claim's channel
  closed,      \* has the broker closed the claim's channel?
  cancelled,   \* is the session's context done?
  taken,       \* messages received from the claim's channel
  pc,          \* where ConsumeClaim is
  batch,       \* the messages accumulated
  timer,       \* the MaxWait timer: running, with a value in its channel, or stopped
  aged,        \* has MaxWait passed since the timer was last set?
  trigger,     \* why the flush in progress was started
  flushes,     \* the message sequences handed to ConsumeBatch, oldest first
  minted,      \* messages of this flush that have a span
  running,     \* those whose span has not been ended
  openMessage, \* Batch.openMessage, 0 for nil
  visiting     \* index of the message Each is at, 0 outside Each

sourceVars == <<sent, closed, cancelled>>
claimVars == <<taken, batch, timer, aged>>
batchVars == <<minted, running, openMessage, visiting>>
vars == <<policy, sourceVars, pc, claimVars, trigger, flushes, batchVars>>

Messages == 1..MaxMessages
Policies == {"on-demand", "always", "never"}

Init ==
  /\ policy \in Policies
  /\ sent = 0
  /\ closed = FALSE
  /\ cancelled = FALSE
  /\ taken = 0
  /\ pc = "select"
  /\ batch = <<>>
  /\ timer = "running"
  /\ aged = FALSE
  /\ trigger = "none"
  /\ flushes = <<>>
  /\ minted = {}
  /\ running = {}
  /\ openMessage = 0
  /\ visiting = 0

-----------------------------------------------------------------------------
(* External: the broker, the session and the clock. *)

SourceSends ==
  /\ ~closed
  /\ sent < MaxMessages
  /\ sent' = sent + 1
  /\ UNCHANGED <<policy, closed, cancelled, pc, claimVars, trigger, flushes, batchVars>>

SourceCloses ==
  /\ ~closed
  /\ closed' = TRUE
  /\ UNCHANGED <<policy, sent, cancelled, pc, claimVars, trigger, flushes, batchVars>>

SessionEnds ==
  /\ ~cancelled
  /\ cancelled' = TRUE
  /\ UNCHANGED <<policy, sent, closed, pc, claimVars, trigger, flushes, batchVars>>

\* MaxWait passes, wherever ConsumeClaim is.
TimerFires ==
  /\ timer = "running"
  /\ timer' = "fired"
  /\ aged' = TRUE
  /\ UNCHANGED <<policy, sourceVars, pc, taken, batch, trigger, flushes, batchVars>>

-----------------------------------------------------------------------------
(* BatchOptions.full. *)

Size(m) == IF m \in Large THEN 2 ELSE 1

Bytes(messages) == SumFunction([i \in DOMAIN messages |-> Size(messages[i])])

\* Mutant: a batch is full one message after it reached the limit.
FullLate(messages) ==
  \/ MaxRecords > 0 /\ Len(messages) > MaxRecords
  \/ MaxBytes > 0 /\ Bytes(messages) >= MaxBytes

Full(messages) ==
  \/ MaxRecords > 0 /\ Len(messages) >= MaxRecords
  \/ MaxBytes > 0 /\ Bytes(messages) >= MaxBytes

-----------------------------------------------------------------------------
(* ConsumeClaim: one iteration of its select. *)

\* flush of a non-empty batch: newBatch, and run as far as the call of
\* ConsumeBatch.  Under the always policy every message gets its span here.
Flush(messages, why) ==
  /\ pc' = "flush"
  /\ batch' = <<>>
  /\ trigger' = why
  /\ flushes' = Append(flushes, messages)
  /\ minted' = IF policy = "always" THEN ToSet(messages) ELSE {}
  /\ running' = minted'
  /\ UNCHANGED <<openMessage, visiting>>

\* A message: accumulate it, and flush if that filled the batch.
Receive ==
  /\ pc = "select"
  /\ taken < sent
  /\ taken' = taken + 1
  /\ LET grown == Append(batch, taken + 1)
     IN IF Full(grown)
          THEN Flush(grown, "full")
          ELSE batch' = grown /\ UNCHANGED <<pc, trigger, flushes, batchVars>>
  /\ UNCHANGED <<policy, sourceVars, timer, aged>>

\* The channel is closed and empty, or the session is over: flush what there
\* is, and return.
FlushAndReturn(why) ==
  /\ IF batch = <<>>
       THEN pc' = "returned" /\ UNCHANGED <<batch, trigger, flushes, batchVars>>
       ELSE Flush(batch, why)
  /\ UNCHANGED <<policy, sourceVars, taken, timer, aged>>

ChannelClosed ==
  /\ pc = "select"
  /\ closed
  /\ taken = sent
  /\ FlushAndReturn("channel-closed")

\* Mutant: the session's end discards the batch.
ShutdownDiscards ==
  /\ pc = "select"
  /\ cancelled
  /\ pc' = "returned"
  /\ UNCHANGED <<policy, sourceVars, claimVars, trigger, flushes, batchVars>>

Shutdown ==
  /\ pc = "select"
  /\ cancelled
  /\ FlushAndReturn("shutdown")

\* Mutant: the timer is set again only after a flush.
MaxWaitOnce ==
  /\ pc = "select"
  /\ timer = "fired"
  /\ timer' = "stopped"
  /\ IF batch = <<>>
       THEN aged' = FALSE /\ UNCHANGED <<pc, batch, trigger, flushes, batchVars>>
       ELSE Flush(batch, "max-wait") /\ UNCHANGED aged
  /\ UNCHANGED <<policy, sourceVars, taken>>

\* The timer's value: flush if there is anything, and set the timer again when
\* the flush has returned.
MaxWait ==
  /\ pc = "select"
  /\ timer = "fired"
  /\ IF batch = <<>>
       THEN /\ timer' = "running"
            /\ aged' = FALSE
            /\ UNCHANGED <<pc, batch, trigger, flushes, batchVars>>
       ELSE /\ timer' = "stopped"
            /\ Flush(batch, "max-wait")
            /\ UNCHANGED aged
  /\ UNCHANGED <<policy, sourceVars, taken>>

-----------------------------------------------------------------------------
(* The application's ConsumeBatch, and the Batch it uses. *)

Flushing == Last(flushes)

Visited == IF visiting = 0 THEN 0 ELSE Flushing[visiting]

\* Mutant: the previous message's span is not ended.
ContextForKeeps(m) ==
  /\ pc = "flush"
  /\ policy # "never"
  /\ m \in ToSet(Flushing) \ minted
  /\ minted' = minted \cup {m}
  /\ running' = running \cup {m}
  /\ openMessage' = m
  /\ UNCHANGED <<policy, sourceVars, pc, claimVars, trigger, flushes, visiting>>

\* ContextFor of a message that has no span yet ends the span ContextFor opened
\* before.  For one that has a span, and under the never policy, it changes
\* nothing.
ContextFor(m) ==
  /\ pc = "flush"
  /\ policy # "never"
  /\ m \in ToSet(Flushing) \ minted
  /\ minted' = minted \cup {m}
  /\ running' = (running \ {openMessage}) \cup {m}
  /\ openMessage' = m
  /\ UNCHANGED <<policy, sourceVars, pc, claimVars, trigger, flushes, visiting>>

\* Mutant: the span Each mints is not recorded.
VisitUnrecorded(i) ==
  /\ visiting' = i
  /\ openMessage' = IF openMessage = Flushing[i] THEN 0 ELSE openMessage
  /\ UNCHANGED minted

\* Each comes to the i-th message: its span is minted unless it has one, and
\* ContextFor no longer holds it.
Visit(i) ==
  /\ visiting' = i
  /\ IF policy = "never"
       THEN UNCHANGED <<minted, openMessage>>
       ELSE /\ minted' = minted \cup {Flushing[i]}
            /\ openMessage' = IF openMessage = Flushing[i] THEN 0 ELSE openMessage

\* The spans Visit(i) starts.
Started(i) == IF policy = "never" THEN {} ELSE {Flushing[i]} \ minted

EachBegins ==
  /\ pc = "flush"
  /\ visiting = 0
  /\ Visit(1)
  /\ running' = running \cup Started(1)
  /\ UNCHANGED <<policy, sourceVars, pc, claimVars, trigger, flushes>>

\* The function Each was given returns: the message's span ends.  Without an
\* error Each goes on to the next message; with one, or after the last message,
\* it returns.
EachContinues ==
  /\ pc = "flush"
  /\ visiting # 0
  /\ visiting < Len(Flushing)
  /\ Visit(visiting + 1)
  /\ running' = (running \ {Visited}) \cup Started(visiting + 1)
  /\ UNCHANGED <<policy, sourceVars, pc, claimVars, trigger, flushes>>

EachReturns ==
  /\ pc = "flush"
  /\ visiting # 0
  /\ visiting' = 0
  /\ running' = running \ {Visited}
  /\ UNCHANGED <<policy, sourceVars, pc, claimVars, trigger, flushes, minted, openMessage>>

\* Mutant: only the span ContextFor holds is ended with the batch.
EndOpenOnly ==
  /\ running' = running \ {openMessage}
  /\ openMessage' = 0
  /\ visiting' = 0
  /\ UNCHANGED minted

\* Batch.end: every message span minted is ended, and the batch span.
End ==
  /\ running' = {}
  /\ openMessage' = 0
  /\ visiting' = 0
  /\ UNCHANGED minted

\* Mutant: the timer is set again without taking the value it left behind.
ReturnsUndrained ==
  /\ pc = "flush"
  /\ visiting = 0
  /\ End
  /\ IF trigger \in {"full", "max-wait"}
       THEN /\ pc' = "select"
            /\ timer' = IF timer = "fired" THEN "fired" ELSE "running"
            /\ aged' = FALSE
       ELSE pc' = "returned" /\ UNCHANGED <<timer, aged>>
  /\ UNCHANGED <<policy, sourceVars, taken, batch, trigger, flushes>>

\* ConsumeBatch returns nil: after a full or an aged batch the timer is set
\* again, drained first; after the other two ConsumeClaim returns.
HandlerReturns ==
  /\ pc = "flush"
  /\ visiting = 0
  /\ End
  /\ IF trigger \in {"full", "max-wait"}
       THEN pc' = "select" /\ timer' = "running" /\ aged' = FALSE
       ELSE pc' = "returned" /\ UNCHANGED <<timer, aged>>
  /\ UNCHANGED <<policy, sourceVars, taken, batch, trigger, flushes>>

\* It returns an error, which ConsumeClaim returns ...
HandlerFails ==
  /\ pc = "flush"
  /\ visiting = 0
  /\ End
  /\ pc' = "returned"
  /\ UNCHANGED <<policy, sourceVars, claimVars, trigger, flushes>>

\* ... or panics, inside Each or outside, and the panic is raised again.
HandlerPanics ==
  /\ pc = "flush"
  /\ End
  /\ pc' = "panicked"
  /\ UNCHANGED <<policy, sourceVars, claimVars, trigger, flushes>>

-----------------------------------------------------------------------------
Select == Receive \/ ChannelClosed \/ Shutdown \/ MaxWait

Handler ==
  \/ \E m \in Messages : ContextFor(m)
  \/ EachBegins
  \/ EachContinues
  \/ EachReturns
  \/ HandlerReturns
  \/ HandlerFails
  \/ HandlerPanics

Next ==
  \/ SourceSends
  \/ SourceCloses
  \/ SessionEnds
  \/ TimerFires
  \/ Select
  \/ Handler

Spec == Init /\ [][Next]_vars

\* Time passes, and a select with the timer's value ready takes it eventually.
\* Nothing is assumed of the broker or of ConsumeBatch.
Fairness == WF_vars(TimerFires) /\ WF_vars(MaxWait)

FairSpec == Spec /\ Fairness

-----------------------------------------------------------------------------
(* Properties. *)

\* Every message taken from the claim is handed to ConsumeBatch once, in
\* partition order, or is still accumulated; no batch is empty, longer than
\* MaxRecords, or over MaxBytes before its last message (ConsumeClaim).
FlushedOnceInOrder ==
  /\ FlattenSeq(flushes) \o batch = [i \in 1..taken |-> i]
  /\ \A i \in 1..Len(flushes) :
       /\ flushes[i] # <<>>
       /\ MaxRecords > 0 => Len(flushes[i]) <= MaxRecords
       /\ MaxBytes > 0 => Bytes(Front(flushes[i])) < MaxBytes

\* A ConsumeClaim that has returned, whatever its reason, holds no message back.
NothingHeldBack == pc \in {"returned", "panicked"} => batch = <<>>

\* No message span outlives its flush, whether ConsumeBatch returns, fails or
\* panics (Batch.run, Batch.end).
SpansEndWithFlush == pc # "flush" => running = {}

\* On demand, the spans running are at most the one ContextFor opened last and
\* the one of the message Each is at: the handler "is finished with one message
\* by asking for the next" (ContextFor, each).
OneRunningPerAsker == policy = "on-demand" => running \subseteq {openMessage, Visited}

\* A batch is flushed as old only when MaxWait has passed since the last flush
\* or the last setting of the timer, although the timer may fire while a flush
\* for another reason is running (reset).
AgedFlushesAreOld ==
  [][pc = "select" /\ pc' = "flush" /\ trigger' = "max-wait" => aged]_vars

\* A message taken from the claim is handed to ConsumeBatch even if no other
\* message ever comes.
EventuallyFlushed ==
  \A m \in Messages : m <= taken ~> m <= Len(FlattenSeq(flushes))
=============================================================================
