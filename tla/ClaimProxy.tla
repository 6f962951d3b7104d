----------------------------- MODULE ClaimProxy -----------------------------
(***************************************************************************)
(* The instrumented claim of the sarama wrapper (contrib/sarama/sarama.go, *)
(* instrumentedClaim): a proxy goroutine between the claim's channel and   *)
(* the goroutines of the wrapped handler, which opens a process span as it *)
(* takes a message and ends it when it takes the next one.                 *)
(*                                                                         *)
(* The messages of the claim are 1, 2, 3, ... in partition order, and the  *)
(* span of a message is named by the message.  Proxies is a set of names   *)
(* for the goroutines Messages may start; sync.Once lets it start one.     *)
(***************************************************************************)
EXTENDS Integers, Sequences, FiniteSets

CONSTANTS
  MaxMessages,    \* bound: messages the broker delivers to the claim
  Workers,        \* goroutines of the handler that receive from Messages()
  Proxies,        \* goroutines Messages could start
  NoProxy,        \* Messages has not been called
  Leaving         \* workers that may stop receiving before the channel closes

ASSUME MessagesAssumption == MaxMessages \in Nat

ASSUME ProxiesAssumption == NoProxy \notin Proxies

ASSUME WorkersAssumption == Leaving \subseteq Workers

VARIABLES
  sent,        \* messages the broker has put in the claim's channel
  closed,      \* has the broker closed the claim's channel?
  taken,       \* messages received from the claim's channel
  proxy,       \* where each proxy goroutine is
  open,        \* the span each proxy holds open; 0 for the nil span
  out,         \* the channel Messages returned last, named by its proxy
  worker,      \* where each worker is
  message,     \* the message it received last
  delivered,   \* messages handed to workers, oldest first
  spansEnded   \* spans of messages that have been ended

sourceVars == <<sent, closed, taken>>
proxyVars == <<proxy, open>>
workerVars == <<out, worker, message, delivered>>
vars == <<sourceVars, proxyVars, workerVars, spansEnded>>

Messages == 1..MaxMessages

TypeOK ==
  /\ sent \in 0..MaxMessages
  /\ closed \in BOOLEAN
  /\ taken \in 0..sent
  /\ proxy \in [Proxies -> {"unborn", "receive", "hand", "closed"}]
  /\ open \in [Proxies -> Messages \cup {0}]
  /\ out \in Proxies \cup {NoProxy}
  /\ worker \in [Workers -> {"ready", "waiting", "working", "returned"}]
  /\ message \in [Workers -> Messages \cup {0}]
  /\ delivered \in Seq(Messages)
  /\ spansEnded \subseteq Messages

Init ==
  /\ sent = 0
  /\ closed = FALSE
  /\ taken = 0
  /\ proxy = [p \in Proxies |-> "unborn"]
  /\ open = [p \in Proxies |-> 0]
  /\ out = NoProxy
  /\ worker = [w \in Workers |-> "ready"]
  /\ message = [w \in Workers |-> 0]
  /\ delivered = <<>>
  /\ spansEnded = {}

-----------------------------------------------------------------------------
(* External: sarama fills the claim's channel, and closes it when the       *)
(* partition is taken away or the session ends.                             *)

SourceSends ==
  /\ ~closed
  /\ sent < MaxMessages
  /\ sent' = sent + 1
  /\ UNCHANGED <<closed, taken, proxyVars, workerVars, spansEnded>>

SourceCloses ==
  /\ ~closed
  /\ closed' = TRUE
  /\ UNCHANGED <<sent, taken, proxyVars, workerVars, spansEnded>>

-----------------------------------------------------------------------------
(* The wrapped handler. *)

\* Mutant: every call of Messages starts a proxy of its own.
AskEveryTime(w) ==
  /\ worker[w] = "ready"
  /\ worker' = [worker EXCEPT ![w] = "waiting"]
  /\ \/ /\ \A p \in Proxies : proxy[p] # "unborn"
        /\ UNCHANGED <<out, proxy>>
     \/ \E p \in Proxies :
          /\ proxy[p] = "unborn"
          /\ proxy' = [proxy EXCEPT ![p] = "receive"]
          /\ out' = p
  /\ UNCHANGED <<sourceVars, open, message, delivered, spansEnded>>

\* A worker calls Messages, whose first call starts the proxy, and receives
\* from the channel it returns.
Ask(w) ==
  /\ worker[w] = "ready"
  /\ worker' = [worker EXCEPT ![w] = "waiting"]
  /\ IF out # NoProxy
       THEN UNCHANGED <<out, proxy>>
       ELSE \E p \in Proxies :
              /\ proxy' = [proxy EXCEPT ![p] = "receive"]
              /\ out' = p
  /\ UNCHANGED <<sourceVars, open, message, delivered, spansEnded>>

\* The worker has processed its message.
Processed(w) ==
  /\ worker[w] = "working"
  /\ worker' = [worker EXCEPT ![w] = "ready"]
  /\ UNCHANGED <<sourceVars, proxyVars, out, message, delivered, spansEnded>>

\* The worker finds the channel closed.
Drained(w) ==
  /\ worker[w] = "waiting"
  /\ proxy[out] = "closed"
  /\ worker' = [worker EXCEPT ![w] = "returned"]
  /\ UNCHANGED <<sourceVars, proxyVars, out, message, delivered, spansEnded>>

\* The worker stops receiving for a reason of its own: an error, or the
\* session's context in its select.
Leaves(w) ==
  /\ w \in Leaving
  /\ worker[w] \in {"waiting", "working"}
  /\ worker' = [worker EXCEPT ![w] = "returned"]
  /\ UNCHANGED <<sourceVars, proxyVars, out, message, delivered, spansEnded>>

-----------------------------------------------------------------------------
(* The proxy. *)

\* Mutants: a closed channel's zero value is taken for a message; the previous
\* span is forgotten.
TakeUnchecked(p) ==
  /\ proxy[p] = "receive"
  /\ taken < sent \/ closed
  /\ taken' = taken + 1
  /\ spansEnded' = spansEnded \cup ({open[p]} \ {0})
  /\ open' = [open EXCEPT ![p] = taken + 1]
  /\ proxy' = [proxy EXCEPT ![p] = "hand"]
  /\ UNCHANGED <<sent, closed, workerVars>>

TakeForgets(p) ==
  /\ proxy[p] = "receive"
  /\ taken < sent
  /\ taken' = taken + 1
  /\ open' = [open EXCEPT ![p] = taken + 1]
  /\ proxy' = [proxy EXCEPT ![p] = "hand"]
  /\ UNCHANGED <<sent, closed, workerVars, spansEnded>>

\* A message from the claim: end the previous span, open this message's.
Take(p) ==
  /\ proxy[p] = "receive"
  /\ taken < sent
  /\ taken' = taken + 1
  /\ spansEnded' = spansEnded \cup ({open[p]} \ {0})
  /\ open' = [open EXCEPT ![p] = taken + 1]
  /\ proxy' = [proxy EXCEPT ![p] = "hand"]
  /\ UNCHANGED <<sent, closed, workerVars>>

\* The unbuffered channel: the proxy waits until a worker receives.
Hand(p, w) ==
  /\ proxy[p] = "hand"
  /\ worker[w] = "waiting"
  /\ out = p
  /\ worker' = [worker EXCEPT ![w] = "working"]
  /\ message' = [message EXCEPT ![w] = open[p]]
  /\ delivered' = Append(delivered, open[p])
  /\ proxy' = [proxy EXCEPT ![p] = "receive"]
  /\ UNCHANGED <<sourceVars, open, out, spansEnded>>

\* Mutant: the last span is left open.
CloseForgets(p) ==
  /\ proxy[p] = "receive"
  /\ closed
  /\ taken = sent
  /\ proxy' = [proxy EXCEPT ![p] = "closed"]
  /\ UNCHANGED <<sourceVars, open, workerVars, spansEnded>>

\* The claim's channel is closed and empty: end the last span, close the
\* channel.
Close(p) ==
  /\ proxy[p] = "receive"
  /\ closed
  /\ taken = sent
  /\ spansEnded' = spansEnded \cup ({open[p]} \ {0})
  /\ proxy' = [proxy EXCEPT ![p] = "closed"]
  /\ UNCHANGED <<sourceVars, open, workerVars>>

-----------------------------------------------------------------------------
ProxyRuns(p) ==
  \/ Take(p)
  \/ \E w \in Workers : Hand(p, w)
  \/ Close(p)

WorkerRuns(w) == Ask(w) \/ Processed(w) \/ Drained(w)

Next ==
  \/ SourceSends
  \/ SourceCloses
  \/ \E p \in Proxies : ProxyRuns(p)
  \/ \E w \in Workers : WorkerRuns(w) \/ Leaves(w)

Spec == Init /\ [][Next]_vars

\* Runnable goroutines run, and a worker finishes the message it is processing.
Fairness ==
  /\ \A p \in Proxies : WF_vars(ProxyRuns(p))
  /\ \A w \in Workers : WF_vars(WorkerRuns(w))

FairSpec == Spec /\ Fairness

-----------------------------------------------------------------------------
(* Properties. *)

\* Every message taken from the claim has been handed to a worker or is on
\* offer on the channel the workers hold, however often and from however many
\* goroutines Messages is called, and none is handed over twice or out of
\* partition order (Messages).
NothingSwallowed ==
  /\ delivered = [i \in 1..Len(delivered) |-> i]
  /\ taken # Len(delivered) =>
       /\ taken = Len(delivered) + 1
       /\ proxy[out] = "hand"
       /\ open[out] = taken

\* At most one span is open, the one of the message taken last: every message
\* taken before it has had its span ended.
OneOpenSpan == Cardinality(1..taken \ spansEnded) <= 1

\* When the claim's channel has been closed, every message in it reaches a
\* worker and every span is ended, provided some worker receives until the
\* channel Messages returned is closed (Messages, "or the channel closes").
ClaimSettles ==
  (closed /\ out # NoProxy) ~> (Len(delivered) = sent /\ spansEnded = 1..sent)

\* "each message gets its own span, ended when the handler asks for the next one
\* - which is exactly the handler's own processing time for that message"
\* (sarama.go, ConsumeClaim): while the claim goes on, a message still being
\* processed has an open span.
SpanCoversProcessing ==
  ~closed => \A w \in Workers : worker[w] = "working" => message[w] \notin spansEnded
=============================================================================
