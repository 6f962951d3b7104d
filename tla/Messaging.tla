----------------------------- MODULE Messaging -----------------------------
(***************************************************************************)
(* The sarama wrappers (contrib/sarama/sarama.go) and the messaging spans  *)
(* they start (messaging.go): publishing writes the trace context onto the *)
(* headers of a message, which the broker stores and hands out any number  *)
(* of times.  A publish that failed may have reached the broker all the    *)
(* same, and the application may send the same message again.              *)
(***************************************************************************)
EXTENDS Tracing

CONSTANTS
  Messages,    \* the message values of the application
  MaxDelivered \* bound: records on the topic

ASSUME MessagesAssumption == IsFiniteSet(Messages)

VARIABLES
  headers,  \* the trace context on each of them
  origin,   \* the span of the first publish of each of them, 0 before it
  topic     \* the records of the broker, in order

messagingVars == <<headers, origin, topic>>

(* inject: a header the message already has is left alone, each on its own;   *)
(* an empty one is not written.                                               *)
Inject(header, ctx) ==
  LET parent == IF Valid(header) THEN header ELSE ctx IN
  [parent EXCEPT !.companions =
     IF header.companions # "none" THEN header.companions ELSE ctx.companions]

\* SendMessage is SendMessageContext with the background context, and
\* SendMessages, of several messages, ends its spans without a defer.
Publish(op, g, ctx, order) ==
  LET ms == ToSet(order)
      id(i) == Len(spans) + i
      span == [i \in DOMAIN order |-> [StartSpan(op, ctx, Enclosing(g)) EXCEPT
                 !.trace = IF Valid(ctx) THEN ctx.trace ELSE id(i)]]
      place(m) == CHOOSE i \in DOMAIN order : order[i] = m IN
  /\ Len(spans) + Len(order) <= MaxSpans
  /\ spans' = spans \o span
  /\ Push(g, Frame(op, {id(i) : i \in DOMAIN order}, ctx, "library", ms))
  /\ ended' = {}
  /\ headers' = [m \in Messages |->
       IF m \in ms THEN Inject(headers[m], RemoteContext(id(place(m)), span[place(m)])) ELSE headers[m]]
  /\ origin' = [m \in Messages |-> IF m \in ms /\ origin[m] = 0 THEN id(place(m)) ELSE origin[m]]
  /\ UNCHANGED <<bound, topic>>

SendMessage(g) ==
  /\ CanCall(g, "messages")
  /\ \E m \in Messages, ctx \in {Ambient(g), NoContext} : Publish("publish", g, ctx, <<m>>)

SendMessages(g) ==
  /\ CanCall(g, "messages")
  /\ \E order \in SetToSeqs(Messages) : Publish("publishes", g, Ambient(g), order)

\* External: the broker stores a record; nobody knows yet.
BrokerStores(g) ==
  /\ InLibrary(g, {"publish", "publishes"})
  /\ Len(topic) < MaxDelivered
  /\ \E m \in Top(g).ref :
       /\ topic' = Append(topic, [header |-> headers[m], origin |-> origin[m]])
       /\ Replace(g, [Top(g) EXCEPT !.ref = @ \ {m}])
  /\ ended' = {}
  /\ UNCHANGED <<spans, bound, headers, origin>>

\* The producer reports success once everything is stored, or an error.
SendReturns(g) ==
  /\ InLibrary(g, {"publish", "publishes"})
  /\ \/ Top(g).ref = {} /\ End(g, "ok", "none", "ok")
     \/ End(g, "error", "none", "error")
  /\ UNCHANGED <<bound, messagingVars>>

(* startProcessSpan: extract makes the publish the parent.  The consumer runs *)
(* in a goroutine of its own, and may be handed a record more than once.      *)
Process(g) ==
  /\ Idle(g)
  /\ \E i \in DOMAIN topic :
       Begin(g, StartSpan("process", topic[i].header, topic[i].origin), "function", {i})
  /\ UNCHANGED <<bound, messagingVars>>

MessagingInit ==
  /\ headers = [m \in Messages |-> NoContext]
  /\ origin = [m \in Messages |-> 0]
  /\ topic = <<>>
=============================================================================
