------------------------------ MODULE Services ------------------------------
(***************************************************************************)
(* Every instrumented operation together: goroutines of one program, or of *)
(* several, that serve and send HTTP requests, publish and process         *)
(* messages, run statements, call AWS, open files and pass functions to    *)
(* each other.  What is checked is what a reader of the recorded traces    *)
(* relies on.                                                              *)
(***************************************************************************)
EXTENDS Http, Messaging, Clients, FiniteSets

vars == <<tracingVars, wire, messagingVars>>

Init == TracingInit /\ HttpInit /\ MessagingInit

InProcess(g) ==
  \/ Run(g) \/ Bind(g) \/ RunBound(g) \/ File(g) \/ Return(g)
  \/ Open(g) \/ OpenReturns(g)
  \/ Statement(g) \/ StatementReturns(g) \/ StatementSkips(g)
  \/ CallAws(g) \/ AwsAttempt(g)

OverHttp(g) ==
  \/ RoundTrip(g) \/ Answered(g) \/ GivesUp(g)
  \/ Handle(g) \/ WriteHeader(g) \/ Flush(g) \/ HandlerReturns(g)

OverBroker(g) ==
  \/ SendMessage(g) \/ SendMessages(g) \/ BrokerStores(g) \/ SendReturns(g)
  \/ Process(g)

PanicAnywhere(g) ==
  /\ Panic(g)
  /\ AfterPanic(ToSet(SubSeq(calls[g], Len(calls'[g]) + 1, Len(calls[g]))))

Next ==
  /\ \/ (Arrive \/ Lost) /\ UNCHANGED messagingVars
     \/ \E g \in Goroutines :
          \/ InProcess(g) /\ UNCHANGED <<wire, messagingVars>>
          \/ (OverHttp(g) \/ PanicAnywhere(g)) /\ UNCHANGED messagingVars
          \/ OverBroker(g) /\ UNCHANGED wire
  /\ UNCHANGED uses

Spec == Init /\ [][Next]_vars

-----------------------------------------------------------------------------

\* A span is in the trace of its parent and keeps the sampling decision of
\* whoever started that trace, and tracestate and baggage, over any number of
\* functions, goroutines, requests and messages (StartSpan, Adopt, inject and
\* extract).  Only the process span of a message to which a second publish has
\* added tracestate and baggage has more than its parent, the first one.
OneTrace ==
  \A s \in DOMAIN spans :
    IF spans[s].parent = 0
      THEN spans[s].trace = s /\ spans[s].sampled /\ spans[s].companions = "none"
      ELSE LET parent == IF spans[s].parent = Foreign THEN ForeignContext
                         ELSE RemoteContext(spans[s].parent, spans[spans[s].parent]) IN
           /\ spans[s].trace = parent.trace
           /\ spans[s].sampled = parent.sampled
           /\ \/ spans[s].companions = parent.companions
              \/ spans[s].op = "process" /\ parent.companions = "none"

\* The parent of a span is the span whose work it is, wherever that ran: the
\* enclosing call, the call that passed the function on, the client of the
\* request, the first publish of the message.  Transport and statement spans
\* are never roots; an open through fs.FS always is, a publish without a context
\* may be.
ParentIsCause ==
  \A s \in DOMAIN spans :
    /\ spans[s].parent \in {spans[s].cause, 0}
    /\ spans[s].parent = 0 => spans[s].cause = 0 \/ spans[s].op \in {"open", "publish"}
    /\ spans[s].op \in {"client", "exec", "stmt"} => spans[s].parent # 0

\* A record says "error" just when the caller of the operation was told so,
\* whatever was retried on the way, and a call that succeeded at last shows the
\* code it succeeded with.  The exceptions are a panic, an open repeated for its
\* error, and a handler that fails after it has flushed: its caller got 200.
OutcomeTold ==
  \A record \in ended :
    /\ record.result \in {"error", "failed"} => record.status = "error" \/ record.op = "open"
    /\ record.status = "error" /\ record.result # "panic"
         => record.result \in {"error", "failed"} \/ record.op \in {"open", "handler"}
    /\ record.op \in {"aws", "client"} /\ record.result = "ok" => record.code = "ok"

\* A span is open as long as its call is on a stack; only a panic leaves one
\* that is never ended, in the calls that do not defer End.
OpenOnStack ==
  \A s \in DOMAIN spans :
    /\ spans[s].state = "open" =>
         \E g \in Goroutines : \E i \in DOMAIN calls[g] : s \in calls[g][i].own
    /\ spans[s].state = "leaked" =>
         spans[s].op \in {"client", "file", "open", "publishes", "exec", "aws"}
=============================================================================
