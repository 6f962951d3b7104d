--------------------------- MODULE ServicesProofs ---------------------------
(***************************************************************************)
(* Theorems about Services for every number of goroutines, requests,       *)
(* messages, spans and nested calls, and every set of operations.          *)
(***************************************************************************)
EXTENDS Services, SequenceTheorems, FiniteSetTheorems, TLAPS

-----------------------------------------------------------------------------
(* The invariant. *)

Ids == 1..Foreign
SpanOps == {"run", "file", "open", "client", "handler", "publish", "publishes",
            "process", "exec", "stmt", "aws"}
FrameOps == SpanOps \cup {"skipped"}
Places == {"function", "library", "context", "legacy", "prepared"}
Attempts == {"context", "legacy", "prepared"}
Companions == {"none", "theirs"}
Codes == {"none", "interim", "ok", "failed"}
States == {"open", "recorded", "abandoned", "leaked"}

SpanRecords ==
  [op : SpanOps, trace : Ids, parent : Ids \cup {0}, sampled : BOOLEAN,
   companions : Companions, cause : Ids \cup {0}, state : States]

Contexts ==
  [trace : Ids \cup {0}, id : Ids \cup {0}, sampled : BOOLEAN, companions : Companions]

Refs == SUBSET (Requests \cup Messages \cup Nat \cup {"context", "legacy"})

FrameRecords ==
  [op : FrameOps, own : SUBSET (1..MaxSpans), ctx : Contexts, at : Places, ref : Refs,
   code : Codes, tries : Nat]

\* What a call works on, where it matters.
Works(op, ref) ==
  /\ op = "client" => ref \subseteq Requests
  /\ op \in {"publish", "publishes"} => ref \subseteq Messages

Frames == {f \in FrameRecords : Works(f.op, f.ref)}

Exchanges ==
  [state : {"unused", "sent", "serving", "answered", "aborted"}, header : Contexts,
   cause : Ids \cup {0}, awaited : BOOLEAN, code : Codes]

\* A context is nobody's, another program's, or names a span and agrees with it.
Carries(ctx, store) ==
  \/ ctx = NoContext
  \/ ctx = ForeignContext
  \/ ctx.id \in DOMAIN store /\ ctx = RemoteContext(ctx.id, store[ctx.id])

\* So do the headers of a message, which may have been given companions since.
Stamped(ctx, store) ==
  \/ ctx = NoContext
  \/ /\ ctx.id \in DOMAIN store
     /\ ctx.trace = store[ctx.id].trace
     /\ ctx.sampled = store[ctx.id].sampled
     /\ store[ctx.id].companions \in {"none", ctx.companions}

\* Span s is in its parent's trace, and its parent is its cause.
Joined(span, s, store) ==
  /\ IF span.parent = 0
       THEN span.trace = s /\ span.sampled /\ span.companions = "none"
       ELSE /\ span.parent \in DOMAIN store \cup {Foreign}
            /\ LET parent == IF span.parent = Foreign THEN ForeignContext
                             ELSE RemoteContext(span.parent, store[span.parent]) IN
                 /\ span.trace = parent.trace
                 /\ span.sampled = parent.sampled
                 /\ \/ span.companions = parent.companions
                    \/ span.op = "process" /\ parent.companions = "none"
  /\ span.parent \in {span.cause, 0}
  /\ span.parent = 0 => span.cause = 0 \/ span.op \in {"open", "publish"}
  /\ span.op \in {"client", "exec", "stmt"} => span.parent # 0

StoreOK(store) ==
  /\ store \in Seq(SpanRecords)
  /\ Len(store) <= MaxSpans
  /\ \A s \in DOMAIN store : Joined(store[s], s, store)

\* A function runs in the context of the one span of its call; only a path that
\* is skipped is served without one, at the bottom of a stack.
InOwnContext(stack, i, store) ==
  \/ \E s \in DOMAIN store : stack[i].own = {s} /\ stack[i].ctx = RemoteContext(s, store[s])
  \/ i = 1 /\ stack[i].own = {} /\ stack[i].ctx = NoContext

\* The frames of a stack: libraries call nothing instrumented, a call owns spans
\* of its own operation, and an attempt at a statement runs in the context of the
\* function below it.
StackOK(stack, store) ==
  /\ stack \in Seq(Frames)
  /\ \A i \in DOMAIN stack :
       /\ \A s \in stack[i].own : s \in DOMAIN store /\ store[s].op = stack[i].op
       /\ i < Len(stack) => stack[i].at = "function"
       /\ stack[i].at = "function" => InOwnContext(stack, i, store)
       /\ stack[i].at \in Attempts =>
            i > 1 /\ stack[i].ctx = stack[i - 1].ctx /\ stack[i].op \in {"exec", "stmt"}
       /\ stack[i].op \in {"handler", "skipped"} => i = 1

StacksOK ==
  /\ calls \in [Goroutines -> Seq(Frames)]
  /\ \A g \in Goroutines : StackOK(calls[g], spans)

\* What travels between goroutines names the span that sent it.
BoundOK ==
  \A b \in bound : b.ctx \in Contexts /\ Carries(b.ctx, spans) /\ b.cause = b.ctx.id

WireOK ==
  /\ wire \in [Requests -> Exchanges]
  /\ \A r \in Requests :
       /\ Carries(wire[r].header, spans)
       /\ wire[r].cause = wire[r].header.id
       /\ wire[r].state = "sent" => wire[r].code = "none"

MessagesOK ==
  /\ headers \in [Messages -> Contexts]
  /\ \A m \in Messages : Stamped(headers[m], spans) /\ origin[m] = headers[m].id
  /\ topic \in Seq([header : Contexts, origin : Ids \cup {0}])
  /\ \A i \in DOMAIN topic : Stamped(topic[i].header, spans) /\ topic[i].origin = topic[i].header.id

\* A handler has its request to itself, and net/http has not sent a failure that
\* the recorder does not know of.
Serves(frame, r, request) ==
  /\ frame.ref = {r}
  /\ request.state = "serving"
  /\ frame.op = "handler" /\ request.code = "failed" => frame.code = "failed"

ServingOK ==
  \A g \in Goroutines : \A i \in DOMAIN calls[g] :
    calls[g][i].op \in {"handler", "skipped"} =>
      /\ \E r \in Requests : Serves(calls[g][i], r, wire[r])
      /\ \A h \in Goroutines \ {g} : \A j \in DOMAIN calls[h] :
           calls[h][j].op \in {"handler", "skipped"} => calls[h][j].ref # calls[g][i].ref

TraceInv ==
  StoreOK(spans) /\ StacksOK /\ BoundOK /\ WireOK /\ MessagesOK /\ ServingOK /\ OpenOnStack

-----------------------------------------------------------------------------
(* Stores of spans.  A span changes its state only, and keeps its place. *)

Grows(store, new) ==
  /\ DOMAIN store \subseteq DOMAIN new
  /\ \A s \in DOMAIN store :
       /\ new[s].op = store[s].op
       /\ new[s].trace = store[s].trace
       /\ new[s].sampled = store[s].sampled
       /\ new[s].companions = store[s].companions

\* A context stays true while the store grows.
LEMMA CarriesGrows ==
  ASSUME NEW store, NEW new, Grows(store, new), NEW ctx, Carries(ctx, store)
  PROVE  Carries(ctx, new)
BY DEF Grows, Carries, RemoteContext

\* So does the header of a message.
LEMMA StampedGrows ==
  ASSUME NEW store, NEW new, Grows(store, new), NEW ctx, Stamped(ctx, store)
  PROVE  Stamped(ctx, new)
BY DEF Grows, Stamped

\* And a span's place in its trace.
LEMMA JoinedGrows ==
  ASSUME NEW store, NEW new, Grows(store, new), NEW span, NEW s, Joined(span, s, store)
  PROVE  Joined(span, s, new)
BY DEF Grows, Joined, RemoteContext

\* A store of which only states change.
LEMMA Restated ==
  ASSUME NEW store, StoreOK(store), NEW new,
         new = [s \in DOMAIN store |-> new[s]],
         \A s \in DOMAIN store : \E state \in States : new[s] = [store[s] EXCEPT !.state = state]
  PROVE  StoreOK(new) /\ Grows(store, new) /\ Len(new) = Len(store) /\ DOMAIN new = DOMAIN store
<1>1. Len(store) \in Nat /\ DOMAIN store = 1..Len(store)
  BY LenProperties DEF StoreOK
<1>2. \A s \in DOMAIN store : store[s] \in SpanRecords
  BY <1>1, ElementOfSeq DEF StoreOK
<1>3. ASSUME NEW s \in DOMAIN store
      PROVE  /\ new[s] \in SpanRecords
             /\ new[s].op = store[s].op
             /\ new[s].trace = store[s].trace
             /\ new[s].parent = store[s].parent
             /\ new[s].sampled = store[s].sampled
             /\ new[s].companions = store[s].companions
             /\ new[s].cause = store[s].cause
  <2>1. PICK state \in States : new[s] = [store[s] EXCEPT !.state = state]
    OBVIOUS
  <2>2. store[s] \in SpanRecords
    BY <1>2
  <2>3. QED BY <2>1, <2>2 DEF SpanRecords
<1>4. new \in [1..Len(store) -> SpanRecords]
  BY <1>1, <1>3
<1>5. new \in Seq(SpanRecords) /\ DOMAIN new = 1..Len(store) /\ Len(new) = Len(store)
  BY <1>1, <1>4
<1>6. Grows(store, new)
  BY <1>1, <1>3, <1>5 DEF Grows
<1>7. \A s \in DOMAIN new : Joined(new[s], s, new)
  <2>1. SUFFICES ASSUME NEW s \in DOMAIN store PROVE Joined(new[s], s, store)
    BY <1>1, <1>5, <1>6, JoinedGrows
  <2>2. Joined(store[s], s, store)
    BY DEF StoreOK
  <2>3. QED BY <1>3, <2>2 DEF Joined
<1>8. QED BY <1>1, <1>5, <1>6, <1>7 DEF StoreOK

\* Marked is one of them.
LEMMA MarkedOK ==
  ASSUME StoreOK(spans), NEW own, NEW state \in States
  PROVE  /\ StoreOK(Marked(own, state))
         /\ Grows(spans, Marked(own, state))
         /\ Len(Marked(own, state)) = Len(spans)
         /\ DOMAIN Marked(own, state) = DOMAIN spans
         /\ \A s \in DOMAIN spans :
              Marked(own, state)[s].state = IF s \in own THEN state ELSE spans[s].state
<1> DEFINE new == Marked(own, state)
<1>1. \A s \in DOMAIN spans : spans[s] \in SpanRecords
  BY ElementOfSeq, LenProperties DEF StoreOK
<1>2. \A s \in DOMAIN spans : spans[s] = [spans[s] EXCEPT !.state = spans[s].state]
  BY <1>1 DEF SpanRecords
<1>3. new = [s \in DOMAIN spans |-> new[s]]
  BY DEF Marked
<1>4. \A s \in DOMAIN spans : new[s] = IF s \in own THEN [spans[s] EXCEPT !.state = state] ELSE spans[s]
  BY DEF Marked
<1>5. \A s \in DOMAIN spans : \E st \in States : new[s] = [spans[s] EXCEPT !.state = st]
  BY <1>1, <1>2, <1>4 DEF SpanRecords
<1>6. \A s \in DOMAIN spans : new[s].state = IF s \in own THEN state ELSE spans[s].state
  BY <1>1, <1>4 DEF SpanRecords
<1> HIDE DEF new
<1>7. StoreOK(new) /\ Grows(spans, new) /\ Len(new) = Len(spans) /\ DOMAIN new = DOMAIN spans
  BY <1>3, <1>5, Restated
<1>8. QED BY <1>6, <1>7 DEF new

\* Spans that join a store.
LEMMA ConcatOK ==
  ASSUME NEW store, StoreOK(store), NEW new \in Seq(SpanRecords),
         Len(store) + Len(new) <= MaxSpans,
         \A i \in DOMAIN new : Joined(new[i], Len(store) + i, store)
  PROVE  /\ StoreOK(store \o new)
         /\ Grows(store, store \o new)
         /\ DOMAIN (store \o new) = 1..(Len(store) + Len(new))
         /\ \A s \in DOMAIN store : (store \o new)[s] = store[s]
         /\ \A i \in DOMAIN new : (store \o new)[Len(store) + i] = new[i]
<1> DEFINE both == store \o new
<1>1. /\ Len(store) \in Nat /\ DOMAIN store = 1..Len(store)
      /\ Len(new) \in Nat /\ DOMAIN new = 1..Len(new)
  BY LenProperties DEF StoreOK
<1>2. /\ both \in Seq(SpanRecords)
      /\ Len(both) = Len(store) + Len(new)
      /\ \A i \in 1..(Len(store) + Len(new)) :
           both[i] = IF i <= Len(store) THEN store[i] ELSE new[i - Len(store)]
  BY ConcatProperties DEF StoreOK
<1> HIDE DEF both
<1>3. DOMAIN both = 1..(Len(store) + Len(new))
  BY <1>2, LenProperties
<1>4. \A s \in DOMAIN store : both[s] = store[s] /\ s \in DOMAIN both
  BY <1>1, <1>2, <1>3
<1>5. \A i \in DOMAIN new : both[Len(store) + i] = new[i]
  BY <1>1, <1>2
<1>6. Grows(store, both)
  BY <1>4 DEF Grows
<1>7. \A s \in DOMAIN both : Joined(both[s], s, both)
  <2>1. SUFFICES ASSUME NEW s \in DOMAIN both PROVE Joined(both[s], s, store)
    BY <1>6, JoinedGrows
  <2>2. CASE s \in DOMAIN store
    BY <1>4, <2>2 DEF StoreOK
  <2>3. CASE s \notin DOMAIN store
    <3>1. s - Len(store) \in DOMAIN new /\ s = Len(store) + (s - Len(store))
      BY <1>1, <1>3, <2>3
    <3>2. Joined(new[s - Len(store)], s, store)
      BY <3>1
    <3>3. both[s] = new[s - Len(store)]
      BY <1>5, <3>1
    <3>4. QED BY <3>2, <3>3
  <2>4. QED BY <2>2, <2>3
<1>8. StoreOK(both)
  BY <1>2, <1>7 DEF StoreOK
<1>9. QED BY <1>3, <1>4, <1>5, <1>6, <1>8 DEF both

\* A span that joins one.
LEMMA AppendOK ==
  ASSUME NEW store, StoreOK(store), NEW span \in SpanRecords, Len(store) < MaxSpans,
         Joined(span, Len(store) + 1, store)
  PROVE  /\ StoreOK(Append(store, span))
         /\ Grows(store, Append(store, span))
         /\ DOMAIN Append(store, span) = 1..(Len(store) + 1)
         /\ \A s \in DOMAIN store : Append(store, span)[s] = store[s]
         /\ Append(store, span)[Len(store) + 1] = span
<1>1. Append(store, span) = store \o <<span>>
  BY AppendIsConcat DEF StoreOK
<1>2. Len(store) \in Nat /\ MaxSpans \in Nat
  BY LenProperties, TracingAssumption DEF StoreOK
<1> DEFINE new == <<span>>
<1>3. new \in Seq(SpanRecords) /\ Len(new) = 1 /\ DOMAIN new = {1} /\ new[1] = span
  OBVIOUS
<1> HIDE DEF new
<1>4. Len(store) + Len(new) <= MaxSpans
  BY <1>2, <1>3
<1>5. \A i \in DOMAIN new : Joined(new[i], Len(store) + i, store)
  BY <1>3
<1>6. /\ StoreOK(store \o new)
      /\ Grows(store, store \o new)
      /\ DOMAIN (store \o new) = 1..(Len(store) + Len(new))
      /\ \A s \in DOMAIN store : (store \o new)[s] = store[s]
      /\ \A i \in DOMAIN new : (store \o new)[Len(store) + i] = new[i]
  BY <1>3, <1>4, <1>5, ConcatOK
<1>7. Append(store, span) = store \o new
  BY <1>1 DEF new
<1>8. (store \o new)[Len(store) + 1] = span
  BY <1>3, <1>6
<1>9. QED BY <1>3, <1>6, <1>7, <1>8

\* The span StartSpan makes in a context is in that context's trace.
LEMMA StartOK ==
  ASSUME StoreOK(spans), NEW op \in SpanOps, NEW ctx \in Contexts, NEW cause \in Ids \cup {0},
         Carries(ctx, spans) \/ (op = "process" /\ Stamped(ctx, spans)),
         Len(spans) < MaxSpans,
         \/ ctx.id = cause
         \/ ctx = NoContext /\ op \in {"open", "publish"},
         op \in {"client", "exec", "stmt"} => ctx.id # 0
  PROVE  /\ StartSpan(op, ctx, cause) \in SpanRecords
         /\ Joined(StartSpan(op, ctx, cause), Len(spans) + 1, spans)
         /\ StartSpan(op, ctx, cause).op = op
         /\ StartSpan(op, ctx, cause).state = "open"
<1> DEFINE span == StartSpan(op, ctx, cause)
<1>1. Len(spans) \in Nat /\ MaxSpans \in Nat /\ DOMAIN spans = 1..Len(spans)
  BY LenProperties, TracingAssumption DEF StoreOK
<1>2. \A s \in DOMAIN spans : spans[s] \in SpanRecords /\ s # 0 /\ s # Foreign /\ s \in Ids
  BY <1>1, ElementOfSeq DEF StoreOK, Foreign, Ids
<1>3. Len(spans) + 1 \in Ids
  BY <1>1 DEF Ids, Foreign
<1>4. span.op = op /\ span.state = "open" /\ span.cause = cause
  BY DEF StartSpan
<1>5. span \in SpanRecords
  <2>1. CASE ctx.trace = 0
    BY <1>3, <2>1 DEF StartSpan, SpanRecords, Contexts, States, Companions
  <2>2. CASE ctx.trace # 0
    BY <2>2 DEF StartSpan, SpanRecords, Contexts, States
  <2>3. QED BY <2>1, <2>2
<1>6. CASE ctx = NoContext
  <2>1. ctx.id = 0 /\ ctx.trace = 0
    BY <1>6 DEF NoContext
  <2>2. /\ span.trace = Len(spans) + 1 /\ span.parent = 0
        /\ span.sampled /\ span.companions = "none"
    BY <2>1 DEF StartSpan
  <2> HIDE DEF span
  <2>3. Joined(span, Len(spans) + 1, spans)
    BY <1>4, <2>1, <2>2 DEF Joined
  <2>4. QED BY <1>4, <1>5, <2>3 DEF span
<1>7. CASE ctx = ForeignContext
  <2>1. ctx.id = Foreign /\ ctx.trace = Foreign /\ Foreign # 0
    BY <1>1, <1>7 DEF ForeignContext, Foreign
  <2>2. ctx # NoContext
    BY <2>1 DEF NoContext
  <2>3. QED BY <1>4, <1>5, <1>7, <2>1, <2>2 DEF Joined, StartSpan
<1>8. CASE ctx.id \in DOMAIN spans
  <2>1. /\ ctx.trace = spans[ctx.id].trace
        /\ ctx.sampled = spans[ctx.id].sampled
        /\ \/ ctx.companions = spans[ctx.id].companions
           \/ op = "process" /\ spans[ctx.id].companions = "none"
    BY <1>2, <1>8 DEF Carries, Stamped, RemoteContext, NoContext, ForeignContext
  <2>2. ctx.id # 0 /\ ctx.id # Foreign /\ ctx.trace # 0
    BY <1>1, <1>2, <1>8, <2>1 DEF SpanRecords, Ids
  <2>3. ctx # NoContext
    BY <2>2 DEF NoContext
  <2>4. /\ span.trace = ctx.trace /\ span.parent = ctx.id
        /\ span.sampled = ctx.sampled /\ span.companions = ctx.companions
    BY <2>2 DEF StartSpan
  <2> HIDE DEF span
  <2>5. ctx.id = cause
    BY <2>3
  <2>6. Joined(span, Len(spans) + 1, spans)
    BY <1>4, <1>8, <2>1, <2>2, <2>4, <2>5 DEF Joined, RemoteContext
  <2>7. QED BY <1>4, <1>5, <2>6 DEF span
<1>9. QED BY <1>4, <1>5, <1>6, <1>7, <1>8 DEF Carries, Stamped

-----------------------------------------------------------------------------
(* Stacks of calls. *)

\* A stack stays in order while the store grows.
LEMMA StackGrows ==
  ASSUME NEW store, NEW new, Grows(store, new), NEW stack, StackOK(stack, store)
  PROVE  StackOK(stack, new)
<1>1. \A s \in DOMAIN store : s \in DOMAIN new /\ RemoteContext(s, store[s]) = RemoteContext(s, new[s])
  BY DEF Grows, RemoteContext
<1>2. \A i \in DOMAIN stack : InOwnContext(stack, i, store) => InOwnContext(stack, i, new)
  BY <1>1 DEF InOwnContext
<1>3. QED BY <1>2 DEF StackOK, Grows

\* A call that a function, or nobody, makes.
LEMMA PushOK ==
  ASSUME NEW store, NEW stack, StackOK(stack, store),
         stack = <<>> \/ stack[Len(stack)].at = "function",
         NEW frame \in Frames,
         \A s \in frame.own : s \in DOMAIN store /\ store[s].op = frame.op,
         frame.at = "function" =>
           \/ \E s \in DOMAIN store : frame.own = {s} /\ frame.ctx = RemoteContext(s, store[s])
           \/ stack = <<>> /\ frame.own = {} /\ frame.ctx = NoContext,
         frame.at \in Attempts =>
           stack # <<>> /\ frame.ctx = stack[Len(stack)].ctx /\ frame.op \in {"exec", "stmt"},
         frame.op \in {"handler", "skipped"} => stack = <<>>
  PROVE  StackOK(Append(stack, frame), store)
<1> DEFINE new == Append(stack, frame)
           n == Len(stack)
<1>1. n \in Nat /\ DOMAIN stack = 1..n /\ (stack = <<>> <=> n = 0)
  BY LenProperties, EmptySeq DEF StackOK
<1>2. /\ new \in Seq(Frames) /\ Len(new) = n + 1 /\ DOMAIN new = 1..(n + 1)
      /\ \A i \in 1..n : new[i] = stack[i]
      /\ new[n + 1] = frame
  BY AppendProperties, LenProperties DEF StackOK
<1> HIDE DEF new, n
<1>3. ASSUME NEW i \in 1..n
      PROVE  /\ \A s \in new[i].own : s \in DOMAIN store /\ store[s].op = new[i].op
             /\ new[i].at = "function"
             /\ InOwnContext(new, i, store)
             /\ new[i].op \in {"handler", "skipped"} => i = 1
  <2>1. stack[i].at = "function"
    BY <1>1 DEF StackOK, n
  <2>2. InOwnContext(stack, i, store)
    BY <1>1, <2>1 DEF StackOK
  <2>3. QED BY <1>1, <1>2, <2>1, <2>2 DEF StackOK, InOwnContext
<1>4. /\ frame.at = "function" => InOwnContext(new, n + 1, store)
      /\ frame.at \in Attempts => n + 1 > 1 /\ frame.ctx = new[n].ctx
  BY <1>1, <1>2 DEF InOwnContext, n
<1>5. ASSUME NEW i \in DOMAIN new
      PROVE  /\ \A s \in new[i].own : s \in DOMAIN store /\ store[s].op = new[i].op
             /\ i < Len(new) => new[i].at = "function"
             /\ new[i].at = "function" => InOwnContext(new, i, store)
             /\ new[i].at \in Attempts =>
                  i > 1 /\ new[i].ctx = new[i - 1].ctx /\ new[i].op \in {"exec", "stmt"}
             /\ new[i].op \in {"handler", "skipped"} => i = 1
  <2>1. CASE i \in 1..n
    BY <1>3, <2>1 DEF Attempts
  <2>2. CASE i = n + 1
    <3>1. n + 1 - 1 = n /\ ~(n + 1 < n + 1)
      BY <1>1
    <3>2. QED BY <1>1, <1>2, <1>4, <2>2, <3>1
  <2>3. QED BY <1>1, <1>2, <2>1, <2>2
<1>6. StackOK(new, store)
  BY <1>2, <1>5 DEF StackOK
<1>7. QED BY <1>6 DEF new

\* The calls below one of them.
LEMMA PrefixOK ==
  ASSUME NEW store, NEW stack, StackOK(stack, store), NEW n \in 0..Len(stack)
  PROVE  /\ StackOK(SubSeq(stack, 1, n), store)
         /\ Len(SubSeq(stack, 1, n)) = n
         /\ DOMAIN SubSeq(stack, 1, n) = 1..n
         /\ \A i \in 1..n : SubSeq(stack, 1, n)[i] = stack[i]
<1> DEFINE new == SubSeq(stack, 1, n)
<1>1. Len(stack) \in Nat /\ DOMAIN stack = 1..Len(stack)
  BY LenProperties DEF StackOK
<1>2. \A i \in 1..n : stack[i] \in Frames
  BY <1>1, ElementOfSeq DEF StackOK
<1>3. /\ new \in Seq(Frames) /\ Len(new) = n
      /\ \A i \in 1..n : new[i] = stack[i]
  BY <1>1, <1>2, SubSeqProperties
<1>4. DOMAIN new = 1..n
  BY <1>3, LenProperties
<1> HIDE DEF new
<1>5. ASSUME NEW i \in 1..n
      PROVE  /\ \A s \in new[i].own : s \in DOMAIN store /\ store[s].op = new[i].op
             /\ i < n => new[i].at = "function"
             /\ new[i].at = "function" => InOwnContext(new, i, store)
             /\ new[i].at \in Attempts =>
                  i > 1 /\ new[i].ctx = new[i - 1].ctx /\ new[i].op \in {"exec", "stmt"}
             /\ new[i].op \in {"handler", "skipped"} => i = 1
  <2>1. i \in DOMAIN stack /\ new[i] = stack[i] /\ (i < n => i < Len(stack))
    BY <1>1, <1>3
  <2>2. InOwnContext(stack, i, store) => InOwnContext(new, i, store)
    BY <2>1 DEF InOwnContext
  <2>3. i > 1 => i - 1 \in 1..n
    BY <1>1
  <2>4. QED BY <1>3, <2>1, <2>2, <2>3 DEF StackOK
<1>6. StackOK(new, store)
  BY <1>3, <1>4, <1>5 DEF StackOK
<1>7. QED BY <1>3, <1>4, <1>6 DEF new

\* A call on which the library has made progress.
LEMMA ReplaceOK ==
  ASSUME NEW store, NEW stack, StackOK(stack, store), stack # <<>>,
         NEW frame \in Frames,
         frame.op = Last(stack).op, frame.own = Last(stack).own,
         frame.ctx = Last(stack).ctx, frame.at = Last(stack).at
  PROVE  /\ StackOK(Append(Front(stack), frame), store)
         /\ DOMAIN Append(Front(stack), frame) = DOMAIN stack
         /\ \A i \in DOMAIN stack :
              Append(Front(stack), frame)[i] = IF i = Len(stack) THEN frame ELSE stack[i]
<1> DEFINE n == Len(stack) - 1
           under == SubSeq(stack, 1, n)
           new == Append(under, frame)
<1>1. n \in Nat /\ n + 1 = Len(stack) /\ DOMAIN stack = 1..(n + 1)
  BY LenProperties, EmptySeq DEF StackOK
<1>2. /\ StackOK(under, store) /\ Len(under) = n /\ DOMAIN under = 1..n
      /\ \A i \in 1..n : under[i] = stack[i]
  BY <1>1, PrefixOK
<1> HIDE DEF under
<1>3. /\ Len(new) = n + 1 /\ DOMAIN new = 1..(n + 1)
      /\ \A i \in 1..n : new[i] = stack[i]
      /\ new[n + 1] = frame
  BY <1>2, AppendProperties, LenProperties DEF StackOK
<1>4. under = <<>> <=> n = 0
  BY <1>1, <1>2, EmptySeq DEF StackOK
<1>5. n # 0 => under[Len(under)].at = "function"
  BY <1>1, <1>2 DEF StackOK
<1>6. Last(stack) = stack[n + 1]
  BY <1>1 DEF Last
<1>7. frame.at = "function" =>
        \/ \E s \in DOMAIN store : frame.own = {s} /\ frame.ctx = RemoteContext(s, store[s])
        \/ under = <<>> /\ frame.own = {} /\ frame.ctx = NoContext
  BY <1>1, <1>4, <1>6 DEF StackOK, InOwnContext
<1>8. frame.at \in Attempts =>
        under # <<>> /\ frame.ctx = under[Len(under)].ctx /\ frame.op \in {"exec", "stmt"}
  <2>1. SUFFICES ASSUME frame.at \in Attempts
                 PROVE  under # <<>> /\ frame.ctx = under[Len(under)].ctx /\ frame.op \in {"exec", "stmt"}
    OBVIOUS
  <2>2. n + 1 > 1 /\ stack[n + 1].ctx = stack[n + 1 - 1].ctx /\ stack[n + 1].op \in {"exec", "stmt"}
    BY <1>1, <1>6, <2>1 DEF StackOK
  <2>3. n + 1 - 1 = n /\ n \in 1..n
    BY <1>1, <2>2
  <2>4. QED BY <1>2, <1>4, <1>6, <2>2, <2>3
<1>9. frame.op \in {"handler", "skipped"} => under = <<>>
  BY <1>1, <1>4, <1>6 DEF StackOK
<1>10. \A s \in frame.own : s \in DOMAIN store /\ store[s].op = frame.op
  BY <1>1, <1>6 DEF StackOK
<1>11. StackOK(new, store)
  BY <1>2, <1>4, <1>5, <1>7, <1>8, <1>9, <1>10, PushOK
<1>12. new = Append(Front(stack), frame)
  BY DEF under, Front
<1> HIDE DEF new
<1>13. DOMAIN new = DOMAIN stack
  BY <1>1, <1>3
<1>14. \A i \in DOMAIN stack : new[i] = IF i = Len(stack) THEN frame ELSE stack[i]
  <2>1. ASSUME NEW i \in DOMAIN stack
        PROVE  new[i] = IF i = Len(stack) THEN frame ELSE stack[i]
    <3>1. i = n + 1 \/ (i \in 1..n /\ i # n + 1)
      BY <1>1
    <3>2. QED BY <1>1, <1>3, <3>1
  <2>2. QED BY <2>1
<1>15. QED BY <1>11, <1>12, <1>13, <1>14

\* The span a function runs in is the innermost one of its stack, and the one
\* its context names.
LEMMA FunctionContext ==
  ASSUME StoreOK(spans), NEW stack, StackOK(stack, spans), stack # <<>>,
         stack[Len(stack)].at = "function"
  PROVE  /\ stack[Len(stack)].ctx \in Contexts
         /\ Carries(stack[Len(stack)].ctx, spans)
         /\ Innermost(stack) = stack[Len(stack)].ctx.id
<1> DEFINE n == Len(stack)
           ctx == stack[n].ctx
           traced == {i \in DOMAIN stack : stack[i].own # {}}
<1>1. n \in Nat \ {0} /\ DOMAIN stack = 1..n /\ stack[n] \in Frames
  BY LenProperties, EmptySeq, ElementOfSeq DEF StackOK
<1>2. ctx \in Contexts
  BY <1>1 DEF Frames, FrameRecords
<1>3. InOwnContext(stack, n, spans)
  BY <1>1 DEF StackOK
<1>4. CASE \E s \in DOMAIN spans : stack[n].own = {s} /\ ctx = RemoteContext(s, spans[s])
  <2>1. PICK s \in DOMAIN spans : stack[n].own = {s} /\ ctx = RemoteContext(s, spans[s])
    BY <1>4
  <2>2. ctx.id = s
    BY <2>1 DEF RemoteContext
  <2>3. n \in traced /\ \A y \in traced : n >= y
    BY <1>1, <2>1
  <2>4. \A x \in traced : (\A y \in traced : x >= y) => x = n
    <3>1. ASSUME NEW x \in traced, \A y \in traced : x >= y
          PROVE  x = n
      <4>1. x \in Int /\ n \in Int /\ x >= n /\ n >= x
        BY <1>1, <2>3, <3>1
      <4>2. QED BY <4>1
    <3>2. QED BY <3>1
  <2> HIDE DEF traced
  <2>5. Max(traced) = n
    BY <2>3, <2>4 DEF Max
  <2>6. (CHOOSE t \in stack[Max(traced)].own : TRUE) = s
    BY <2>1, <2>5
  <2>7. Innermost(stack) = s
    BY <2>3, <2>6 DEF Innermost, traced
  <2>8. QED BY <1>2, <2>1, <2>2, <2>7 DEF Carries
<1>5. CASE n = 1 /\ stack[n].own = {} /\ ctx = NoContext
  <2>1. traced = {}
    BY <1>1, <1>5
  <2>2. Innermost(stack) = 0
    BY <2>1 DEF Innermost
  <2>3. QED BY <1>2, <1>5, <2>2 DEF Carries, NoContext
<1>6. QED BY <1>3, <1>4, <1>5 DEF InOwnContext

\* What a goroutine that starts something starts it in.
LEMMA AmbientOK ==
  ASSUME StoreOK(spans), StacksOK, NEW g \in Goroutines, Idle(g) \/ InFunction(g)
  PROVE  /\ Ambient(g) \in Contexts
         /\ Carries(Ambient(g), spans)
         /\ Enclosing(g) = Ambient(g).id
         /\ Ambient(g).id \in Ids \cup {0}
<1>1. CASE Idle(g)
  <2>1. Ambient(g) = NoContext /\ Enclosing(g) = 0
    BY <1>1 DEF Ambient, Idle, Enclosing, Innermost
  <2>2. QED BY <2>1 DEF NoContext, Contexts, Companions, Carries
<1>2. CASE ~Idle(g)
  <2>1. /\ StackOK(calls[g], spans) /\ calls[g] # <<>>
        /\ calls[g][Len(calls[g])].at = "function"
        /\ Ambient(g) = calls[g][Len(calls[g])].ctx
        /\ Enclosing(g) = Innermost(calls[g])
    BY <1>2 DEF StacksOK, Idle, InFunction, Top, Last, Ambient, Enclosing
  <2>2. QED BY <2>1, FunctionContext DEF Contexts
<1>3. QED BY <1>1, <1>2

-----------------------------------------------------------------------------
(* Steps: one goroutine changes its stack, and the store grows. *)

Leaky == {"client", "file", "open", "publishes", "exec", "aws"}

Owns(stack, s) == \E i \in DOMAIN stack : s \in stack[i].own

\* The part of the invariant that is about spans and stacks.
Traced == StoreOK(spans) /\ StacksOK /\ OpenOnStack

TracedNext == StoreOK(spans') /\ StacksOK' /\ OpenOnStack' /\ Grows(spans, spans')

\* A span that is open after the step is on the new stack, or on another one.
LEMMA StackStep ==
  ASSUME Traced, NEW g \in Goroutines, NEW stack,
         StoreOK(spans'), Grows(spans, spans'),
         StackOK(stack, spans'), calls' = [calls EXCEPT ![g] = stack],
         \A s \in DOMAIN spans' :
           /\ spans'[s].state = "open" =>
                \/ Owns(stack, s)
                \/ s \in DOMAIN spans /\ spans[s].state = "open" /\ ~Owns(calls[g], s)
           /\ spans'[s].state = "leaked" => spans'[s].op \in Leaky
  PROVE  TracedNext
<1>1. calls \in [Goroutines -> Seq(Frames)] /\ \A h \in Goroutines : StackOK(calls[h], spans)
  BY DEF Traced, StacksOK
<1>2. calls' \in [Goroutines -> Seq(Frames)]
  BY <1>1 DEF StackOK
<1>3. calls'[g] = stack /\ \A h \in Goroutines \ {g} : calls'[h] = calls[h]
  BY <1>1
<1>4. \A h \in Goroutines : StackOK(calls'[h], spans')
  BY <1>1, <1>3, StackGrows
<1>5. StacksOK'
  BY <1>2, <1>4 DEF StacksOK
<1>6. ASSUME NEW s \in DOMAIN spans', spans'[s].state = "open"
      PROVE  \E h \in Goroutines : \E i \in DOMAIN calls'[h] : s \in calls'[h][i].own
  <2>1. CASE Owns(stack, s)
    BY <1>3, <2>1 DEF Owns
  <2>2. CASE s \in DOMAIN spans /\ spans[s].state = "open" /\ ~Owns(calls[g], s)
    <3>1. PICK h \in Goroutines : \E i \in DOMAIN calls[h] : s \in calls[h][i].own
      BY <2>2 DEF Traced, OpenOnStack
    <3>2. h # g
      BY <2>2, <3>1 DEF Owns
    <3>3. QED BY <1>3, <3>1, <3>2
  <2>3. QED BY <1>6, <2>1, <2>2
<1>7. OpenOnStack'
  BY <1>6 DEF OpenOnStack, Leaky
<1>8. QED BY <1>5, <1>7 DEF TracedNext

\* The functions of a stack make calls, and an idle goroutine begins one.
LEMMA CallerOK ==
  ASSUME Traced, NEW g \in Goroutines, Idle(g) \/ InFunction(g)
  PROVE  /\ StackOK(calls[g], spans)
         /\ calls[g] = <<>> \/ calls[g][Len(calls[g])].at = "function"
         /\ InFunction(g) => calls[g] # <<>> /\ calls[g][Len(calls[g])] = Top(g)
BY DEF Traced, StacksOK, Idle, InFunction, Top, Last

\* A call begins with a span.
LEMMA BeginKeeps ==
  ASSUME Traced, NEW g \in Goroutines, Idle(g) \/ InFunction(g),
         NEW span \in SpanRecords, Joined(span, Len(spans) + 1, spans), span.state = "open",
         NEW at \in {"function", "library"}, NEW ref \in Refs,
         Works(span.op, ref), span.op = "handler" => Idle(g),
         Begin(g, span, at, ref)
  PROVE  /\ TracedNext
         /\ Len(spans) + 1 \in DOMAIN spans'
         /\ spans'[Len(spans) + 1] = span
         /\ Carries(RemoteContext(Len(spans) + 1, span), spans')
         /\ RemoteContext(Len(spans) + 1, span) \in Contexts
<1> DEFINE id == Len(spans) + 1
           frame == Frame(span.op, {id}, RemoteContext(id, span), at, ref)
           stack == Append(calls[g], frame)
<1>1. /\ Len(spans) \in Nat /\ MaxSpans \in Nat /\ DOMAIN spans = 1..Len(spans)
      /\ Len(spans) < MaxSpans
  BY LenProperties, TracingAssumption DEF Traced, StoreOK, Begin
<1>2. /\ spans' = Append(spans, span)
      /\ calls' = [calls EXCEPT ![g] = stack]
  BY DEF Begin, Push
<1>3. /\ StoreOK(spans')
      /\ Grows(spans, spans')
      /\ DOMAIN spans' = 1..id
      /\ \A s \in DOMAIN spans : spans'[s] = spans[s]
      /\ spans'[id] = span
  BY <1>1, <1>2, AppendOK DEF Traced
<1>4. id \in 1..MaxSpans /\ id \in Ids /\ id \in DOMAIN spans'
  BY <1>1, <1>3 DEF Ids, Foreign
<1>5. RemoteContext(id, span) \in Contexts
  BY <1>4 DEF RemoteContext, Contexts, SpanRecords
<1>6. /\ frame.op = span.op /\ frame.own = {id} /\ frame.ctx = RemoteContext(id, span)
      /\ frame.at = at
  BY DEF Frame
<1>7. frame \in Frames
  BY <1>4, <1>5 DEF Frame, Frames, FrameRecords, SpanRecords, FrameOps, Places, Codes
<1>8. Carries(RemoteContext(id, span), spans')
  <2>1. RemoteContext(id, span).id = id
    BY DEF RemoteContext
  <2>2. QED BY <1>3, <1>4, <2>1 DEF Carries
<1>9. span.op # "skipped"
  BY DEF SpanRecords, SpanOps
<1>10. /\ StackOK(calls[g], spans')
       /\ calls[g] = <<>> \/ calls[g][Len(calls[g])].at = "function"
       /\ Idle(g) => calls[g] = <<>>
  BY <1>3, CallerOK, StackGrows DEF Idle
<1> HIDE DEF frame
<1>11. /\ \A s \in frame.own : s \in DOMAIN spans' /\ spans'[s].op = frame.op
       /\ \E s \in DOMAIN spans' : frame.own = {s} /\ frame.ctx = RemoteContext(s, spans'[s])
  BY <1>3, <1>4, <1>6
<1>12. StackOK(stack, spans')
  BY <1>6, <1>7, <1>9, <1>10, <1>11, PushOK DEF Attempts
<1>13. Owns(stack, id) /\ \A s : Owns(calls[g], s) => Owns(stack, s)
  <2>1. calls[g] \in Seq(Frames)
    BY DEF Traced, StacksOK
  <2>2. /\ Len(calls[g]) \in Nat /\ DOMAIN calls[g] = 1..Len(calls[g])
        /\ DOMAIN stack = 1..(Len(calls[g]) + 1)
        /\ stack[Len(calls[g]) + 1] = frame
        /\ \A i \in 1..Len(calls[g]) : stack[i] = calls[g][i]
    BY <1>7, <2>1, AppendProperties, LenProperties
  <2>3. QED BY <1>6, <2>2 DEF Owns
<1> HIDE DEF stack
<1>14. \A s \in DOMAIN spans' :
         /\ spans'[s].state = "open" =>
              \/ Owns(stack, s)
              \/ s \in DOMAIN spans /\ spans[s].state = "open" /\ ~Owns(calls[g], s)
         /\ spans'[s].state = "leaked" => spans'[s].op \in Leaky
  <2>1. ASSUME NEW s \in DOMAIN spans'
        PROVE  s = id \/ s \in DOMAIN spans
    BY <1>1, <1>3
  <2>2. QED BY <1>3, <1>13, <2>1 DEF Traced, OpenOnStack, Leaky
<1>15. TracedNext
  BY <1>2, <1>3, <1>12, <1>14, StackStep
<1>16. QED BY <1>3, <1>4, <1>5, <1>8, <1>15

\* The calls that serve a request.
Servers == {"handler", "skipped"}

\* No step but Handle and WriteHeader touches a frame that serves a request.
KeepsServers ==
  \A h \in Goroutines : \A i \in DOMAIN calls'[h] :
    calls'[h][i].op \in Servers => i \in DOMAIN calls[h] /\ calls'[h][i] = calls[h][i]

SameServers(stack, old) ==
  \A i \in DOMAIN stack : stack[i].op \in Servers => i \in DOMAIN old /\ stack[i] = old[i]

\* Only the stack of one goroutine changes.
LEMMA ServersKept ==
  ASSUME StacksOK, NEW g \in Goroutines, NEW stack, calls' = [calls EXCEPT ![g] = stack],
         SameServers(stack, calls[g])
  PROVE  KeepsServers
<1>1. calls'[g] = stack /\ \A h \in Goroutines \ {g} : calls'[h] = calls[h]
  BY DEF StacksOK
<1>2. QED BY <1>1 DEF KeepsServers, SameServers

\* A call that serves nothing is pushed.
LEMMA PushServers ==
  ASSUME StacksOK, NEW g \in Goroutines, NEW frame \in Frames, frame.op \notin Servers,
         Push(g, frame)
  PROVE  KeepsServers
<1> DEFINE stack == Append(calls[g], frame)
<1>1. calls' = [calls EXCEPT ![g] = stack]
  BY DEF Push
<1>2. calls[g] \in Seq(Frames)
  BY DEF StacksOK
<1>3. /\ Len(calls[g]) \in Nat /\ DOMAIN calls[g] = 1..Len(calls[g])
      /\ DOMAIN stack = 1..(Len(calls[g]) + 1)
      /\ stack[Len(calls[g]) + 1] = frame
      /\ \A i \in 1..Len(calls[g]) : stack[i] = calls[g][i]
  BY <1>2, AppendProperties, LenProperties
<1> HIDE DEF stack
<1>4. SameServers(stack, calls[g])
  <2>1. ASSUME NEW i \in DOMAIN stack PROVE i = Len(calls[g]) + 1 \/ i \in 1..Len(calls[g])
    BY <1>3
  <2>2. QED BY <1>3, <2>1 DEF SameServers
<1>5. QED BY <1>1, <1>4, ServersKept

\* The innermost call returns.
LEMMA FrontOK ==
  ASSUME Traced, NEW g \in Goroutines, ~Idle(g)
  PROVE  /\ Len(calls[g]) \in Nat \ {0} /\ DOMAIN calls[g] = 1..Len(calls[g])
         /\ StackOK(calls[g], spans)
         /\ Top(g) = calls[g][Len(calls[g])] /\ Top(g) \in Frames
         /\ StackOK(Front(calls[g]), spans)
         /\ Len(Front(calls[g])) = Len(calls[g]) - 1
         /\ DOMAIN Front(calls[g]) = 1..(Len(calls[g]) - 1)
         /\ \A i \in 1..(Len(calls[g]) - 1) :
              Front(calls[g])[i] = calls[g][i] /\ calls[g][i].at = "function"
<1> DEFINE n == Len(calls[g])
<1>1. StackOK(calls[g], spans) /\ calls[g] # <<>>
  BY DEF Traced, StacksOK, Idle
<1>2. n \in Nat \ {0} /\ DOMAIN calls[g] = 1..n
  BY <1>1, LenProperties, EmptySeq DEF StackOK
<1>3. Top(g) = calls[g][n] /\ Top(g) \in Frames
  BY <1>1, <1>2, ElementOfSeq DEF Top, Last, StackOK
<1>4. n - 1 \in 0..n
  BY <1>2
<1>5. Front(calls[g]) = SubSeq(calls[g], 1, n - 1)
  BY DEF Front
<1>6. /\ StackOK(SubSeq(calls[g], 1, n - 1), spans)
      /\ Len(SubSeq(calls[g], 1, n - 1)) = n - 1
      /\ DOMAIN SubSeq(calls[g], 1, n - 1) = 1..(n - 1)
      /\ \A i \in 1..(n - 1) : SubSeq(calls[g], 1, n - 1)[i] = calls[g][i]
  BY <1>1, <1>4, PrefixOK
<1>7. \A i \in 1..(n - 1) : calls[g][i].at = "function"
  <2>1. ASSUME NEW i \in 1..(n - 1) PROVE i \in DOMAIN calls[g] /\ i < Len(calls[g])
    BY <1>2
  <2>2. QED BY <1>1, <2>1 DEF StackOK
<1>8. QED BY <1>1, <1>2, <1>3, <1>5, <1>6, <1>7

\* The spans of a call that returns are no longer open.
LEMMA MarkedStates ==
  ASSUME StoreOK(spans), OpenOnStack, NEW own, NEW state \in {"recorded", "abandoned"}
  PROVE  \A s \in DOMAIN spans :
           /\ Marked(own, state)[s].state = "open" => s \notin own /\ spans[s].state = "open"
           /\ Marked(own, state)[s].state = "leaked" => Marked(own, state)[s].op \in Leaky
<1>1. state \in States
  BY DEF States
<1>2. /\ Grows(spans, Marked(own, state))
      /\ \A s \in DOMAIN spans :
           Marked(own, state)[s].state = IF s \in own THEN state ELSE spans[s].state
  BY <1>1, MarkedOK
<1>3. \A s \in DOMAIN spans : Marked(own, state)[s].op = spans[s].op
  BY <1>2 DEF Grows
<1>4. QED BY <1>2, <1>3 DEF OpenOnStack, Leaky

\* A call returns.
LEMMA EndKeeps ==
  ASSUME Traced, NEW g \in Goroutines, ~Idle(g), NEW status, NEW code, NEW result,
         End(g, status, code, result)
  PROVE  TracedNext /\ KeepsServers
<1> DEFINE stack == Front(calls[g])
           own == Top(g).own
           n == Len(calls[g])
<1>1. /\ spans' = Marked(own, "recorded")
      /\ calls' = [calls EXCEPT ![g] = stack]
  BY DEF End, Pop
<1>2. /\ StoreOK(spans') /\ Grows(spans, spans') /\ DOMAIN spans' = DOMAIN spans
      /\ \A s \in DOMAIN spans :
           /\ spans'[s].state = "open" => s \notin own /\ spans[s].state = "open"
           /\ spans'[s].state = "leaked" => spans'[s].op \in Leaky
  BY <1>1, MarkedOK, MarkedStates DEF Traced, States
<1>3. /\ n \in Nat \ {0} /\ DOMAIN calls[g] = 1..n
      /\ Top(g) = calls[g][n]
      /\ StackOK(stack, spans)
      /\ DOMAIN stack = 1..(n - 1)
      /\ \A i \in 1..(n - 1) : stack[i] = calls[g][i]
  BY FrontOK
<1> HIDE DEF stack, n
<1>4. StackOK(stack, spans')
  BY <1>2, <1>3, StackGrows
<1>5. \A i \in 1..n : i = n \/ i \in 1..(n - 1)
  BY <1>3
<1>6. \A s : Owns(calls[g], s) => Owns(stack, s) \/ s \in own
  BY <1>3, <1>5 DEF Owns
<1>7. \A s \in DOMAIN spans' :
        /\ spans'[s].state = "open" =>
             \/ Owns(stack, s)
             \/ s \in DOMAIN spans /\ spans[s].state = "open" /\ ~Owns(calls[g], s)
        /\ spans'[s].state = "leaked" => spans'[s].op \in Leaky
  BY <1>2, <1>6
<1>8. TracedNext
  BY <1>1, <1>2, <1>4, <1>7, StackStep
<1>9. SameServers(stack, calls[g])
  BY <1>3, <1>5 DEF SameServers
<1>10. KeepsServers
  BY <1>1, <1>9, ServersKept DEF Traced
<1>11. QED BY <1>8, <1>10

\* A store that nothing changes.
LEMMA SameStore ==
  ASSUME Traced, UNCHANGED spans
  PROVE  StoreOK(spans') /\ Grows(spans, spans')
BY DEF Traced, Grows

\* A call without a span.
LEMMA PushKeeps ==
  ASSUME Traced, NEW g \in Goroutines, Idle(g) \/ InFunction(g),
         NEW frame \in Frames, frame.own = {},
         frame.at = "library" \/ (frame.at = "function" /\ frame.ctx = NoContext /\ Idle(g)),
         frame.op \in Servers => Idle(g),
         Push(g, frame), UNCHANGED spans
  PROVE  TracedNext
<1> DEFINE stack == Append(calls[g], frame)
<1>1. calls' = [calls EXCEPT ![g] = stack]
  BY DEF Push
<1>2. /\ StackOK(calls[g], spans)
      /\ calls[g] = <<>> \/ calls[g][Len(calls[g])].at = "function"
      /\ Idle(g) => calls[g] = <<>>
  BY CallerOK DEF Idle
<1>3. StackOK(stack, spans)
  BY <1>2, PushOK DEF Attempts, Servers
<1>4. /\ Len(calls[g]) \in Nat /\ DOMAIN calls[g] = 1..Len(calls[g])
      /\ DOMAIN stack = 1..(Len(calls[g]) + 1)
      /\ \A i \in 1..Len(calls[g]) : stack[i] = calls[g][i]
  BY <1>2, AppendProperties, LenProperties DEF StackOK
<1>5. \A s : Owns(calls[g], s) => Owns(stack, s)
  BY <1>4 DEF Owns
<1> HIDE DEF stack
<1>6. \A s \in DOMAIN spans' :
        /\ spans'[s].state = "open" =>
             \/ Owns(stack, s)
             \/ s \in DOMAIN spans /\ spans[s].state = "open" /\ ~Owns(calls[g], s)
        /\ spans'[s].state = "leaked" => spans'[s].op \in Leaky
  BY <1>5 DEF Traced, OpenOnStack, Leaky
<1>7. QED BY <1>1, <1>3, <1>6, SameStore, StackStep

\* A call that goes on.
LEMMA ReplaceKeeps ==
  ASSUME Traced, NEW g \in Goroutines, ~Idle(g), NEW frame \in Frames,
         frame.op = Top(g).op, frame.own = Top(g).own,
         frame.ctx = Top(g).ctx, frame.at = Top(g).at,
         Replace(g, frame), UNCHANGED spans
  PROVE  /\ TracedNext
         /\ frame.op \notin Servers => KeepsServers
         /\ \A h \in Goroutines \ {g} : calls'[h] = calls[h]
         /\ DOMAIN calls'[g] = DOMAIN calls[g]
         /\ \A i \in DOMAIN calls[g] :
              calls'[g][i] = IF i = Len(calls[g]) THEN frame ELSE calls[g][i]
<1> DEFINE stack == Append(Front(calls[g]), frame)
<1>1. calls' = [calls EXCEPT ![g] = stack]
  BY DEF Replace
<1>2. StackOK(calls[g], spans) /\ calls[g] # <<>> /\ Top(g) = Last(calls[g])
  BY DEF Traced, StacksOK, Idle, Top
<1>3. Len(calls[g]) \in DOMAIN calls[g] /\ Top(g) = calls[g][Len(calls[g])]
  BY FrontOK
<1>4. /\ StackOK(stack, spans)
      /\ DOMAIN stack = DOMAIN calls[g]
      /\ \A i \in DOMAIN calls[g] : stack[i] = IF i = Len(calls[g]) THEN frame ELSE calls[g][i]
  BY <1>2, ReplaceOK
<1> HIDE DEF stack
<1>5. \A s : Owns(calls[g], s) => Owns(stack, s)
  BY <1>3, <1>4 DEF Owns
<1>6. \A s \in DOMAIN spans' :
        /\ spans'[s].state = "open" =>
             \/ Owns(stack, s)
             \/ s \in DOMAIN spans /\ spans[s].state = "open" /\ ~Owns(calls[g], s)
        /\ spans'[s].state = "leaked" => spans'[s].op \in Leaky
  BY <1>5 DEF Traced, OpenOnStack, Leaky
<1>7. TracedNext
  BY <1>1, <1>4, <1>6, SameStore, StackStep
<1>8. calls'[g] = stack /\ \A h \in Goroutines \ {g} : calls'[h] = calls[h]
  BY <1>1 DEF Traced, StacksOK
<1>9. ASSUME frame.op \notin Servers PROVE KeepsServers
  <2>1. SameServers(stack, calls[g])
    BY <1>4, <1>9 DEF SameServers
  <2>2. QED BY <1>1, <2>1, ServersKept DEF Traced
<1>10. QED BY <1>4, <1>7, <1>8, <1>9

-----------------------------------------------------------------------------
(* Panics. *)

\* The calls that a panic ends.
LEMMA GoneOK ==
  ASSUME NEW stack \in Seq(Frames), NEW kept \in 0..(Len(stack) - 1)
  PROVE  ToSet(SubSeq(stack, kept + 1, Len(stack))) = {stack[i] : i \in (kept + 1)..Len(stack)}
<1> DEFINE n == Len(stack)
           gone == SubSeq(stack, kept + 1, n)
<1>1. n \in Nat /\ kept \in Nat /\ kept + 1 \in 1..(n + 1) /\ n \in kept..n
  BY LenProperties
<1>2. kept + 1 - 1 = kept /\ n - (kept + 1) + 1 = n - kept
  BY <1>1
<1>3. \A i \in (kept + 1)..n : stack[i] \in Frames
  BY <1>1, ElementOfSeq
<1>4. /\ gone \in Seq(Frames)
      /\ Len(gone) = n - kept
      /\ \A i \in 1..(n - kept) : gone[i] = stack[kept + 1 + i - 1]
  BY <1>1, <1>2, <1>3, SubSeqProperties
<1>5. DOMAIN gone = 1..(n - kept)
  BY <1>4, LenProperties
<1> HIDE DEF gone
<1>6. ASSUME NEW i \in 1..(n - kept) PROVE kept + i \in (kept + 1)..n /\ gone[i] = stack[kept + i]
  <2>1. kept + 1 + i - 1 = kept + i
    BY <1>1
  <2>2. kept + i \in (kept + 1)..n
    BY <1>1
  <2>3. QED BY <1>4, <2>1, <2>2
<1>7. ASSUME NEW j \in (kept + 1)..n PROVE j - kept \in 1..(n - kept) /\ gone[j - kept] = stack[j]
  <2>1. j - kept \in 1..(n - kept) /\ kept + (j - kept) = j
    BY <1>1
  <2>2. QED BY <1>6, <2>1
<1>8. {gone[i] : i \in DOMAIN gone} = {stack[i] : i \in (kept + 1)..n}
  <2>1. \A i \in DOMAIN gone : \E j \in (kept + 1)..n : gone[i] = stack[j]
    BY <1>5, <1>6
  <2>2. \A j \in (kept + 1)..n : \E i \in DOMAIN gone : stack[j] = gone[i]
    BY <1>5, <1>7
  <2> HIDE DEF n
  <2>3. QED BY <2>1, <2>2
<1>9. QED BY <1>8 DEF ToSet, gone

\* What a panic leaves of the spans and the calls.
LEMMA PanicKeeps ==
  ASSUME Traced, NEW g \in Goroutines, Panic(g)
  PROVE  /\ TracedNext
         /\ KeepsServers
         /\ \E kept \in 0..(Len(calls[g]) - 1) :
              calls' = [calls EXCEPT ![g] = SubSeq(calls[g], 1, kept)]
<1> DEFINE n == Len(calls[g])
<1>1. PICK kept \in 0..(n - 1) :
        LET gone == ToSet(SubSeq(calls[g], kept + 1, Len(calls[g])))
            deferred == {f \in gone : f.op \in Deferring}
            lost == UNION {f.own : f \in gone \ deferred} IN
        /\ calls' = [calls EXCEPT ![g] = SubSeq(calls[g], 1, kept)]
        /\ spans' = [s \in DOMAIN spans |->
             IF s \in lost THEN [spans[s] EXCEPT !.state = "leaked"]
             ELSE Marked(UNION {f.own : f \in deferred}, "recorded")[s]]
  BY DEF Panic
<1> DEFINE gone == {calls[g][i] : i \in (kept + 1)..n}
           deferred == {f \in gone : f.op \in Deferring}
           lost == UNION {f.own : f \in gone \ deferred}
           told == UNION {f.own : f \in deferred}
           stack == SubSeq(calls[g], 1, kept)
<1>2. calls[g] \in Seq(Frames) /\ StackOK(calls[g], spans) /\ StoreOK(spans)
  BY DEF Traced, StacksOK
<1>3. n \in Nat /\ DOMAIN calls[g] = 1..n /\ kept \in 0..n
  BY <1>2, LenProperties
<1>4. ToSet(SubSeq(calls[g], kept + 1, Len(calls[g]))) = gone
  BY <1>2, GoneOK
<1>5. /\ calls' = [calls EXCEPT ![g] = stack]
      /\ spans' = [s \in DOMAIN spans |->
           IF s \in lost THEN [spans[s] EXCEPT !.state = "leaked"] ELSE Marked(told, "recorded")[s]]
  BY <1>1, <1>4
<1>6. \A i \in (kept + 1)..n : calls[g][i] \in gone /\ i \in DOMAIN calls[g] /\ calls[g][i] \in Frames
  BY <1>2, <1>3, ElementOfSeq
<1>7. \A f \in gone : \E i \in DOMAIN calls[g] : f = calls[g][i] /\ f \in Frames
  BY <1>6
<1>8. \A f \in gone : \A s \in f.own : s \in DOMAIN spans /\ spans[s].op = f.op
  BY <1>2, <1>7 DEF StackOK
<1>9. \A f \in gone : \A s \in f.own : s \in lost \/ s \in told
  OBVIOUS
<1>10. \A s \in lost : spans[s].op \in Leaky
  <2>1. SUFFICES ASSUME NEW f \in gone \ deferred, NEW s \in f.own
                 PROVE  spans[s].op \in Leaky
    OBVIOUS
  <2>2. spans[s].op = f.op /\ spans[s] \in SpanRecords
    BY <1>2, <1>8, ElementOfSeq, LenProperties DEF StoreOK
  <2>3. f.op \in SpanOps /\ f.op \notin Deferring
    BY <2>2 DEF SpanRecords
  <2>4. QED BY <2>2, <2>3 DEF SpanOps, Deferring, Leaky
<1> HIDE DEF gone, deferred, lost, told, stack
<1>11. \A s \in DOMAIN spans : spans[s] \in SpanRecords
  BY <1>2, ElementOfSeq, LenProperties DEF StoreOK
<1>12. ASSUME NEW s \in DOMAIN spans
       PROVE  LET state == IF s \in lost THEN "leaked"
                           ELSE IF s \in told THEN "recorded" ELSE spans[s].state IN
              spans'[s] = [spans[s] EXCEPT !.state = state] /\ spans'[s].state = state /\ state \in States
  <2>1. CASE s \in lost
    BY <1>5, <1>11, <2>1 DEF SpanRecords, States
  <2>2. CASE s \notin lost /\ s \in told
    BY <1>5, <1>11, <2>2 DEF Marked, SpanRecords, States
  <2>3. CASE s \notin lost /\ s \notin told
    <3>1. spans'[s] = spans[s]
      BY <1>5, <2>3 DEF Marked
    <3>2. QED BY <1>11, <2>3, <3>1 DEF SpanRecords
  <2>4. QED BY <2>1, <2>2, <2>3
<1>13. spans' = [s \in DOMAIN spans |-> spans'[s]]
  BY <1>5
<1>14. \A s \in DOMAIN spans : \E state \in States : spans'[s] = [spans[s] EXCEPT !.state = state]
  BY <1>12
<1>15. StoreOK(spans') /\ Grows(spans, spans') /\ DOMAIN spans' = DOMAIN spans
  BY <1>2, <1>13, <1>14, Restated
<1>16. /\ StackOK(stack, spans)
       /\ DOMAIN stack = 1..kept
       /\ \A i \in 1..kept : stack[i] = calls[g][i]
  BY <1>2, <1>3, PrefixOK DEF stack
<1>17. StackOK(stack, spans')
  BY <1>15, <1>16, StackGrows
<1>18. \A i \in DOMAIN calls[g] : i \in 1..kept \/ i \in (kept + 1)..n
  BY <1>3
<1>19. \A s : Owns(calls[g], s) => Owns(stack, s) \/ s \in lost \/ s \in told
  BY <1>6, <1>9, <1>16, <1>18 DEF Owns
<1>20. ASSUME NEW s \in DOMAIN spans'
       PROVE  /\ spans'[s].state = "open" =>
                   \/ Owns(stack, s)
                   \/ s \in DOMAIN spans /\ spans[s].state = "open" /\ ~Owns(calls[g], s)
              /\ spans'[s].state = "leaked" => spans'[s].op \in Leaky
  <2>1. s \in DOMAIN spans /\ spans'[s].op = spans[s].op
    BY <1>15 DEF Grows
  <2>2. spans[s].state = "leaked" => spans[s].op \in Leaky
    BY <2>1 DEF Traced, OpenOnStack, Leaky
  <2>3. spans'[s].state = IF s \in lost THEN "leaked"
                           ELSE IF s \in told THEN "recorded" ELSE spans[s].state
    BY <1>12, <2>1
  <2>4. QED BY <1>10, <1>19, <2>1, <2>2, <2>3
<1>21. TracedNext
  BY <1>5, <1>15, <1>17, <1>20, StackStep
<1>22. SameServers(stack, calls[g])
  <2>1. \A i \in 1..kept : i \in DOMAIN calls[g]
    BY <1>3
  <2>2. QED BY <1>16, <2>1 DEF SameServers
<1>23. KeepsServers
  BY <1>5, <1>22, ServersKept DEF Traced
<1>24. QED BY <1>5, <1>21, <1>23 DEF stack

-----------------------------------------------------------------------------
(* Publishing: several spans at once, and the headers of their messages. *)

PublishSpans(op, g, ctx, order) ==
  [i \in DOMAIN order |-> [StartSpan(op, ctx, Enclosing(g)) EXCEPT
     !.trace = IF Valid(ctx) THEN ctx.trace ELSE Len(spans) + i]]

\* Each span is in the trace of the caller, or each in one of its own.
LEMMA PublishSpansOK ==
  ASSUME StoreOK(spans), NEW g, NEW op \in {"publish", "publishes"},
         NEW ctx \in Contexts, Carries(ctx, spans), Enclosing(g) \in Ids \cup {0},
         ctx.id = Enclosing(g) \/ (ctx = NoContext /\ op = "publish"),
         NEW order \in Seq(Messages), Len(spans) + Len(order) <= MaxSpans
  PROVE  /\ PublishSpans(op, g, ctx, order) \in Seq(SpanRecords)
         /\ Len(PublishSpans(op, g, ctx, order)) = Len(order)
         /\ \A i \in DOMAIN order :
              LET span == PublishSpans(op, g, ctx, order)[i] IN
              span.op = op /\ span.state = "open" /\ Joined(span, Len(spans) + i, spans)
<1> DEFINE new == PublishSpans(op, g, ctx, order)
           one == StartSpan(op, ctx, Enclosing(g))
<1>1. /\ Len(spans) \in Nat /\ MaxSpans \in Nat /\ DOMAIN spans = 1..Len(spans)
      /\ Len(order) \in Nat /\ DOMAIN order = 1..Len(order)
  BY LenProperties, TracingAssumption DEF StoreOK
<1>2. ASSUME NEW i \in DOMAIN order
      PROVE  new[i] \in SpanRecords /\ new[i].op = op /\ new[i].state = "open"
             /\ Joined(new[i], Len(spans) + i, spans)
  <2>1. Len(spans) < MaxSpans /\ Len(spans) + i \in Ids
    BY <1>1 DEF Ids, Foreign
  <2>2. new[i] = [one EXCEPT !.trace = IF Valid(ctx) THEN ctx.trace ELSE Len(spans) + i]
    BY DEF PublishSpans
  <2>3. /\ one \in SpanRecords
        /\ Joined(one, Len(spans) + 1, spans)
        /\ one.op = op /\ one.state = "open"
    BY <2>1, StartOK DEF SpanOps
  <2>4. CASE Valid(ctx)
    <3>1. one.trace = ctx.trace /\ one.parent = ctx.id /\ one.parent # 0
      BY <2>4 DEF StartSpan, Valid
    <3> HIDE DEF one
    <3>2. new[i] = one
      BY <2>2, <2>3, <2>4, <3>1 DEF SpanRecords
    <3>3. Joined(one, Len(spans) + i, spans)
      BY <2>3, <3>1 DEF Joined
    <3>4. QED BY <2>3, <3>2, <3>3
  <2>5. CASE ~Valid(ctx)
    <3>1. ctx = NoContext
      <4>1. ASSUME ctx # NoContext, ctx # ForeignContext PROVE FALSE
        <5>1. ctx.id \in DOMAIN spans /\ ctx.trace = spans[ctx.id].trace
          BY <4>1 DEF Carries, RemoteContext
        <5>2. spans[ctx.id] \in SpanRecords
          BY <1>1, <5>1, ElementOfSeq DEF StoreOK
        <5>3. ctx.id # 0 /\ ctx.trace # 0
          BY <1>1, <5>1, <5>2 DEF SpanRecords, Ids
        <5>4. QED BY <2>5, <5>3 DEF Valid
      <4>2. ForeignContext # ctx
        BY <1>1, <2>5 DEF ForeignContext, Foreign, Valid
      <4>3. QED BY <4>1, <4>2
    <3>2. /\ one.parent = 0 /\ one.sampled /\ one.companions = "none"
          /\ one.cause = Enclosing(g)
      BY <3>1 DEF StartSpan, NoContext
    <3> HIDE DEF one
    <3>3. /\ new[i] \in SpanRecords /\ new[i].op = op /\ new[i].state = "open"
          /\ new[i].trace = Len(spans) + i
          /\ new[i].parent = 0 /\ new[i].sampled /\ new[i].companions = "none"
          /\ new[i].cause = Enclosing(g)
      BY <2>1, <2>2, <2>3, <2>5, <3>2 DEF SpanRecords
    <3>4. Enclosing(g) = 0 \/ op = "publish"
      BY <3>1 DEF NoContext
    <3> HIDE DEF new
    <3>5. Joined(new[i], Len(spans) + i, spans)
      BY <3>3, <3>4 DEF Joined
    <3>6. QED BY <3>3, <3>5
  <2>6. QED BY <2>4, <2>5
<1>3. DOMAIN new = DOMAIN order
  BY DEF PublishSpans
<1>4. new = [i \in 1..Len(order) |-> new[i]]
  BY <1>1 DEF PublishSpans
<1> HIDE DEF new
<1>5. new \in [1..Len(order) -> SpanRecords]
  BY <1>1, <1>2, <1>4
<1>6. new \in Seq(SpanRecords) /\ Len(new) = Len(order)
  BY <1>1, <1>5, <1>3
<1>7. QED BY <1>2, <1>6 DEF new

\* A publish, as far as spans and stacks go.
LEMMA PublishKeeps ==
  ASSUME Traced, NEW g \in Goroutines, InFunction(g), NEW op \in {"publish", "publishes"},
         NEW ctx \in Contexts, Carries(ctx, spans),
         ctx = Ambient(g) \/ (ctx = NoContext /\ op = "publish"),
         NEW order \in Seq(Messages), Publish(op, g, ctx, order)
  PROVE  /\ TracedNext
         /\ KeepsServers
         /\ \A i \in DOMAIN order :
              /\ Len(spans) + i \in DOMAIN spans'
              /\ spans'[Len(spans) + i] = PublishSpans(op, g, ctx, order)[i]
              /\ PublishSpans(op, g, ctx, order)[i] \in SpanRecords
<1> DEFINE new == PublishSpans(op, g, ctx, order)
           own == {Len(spans) + i : i \in DOMAIN order}
           ms == ToSet(order)
           frame == Frame(op, own, ctx, "library", ms)
           stack == Append(calls[g], frame)
<1>1. /\ Len(spans) + Len(order) <= MaxSpans
      /\ spans' = spans \o new
      /\ Push(g, frame)
      /\ calls' = [calls EXCEPT ![g] = stack]
  BY DEF Publish, PublishSpans, Push
<1>2. Enclosing(g) = Ambient(g).id /\ Enclosing(g) \in Ids \cup {0}
  BY AmbientOK DEF Traced
<1>3. /\ new \in Seq(SpanRecords)
      /\ Len(new) = Len(order)
      /\ \A i \in DOMAIN order :
           new[i].op = op /\ new[i].state = "open" /\ Joined(new[i], Len(spans) + i, spans)
  BY <1>1, <1>2, PublishSpansOK DEF Traced
<1> HIDE DEF new
<1>4. /\ Len(spans) \in Nat /\ MaxSpans \in Nat /\ DOMAIN spans = 1..Len(spans)
      /\ Len(order) \in Nat /\ DOMAIN order = 1..Len(order) /\ DOMAIN new = DOMAIN order
  BY <1>3, LenProperties, TracingAssumption DEF Traced, StoreOK
<1>5. /\ StoreOK(spans')
      /\ Grows(spans, spans')
      /\ DOMAIN spans' = 1..(Len(spans) + Len(order))
      /\ \A s \in DOMAIN spans : spans'[s] = spans[s]
      /\ \A i \in DOMAIN order : spans'[Len(spans) + i] = new[i]
  <2>1. StoreOK(spans) /\ Len(spans) + Len(new) <= MaxSpans
    BY <1>1, <1>3 DEF Traced
  <2>2. \A i \in DOMAIN new : Joined(new[i], Len(spans) + i, spans)
    BY <1>3, <1>4
  <2>3. /\ StoreOK(spans \o new)
        /\ Grows(spans, spans \o new)
        /\ DOMAIN (spans \o new) = 1..(Len(spans) + Len(new))
        /\ \A s \in DOMAIN spans : (spans \o new)[s] = spans[s]
        /\ \A i \in DOMAIN new : (spans \o new)[Len(spans) + i] = new[i]
    BY <1>3, <2>1, <2>2, ConcatOK
  <2> HIDE DEF own, ms, frame, stack
  <2>4. QED BY <1>1, <1>3, <1>4, <2>3
<1>6. \A i \in DOMAIN order : new[i] \in SpanRecords /\ Len(spans) + i \in DOMAIN spans'
  BY <1>3, <1>4, <1>5, ElementOfSeq
<1>7. own \subseteq 1..MaxSpans
  BY <1>1, <1>4
<1>8. ms \in Refs /\ ms \subseteq Messages
  BY <1>4, ElementOfSeq DEF ToSet, Refs
<1>9. frame.op = op /\ frame.own = own /\ frame.at = "library"
  BY DEF Frame
<1>10. frame \in Frames
  BY <1>7, <1>8 DEF Works, Frame, Frames, FrameRecords, FrameOps, SpanOps, Places, Codes
<1>11. /\ StackOK(calls[g], spans')
       /\ calls[g] = <<>> \/ calls[g][Len(calls[g])].at = "function"
  BY <1>5, CallerOK, StackGrows
<1> HIDE DEF frame
<1>12. \A s \in frame.own : s \in DOMAIN spans' /\ spans'[s].op = frame.op
  BY <1>3, <1>5, <1>6, <1>9
<1>13. StackOK(stack, spans')
  BY <1>9, <1>10, <1>11, <1>12, PushOK DEF Attempts
<1>14. own \subseteq frame.own
  BY <1>9
<1>15. (\A s \in own : Owns(stack, s)) /\ \A s : Owns(calls[g], s) => Owns(stack, s)
  <2>1. calls[g] \in Seq(Frames)
    BY DEF Traced, StacksOK
  <2>2. /\ Len(calls[g]) \in Nat /\ DOMAIN calls[g] = 1..Len(calls[g])
        /\ DOMAIN stack = 1..(Len(calls[g]) + 1)
        /\ stack[Len(calls[g]) + 1] = frame
        /\ \A i \in 1..Len(calls[g]) : stack[i] = calls[g][i]
    BY <1>10, <2>1, AppendProperties, LenProperties
  <2> HIDE DEF own, stack
  <2>3. QED BY <1>14, <2>2 DEF Owns
<1> HIDE DEF stack
<1>16. ASSUME NEW s \in DOMAIN spans'
       PROVE  /\ spans'[s].state = "open" =>
                   \/ Owns(stack, s)
                   \/ s \in DOMAIN spans /\ spans[s].state = "open" /\ ~Owns(calls[g], s)
              /\ spans'[s].state = "leaked" => spans'[s].op \in Leaky
  <2>1. CASE s \in DOMAIN spans
    BY <1>5, <1>15, <2>1 DEF Traced, OpenOnStack, Leaky
  <2>2. CASE s \notin DOMAIN spans
    <3>1. s - Len(spans) \in DOMAIN order /\ s = Len(spans) + (s - Len(spans))
      BY <1>4, <1>5, <2>2
    <3>2. s \in own
      BY <3>1
    <3>3. spans'[s].state = "open"
      BY <1>3, <1>5, <3>1
    <3>4. QED BY <1>15, <3>2, <3>3
  <2>3. QED BY <2>1, <2>2
<1>17. TracedNext
  BY <1>1, <1>5, <1>13, <1>16, StackStep
<1>18. KeepsServers
  BY <1>1, <1>9, <1>10, PushServers DEF Traced, Servers
<1>19. QED BY <1>5, <1>6, <1>17, <1>18 DEF new

\* What inject writes onto the headers of a message: the publish is named there,
\* unless an earlier one is.
LEMMA InjectOK ==
  ASSUME NEW store, StoreOK(store), NEW header \in Contexts, Stamped(header, store),
         NEW s \in DOMAIN store
  PROVE  /\ Inject(header, RemoteContext(s, store[s])) \in Contexts
         /\ Stamped(Inject(header, RemoteContext(s, store[s])), store)
         /\ Inject(header, RemoteContext(s, store[s])).id = IF header.id = 0 THEN s ELSE header.id
<1> DEFINE ctx == RemoteContext(s, store[s])
           new == Inject(header, ctx)
<1>1. \A t \in DOMAIN store : store[t] \in SpanRecords /\ t \in Ids /\ t # 0
  <2>1. Len(store) \in Nat /\ DOMAIN store = 1..Len(store) /\ Len(store) <= MaxSpans /\ MaxSpans \in Nat
    BY LenProperties, TracingAssumption DEF StoreOK
  <2>2. QED BY <2>1, ElementOfSeq DEF StoreOK, Ids, Foreign
<1>2. /\ ctx.id = s /\ ctx.trace = store[s].trace /\ ctx.sampled = store[s].sampled
      /\ ctx.companions = store[s].companions /\ ctx \in Contexts
  BY <1>1 DEF RemoteContext, Contexts, SpanRecords
<1> HIDE DEF ctx
<1>3. CASE header.id \in DOMAIN store
  <2>1. Valid(header)
    BY <1>1, <1>3 DEF Stamped, NoContext, Valid, SpanRecords, Ids
  <2>2. new = [header EXCEPT !.companions =
                 IF header.companions # "none" THEN header.companions ELSE ctx.companions]
    BY <2>1 DEF Inject
  <2>3. /\ new \in Contexts
        /\ new.id = header.id /\ new.trace = header.trace /\ new.sampled = header.sampled
        /\ new.companions = IF header.companions # "none" THEN header.companions ELSE ctx.companions
    BY <1>2, <2>2 DEF Contexts
  <2> HIDE DEF new
  <2>4. /\ header.trace = store[header.id].trace
        /\ header.sampled = store[header.id].sampled
        /\ store[header.id].companions \in {"none", header.companions}
    BY <1>1, <1>3 DEF Stamped, NoContext
  <2>5. Stamped(new, store)
    BY <1>3, <2>3, <2>4 DEF Stamped
  <2>6. QED BY <1>1, <1>3, <2>3, <2>5 DEF new, ctx
<1>4. CASE header = NoContext
  <2>1. new = [ctx EXCEPT !.companions = ctx.companions]
    BY <1>4 DEF Inject, NoContext, Valid
  <2>2. new = ctx
    BY <1>2, <2>1 DEF Contexts
  <2>3. Stamped(ctx, store)
    BY <1>1, <1>2 DEF Stamped
  <2>4. header.id = 0
    BY <1>4 DEF NoContext
  <2>5. QED BY <1>2, <2>2, <2>3, <2>4 DEF ctx
<1>5. QED BY <1>3, <1>4 DEF Stamped

\* The headers of every message still name the publish they come from.
LEMMA PublishStamps ==
  ASSUME Traced, MessagesOK, NEW g \in Goroutines, NEW op, NEW ctx, NEW order \in Seq(Messages),
         StoreOK(spans'), Grows(spans, spans'),
         \A i \in DOMAIN order :
           /\ Len(spans) + i \in DOMAIN spans'
           /\ spans'[Len(spans) + i] = PublishSpans(op, g, ctx, order)[i],
         Publish(op, g, ctx, order)
  PROVE  MessagesOK'
<1> DEFINE place(m) == CHOOSE i \in DOMAIN order : order[i] = m
           span == PublishSpans(op, g, ctx, order)
           ms == ToSet(order)
           one(m) == Inject(headers[m], RemoteContext(Len(spans) + place(m), span[place(m)]))
<1>1. /\ headers' = [m \in Messages |-> IF m \in ms THEN one(m) ELSE headers[m]]
      /\ origin' = [m \in Messages |->
           IF m \in ms /\ origin[m] = 0 THEN Len(spans) + place(m) ELSE origin[m]]
      /\ UNCHANGED topic
  BY DEF Publish, PublishSpans
<1>2. ASSUME NEW m \in ms
      PROVE  place(m) \in DOMAIN order
  BY DEF ToSet
<1>3. /\ headers \in [Messages -> Contexts]
      /\ \A m \in Messages : Stamped(headers[m], spans) /\ origin[m] = headers[m].id
      /\ topic \in Seq([header : Contexts, origin : Ids \cup {0}])
      /\ \A i \in DOMAIN topic : Stamped(topic[i].header, spans) /\ topic[i].origin = topic[i].header.id
  BY DEF MessagesOK
<1>4. ASSUME NEW m \in Messages
      PROVE  headers'[m] \in Contexts /\ Stamped(headers'[m], spans') /\ origin'[m] = headers'[m].id
  <2>1. headers[m] \in Contexts /\ Stamped(headers[m], spans') /\ origin[m] = headers[m].id
    BY <1>3, StampedGrows
  <2>2. CASE m \in ms
    <3>1. /\ headers'[m] = one(m)
          /\ origin'[m] = IF origin[m] = 0 THEN Len(spans) + place(m) ELSE origin[m]
      BY <1>1, <2>2
    <3>2. place(m) \in DOMAIN order
      BY <1>2, <2>2
    <3> HIDE DEF place, span
    <3>3. /\ Len(spans) + place(m) \in DOMAIN spans'
          /\ spans'[Len(spans) + place(m)] = span[place(m)]
      BY <3>2 DEF span
    <3>4. /\ one(m) \in Contexts
          /\ Stamped(one(m), spans')
          /\ one(m).id = IF headers[m].id = 0 THEN Len(spans) + place(m) ELSE headers[m].id
      BY <2>1, <3>3, InjectOK
    <3> HIDE DEF one
    <3>5. QED BY <2>1, <3>1, <3>4
  <2>3. CASE m \notin ms
    BY <1>1, <2>1, <2>3
  <2>4. QED BY <2>2, <2>3
<1>5. headers' = [m \in Messages |-> headers'[m]]
  BY <1>1
<1>6. \A i \in DOMAIN topic : Stamped(topic[i].header, spans')
  BY <1>3, StampedGrows
<1>7. headers' \in [Messages -> Contexts]
  BY <1>4, <1>5
<1>8. QED BY <1>1, <1>3, <1>4, <1>6, <1>7 DEF MessagesOK

-----------------------------------------------------------------------------
(* Statements: an attempt, and the next one. *)

\* One attempt, above the function that asked for it.
LEMMA AttemptKeeps ==
  ASSUME Traced, NEW g \in Goroutines, NEW under, StackOK(under, spans), under # <<>>,
         under[Len(under)].at = "function", Ambient(g) = under[Len(under)].ctx,
         SameServers(under, calls[g]),
         NEW how \in Attempts, NEW offers \in Refs, NEW tries \in Nat,
         NEW store, StoreOK(store), Grows(spans, store), Len(store) = Len(spans),
         \A s \in DOMAIN store :
           /\ store[s].state = "open" =>
                \/ Owns(under, s)
                \/ s \in DOMAIN spans /\ spans[s].state = "open" /\ ~Owns(calls[g], s)
           /\ store[s].state = "leaked" => store[s].op \in Leaky,
         Attempt(g, under, how, offers, tries, store)
  PROVE  TracedNext /\ KeepsServers
<1> DEFINE ctx == Ambient(g)
           op == IF how = "prepared" THEN "stmt" ELSE "exec"
           new == StartSQLSpan(op, ctx, Innermost(under))
           own == {Len(store) + i : i \in DOMAIN new}
           frame == [Frame(op, own, ctx, how, offers) EXCEPT !.tries = tries]
           stack == Append(under, frame)
<1>1. ctx \in Contexts /\ Carries(ctx, spans) /\ Innermost(under) = ctx.id
  BY FunctionContext DEF Traced
<1>2. under \in Seq(Frames) /\ Len(under) \in Nat /\ DOMAIN under = 1..Len(under)
  BY LenProperties DEF StackOK
<1>3. CASE spans' = store /\ calls' = [calls EXCEPT ![g] = under]
  <2>1. StackOK(under, spans')
    BY <1>3, StackGrows
  <2>2. TracedNext
    BY <1>3, <2>1, StackStep
  <2>3. KeepsServers
    BY <1>3, ServersKept DEF Traced
  <2>4. QED BY <2>2, <2>3
<1>4. CASE /\ Len(store) + Len(new) <= MaxSpans
           /\ spans' = store \o new
           /\ calls' = [calls EXCEPT ![g] = stack]
  <2>1. /\ Len(store) \in Nat /\ DOMAIN store = 1..Len(store) /\ MaxSpans \in Nat
        /\ StoreOK(spans)
    BY LenProperties, TracingAssumption DEF Traced, StoreOK
  <2>2. /\ new \in Seq(SpanRecords)
        /\ \A i \in DOMAIN new :
             Joined(new[i], Len(store) + i, store) /\ new[i].op = op /\ new[i].state = "open"
    <3>1. CASE ~Valid(ctx)
      BY <3>1 DEF StartSQLSpan
    <3>2. CASE Valid(ctx)
      <4> DEFINE span == StartSpan(op, ctx, Innermost(under))
      <4>1. new = <<span>>
        BY <3>2 DEF StartSQLSpan
      <4>2. Len(spans) < MaxSpans
        <5>1. Len(<<span>>) = 1
          OBVIOUS
        <5> HIDE DEF new, span
        <5>2. QED BY <1>4, <2>1, <4>1, <5>1
      <4>3. op \in SpanOps /\ Innermost(under) \in Ids \cup {0} /\ ctx.id # 0
        BY <1>1, <3>2 DEF SpanOps, Contexts, Valid
      <4>4. /\ span \in SpanRecords
            /\ Joined(span, Len(store) + 1, spans)
            /\ span.op = op /\ span.state = "open"
        BY <1>1, <2>1, <4>2, <4>3, StartOK
      <4> HIDE DEF span
      <4>5. Joined(span, Len(store) + 1, store)
        BY <4>4, JoinedGrows
      <4>6. new \in Seq(SpanRecords) /\ DOMAIN new = {1} /\ new[1] = span
        <5>1. <<span>> \in Seq(SpanRecords) /\ DOMAIN <<span>> = {1} /\ <<span>>[1] = span
          BY <4>4
        <5> HIDE DEF new
        <5>2. QED BY <4>1, <5>1
      <4>7. QED BY <4>4, <4>5, <4>6
    <3>3. QED BY <3>1, <3>2
  <2>3. how # "library" /\ how # "function" /\ frame.own = own /\ frame.op = op /\ frame.at = how
        /\ frame.ctx = ctx
    BY DEF Frame, Attempts
  <2> HIDE DEF new
  <2>4. Len(new) \in Nat /\ DOMAIN new = 1..Len(new)
    BY <2>2, LenProperties
  <2>5. /\ StoreOK(spans')
        /\ Grows(store, spans')
        /\ DOMAIN spans' = 1..(Len(store) + Len(new))
        /\ \A s \in DOMAIN store : spans'[s] = store[s]
        /\ \A i \in DOMAIN new : spans'[Len(store) + i] = new[i]
    <3>1. /\ \A i \in DOMAIN new : Joined(new[i], Len(store) + i, store)
          /\ Len(store) + Len(new) <= MaxSpans
      BY <1>4, <2>2
    <3> HIDE DEF own, frame, stack, op, ctx
    <3>2. /\ StoreOK(store \o new)
          /\ Grows(store, store \o new)
          /\ DOMAIN (store \o new) = 1..(Len(store) + Len(new))
          /\ \A s \in DOMAIN store : (store \o new)[s] = store[s]
          /\ \A i \in DOMAIN new : (store \o new)[Len(store) + i] = new[i]
      BY <1>4, <2>2, <3>1, ConcatOK
    <3>3. QED BY <1>4, <3>2
  <2>6. Grows(spans, spans')
    BY <2>5 DEF Grows
  <2>7. own \subseteq 1..MaxSpans
    BY <1>4, <2>1, <2>4
  <2>9. frame \in Frames
    BY <1>1, <2>7 DEF Works, Frame, Frames, FrameRecords, FrameOps, SpanOps, Places, Codes, Attempts
  <2>10. \A s \in own : s \in DOMAIN spans' /\ spans'[s].op = op
    BY <2>1, <2>2, <2>4, <2>5
  <2>11. op \in {"exec", "stmt"}
    OBVIOUS
  <2> HIDE DEF frame, own, op
  <2>12. StackOK(under, spans')
    BY <2>6, StackGrows
  <2>13. StackOK(stack, spans')
    BY <2>3, <2>9, <2>10, <2>11, <2>12, PushOK
  <2>14. /\ DOMAIN stack = 1..(Len(under) + 1)
         /\ stack[Len(under) + 1] = frame
         /\ \A i \in 1..Len(under) : stack[i] = under[i]
    BY <1>2, <2>9, AppendProperties, LenProperties
  <2> HIDE DEF stack
  <2>15. (\A s \in own : Owns(stack, s)) /\ \A s : Owns(under, s) => Owns(stack, s)
    BY <1>2, <2>3, <2>14 DEF Owns
  <2>16. ASSUME NEW s \in DOMAIN spans'
         PROVE  /\ spans'[s].state = "open" =>
                     \/ Owns(stack, s)
                     \/ s \in DOMAIN spans /\ spans[s].state = "open" /\ ~Owns(calls[g], s)
                /\ spans'[s].state = "leaked" => spans'[s].op \in Leaky
    <3>1. CASE s \in DOMAIN store
      BY <2>5, <2>15, <3>1
    <3>2. CASE s \notin DOMAIN store
      <4>1. s - Len(store) \in DOMAIN new /\ s = Len(store) + (s - Len(store))
        BY <2>1, <2>4, <2>5, <3>2
      <4>2. s \in own
        BY <4>1 DEF own
      <4>3. spans'[s].state = "open"
        BY <2>2, <2>5, <4>1
      <4>4. QED BY <2>15, <4>2, <4>3
    <3>3. QED BY <3>1, <3>2
  <2>17. TracedNext
    BY <1>4, <2>5, <2>6, <2>13, <2>16, StackStep
  <2>18. SameServers(stack, calls[g])
    <3>1. ASSUME NEW i \in DOMAIN stack PROVE i = Len(under) + 1 \/ i \in DOMAIN under
      BY <1>2, <2>14
    <3>2. frame.op \notin Servers
      BY <2>3, <2>11 DEF Servers
    <3>3. QED BY <1>2, <2>14, <3>1, <3>2 DEF SameServers
  <2>19. KeepsServers
    BY <1>4, <2>18, ServersKept DEF Traced
  <2>20. QED BY <2>17, <2>19
<1>5. QED BY <1>3, <1>4 DEF Attempt

\* The statement that is asked again: its attempt so far is over.
LEMMA AgainKeeps ==
  ASSUME Traced, NEW g \in Goroutines, InStatement(g), NEW state \in {"recorded", "abandoned"},
         NEW how \in Attempts, NEW tries \in Nat,
         Attempt(g, Front(calls[g]), how, Top(g).ref, tries, Marked(Top(g).own, state))
  PROVE  TracedNext /\ KeepsServers
<1> DEFINE under == Front(calls[g])
           store == Marked(Top(g).own, state)
           n == Len(calls[g])
<1>1. ~Idle(g) /\ Top(g).at \in Attempts
  BY DEF InStatement, Attempts
<1>2. /\ n \in Nat \ {0} /\ DOMAIN calls[g] = 1..n
      /\ StackOK(calls[g], spans)
      /\ Top(g) = calls[g][n] /\ Top(g).ref \in Refs
      /\ StackOK(under, spans)
      /\ Len(under) = n - 1
      /\ DOMAIN under = 1..(n - 1)
      /\ \A i \in 1..(n - 1) : under[i] = calls[g][i] /\ calls[g][i].at = "function"
  BY <1>1, FrontOK DEF Frames, FrameRecords
<1> HIDE DEF n, under
<1>3. n > 1 /\ Top(g).ctx = calls[g][n - 1].ctx
  BY <1>1, <1>2 DEF StackOK
<1>4. n - 1 \in 1..(n - 1)
  BY <1>2, <1>3
<1>5. under # <<>> /\ under[Len(under)].at = "function"
  BY <1>2, <1>4, EmptySeq DEF StackOK
<1>6. Ambient(g) = under[Len(under)].ctx
  BY <1>1, <1>2, <1>3, <1>4 DEF Ambient
<1>7. SameServers(under, calls[g])
  <2>1. \A i \in 1..(n - 1) : i \in DOMAIN calls[g]
    BY <1>2
  <2>2. QED BY <1>2, <2>1 DEF SameServers
<1>8. /\ StoreOK(store) /\ Grows(spans, store) /\ Len(store) = Len(spans)
      /\ DOMAIN store = DOMAIN spans
      /\ \A s \in DOMAIN spans :
           /\ store[s].state = "open" => s \notin Top(g).own /\ spans[s].state = "open"
           /\ store[s].state = "leaked" => store[s].op \in Leaky
  BY MarkedOK, MarkedStates DEF Traced, States
<1> HIDE DEF store
<1>9. \A s : Owns(calls[g], s) => Owns(under, s) \/ s \in Top(g).own
  <2>1. \A i \in 1..n : i = n \/ i \in 1..(n - 1)
    BY <1>2
  <2>2. QED BY <1>2, <2>1 DEF Owns
<1>10. \A s \in DOMAIN store :
         /\ store[s].state = "open" =>
              \/ Owns(under, s)
              \/ s \in DOMAIN spans /\ spans[s].state = "open" /\ ~Owns(calls[g], s)
         /\ store[s].state = "leaked" => store[s].op \in Leaky
  BY <1>8, <1>9
<1>11. Attempt(g, under, how, Top(g).ref, tries, store)
  BY DEF under, store
<1>12. QED BY <1>2, <1>5, <1>6, <1>7, <1>8, <1>10, <1>11, AttemptKeeps

-----------------------------------------------------------------------------
(* What travels, and the requests that are served. *)

\* What a step leaves alone stays true of the store that has grown.
LEMMA Unmoved ==
  ASSUME TraceInv, TracedNext
  PROVE  /\ UNCHANGED bound => BoundOK'
         /\ UNCHANGED wire => WireOK'
         /\ UNCHANGED messagingVars => MessagesOK'
<1>1. Grows(spans, spans')
  BY DEF TracedNext
<1>2. /\ \A ctx : Carries(ctx, spans) => Carries(ctx, spans')
      /\ \A ctx : Stamped(ctx, spans) => Stamped(ctx, spans')
  BY <1>1, CarriesGrows, StampedGrows
<1>3. ASSUME UNCHANGED bound PROVE BoundOK'
  BY <1>2, <1>3 DEF TraceInv, BoundOK
<1>4. ASSUME UNCHANGED wire PROVE WireOK'
  BY <1>2, <1>4 DEF TraceInv, WireOK
<1>5. ASSUME UNCHANGED messagingVars PROVE MessagesOK'
  BY <1>2, <1>5 DEF TraceInv, MessagesOK, messagingVars
<1>6. QED BY <1>3, <1>4, <1>5

\* A request that is served is nobody else's business.
LEMMA ServingStep ==
  ASSUME TraceInv, KeepsServers,
         \A h \in Goroutines : \A i \in DOMAIN calls'[h] : \A r \in Requests :
           calls'[h][i].op \in Servers /\ calls'[h][i].ref = {r} /\ wire[r].state = "serving" =>
             /\ wire'[r].state = "serving"
             /\ wire'[r].code = "failed" => wire[r].code = "failed"
  PROVE  ServingOK'
<1>1. ASSUME NEW h \in Goroutines, NEW i \in DOMAIN calls'[h], calls'[h][i].op \in Servers
      PROVE  /\ \E r \in Requests : Serves(calls[h][i], r, wire[r])
             /\ i \in DOMAIN calls[h] /\ calls'[h][i] = calls[h][i]
             /\ \A k \in Goroutines \ {h} : \A j \in DOMAIN calls[k] :
                  calls[k][j].op \in Servers => calls[k][j].ref # calls[h][i].ref
  <2>1. i \in DOMAIN calls[h] /\ calls'[h][i] = calls[h][i]
    BY <1>1 DEF KeepsServers
  <2>2. QED BY <1>1, <2>1 DEF TraceInv, ServingOK, Servers
<1>2. ASSUME NEW h \in Goroutines, NEW i \in DOMAIN calls'[h], calls'[h][i].op \in Servers
      PROVE  \E r \in Requests : Serves(calls'[h][i], r, wire'[r])
  <2>1. PICK r \in Requests : Serves(calls[h][i], r, wire[r])
    BY <1>1, <1>2
  <2>2. calls'[h][i] = calls[h][i]
    BY <1>1, <1>2
  <2>3. calls'[h][i].ref = {r} /\ wire[r].state = "serving"
    BY <2>1, <2>2 DEF Serves
  <2>4. wire'[r].state = "serving" /\ (wire'[r].code = "failed" => wire[r].code = "failed")
    BY <1>2, <2>3
  <2>5. Serves(calls'[h][i], r, wire'[r])
    BY <2>1, <2>2, <2>4 DEF Serves
  <2>6. QED BY <2>5
<1>3. ASSUME NEW h \in Goroutines, NEW i \in DOMAIN calls'[h], calls'[h][i].op \in Servers,
             NEW k \in Goroutines \ {h}, NEW j \in DOMAIN calls'[k], calls'[k][j].op \in Servers
      PROVE  calls'[k][j].ref # calls'[h][i].ref
  <2>1. j \in DOMAIN calls[k] /\ calls'[k][j] = calls[k][j]
    BY <1>1, <1>3
  <2>2. calls'[h][i] = calls[h][i]
    BY <1>1, <1>3
  <2>3. calls[k][j].ref # calls[h][i].ref
    BY <1>1, <1>3, <2>1
  <2>4. QED BY <2>1, <2>2, <2>3
<1>4. QED BY <1>2, <1>3 DEF ServingOK, Servers

\* The parts of the invariant, after a step.
LEMMA Assembled ==
  ASSUME TracedNext, BoundOK', WireOK', MessagesOK', ServingOK'
  PROVE  TraceInv'
BY DEF TracedNext, TraceInv, StoreOK, Joined, RemoteContext

\* A step inside the program.
LEMMA InnerStep ==
  ASSUME TraceInv, TracedNext, KeepsServers, BoundOK', UNCHANGED <<wire, messagingVars>>
  PROVE  TraceInv'
<1>1. WireOK' /\ MessagesOK'
  BY Unmoved
<1>2. ServingOK'
  BY ServingStep
<1>3. QED BY <1>1, <1>2, Assembled

\* A call begins with a span of StartSpan's.
LEMMA StartKeeps ==
  ASSUME Traced, NEW g \in Goroutines, Idle(g) \/ InFunction(g),
         NEW op \in SpanOps, NEW ctx \in Contexts, NEW cause \in Ids \cup {0},
         Carries(ctx, spans) \/ (op = "process" /\ Stamped(ctx, spans)),
         \/ ctx.id = cause
         \/ ctx = NoContext /\ op \in {"open", "publish"},
         op \in {"client", "exec", "stmt"} => ctx.id # 0,
         op = "handler" => Idle(g),
         NEW at \in {"function", "library"}, NEW ref \in Refs, Works(op, ref),
         Begin(g, StartSpan(op, ctx, cause), at, ref)
  PROVE  /\ TracedNext
         /\ op # "handler" => KeepsServers
         /\ Carries(RemoteContext(Len(spans) + 1, StartSpan(op, ctx, cause)), spans')
         /\ RemoteContext(Len(spans) + 1, StartSpan(op, ctx, cause)) \in Contexts
<1> DEFINE span == StartSpan(op, ctx, cause)
           id == Len(spans) + 1
           frame == Frame(span.op, {id}, RemoteContext(id, span), at, ref)
<1>1. Len(spans) < MaxSpans /\ Push(g, frame)
  BY DEF Begin
<1>2. /\ span \in SpanRecords
      /\ Joined(span, id, spans)
      /\ span.op = op /\ span.state = "open"
  BY <1>1, StartOK DEF Traced
<1> HIDE DEF span
<1>3. Begin(g, span, at, ref)
  BY DEF span
<1>4. /\ TracedNext
      /\ Carries(RemoteContext(id, span), spans')
      /\ RemoteContext(id, span) \in Contexts
  BY <1>2, <1>3, BeginKeeps
<1>5. id \in 1..MaxSpans
  BY <1>1, LenProperties, TracingAssumption DEF Traced, StoreOK
<1>6. frame \in Frames /\ frame.op = op
  BY <1>2, <1>4, <1>5 DEF Frame, Frames, FrameRecords, FrameOps, Places, Codes
<1> HIDE DEF frame
<1>7. op # "handler" => KeepsServers
  BY <1>1, <1>6, PushServers DEF Traced, Servers, SpanOps
<1>8. QED BY <1>4, <1>7 DEF span

-----------------------------------------------------------------------------
(* The steps inside a program. *)

Kept == TraceInv' /\ OutcomeTold'

\* A step that ends no span.
LEMMA NothingTold == ended' = {} => OutcomeTold'
BY DEF OutcomeTold

\* A step that ends the spans of one call.
LEMMA OneTold ==
  ASSUME NEW f, NEW status, NEW code, NEW result, ended' = Record(f, status, code, result),
         \/ f.own = {}
         \/ /\ result \in {"error", "failed"} => status = "error" \/ f.op = "open"
            /\ status = "error" /\ result # "panic"
                 => result \in {"error", "failed"} \/ f.op \in {"open", "handler"}
            /\ f.op \in {"aws", "client"} /\ result = "ok" => code = "ok"
  PROVE  OutcomeTold'
BY DEF Record, OutcomeTold

\* Client.Run, Client.File, and the calls of the AWS SDK.
LEMMA CallKept ==
  ASSUME TraceInv, NEW g \in Goroutines, Idle(g) \/ InFunction(g),
         NEW op \in {"run", "file", "aws"}, NEW at \in {"function", "library"},
         Begin(g, StartSpan(op, Ambient(g), Enclosing(g)), at, {}),
         UNCHANGED <<bound, wire, messagingVars>>
  PROVE  Kept
<1>1. Traced
  BY DEF TraceInv, Traced
<1>2. /\ Ambient(g) \in Contexts /\ Carries(Ambient(g), spans)
      /\ Enclosing(g) = Ambient(g).id /\ Ambient(g).id \in Ids \cup {0}
  BY <1>1, AmbientOK DEF Traced
<1>3. op \in SpanOps /\ {} \in Refs /\ Works(op, {}) /\ op \notin {"client", "exec", "stmt", "handler"}
  BY DEF SpanOps, Refs, Works
<1>4. TracedNext /\ KeepsServers
  BY <1>1, <1>2, <1>3, StartKeeps
<1>5. BoundOK'
  BY <1>4, Unmoved
<1>6. TraceInv'
  BY <1>4, <1>5, InnerStep
<1>7. QED BY <1>6, NothingTold DEF Kept, Begin

\* Client.Run runs its function in a span of its own.
LEMMA RunKept ==
  ASSUME TraceInv, NEW g \in Goroutines, Run(g), UNCHANGED <<wire, messagingVars>>
  PROVE  Kept
BY CallKept DEF Run, CanCall

\* Client.File does.
LEMMA FileKept ==
  ASSUME TraceInv, NEW g \in Goroutines, File(g), UNCHANGED <<wire, messagingVars>>
  PROVE  Kept
BY CallKept DEF File, CanCall

\* spanMiddleware does.
LEMMA CallAwsKept ==
  ASSUME TraceInv, NEW g \in Goroutines, CallAws(g), UNCHANGED <<wire, messagingVars>>
  PROVE  Kept
BY CallKept DEF CallAws, CanCall

\* instrumentedFS.Open starts a span of a trace of its own.
LEMMA OpenKept ==
  ASSUME TraceInv, NEW g \in Goroutines, Open(g), UNCHANGED <<wire, messagingVars>>
  PROVE  Kept
<1>1. Traced
  BY DEF TraceInv, Traced
<1>2. /\ InFunction(g) /\ UNCHANGED bound
      /\ Begin(g, StartSpan("open", NoContext, Enclosing(g)), "library", {})
  BY DEF Open, CanCall
<1>3. Enclosing(g) \in Ids \cup {0}
  BY <1>1, <1>2, AmbientOK DEF Traced
<1>4. NoContext \in Contexts /\ Carries(NoContext, spans)
  BY DEF NoContext, Contexts, Companions, Carries
<1>5. "open" \in SpanOps /\ {} \in Refs /\ Works("open", {})
  BY DEF SpanOps, Refs, Works
<1>6. TracedNext /\ KeepsServers
  BY <1>1, <1>2, <1>3, <1>4, <1>5, StartKeeps
<1>7. BoundOK'
  BY <1>2, <1>6, Unmoved
<1>8. TraceInv'
  BY <1>6, <1>7, InnerStep
<1>9. QED BY <1>2, <1>8, NothingTold DEF Kept, Begin

\* What Bind captures is what its caller runs in.
LEMMA BindKept ==
  ASSUME TraceInv, NEW g \in Goroutines, Bind(g), UNCHANGED <<wire, messagingVars>>
  PROVE  Kept
<1>1. Traced
  BY DEF TraceInv, Traced
<1>2. /\ InFunction(g) /\ bound' = {[ctx |-> Ambient(g), cause |-> Enclosing(g)]}
      /\ ended' = {} /\ UNCHANGED <<spans, calls>>
  BY DEF Bind, CanCall
<1>3. /\ Ambient(g) \in Contexts /\ Carries(Ambient(g), spans)
      /\ Enclosing(g) = Ambient(g).id
  BY <1>1, <1>2, AmbientOK DEF Traced
<1>4. StoreOK(spans') /\ Grows(spans, spans')
  BY <1>1, <1>2, SameStore
<1>5. StacksOK' /\ OpenOnStack'
  BY <1>1, <1>2 DEF Traced, StacksOK, OpenOnStack
<1>6. TracedNext /\ KeepsServers
  BY <1>2, <1>4, <1>5 DEF TracedNext, KeepsServers
<1>7. BoundOK'
  BY <1>2, <1>3 DEF BoundOK
<1>8. TraceInv'
  BY <1>6, <1>7, InnerStep
<1>9. QED BY <1>2, <1>8, NothingTold DEF Kept

\* A worker runs a function in what Bind has captured.
LEMMA RunBoundKept ==
  ASSUME TraceInv, NEW g \in Goroutines, RunBound(g), UNCHANGED <<wire, messagingVars>>
  PROVE  Kept
<1>1. Traced
  BY DEF TraceInv, Traced
<1>2. PICK b \in bound : Begin(g, StartSpan("run", b.ctx, b.cause), "function", {})
  BY DEF RunBound
<1>3. b.ctx \in Contexts /\ Carries(b.ctx, spans) /\ b.cause = b.ctx.id
  BY DEF TraceInv, BoundOK
<1>4. b.cause \in Ids \cup {0}
  BY <1>3 DEF Contexts
<1>5. "run" \in SpanOps /\ {} \in Refs /\ Works("run", {})
  BY DEF SpanOps, Refs, Works
<1>6. Idle(g) /\ bound' = {}
  BY DEF RunBound
<1>7. TracedNext /\ KeepsServers
  BY <1>1, <1>2, <1>3, <1>4, <1>5, <1>6, StartKeeps
<1>8. BoundOK'
  BY <1>6 DEF BoundOK
<1>9. TraceInv'
  BY <1>7, <1>8, InnerStep
<1>10. QED BY <1>2, <1>9, NothingTold DEF Kept, Begin

\* A call inside the program ends its spans and returns.
LEMMA EndKept ==
  ASSUME TraceInv, NEW g \in Goroutines, ~Idle(g), NEW status, NEW code, NEW result,
         End(g, status, code, result), UNCHANGED <<bound, wire, messagingVars>>
  PROVE  TraceInv' /\ ended' = Record(Top(g), status, code, result)
<1>1. TracedNext /\ KeepsServers
  BY EndKeeps DEF TraceInv, Traced
<1>2. BoundOK'
  BY <1>1, Unmoved
<1>3. QED BY <1>1, <1>2, InnerStep DEF End

\* The function returns.
LEMMA ReturnKept ==
  ASSUME TraceInv, NEW g \in Goroutines, Return(g), UNCHANGED <<wire, messagingVars>>
  PROVE  Kept
<1>1. PICK result \in {"ok", "error"} : End(g, Status(result), "none", result)
  BY DEF Return
<1>2. ~Idle(g) /\ Top(g).op \in {"run", "file", "process"} /\ UNCHANGED bound
  BY DEF Return, InFunction
<1>3. TraceInv' /\ ended' = Record(Top(g), Status(result), "none", result)
  BY <1>1, <1>2, EndKept
<1>4. OutcomeTold'
  BY <1>2, <1>3, OneTold DEF Status
<1>5. QED BY <1>3, <1>4 DEF Kept

\* An open returns, perhaps with the error of its repetition.
LEMMA OpenReturnsKept ==
  ASSUME TraceInv, NEW g \in Goroutines, OpenReturns(g), UNCHANGED <<wire, messagingVars>>
  PROVE  Kept
<1>1. ~Idle(g) /\ Top(g).op = "open" /\ UNCHANGED bound
  BY DEF OpenReturns, InLibrary
<1>2. PICK status, result :
        /\ End(g, status, "none", result)
        /\ status \in {"ok", "error"} /\ result \in {"ok", "error"}
        /\ result = "error" => status = "error"
  BY DEF OpenReturns
<1>3. TraceInv' /\ ended' = Record(Top(g), status, "none", result)
  BY <1>1, <1>2, EndKept
<1>4. OutcomeTold'
  BY <1>1, <1>2, <1>3, OneTold
<1>5. QED BY <1>3, <1>4 DEF Kept

\* The ways to run a statement are attempts.
LEMMA WaysOK ==
  ASSUME NEW offers
  PROVE  First(offers) \in Attempts /\ Second(offers) \in Attempts
BY DEF First, Second, Attempts

\* The first attempt at a statement.
LEMMA StatementKept ==
  ASSUME TraceInv, NEW g \in Goroutines, Statement(g), UNCHANGED <<wire, messagingVars>>
  PROVE  Kept
<1>1. Traced /\ StoreOK(spans)
  BY DEF TraceInv, Traced
<1>2. InFunction(g) /\ ended' = {} /\ UNCHANGED bound
  BY DEF Statement, CanCall
<1>3. PICK offers \in SUBSET {"context", "legacy"} :
        Attempt(g, calls[g], First(offers), offers, 1, spans)
  BY DEF Statement
<1>4. /\ StackOK(calls[g], spans) /\ calls[g] # <<>>
      /\ calls[g][Len(calls[g])].at = "function"
      /\ calls[g][Len(calls[g])] = Top(g)
  BY <1>1, <1>2, CallerOK DEF InFunction
<1>5. Ambient(g) = calls[g][Len(calls[g])].ctx
  BY <1>4 DEF Ambient, Idle
<1>6. SameServers(calls[g], calls[g]) /\ Grows(spans, spans)
  BY DEF SameServers, Grows
<1>7. \A s \in DOMAIN spans :
        /\ spans[s].state = "open" =>
             \/ Owns(calls[g], s)
             \/ s \in DOMAIN spans /\ spans[s].state = "open" /\ ~Owns(calls[g], s)
        /\ spans[s].state = "leaked" => spans[s].op \in Leaky
  BY <1>1 DEF Traced, OpenOnStack, Leaky
<1>8. offers \in Refs /\ 1 \in Nat /\ First(offers) \in Attempts
  BY WaysOK DEF Refs
<1>9. TracedNext /\ KeepsServers
  BY <1>1, <1>3, <1>4, <1>5, <1>6, <1>7, <1>8, AttemptKeeps
<1>10. BoundOK'
  BY <1>2, <1>9, Unmoved
<1>11. TraceInv'
  BY <1>9, <1>10, InnerStep
<1>12. QED BY <1>2, <1>11, NothingTold DEF Kept

\* A further attempt, in the next way or with another connection.
LEMMA AgainKept ==
  ASSUME TraceInv, NEW g \in Goroutines, InStatement(g), NEW state \in {"recorded", "abandoned"},
         NEW how \in Attempts, NEW tries \in {Top(g).tries, Top(g).tries + 1},
         Attempt(g, Front(calls[g]), how, Top(g).ref, tries, Marked(Top(g).own, state)),
         UNCHANGED <<bound, wire, messagingVars>>
  PROVE  TraceInv'
<1>1. Traced
  BY DEF TraceInv, Traced
<1>2. Top(g) \in Frames
  BY <1>1, FrontOK DEF InStatement
<1>3. tries \in Nat
  BY <1>2 DEF Frames, FrameRecords
<1>4. TracedNext /\ KeepsServers
  BY <1>1, <1>3, AgainKeeps
<1>5. BoundOK'
  BY <1>4, Unmoved
<1>6. QED BY <1>4, <1>5, InnerStep

\* The driver has an answer, or another connection is asked.
LEMMA StatementReturnsKept ==
  ASSUME TraceInv, NEW g \in Goroutines, StatementReturns(g), UNCHANGED <<wire, messagingVars>>
  PROVE  Kept
<1>1. InStatement(g) /\ ~Idle(g) /\ UNCHANGED bound
  BY DEF StatementReturns, InStatement
<1>2. CASE \E result \in {"ok", "error"} : End(g, Status(result), "none", result)
  <2>1. PICK result \in {"ok", "error"} : End(g, Status(result), "none", result)
    BY <1>2
  <2>2. TraceInv' /\ ended' = Record(Top(g), Status(result), "none", result)
    BY <1>1, <2>1, EndKept
  <2>3. Top(g).own = {} \/ Top(g).op \notin {"aws", "client"}
    <3>1. Traced
      BY DEF TraceInv, Traced
    <3>2. /\ Len(calls[g]) \in DOMAIN calls[g] /\ StackOK(calls[g], spans)
          /\ Top(g) = calls[g][Len(calls[g])]
      BY <1>1, <3>1, FrontOK
    <3>3. QED BY <1>1, <3>2 DEF StackOK, InStatement, Attempts
  <2>4. OutcomeTold'
    BY <2>2, <2>3, OneTold DEF Status
  <2>5. QED BY <2>2, <2>4 DEF Kept
<1>3. CASE /\ Retry(g, Marked(Top(g).own, "recorded"))
           /\ ended' = Record(Top(g), "error", "none", "error")
  <2>1. Attempt(g, Front(calls[g]), First(Top(g).ref), Top(g).ref, Top(g).tries + 1,
                Marked(Top(g).own, "recorded"))
    BY <1>3 DEF Retry
  <2>2. First(Top(g).ref) \in Attempts
    BY WaysOK
  <2>3. TraceInv'
    BY <1>1, <2>1, <2>2, AgainKept
  <2>4. OutcomeTold'
    BY <1>3, OneTold
  <2>5. QED BY <2>3, <2>4 DEF Kept
<1>4. QED BY <1>2, <1>3 DEF StatementReturns

\* The driver wants to be asked in another way.
LEMMA StatementSkipsKept ==
  ASSUME TraceInv, NEW g \in Goroutines, StatementSkips(g), UNCHANGED <<wire, messagingVars>>
  PROVE  Kept
<1> DEFINE next == IF Top(g).at = "context" THEN Second(Top(g).ref) ELSE "prepared"
           store == Marked(Top(g).own, "abandoned")
<1>1. InStatement(g) /\ UNCHANGED bound /\ ended' = {}
  BY DEF StatementSkips
<1>2. next \in Attempts /\ First(Top(g).ref) \in Attempts
  BY WaysOK DEF Attempts
<1>3. CASE Attempt(g, Front(calls[g]), next, Top(g).ref, Top(g).tries, store)
  <2>1. TraceInv'
    BY <1>1, <1>2, <1>3, AgainKept
  <2>2. QED BY <1>1, <2>1, NothingTold DEF Kept
<1>4. CASE Retry(g, store)
  <2>1. Attempt(g, Front(calls[g]), First(Top(g).ref), Top(g).ref, Top(g).tries + 1, store)
    BY <1>4 DEF Retry
  <2>2. TraceInv'
    BY <1>1, <1>2, <2>1, AgainKept
  <2>3. QED BY <1>1, <2>2, NothingTold DEF Kept
<1>5. QED BY <1>3, <1>4 DEF StatementSkips

\* An attempt of the AWS SDK: the last code that came is the one that is told.
LEMMA AwsAttemptKept ==
  ASSUME TraceInv, NEW g \in Goroutines, AwsAttempt(g), UNCHANGED <<wire, messagingVars>>
  PROVE  Kept
<1>1. Traced
  BY DEF TraceInv, Traced
<1>2. ~Idle(g) /\ Top(g).op = "aws" /\ UNCHANGED bound
  BY DEF AwsAttempt, InLibrary
<1>3. PICK code \in {"none", "ok", "failed"} :
        LET left == Response(Top(g), code) IN
        \/ code = "ok" /\ End(g, "ok", left, "ok")
        \/ End(g, "error", left, "error")
        \/ /\ Top(g).tries < MaxTries
           /\ Replace(g, [Top(g) EXCEPT !.code = left, !.tries = @ + 1])
           /\ ended' = {}
           /\ UNCHANGED spans
  BY DEF AwsAttempt
<1> DEFINE left == Response(Top(g), code)
<1>4. Top(g) \in Frames
  BY <1>1, <1>2, FrontOK
<1>5. left \in Codes /\ (code = "ok" => left = "ok")
  BY <1>4 DEF Response, Frames, FrameRecords, Codes
<1>6. CASE code = "ok" /\ End(g, "ok", left, "ok")
  <2>1. TraceInv' /\ ended' = Record(Top(g), "ok", left, "ok")
    BY <1>2, <1>6, EndKept
  <2>2. OutcomeTold'
    BY <1>5, <1>6, <2>1, OneTold
  <2>3. QED BY <2>1, <2>2 DEF Kept
<1>7. CASE End(g, "error", left, "error")
  <2>1. TraceInv' /\ ended' = Record(Top(g), "error", left, "error")
    BY <1>2, <1>7, EndKept
  <2>2. OutcomeTold'
    BY <2>1, OneTold
  <2>3. QED BY <2>1, <2>2 DEF Kept
<1>8. CASE /\ Replace(g, [Top(g) EXCEPT !.code = left, !.tries = @ + 1])
           /\ ended' = {}
           /\ UNCHANGED spans
  <2> DEFINE frame == [Top(g) EXCEPT !.code = left, !.tries = @ + 1]
  <2>1. /\ frame \in Frames
        /\ frame.op = Top(g).op /\ frame.own = Top(g).own
        /\ frame.ctx = Top(g).ctx /\ frame.at = Top(g).at
    <3> DEFINE tries == Top(g).tries + 1
               one == [Top(g) EXCEPT !.code = left]
    <3>1. tries \in Nat
      BY <1>4 DEF Frames, FrameRecords
    <3> HIDE DEF left, tries
    <3>2. /\ one \in Frames
          /\ one.op = Top(g).op /\ one.own = Top(g).own
          /\ one.ctx = Top(g).ctx /\ one.at = Top(g).at
      BY <1>4, <1>5 DEF Frames, FrameRecords
    <3>3. [Top(g) EXCEPT !.code = left, !.tries = tries] = [one EXCEPT !.tries = tries]
      OBVIOUS
    <3> HIDE DEF one
    <3>4. /\ [one EXCEPT !.tries = tries] \in Frames
          /\ [one EXCEPT !.tries = tries].op = one.op /\ [one EXCEPT !.tries = tries].own = one.own
          /\ [one EXCEPT !.tries = tries].ctx = one.ctx /\ [one EXCEPT !.tries = tries].at = one.at
      BY <3>1, <3>2 DEF Frames, FrameRecords
    <3>5. frame = [one EXCEPT !.tries = tries]
      BY <3>3 DEF tries
    <3> HIDE DEF frame
    <3>6. QED BY <3>2, <3>4, <3>5
  <2>2. Replace(g, frame)
    BY <1>8
  <2> HIDE DEF frame
  <2>3. TracedNext /\ (frame.op \notin Servers => KeepsServers)
    BY <1>1, <1>2, <1>8, <2>1, <2>2, ReplaceKeeps
  <2>4. KeepsServers
    BY <1>2, <2>1, <2>3 DEF Servers
  <2>5. BoundOK'
    BY <1>2, <2>3, Unmoved
  <2>6. TraceInv'
    BY <2>3, <2>4, <2>5, InnerStep
  <2>7. QED BY <1>8, <2>6, NothingTold DEF Kept
<1>9. QED BY <1>3, <1>6, <1>7, <1>8

\* All of them.
LEMMA InProcessKept ==
  ASSUME TraceInv, NEW g \in Goroutines, InProcess(g), UNCHANGED <<wire, messagingVars>>
  PROVE  Kept
BY RunKept, BindKept, RunBoundKept, FileKept, ReturnKept, OpenKept, OpenReturnsKept, StatementKept,
   StatementReturnsKept, StatementSkipsKept, CallAwsKept, AwsAttemptKept DEF InProcess

-----------------------------------------------------------------------------
(* The steps over HTTP. *)

\* What becomes of a request that is under way.
Edited(new, old) ==
  \/ new = Unused
  \/ /\ new \in Exchanges
     /\ new.header = old.header /\ new.cause = old.cause
     /\ new.state = "sent" => old.state = "sent" /\ new.code = old.code

\* A slot without a request carries nothing.
LEMMA UnusedOK ==
  /\ Unused \in Exchanges
  /\ Unused.state = "unused" /\ Unused.code = "none" /\ Unused.cause = Unused.header.id
  /\ \A store : Carries(Unused.header, store)
BY DEF Unused, Exchanges, NoContext, Contexts, Companions, Codes, Carries

\* Requests under way keep what they carry.
LEMMA WireStep ==
  ASSUME TraceInv, TracedNext, wire' = [r \in Requests |-> wire'[r]],
         \A r \in Requests : Edited(wire'[r], wire[r])
  PROVE  WireOK'
<1>1. Grows(spans, spans')
  BY DEF TracedNext
<1>2. ASSUME NEW r \in Requests
      PROVE  /\ wire'[r] \in Exchanges
             /\ Carries(wire'[r].header, spans')
             /\ wire'[r].cause = wire'[r].header.id
             /\ wire'[r].state = "sent" => wire'[r].code = "none"
  <2>1. CASE wire'[r] = Unused
    BY <2>1, UnusedOK
  <2>2. CASE wire'[r] # Unused
    <3>1. /\ wire'[r] \in Exchanges
          /\ wire'[r].header = wire[r].header /\ wire'[r].cause = wire[r].cause
          /\ wire'[r].state = "sent" => wire[r].state = "sent" /\ wire'[r].code = wire[r].code
      BY <2>2 DEF Edited
    <3>2. /\ Carries(wire[r].header, spans) /\ wire[r].cause = wire[r].header.id
          /\ wire[r].state = "sent" => wire[r].code = "none"
      BY DEF TraceInv, WireOK
    <3>3. Carries(wire[r].header, spans')
      BY <1>1, <3>2, CarriesGrows
    <3>4. QED BY <3>1, <3>2, <3>3
  <2>3. QED BY <2>1, <2>2
<1>3. wire' \in [Requests -> Exchanges]
  BY <1>2
<1>4. QED BY <1>2, <1>3 DEF WireOK

\* A step over HTTP leaves Bind and the messages alone.
LEMMA HttpStep ==
  ASSUME TraceInv, TracedNext, WireOK', ServingOK', UNCHANGED <<bound, messagingVars>>
  PROVE  TraceInv'
BY Unmoved, Assembled

\* Neither spans nor calls change.
LEMMA Quiet ==
  ASSUME TraceInv, UNCHANGED <<spans, calls>>
  PROVE  TracedNext /\ KeepsServers
<1>1. Traced
  BY DEF TraceInv, Traced
<1>2. StoreOK(spans') /\ Grows(spans, spans')
  BY <1>1, SameStore
<1>3. StacksOK' /\ OpenOnStack'
  BY <1>1 DEF Traced, StacksOK, OpenOnStack
<1>4. QED BY <1>2, <1>3 DEF TracedNext, KeepsServers

\* A request is sent: it carries a context that names its sender.
LEMMA SendsOK ==
  ASSUME TraceInv, TracedNext, KeepsServers, NEW r \in Requests, wire[r] = Unused,
         NEW header \in Contexts, Carries(header, spans'), header.id \in Ids \cup {0},
         NEW awaited \in BOOLEAN,
         wire' = [wire EXCEPT ![r] = Sent(header, header.id, awaited)]
  PROVE  WireOK' /\ ServingOK'
<1> DEFINE sent == Sent(header, header.id, awaited)
<1>1. wire \in [Requests -> Exchanges]
  BY DEF TraceInv, WireOK
<1>2. /\ sent \in Exchanges /\ sent.header = header /\ sent.cause = header.id
      /\ sent.state = "sent" /\ sent.code = "none"
  BY DEF Sent, Exchanges, Codes
<1> HIDE DEF sent
<1>3. wire' = [wire EXCEPT ![r] = sent]
  BY DEF sent
<1>4. wire' \in [Requests -> Exchanges] /\ wire'[r] = sent
      /\ \A q \in Requests \ {r} : wire'[q] = wire[q]
  BY <1>1, <1>2, <1>3
<1>5. ASSUME NEW q \in Requests
      PROVE  /\ Carries(wire'[q].header, spans')
             /\ wire'[q].cause = wire'[q].header.id
             /\ wire'[q].state = "sent" => wire'[q].code = "none"
  <2>1. /\ Carries(wire[q].header, spans') /\ wire[q].cause = wire[q].header.id
        /\ wire[q].state = "sent" => wire[q].code = "none"
    BY CarriesGrows DEF TraceInv, WireOK, TracedNext
  <2>2. QED BY <1>2, <1>4, <2>1
<1>6. WireOK'
  BY <1>4, <1>5 DEF WireOK
<1>7. \A q \in Requests : wire[q].state = "serving" => wire'[q] = wire[q]
  BY <1>4, UnusedOK
<1>8. ServingOK'
  BY <1>7, ServingStep
<1>9. QED BY <1>6, <1>8

\* A request of a program that is not modelled.
LEMMA ArriveKept ==
  ASSUME TraceInv, Arrive, UNCHANGED messagingVars
  PROVE  Kept
<1>1. PICK r \in Requests, header \in {NoContext, ForeignContext} :
        wire[r] = Unused /\ wire' = [wire EXCEPT ![r] = Sent(header, header.id, FALSE)]
  BY DEF Arrive
<1>2. UNCHANGED <<spans, calls, bound>> /\ ended' = {}
  BY DEF Arrive
<1>3. TracedNext /\ KeepsServers
  BY <1>2, Quiet
<1>4. header \in Contexts /\ Carries(header, spans') /\ header.id \in Ids \cup {0}
  <2>1. Foreign \in Ids
    BY TracingAssumption DEF Foreign, Ids
  <2>2. CASE header = NoContext
    BY <2>2 DEF NoContext, Contexts, Companions, Carries
  <2>3. CASE header = ForeignContext
    BY <2>1, <2>3 DEF ForeignContext, Contexts, Companions, Carries
  <2>4. QED BY <2>2, <2>3
<1>5. WireOK' /\ ServingOK'
  BY <1>1, <1>3, <1>4, SendsOK
<1>6. TraceInv'
  BY <1>2, <1>3, <1>5, HttpStep
<1>7. QED BY <1>2, <1>6, NothingTold DEF Kept

\* A request that nobody waits for is lost.
LEMMA LostKept ==
  ASSUME TraceInv, Lost, UNCHANGED messagingVars
  PROVE  Kept
<1>1. PICK r \in Requests : wire[r].state = "sent" /\ wire' = [wire EXCEPT ![r] = Unused]
  BY DEF Lost
<1>2. UNCHANGED <<spans, calls, bound>> /\ ended' = {}
  BY DEF Lost
<1>3. TracedNext /\ KeepsServers
  BY <1>2, Quiet
<1>4. wire \in [Requests -> Exchanges]
  BY DEF TraceInv, WireOK
<1>5. wire' \in [Requests -> Exchanges] /\ wire'[r] = Unused
      /\ \A q \in Requests \ {r} : wire'[q] = wire[q]
  BY <1>1, <1>4, UnusedOK
<1>6. \A q \in Requests : Edited(wire'[q], wire[q])
  BY <1>4, <1>5 DEF Edited
<1>7. WireOK'
  BY <1>3, <1>5, <1>6, WireStep
<1>8. ServingOK'
  BY <1>1, <1>3, <1>5, ServingStep
<1>9. TraceInv'
  BY <1>2, <1>3, <1>7, <1>8, HttpStep
<1>10. QED BY <1>2, <1>9, NothingTold DEF Kept

\* A context that is not valid is nobody's.
LEMMA InvalidIsNone ==
  ASSUME NEW store, StoreOK(store), NEW ctx, Carries(ctx, store), ~Valid(ctx)
  PROVE  ctx = NoContext
<1>1. Len(store) \in Nat /\ MaxSpans \in Nat /\ DOMAIN store = 1..Len(store)
  BY LenProperties, TracingAssumption DEF StoreOK
<1>2. ForeignContext # ctx
  BY <1>1 DEF ForeignContext, Foreign, Valid
<1>3. ASSUME ctx.id \in DOMAIN store, ctx = RemoteContext(ctx.id, store[ctx.id]) PROVE FALSE
  <2>1. store[ctx.id] \in SpanRecords /\ ctx.trace = store[ctx.id].trace
    BY <1>1, <1>3, ElementOfSeq DEF StoreOK, RemoteContext
  <2>2. ctx.id # 0 /\ ctx.trace # 0
    BY <1>1, <1>3, <2>1 DEF SpanRecords, Ids
  <2>3. QED BY <2>2 DEF Valid
<1>4. QED BY <1>2, <1>3 DEF Carries

\* A request carries the span of its client, or nothing where nothing is traced.
LEMMA RoundTripKept ==
  ASSUME TraceInv, NEW g \in Goroutines, RoundTrip(g), UNCHANGED messagingVars
  PROVE  Kept
<1> DEFINE ctx == Ambient(g)
           span == StartSpan("client", ctx, Enclosing(g))
           id == Len(spans) + 1
<1>1. InFunction(g) /\ UNCHANGED bound
  BY DEF RoundTrip, CanCall
<1>2. PICK r \in Requests :
        /\ wire[r] = Unused
        /\ IF Valid(ctx)
             THEN /\ Begin(g, span, "library", {r})
                  /\ wire' = [wire EXCEPT ![r] = Sent(RemoteContext(id, span), id, TRUE)]
             ELSE /\ Push(g, Frame("client", {}, ctx, "library", {r}))
                  /\ wire' = [wire EXCEPT ![r] = Sent(NoContext, Enclosing(g), TRUE)]
                  /\ ended' = {}
                  /\ UNCHANGED spans
  BY DEF RoundTrip
<1>3. Traced
  BY DEF TraceInv, Traced
<1>4. ctx \in Contexts /\ Carries(ctx, spans) /\ Enclosing(g) = ctx.id /\ ctx.id \in Ids \cup {0}
  BY <1>1, <1>3, AmbientOK DEF Traced
<1>5. {r} \in Refs /\ Works("client", {r}) /\ "client" \in SpanOps
  BY DEF Refs, Works, SpanOps
<1>6. \E header \in Contexts :
        /\ TracedNext /\ KeepsServers /\ ended' = {}
        /\ Carries(header, spans') /\ header.id \in Ids \cup {0}
        /\ wire' = [wire EXCEPT ![r] = Sent(header, header.id, TRUE)]
  <2>1. CASE Valid(ctx)
    <3>1. Begin(g, span, "library", {r}) /\ ctx.id # 0
      BY <1>2, <2>1 DEF Valid
    <3>2. /\ TracedNext /\ KeepsServers
          /\ Carries(RemoteContext(id, span), spans') /\ RemoteContext(id, span) \in Contexts
      BY <1>1, <1>3, <1>4, <1>5, <3>1, StartKeeps
    <3>3. RemoteContext(id, span).id = id
      BY DEF RemoteContext
    <3>4. id \in Ids
      BY <3>1, <1>3, LenProperties, TracingAssumption DEF Begin, Ids, Foreign, Traced, StoreOK
    <3>5. ended' = {}
      BY <3>1 DEF Begin
    <3>6. wire' = [wire EXCEPT ![r] = Sent(RemoteContext(id, span), id, TRUE)]
      BY <1>2, <2>1
    <3> HIDE DEF span, id
    <3>7. QED BY <3>2, <3>3, <3>4, <3>5, <3>6
  <2>2. CASE ~Valid(ctx)
    <3> DEFINE frame == Frame("client", {}, ctx, "library", {r})
    <3>1. ctx = NoContext /\ ctx.id = 0
      BY <1>3, <1>4, <2>2, InvalidIsNone DEF Traced, NoContext
    <3>2. /\ frame \in Frames /\ frame.own = {} /\ frame.at = "library" /\ frame.op \notin Servers
      BY <1>4, <1>5
         DEF Frame, Frames, FrameRecords, Works, FrameOps, SpanOps, Places, Codes, Servers
    <3>3. Push(g, frame) /\ UNCHANGED spans
      BY <1>2, <2>2
    <3> HIDE DEF frame
    <3>4. TracedNext /\ KeepsServers
      BY <1>1, <1>3, <3>2, <3>3, PushKeeps, PushServers DEF Traced
    <3>5. Carries(ctx, spans')
      BY <3>1 DEF Carries
    <3>6. wire' = [wire EXCEPT ![r] = Sent(ctx, ctx.id, TRUE)] /\ ended' = {}
      BY <1>2, <1>4, <2>2, <3>1
    <3> HIDE DEF ctx
    <3>7. QED BY <1>4, <3>4, <3>5, <3>6
  <2>3. QED BY <2>1, <2>2
<1>7. PICK header \in Contexts :
        /\ TracedNext /\ KeepsServers /\ ended' = {}
        /\ Carries(header, spans') /\ header.id \in Ids \cup {0}
        /\ wire' = [wire EXCEPT ![r] = Sent(header, header.id, TRUE)]
  BY <1>6
<1>8. WireOK' /\ ServingOK'
  BY <1>2, <1>7, SendsOK
<1>9. TraceInv'
  BY <1>1, <1>7, <1>8, HttpStep
<1>10. QED BY <1>7, <1>9, NothingTold DEF Kept

\* What an answer can say.
LEMMA CodeOK ==
  ASSUME TraceInv, NEW r \in Requests
  PROVE  /\ wire \in [Requests -> Exchanges]
         /\ wire[r] \in Exchanges /\ wire[r].code \in Codes
BY DEF TraceInv, WireOK, Exchanges

\* A call of the transport has a request.
LEMMA ClientOK ==
  ASSUME TraceInv, NEW g \in Goroutines, InLibrary(g, {"client"})
  PROVE  ~Idle(g) /\ Top(g).op = "client" /\ Top(g).ref \subseteq Requests
<1>1. ~Idle(g) /\ Top(g).op = "client"
  BY DEF InLibrary
<1>2. Top(g) \in Frames
  BY <1>1, FrontOK DEF TraceInv, Traced
<1>3. QED BY <1>1, <1>2 DEF Frames, Works

\* RoundTrip returns with the answer: the status that the server has sent.
LEMMA AnsweredKept ==
  ASSUME TraceInv, NEW g \in Goroutines, Answered(g), UNCHANGED messagingVars
  PROVE  Kept
<1>1. ~Idle(g) /\ Top(g).op = "client" /\ Top(g).ref \subseteq Requests /\ UNCHANGED bound
  BY ClientOK DEF Answered
<1>2. PICK r \in Top(g).ref :
        /\ wire[r].state = "answered"
        /\ End(g, CodeStatus(wire[r].code), wire[r].code, wire[r].code)
        /\ wire' = [wire EXCEPT ![r] = Unused]
  BY DEF Answered
<1>3. TracedNext /\ KeepsServers
  BY <1>1, <1>2, EndKeeps DEF TraceInv, Traced
<1>4. r \in Requests /\ wire \in [Requests -> Exchanges] /\ wire[r].code \in Codes
  BY <1>1, CodeOK
<1>5. wire' \in [Requests -> Exchanges] /\ wire'[r] = Unused
      /\ \A q \in Requests \ {r} : wire'[q] = wire[q]
  BY <1>2, <1>4, UnusedOK
<1>6. \A q \in Requests : Edited(wire'[q], wire[q])
  BY <1>4, <1>5 DEF Edited
<1>7. WireOK'
  BY <1>3, <1>5, <1>6, WireStep
<1>8. ServingOK'
  BY <1>2, <1>3, <1>5, ServingStep
<1>9. TraceInv'
  BY <1>1, <1>3, <1>7, <1>8, HttpStep
<1>10. ended' = Record(Top(g), CodeStatus(wire[r].code), wire[r].code, wire[r].code)
  BY <1>2 DEF End
<1>11. OutcomeTold'
  BY <1>4, <1>10, OneTold DEF CodeStatus, Codes
<1>12. QED BY <1>9, <1>11 DEF Kept

\* Whoever serves a forsaken request goes on serving it.
LEMMA ForsakenOK ==
  ASSUME NEW request \in Exchanges
  PROVE  /\ Edited(Forsaken(request), request)
         /\ request.state = "serving" =>
              Forsaken(request).state = "serving" /\ Forsaken(request).code = request.code
<1>1. CASE request.state \in {"sent", "serving"}
  <2>1. Forsaken(request) = [request EXCEPT !.awaited = FALSE]
    BY <1>1 DEF Forsaken
  <2>2. QED BY <2>1 DEF Exchanges, Edited
<1>2. CASE request.state \notin {"sent", "serving"}
  BY <1>2 DEF Forsaken, Edited
<1>3. QED BY <1>1, <1>2

\* RoundTrip returns without one.
LEMMA GivesUpKept ==
  ASSUME TraceInv, NEW g \in Goroutines, GivesUp(g), UNCHANGED messagingVars
  PROVE  Kept
<1>1. ~Idle(g) /\ UNCHANGED bound
  BY DEF GivesUp, InLibrary
<1>2. /\ End(g, "error", "none", "error")
      /\ wire' = [r \in Requests |-> IF r \in Top(g).ref THEN Forsaken(wire[r]) ELSE wire[r]]
  BY DEF GivesUp
<1>3. TracedNext /\ KeepsServers
  BY <1>1, <1>2, EndKeeps DEF TraceInv, Traced
<1>4. \A r \in Requests : wire[r] \in Exchanges
  BY CodeOK
<1>5. \A r \in Requests : wire'[r] = wire[r] \/ wire'[r] = Forsaken(wire[r])
  BY <1>2
<1>6. \A r \in Requests : Edited(wire[r], wire[r])
  BY <1>4 DEF Edited
<1>7. \A r \in Requests : Edited(wire'[r], wire[r])
  BY <1>4, <1>5, <1>6, ForsakenOK
<1>8. wire' = [r \in Requests |-> wire'[r]]
  BY <1>2
<1>9. WireOK'
  BY <1>3, <1>7, <1>8, WireStep
<1>10. ServingOK'
  BY <1>3, <1>4, <1>5, ServingStep, ForsakenOK
<1>11. TraceInv'
  BY <1>1, <1>3, <1>9, <1>10, HttpStep
<1>12. ended' = Record(Top(g), "error", "none", "error")
  BY <1>2 DEF End
<1>13. OutcomeTold'
  BY <1>12, OneTold
<1>14. QED BY <1>11, <1>13 DEF Kept

\* Handler's span is what StartSpan would have made of the header.
LEMMA AdoptOK ==
  ASSUME StoreOK(spans), NEW header \in Contexts, Carries(header, spans), NEW cause
  PROVE  Adopt(StartSpan("handler", NoContext, cause), header) = StartSpan("handler", header, cause)
<1>1. CASE Valid(header)
  BY <1>1 DEF Adopt, StartSpan, NoContext, Valid
<1>2. CASE ~Valid(header)
  <2>1. header = NoContext
    BY <1>2, InvalidIsNone
  <2>2. QED BY <1>2, <2>1 DEF Adopt
<1>3. QED BY <1>1, <1>2

\* A request is handed to one goroutine.
LEMMA HandleServes ==
  ASSUME TraceInv, NEW g \in Goroutines, Idle(g), NEW r \in Requests, wire[r].state = "sent",
         wire' = [wire EXCEPT ![r].state = "serving"],
         NEW frame \in Frames, frame.ref = {r}, frame.op \in Servers, Push(g, frame)
  PROVE  ServingOK' /\ \A q \in Requests : Edited(wire'[q], wire[q])
<1>1. wire \in [Requests -> Exchanges] /\ wire[r].code = "none"
  BY DEF TraceInv, WireOK
<1>2. /\ wire'[r] \in Exchanges /\ wire'[r].state = "serving" /\ wire'[r].code = "none"
      /\ wire'[r].header = wire[r].header /\ wire'[r].cause = wire[r].cause
      /\ \A q \in Requests \ {r} : wire'[q] = wire[q]
  BY <1>1 DEF Exchanges
<1>3. \A q \in Requests : Edited(wire'[q], wire[q])
  BY <1>1, <1>2 DEF Edited
<1>4. calls' = [calls EXCEPT ![g] = Append(<<>>, frame)]
  BY DEF Push, Idle
<1>5. DOMAIN Append(<<>>, frame) = {1} /\ Append(<<>>, frame)[1] = frame
  OBVIOUS
<1>6. /\ DOMAIN calls'[g] = {1} /\ calls'[g][1] = frame
      /\ \A h \in Goroutines \ {g} : calls'[h] = calls[h]
  BY <1>4, <1>5 DEF TraceInv, StacksOK
<1>7. ASSUME NEW h \in Goroutines \ {g}, NEW i \in DOMAIN calls[h], calls[h][i].op \in Servers
      PROVE  \E q \in Requests \ {r} : Serves(calls[h][i], q, wire'[q])
  <2>1. PICK q \in Requests : Serves(calls[h][i], q, wire[q])
    BY <1>7 DEF TraceInv, ServingOK, Servers
  <2>2. q # r
    BY <2>1 DEF Serves
  <2>3. QED BY <1>2, <2>1, <2>2
<1>8. Serves(frame, r, wire'[r])
  BY <1>2 DEF Serves
<1>9. ASSUME NEW h \in Goroutines, NEW i \in DOMAIN calls'[h], calls'[h][i].op \in Servers
      PROVE  /\ \E q \in Requests : Serves(calls'[h][i], q, wire'[q])
             /\ \A k \in Goroutines \ {h} : \A j \in DOMAIN calls'[k] :
                  calls'[k][j].op \in Servers => calls'[k][j].ref # calls'[h][i].ref
  <2>1. CASE h = g
    <3>1. calls'[h][i] = frame
      BY <1>6, <2>1
    <3>2. ASSUME NEW k \in Goroutines \ {h}, NEW j \in DOMAIN calls'[k], calls'[k][j].op \in Servers
          PROVE  calls'[k][j].ref # {r}
      <4>1. calls'[k] = calls[k]
        BY <1>6, <2>1
      <4>2. PICK q \in Requests \ {r} : Serves(calls[k][j], q, wire'[q])
        BY <1>7, <2>1, <3>2, <4>1
      <4>3. calls[k][j].ref = {q} /\ q # r
        BY <4>2 DEF Serves
      <4>4. QED BY <4>1, <4>3
    <3>3. QED BY <1>8, <3>1, <3>2
  <2>2. CASE h # g
    <3>1. calls'[h] = calls[h]
      BY <1>6, <2>2
    <3>2. PICK q \in Requests \ {r} : Serves(calls[h][i], q, wire'[q])
      BY <1>7, <1>9, <2>2, <3>1
    <3>3. ASSUME NEW k \in Goroutines \ {h}, NEW j \in DOMAIN calls'[k], calls'[k][j].op \in Servers
          PROVE  calls'[k][j].ref # calls'[h][i].ref
      <4>1. CASE k = g
        <5>1. calls'[k][j].ref = {r}
          BY <1>6, <4>1
        <5>2. calls[h][i].ref = {q} /\ q # r
          BY <3>2 DEF Serves
        <5>3. QED BY <3>1, <5>1, <5>2
      <4>2. CASE k # g
        <5>1. calls'[k] = calls[k]
          BY <1>6, <4>2
        <5>2. QED BY <1>9, <3>1, <3>3, <5>1 DEF TraceInv, ServingOK, Servers
      <4>3. QED BY <4>1, <4>2
    <3>4. QED BY <3>1, <3>2, <3>3
  <2>3. QED BY <2>1, <2>2
<1>10. ServingOK'
  BY <1>9 DEF ServingOK, Servers
<1>11. QED BY <1>3, <1>10

\* Handler begins, with a span or on a path that is skipped.
LEMMA HandleKept ==
  ASSUME TraceInv, NEW g \in Goroutines, Handle(g), UNCHANGED messagingVars
  PROVE  Kept
<1>1. Idle(g) /\ UNCHANGED bound /\ Traced
  BY DEF Handle, TraceInv, Traced
<1>2. PICK r \in Requests :
        /\ wire[r].state = "sent"
        /\ wire' = [wire EXCEPT ![r].state = "serving"]
        /\ Skip(g, r) \/ Serve(g, r)
  BY DEF Handle
<1>3. {r} \in Refs /\ Works("handler", {r}) /\ Works("skipped", {r})
  BY DEF Refs, Works
<1>4. NoContext \in Contexts
  BY DEF NoContext, Contexts, Companions
<1>5. wire' = [q \in Requests |-> wire'[q]]
  BY <1>2, CodeOK
<1>6. CASE Skip(g, r)
  <2> DEFINE frame == Frame("skipped", {}, NoContext, "function", {r})
  <2>1. /\ frame \in Frames /\ frame.own = {} /\ frame.at = "function" /\ frame.ctx = NoContext
        /\ frame.op \in Servers /\ frame.ref = {r}
    BY <1>3, <1>4 DEF Frame, Frames, FrameRecords, FrameOps, Places, Codes, Servers
  <2>2. Push(g, frame) /\ UNCHANGED spans /\ ended' = {}
    BY <1>6 DEF Skip
  <2> HIDE DEF frame
  <2>3. TracedNext
    BY <1>1, <2>1, <2>2, PushKeeps
  <2>4. ServingOK' /\ \A q \in Requests : Edited(wire'[q], wire[q])
    BY <1>1, <1>2, <2>1, <2>2, HandleServes
  <2>5. WireOK'
    BY <1>5, <2>3, <2>4, WireStep
  <2>6. TraceInv'
    BY <1>1, <2>3, <2>4, <2>5, HttpStep
  <2>7. QED BY <2>2, <2>6, NothingTold DEF Kept
<1>7. CASE Serve(g, r)
  <2> DEFINE header == wire[r].header
             cause == wire[r].cause
             span == StartSpan("handler", header, cause)
             id == Len(spans) + 1
             frame == Frame(span.op, {id}, RemoteContext(id, span), "function", {r})
  <2>1. /\ header \in Contexts /\ Carries(header, spans) /\ cause = header.id
        /\ cause \in Ids \cup {0}
    BY CodeOK DEF TraceInv, WireOK, Exchanges
  <2>2. Begin(g, span, "function", {r})
    BY <1>1, <1>7, <2>1, AdoptOK DEF Serve, Traced
  <2>3. "handler" \in SpanOps
    BY DEF SpanOps
  <2>4. TracedNext /\ RemoteContext(id, span) \in Contexts
    BY <1>1, <1>3, <2>1, <2>2, <2>3, StartKeeps
  <2>5. Push(g, frame) /\ Len(spans) < MaxSpans /\ ended' = {}
    BY <2>2 DEF Begin
  <2>6. id \in 1..MaxSpans
    BY <1>1, <2>5, LenProperties, TracingAssumption DEF Traced, StoreOK
  <2>7. span.op = "handler"
    BY DEF StartSpan
  <2> HIDE DEF span, id
  <2>8. frame \in Frames /\ frame.ref = {r} /\ frame.op \in Servers
    BY <1>3, <2>3, <2>4, <2>6, <2>7
       DEF Frame, Frames, FrameRecords, FrameOps, Places, Codes, Servers
  <2> HIDE DEF frame
  <2>9. ServingOK' /\ \A q \in Requests : Edited(wire'[q], wire[q])
    BY <1>1, <1>2, <2>5, <2>8, HandleServes
  <2>10. WireOK'
    BY <1>5, <2>4, <2>9, WireStep
  <2>11. TraceInv'
    BY <1>1, <2>4, <2>9, <2>10, HttpStep
  <2>12. QED BY <2>5, <2>11, NothingTold DEF Kept
<1>8. QED BY <1>2, <1>6, <1>7

\* A goroutine that serves a request serves nothing else, and nobody else does.
LEMMA ServerOK ==
  ASSUME TraceInv, NEW g \in Goroutines, ~Idle(g), Top(g).op \in Servers
  PROVE  /\ Len(calls[g]) = 1 /\ DOMAIN calls[g] = {1} /\ Top(g) = calls[g][1] /\ Top(g) \in Frames
         /\ \E r \in Requests : Top(g).ref = {r} /\ Serves(Top(g), r, wire[r])
         /\ \A h \in Goroutines \ {g} : \A j \in DOMAIN calls[h] :
              calls[h][j].op \in Servers => calls[h][j].ref # Top(g).ref
<1>1. /\ Len(calls[g]) \in Nat \ {0} /\ DOMAIN calls[g] = 1..Len(calls[g])
      /\ StackOK(calls[g], spans)
      /\ Top(g) = calls[g][Len(calls[g])] /\ Top(g) \in Frames
  BY FrontOK DEF TraceInv, Traced
<1>2. Len(calls[g]) \in DOMAIN calls[g]
  BY <1>1
<1>3. Len(calls[g]) = 1
  BY <1>1, <1>2 DEF StackOK, Servers
<1>4. /\ \E r \in Requests : Serves(Top(g), r, wire[r])
      /\ \A h \in Goroutines \ {g} : \A j \in DOMAIN calls[h] :
           calls[h][j].op \in Servers => calls[h][j].ref # Top(g).ref
  BY <1>1, <1>2 DEF TraceInv, ServingOK, Servers
<1>5. QED BY <1>1, <1>3, <1>4 DEF Serves

\* The first code counts, for the recorder and for net/http.
LEMMA WriteHeaderKept ==
  ASSUME TraceInv, NEW g \in Goroutines, WriteHeader(g), UNCHANGED messagingVars
  PROVE  Kept
<1>1. /\ ~Idle(g) /\ Top(g).op = "handler" /\ Top(g).code = "none"
      /\ ended' = {} /\ UNCHANGED <<spans, bound>>
  BY DEF WriteHeader, Answers, InFunction
<1>2. PICK code \in {"interim", "ok", "failed"}, r \in Top(g).ref :
        /\ Replace(g, [Top(g) EXCEPT !.code = code])
        /\ wire' = [wire EXCEPT ![r].code = Sends(wire[r], code)]
  BY DEF WriteHeader
<1> DEFINE frame == [Top(g) EXCEPT !.code = code]
<1>3. /\ Len(calls[g]) = 1 /\ DOMAIN calls[g] = {1} /\ Top(g) = calls[g][1] /\ Top(g) \in Frames
      /\ \E q \in Requests : Top(g).ref = {q} /\ Serves(Top(g), q, wire[q])
      /\ \A h \in Goroutines \ {g} : \A j \in DOMAIN calls[h] :
           calls[h][j].op \in Servers => calls[h][j].ref # Top(g).ref
  BY <1>1, ServerOK DEF Servers
<1>4. r \in Requests /\ Top(g).ref = {r} /\ Serves(Top(g), r, wire[r])
  BY <1>2, <1>3
<1>5. wire \in [Requests -> Exchanges] /\ wire[r] \in Exchanges /\ wire[r].code \in Codes
  BY <1>4, CodeOK
<1>6. Sends(wire[r], code) \in Codes
  BY <1>5 DEF Sends, Codes
<1>7. /\ wire'[r] \in Exchanges /\ wire'[r].state = wire[r].state
      /\ wire'[r].code = Sends(wire[r], code)
      /\ wire'[r].header = wire[r].header /\ wire'[r].cause = wire[r].cause
      /\ \A q \in Requests \ {r} : wire'[q] = wire[q]
      /\ wire' = [q \in Requests |-> wire'[q]]
  BY <1>2, <1>4, <1>5, <1>6 DEF Exchanges
<1>8. /\ frame \in Frames
      /\ frame.op = Top(g).op /\ frame.own = Top(g).own
      /\ frame.ctx = Top(g).ctx /\ frame.at = Top(g).at
      /\ frame.ref = Top(g).ref /\ frame.code = code
  BY <1>3 DEF Frames, FrameRecords, Codes
<1>9. Replace(g, frame)
  BY <1>2
<1> HIDE DEF frame
<1>10. /\ TracedNext
       /\ \A h \in Goroutines \ {g} : calls'[h] = calls[h]
       /\ DOMAIN calls'[g] = {1} /\ calls'[g][1] = frame
  <2>1. Traced
    BY DEF TraceInv, Traced
  <2>2. /\ TracedNext
        /\ \A h \in Goroutines \ {g} : calls'[h] = calls[h]
        /\ DOMAIN calls'[g] = DOMAIN calls[g]
        /\ \A i \in DOMAIN calls[g] :
             calls'[g][i] = IF i = Len(calls[g]) THEN frame ELSE calls[g][i]
    BY <1>1, <1>8, <1>9, <2>1, ReplaceKeeps
  <2>3. QED BY <1>3, <2>2
<1>11. wire[r].state = "serving"
  BY <1>4 DEF Serves
<1>12. \A q \in Requests : Edited(wire'[q], wire[q])
  BY <1>5, <1>7, <1>11 DEF Edited
<1>13. WireOK'
  BY <1>7, <1>10, <1>12, WireStep
<1>14. Serves(frame, r, wire'[r])
  <2>1. wire'[r].code = "failed" => frame.code = "failed"
    BY <1>1, <1>4, <1>7, <1>8 DEF Serves, Sends
  <2>2. QED BY <1>4, <1>7, <1>8, <1>11, <2>1 DEF Serves
<1>15. ASSUME NEW h \in Goroutines \ {g}, NEW j \in DOMAIN calls[h], calls[h][j].op \in Servers
       PROVE  calls[h][j].ref # {r} /\ \E q \in Requests : Serves(calls[h][j], q, wire'[q])
  <2>1. calls[h][j].ref # {r}
    BY <1>3, <1>4, <1>15
  <2>2. PICK q \in Requests : Serves(calls[h][j], q, wire[q])
    BY <1>15 DEF TraceInv, ServingOK, Servers
  <2>3. q # r
    BY <2>1, <2>2 DEF Serves
  <2>4. QED BY <1>7, <2>1, <2>2, <2>3
<1>16. ASSUME NEW h \in Goroutines, NEW i \in DOMAIN calls'[h], calls'[h][i].op \in Servers
       PROVE  /\ \E q \in Requests : Serves(calls'[h][i], q, wire'[q])
              /\ \A k \in Goroutines \ {h} : \A j \in DOMAIN calls'[k] :
                   calls'[k][j].op \in Servers => calls'[k][j].ref # calls'[h][i].ref
  <2>1. CASE h = g
    <3>1. calls'[h][i] = frame /\ frame.ref = {r}
      BY <1>4, <1>8, <1>10, <2>1
    <3>2. QED BY <1>4, <1>10, <1>14, <1>15, <2>1, <3>1
  <2>2. CASE h # g
    <3>1. calls'[h] = calls[h]
      BY <1>10, <2>2
    <3>2. calls[h][i].ref # {r} /\ \E q \in Requests : Serves(calls[h][i], q, wire'[q])
      BY <1>15, <1>16, <2>2, <3>1
    <3>3. ASSUME NEW k \in Goroutines \ {h}, NEW j \in DOMAIN calls'[k], calls'[k][j].op \in Servers
          PROVE  calls'[k][j].ref # calls'[h][i].ref
      <4>1. CASE k = g
        BY <1>4, <1>8, <1>10, <3>1, <3>2, <4>1
      <4>2. CASE k # g
        <5>1. calls'[k] = calls[k]
          BY <1>10, <4>2
        <5>2. QED BY <1>16, <3>1, <3>3, <5>1 DEF TraceInv, ServingOK, Servers
      <4>3. QED BY <4>1, <4>2
    <3>4. QED BY <3>1, <3>2, <3>3
  <2>3. QED BY <2>1, <2>2
<1>17. ServingOK'
  BY <1>16 DEF ServingOK, Servers
<1>18. TraceInv'
  BY <1>1, <1>10, <1>13, <1>17, HttpStep
<1>19. QED BY <1>1, <1>18, NothingTold DEF Kept

\* Through Flush net/http sends 200, which is no failure.
LEMMA FlushKept ==
  ASSUME TraceInv, NEW g \in Goroutines, Flush(g), UNCHANGED messagingVars
  PROVE  Kept
<1>1. ~Idle(g) /\ Top(g).op = "handler" /\ ended' = {} /\ UNCHANGED <<spans, calls, bound>>
  BY DEF Flush, Answers, InFunction
<1>2. PICK r \in Top(g).ref :
        wire[r].code = "none" /\ wire' = [wire EXCEPT ![r].code = Sends(wire[r], "ok")]
  BY DEF Flush
<1>3. r \in Requests /\ Serves(Top(g), r, wire[r])
  BY <1>1, <1>2, ServerOK DEF Servers
<1>4. wire \in [Requests -> Exchanges] /\ wire[r] \in Exchanges /\ wire[r].state = "serving"
  BY <1>3, CodeOK DEF Serves
<1>5. Sends(wire[r], "ok") = "ok"
  BY <1>2 DEF Sends
<1>6. /\ wire'[r] \in Exchanges /\ wire'[r].state = "serving" /\ wire'[r].code = "ok"
      /\ wire'[r].header = wire[r].header /\ wire'[r].cause = wire[r].cause
      /\ \A q \in Requests \ {r} : wire'[q] = wire[q]
      /\ wire' = [q \in Requests |-> wire'[q]]
  BY <1>2, <1>3, <1>4, <1>5 DEF Exchanges, Codes
<1>7. TracedNext /\ KeepsServers
  BY <1>1, Quiet
<1>8. \A q \in Requests : Edited(wire'[q], wire[q])
  BY <1>4, <1>6 DEF Edited
<1>9. WireOK'
  BY <1>6, <1>7, <1>8, WireStep
<1>10. ServingOK'
  BY <1>6, <1>7, ServingStep
<1>11. TraceInv'
  BY <1>1, <1>7, <1>9, <1>10, HttpStep
<1>12. QED BY <1>1, <1>11, NothingTold DEF Kept

\* The exchange of a server that is through with it.
LEMMA OverOK ==
  ASSUME NEW request \in Exchanges, NEW state \in {"answered", "aborted"}, NEW code \in Codes
  PROVE  Edited(Over(request, state, code), request)
<1>1. CASE request.awaited
  <2> DEFINE new == [request EXCEPT !.state = state, !.code = code]
             one == [request EXCEPT !.state = state]
  <2>1. one \in Exchanges /\ one.header = request.header /\ one.cause = request.cause /\ one.state = state
    BY DEF Exchanges
  <2>2. new = [one EXCEPT !.code = code]
    OBVIOUS
  <2> HIDE DEF one
  <2>3. /\ [one EXCEPT !.code = code] \in Exchanges
        /\ [one EXCEPT !.code = code].header = one.header
        /\ [one EXCEPT !.code = code].cause = one.cause
        /\ [one EXCEPT !.code = code].state = one.state
    BY <2>1 DEF Exchanges
  <2>4. Over(request, state, code) = new
    BY <1>1 DEF Over
  <2> HIDE DEF new
  <2>5. QED BY <2>1, <2>2, <2>3, <2>4 DEF Edited
<1>2. CASE ~request.awaited
  BY <1>2 DEF Over, Edited
<1>3. QED BY <1>1, <1>2

\* Only a call with a span of its operation has spans.
LEMMA SkippedOwnsNothing ==
  ASSUME TraceInv, NEW g \in Goroutines, ~Idle(g), Top(g).op = "skipped"
  PROVE  Top(g).own = {}
<1>1. /\ Len(calls[g]) \in DOMAIN calls[g] /\ StackOK(calls[g], spans)
      /\ Top(g) = calls[g][Len(calls[g])]
  BY FrontOK DEF TraceInv, Traced
<1>2. \A s \in Top(g).own : s \in DOMAIN spans /\ spans[s].op = "skipped"
  BY <1>1 DEF StackOK
<1>3. \A s \in DOMAIN spans : spans[s].op \in SpanOps
  <2>1. \A s \in DOMAIN spans : spans[s] \in SpanRecords
    BY ElementOfSeq, LenProperties DEF TraceInv, StoreOK
  <2>2. QED BY <2>1 DEF SpanRecords
<1>4. QED BY <1>2, <1>3 DEF SpanOps

\* A handler returns, and net/http sends what it knows of.
LEMMA HandlerReturnsKept ==
  ASSUME TraceInv, NEW g \in Goroutines, HandlerReturns(g), UNCHANGED messagingVars
  PROVE  Kept
<1>1. ~Idle(g) /\ Top(g).op \in Servers /\ UNCHANGED bound
  BY DEF HandlerReturns, InFunction, Servers
<1>2. PICK r \in Top(g).ref :
        \E code \in IF Top(g).op = "skipped" THEN {"ok", "failed"} ELSE {Sends(wire[r], "ok")} :
          /\ End(g, CodeStatus(Top(g).code), Top(g).code, code)
          /\ wire' = [wire EXCEPT ![r] = Over(@, "answered", code)]
  BY DEF HandlerReturns
<1>3. PICK code \in IF Top(g).op = "skipped" THEN {"ok", "failed"} ELSE {Sends(wire[r], "ok")} :
        /\ End(g, CodeStatus(Top(g).code), Top(g).code, code)
        /\ wire' = [wire EXCEPT ![r] = Over(wire[r], "answered", code)]
  BY <1>2
<1>4. /\ Len(calls[g]) = 1 /\ DOMAIN calls[g] = {1} /\ Top(g) = calls[g][1] /\ Top(g) \in Frames
      /\ r \in Requests /\ Top(g).ref = {r} /\ Serves(Top(g), r, wire[r])
      /\ \A h \in Goroutines \ {g} : \A j \in DOMAIN calls[h] :
           calls[h][j].op \in Servers => calls[h][j].ref # {r}
  <2>1. /\ Len(calls[g]) = 1 /\ DOMAIN calls[g] = {1} /\ Top(g) = calls[g][1] /\ Top(g) \in Frames
        /\ \E q \in Requests : Top(g).ref = {q} /\ Serves(Top(g), q, wire[q])
        /\ \A h \in Goroutines \ {g} : \A j \in DOMAIN calls[h] :
             calls[h][j].op \in Servers => calls[h][j].ref # Top(g).ref
    BY <1>1, ServerOK
  <2>2. r \in Requests /\ Top(g).ref = {r} /\ Serves(Top(g), r, wire[r])
    BY <2>1
  <2>3. QED BY <2>1, <2>2
<1>5. wire \in [Requests -> Exchanges] /\ wire[r] \in Exchanges /\ wire[r].code \in Codes
  BY <1>4, CodeOK
<1>6. code \in Codes
  BY <1>3, <1>5 DEF Sends, Codes
<1> DEFINE over == Over(wire[r], "answered", code)
<1>7. Edited(over, wire[r])
  BY <1>5, <1>6, OverOK
<1> HIDE DEF over
<1>8. wire' = [wire EXCEPT ![r] = over]
  BY <1>3 DEF over
<1>9. /\ wire'[r] = over
      /\ \A q \in Requests \ {r} : wire'[q] = wire[q]
      /\ wire' = [q \in Requests |-> wire'[q]]
  BY <1>4, <1>5, <1>8
<1>10. \A q \in Requests : Edited(wire'[q], wire[q])
  BY <1>5, <1>7, <1>9 DEF Edited
<1>11. TracedNext /\ KeepsServers
  BY <1>1, <1>3, EndKeeps DEF TraceInv, Traced
<1>12. WireOK'
  BY <1>9, <1>10, <1>11, WireStep
<1>13. \A h \in Goroutines : \A i \in DOMAIN calls'[h] : \A q \in Requests :
         calls'[h][i].op \in Servers /\ calls'[h][i].ref = {q} => q # r
  <2>1. calls' = [calls EXCEPT ![g] = Front(calls[g])]
    BY <1>3 DEF End, Pop
  <2>2. DOMAIN Front(calls[g]) = {}
    BY <1>1, <1>4, FrontOK DEF TraceInv, Traced
  <2>3. DOMAIN calls'[g] = {} /\ \A h \in Goroutines \ {g} : calls'[h] = calls[h]
    BY <2>1, <2>2 DEF TraceInv, StacksOK
  <2>4. QED BY <1>4, <2>3
<1>14. ServingOK'
  BY <1>9, <1>11, <1>13, ServingStep
<1>15. TraceInv'
  BY <1>1, <1>11, <1>12, <1>14, HttpStep
<1>16. ended' = Record(Top(g), CodeStatus(Top(g).code), Top(g).code, code)
  BY <1>3 DEF End
<1>17. CASE Top(g).op = "skipped"
  BY <1>1, <1>15, <1>16, <1>17, SkippedOwnsNothing, OneTold DEF Kept
<1>18. CASE Top(g).op = "handler"
  <2>1. code = Sends(wire[r], "ok") /\ code # "error"
    BY <1>3, <1>6, <1>18 DEF Codes
  <2>2. code = "failed" => CodeStatus(Top(g).code) = "error"
    BY <1>4, <1>18, <2>1 DEF Serves, Sends, CodeStatus
  <2>3. OutcomeTold'
    BY <1>16, <1>18, <2>1, <2>2, OneTold
  <2>4. QED BY <1>15, <2>3 DEF Kept
<1>19. QED BY <1>1, <1>17, <1>18 DEF Servers

\* All of them.
LEMMA OverHttpKept ==
  ASSUME TraceInv, NEW g \in Goroutines, OverHttp(g), UNCHANGED messagingVars
  PROVE  Kept
BY RoundTripKept, AnsweredKept, GivesUpKept, HandleKept, WriteHeaderKept, FlushKept,
   HandlerReturnsKept DEF OverHttp

-----------------------------------------------------------------------------
(* Panics, and the broker. *)

\* A panic ends calls; their requests are over, or forsaken.
LEMMA PanicKept ==
  ASSUME TraceInv, NEW g \in Goroutines, PanicAnywhere(g), UNCHANGED messagingVars
  PROVE  Kept
<1>1. Traced /\ StackOK(calls[g], spans) /\ Panic(g)
  BY DEF TraceInv, Traced, StacksOK, PanicAnywhere
<1>2. TracedNext /\ KeepsServers /\ UNCHANGED bound
  BY <1>1, PanicKeeps DEF Panic
<1>3. PICK kept \in 0..(Len(calls[g]) - 1) :
        calls' = [calls EXCEPT ![g] = SubSeq(calls[g], 1, kept)]
  BY <1>1, PanicKeeps
<1>4. Len(calls[g]) \in Nat /\ DOMAIN calls[g] = 1..Len(calls[g]) /\ calls[g] \in Seq(Frames)
  BY <1>1, LenProperties DEF StackOK
<1>5. kept \in 0..Len(calls[g])
  BY <1>4
<1>6. Len(SubSeq(calls[g], 1, kept)) = kept /\ DOMAIN SubSeq(calls[g], 1, kept) = 1..kept
  BY <1>1, <1>5, PrefixOK
<1>7. calls'[g] = SubSeq(calls[g], 1, kept) /\ \A h \in Goroutines \ {g} : calls'[h] = calls[h]
  BY <1>3 DEF TraceInv, StacksOK
<1> DEFINE gone == {calls[g][i] : i \in (kept + 1)..Len(calls[g])}
<1>8. ToSet(SubSeq(calls[g], Len(calls'[g]) + 1, Len(calls[g]))) = gone
  BY <1>4, <1>6, <1>7, GoneOK
<1>9. AfterPanic(gone)
  BY <1>8 DEF PanicAnywhere
<1>10. ASSUME NEW f \in gone, f.op \in Servers, NEW r \in f.ref
       PROVE  \A h \in Goroutines : \A i \in DOMAIN calls'[h] :
                calls'[h][i].op \in Servers => calls'[h][i].ref # {r}
  <2>1. PICK j \in (kept + 1)..Len(calls[g]) : f = calls[g][j]
    OBVIOUS
  <2>2. j \in DOMAIN calls[g]
    BY <1>4, <1>5, <2>1
  <2>3. j = 1
    BY <1>1, <1>10, <2>1, <2>2 DEF StackOK, Servers
  <2>4. kept = 0
    BY <1>5, <2>1, <2>3
  <2>5. DOMAIN calls'[g] = {}
    BY <1>6, <1>7, <2>4
  <2>6. /\ f.ref = {r}
        /\ \A h \in Goroutines \ {g} : \A i \in DOMAIN calls[h] :
             calls[h][i].op \in Servers => calls[h][i].ref # f.ref
    BY <1>10, <2>1, <2>2 DEF TraceInv, ServingOK, Serves, Servers
  <2>7. QED BY <1>7, <2>5, <2>6
<1> HIDE DEF gone
<1>11. ASSUME NEW r \in Requests
       PROVE  /\ Edited(wire'[r], wire[r])
              /\ \/ \E f \in gone : f.op \in Servers /\ r \in f.ref
                 \/ wire[r].state = "serving" =>
                      wire'[r].state = "serving" /\ wire'[r].code = wire[r].code
  <2>1. wire[r] \in Exchanges /\ wire[r].code \in Codes
    BY CodeOK
  <2>2. wire'[r] = IF \E f \in gone : f.op = "client" /\ r \in f.ref THEN Forsaken(wire[r])
                   ELSE IF \E f \in gone : f.op \in {"handler", "skipped"} /\ r \in f.ref
                     THEN Over(wire[r], IF wire[r].code = "none" THEN "aborted" ELSE "answered",
                               wire[r].code)
                   ELSE wire[r]
    BY <1>9 DEF AfterPanic
  <2>3. CASE wire'[r] = Forsaken(wire[r])
    BY <2>1, <2>3, ForsakenOK
  <2>4. CASE /\ \E f \in gone : f.op \in {"handler", "skipped"} /\ r \in f.ref
             /\ wire'[r] = Over(wire[r], IF wire[r].code = "none" THEN "aborted" ELSE "answered",
                                wire[r].code)
    <3> DEFINE state == IF wire[r].code = "none" THEN "aborted" ELSE "answered"
    <3>1. state \in {"answered", "aborted"} /\ wire'[r] = Over(wire[r], state, wire[r].code)
      BY <2>4
    <3> HIDE DEF state
    <3>2. Edited(wire'[r], wire[r])
      BY <2>1, <3>1, OverOK
    <3>3. QED BY <2>4, <3>2 DEF Servers
  <2>5. CASE wire'[r] = wire[r]
    BY <2>1, <2>5 DEF Edited
  <2>6. QED BY <2>2, <2>3, <2>4, <2>5
<1>12. wire' = [r \in Requests |-> wire'[r]]
  BY <1>9 DEF AfterPanic
<1>13. WireOK'
  BY <1>2, <1>11, <1>12, WireStep
<1>14. ServingOK'
  <2>1. ASSUME NEW h \in Goroutines, NEW i \in DOMAIN calls'[h], NEW r \in Requests,
               calls'[h][i].op \in Servers, calls'[h][i].ref = {r}, wire[r].state = "serving"
        PROVE  /\ wire'[r].state = "serving"
               /\ wire'[r].code = "failed" => wire[r].code = "failed"
    <3>1. ~ \E f \in gone : f.op \in Servers /\ r \in f.ref
      BY <1>10, <2>1
    <3>2. QED BY <1>11, <2>1, <3>1
  <2>2. QED BY <1>2, <2>1, ServingStep
<1>15. TraceInv'
  BY <1>2, <1>13, <1>14, HttpStep
<1>16. \A record \in ended' : record.result = "panic"
  <2>1. \A f, status, code : \A record \in Record(f, status, code, "panic") : record.result = "panic"
    BY DEF Record
  <2>2. \E deferred : ended' = UNION {Record(f, CodeStatus(f.code), f.code, "panic") : f \in deferred}
    BY <1>1 DEF Panic
  <2>3. PICK deferred : ended' = UNION {Record(f, CodeStatus(f.code), f.code, "panic") : f \in deferred}
    BY <2>2
  <2>4. \A record \in ended' : \E f \in deferred : record \in Record(f, CodeStatus(f.code), f.code, "panic")
    BY <2>3
  <2>5. QED BY <2>1, <2>4
<1>17. OutcomeTold'
  BY <1>16 DEF OutcomeTold
<1>18. QED BY <1>15, <1>17 DEF Kept

\* A step of a producer or of a consumer.
LEMMA BrokerStep ==
  ASSUME TraceInv, TracedNext, KeepsServers, MessagesOK', UNCHANGED <<bound, wire>>
  PROVE  TraceInv'
<1>1. BoundOK' /\ WireOK'
  BY Unmoved
<1>2. ServingOK'
  BY ServingStep
<1>3. QED BY <1>1, <1>2, Assembled

\* A publish, as a step of the program.
LEMMA PublishKept ==
  ASSUME TraceInv, NEW g \in Goroutines, InFunction(g), NEW op \in {"publish", "publishes"},
         NEW ctx, ctx = Ambient(g) \/ (ctx = NoContext /\ op = "publish"),
         NEW order \in Seq(Messages), Publish(op, g, ctx, order), UNCHANGED wire
  PROVE  Kept
<1>1. Traced /\ MessagesOK
  BY DEF TraceInv, Traced
<1>2. ctx \in Contexts /\ Carries(ctx, spans)
  <2>1. Ambient(g) \in Contexts /\ Carries(Ambient(g), spans)
    BY <1>1, AmbientOK DEF Traced
  <2>2. NoContext \in Contexts /\ Carries(NoContext, spans)
    BY DEF NoContext, Contexts, Companions, Carries
  <2>3. QED BY <2>1, <2>2
<1>3. /\ TracedNext /\ KeepsServers
      /\ \A i \in DOMAIN order :
           /\ Len(spans) + i \in DOMAIN spans'
           /\ spans'[Len(spans) + i] = PublishSpans(op, g, ctx, order)[i]
  BY <1>1, <1>2, PublishKeeps
<1>4. MessagesOK'
  BY <1>1, <1>3, PublishStamps DEF TracedNext
<1>5. UNCHANGED bound /\ ended' = {}
  BY DEF Publish
<1>6. TraceInv'
  BY <1>3, <1>4, <1>5, BrokerStep
<1>7. QED BY <1>5, <1>6, NothingTold DEF Kept

\* SendMessage, with and without a context.
LEMMA SendMessageKept ==
  ASSUME TraceInv, NEW g \in Goroutines, SendMessage(g), UNCHANGED wire
  PROVE  Kept
<1>1. PICK m \in Messages, ctx \in {Ambient(g), NoContext} : Publish("publish", g, ctx, <<m>>)
  BY DEF SendMessage
<1>2. <<m>> \in Seq(Messages) /\ InFunction(g)
  BY DEF SendMessage, CanCall
<1>3. QED BY <1>1, <1>2, PublishKept

\* SendMessages, in any order.
LEMMA SendMessagesKept ==
  ASSUME TraceInv, NEW g \in Goroutines, SendMessages(g), UNCHANGED wire
  PROVE  Kept
<1>1. PICK order \in SetToSeqs(Messages) : Publish("publishes", g, Ambient(g), order)
  BY DEF SendMessages
<1>2. order \in [1..Cardinality(Messages) -> Messages]
  BY DEF SetToSeqs
<1>3. Cardinality(Messages) \in Nat
  BY MessagesAssumption, FS_CardinalityType
<1>4. order \in Seq(Messages) /\ InFunction(g)
  BY <1>2, <1>3 DEF SendMessages, CanCall
<1>5. QED BY <1>1, <1>4, PublishKept

\* A record has the headers of its message.
LEMMA BrokerStoresKept ==
  ASSUME TraceInv, NEW g \in Goroutines, BrokerStores(g), UNCHANGED wire
  PROVE  Kept
<1>1. /\ ~Idle(g) /\ Top(g).op \in {"publish", "publishes"}
      /\ ended' = {} /\ UNCHANGED <<spans, bound, headers, origin>>
  BY DEF BrokerStores, InLibrary
<1>2. PICK m \in Top(g).ref :
        /\ topic' = Append(topic, [header |-> headers[m], origin |-> origin[m]])
        /\ Replace(g, [Top(g) EXCEPT !.ref = Top(g).ref \ {m}])
  BY DEF BrokerStores
<1>3. Traced /\ MessagesOK
  BY DEF TraceInv, Traced
<1>4. Top(g) \in Frames /\ m \in Messages
  BY <1>1, <1>2, <1>3, FrontOK DEF Frames, Works
<1> DEFINE frame == [Top(g) EXCEPT !.ref = Top(g).ref \ {m}]
<1>5. /\ frame \in Frames
      /\ frame.op = Top(g).op /\ frame.own = Top(g).own
      /\ frame.ctx = Top(g).ctx /\ frame.at = Top(g).at
  <2>1. Top(g).ref \ {m} \in Refs /\ Works(Top(g).op, Top(g).ref \ {m})
    BY <1>4 DEF Frames, FrameRecords, Refs, Works
  <2>2. QED BY <1>4, <2>1 DEF Frames, FrameRecords
<1>6. Replace(g, frame)
  BY <1>2
<1> HIDE DEF frame
<1>7. TracedNext /\ KeepsServers
  BY <1>1, <1>3, <1>5, <1>6, ReplaceKeeps DEF Servers
<1> DEFINE record == [header |-> headers[m], origin |-> origin[m]]
<1>8. /\ headers \in [Messages -> Contexts]
      /\ \A n \in Messages : Stamped(headers[n], spans) /\ origin[n] = headers[n].id
      /\ topic \in Seq([header : Contexts, origin : Ids \cup {0}])
      /\ \A i \in DOMAIN topic : Stamped(topic[i].header, spans) /\ topic[i].origin = topic[i].header.id
  BY <1>3 DEF MessagesOK
<1>9. /\ record \in [header : Contexts, origin : Ids \cup {0}]
      /\ Stamped(record.header, spans) /\ record.origin = record.header.id
  BY <1>4, <1>8 DEF Contexts
<1> HIDE DEF record
<1>10. topic' = Append(topic, record)
  BY <1>2 DEF record
<1>11. /\ topic' \in Seq([header : Contexts, origin : Ids \cup {0}])
       /\ DOMAIN topic' = 1..(Len(topic) + 1)
       /\ topic'[Len(topic) + 1] = record
       /\ \A i \in 1..Len(topic) : topic'[i] = topic[i]
       /\ Len(topic) \in Nat /\ DOMAIN topic = 1..Len(topic)
  BY <1>8, <1>9, <1>10, AppendProperties, LenProperties
<1>12. ASSUME NEW i \in DOMAIN topic'
       PROVE  Stamped(topic'[i].header, spans) /\ topic'[i].origin = topic'[i].header.id
  <2>1. i = Len(topic) + 1 \/ i \in DOMAIN topic
    BY <1>11
  <2>2. QED BY <1>8, <1>9, <1>11, <2>1
<1>13. MessagesOK'
  BY <1>1, <1>8, <1>11, <1>12 DEF MessagesOK
<1>14. TraceInv'
  BY <1>1, <1>7, <1>13, BrokerStep
<1>15. QED BY <1>1, <1>14, NothingTold DEF Kept

\* The producer reports success, or an error.
LEMMA SendReturnsKept ==
  ASSUME TraceInv, NEW g \in Goroutines, SendReturns(g), UNCHANGED wire
  PROVE  Kept
<1>1. ~Idle(g) /\ UNCHANGED <<bound, messagingVars>>
  BY DEF SendReturns, InLibrary
<1>2. Top(g).op \notin {"aws", "client"}
  BY DEF SendReturns, InLibrary
<1>3. PICK status \in {"ok", "error"} : End(g, status, "none", status)
  BY DEF SendReturns
<1>4. TraceInv' /\ ended' = Record(Top(g), status, "none", status)
  BY <1>1, <1>3, EndKept
<1>5. OutcomeTold'
  BY <1>2, <1>4, OneTold
<1>6. QED BY <1>4, <1>5 DEF Kept

\* A record is processed in the trace of the publish that its headers name.
LEMMA ProcessKept ==
  ASSUME TraceInv, NEW g \in Goroutines, Process(g), UNCHANGED wire
  PROVE  Kept
<1>1. Idle(g) /\ UNCHANGED <<bound, messagingVars>>
  BY DEF Process
<1>2. PICK i \in DOMAIN topic :
        Begin(g, StartSpan("process", topic[i].header, topic[i].origin), "function", {i})
  BY DEF Process
<1>3. Traced
  BY DEF TraceInv, Traced
<1>4. /\ topic \in Seq([header : Contexts, origin : Ids \cup {0}])
      /\ Stamped(topic[i].header, spans) /\ topic[i].origin = topic[i].header.id
  BY DEF TraceInv, MessagesOK
<1>5. topic[i] \in [header : Contexts, origin : Ids \cup {0}] /\ i \in Nat
  <2>1. i \in 1..Len(topic) /\ Len(topic) \in Nat
    BY <1>4, LenProperties
  <2> DEFINE Records == [header : Contexts, origin : Ids \cup {0}]
  <2>2. topic \in Seq(Records)
    BY <1>4
  <2> HIDE DEF Records
  <2>3. topic[i] \in Records
    BY <2>1, <2>2, ElementOfSeq
  <2>4. QED BY <2>1, <2>3 DEF Records
<1>6. topic[i].header \in Contexts /\ topic[i].origin \in Ids \cup {0}
  BY <1>5
<1>7. {i} \in Refs /\ Works("process", {i}) /\ "process" \in SpanOps
  BY <1>5 DEF Refs, Works, SpanOps
<1>8. TracedNext /\ KeepsServers
  BY <1>1, <1>2, <1>3, <1>4, <1>6, <1>7, StartKeeps
<1>9. MessagesOK'
  BY <1>1, <1>8, Unmoved
<1>10. TraceInv'
  BY <1>1, <1>8, <1>9, BrokerStep
<1>11. QED BY <1>2, <1>10, NothingTold DEF Kept, Begin

\* All of them.
LEMMA OverBrokerKept ==
  ASSUME TraceInv, NEW g \in Goroutines, OverBroker(g), UNCHANGED wire
  PROVE  Kept
BY SendMessageKept, SendMessagesKept, BrokerStoresKept, SendReturnsKept, ProcessKept DEF OverBroker

-----------------------------------------------------------------------------
(* The theorems. *)

\* Nothing has been traced.
LEMMA TraceInit == Init => TraceInv /\ OutcomeTold
<1> SUFFICES ASSUME Init PROVE TraceInv /\ OutcomeTold
  OBVIOUS
<1>1. /\ spans = <<>> /\ calls = [g \in Goroutines |-> <<>>] /\ bound = {} /\ ended = {}
      /\ wire = [r \in Requests |-> Unused]
      /\ headers = [m \in Messages |-> NoContext] /\ origin = [m \in Messages |-> 0]
      /\ topic = <<>>
  BY DEF Init, TracingInit, HttpInit, MessagingInit
<1>2. StoreOK(spans)
  BY <1>1, TracingAssumption DEF StoreOK
<1>3. StacksOK /\ OpenOnStack /\ ServingOK
  BY <1>1 DEF StacksOK, StackOK, OpenOnStack, ServingOK
<1>4. NoContext \in Contexts /\ \A store : Carries(NoContext, store) /\ Stamped(NoContext, store)
  BY DEF NoContext, Contexts, Companions, Carries, Stamped
<1>5. BoundOK /\ WireOK
  BY <1>1, UnusedOK DEF BoundOK, WireOK
<1>6. MessagesOK
  BY <1>1, <1>4 DEF MessagesOK, NoContext
<1>7. OutcomeTold
  BY <1>1 DEF OutcomeTold
<1>8. QED BY <1>2, <1>3, <1>5, <1>6, <1>7 DEF TraceInv

\* Every step keeps the invariant, and tells what it did.
LEMMA TraceStep == TraceInv /\ OutcomeTold /\ [Next]_vars => Kept
<1> SUFFICES ASSUME TraceInv, OutcomeTold, [Next]_vars PROVE Kept
  OBVIOUS
<1>1. CASE UNCHANGED vars
  <2>1. TracedNext /\ KeepsServers
    BY <1>1, Quiet DEF vars, tracingVars
  <2>2. UNCHANGED bound /\ UNCHANGED wire /\ UNCHANGED messagingVars /\ UNCHANGED ended
    BY <1>1 DEF vars, tracingVars
  <2>3. BoundOK'
    BY <2>1, <2>2, Unmoved
  <2>4. TraceInv'
    BY <2>1, <2>2, <2>3, InnerStep
  <2>5. OutcomeTold'
    BY <2>2 DEF OutcomeTold
  <2>6. QED BY <2>4, <2>5 DEF Kept
<1>2. CASE Next
  BY <1>2, ArriveKept, LostKept, InProcessKept, OverHttpKept, PanicKept, OverBrokerKept DEF Next
<1>3. QED BY <1>1, <1>2

\* The invariant, whatever the programs, and however many goroutines, requests,
\* messages, spans and attempts there are.
THEOREM TraceInvariant == Spec => [](TraceInv /\ OutcomeTold)
<1>1. TraceInv /\ OutcomeTold /\ [Next]_vars => (TraceInv /\ OutcomeTold)'
  BY TraceStep DEF Kept
<1>2. QED BY <1>1, TraceInit, PTL DEF Spec

\* A trace is one: from whatever hop to whatever hop (StartSpan, Adopt, inject,
\* extract), a span is in the trace of its parent, sampled as it is.
THEOREM TraceIsOne == Spec => []OneTrace
<1>1. TraceInv => OneTrace
  BY DEF TraceInv, StoreOK, Joined, OneTrace
<1>2. QED BY <1>1, TraceInvariant, PTL

\* The parent of a span is the work it was done for (the context that a function
\* gets, Bind's capture, the traceparent of a request and of a message).
THEOREM ParentCaused == Spec => []ParentIsCause
<1>1. TraceInv => ParentIsCause
  BY DEF TraceInv, StoreOK, Joined, ParentIsCause
<1>2. QED BY <1>1, TraceInvariant, PTL

\* What is recorded of a call is what its caller was told (Run, File, Handler,
\* Transport, the SQL and AWS wrappers, the producers).
THEOREM OutcomesTold == Spec => []OutcomeTold
<1>1. QED BY TraceInvariant, PTL

\* A span whose call is over has been ended, unless a panic went through a call
\* that does not defer End.
THEOREM OpenIsOnStack == Spec => []OpenOnStack
<1>1. TraceInv => OpenOnStack
  BY DEF TraceInv
<1>2. QED BY <1>1, TraceInvariant, PTL
=============================================================================
