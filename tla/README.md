# Chronos Go SDK in TLA+

The Chronos Go SDK instruments a Go process: spans, profiles, metrics and logs are
turned into JSON documents and appended to a spool directory, from which a separate
agent ships them. What is hard in it is the delivery and the context. Many goroutines
share bounded buffers whose writes fail and are retried, several processes share one
spool directory without locks, the message-broker wrapper puts goroutines and timers
between a consumer and its messages, and the identity of a trace travels with calls,
functions handed to other goroutines, requests and messages that are retried, lost or
delivered twice. These modules model that.

Contents: 1 the system, 2 the modules, 3 the runs, 4 the proofs, 5 what the checks found,
6 what is not modelled, 7 the plan.

## 1. The system

| Component (source) | State it keeps | Operations | What makes it correct |
|---|---|---|---|
| Span buffer (`span_buffer.go`) | `spans`, `dropped`, two sizes, under a mutex | `add`, `take`, `requeue`; `enqueueSpan`, `FlushSpans`, `flushSpanBatch`, `spanLoop` | every ended span is written once or counted; the cap holds; nothing waits for ever |
| Spool log (`spool/segment.go`) | a directory of segment files; a process-wide drop counter | `Append` (`openActive`, `rotate`, `enforceSegmentBudget`), `Read`, `DecodeFrames` | one file per generation, real-time order, the segment budget, what is discarded counted |
| Span lifecycle (`tracing.go`) | one span's fields and `ended` flag, under its mutex | `StartSpan`, `SetAttribute`, `SetStatus`, `Adopt`, `RemoteContext`, `End` | a span is in its parent's trace, with its sampling decision; it is recorded once |
| Operations, file system (`operation.go`, `fs.go`) | the context; what `Bind` captured | `Run`, `Bind`, `Do`, `DoErr`; `File` and what is built on it, `Open` | the parent is the cause, on whatever goroutine; the span ends with the call and says what it returned |
| HTTP (`http.go`) | one request's recorder | `Handler`, `responseRecorder`, `RoundTrip` | client and server in one trace; each records what its caller was told |
| Messaging, producers (`messaging.go`, `contrib/sarama/sarama.go`) | the headers of a message | `StartMessagingSpan`, `SendMessage(s)`, `inject`, `extract` | a consumer joins the first publish of its message, however often it is sent or delivered |
| Claim proxy (`contrib/sarama/sarama.go`) | one goroutine, the span it holds open, `sync.Once` | `Messages` | no message swallowed or reordered, one span per message, covering its processing |
| Batch consumer (`contrib/sarama/batch.go`) | batch, timer; per flush the contexts and spans of its messages | `ConsumeClaim`, `ContextFor`, `Each`, `run`, `end` | every message in one flush, in order, none held back; no span outlives its flush |
| SQL (`sql.go`, `sql_driver.go`), AWS (`contrib/awsv2`) | the attempts of one call | driver wrappers, `ErrSkip` and `ErrBadConn`; two middlewares | one span per attempt that ran, or per call, with the status of its outcome |
| Propagation (`propagation.go`) | none: pure | parse, normalise, render | a hop hands on what it was handed |
| Wall sampler, I/O recorder (`profile_wall.go`, `profile_io.go`) | bounded tables under a mutex | `sample`, `add`, `drain`, flush | wall time charged once and off-CPU within it; no wait written twice; nothing left behind |
| Runtime metrics (`metrics.go`) | five atomic counters | `recordHTTP`, `EmitRuntimeMetrics`, `gcDelta` | requests counted once; windows add up |
| Client (`client.go`, `default.go`) | context, wait group, the loops | `StartWithConfig`, `Shutdown`, `profileLoop`, `wallLoop`, `metricsLoop` | Shutdown returns and leaves nothing behind |
| SQL text, DSN, stack classes, pprof conversion | none: pure | scanners and normalisers | equal to a reference definition |
| Logging, configuration | none or constant | one document; read once | -- |

How they interact. A goroutine that ends a span calls `add` on the shared buffer and, if
that filled a batch, writes the batch itself. The write is `Append` on the spool log,
outside the buffer's mutex; when it fails the batch is put back. `spanLoop` and
`Shutdown` flush the same buffer. Every other signal goes to the same spool log. The
sarama wrappers start and end spans from goroutines of their own. An instrumented call
reads the span around it from its context and puts its own there; `Bind` carries a
context to another goroutine, `RoundTrip` and `inject` write it onto headers, `Handler`
and `extract` read it back, in this program or another one.

Hard behaviours. Batches in flight outside the mutex; failed writes put back against a
cap that moved meanwhile; Shutdown racing the loops and the application; several
processes listing, creating, opening and removing files in one directory with nothing
but `O_EXCL` between them, and being killed in between; a proxy goroutine running ahead
of the handler; a timer firing during a flush; counters drained one after the other
while requests are counted; clients that give up on a request still being served,
messages sent again and delivered twice, statements and AWS calls that take several
attempts, panics through all of it. `PROJECT.json` lists each hazard at its line with
the properties that watch it.

## 2. The modules

| Module | Models |
|---|---|
| `SpanDelivery` | abstract: what batching promises an application |
| `SpanBuffer` | the span buffer, the goroutines that share it, `Shutdown` |
| `SpoolLog` | the spool log, its writers, the agent |
| `ClaimProxy` | the instrumented claim |
| `BatchConsumer` | the batch consumer on one claim |
| `ProfileBuffers` | the wall sampler, the I/O recorder and the goroutines that flush them |
| `RuntimeMetrics` | the request counters, the runtime's totals and the goroutines that emit points |
| `Tracing` | spans, contexts, stacks of calls; operations and files |
| `Http`, `Messaging`, `Clients` | the instrumented calls on top of `Tracing` |
| `Services` | all of these composed: goroutines, requests, messages |
| `Propagation` | the three headers, byte by byte, over several hops |
| `MCSpoolLog`, `MCServices`, `MCPropagation` | symmetry sets, restrictions of the inputs, carriers, for TLC |
| `SpanBufferProofs`, `SpoolLogProofs`, `ClaimProxyProofs`, `BatchConsumerProofs`, `ProfileBuffersProofs`, `RuntimeMetricsProofs`, `ServicesProofs` | theorems about the modules so named |
| `Sums` | lemmas on sums over finite sets, for the proofs that count |

Operators whose comment begins with "Mutant" or "A mutant" are altered forms of the
definition that follows them. No specification uses them; substituting one for its
definition makes the property named in `PROJECT.json` fail, which shows that the property
depends on that piece of the code.

**SpanBuffer.** The methods of `spanBuffer` hold its mutex from the first to the last
line, so `AddDrop`/`AddBank`, `TakeNothing`/`Take` and `Requeue` are one step each;
`pc` remembers where a goroutine is between them, `held` the records it carries and
`all` the argument of `flushSpanBatch`. `Finish` is `Span.finish` under the span's mutex.
`WriteAccepted` and `WriteRefused` are `WriteJSON`, which this level sees only as a spool
that is up or down (`SpoolToggles` may change it at any time). The goroutines are the
application's, `Loop` (`spanLoop`) and `Main`, which calls `Shutdown`: cancel, then
either the loop has exited (`ShutdownJoined`) or the caller's deadline passes first
(`ShutdownExpired`), then flush everything. A client without background loops is one
whose loop has exited from the start. `requestedBatch`, `batchSize` and `maxBuffered` are
`newSpanBuffer` on any pair of integers.

**SpanDelivery** knows open, pending, written and shed spans. `SpanBuffer` implements it
with `pending` the spans in the buffer and in anyone's hands: `take` and a `requeue` that
drops nothing are stuttering steps.

**SpoolLog.** One action is one system call of `Append`: list (`Scan`, `Budget`), create
(`CreateFirst`, `Rotate`), open, stat, remove, write. `files` holds every file ever
created, because a writer may still write to a file whose directory entry is gone.
`Abandon` is any other failing call and also a process that is killed: both leave the
files as they are and the writer's locals lost. `WriteTorn` is a write that stops part
way. `Retire` is the agent; that it never retires the newest segment is assumed (the code
relies on the reader leaving the segment under append alone, and only notes that a
segment may vanish between the listing and the open). A behaviour's directory is either
one that can always be listed or one whose listing may fail (`blind`), which `Generations`
does not distinguish from an empty directory. Sizes are counted in frames; the drop
counters of all processes are added up in `dropped`. `called`, `acked`, `before` and
`listed` record the history the properties speak of, `missed` counts the enforcements of
the budget that were cut short.

**ClaimProxy.** The messages are numbered in partition order. `Take` is one iteration of
the proxy's `range` up to its send, `Hand` the rendezvous on the unbuffered channel,
`Close` the deferred `open.End()` and `close(out)`. `Ask` is a worker that calls
`Messages` and receives, as a `select` in a loop does. The broker and the handler are
external.

**BatchConsumer.** `Receive`, `MaxWait`, `ChannelClosed` and `Shutdown` are the branches of
the `select`; a flush ends with `HandlerReturns`, `HandlerFails` or `HandlerPanics`, and in
between the application calls `ContextFor` and `Each` as it likes. The timer has no
clock: it fires at any moment while it runs, also during a flush. `aged` remembers
whether it has fired since it was last set.

**ProfileBuffers.** `Sample` banks one snapshot under the sampler's mutex, `RecordIOWait` one
measured call. A flush is `DrainWall`, the writes of its WALL and then its OFF_CPU
documents, `DrainIO` and the writes of its waits; `todo` holds the documents a goroutine
still has to write, and a refused write drops the rest of them. `wallLoop` goes on to the
waits after an error, `FlushProfiles` and `Shutdown` return. `LoopStops` is the end of the
loop's context: its deferred function flushes both buffers once more. `ShutdownFlushes`
is taken when the loop has exited or when the caller's deadline has passed, and begins
with the span flush, which may fail. Stacks belong to classes (running, blocked, idle,
foreign) in place of frames.

**RuntimeMetrics.** One action is one atomic operation: the three additions of
`recordHTTP`, `ReadMemStats`, the three swaps of the request counters, the two swaps of
`gcDelta`, the write. Emitters are `metricsLoop` and goroutines of the application;
`point` is what an emitter has in hand. `pending`, `published` and `overlapped` are
history. A refused write loses the point and is the same step as an accepted one.

**Tracing** models a goroutine as a stack of instrumented calls (`calls`); a frame has the
spans the call started, the context its function runs in, what it works on (a request,
messages, what a driver offers) and whether the application's function or a library is
running on top of it. `spans` is every span ever started, named by its index; besides the
source's fields a span has `cause`, the span whose work it is, taken from the stacks and
the wire and never from a context: the properties compare the two. `ended` holds what the
last step recorded together with what the caller of the operation was told; it is emptied
by the next step. `uses` is the set of operations the behaviour's program uses, so that
the runs can cover every operation without mixing all of them in one behaviour. `Panic`
unwinds to the function of any enclosing call, or to the bottom of the stack: `Deferring`
are the calls that end their span in a deferred function, the spans of the others leak.
Status codes are reduced to "ok", "failed" (500 and above) and "interim" (1xx), tracestate and baggage
to whether they are there (`companions`).

**Http.** A request is a slot of `wire`. `Handle` picks it up on an idle goroutine, of this
program or, for what the properties say, of another one; `GivesUp` forsakes it while it
may still be on its way or being served. `WriteHeader` is `responseRecorder`'s, with its
guard, and `Sends` what net/http does with the code; `Flush` bypasses the recorder. An
answer travels as the code.

**Messaging.** `Publish` is `SendMessage` (with and without a context) and `SendMessages`;
`Inject` keeps, per header, what the message already has. `BrokerStores` and `SendReturns`
are independent, so a publish may fail after its record was stored, and the same message
may be published again. `Process` may take any record, any number of times.

**Clients.** `Statement` tries the ways in which database/sql asks a driver, given the
interfaces its connections offer; `StatementSkips` is `ErrSkip`, and a retry on
`ErrBadConn` starts over. `CallAws` and `AwsAttempt` are `spanMiddleware` around all
attempts and `responseMiddleware` in each.

**Propagation** works on bytes and with the code's own algorithms: splitting, trimming, the
validity of keys and values, percent coding, the caps. A hop is `Extract` and `Inject`.
`Vendors`, `Luggage`, `Believed`, `TraceOf` and `SampledOf` say what a reader of the
standards finds in the headers, without the normaliser. The caps are constants; the
letters that matter to no rule are left out of the carriers.

External parts, modelled from their use in `src/`: sarama and the broker, net/http,
database/sql and drivers, the AWS SDK, the Go runtime's counters, the agent, the
application. `PROJECT.json` marks their definitions.

## 3. The runs

| Run | Question and bounds |
|---|---|
| `SpanBuffer` | Safety, refinement and liveness. Three spans, two application goroutines, a configured batch of five lowered to the cap of two: two flushes can be in flight at once, and a failed batch finds room for all, some or none of its records. The proofs carry the safety properties to every size; liveness, which allows no symmetry, sets the bound. About 103,000 states. |
| `SpoolLog` | Safety with every fault: four frames and one the encoder refuses, two writers, segments of one frame (each append rotates, and a segment holds more when both writers came to it before either wrote, or one wrote there after losing the race to rotate), budget of two, directories that can and that cannot always be listed. A writer can stall while the other rotates past the budget. `RescansForProgress` replaces a liveness property: `openActive` is lock-free, and a writer scans again only because another one, or the agent, got ahead. `RemovalsCounted` is about the count of removals, which racing writers must not get wrong; that the code counts removals and not frames is `SpoolLogDropped`'s. About 569,000 states up to symmetry. |
| `ClaimProxy` | Four messages, two workers of which one may leave, two names for proxies so that a second could start. |
| `BatchConsumer` | Five messages of one or two bytes, at most three messages or four bytes per batch: each limit fills some batch alone; three policies. |
| `ProfileBuffers` | Three inputs in any mixture of snapshots and measured waits; a running, a blocked and an idle stack, of which two fit in a window; room for one wait; one sample in a document, so that a window is several documents; `wallLoop`, one call of `FlushProfiles`, and Shutdown flush at once. About 105,000 states. |
| `RuntimeMetrics` | One request, a second garbage collection, `metricsLoop` and one call of the application: two emitters overlap in every way. About 110,000 states. |
| `Services` | Two goroutines, four spans, three nested calls, two requests, two messages, two records, three attempts; five programs, each a set of operations that meet (serving with calls, with `Bind`, with skipped paths and files, with messages; statements, AWS and files). About 400,000 states up to symmetry. |
| `Propagation` | Any sequence of up to five traceparent fields, or of up to three tracestate or baggage members, well formed or not, over three hops; two entries, eleven bytes of baggage header, in which three members just fit, four bytes of value, ids of two bytes. So the caps on entries, on the baggage header and on a baggage value are met and passed; the caps of 256 bytes on keys and on tracestate values are not. About 15,000 states. |
| `SpoolLogTorn`, `SpoolLogDropped`, `ClaimProxyCovers`, `BaggageKept` | Each checks one statement of the documentation or of a comment that the code does not keep: section 5. |

Larger instances add no new kind of step: the properties relate at most two batches in
flight, two writers, two messages or a span and its parent, and all of these meet within
the bounds. In `Services` four spans are a function, its client call, the server's and one
below it, or a message published twice and consumed twice.

Fairness. Go schedules every runnable goroutine, so a goroutine inside `add` or
`flushSpanBatch`, an emitter and the proxy have weak fairness. The tickers of `spanLoop`
and `metricsLoop` keep firing (weak), and `select` picks at random among ready cases, so a
cancelled context is seen even if ticks keep coming (strong fairness of `LoopExit`). For
the batch consumer: time passes, and a `select` with the timer's value ready takes it
eventually. For `wallLoop`: no case of its `select` that keeps becoming ready is passed over
for ever (strong fairness of `FlushTick` and `LoopStops`). The proxy's workers finish the
message they are processing, except those that may leave. Nothing is assumed of the
spool, the rest of the application, the broker or the agent: that the spool works again
is a hypothesis of the property (`Settles`), not of the specification.

Deadlock is not checked where the system may really stop: after Shutdown, when there is
nothing left to append, when the claim has ended, or when a bound is reached.

## 4. The proofs

`SpanBufferProofs`, for every finite set of spans, every set of goroutines, every pair of
configured sizes and every default batch size above zero:

| Theorem | Statement |
|---|---|
| `SizesClamped` | the derived batch size and cap are positive and the batch fits under the cap |
| `TypeCorrect` | `Spec => []TypeOK` |
| `BufferBounded` | `Spec => []Bounded` |
| `SpansAccounted` | `Spec => []Accounted` |
| `ShedOnlyAtCap` | `Spec => ShedsOnlyAtCap` |
| `ShutdownClean` | `Spec => CleanShutdown` |
| `BufferImplementsDelivery` | `Spec => Implements` |

`Bounded` is not inductive: that the batch in a goroutine's hand is small
depends on why it was taken, so `BoundInv` adds `Control`, which ties `held` and `all` to
`pc` (a hand is empty outside `add`, `write` and `requeue`, holds one record in `add`, and
only a goroutine inside a flush may be flushing everything). `Accounted` is proved from
`TypeOK` and `Control` by counting: `Unshared` says that the buffer, the hands and the
documents are disjoint and repeat nothing, so a step that moves records from one to another
changes the set of spans accounted for by exactly what it drops; the lemmas `Apart`,
`Rearranged` and `CardinalityOfRange` carry this for each action. `CleanShutdown` needs
`ShutdownInv`: once Main is flushing without its deadline having expired the loop has
exited and its hand stays empty. The refinement uses `Accounted` for the drop count of
`Shed` and `Control` for the batch of `Deliver`.

`SpoolLogProofs`, for every finite set of frames, every set of writers, every segment size
and budget above zero:

| Theorem | Statement |
|---|---|
| `SpoolTypeCorrect` | `Spec => []TypeOK` |
| `GenerationsExclusive` | `Spec => []OneFilePerGeneration` |
| `NewestStays` | `Spec => NewestNeverRecedes` |
| `DropsCountedOnce` | `Spec => []RemovalsCounted` |
| `ReadInRealTimeOrder` | `Spec => []RealTimeOrder` |
| `BudgetKept` | `Spec => []SegmentBudget` |
| `RescansAreProgress` | `Spec => RescansForProgress` |

`FileInv` adds to type correctness and `OneFilePerGeneration` that a writer in `Append`
holds a frame it was called with, and `VictimsOlder`: a generation some writer wants to
remove has a newer one. That survives the removals of others because the newer one,
before it is removed, has a newer one itself; it is why a stale list never removes the
newest segment. `DirectoryStep` reduces every action to one of three changes of the set of
generations. Real-time order needs `OrderInv`: no acknowledged frame is in a writer's
hand (`FramesOnce`), there is a segment once a frame has been acknowledged
(`SegmentsThere`, so a writer that finds the directory empty has nothing to follow), and
the generation a writer has chosen is not below any live segment with a frame its own
must follow (`ChosenLate`), which every step of other writers preserves because what they
add has not been acknowledged yet (`AheadStays`).

`SegmentBudget` compares the number of segments with the number of writers that have
rotated and not yet enforced the budget, and is not inductive: two writers may have
listed the directory before either removed anything, and remove the same victims.
`BudgetInv` therefore speaks of every set S of removing writers: what is left when those
in S have removed their victims exceeds the budget by the writers outside S, and by
enforcements that failed, at most. A new list of victims leaves the `MaxSegments` newest
of what it saw (`FewAreNewest`), whatever the writers in S remove of the rest, and a
writer that has removed its victims can be taken out of every S (`BudgetCarries`).

`RescansForProgress` needs `ListedInv`: a writer whose list of the directory is still
true has chosen the newest segment, or found none (`UpToDate`), so that what sends it
back to list again, a segment that appeared or went, is a change it has not seen.
`ChangesGrow` says that `Changes` counts every such change.

`ClaimProxyProofs`, for every number of messages, workers and proxies: `ProxyInvariant`,
`ProxySwallowsNothing` (`NothingSwallowed`) and `ProxyEndsSpans` (`OneOpenSpan`). `ProxyInv`
says that no proxy runs but the one whose channel the workers hold, that it holds open
the span of the message taken last, and that what it has taken is handed over, but for
the message it offers.

`BatchConsumerProofs`, for every number of messages, all limits and policies:
`BatchHoldsNothingBack` (`NothingHeldBack`), `FlushEndsSpans` (`SpansEndWithFlush`),
`AskersHoldOneSpan` (`OneRunningPerAsker`), `AgedFlushes` (`AgedFlushesAreOld`) and
`FlushesInOrder` (`FlushedOnceInOrder`).
`BatchInv` adds that nothing is accumulated outside the select, that a flush is of some
messages and `Each` within them, and that the timer's value is always younger than the
last setting of the timer. `FlushesInOrder` needs `InOrder`: the flushes one after the
other and then what is accumulated are the messages taken, in order, and what is
accumulated was within the limits before its last message, whether it is flushed now or
later. That a flush appends its messages to the flattened flushes is `FlattenGrows`.

`ProfileBuffersProofs`, for every finite set of stacks, every finite set of callers of
`FlushProfiles` and every setting of the limits:

| Theorem | Statement |
|---|---|
| `ProfilesTypeCorrect` | `Spec => []TypeOK` |
| `WallChargedOnce` | `Spec => []ChargedOnce` |
| `OffCPUIsWall` | `Spec => []OffCPUWithinWall` |
| `WaitsKeptOnce` | `Spec => []WaitsOnce` |

`Base` adds to the types what a goroutine has still to write where it is (`Pending`): in a
flush of the sampler, documents in which a stack has one sample per series, with the same
ticks in both, WALL before OFF_CPU (`WallRest`); in a flush of the recorder, documents with
each wait once (`IORest`); elsewhere nothing. That a drain produces such documents is
arithmetic: the j-th sample of the i-th document is at `Place(i, j)` of the samples, each
place is in some document (`ChunksCover`) and in one only (`PlacesApart`). `ChargedOnce`
follows by counting, each step changing one goroutine's term of a sum (`TotalsChange`).
`OffCPUWithinWall` is not inductive: between the two series the spool shows wall ticks
whose off-CPU part is still to come. `StackOwed` says that the wall ticks in the spool
cover the off-CPU ones and those that are owed, in flight without their wall ticks; a
refused write drops them and owes nothing. `WaitsOnce` needs `WaitPlaced`: a wait in the
buffer has no holder and is not in the spool, one in a flush has one holder, and a call
not yet made is nowhere. The snapshot and the selection of samples are recursive functions
over a sequence; that these have a value at every place is `PathExists`.

`RuntimeMetricsProofs`, for every finite number of requests, recorders and emitters:
`MetricsInvariant`, `RequestsCountedOnce` (`RequestsOnce`) and `RuntimeWindows`
(`WindowsAddUp`). `MetricsInv` adds that an emitter's point is zero in what it has not
reached (`PointsFill`), that what an emitter has read of the runtime's totals is not ahead of
them (`SeenBefore`), and that while no emitters have overlapped at most one of them is
between its reads and its swap (`OneReads`). `RequestsOnce` is a sum over all recorders
and emitters, so each step is a change in one term (`SumChanges` of `Sums`).

`ServicesProofs`, for every number of goroutines, spans, calls and messages:
`TraceInvariant`, `TraceIsOne` (`OneTrace`), `ParentCaused` (`ParentIsCause`),
`OutcomesTold` (`OutcomeTold`) and `OpenIsOnStack` (`OpenOnStack`). `TraceInv` says of
every place where a context can be, a frame (`StacksOK`), a function bound to a request
(`BoundOK`), a wire (`WireOK`), a message (`MessagesOK`) or a request being served
(`ServingOK`), that it names a span which exists, with the trace, the sampling decision
and the companions that span has; `StoreOK` says that each span agrees with its parent. A span's
identity never changes once it is started (`Grows`), so that a step has only to be proved
for the frames and carriers it touches; there is one lemma for each action of `Tracing`,
`Http`, `Messaging` and `Clients`.

`Sums` proves that a sum over a finite set changes, when the function changes in one
point, by the change there (`SumChanges`), that a sum with one term is that term, and that
a sum of naturals is one. Its definition by the
community modules is recursive and the library's induction theorems take an operator as
a parameter, which the provers cannot instantiate; the proofs, like those on
`FlattenSeq` in `BatchConsumerProofs` and on the recursive functions of `ProfileBuffers`, argue from a smallest set, or length, for which
the statement fails (`Smallest`, from well-founded induction on the naturals as a
relation).

Assumptions: the `ASSUME`s of the modules proved about, which TLC evaluates on each run.

Model-checked only: liveness (fairness and ENABLED are out of the prover's reach), that is
`Settles`, `ShutdownReturns`, `ClaimSettles`, `EventuallyFlushed`, `Drained`,
`ShutdownDrains` and `WaitsLeave`;
and `Propagation`, whose properties speak of decoded text on recursive definitions.

## 5. What the checks found

Where a run shows that the code does not do what a comment or the documentation says:

* **A torn frame hides later ones** (`SpoolLogTorn`). After a partial write the next append
  goes behind the torn frame and is acknowledged; decoding stops before it.
* **Dropped documents are counted by the segment** (`SpoolLogDropped`). `Dropped()` is
  said to report frames (`segment.go:61-62`); `enforceSegmentBudget` adds one for a whole
  segment (`segment.go:218`), so that a segment of any number of acknowledged documents
  disappears for a count of one. The same comment says that a frame which "could not be
  written atomically" is counted. It is not: `Write` reports a short count together with
  an error, and `Append` returns on the error (`segment.go:260-262`) before it comes to the
  branch that counts (`:263-266`). No run shows that half, because `WriteTorn` is also a
  killed process, which can count nothing. And a writer that stalls before its write while
  its segment is dropped writes into the removed file, and acknowledges a document that
  neither the directory nor the count knows of. `RemovalsCounted`, which holds, says only
  that racing writers count each removal once.
* **Process spans end early** (`ClaimProxyCovers`). The proxy receives the next message as
  soon as the broker has it, not when the handler asks, and ends the span then. On a busy
  partition the span covers the hand-over rather than the processing.
* **Forwarded baggage is dropped later** (`BaggageKept`). The limit of 8192 bytes is
  checked on the header that comes in, and escaping can lengthen the one that goes out;
  the next hop drops it as a whole.

Stated in the properties as exceptions, with no run of their own:

* A writer that found the directory empty and stalls can create generation 1 again after
  it has been retired, without enforcing the budget (last term of `SegmentBudget`).
* In a directory that cannot be listed, an append goes to generation 1, behind newer
  frames (`RealTimeOrder` assumes `~blind`), and if generation 1 exists `openActive` spins.
* Without background loops, a buffer filled by an outage stays full: at the cap `add`
  returns before it compares with the batch size, so no later span triggers a flush
  (`Settles` speaks of a client with its loops).
* Two failed flushes put their batches back newest first (`span_buffer.go:108` says
  otherwise). `Accounted` holds in any order, and nothing reads the order.
* Emitters that overlap may count the same collections twice (`WindowsAddUp` assumes they
  do not); a counter drained into a point the spool refuses is lost with it.
* A handler that flushes and then writes 500 is recorded as an error, though its client
  got 200; a final status after a 1xx one is dropped by the recorder, so that the client
  gets 200 for it (`OutcomeTold` excepts handlers recorded as errors).
* `instrumentedFS.Open` runs a failed open again to get its error; the second attempt may
  succeed, and the span says "error" then (`OutcomeTold` excepts it). Its span is a root.
* A message published a second time keeps its first traceparent and takes tracestate and
  baggage of the second publish if the first had none (`OneTrace`).
* The last attempt of an AWS call may have no response; the span shows the code of an
  earlier one beside its error.
* A panic leaves the spans of `File`, `Open`, `RoundTrip`, `SendMessages`, AWS calls and
  statements run directly for ever open: they are never recorded (`OpenOnStack`).

Read in the code on the way, outside what the models can tell apart: at 64 attributes
`SetAttribute` refuses even to overwrite one (`tracing.go:103`); capturing a request body
hands the handler only what was captured (`http.go:59`); `WaitMilliseconds` accepts NaN
(`propagation.go:444`); frames inlined into one another come out in the order of the
profile, against "root-first" (`profiling.go:312`); a driver registered by one client
records to that client when a second one opens it (`sql.go:49`).

## 6. What is not modelled

Attributes of spans other than the status, and with them the limit of 64; the contents
of records and frames; formatting, names of files, timestamps; captured headers and
bodies; `Hijack`; SQL text, DSNs and parameters, which become attributes; the conversion of pprof
profiles and `classifyWait`; the arithmetic of `WaitMilliseconds` on floats;
`Exec` and `Query` of a statement without a context, which never trace; transactions; the
registration of drivers and the cache of DSNs; logging; configuration; `profileLoop`,
which sleeps and calls pprof; the default client. `WriteDocumentFile` has no caller.
`Append`'s `Stat` on its open descriptor is taken to succeed. nil Kafka messages, which
sarama does not deliver, are left out of `ClaimProxy` and `BatchConsumer`. An inert client
(disabled, or without a spool directory) does nothing. `PROJECT.json` gives the status of
every component.

## 7. The plan

What is worth doing next, in this order:

1. An abstract log for `SpoolLog` (append, read in order, retire from the front) and the
   proof that it is implemented where the directory can be listed.
2. `StackClasses` (`classifyWait`) and `PprofSamples` (`NormalizePprof`) against reference
   definitions over bounded inputs; statement text and DSN passwords in the same way.
3. `SpanBuffer` over `SpoolLog`, so that refused writes and torn frames meet the retry.
