--------------------------- MODULE ProfileBuffers ---------------------------
(***************************************************************************)
(* The buffered profiles of the client: the wall sampler (profile_wall.go) *)
(* and the I/O recorder (profile_io.go), with the goroutines that flush    *)
(* them: wallLoop, callers of FlushProfiles, and Shutdown (client.go).     *)
(* drain runs under a buffer's mutex and is one step; the writes after it  *)
(* do not, and several flushes may be in flight at once.                   *)
(*                                                                         *)
(* A stack is classified by the sets it belongs to (classifyWait).  What   *)
(* nobody reads is left out: the counts of dropped stacks and waits, which *)
(* the flush discards, and the sampler's count of ticks.                   *)
(***************************************************************************)
EXTENDS Integers, Sequences, FiniteSets, SequencesExt, Functions

CONSTANTS
  Running,            \* application stacks found running
  Blocked,            \* application stacks parked in I/O, on a lock or asleep
  Idle,               \* application stacks parked on a channel or in accept
  Foreign,            \* stacks of the runtime or of the profiler itself
  WallExcludeIdle,    \* Config.WallExcludeIdle
  WallMaxStacks,      \* Config.WallMaxStacks
  IOMaxSamples,       \* Config.IOMaxSamples
  ProfileBatchSize,   \* Config.ProfileBatchSize
  Callers,            \* calls of FlushProfiles by the application, one goroutine each
  Loop,               \* the wallLoop goroutine
  Main,               \* the goroutine that calls Shutdown
  MaxLive,            \* bound: goroutines in a snapshot
  MaxInputs           \* bound: snapshots and calls of RecordIOWait together

Stacks == Running \cup Blocked \cup Idle \cup Foreign
Procs == Callers \cup {Loop, Main}

ASSUME StacksAssumption ==
  /\ IsFiniteSet(Stacks)
  /\ Running \cap (Blocked \cup Idle \cup Foreign) = {}
  /\ Blocked \cap (Idle \cup Foreign) = {}
  /\ Idle \cap Foreign = {}

ASSUME ProfileProcsAssumption ==
  IsFiniteSet(Callers) /\ Loop # Main /\ {Loop, Main} \cap Callers = {}

\* applyProfileDefaults leaves no limit at zero.
ASSUME ProfileLimitsAssumption ==
  /\ {WallMaxStacks, IOMaxSamples, ProfileBatchSize} \subseteq Nat \ {0}
  /\ {MaxLive, MaxInputs} \subseteq Nat
  /\ WallExcludeIdle \in BOOLEAN

VARIABLES
  buckets,    \* wallSampler.buckets: the ticks of each stack of this window
  waits,      \* ioRecorder.waits; a wait is named by the number of its call
  pc,         \* where each goroutine is
  todo,       \* the documents of a flush that are still to be written
  stopping,   \* has wallLoop left its select for its deferred flushes?
  cancelled,  \* has Shutdown cancelled the loops' context?
  charged,    \* the ticks of each stack in the documents the spool accepted
  spooled,    \* how often each wait is in the documents the spool accepted
  snapshots,  \* snapshots taken
  recorded,   \* calls of RecordIOWait
  banked,     \* ticks ever banked for each stack
  refused     \* has the spool refused a document?

writtenVars == <<charged, spooled>>
countVars == <<snapshots, recorded, banked>>
vars == <<buckets, waits, pc, todo, stopping, cancelled, writtenVars, countVars, refused>>

-----------------------------------------------------------------------------
(* Documents. *)

StackSeries == {"go-wall", "go-offcpu"}

\* A document holds samples of one series: stacks with their ticks, or waits.
Documents ==
  [series : StackSeries, samples : Seq([stack : Stacks, ticks : Nat \ {0}])]
    \cup [series : {"go-io"}, samples : Seq([wait : 1..MaxInputs])]

Lesser(m, n) == IF m <= n THEN m ELSE n

\* writeProfileSamples: at most ProfileBatchSize samples in a document.
Chunks(series, samples) ==
  LET count == (Len(samples) + ProfileBatchSize - 1) \div ProfileBatchSize
  IN [i \in 1..count |->
       [series |-> series,
        samples |-> SubSeq(samples, (i - 1) * ProfileBatchSize + 1,
                           Lesser(i * ProfileBatchSize, Len(samples)))]]

\* samplesForFrames: the stacks with a WALL sample, and with an OFF_CPU one.
WallStacks == Running \cup Blocked \cup (IF WallExcludeIdle THEN {} ELSE Idle)
OffCPUStacks == WallStacks \ Running

-----------------------------------------------------------------------------
NoBuckets == [s \in {} |-> 0]

\* The ticks of WallMaxStacks stacks at most.
IsWindow(window) ==
  /\ window \in [DOMAIN window -> Nat \ {0}]
  /\ DOMAIN window \subseteq Stacks
  /\ Cardinality(DOMAIN window) <= WallMaxStacks

TypeOK ==
  /\ IsWindow(buckets)
  /\ waits \in Seq([wait : 1..recorded])
  /\ Len(waits) <= IOMaxSamples
  /\ pc \in [Procs -> {"idle", "wait", "wall", "writeWall", "io", "writeIO",
                       "exited", "returned", "failed"}]
  /\ todo \in [Procs -> Seq(Documents)]
  /\ \A p \in Procs : \A i \in DOMAIN todo[p] :
       Len(todo[p][i].samples) \in 1..ProfileBatchSize
  /\ stopping \in BOOLEAN
  /\ cancelled \in BOOLEAN
  /\ charged \in [StackSeries -> [Stacks -> Nat]]
  /\ spooled \in [1..MaxInputs -> Nat]
  /\ snapshots \in Nat
  /\ recorded \in Nat
  /\ snapshots + recorded <= MaxInputs
  /\ banked \in [Stacks -> Nat]
  /\ refused \in BOOLEAN

Init ==
  /\ buckets = NoBuckets
  /\ waits = <<>>
  /\ pc = [p \in Procs |-> "idle"]
  /\ todo = [p \in Procs |-> <<>>]
  /\ stopping = FALSE
  /\ cancelled = FALSE
  /\ charged = [series \in StackSeries |-> [s \in Stacks |-> 0]]
  /\ spooled = [w \in 1..MaxInputs |-> 0]
  /\ snapshots = 0
  /\ recorded = 0
  /\ banked = [s \in Stacks |-> 0]
  /\ refused = FALSE

-----------------------------------------------------------------------------
(* Filling the buffers. *)

\* Mutant: the cap on distinct stacks is compared with > instead of >=.
BankOverCap(window, s) ==
  IF s \in DOMAIN window THEN [window EXCEPT ![s] = @ + 1]
  ELSE IF Cardinality(DOMAIN window) > WallMaxStacks THEN window
  ELSE [t \in DOMAIN window \cup {s} |-> IF t = s THEN 1 ELSE window[t]]

\* wallSampler.sample, one record: a stack that has a bucket gets a tick, a new
\* one gets a bucket unless there are WallMaxStacks already.
Bank(window, s) ==
  IF s \in DOMAIN window THEN [window EXCEPT ![s] = @ + 1]
  ELSE IF Cardinality(DOMAIN window) >= WallMaxStacks THEN window
  ELSE [t \in DOMAIN window \cup {s} |-> IF t = s THEN 1 ELSE window[t]]

\* All records of a snapshot, in their order.
BankAll(window, records) ==
  LET after[i \in 0..Len(records)] ==
        IF i = 0 THEN window ELSE Bank(after[i - 1], records[i])
  IN after[Len(records)]

TicksIn(window, s) == IF s \in DOMAIN window THEN window[s] ELSE 0

\* wallLoop's select takes a sample tick.
Sample(records) ==
  /\ pc[Loop] = "idle"
  /\ snapshots + recorded < MaxInputs
  /\ snapshots' = snapshots + 1
  /\ buckets' = BankAll(buckets, records)
  /\ banked' = [s \in Stacks |->
                  banked[s] + TicksIn(buckets', s) - TicksIn(buckets, s)]
  /\ UNCHANGED <<waits, pc, todo, stopping, cancelled, writtenVars, recorded, refused>>

\* A call that took IOMinWait or longer, from any goroutine; at the cap it is
\* dropped.
RecordIOWait ==
  /\ snapshots + recorded < MaxInputs
  /\ recorded' = recorded + 1
  /\ waits' = IF Len(waits) < IOMaxSamples THEN Append(waits, [wait |-> recorded'])
              ELSE waits
  /\ UNCHANGED <<buckets, pc, todo, stopping, cancelled, writtenVars, snapshots, banked, refused>>

-----------------------------------------------------------------------------
(* FlushProfiles: flushWallProfiles, then flushIOProfiles. *)

Goto(p, loc) == pc' = [pc EXCEPT ![p] = loc]

\* p's flush is over.
FlushReturns(p, ok) ==
  Goto(p, IF p = Loop THEN (IF stopping THEN "exited" ELSE "idle")
                      ELSE (IF ok THEN "returned" ELSE "failed"))

\* drain sorts the buckets by ticks, most first; sort.Slice is not stable.
Sorted(window) ==
  {order \in SetToSeqs(DOMAIN window) :
     \A i \in 1..(Len(order) - 1) : window[order[i]] >= window[order[i + 1]]}

StackSample(window, s) == [stack |-> s, ticks |-> window[s]]

\* The samples of those stacks that are in selected (wallSamplesFrom).
SamplesOf(window, order, selected) ==
  LET after[i \in 0..Len(order)] ==
        IF i = 0 THEN <<>>
        ELSE IF order[i] \in selected
          THEN Append(after[i - 1], StackSample(window, order[i]))
        ELSE after[i - 1]
  IN after[Len(order)]

\* Mutant: the OFF_CPU documents are written before the WALL ones.
WallDocumentsReversed(window, order) ==
  Chunks("go-offcpu", SamplesOf(window, order, OffCPUStacks))
    \o Chunks("go-wall", SamplesOf(window, order, WallStacks))

\* The documents flushWallProfiles writes, in order.
WallDocuments(window, order) ==
  Chunks("go-wall", SamplesOf(window, order, WallStacks))
    \o Chunks("go-offcpu", SamplesOf(window, order, OffCPUStacks))

\* Mutant: drain does not reset the accumulator.
DrainWallKeeps(p) ==
  /\ pc[p] = "wall"
  /\ \E order \in Sorted(buckets) :
       todo' = [todo EXCEPT ![p] = WallDocuments(buckets, order)]
  /\ Goto(p, IF todo'[p] = <<>> THEN "io" ELSE "writeWall")
  /\ UNCHANGED <<buckets, waits, stopping, cancelled, writtenVars, countVars, refused>>

DrainWall(p) ==
  /\ pc[p] = "wall"
  /\ \E order \in Sorted(buckets) :
       todo' = [todo EXCEPT ![p] = WallDocuments(buckets, order)]
  /\ buckets' = NoBuckets
  /\ Goto(p, IF todo'[p] = <<>> THEN "io" ELSE "writeWall")
  /\ UNCHANGED <<waits, stopping, cancelled, writtenVars, countVars, refused>>

\* Mutant: drain does not reset the waits.
DrainIOKeeps(p) ==
  /\ pc[p] = "io"
  /\ todo' = [todo EXCEPT ![p] = Chunks("go-io", waits)]
  /\ IF waits = <<>> THEN FlushReturns(p, TRUE) ELSE Goto(p, "writeIO")
  /\ UNCHANGED <<buckets, waits, stopping, cancelled, writtenVars, countVars, refused>>

DrainIO(p) ==
  /\ pc[p] = "io"
  /\ todo' = [todo EXCEPT ![p] = Chunks("go-io", waits)]
  /\ waits' = <<>>
  /\ IF waits = <<>> THEN FlushReturns(p, TRUE) ELSE Goto(p, "writeIO")
  /\ UNCHANGED <<buckets, stopping, cancelled, writtenVars, countVars, refused>>

\* The ticks of s in a document of stacks.
TicksOf(s, d) ==
  SumFunction([j \in DOMAIN d.samples |->
                IF d.samples[j].stack = s THEN d.samples[j].ticks ELSE 0])

WriteAccepted(p) ==
  /\ pc[p] \in {"writeWall", "writeIO"}
  /\ LET d == Head(todo[p])
     IN IF d.series = "go-io"
          THEN /\ spooled' = [w \in 1..MaxInputs |->
                               spooled[w] + IF [wait |-> w] \in ToSet(d.samples) THEN 1 ELSE 0]
               /\ UNCHANGED charged
          ELSE /\ charged' = [charged EXCEPT ![d.series] =
                               [s \in Stacks |-> @[s] + TicksOf(s, d)]]
               /\ UNCHANGED spooled
  /\ todo' = [todo EXCEPT ![p] = Tail(@)]
  /\ IF todo'[p] # <<>> THEN UNCHANGED pc
     ELSE IF pc[p] = "writeWall" THEN Goto(p, "io")
     ELSE FlushReturns(p, TRUE)
  /\ UNCHANGED <<buckets, waits, stopping, cancelled, countVars, refused>>

\* The error ends the flush of this buffer: what is still to be written is
\* lost.  wallLoop logs it and flushes the other buffer, FlushProfiles returns.
WriteRefused(p) ==
  /\ pc[p] \in {"writeWall", "writeIO"}
  /\ refused' = TRUE
  /\ todo' = [todo EXCEPT ![p] = <<>>]
  /\ IF p = Loop /\ pc[p] = "writeWall" THEN Goto(p, "io") ELSE FlushReturns(p, FALSE)
  /\ UNCHANGED <<buckets, waits, stopping, cancelled, writtenVars, countVars>>

Flush(p) == DrainWall(p) \/ DrainIO(p) \/ WriteAccepted(p) \/ WriteRefused(p)

-----------------------------------------------------------------------------
(* Who flushes. *)

FlushProfiles(p) ==
  /\ p \in Callers
  /\ pc[p] = "idle"
  /\ Goto(p, "wall")
  /\ UNCHANGED <<buckets, waits, todo, stopping, cancelled, writtenVars, countVars, refused>>

\* Mutant: the flush tick is skipped while the sampler has nothing.
FlushTickIfTicks ==
  /\ pc[Loop] = "idle"
  /\ Goto(Loop, IF DOMAIN buckets # {} THEN "wall" ELSE "idle")
  /\ UNCHANGED <<buckets, waits, todo, stopping, cancelled, writtenVars, countVars, refused>>

\* wallLoop's select takes a flush tick ...
FlushTick ==
  /\ pc[Loop] = "idle"
  /\ Goto(Loop, "wall")
  /\ UNCHANGED <<buckets, waits, todo, stopping, cancelled, writtenVars, countVars, refused>>

\* Mutant: wallLoop returns without its deferred flushes.
LoopReturns ==
  /\ pc[Loop] = "idle"
  /\ cancelled
  /\ stopping' = TRUE
  /\ Goto(Loop, "exited")
  /\ UNCHANGED <<buckets, waits, todo, cancelled, writtenVars, countVars, refused>>

\* ... or the end of the context: the deferred function flushes both buffers.
LoopStops ==
  /\ pc[Loop] = "idle"
  /\ cancelled
  /\ stopping' = TRUE
  /\ Goto(Loop, "wall")
  /\ UNCHANGED <<buckets, waits, todo, cancelled, writtenVars, countVars, refused>>

Shutdown ==
  /\ pc[Main] = "idle"
  /\ cancelled' = TRUE
  /\ Goto(Main, "wait")
  /\ UNCHANGED <<buckets, waits, todo, stopping, writtenVars, countVars, refused>>

\* wg.Wait returned, or Shutdown's own context expired before the loop exited:
\* Client.Flush.  FlushSpans (module SpanBuffer) comes first, and its error ends
\* the flush.
ShutdownFlushes ==
  /\ pc[Main] = "wait"
  /\ \E ok \in BOOLEAN : Goto(Main, IF ok THEN "wall" ELSE "failed")
  /\ UNCHANGED <<buckets, waits, todo, stopping, cancelled, writtenVars, countVars, refused>>

-----------------------------------------------------------------------------
Snapshots == UNION {[1..n -> Stacks] : n \in 1..MaxLive}

Next ==
  \/ \E records \in Snapshots : Sample(records)
  \/ RecordIOWait
  \/ \E p \in Procs : Flush(p) \/ FlushProfiles(p)
  \/ FlushTick
  \/ LoopStops
  \/ Shutdown
  \/ ShutdownFlushes

Spec == Init /\ [][Next]_vars

(***************************************************************************)
(* Fairness.  A goroutine inside a flush keeps running.  The flush ticker  *)
(* keeps firing, and select picks at random among the cases that are       *)
(* ready, so that no case is passed over for ever, hence SF.  Nothing is   *)
(* assumed of the spool, of the application or of Shutdown.                *)
(***************************************************************************)
Fairness ==
  /\ \A p \in Procs : WF_vars(Flush(p))
  /\ SF_vars(FlushTick)
  /\ SF_vars(LoopStops)

FairSpec == Spec /\ Fairness

-----------------------------------------------------------------------------
(* Properties. *)

\* The ticks of s in those documents that are of a series.
SeriesTicks(series, s, documents) ==
  SumFunction([i \in DOMAIN documents |->
                IF documents[i].series = series THEN TicksOf(s, documents[i]) ELSE 0])

\* The WALL ticks of s in flushes in flight.
InFlight(s) == SumFunction([p \in Procs |-> SeriesTicks("go-wall", s, todo[p])])

\* Wall time is charged once: however the flushes of wallLoop, FlushProfiles and
\* Shutdown interleave, a tick banked for an application stack reaches at most
\* one WALL document, and is lost only when the spool refuses one (drain,
\* flushWallProfiles, writeProfileSamples).
ChargedOnce ==
  \A s \in Stacks :
    IF s \notin WallStacks THEN charged["go-wall"][s] = 0
    ELSE LET known == TicksIn(buckets, s) + InFlight(s) + charged["go-wall"][s]
         IN known <= banked[s] /\ (~refused => known = banked[s])

\* Off-CPU time is a part of wall time: at any moment the spool shows no more
\* off-CPU than wall ticks for a stack, although the two series are written one
\* after the other and either write may fail (flushWallProfiles).
OffCPUWithinWall ==
  \A s \in Stacks : charged["go-offcpu"][s] <= charged["go-wall"][s]

HeldWaits(p) ==
  UNION {ToSet(todo[p][i].samples) : i \in {j \in 1..Len(todo[p]) : todo[p][j].series = "go-io"}}

\* A measured wait is in one place at most, the buffer, a flush or the spool,
\* and in the spool once (drain, flushIOProfiles).
WaitsOnce ==
  \A w \in 1..MaxInputs :
    LET buffered == Cardinality({i \in 1..Len(waits) : waits[i].wait = w})
        held == Cardinality({p \in Procs : [wait |-> w] \in HeldWaits(p)})
    IN buffered + held + spooled[w] <= 1

\* After Shutdown the sampler ends up empty for good, even when Shutdown gave up
\* waiting, or its flush stopped at an error before it came to the profiles
\* (wallLoop's deferred function).
ShutdownDrains == cancelled ~> [](DOMAIN buckets = {})

\* A measured wait leaves memory while the loop runs, whatever becomes of the
\* wall samples flushed before it (wallLoop).
WaitsLeave ==
  \A w \in [wait : 1..MaxInputs] :
    w \in ToSet(waits) ~> (w \notin ToSet(waits) \/ cancelled)
=============================================================================
