------------------------------ MODULE SpoolLog ------------------------------
(***************************************************************************)
(* The framed, append-only spool log of one directory (spool/segment.go):  *)
(* writers, which may be goroutines or separate processes, append frames   *)
(* to the newest segment, rotate it when it is full and drop the oldest    *)
(* segments over the budget; the agent, an external reader, retires        *)
(* segments it has read.                                                   *)
(*                                                                         *)
(* One action is one system call.  A file is kept after its directory      *)
(* entry is removed, because a writer may still hold its descriptor; files *)
(* is the sequence of all files ever created, oldest first.  A segment's   *)
(* size is counted in frames.                                              *)
(***************************************************************************)
EXTENDS Integers, Sequences, FiniteSets, Functions

CONSTANTS
  Frames,            \* documents to append, each by one call of Append
  Oversized,         \* those EncodeFrame refuses
  NoFrame,           \* no document: what an idle writer appends
  Writers,           \* goroutines and processes that append
  SegmentMaxFrames,  \* SegmentMaxBytes, in frames
  MaxSegments,       \* the segment budget
  ReadDirFails       \* are there directories that cannot always be listed?

ASSUME FramesAssumption ==
  /\ IsFiniteSet(Frames)
  /\ Oversized \subseteq Frames
  /\ NoFrame \notin Frames

ASSUME LimitsAssumption ==
  /\ SegmentMaxFrames \in Nat \ {0}
  /\ MaxSegments \in Nat \ {0}
  /\ ReadDirFails \in BOOLEAN

VARIABLES
  files,     \* every file created: generation, fate and entries
  pc,        \* where each writer is in Append
  frame,     \* the frame it appends
  gen,       \* the generation it chose
  fd,        \* the file its descriptor refers to, an index of files
  rotated,   \* has this Append been through rotate?
  victims,   \* generations enforceSegmentBudget still has to remove
  listed,    \* how often the directory had changed when openActive last listed it
  dropped,   \* droppedFrames, summed over the processes
  blind,     \* may listing the directory fail?
  missed,    \* how often enforceSegmentBudget failed to do its work
  called,    \* frames Append was called with
  acked,     \* frames Append returned nil for
  before     \* frames acknowledged when a frame's Append was called

fileVars == <<files, dropped, missed, blind>>
callVars == <<called, acked, before>>
localVars == <<frame, gen, fd, rotated, victims, listed>>
vars == <<fileVars, pc, localVars, callVars>>

\* A directory entry is present (live) until the agent retires the segment or
\* a writer drops it to enforce the budget.
Fates == {"live", "retired", "dropped"}

\* A torn entry is what a failed write left of a frame.
Entries == [frame : Frames, torn : BOOLEAN]

Files == [gen : Nat \ {0}, fate : Fates, entries : Seq(Entries)]

Locations == {"idle", "scan", "open", "create", "stat", "rotate", "budget", "remove", "write"}

TypeOK ==
  /\ files \in Seq(Files)
  /\ pc \in [Writers -> Locations]
  /\ frame \in [Writers -> Frames \cup {NoFrame}]
  /\ gen \in [Writers -> Nat]
  /\ fd \in [Writers -> Nat]
  /\ rotated \in [Writers -> BOOLEAN]
  /\ victims \in [Writers -> SUBSET Nat]
  /\ listed \in [Writers -> Nat]
  /\ blind \in BOOLEAN
  /\ dropped \in Nat
  /\ missed \in Nat
  /\ called \subseteq Frames
  /\ acked \subseteq called
  /\ before \in [Frames -> SUBSET Frames]

Init ==
  /\ files = <<>>
  /\ pc = [w \in Writers |-> "idle"]
  /\ frame = [w \in Writers |-> NoFrame]
  /\ gen = [w \in Writers |-> 0]
  /\ fd = [w \in Writers |-> 0]
  /\ rotated = [w \in Writers |-> FALSE]
  /\ victims = [w \in Writers |-> {}]
  /\ listed = [w \in Writers |-> 0]
  /\ blind \in {FALSE, ReadDirFails}
  /\ dropped = 0
  /\ missed = 0
  /\ called = {}
  /\ acked = {}
  /\ before = [f \in Frames |-> {}]

-----------------------------------------------------------------------------
(* The directory. *)

Live == {i \in 1..Len(files) : files[i].fate = "live"}

Generations == {files[i].gen : i \in Live}

IsNewest(g) == g \in Generations /\ \A h \in Generations : h <= g

\* How often a directory entry has been created or removed.
Changes == Len(files) + Cardinality(1..Len(files) \ Live)

FileOf(g) == CHOOSE i \in Live : files[i].gen = g

\* A new directory entry for generation g and an empty file behind it.
Create(g) == files' = Append(files, [gen |-> g, fate |-> "live", entries |-> <<>>])

\* Removing the directory entry of generation g leaves the file to whoever
\* has it open.
Unlink(g, fate) == files' = [files EXCEPT ![FileOf(g)].fate = fate]

-----------------------------------------------------------------------------
(* Append. *)

Goto(w, loc) == pc' = [pc EXCEPT ![w] = loc]

\* Append returns: its locals go out of scope.
Return(w) ==
  /\ Goto(w, "idle")
  /\ frame' = [frame EXCEPT ![w] = NoFrame]
  /\ gen' = [gen EXCEPT ![w] = 0]
  /\ fd' = [fd EXCEPT ![w] = 0]
  /\ rotated' = [rotated EXCEPT ![w] = FALSE]
  /\ victims' = [victims EXCEPT ![w] = {}]
  /\ listed' = [listed EXCEPT ![w] = 0]

\* EncodeFrame refuses the document: it is discarded and counted.
AppendRefused(w, f) ==
  /\ pc[w] = "idle"
  /\ f \in Oversized \ called
  /\ called' = called \cup {f}
  /\ dropped' = dropped + 1
  /\ UNCHANGED <<files, missed, blind, pc, localVars, acked, before>>

AppendCalled(w, f) ==
  /\ pc[w] = "idle"
  /\ f \in Frames \ (Oversized \cup called)
  /\ called' = called \cup {f}
  /\ before' = [before EXCEPT ![f] = acked]
  /\ frame' = [frame EXCEPT ![w] = f]
  /\ Goto(w, "scan")
  /\ UNCHANGED <<fileVars, gen, fd, rotated, victims, listed, acked>>

\* Mutant: the log is appended to at its oldest segment.
ScanOldest(w) ==
  /\ pc[w] = "scan"
  /\ \/ /\ Generations = {}
        /\ gen' = [gen EXCEPT ![w] = 1]
        /\ Goto(w, "create")
     \/ \E g \in Generations :
          /\ \A h \in Generations : g <= h
          /\ gen' = [gen EXCEPT ![w] = g]
          /\ Goto(w, "open")
  /\ listed' = [listed EXCEPT ![w] = Changes]
  /\ UNCHANGED <<fileVars, frame, fd, rotated, victims, callVars>>

\* openActive lists the directory: append to the newest segment, or create the
\* first one.  Generations does not tell an unreadable directory from an empty
\* one.
Scan(w) ==
  /\ pc[w] = "scan"
  /\ \/ /\ Generations = {} \/ blind
        /\ gen' = [gen EXCEPT ![w] = 1]
        /\ Goto(w, "create")
     \/ \E g \in Generations :
          /\ IsNewest(g)
          /\ gen' = [gen EXCEPT ![w] = g]
          /\ Goto(w, "open")
  /\ listed' = [listed EXCEPT ![w] = Changes]
  /\ UNCHANGED <<fileVars, frame, fd, rotated, victims, callVars>>

\* openActive returned file i.  Append stats the file it opened first, and
\* writes to the one rotate gave it without another look.
Opened(w, i) ==
  /\ fd' = [fd EXCEPT ![w] = i]
  /\ Goto(w, IF rotated[w] THEN "write" ELSE "stat")

\* Mutant: the first segment is number 0.
CreateZero(w) ==
  /\ pc[w] = "create"
  /\ IF 0 \in Generations
       THEN Goto(w, "scan") /\ UNCHANGED <<files, fd>>
       ELSE Create(0) /\ Opened(w, Len(files) + 1)
  /\ UNCHANGED <<dropped, missed, blind, frame, gen, rotated, victims, listed, callVars>>

\* O_CREATE|O_EXCL of the first generation; if it exists, rescan.
CreateFirst(w) ==
  /\ pc[w] = "create"
  /\ IF 1 \in Generations
       THEN Goto(w, "scan") /\ UNCHANGED <<files, fd>>
       ELSE Create(1) /\ Opened(w, Len(files) + 1)
  /\ UNCHANGED <<dropped, missed, blind, frame, gen, rotated, victims, listed, callVars>>

\* Opening the chosen segment; if it is gone, rescan.
Open(w) ==
  /\ pc[w] = "open"
  /\ IF gen[w] \in Generations
       THEN Opened(w, FileOf(gen[w]))
       ELSE Goto(w, "scan") /\ UNCHANGED fd
  /\ UNCHANGED <<fileVars, frame, gen, rotated, victims, listed, callVars>>

\* Mutant: a writer that finds the segment full looks for the next one, which
\* nobody has created.
StatRescans(w) ==
  /\ pc[w] = "stat"
  /\ Goto(w, IF Len(files[fd[w]].entries) >= SegmentMaxFrames /\ ~rotated[w] THEN "scan" ELSE "write")
  /\ UNCHANGED <<fileVars, localVars, callVars>>

Stat(w) ==
  /\ pc[w] = "stat"
  /\ Goto(w, IF Len(files[fd[w]].entries) >= SegmentMaxFrames THEN "rotate" ELSE "write")
  /\ UNCHANGED <<fileVars, localVars, callVars>>

\* Mutant: the next generation is created without O_EXCL's check.
RotateUnchecked(w) ==
  /\ pc[w] = "rotate"
  /\ rotated' = [rotated EXCEPT ![w] = TRUE]
  /\ Create(gen[w] + 1)
  /\ fd' = [fd EXCEPT ![w] = Len(files) + 1]
  /\ Goto(w, "budget")
  /\ UNCHANGED <<dropped, missed, blind, frame, gen, victims, listed, callVars>>

\* rotate: O_EXCL lets one writer create the next generation; the others go
\* back to openActive.
Rotate(w) ==
  /\ pc[w] = "rotate"
  /\ rotated' = [rotated EXCEPT ![w] = TRUE]
  /\ IF gen[w] + 1 \in Generations
       THEN Goto(w, "scan") /\ UNCHANGED <<files, fd>>
       ELSE /\ Create(gen[w] + 1)
            /\ fd' = [fd EXCEPT ![w] = Len(files) + 1]
            /\ Goto(w, "budget")
  /\ UNCHANGED <<dropped, missed, blind, frame, gen, victims, listed, callVars>>

\* Mutants: one segment too many is allowed; the newest are dropped instead of
\* the oldest.
ExcessLess == {g \in Generations : Cardinality({h \in Generations : h > g}) > MaxSegments}

ExcessNewest == {g \in Generations : Cardinality({h \in Generations : h < g}) >= MaxSegments}

\* The generations enforceSegmentBudget finds in excess: all but the newest
\* MaxSegments.
Excess == {g \in Generations : Cardinality({h \in Generations : h > g}) >= MaxSegments}

\* enforceSegmentBudget lists the directory.
Budget(w) ==
  /\ pc[w] = "budget"
  /\ victims' = [victims EXCEPT ![w] = Excess]
  /\ Goto(w, IF Excess = {} THEN "write" ELSE "remove")
  /\ UNCHANGED <<fileVars, frame, gen, fd, rotated, listed, callVars>>

\* It cannot list the directory, and finds nothing to do.
BudgetBlind(w) ==
  /\ pc[w] = "budget"
  /\ blind
  /\ missed' = missed + 1
  /\ Goto(w, "write")
  /\ UNCHANGED <<files, dropped, blind, localVars, callVars>>

\* Mutant: a segment is counted whether or not Remove found it.
RemoveCounts(w) ==
  /\ pc[w] = "remove"
  /\ \E g \in victims[w] :
       /\ \A h \in victims[w] : g <= h
       /\ IF g \in Generations THEN Unlink(g, "dropped") ELSE UNCHANGED files
       /\ dropped' = dropped + 1
       /\ victims' = [victims EXCEPT ![w] = @ \ {g}]
       /\ Goto(w, IF victims[w] = {g} THEN "write" ELSE "remove")
  /\ UNCHANGED <<missed, blind, frame, gen, fd, rotated, listed, callVars>>

\* os.Remove of the oldest of them still to do.  Only the writer whose Remove
\* succeeds counts the segment; one whose Remove fails goes on to the next.
Remove(w) ==
  /\ pc[w] = "remove"
  /\ \E g \in victims[w] :
       /\ \A h \in victims[w] : g <= h
       /\ \/ /\ g \in Generations
             /\ Unlink(g, "dropped")
             /\ dropped' = dropped + 1
             /\ UNCHANGED <<missed, blind>>
          \/ /\ g \notin Generations
             /\ UNCHANGED fileVars
          \/ /\ g \in Generations
             /\ missed' = missed + 1
             /\ UNCHANGED <<files, dropped, blind>>
       /\ victims' = [victims EXCEPT ![w] = @ \ {g}]
       /\ Goto(w, IF victims[w] = {g} THEN "write" ELSE "remove")
  /\ UNCHANGED <<frame, gen, fd, rotated, listed, callVars>>

\* What a write leaves at the end of the file.
Wrote(w, torn) ==
  files' = [files EXCEPT ![fd[w]].entries = Append(@, [frame |-> frame[w], torn |-> torn])]

\* The one write of the frame succeeds, wherever its file now is.
Write(w) ==
  /\ pc[w] = "write"
  /\ Wrote(w, FALSE)
  /\ acked' = acked \cup {frame[w]}
  /\ Return(w)
  /\ UNCHANGED <<dropped, missed, blind, called, before>>

\* The write stops part way through the frame (a full disk, a killed process):
\* Append returns the error, if it returns, and counts nothing: Write reports a
\* short count together with an error, and the error is looked at first.
WriteTorn(w) ==
  /\ pc[w] = "write"
  /\ Wrote(w, TRUE)
  /\ Return(w)
  /\ UNCHANGED <<dropped, missed, blind, callVars>>

\* Append ends early anywhere else: a system call fails and its error is
\* returned, or the process is killed and another one takes its place.
Abandon(w) ==
  /\ pc[w] # "idle"
  /\ missed' = IF pc[w] \in {"budget", "remove"} THEN missed + 1 ELSE missed
  /\ Return(w)
  /\ UNCHANGED <<files, dropped, blind, callVars>>

\* External: the agent retires a segment it has read.  It never retires the
\* newest one.
Retire(g) ==
  /\ g \in Generations
  /\ ~IsNewest(g)
  /\ Unlink(g, "retired")
  /\ UNCHANGED <<dropped, missed, blind, pc, localVars, callVars>>

Continue(w) ==
  \/ Scan(w)
  \/ CreateFirst(w)
  \/ Open(w)
  \/ Stat(w)
  \/ Rotate(w)
  \/ Budget(w)
  \/ BudgetBlind(w)
  \/ Remove(w)
  \/ Write(w)

Next ==
  \/ \E w \in Writers :
       \/ \E f \in Frames : AppendRefused(w, f) \/ AppendCalled(w, f)
       \/ Continue(w)
       \/ WriteTorn(w)
       \/ Abandon(w)
  \/ \E g \in Generations : Retire(g)

Spec == Init /\ [][Next]_vars

-----------------------------------------------------------------------------
(* Properties. *)

\* O_EXCL is the whole concurrency story: however many writers reach the
\* threshold at once, no two live segments share a generation (rotate).
OneFilePerGeneration ==
  \A i, j \in Live : files[i].gen = files[j].gen => i = j

\* Read returns documents in real-time order: a frame acknowledged before
\* another one's Append was called precedes it in the log, through rotations,
\* removals and stalled writers (openActive, rotate), as long as the directory
\* can be listed.
RealTimeOrder ==
  ~blind =>
  \A i, j \in Live :
    \A k \in 1..Len(files[i].entries), l \in 1..Len(files[j].entries) :
      files[i].entries[k].frame \in before[files[j].entries[l].frame]
        /\ ~files[i].entries[k].torn
      => files[i].gen < files[j].gen \/ (i = j /\ k < l)

\* The directory holds at most MaxSegments segments, and one more for each
\* rotation that has not finished enforcing the budget or could not
\* (enforceSegmentBudget), and for the first generation when a writer that found
\* the directory empty long ago creates it again (openActive, which enforces no
\* budget).
SegmentBudget ==
  Cardinality(Generations) <=
    MaxSegments
      + Cardinality({w \in Writers : pc[w] \in {"budget", "remove"}})
      + missed
      + (IF \E i \in 2..Len(files) : files[i].gen = 1 THEN 1 ELSE 0)

\* "A drop must be counted" (segment_test.go:135): however many writers enforce the
\* budget at once, from lists however old, each segment one of them removes is
\* counted once, and not by the others, whose Remove finds nothing
\* (enforceSegmentBudget); so is each document the encoder refuses (Append).  What
\* is counted is removals, whatever number of frames went with them, and a write
\* that fails counts nothing: DroppedReportsFrames is what the count is said to be.
RemovalsCounted ==
  dropped = Cardinality({i \in 1..Len(files) : files[i].fate = "dropped"})
              + Cardinality(called \cap Oversized)

\* The newest segment is never removed: a writer with a stale list of
\* generations only removes older ones, so the log never starts over.
NewestNeverRecedes ==
  [][\A g \in Generations : \E h \in Generations' : h >= g]_vars

\* openActive's loop is unbounded but lock-free: a writer lists the directory
\* again only when another writer, or the agent, has created or removed a
\* segment since it last listed it (openActive, rotate).
RescansForProgress ==
  [][~blind =>
       \A w \in Writers :
         pc[w] \notin {"idle", "scan"} /\ pc'[w] = "scan" => listed[w] < Changes]_vars

\* Documents that Append acknowledged and that went with a segment the budget dropped.
Discarded ==
  {f \in acked : \E i \in 1..Len(files) :
     files[i].fate = "dropped" /\ \E k \in 1..Len(files[i].entries) : files[i].entries[k].frame = f}

\* What segment.go says of Dropped: it "reports frames this process has discarded:
\* the segment budget was reached, or a frame could not be written atomically", for
\* "fail-open is only acceptable when it is counted".  Every document discarded
\* for the budget, or refused, is counted; this asks nothing of failed writes.
DroppedReportsFrames ==
  dropped >= Cardinality(Discarded) + Cardinality(called \cap Oversized)

\* The frames DecodeFrames finds: those before the first torn entry.
Decoded(entries) ==
  {entries[k].frame : k \in {k \in 1..Len(entries) : \A l \in 1..k : ~entries[l].torn}}

\* A document Append acknowledged can be read for as long as its segment is in
\* the directory: "a spool that recovers loses nothing" (README.md, Span
\* batching).
AckedReadable ==
  \A i \in Live : \A k \in 1..Len(files[i].entries) :
    files[i].entries[k].frame \in acked
      => files[i].entries[k].frame \in Decoded(files[i].entries)
=============================================================================
