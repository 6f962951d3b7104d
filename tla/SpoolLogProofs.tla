--------------------------- MODULE SpoolLogProofs ---------------------------
(***************************************************************************)
(* Theorems about SpoolLog for every number of writers and frames, every   *)
(* size of a segment and every budget.                                     *)
(***************************************************************************)
EXTENDS SpoolLog, Sums, FiniteSetTheorems, TLAPS

\* What a writer inside Append appends is a frame Append was called with.
FrameCalled == \A w \in Writers : pc[w] # "idle" => frame[w] \in called

\* A generation that enforceSegmentBudget wants to remove is not the newest, and
\* no step of another writer or of the agent makes it so.
VictimsOlder ==
  \A w \in Writers : \A g \in victims[w] : \E h \in Generations : h > g

FileInv == TypeOK /\ FrameCalled /\ OneFilePerGeneration /\ VictimsOlder

DroppedFiles == {i \in 1..Len(files) : files[i].fate = "dropped"}

-----------------------------------------------------------------------------
(* The three ways in which a directory changes. *)

\* Generations are positive.
LEMMA GenerationsPositive == TypeOK => Generations \subseteq Nat \ {0}
<1> SUFFICES ASSUME TypeOK, NEW i \in Live PROVE files[i].gen \in Nat \ {0}
  BY DEF Generations
<1>1. files[i] \in Files
  BY DEF TypeOK, Live
<1>2. QED BY <1>1 DEF Files

\* O_CREATE|O_EXCL of a new generation.
LEMMA CreateAdds ==
  ASSUME TypeOK, OneFilePerGeneration,
         NEW g \in Nat \ {0}, g \notin Generations, Create(g)
  PROVE  /\ files' \in Seq(Files)
         /\ Generations' = Generations \cup {g}
         /\ OneFilePerGeneration'
         /\ DroppedFiles' = DroppedFiles
<1> DEFINE file == [gen |-> g, fate |-> "live", entries |-> <<>>]
<1>1. file \in Files
  <2>1. <<>> \in Seq(Entries)
    OBVIOUS
  <2>2. QED BY <2>1 DEF Files, Fates
<1>2. /\ files \in Seq(Files)
      /\ files' = Append(files, file)
  BY DEF TypeOK, Create
<1> HIDE DEF file
<1>3. /\ files' \in Seq(Files)
      /\ Len(files') = Len(files) + 1
      /\ Len(files) \in Nat
      /\ files'[Len(files) + 1] = file
      /\ \A i \in 1..Len(files) : files'[i] = files[i]
  BY <1>1, <1>2
<1>4. file.gen = g /\ file.fate = "live"
  BY DEF file
<1>5. Live' = Live \cup {Len(files) + 1}
  BY <1>3, <1>4 DEF Live
<1>6. \A i \in Live : files'[i] = files[i] /\ i # Len(files) + 1
  BY <1>3 DEF Live
<1>7. Generations' = Generations \cup {g}
  BY <1>3, <1>4, <1>5, <1>6 DEF Generations
<1>8. OneFilePerGeneration'
  <2>1. \A i \in Live : files'[i].gen # g
    BY <1>6 DEF Generations
  <2>2. QED BY <1>3, <1>4, <1>5, <1>6, <2>1 DEF OneFilePerGeneration
<1>9. DroppedFiles' = DroppedFiles
  BY <1>3, <1>4 DEF DroppedFiles
<1>10. QED BY <1>3, <1>7, <1>8, <1>9

\* Removing the entry of a generation.
LEMMA UnlinkRemoves ==
  ASSUME TypeOK, OneFilePerGeneration,
         NEW g \in Generations, NEW fate \in {"retired", "dropped"}, Unlink(g, fate)
  PROVE  /\ files' \in Seq(Files)
         /\ Generations' = Generations \ {g}
         /\ OneFilePerGeneration'
         /\ DroppedFiles' = IF fate = "dropped" THEN DroppedFiles \cup {FileOf(g)}
                                                ELSE DroppedFiles
         /\ FileOf(g) \notin DroppedFiles
<1> DEFINE k == FileOf(g)
<1>1. k \in Live /\ files[k].gen = g
  BY DEF FileOf, Generations
<1> HIDE DEF k
<1>2. /\ files \in Seq(Files)
      /\ files' = [files EXCEPT ![k].fate = fate]
  BY DEF TypeOK, Unlink, k
<1>3. k \in 1..Len(files) /\ files[k].fate = "live" /\ files[k] \in Files
  BY <1>1, <1>2 DEF Live
<1>4. [files[k] EXCEPT !.fate = fate] \in Files
  BY <1>3 DEF Files, Fates
<1>5. /\ files' \in Seq(Files)
      /\ Len(files') = Len(files)
      /\ \A i \in 1..Len(files) : i # k => files'[i] = files[i]
      /\ files'[k] = [files[k] EXCEPT !.fate = fate]
  BY <1>2, <1>3, <1>4
<1>6. files'[k].fate = fate
  BY <1>3, <1>5 DEF Files
<1>7. Live' = Live \ {k}
  BY <1>5, <1>6 DEF Live
<1>8. \A i \in Live \ {k} : files'[i] = files[i]
  BY <1>5 DEF Live
<1>9. Generations' = Generations \ {g}
  <2>1. \A i \in Live \ {k} : files[i].gen # g
    BY <1>1 DEF OneFilePerGeneration
  <2>2. QED BY <1>1, <1>7, <1>8, <2>1 DEF Generations
<1>10. OneFilePerGeneration'
  BY <1>7, <1>8 DEF OneFilePerGeneration
<1>11. DroppedFiles' = IF fate = "dropped" THEN DroppedFiles \cup {k} ELSE DroppedFiles
  BY <1>3, <1>5, <1>6 DEF DroppedFiles
<1>12. k \notin DroppedFiles
  BY <1>3 DEF DroppedFiles
<1>13. QED BY <1>5, <1>9, <1>10, <1>11, <1>12 DEF k

\* A write changes no entry of the directory.
LEMMA WriteKeepsDirectory ==
  ASSUME TypeOK, OneFilePerGeneration,
         NEW w \in Writers, frame[w] \in Frames, NEW torn \in BOOLEAN, Wrote(w, torn)
  PROVE  /\ files' \in Seq(Files)
         /\ Generations' = Generations
         /\ OneFilePerGeneration'
         /\ DroppedFiles' = DroppedFiles
<1> DEFINE k == fd[w]
           e == Append(files[k].entries, [frame |-> frame[w], torn |-> torn])
<1>1. files \in Seq(Files) /\ files' = [files EXCEPT ![k].entries = e]
  BY DEF TypeOK, Wrote
<1>2. CASE k \in 1..Len(files)
  <2>1. files[k] \in Files
    BY <1>1, <1>2
  <2>2. files[k].entries \in Seq(Entries)
    BY <2>1 DEF Files
  <2>3. [frame |-> frame[w], torn |-> torn] \in Entries
    BY DEF Entries
  <2>4. e \in Seq(Entries)
    BY <2>2, <2>3
  <2> HIDE DEF k, e
  <2>5. /\ [files[k] EXCEPT !.entries = e] \in Files
        /\ [files[k] EXCEPT !.entries = e].gen = files[k].gen
        /\ [files[k] EXCEPT !.entries = e].fate = files[k].fate
    BY <2>1, <2>4 DEF Files
  <2>6. /\ files' \in Seq(Files)
        /\ Len(files') = Len(files)
        /\ \A i \in 1..Len(files) : i # k => files'[i] = files[i]
        /\ files'[k] = [files[k] EXCEPT !.entries = e]
    BY <1>1, <1>2, <2>5
  <2>7. \A i \in 1..Len(files) : files'[i].gen = files[i].gen /\ files'[i].fate = files[i].fate
    BY <2>5, <2>6
  <2>8. Live' = Live
    BY <2>6, <2>7 DEF Live
  <2>9. \A i \in Live : files'[i].gen = files[i].gen
    BY <2>7 DEF Live
  <2>10. Generations' = Generations /\ OneFilePerGeneration'
    BY <2>8, <2>9 DEF Generations, OneFilePerGeneration
  <2>11. DroppedFiles' = DroppedFiles
    BY <2>6, <2>7 DEF DroppedFiles
  <2>12. QED BY <2>6, <2>10, <2>11
<1>3. CASE k \notin 1..Len(files)
  <2>1. files' = files
    BY <1>1, <1>3
  <2>2. Live' = Live
    BY <2>1 DEF Live
  <2>3. Generations' = Generations /\ OneFilePerGeneration'
    BY <2>1, <2>2 DEF Generations, OneFilePerGeneration
  <2>4. DroppedFiles' = DroppedFiles
    BY <2>1 DEF DroppedFiles
  <2>5. QED BY <1>1, <2>1, <2>3, <2>4
<1>4. QED BY <1>2, <1>3

-----------------------------------------------------------------------------
(* What a step does to the directory. *)

\* A generation that enforceSegmentBudget finds in excess has a newer one.
LEMMA ExcessOlder == \A g \in Excess : g \in Generations /\ \E h \in Generations : h > g
<1> SUFFICES ASSUME NEW g \in Excess PROVE \E h \in Generations : h > g
  BY DEF Excess
<1>1. Cardinality({h \in Generations : h > g}) # 0
  BY LimitsAssumption DEF Excess
<1>2. {h \in Generations : h > g} # {}
  BY <1>1, FS_EmptySet
<1>3. QED BY <1>2

\* A step creates a new generation, or removes one that is not the newest, or
\* leaves the directory as it is.
DirectoryGrows ==
  \E g \in Nat \ {0} : Generations' = Generations \cup {g}

DirectoryShrinks ==
  \E g \in Generations :
    /\ \E h \in Generations : h > g
    /\ Generations' = Generations \ {g}

\* A step changes the directory in one of these ways.
LEMMA DirectoryStep ==
  ASSUME FileInv, [Next]_vars
  PROVE  /\ files' \in Seq(Files)
         /\ OneFilePerGeneration'
         /\ UNCHANGED Generations \/ DirectoryGrows \/ DirectoryShrinks
<1> USE DEF FileInv
<1>1. CASE UNCHANGED files
  <2>1. UNCHANGED Live
    BY <1>1 DEF Live
  <2>2. UNCHANGED Generations /\ OneFilePerGeneration'
    BY <1>1, <2>1 DEF Generations, OneFilePerGeneration
  <2>3. QED BY <1>1, <2>2 DEF TypeOK
<1>2. ASSUME NEW w \in Writers, CreateFirst(w) \/ Rotate(w), ~UNCHANGED files
      PROVE  /\ files' \in Seq(Files)
             /\ OneFilePerGeneration'
             /\ DirectoryGrows
  <2>1. PICK g \in Nat \ {0} : g \notin Generations /\ Create(g)
    <3>1. CASE CreateFirst(w)
      BY <1>2, <3>1 DEF CreateFirst
    <3>2. CASE Rotate(w)
      BY <1>2, <3>2 DEF Rotate, TypeOK
    <3>3. QED BY <1>2, <3>1, <3>2
  <2>2. QED BY <2>1, CreateAdds DEF DirectoryGrows
<1>3. ASSUME NEW w \in Writers, Remove(w), ~UNCHANGED files
      PROVE  /\ files' \in Seq(Files)
             /\ OneFilePerGeneration'
             /\ DirectoryShrinks
  <2>1. PICK g \in victims[w] : g \in Generations /\ Unlink(g, "dropped")
    BY <1>3 DEF Remove, fileVars
  <2>2. QED BY <2>1, UnlinkRemoves DEF DirectoryShrinks, VictimsOlder
<1>4. ASSUME NEW w \in Writers, Write(w) \/ WriteTorn(w)
      PROVE  /\ files' \in Seq(Files)
             /\ OneFilePerGeneration'
             /\ UNCHANGED Generations
  <2>1. frame[w] \in Frames
    BY <1>4 DEF FrameCalled, TypeOK, Write, WriteTorn
  <2>2. PICK torn \in BOOLEAN : Wrote(w, torn)
    BY <1>4 DEF Write, WriteTorn
  <2>3. QED BY <2>1, <2>2, WriteKeepsDirectory
<1>5. ASSUME NEW g \in Generations, Retire(g)
      PROVE  /\ files' \in Seq(Files)
             /\ OneFilePerGeneration'
             /\ DirectoryShrinks
  <2>1. \E h \in Generations : h > g
    BY <1>5, GenerationsPositive DEF Retire, IsNewest
  <2>2. QED BY <1>5, <2>1, UnlinkRemoves DEF Retire, DirectoryShrinks
<1>6. ASSUME NEW w \in Writers,
             \/ \E f \in Frames : AppendRefused(w, f) \/ AppendCalled(w, f)
             \/ Scan(w) \/ Open(w) \/ Stat(w) \/ Budget(w) \/ BudgetBlind(w)
             \/ Abandon(w)
      PROVE  UNCHANGED files
  BY <1>6 DEF AppendRefused, AppendCalled, Scan, Open, Stat, Budget, BudgetBlind,
              Abandon, fileVars
<1>7. CASE UNCHANGED vars
  BY <1>1, <1>7 DEF vars, fileVars
<1>8. QED BY <1>1, <1>2, <1>3, <1>4, <1>5, <1>6, <1>7 DEF Next, Continue

\* A generation with a newer one keeps it.
LEMMA NewerStays ==
  ASSUME FileInv, [Next]_vars, NEW g \in Nat,
         \E h \in Generations : h > g
  PROVE  \E h \in Generations' : h > g
<1>1. PICK h \in Generations : h > g
  OBVIOUS
<1>2. Generations \subseteq Nat
  BY GenerationsPositive DEF FileInv
<1>3. UNCHANGED Generations \/ DirectoryGrows \/ DirectoryShrinks
  BY DirectoryStep
<1>4. CASE UNCHANGED Generations \/ DirectoryGrows
  BY <1>1, <1>4 DEF DirectoryGrows
<1>5. CASE DirectoryShrinks
  <2>1. PICK x \in Generations :
          (\E y \in Generations : y > x) /\ Generations' = Generations \ {x}
    BY <1>5 DEF DirectoryShrinks
  <2>2. CASE x = h
    BY <1>1, <1>2, <2>1, <2>2
  <2>3. CASE x # h
    BY <1>1, <2>1, <2>3
  <2>4. QED BY <2>2, <2>3
<1>6. QED BY <1>3, <1>4, <1>5

-----------------------------------------------------------------------------
(* The invariant. *)

\* The locals of a writer that returns.
LEMMA ReturnTyped ==
  ASSUME TypeOK, NEW w \in Writers, Return(w)
  PROVE  /\ pc' \in [Writers -> Locations]
         /\ frame' \in [Writers -> Frames \cup {NoFrame}]
         /\ gen' \in [Writers -> Nat]
         /\ fd' \in [Writers -> Nat]
         /\ rotated' \in [Writers -> BOOLEAN]
         /\ victims' \in [Writers -> SUBSET Nat]
         /\ listed' \in [Writers -> Nat]
         /\ pc' = [pc EXCEPT ![w] = "idle"]
         /\ frame' = [frame EXCEPT ![w] = NoFrame]
         /\ victims' = [victims EXCEPT ![w] = {}]
BY DEF TypeOK, Return, Goto, Locations

\* The number of changes to the directory is a number.
LEMMA ChangesTyped == TypeOK => Changes \in Nat
<1> SUFFICES ASSUME TypeOK PROVE Changes \in Nat
  OBVIOUS
<1>1. Len(files) \in Nat
  BY DEF TypeOK
<1>2. IsFiniteSet(1..Len(files))
  BY <1>1, FS_Interval
<1>3. Cardinality(1..Len(files) \ Live) \in Nat
  BY <1>2, FS_Subset, FS_CardinalityType
<1>4. QED BY <1>1, <1>3 DEF Changes

\* A frame's Append was called with it.
LEMMA FrameStaysCalled ==
  ASSUME FileInv, [Next]_vars
  PROVE  FrameCalled'
<1> USE DEF FileInv, TypeOK, FrameCalled
<1>1. ASSUME NEW w \in Writers, NEW f \in Frames, AppendRefused(w, f)
      PROVE  FrameCalled'
  BY <1>1 DEF AppendRefused, localVars
<1>2. ASSUME NEW w \in Writers, NEW f \in Frames, AppendCalled(w, f)
      PROVE  FrameCalled'
  BY <1>2 DEF AppendCalled, Goto
<1>3. ASSUME NEW w \in Writers, Write(w) \/ WriteTorn(w) \/ Abandon(w)
      PROVE  FrameCalled'
  <2>1. Return(w) /\ UNCHANGED called
    BY <1>3 DEF Write, WriteTorn, Abandon, callVars
  <2>2. QED BY <2>1, ReturnTyped
<1>4. ASSUME NEW w \in Writers,
             \/ Scan(w) \/ CreateFirst(w) \/ Open(w) \/ Stat(w) \/ Rotate(w)
             \/ Budget(w) \/ BudgetBlind(w) \/ Remove(w)
      PROVE  FrameCalled'
  <2>1. UNCHANGED <<frame, called>>
    BY <1>4 DEF Scan, CreateFirst, Open, Stat, Rotate, Budget, BudgetBlind, Remove,
                localVars, callVars
  <2>2. pc[w] # "idle" /\ \A v \in Writers : v # w => pc'[v] = pc[v]
    BY <1>4 DEF Scan, CreateFirst, Open, Opened, Stat, Rotate, Budget, BudgetBlind,
                Remove, Goto
  <2>3. QED BY <2>1, <2>2
<1>5. ASSUME NEW g \in Generations, Retire(g) PROVE FrameCalled'
  BY <1>5 DEF Retire, localVars, callVars
<1>6. CASE UNCHANGED vars
  BY <1>6 DEF vars, localVars, callVars
<1>7. QED BY <1>1, <1>2, <1>3, <1>4, <1>5, <1>6 DEF Next, Continue

\* The steps of a writer that only move on in Append.
LEMMA ContinueTyped ==
  ASSUME FileInv, [Next]_vars, NEW w \in Writers,
         \/ Scan(w) \/ CreateFirst(w) \/ Open(w) \/ Stat(w) \/ Rotate(w)
         \/ Budget(w) \/ BudgetBlind(w) \/ Remove(w)
  PROVE  TypeOK'
<1> USE DEF FileInv, TypeOK
<1>1. files' \in Seq(Files) /\ Len(files) \in Nat
  BY DirectoryStep
<1>2. Generations \subseteq Nat
  BY GenerationsPositive
<1>3. CASE Scan(w)
  <2>1. PICK n \in Nat, loc \in {"create", "open"} :
          gen' = [gen EXCEPT ![w] = n] /\ pc' = [pc EXCEPT ![w] = loc]
    BY <1>2, <1>3 DEF Scan, Goto
  <2>2. listed' \in [Writers -> Nat]
    BY <1>3, ChangesTyped DEF Scan
  <2>3. UNCHANGED <<fileVars, frame, fd, rotated, victims, callVars>>
    BY <1>3 DEF Scan
  <2>4. QED BY <1>1, <2>1, <2>2, <2>3 DEF Locations, fileVars, callVars
<1>4. CASE CreateFirst(w)
  <2>1. pc' \in [Writers -> Locations] /\ fd' \in [Writers -> Nat]
    <3>1. CASE 1 \in Generations
      BY <1>4, <3>1 DEF CreateFirst, Goto, Locations
    <3>2. CASE 1 \notin Generations
      <4>1. fd' = [fd EXCEPT ![w] = Len(files) + 1]
        BY <1>4, <3>2 DEF CreateFirst, Opened
      <4>2. PICK loc \in {"write", "stat"} : pc' = [pc EXCEPT ![w] = loc]
        BY <1>4, <3>2 DEF CreateFirst, Opened, Goto
      <4>3. QED BY <1>1, <4>1, <4>2 DEF Locations
    <3>3. QED BY <3>1, <3>2
  <2>2. UNCHANGED <<dropped, missed, blind, frame, gen, rotated, victims, listed, callVars>>
    BY <1>4 DEF CreateFirst
  <2>3. QED BY <1>1, <2>1, <2>2 DEF callVars
<1>5. CASE Open(w)
  <2>1. ASSUME gen[w] \in Generations PROVE FileOf(gen[w]) \in Nat
    <3>1. \E i \in Live : files[i].gen = gen[w]
      BY <2>1 DEF Generations
    <3>2. FileOf(gen[w]) \in Live
      BY <3>1 DEF FileOf
    <3>3. QED BY <3>2 DEF Live
  <2>2. QED BY <1>1, <1>5, <2>1 DEF Open, Opened, Goto, Locations, fileVars, callVars
<1>6. CASE Stat(w)
  BY <1>1, <1>6 DEF Stat, Goto, Locations, fileVars, localVars, callVars
<1>7. CASE Rotate(w)
  <2>1. pc' \in [Writers -> Locations] /\ fd' \in [Writers -> Nat]
    <3>1. CASE gen[w] + 1 \in Generations
      BY <1>7, <3>1 DEF Rotate, Goto, Locations
    <3>2. CASE gen[w] + 1 \notin Generations
      BY <1>1, <1>7, <3>2 DEF Rotate, Goto, Locations
    <3>3. QED BY <3>1, <3>2
  <2>2. /\ rotated' \in [Writers -> BOOLEAN]
        /\ UNCHANGED <<dropped, missed, blind, frame, gen, victims, listed, callVars>>
    BY <1>7 DEF Rotate
  <2>3. QED BY <1>1, <2>1, <2>2 DEF callVars
<1>8. CASE Budget(w)
  <2>1. Excess \in SUBSET Nat
    BY <1>2 DEF Excess
  <2>2. QED BY <1>1, <1>8, <2>1 DEF Budget, Goto, Locations, fileVars, callVars
<1>9. CASE BudgetBlind(w)
  BY <1>1, <1>9 DEF BudgetBlind, Goto, Locations, localVars, callVars
<1>10. CASE Remove(w)
  BY <1>1, <1>10 DEF Remove, Goto, Locations, fileVars, callVars
<1>11. QED BY <1>3, <1>4, <1>5, <1>6, <1>7, <1>8, <1>9, <1>10

\* Every step keeps the types.
LEMMA StepTyped ==
  ASSUME FileInv, [Next]_vars
  PROVE  TypeOK'
<1> USE DEF FileInv, TypeOK
<1>1. files' \in Seq(Files)
  BY DirectoryStep
<1>2. ASSUME NEW w \in Writers, NEW f \in Frames, AppendRefused(w, f) PROVE TypeOK'
  BY <1>1, <1>2 DEF AppendRefused, localVars
<1>3. ASSUME NEW w \in Writers, NEW f \in Frames, AppendCalled(w, f) PROVE TypeOK'
  BY <1>1, <1>3 DEF AppendCalled, Goto, Locations, fileVars
<1>4. ASSUME NEW w \in Writers, Write(w) \/ WriteTorn(w) PROVE TypeOK'
  <2>1. frame[w] \in called
    BY <1>4 DEF FrameCalled, Write, WriteTorn
  <2>2. Return(w) /\ acked' \in {acked, acked \cup {frame[w]}}
        /\ UNCHANGED <<dropped, missed, blind, called, before>>
    BY <1>4 DEF Write, WriteTorn, callVars
  <2>3. QED BY <1>1, <2>1, <2>2, ReturnTyped
<1>5. ASSUME NEW w \in Writers, Abandon(w) PROVE TypeOK'
  BY <1>1, <1>5, ReturnTyped DEF Abandon, callVars
<1>6. ASSUME NEW g \in Generations, Retire(g) PROVE TypeOK'
  BY <1>1, <1>6 DEF Retire, localVars, callVars
<1>7. CASE UNCHANGED vars
  BY <1>7 DEF vars, fileVars, localVars, callVars
<1>8. QED BY <1>2, <1>3, <1>4, <1>5, <1>6, <1>7, ContinueTyped DEF Next, Continue

\* A step adds no generation to victims but those in excess.
LEMMA VictimsFromExcess ==
  ASSUME FileInv, [Next]_vars, NEW v \in Writers, NEW g \in victims'[v]
  PROVE  g \in victims[v] \/ g \in Excess
<1> USE DEF FileInv, TypeOK
<1>1. ASSUME NEW w \in Writers, Write(w) \/ WriteTorn(w) \/ Abandon(w)
      PROVE  g \in victims[v]
  <2>1. Return(w)
    BY <1>1 DEF Write, WriteTorn, Abandon
  <2>2. QED BY <2>1, ReturnTyped
<1>2. ASSUME NEW w \in Writers, Budget(w) PROVE g \in victims[v] \/ g \in Excess
  BY <1>2 DEF Budget
<1>3. ASSUME NEW w \in Writers, Remove(w) PROVE g \in victims[v]
  BY <1>3 DEF Remove
<1>4. ASSUME NEW w \in Writers,
             \/ \E f \in Frames : AppendRefused(w, f) \/ AppendCalled(w, f)
             \/ Scan(w) \/ CreateFirst(w) \/ Open(w) \/ Stat(w) \/ Rotate(w)
             \/ BudgetBlind(w)
      PROVE  g \in victims[v]
  BY <1>4 DEF AppendRefused, AppendCalled, Scan, CreateFirst, Open, Stat, Rotate,
              BudgetBlind, localVars
<1>5. ASSUME NEW x \in Generations, Retire(x) PROVE g \in victims[v]
  BY <1>5 DEF Retire, localVars
<1>6. CASE UNCHANGED vars
  BY <1>6 DEF vars, localVars
<1>7. QED BY <1>1, <1>2, <1>3, <1>4, <1>5, <1>6 DEF Next, Continue

\* VictimsOlder survives a step: excess has newer generations, and these stay.
LEMMA VictimsStayOlder ==
  ASSUME FileInv, [Next]_vars
  PROVE  VictimsOlder'
<1> SUFFICES ASSUME NEW w \in Writers, NEW g \in victims'[w]
             PROVE  \E h \in Generations' : h > g
  BY DEF VictimsOlder
<1>1. g \in victims[w] \/ g \in Excess
  BY VictimsFromExcess
<1>2. \E h \in Generations : h > g
  BY <1>1, ExcessOlder DEF FileInv, VictimsOlder
<1>3. g \in Nat
  BY <1>1, ExcessOlder, GenerationsPositive DEF FileInv, TypeOK
<1>4. QED BY <1>2, <1>3, NewerStays

\* FileInv is inductive.
THEOREM FileInvariant == Spec => []FileInv
<1>1. Init => FileInv
  <2> SUFFICES ASSUME Init PROVE FileInv
    OBVIOUS
  <2> USE DEF Init
  <2>1. TypeOK
    <3>1. <<>> \in Seq(Files)
      OBVIOUS
    <3>2. blind \in BOOLEAN
      BY LimitsAssumption, Zenon
    <3>3. QED BY <3>1, <3>2 DEF TypeOK, Locations
  <2>2. OneFilePerGeneration
    BY DEF OneFilePerGeneration, Live
  <2>3. FrameCalled /\ VictimsOlder
    BY DEF FrameCalled, VictimsOlder
  <2>4. QED BY <2>1, <2>2, <2>3 DEF FileInv
<1>2. FileInv /\ [Next]_vars => FileInv'
  BY DirectoryStep, FrameStaysCalled, StepTyped, VictimsStayOlder DEF FileInv
<1>3. QED BY <1>1, <1>2, PTL DEF Spec

-----------------------------------------------------------------------------

\* Every reachable state is type correct.
THEOREM SpoolTypeCorrect == Spec => []TypeOK
BY FileInvariant, PTL DEF FileInv

\* However many writers rotate at once, no two live segments share a generation
\* (the O_EXCL of rotate and openActive).
THEOREM GenerationsExclusive == Spec => []OneFilePerGeneration
BY FileInvariant, PTL DEF FileInv

\* The newest segment is never removed, neither by a writer that enforces the
\* budget on a stale list nor by the agent (enforceSegmentBudget).
THEOREM NewestStays == Spec => NewestNeverRecedes
<1>1. ASSUME FileInv, [Next]_vars
      PROVE  \A g \in Generations : \E h \in Generations' : h >= g
  <2> SUFFICES ASSUME NEW g \in Generations PROVE \E h \in Generations' : h >= g
    OBVIOUS
  <2>1. Generations \subseteq Nat
    BY <1>1, GenerationsPositive DEF FileInv
  <2>2. UNCHANGED Generations \/ DirectoryGrows \/ DirectoryShrinks
    BY <1>1, DirectoryStep
  <2>3. CASE UNCHANGED Generations \/ DirectoryGrows
    BY <2>1, <2>3 DEF DirectoryGrows
  <2>4. CASE DirectoryShrinks
    BY <2>1, <2>4 DEF DirectoryShrinks
  <2>5. QED BY <2>2, <2>3, <2>4
<1>2. QED BY <1>1, FileInvariant, PTL DEF Spec, NewestNeverRecedes

-----------------------------------------------------------------------------
(* The drop counter. *)

\* One more element.
LEMMA OneMore ==
  ASSUME NEW S, IsFiniteSet(S), NEW x, x \notin S
  PROVE  Cardinality(S \cup {x}) = Cardinality(S) + 1
BY FS_AddElement

\* What the counter counts is finite.
LEMMA CountedFinite ==
  ASSUME TypeOK
  PROVE  /\ IsFiniteSet(DroppedFiles) /\ Cardinality(DroppedFiles) \in Nat
         /\ IsFiniteSet(called \cap Oversized) /\ Cardinality(called \cap Oversized) \in Nat
<1>1. Len(files) \in Nat /\ DroppedFiles \subseteq 1..Len(files)
  BY DEF TypeOK, DroppedFiles
<1>2. IsFiniteSet(DroppedFiles)
  <2>1. IsFiniteSet(1..Len(files))
    BY <1>1, FS_Interval
  <2>2. QED BY <1>1, <2>1, FS_Subset
<1>3. called \cap Oversized \subseteq Frames /\ IsFiniteSet(Frames)
  BY FramesAssumption DEF TypeOK
<1>4. IsFiniteSet(called \cap Oversized)
  BY <1>3, FS_Subset
<1>5. QED BY <1>2, <1>4, FS_CardinalityType

\* A step counts what it drops: a document refused, a segment removed.
LEMMA DropsCounted ==
  ASSUME FileInv, [Next]_vars
  PROVE  \/ UNCHANGED <<dropped, DroppedFiles, called \cap Oversized>>
         \/ /\ dropped' = dropped + 1
            /\ UNCHANGED DroppedFiles
            /\ \E f \in Oversized \ called : called' = called \cup {f}
         \/ /\ dropped' = dropped + 1
            /\ UNCHANGED called
            /\ \E i : i \notin DroppedFiles /\ DroppedFiles' = DroppedFiles \cup {i}
<1> USE DEF FileInv
<1>1. ASSUME NEW w \in Writers, NEW f \in Frames, AppendRefused(w, f)
      PROVE  /\ dropped' = dropped + 1
             /\ UNCHANGED DroppedFiles
             /\ \E g \in Oversized \ called : called' = called \cup {g}
  BY <1>1 DEF AppendRefused, DroppedFiles
<1>2. ASSUME NEW w \in Writers, NEW f \in Frames, AppendCalled(w, f)
      PROVE  UNCHANGED <<dropped, DroppedFiles, called \cap Oversized>>
  BY <1>2 DEF AppendCalled, fileVars, DroppedFiles
<1>3. ASSUME NEW w \in Writers, Remove(w), ~UNCHANGED files
      PROVE  /\ dropped' = dropped + 1
             /\ UNCHANGED called
             /\ \E i : i \notin DroppedFiles /\ DroppedFiles' = DroppedFiles \cup {i}
  <2>1. PICK g \in victims[w] :
          g \in Generations /\ Unlink(g, "dropped") /\ dropped' = dropped + 1
    BY <1>3 DEF Remove, fileVars
  <2>2. UNCHANGED called
    BY <1>3 DEF Remove, callVars
  <2>3. QED BY <2>1, <2>2, UnlinkRemoves
<1>4. ASSUME NEW w \in Writers, Remove(w), UNCHANGED files
      PROVE  UNCHANGED <<dropped, DroppedFiles, called>>
  <2>1. ASSUME NEW g \in victims[w], g \in Generations, Unlink(g, "dropped")
        PROVE  FALSE
    <3>1. UNCHANGED DroppedFiles
      BY <1>4 DEF DroppedFiles
    <3>2. DroppedFiles' = DroppedFiles \cup {FileOf(g)} /\ FileOf(g) \notin DroppedFiles
      BY <2>1, UnlinkRemoves
    <3>3. QED BY <3>1, <3>2
  <2>2. QED BY <1>4, <2>1 DEF Remove, fileVars, callVars, DroppedFiles
<1>5. ASSUME NEW w \in Writers, CreateFirst(w) \/ Rotate(w)
      PROVE  UNCHANGED <<dropped, DroppedFiles, called>>
  <2>1. UNCHANGED <<dropped, called>>
    BY <1>5 DEF CreateFirst, Rotate, callVars
  <2>2. CASE UNCHANGED files
    BY <2>1, <2>2 DEF DroppedFiles
  <2>3. CASE ~UNCHANGED files
    <3>1. PICK g \in Nat \ {0} : g \notin Generations /\ Create(g)
      BY <1>5, <2>3 DEF CreateFirst, Rotate, TypeOK
    <3>2. QED BY <2>1, <3>1, CreateAdds
  <2>4. QED BY <2>2, <2>3
<1>6. ASSUME NEW w \in Writers, Write(w) \/ WriteTorn(w)
      PROVE  UNCHANGED <<dropped, DroppedFiles, called>>
  <2>1. frame[w] \in Frames
    BY <1>6 DEF FrameCalled, TypeOK, Write, WriteTorn
  <2>2. PICK torn \in BOOLEAN : Wrote(w, torn)
    BY <1>6 DEF Write, WriteTorn
  <2>3. UNCHANGED <<dropped, called>>
    BY <1>6 DEF Write, WriteTorn, callVars
  <2>4. QED BY <2>1, <2>2, <2>3, WriteKeepsDirectory
<1>7. ASSUME NEW g \in Generations, Retire(g)
      PROVE  UNCHANGED <<dropped, DroppedFiles, called>>
  <2>1. DroppedFiles' = DroppedFiles
    BY <1>7, UnlinkRemoves DEF Retire
  <2>2. QED BY <1>7, <2>1 DEF Retire, callVars
<1>8. ASSUME NEW w \in Writers,
             \/ Scan(w) \/ Open(w) \/ Stat(w) \/ Budget(w) \/ BudgetBlind(w)
             \/ Abandon(w)
      PROVE  UNCHANGED <<dropped, DroppedFiles, called>>
  BY <1>8 DEF Scan, Open, Stat, Budget, BudgetBlind, Abandon, fileVars, callVars,
              DroppedFiles
<1>9. CASE UNCHANGED vars
  BY <1>9 DEF vars, fileVars, callVars, DroppedFiles
<1>10. QED BY <1>1, <1>2, <1>3, <1>4, <1>5, <1>6, <1>7, <1>8, <1>9 DEF Next, Continue

\* Writers that enforce the budget at once count each segment removed once, and
\* each refused document is counted once (enforceSegmentBudget, Append).
THEOREM DropsCountedOnce == Spec => []RemovalsCounted
<1>1. Init => RemovalsCounted
  <2> SUFFICES ASSUME Init PROVE RemovalsCounted
    OBVIOUS
  <2>1. /\ {i \in 1..Len(files) : files[i].fate = "dropped"} = {}
        /\ called \cap Oversized = {}
        /\ dropped = 0
    BY DEF Init
  <2>2. Cardinality({}) = 0
    BY FS_EmptySet
  <2>3. /\ Cardinality({i \in 1..Len(files) : files[i].fate = "dropped"}) = 0
        /\ Cardinality(called \cap Oversized) = 0
    BY <2>1, <2>2
  <2>4. QED BY <2>1, <2>3 DEF RemovalsCounted
<1>2. ASSUME FileInv, RemovalsCounted, [Next]_vars PROVE RemovalsCounted'
  <2>1. dropped = Cardinality(DroppedFiles) + Cardinality(called \cap Oversized)
    BY <1>2 DEF RemovalsCounted, DroppedFiles
  <2>2. /\ IsFiniteSet(DroppedFiles) /\ Cardinality(DroppedFiles) \in Nat
        /\ IsFiniteSet(called \cap Oversized) /\ Cardinality(called \cap Oversized) \in Nat
    BY <1>2, CountedFinite DEF FileInv
  <2> SUFFICES dropped' = Cardinality(DroppedFiles') + Cardinality((called \cap Oversized)')
    BY DEF RemovalsCounted, DroppedFiles
  <2>3. CASE UNCHANGED <<dropped, DroppedFiles, called \cap Oversized>>
    BY <2>1, <2>3
  <2>4. CASE /\ dropped' = dropped + 1
             /\ UNCHANGED DroppedFiles
             /\ \E f \in Oversized \ called : called' = called \cup {f}
    <3>1. PICK f \in Oversized \ called : called' = called \cup {f}
      BY <2>4
    <3>2. (called \cap Oversized)' = (called \cap Oversized) \cup {f}
      BY <3>1
    <3>3. Cardinality((called \cap Oversized)') = Cardinality(called \cap Oversized) + 1
      BY <2>2, <3>1, <3>2, OneMore
    <3>4. QED BY <2>1, <2>2, <2>4, <3>3
  <2>5. CASE /\ dropped' = dropped + 1
             /\ UNCHANGED called
             /\ \E i : i \notin DroppedFiles /\ DroppedFiles' = DroppedFiles \cup {i}
    <3>1. PICK i : i \notin DroppedFiles /\ DroppedFiles' = DroppedFiles \cup {i}
      BY <2>5
    <3>2. Cardinality(DroppedFiles') = Cardinality(DroppedFiles) + 1
      BY <2>2, <3>1, OneMore
    <3>3. QED BY <2>1, <2>2, <2>5, <3>2
  <2>6. QED BY <1>2, <2>3, <2>4, <2>5, DropsCounted
<1>3. QED BY <1>1, <1>2, FileInvariant, PTL DEF Spec

-----------------------------------------------------------------------------
(* Real-time order. *)

\* Where a writer in Append has opened or created a file.
AtFile == {"stat", "rotate", "budget", "remove", "write"}

\* No frame is appended twice, and what Append was not called with is nowhere.
FramesOnce ==
  /\ \A w \in Writers : pc[w] # "idle" => frame[w] \notin acked
  /\ \A v, w \in Writers :
       v # w /\ pc[v] # "idle" /\ pc[w] # "idle" => frame[v] # frame[w]
  /\ \A f \in Frames : before[f] \subseteq acked
  /\ \A i \in Live : \A k \in 1..Len(files[i].entries) : files[i].entries[k].frame \in called

\* Once a writer has had a file, and so once a frame has been acknowledged, there
\* is a segment.
SegmentsThere ==
  /\ \A w \in Writers :
       pc[w] \in AtFile => fd[w] \in 1..Len(files) /\ Generations # {}
  /\ acked # {} => Generations # {}

\* No frame that must come before w's is in a segment after generation g.
AheadOf(w, g) ==
  \A i \in Live : \A k \in 1..Len(files[i].entries) :
    files[i].entries[k].frame \in before[frame[w]] /\ ~files[i].entries[k].torn
      => files[i].gen <= g

\* The generation a writer has chosen is not before the frames its own must follow.
ChosenLate ==
  \A w \in Writers :
    /\ pc[w] = "create" => before[frame[w]] = {} /\ gen[w] = 1
    /\ pc[w] = "open" => AheadOf(w, gen[w])
    /\ pc[w] \in {"stat", "rotate"} => gen[w] = files[fd[w]].gen
    /\ pc[w] \in AtFile => AheadOf(w, files[fd[w]].gen)

OrderInv == FramesOnce /\ SegmentsThere /\ (~blind => ChosenLate) /\ RealTimeOrder

\* A file keeps its generation, and its entry does not come back.
FilesKept ==
  /\ Len(files) \in Nat /\ Len(files') \in Nat
  /\ Len(files) <= Len(files')
  /\ \A i \in 1..Len(files) :
       /\ files'[i].gen = files[i].gen
       /\ i \in Live' => i \in Live

\* Only writes change what is in a file; a new file is empty.
EntriesKept ==
  \A i \in Live' :
    files'[i].entries = IF i \in 1..Len(files) THEN files[i].entries ELSE <<>>

\* A write appends its frame to one file.
EntryAdded(w) ==
  /\ Live' = Live
  /\ \A i \in Live : i # fd[w] => files'[i].entries = files[i].entries
  /\ fd[w] \in Live =>
       /\ files[fd[w]].entries \in Seq(Entries)
       /\ \E e \in Entries :
            e.frame = frame[w] /\ files'[fd[w]].entries = Append(files[fd[w]].entries, e)

-----------------------------------------------------------------------------

\* A new file leaves the others as they are.
LEMMA CreateKeepsFiles ==
  ASSUME TypeOK, NEW g \in Nat \ {0}, Create(g)
  PROVE  /\ FilesKept /\ EntriesKept
         /\ Len(files') = Len(files) + 1
         /\ files'[Len(files) + 1].gen = g
<1> DEFINE file == [gen |-> g, fate |-> "live", entries |-> <<>>]
<1>1. files \in Seq(Files) /\ files' = Append(files, file)
  BY DEF TypeOK, Create
<1>2. file.gen = g /\ file.entries = <<>>
  OBVIOUS
<1> HIDE DEF file
<1>3. /\ Len(files') = Len(files) + 1
      /\ Len(files) \in Nat
      /\ files'[Len(files) + 1] = file
      /\ \A i \in 1..Len(files) : files'[i] = files[i]
  BY <1>1
<1>4. FilesKept
  BY <1>3 DEF FilesKept, Live
<1>5. EntriesKept
  BY <1>2, <1>3 DEF EntriesKept, Live
<1>6. QED BY <1>2, <1>3, <1>4, <1>5

\* Removing an entry leaves the file as it is.
LEMMA UnlinkKeepsFiles ==
  ASSUME TypeOK, NEW g \in Generations, NEW fate \in {"retired", "dropped"}, Unlink(g, fate)
  PROVE  FilesKept /\ EntriesKept
<1> DEFINE k == FileOf(g)
<1>1. k \in Live
  BY DEF FileOf, Generations
<1>2. files \in Seq(Files) /\ files' = [files EXCEPT ![k].fate = fate]
  BY DEF TypeOK, Unlink
<1> HIDE DEF k
<1>3. k \in 1..Len(files) /\ files[k] \in Files
  BY <1>1, <1>2 DEF Live
<1>4. /\ Len(files') = Len(files)
      /\ Len(files) \in Nat
      /\ \A i \in 1..Len(files) : i # k => files'[i] = files[i]
      /\ files'[k] = [files[k] EXCEPT !.fate = fate]
  BY <1>2, <1>3
<1>5. /\ files'[k].gen = files[k].gen
      /\ files'[k].fate = fate
      /\ files'[k].entries = files[k].entries
  BY <1>3, <1>4 DEF Files
<1>6. FilesKept
  <2>1. \A i \in 1..Len(files) : files'[i].gen = files[i].gen
    BY <1>4, <1>5
  <2>2. \A i \in 1..Len(files) : i \in Live' => i \in Live
    BY <1>1, <1>4 DEF Live
  <2>3. QED BY <1>4, <2>1, <2>2 DEF FilesKept
<1>7. EntriesKept
  BY <1>4, <1>5 DEF EntriesKept, Live
<1>8. QED BY <1>6, <1>7

\* A write adds one entry to one file.
LEMMA WriteKeepsFiles ==
  ASSUME TypeOK, NEW w \in Writers, frame[w] \in Frames, fd[w] \in 1..Len(files),
         NEW torn \in BOOLEAN, Wrote(w, torn)
  PROVE  FilesKept /\ EntryAdded(w) /\ Len(files') = Len(files)
<1> DEFINE k == fd[w]
           x == [frame |-> frame[w], torn |-> torn]
           e == Append(files[k].entries, x)
<1>1. files \in Seq(Files) /\ files' = [files EXCEPT ![k].entries = e] /\ k \in 1..Len(files)
  BY DEF TypeOK, Wrote
<1>2. files[k] \in Files /\ files[k].entries \in Seq(Entries)
  <2>1. files[fd[w]] \in Files
    BY <1>1
  <2>2. QED BY <2>1 DEF Files
<1>3. x \in Entries /\ x.frame = frame[w]
  BY DEF Entries
<1>4. e = Append(files[k].entries, x)
  OBVIOUS
<1> HIDE DEF e, x
<1>5. /\ Len(files') = Len(files)
      /\ Len(files) \in Nat
      /\ \A i \in 1..Len(files) : i # k => files'[i] = files[i]
      /\ files'[k] = [files[k] EXCEPT !.entries = e]
  BY <1>1
<1>6. /\ files'[k].gen = files[k].gen
      /\ files'[k].fate = files[k].fate
      /\ files'[k].entries = e
  BY <1>2, <1>5 DEF Files
<1>7. Live' = Live
  BY <1>5, <1>6 DEF Live
<1>8. FilesKept
  <2>1. \A i \in 1..Len(files) : files'[i].gen = files[i].gen
    BY <1>5, <1>6
  <2>2. QED BY <1>5, <1>7, <2>1 DEF FilesKept
<1>9. EntryAdded(w)
  BY <1>2, <1>3, <1>4, <1>5, <1>6, <1>7 DEF EntryAdded, Live
<1>10. QED BY <1>5, <1>8, <1>9

\* What any step does to the files.
LEMMA FilesStep ==
  ASSUME FileInv, SegmentsThere, [Next]_vars
  PROVE  /\ FilesKept
         /\ EntriesKept \/ \E w \in Writers : (Write(w) \/ WriteTorn(w)) /\ EntryAdded(w)
<1> USE DEF FileInv
<1>1. CASE UNCHANGED files
  <2>1. UNCHANGED Live /\ Len(files) \in Nat
    BY <1>1 DEF Live, TypeOK
  <2>2. QED BY <1>1, <2>1 DEF FilesKept, EntriesKept, Live
<1>2. ASSUME NEW w \in Writers, CreateFirst(w) \/ Rotate(w), ~UNCHANGED files
      PROVE  FilesKept /\ EntriesKept
  <2>1. PICK g \in Nat \ {0} : Create(g)
    BY <1>2 DEF CreateFirst, Rotate, TypeOK
  <2>2. QED BY <2>1, CreateKeepsFiles
<1>3. ASSUME NEW w \in Writers, Remove(w), ~UNCHANGED files
      PROVE  FilesKept /\ EntriesKept
  <2>1. PICK g \in victims[w] : g \in Generations /\ Unlink(g, "dropped")
    BY <1>3 DEF Remove, fileVars
  <2>2. QED BY <2>1, UnlinkKeepsFiles
<1>4. ASSUME NEW w \in Writers, Write(w) \/ WriteTorn(w)
      PROVE  FilesKept /\ EntryAdded(w)
  <2>1. frame[w] \in Frames /\ fd[w] \in 1..Len(files)
    BY <1>4 DEF FrameCalled, TypeOK, SegmentsThere, AtFile, Write, WriteTorn
  <2>2. PICK torn \in BOOLEAN : Wrote(w, torn)
    BY <1>4 DEF Write, WriteTorn
  <2>3. QED BY <2>1, <2>2, WriteKeepsFiles
<1>5. ASSUME NEW g \in Generations, Retire(g) PROVE FilesKept /\ EntriesKept
  BY <1>5, UnlinkKeepsFiles DEF Retire
<1>6. ASSUME NEW w \in Writers,
             \/ \E f \in Frames : AppendRefused(w, f) \/ AppendCalled(w, f)
             \/ Scan(w) \/ Open(w) \/ Stat(w) \/ Budget(w) \/ BudgetBlind(w)
             \/ Abandon(w)
      PROVE  UNCHANGED files
  BY <1>6 DEF AppendRefused, AppendCalled, Scan, Open, Stat, Budget, BudgetBlind,
              Abandon, fileVars
<1>7. CASE UNCHANGED vars
  BY <1>1, <1>7 DEF vars, fileVars
<1>8. QED BY <1>1, <1>2, <1>3, <1>4, <1>5, <1>6, <1>7 DEF Next, Continue

-----------------------------------------------------------------------------
(* What a step does to the writers. *)

\* Whether the directory can be listed does not change.
LEMMA BlindFixed == ASSUME [Next]_vars PROVE blind' = blind
BY DEF Next, Continue, AppendRefused, AppendCalled, Scan, CreateFirst, Open, Stat,
       Rotate, Budget, BudgetBlind, Remove, Write, WriteTorn, Abandon, Retire,
       vars, fileVars

\* A step of writer v in Append.
StepOf(v) == Continue(v) \/ WriteTorn(v) \/ Abandon(v)

\* The steps of the others leave a writer alone.
LEMMA Bystander ==
  ASSUME FileInv, [Next]_vars, NEW v \in Writers, ~StepOf(v),
         \A f \in Frames : ~AppendCalled(v, f)
  PROVE  UNCHANGED <<pc[v], frame[v], gen[v], fd[v], listed[v]>>
<1> USE DEF FileInv, TypeOK
<1>1. ASSUME NEW w \in Writers, NEW f \in Frames, AppendRefused(w, f) \/ AppendCalled(w, f)
      PROVE  UNCHANGED <<pc[v], frame[v], gen[v], fd[v], listed[v]>>
  BY <1>1 DEF AppendRefused, AppendCalled, Goto, localVars
<1>2. ASSUME NEW w \in Writers, w # v, Return(w)
      PROVE  UNCHANGED <<pc[v], frame[v], gen[v], fd[v], listed[v]>>
  BY <1>2 DEF Return, Goto
<1>3. ASSUME NEW w \in Writers, w # v, Scan(w) \/ Open(w) \/ Stat(w) \/ Budget(w)
      PROVE  UNCHANGED <<pc[v], frame[v], gen[v], fd[v], listed[v]>>
  BY <1>3 DEF Scan, Open, Opened, Stat, Budget, Goto, localVars
<1>4. ASSUME NEW w \in Writers, w # v,
             CreateFirst(w) \/ Rotate(w) \/ BudgetBlind(w) \/ Remove(w)
      PROVE  UNCHANGED <<pc[v], frame[v], gen[v], fd[v], listed[v]>>
  BY <1>4 DEF CreateFirst, Opened, Rotate, BudgetBlind, Remove, Goto, localVars
<1>5. ASSUME NEW w \in Writers, w # v, StepOf(w)
      PROVE  UNCHANGED <<pc[v], frame[v], gen[v], fd[v], listed[v]>>
  BY <1>2, <1>3, <1>4, <1>5 DEF StepOf, Continue, Write, WriteTorn, Abandon
<1>6. ASSUME NEW g \in Generations, Retire(g)
      PROVE  UNCHANGED <<pc[v], frame[v], gen[v], fd[v], listed[v]>>
  BY <1>6 DEF Retire, localVars
<1>7. CASE UNCHANGED vars
  BY <1>7 DEF vars, localVars
<1>8. QED BY <1>1, <1>5, <1>6, <1>7 DEF Next, StepOf

\* A step of a writer in Append stays with its frame, or returns.
LEMMA StepOfKeepsFrame ==
  ASSUME FileInv, NEW v \in Writers, StepOf(v)
  PROVE  /\ pc[v] # "idle"
         /\ pc'[v] = "idle" \/ UNCHANGED frame
         /\ UNCHANGED <<before, called>>
         /\ \/ Write(v) /\ acked' = acked \cup {frame[v]} /\ pc'[v] = "idle"
            \/ UNCHANGED acked
<1> USE DEF FileInv, TypeOK
<1>1. CASE Write(v)
  BY <1>1 DEF Write, Return, Goto
<1>2. CASE WriteTorn(v) \/ Abandon(v)
  BY <1>2 DEF WriteTorn, Abandon, Return, Goto, callVars
<1>3. CASE Continue(v) /\ ~Write(v)
  BY <1>3 DEF Continue, Scan, CreateFirst, Open, Stat, Rotate, Budget, BudgetBlind,
              Remove, localVars, callVars
<1>4. QED BY <1>1, <1>2, <1>3 DEF StepOf

\* The histories change when a frame's Append is called or returns nil.
LEMMA HistoryStep ==
  ASSUME FileInv, [Next]_vars
  PROVE  /\ called \subseteq called'
         /\ \/ \E w \in Writers : \E f \in Frames : AppendCalled(w, f)
            \/ UNCHANGED before
         /\ \/ \E w \in Writers : Write(w)
            \/ UNCHANGED acked
<1>1. ASSUME NEW w \in Writers, NEW f \in Frames, AppendRefused(w, f)
      PROVE  called \subseteq called' /\ UNCHANGED <<before, acked>>
  BY <1>1 DEF AppendRefused
<1>2. ASSUME NEW w \in Writers, NEW f \in Frames, AppendCalled(w, f)
      PROVE  called \subseteq called' /\ UNCHANGED acked
  BY <1>2 DEF AppendCalled
<1>3. ASSUME NEW w \in Writers, StepOf(w)
      PROVE  UNCHANGED <<called, before>> /\ (Write(w) \/ UNCHANGED acked)
  BY <1>3, StepOfKeepsFrame
<1>4. ASSUME NEW g \in Generations, Retire(g) PROVE UNCHANGED <<called, before, acked>>
  BY <1>4 DEF Retire, callVars
<1>5. CASE UNCHANGED vars
  BY <1>5 DEF vars, callVars
<1>6. QED BY <1>1, <1>2, <1>3, <1>4, <1>5 DEF Next, StepOf

\* What must precede a frame is settled when its Append is called.
LEMMA BeforeFixed ==
  ASSUME FileInv, [Next]_vars, NEW f \in called
  PROVE  before'[f] = before[f]
<1>1. ASSUME NEW w \in Writers, NEW x \in Frames, AppendCalled(w, x)
      PROVE  before'[f] = before[f]
  BY <1>1 DEF AppendCalled, FileInv, TypeOK
<1>2. QED BY <1>1, HistoryStep

\* A frame is in one writer's hand, or done with.
LEMMA FramesOnceStep ==
  ASSUME FileInv, FramesOnce, SegmentsThere, [Next]_vars
  PROVE  FramesOnce'
<1>1. ASSUME NEW v \in Writers, pc'[v] # "idle"
      PROVE  \/ pc[v] # "idle" /\ frame'[v] = frame[v]
             \/ frame'[v] \notin called /\ \E f \in Frames : AppendCalled(v, f)
  <2>1. CASE StepOf(v)
    BY <1>1, <2>1, StepOfKeepsFrame
  <2>2. ASSUME NEW f \in Frames, AppendCalled(v, f) PROVE frame'[v] = f /\ f \notin called
    BY <2>2 DEF AppendCalled, FileInv, TypeOK
  <2>3. CASE ~StepOf(v) /\ \A f \in Frames : ~AppendCalled(v, f)
    BY <1>1, <2>3, Bystander
  <2>4. QED BY <2>1, <2>2, <2>3
<1>2. ASSUME NEW w \in Writers, NEW f \in Frames, AppendCalled(w, f)
      PROVE  /\ acked' = acked
             /\ before' = [before EXCEPT ![f] = acked]
             /\ \A v \in Writers : v # w => UNCHANGED <<pc[v], frame[v]>>
  BY <1>2 DEF AppendCalled, Goto, FileInv, TypeOK
<1>3. acked \subseteq called
  BY DEF FileInv, TypeOK
<1>4. ASSUME NEW v \in Writers, pc'[v] # "idle" PROVE frame'[v] \notin acked'
  <2>1. frame'[v] \notin acked
    BY <1>1, <1>3, <1>4 DEF FramesOnce
  <2>2. ASSUME NEW w \in Writers, Write(w) PROVE frame'[v] \notin acked'
    <3>1. StepOf(w) /\ pc[w] # "idle" /\ acked' = acked \cup {frame[w]} /\ pc'[w] = "idle"
      <4>1. StepOf(w)
        BY <2>2 DEF StepOf, Continue
      <4>2. QED BY <2>2, <4>1, StepOfKeepsFrame
             DEF Write, Return, Goto, FileInv, TypeOK
    <3>2. v # w
      BY <1>4, <3>1
    <3>3. frame[w] \in called
      BY <3>1 DEF FileInv, FrameCalled
    <3>4. QED BY <1>1, <1>4, <2>1, <3>1, <3>2, <3>3 DEF FramesOnce
  <2>3. QED BY <2>1, <2>2, HistoryStep
<1>5. ASSUME NEW v \in Writers, NEW w \in Writers, v # w, pc'[v] # "idle", pc'[w] # "idle"
      PROVE  frame'[v] # frame'[w]
  <2>1. CASE \E f \in Frames : AppendCalled(v, f)
    <3>1. UNCHANGED <<pc[w], frame[w]>>
      BY <1>2, <1>5, <2>1
    <3>2. frame[w] \in called
      BY <1>5, <3>1 DEF FileInv, FrameCalled
    <3>3. frame'[v] \notin called
      BY <2>1 DEF AppendCalled, FileInv, TypeOK
    <3>4. QED BY <3>1, <3>2, <3>3
  <2>2. CASE \E f \in Frames : AppendCalled(w, f)
    <3>1. UNCHANGED <<pc[v], frame[v]>>
      BY <1>2, <1>5, <2>2
    <3>2. frame[v] \in called
      BY <1>5, <3>1 DEF FileInv, FrameCalled
    <3>3. frame'[w] \notin called
      BY <2>2 DEF AppendCalled, FileInv, TypeOK
    <3>4. QED BY <3>1, <3>2, <3>3
  <2>3. QED BY <1>1, <1>5, <2>1, <2>2 DEF FramesOnce
<1>6. ASSUME NEW f \in Frames PROVE before'[f] \subseteq acked'
  <2>1. acked \subseteq acked'
    <3>1. ASSUME NEW w \in Writers, Write(w) PROVE acked \subseteq acked'
      BY <3>1 DEF Write
    <3>2. QED BY <3>1, HistoryStep
  <2>2. ASSUME NEW w \in Writers, NEW x \in Frames, AppendCalled(w, x)
        PROVE  before'[f] \subseteq acked
    BY <1>2, <2>2 DEF FramesOnce, FileInv, TypeOK
  <2>3. QED BY <2>1, <2>2, HistoryStep DEF FramesOnce
<1>7. ASSUME NEW i \in Live', NEW k \in 1..Len(files'[i].entries)
      PROVE  files'[i].entries[k].frame \in called'
  <2>1. called \subseteq called'
    BY HistoryStep
  <2>2. i \in 1..Len(files) => i \in Live
    BY FilesStep DEF FilesKept
  <2>3. CASE EntriesKept
    BY <1>7, <2>1, <2>2, <2>3 DEF EntriesKept, FramesOnce
  <2>4. ASSUME NEW w \in Writers, Write(w) \/ WriteTorn(w), EntryAdded(w)
        PROVE  files'[i].entries[k].frame \in called'
    <3>1. frame[w] \in called
      BY <2>4 DEF Write, WriteTorn, FileInv, FrameCalled
    <3>2. i \in Live
      BY <2>4 DEF EntryAdded
    <3>3. CASE i # fd[w]
      BY <1>7, <2>1, <2>4, <3>2, <3>3 DEF EntryAdded, FramesOnce
    <3>4. CASE i = fd[w]
      <4>1. PICK e \in Entries :
              e.frame = frame[w] /\ files'[i].entries = Append(files[i].entries, e)
        BY <2>4, <3>2, <3>4 DEF EntryAdded
      <4>2. files[i].entries \in Seq(Entries)
        BY <2>4, <3>2, <3>4 DEF EntryAdded
      <4>3. CASE k = Len(files[i].entries) + 1
        BY <2>1, <3>1, <4>1, <4>2, <4>3
      <4>4. CASE k # Len(files[i].entries) + 1
        <5>1. k \in 1..Len(files[i].entries) /\ files'[i].entries[k] = files[i].entries[k]
          BY <1>7, <4>1, <4>2, <4>4
        <5>2. QED BY <2>1, <3>2, <5>1 DEF FramesOnce
      <4>5. QED BY <4>3, <4>4
    <3>5. QED BY <3>3, <3>4
  <2>5. QED BY <2>3, <2>4, FilesStep
<1>8. QED BY <1>4, <1>5, <1>6, <1>7 DEF FramesOnce

-----------------------------------------------------------------------------
(* What is in the files after a step. *)

\* There is a segment as long as there has been one.
LEMMA SegmentStays ==
  ASSUME FileInv, [Next]_vars, Generations # {}
  PROVE  Generations' # {}
<1>1. UNCHANGED Generations \/ DirectoryGrows \/ DirectoryShrinks
  BY DirectoryStep
<1>2. CASE DirectoryShrinks
  <2>1. PICK g \in Generations, h \in Generations : h > g /\ Generations' = Generations \ {g}
    BY <1>2 DEF DirectoryShrinks
  <2>2. h # g
    BY <2>1, GenerationsPositive DEF FileInv
  <2>3. QED BY <2>1, <2>2
<1>3. QED BY <1>1, <1>2 DEF DirectoryGrows

\* An entry has been there before or is what a writer has just written.
LEMMA EntryOrigin ==
  ASSUME FileInv, SegmentsThere, [Next]_vars,
         NEW i \in Live', NEW k \in 1..Len(files'[i].entries)
  PROVE  /\ i \in Live
         /\ files'[i].gen = files[i].gen
         /\ \/ /\ k \in 1..Len(files[i].entries)
               /\ files'[i].entries[k] = files[i].entries[k]
            \/ \E w \in Writers :
                 /\ pc[w] = "write"
                 /\ i = fd[w]
                 /\ k = Len(files[i].entries) + 1
                 /\ Len(files[i].entries) \in Nat
                 /\ files'[i].entries[k].frame = frame[w]
<1>1. FilesKept
  BY FilesStep
<1>2. ASSUME i \in 1..Len(files) PROVE i \in Live /\ files'[i].gen = files[i].gen
  BY <1>1, <1>2 DEF FilesKept
<1>3. CASE EntriesKept
  <2>1. i \in 1..Len(files)
    BY <1>3 DEF EntriesKept
  <2>2. files'[i].entries = files[i].entries
    BY <1>3, <2>1 DEF EntriesKept
  <2>3. QED BY <1>2, <2>1, <2>2
<1>4. ASSUME NEW w \in Writers, Write(w) \/ WriteTorn(w), EntryAdded(w)
      PROVE  /\ i \in Live
             /\ \/ /\ k \in 1..Len(files[i].entries)
                   /\ files'[i].entries[k] = files[i].entries[k]
                \/ /\ pc[w] = "write"
                   /\ i = fd[w]
                   /\ k = Len(files[i].entries) + 1
                   /\ Len(files[i].entries) \in Nat
                   /\ files'[i].entries[k].frame = frame[w]
  <2>1. i \in Live /\ pc[w] = "write"
    BY <1>4 DEF EntryAdded, Write, WriteTorn
  <2>2. CASE i # fd[w]
    BY <1>4, <2>1, <2>2 DEF EntryAdded
  <2>3. CASE i = fd[w]
    <3>1. PICK e \in Entries :
            e.frame = frame[w] /\ files'[i].entries = Append(files[i].entries, e)
      BY <1>4, <2>1, <2>3 DEF EntryAdded
    <3>2. files[i].entries \in Seq(Entries)
      BY <1>4, <2>1, <2>3 DEF EntryAdded
    <3>3. QED BY <2>1, <2>3, <3>1, <3>2
  <2>4. QED BY <2>2, <2>3
<1>5. i \in Live => i \in 1..Len(files)
  BY DEF Live
<1>6. QED BY <1>2, <1>3, <1>4, <1>5, FilesStep

\* A frame that has been acknowledged is written nowhere else.
LEMMA AckedEntryOld ==
  ASSUME FileInv, FramesOnce, SegmentsThere, [Next]_vars,
         NEW i \in Live', NEW k \in 1..Len(files'[i].entries),
         files'[i].entries[k].frame \in acked
  PROVE  /\ i \in Live
         /\ files'[i].gen = files[i].gen
         /\ k \in 1..Len(files[i].entries)
         /\ files'[i].entries[k] = files[i].entries[k]
<1>1. \A w \in Writers : pc[w] = "write" => frame[w] \notin acked
  BY DEF FramesOnce
<1>2. QED BY <1>1, EntryOrigin

\* A writer stays ahead of the frames its own must follow.
LEMMA AheadStays ==
  ASSUME FileInv, FramesOnce, SegmentsThere, [Next]_vars,
         NEW v \in Writers, pc[v] # "idle", frame'[v] = frame[v],
         NEW g \in Nat, AheadOf(v, g)
  PROVE  AheadOf(v, g)'
<1>1. frame[v] \in called /\ frame[v] \in Frames
  BY DEF FileInv, FrameCalled, TypeOK
<1>2. before'[frame'[v]] = before[frame[v]] /\ before[frame[v]] \subseteq acked
  BY <1>1, BeforeFixed DEF FramesOnce
<1>3. SUFFICES ASSUME NEW i \in Live', NEW k \in 1..Len(files'[i].entries),
                      files'[i].entries[k].frame \in before[frame[v]],
                      ~files'[i].entries[k].torn
               PROVE  files'[i].gen <= g
  BY <1>2 DEF AheadOf
<1>4. /\ i \in Live
      /\ files'[i].gen = files[i].gen
      /\ k \in 1..Len(files[i].entries)
      /\ files'[i].entries[k] = files[i].entries[k]
  BY <1>2, <1>3, AckedEntryOld
<1>5. QED BY <1>3, <1>4 DEF AheadOf

\* No step takes the last segment, nor a file from under its writer.
LEMMA SegmentsThereStep ==
  ASSUME FileInv, SegmentsThere, [Next]_vars
  PROVE  SegmentsThere'
<1> USE DEF FileInv, TypeOK
<1>1. FilesKept
  BY FilesStep
<1>2. ASSUME NEW v \in Writers, pc'[v] \in AtFile
      PROVE  fd'[v] \in 1..Len(files') /\ Generations' # {}
  <2>1. ASSUME pc[v] \in AtFile, fd'[v] = fd[v]
        PROVE  fd'[v] \in 1..Len(files') /\ Generations' # {}
    BY <1>1, <2>1, SegmentStays DEF SegmentsThere, FilesKept
  <2>2. CASE ~StepOf(v) /\ \A f \in Frames : ~AppendCalled(v, f)
    BY <1>2, <2>1, <2>2, Bystander
  <2>3. CASE \E f \in Frames : AppendCalled(v, f)
    BY <1>2, <2>3 DEF AppendCalled, Goto, AtFile
  <2>4. CASE Write(v) \/ WriteTorn(v) \/ Abandon(v) \/ Scan(v)
    BY <1>2, <2>4 DEF Write, WriteTorn, Abandon, Scan, Return, Goto, AtFile
  <2>5. CASE CreateFirst(v)
    <3>1. CASE 1 \in Generations
      BY <1>2, <2>5, <3>1 DEF CreateFirst, Goto, AtFile
    <3>2. CASE 1 \notin Generations
      <4>1. Create(1) /\ fd' = [fd EXCEPT ![v] = Len(files) + 1]
        BY <2>5, <3>2 DEF CreateFirst, Opened
      <4>2. Generations' = Generations \cup {1} /\ Len(files') = Len(files) + 1
        <5>1. 1 \in Nat \ {0} /\ TypeOK /\ OneFilePerGeneration
          OBVIOUS
        <5> HIDE DEF TypeOK
        <5>2. Generations' = Generations \cup {1}
          BY <3>2, <4>1, <5>1, CreateAdds
        <5>3. Len(files') = Len(files) + 1
          BY <4>1, <5>1, CreateKeepsFiles
        <5>4. QED BY <5>2, <5>3
      <4>3. QED BY <1>1, <4>1, <4>2 DEF FilesKept
    <3>3. QED BY <3>1, <3>2
  <2>6. CASE Open(v)
    <3>1. gen[v] \in Generations
      BY <1>2, <2>6 DEF Open, Goto, AtFile
    <3>2. \E i \in Live : files[i].gen = gen[v]
      BY <3>1 DEF Generations
    <3>3. FileOf(gen[v]) \in 1..Len(files)
      BY <3>2 DEF FileOf, Live
    <3>4. fd' = [fd EXCEPT ![v] = FileOf(gen[v])] /\ UNCHANGED files
      BY <2>6, <3>1 DEF Open, Opened, fileVars
    <3>5. QED BY <3>1, <3>3, <3>4, SegmentStays
  <2>7. CASE Rotate(v)
    <3>1. pc[v] \in AtFile
      BY <2>7 DEF Rotate, AtFile
    <3>2. CASE gen[v] + 1 \in Generations
      BY <1>2, <2>7, <3>2 DEF Rotate, Goto, AtFile
    <3>3. CASE gen[v] + 1 \notin Generations
      <4>1. Create(gen[v] + 1) /\ fd' = [fd EXCEPT ![v] = Len(files) + 1]
        BY <2>7, <3>3 DEF Rotate
      <4>2. Len(files') = Len(files) + 1
        BY <4>1, CreateKeepsFiles
      <4>3. QED BY <1>1, <3>1, <4>1, <4>2, SegmentStays DEF FilesKept, SegmentsThere
    <3>4. QED BY <3>2, <3>3
  <2>8. CASE Stat(v) \/ Budget(v) \/ BudgetBlind(v) \/ Remove(v)
    BY <2>1, <2>8 DEF Stat, Budget, BudgetBlind, Remove, AtFile, localVars
  <2>9. QED BY <2>2, <2>3, <2>4, <2>5, <2>6, <2>7, <2>8 DEF StepOf, Continue
<1>3. ASSUME acked' # {} PROVE Generations' # {}
  <2>1. CASE acked # {}
    BY <2>1, SegmentStays DEF SegmentsThere
  <2>2. CASE acked = {}
    <3>1. PICK w \in Writers : Write(w)
      BY <1>3, <2>2, HistoryStep
    <3>2. Generations # {}
      BY <3>1 DEF Write, SegmentsThere, AtFile
    <3>3. QED BY <3>2, SegmentStays
  <2>3. QED BY <2>1, <2>2
<1>4. QED BY <1>2, <1>3 DEF SegmentsThere

-----------------------------------------------------------------------------

\* The choice a writer makes in each step of Append.
LEMMA ChosenLateStep ==
  ASSUME FileInv, FramesOnce, SegmentsThere, ~blind, ChosenLate, [Next]_vars,
         NEW v \in Writers
  PROVE  /\ pc'[v] = "create" => before'[frame'[v]] = {} /\ gen'[v] = 1
         /\ pc'[v] = "open" => AheadOf(v, gen[v])'
         /\ pc'[v] \in {"stat", "rotate"} => gen'[v] = files'[fd'[v]].gen
         /\ pc'[v] \in AtFile => AheadOf(v, files[fd[v]].gen)'
<1> DEFINE Chosen ==
      /\ pc'[v] = "create" => before'[frame'[v]] = {} /\ gen'[v] = 1
      /\ pc'[v] = "open" => AheadOf(v, gen[v])'
      /\ pc'[v] \in {"stat", "rotate"} => gen'[v] = files'[fd'[v]].gen
      /\ pc'[v] \in AtFile => AheadOf(v, files[fd[v]].gen)'
<1> SUFFICES Chosen
  OBVIOUS
<1>1. ASSUME pc[v] # "idle", frame'[v] = frame[v], NEW g \in Nat, AheadOf(v, g)
      PROVE  AheadOf(v, g)'
  BY <1>1, AheadStays
<1>2. ASSUME pc[v] # "idle", frame'[v] = frame[v]
      PROVE  before'[frame'[v]] = before[frame[v]]
  BY <1>2, BeforeFixed DEF FileInv, FrameCalled
<1>3. ASSUME pc[v] \in AtFile
      PROVE  /\ fd[v] \in 1..Len(files)
             /\ files'[fd[v]].gen = files[fd[v]].gen
             /\ files[fd[v]].gen \in Nat
             /\ AheadOf(v, files[fd[v]].gen)
  <2>1. fd[v] \in 1..Len(files)
    BY <1>3 DEF SegmentsThere
  <2>2. files[fd[v]] \in Files
    BY <2>1 DEF FileInv, TypeOK
  <2>3. QED BY <1>3, <2>1, <2>2, FilesStep DEF FilesKept, ChosenLate, Files
<1>4. gen[v] \in Nat
  BY DEF FileInv, TypeOK
<1>5. ASSUME pc[v] \in AtFile, frame'[v] = frame[v], fd'[v] = fd[v]
      PROVE  AheadOf(v, files[fd[v]].gen)' /\ files'[fd'[v]].gen = files[fd[v]].gen
  <2>1. pc[v] # "idle"
    BY <1>5 DEF AtFile
  <2>2. PICK g \in Nat : g = files[fd[v]].gen
    BY <1>3, <1>5
  <2>3. AheadOf(v, g)'
    BY <1>1, <1>3, <1>5, <2>1, <2>2
  <2>4. files'[fd'[v]].gen = g
    BY <1>3, <1>5, <2>2
  <2>5. QED BY <2>2, <2>3, <2>4 DEF AheadOf
<1>6. CASE ~StepOf(v) /\ \A f \in Frames : ~AppendCalled(v, f)
  <2>1. UNCHANGED <<pc[v], frame[v], gen[v], fd[v]>>
    BY <1>6, Bystander
  <2>2. pc'[v] = "create" => before'[frame'[v]] = {} /\ gen'[v] = 1
    BY <1>2, <2>1 DEF ChosenLate
  <2>3. ASSUME pc'[v] = "open" PROVE AheadOf(v, gen[v])'
    <3>1. PICK g \in Nat : g = gen[v]
      BY <1>4
    <3>2. AheadOf(v, g)
      BY <2>1, <2>3, <3>1 DEF ChosenLate
    <3>3. AheadOf(v, g)'
      BY <1>1, <2>1, <2>3, <3>2
    <3>4. QED BY <2>1, <3>1, <3>3 DEF AheadOf
  <2>4. pc'[v] \in {"stat", "rotate"} => gen'[v] = files'[fd'[v]].gen
    BY <1>5, <2>1 DEF ChosenLate, AtFile
  <2>5. pc'[v] \in AtFile => AheadOf(v, files[fd[v]].gen)'
    BY <1>5, <2>1
  <2>6. QED BY <2>2, <2>3, <2>4, <2>5
<1>7. ASSUME pc'[v] \in {"idle", "scan"} PROVE Chosen
  BY <1>7 DEF AtFile
<1>8. CASE \E f \in Frames : AppendCalled(v, f)
  BY <1>7, <1>8 DEF AppendCalled, Goto, FileInv, TypeOK
<1>9. CASE Write(v) \/ WriteTorn(v) \/ Abandon(v)
  BY <1>7, <1>9 DEF Write, WriteTorn, Abandon, Return, Goto, FileInv, TypeOK
<1>10. CASE Scan(v)
  <2>1. UNCHANGED <<files, before, frame>> /\ pc[v] # "idle"
    BY <1>10 DEF Scan, fileVars, callVars
  <2>2. CASE Generations = {} /\ gen' = [gen EXCEPT ![v] = 1] /\ Goto(v, "create")
    <3>1. acked = {} /\ frame[v] \in Frames
      BY <2>1, <2>2 DEF SegmentsThere, FileInv, FrameCalled, TypeOK
    <3>2. before'[frame'[v]] = {}
      BY <2>1, <3>1 DEF FramesOnce
    <3>3. gen'[v] = 1 /\ pc'[v] = "create"
      BY <2>2 DEF Goto, FileInv, TypeOK
    <3>4. QED BY <3>2, <3>3 DEF AtFile
  <2>3. ASSUME NEW g \in Generations, IsNewest(g), gen' = [gen EXCEPT ![v] = g], Goto(v, "open")
        PROVE  Chosen
    <3>1. AheadOf(v, g)
      BY <2>3 DEF AheadOf, IsNewest, Generations
    <3>2. gen'[v] = g /\ pc'[v] = "open" /\ g \in Nat
      BY <2>3, GenerationsPositive DEF Goto, FileInv, TypeOK
    <3>3. AheadOf(v, g)'
      BY <1>1, <2>1, <3>1, <3>2
    <3>4. AheadOf(v, gen[v])'
      BY <3>2, <3>3 DEF AheadOf
    <3>5. QED BY <3>2, <3>4 DEF AtFile
  <2>4. QED BY <1>10, <2>2, <2>3 DEF Scan
<1>11. CASE CreateFirst(v)
  <2>1. CASE 1 \in Generations
    <3>1. pc'[v] = "scan"
      BY <1>11, <2>1 DEF CreateFirst, Goto, FileInv, TypeOK
    <3>2. QED BY <1>7, <3>1
  <2>2. CASE 1 \notin Generations
    <3>1. /\ pc[v] = "create" /\ UNCHANGED <<before, frame, gen>>
          /\ Create(1)
          /\ fd'[v] = Len(files) + 1
          /\ pc'[v] \in {"stat", "write"}
      BY <1>11, <2>2 DEF CreateFirst, Opened, Goto, callVars, FileInv, TypeOK
    <3>2. 1 \in Nat \ {0}
      OBVIOUS
    <3>3. files'[fd'[v]].gen = 1
      BY <3>1, <3>2, CreateKeepsFiles DEF FileInv
    <3>4. before'[frame'[v]] = {} /\ gen'[v] = 1
      BY <3>1 DEF ChosenLate
    <3>5. AheadOf(v, files[fd[v]].gen)'
      BY <3>4 DEF AheadOf
    <3>6. QED BY <3>1, <3>3, <3>4, <3>5
  <2>3. QED BY <2>1, <2>2
<1>12. CASE Open(v)
  <2>1. CASE gen[v] \notin Generations
    <3>1. pc'[v] = "scan"
      BY <1>12, <2>1 DEF Open, Goto, FileInv, TypeOK
    <3>2. QED BY <1>7, <3>1
  <2>2. CASE gen[v] \in Generations
    <3>1. /\ pc[v] = "open" /\ UNCHANGED <<files, before, frame, gen>>
          /\ fd'[v] = FileOf(gen[v])
          /\ pc'[v] \in {"stat", "write"}
      BY <1>12, <2>2 DEF Open, Opened, Goto, fileVars, callVars, FileInv, TypeOK
    <3>2. \E i \in Live : files[i].gen = gen[v]
      BY <2>2 DEF Generations
    <3>3. files[FileOf(gen[v])].gen = gen[v]
      BY <3>2 DEF FileOf
    <3>4. files'[fd'[v]].gen = gen'[v]
      BY <3>1, <3>3
    <3>5. PICK g \in Nat : g = gen[v]
      BY <1>4
    <3>6. AheadOf(v, g)'
      BY <1>1, <3>1, <3>5 DEF ChosenLate
    <3>7. AheadOf(v, files[fd[v]].gen)'
      BY <3>1, <3>4, <3>5, <3>6 DEF AheadOf
    <3>8. QED BY <3>1, <3>4, <3>7
  <2>3. QED BY <2>1, <2>2
<1>13. CASE Rotate(v)
  <2>1. CASE gen[v] + 1 \in Generations
    <3>1. pc'[v] = "scan"
      BY <1>13, <2>1 DEF Rotate, Goto, FileInv, TypeOK
    <3>2. QED BY <1>7, <3>1
  <2>2. CASE gen[v] + 1 \notin Generations
    <3>1. /\ pc[v] = "rotate" /\ UNCHANGED <<before, frame, gen>>
          /\ Create(gen[v] + 1)
          /\ fd'[v] = Len(files) + 1
          /\ pc'[v] = "budget"
      BY <1>13, <2>2 DEF Rotate, Goto, callVars, FileInv, TypeOK
    <3>2. PICK g \in Nat : g = gen[v]
      BY <1>4
    <3>3. files'[fd'[v]].gen = g + 1
      BY <3>1, <3>2, CreateKeepsFiles DEF FileInv
    <3>4. AheadOf(v, g)
      BY <3>1, <3>2 DEF ChosenLate, AtFile
    <3>5. AheadOf(v, g)'
      BY <1>1, <3>1, <3>4
    <3>6. \A i \in Live' : files'[i].gen \in Nat
      <4>1. files' \in Seq(Files)
        BY StepTyped DEF TypeOK
      <4>2. \A i \in Live' : files'[i] \in Files
        BY <4>1 DEF Live
      <4>3. QED BY <4>2 DEF Files
    <3>7. AheadOf(v, files[fd[v]].gen)'
      BY <3>2, <3>3, <3>5, <3>6 DEF AheadOf
    <3>8. QED BY <3>1, <3>7
  <2>3. QED BY <2>1, <2>2
<1>14. CASE Stat(v) \/ Budget(v) \/ BudgetBlind(v) \/ Remove(v)
  <2>1. /\ pc[v] \in AtFile /\ UNCHANGED <<frame, fd, gen>>
        /\ pc'[v] \in {"rotate", "write", "remove"}
        /\ pc'[v] = "rotate" => pc[v] = "stat"
    BY <1>14 DEF Stat, Budget, BudgetBlind, Remove, Goto, AtFile, localVars, FileInv, TypeOK
  <2>2. AheadOf(v, files[fd[v]].gen)' /\ files'[fd'[v]].gen = files[fd[v]].gen
    BY <1>5, <2>1
  <2>3. pc'[v] = "rotate" => gen'[v] = files'[fd'[v]].gen
    BY <2>1, <2>2 DEF ChosenLate
  <2>4. QED BY <2>1, <2>2, <2>3
<1>15. QED
  BY <1>6, <1>8, <1>9, <1>10, <1>11, <1>12, <1>13, <1>14 DEF StepOf, Continue

\* What a writer adds comes after what its frame must follow.
LEMMA RealTimeOrderStep ==
  ASSUME FileInv, OrderInv, [Next]_vars
  PROVE  RealTimeOrder'
<1> USE DEF OrderInv
<1> SUFFICES ASSUME ~blind,
                    NEW i \in Live', NEW j \in Live',
                    NEW k \in 1..Len(files'[i].entries), NEW l \in 1..Len(files'[j].entries),
                    files'[i].entries[k].frame \in before'[files'[j].entries[l].frame],
                    ~files'[i].entries[k].torn
             PROVE  files'[i].gen < files'[j].gen \/ (i = j /\ k < l)
  BY BlindFixed DEF RealTimeOrder
<1>1. /\ j \in Live
      /\ files'[j].gen = files[j].gen
      /\ \/ /\ l \in 1..Len(files[j].entries)
            /\ files'[j].entries[l] = files[j].entries[l]
         \/ \E w \in Writers :
              /\ pc[w] = "write"
              /\ j = fd[w]
              /\ l = Len(files[j].entries) + 1
              /\ Len(files[j].entries) \in Nat
              /\ files'[j].entries[l].frame = frame[w]
  BY EntryOrigin
<1>2. files'[j].entries[l].frame \in called
  BY <1>1 DEF FramesOnce, FileInv, FrameCalled
<1>3. files'[i].entries[k].frame \in before[files'[j].entries[l].frame]
  BY <1>2, BeforeFixed
<1>4. files'[i].entries[k].frame \in acked
  BY <1>2, <1>3 DEF FramesOnce, FileInv, TypeOK
<1>5. /\ i \in Live
      /\ files'[i].gen = files[i].gen
      /\ k \in 1..Len(files[i].entries)
      /\ files'[i].entries[k] = files[i].entries[k]
  BY <1>4, AckedEntryOld
<1>6. CASE l \in 1..Len(files[j].entries) /\ files'[j].entries[l] = files[j].entries[l]
  BY <1>1, <1>3, <1>5, <1>6 DEF RealTimeOrder
<1>7. ASSUME NEW w \in Writers, pc[w] = "write", j = fd[w],
             l = Len(files[j].entries) + 1, Len(files[j].entries) \in Nat,
             files'[j].entries[l].frame = frame[w]
      PROVE  files'[i].gen < files'[j].gen \/ (i = j /\ k < l)
  <2>1. AheadOf(w, files[fd[w]].gen)
    BY <1>7 DEF ChosenLate, AtFile
  <2>2. files[i].gen <= files[j].gen
    BY <1>3, <1>5, <1>7, <2>1 DEF AheadOf
  <2>3. files[i].gen \in Nat /\ files[j].gen \in Nat
    <3>1. files[i] \in Files /\ files[j] \in Files
      BY <1>1, <1>5 DEF FileInv, TypeOK, Live
    <3>2. QED BY <3>1 DEF Files
  <2>4. files[i].gen = files[j].gen => i = j
    BY <1>1, <1>5 DEF FileInv, OneFilePerGeneration
  <2>5. i = j => k < l
    BY <1>5, <1>7
  <2>6. QED BY <1>1, <1>5, <2>2, <2>3, <2>4, <2>5
<1>8. QED BY <1>1, <1>6, <1>7

\* In a directory that can be listed, Read returns documents in real-time order,
\* through rotations, removals and stalled writers (openActive, rotate).
THEOREM ReadInRealTimeOrder == Spec => []RealTimeOrder
<1>1. Init => OrderInv
  BY DEF Init, OrderInv, FramesOnce, SegmentsThere, ChosenLate, RealTimeOrder, Live, AtFile
<1>2. FileInv /\ OrderInv /\ [Next]_vars => OrderInv'
  <2> SUFFICES ASSUME FileInv, OrderInv, [Next]_vars PROVE OrderInv'
    OBVIOUS
  <2>1. FramesOnce' /\ SegmentsThere'
    BY FramesOnceStep, SegmentsThereStep DEF OrderInv
  <2>2. (~blind => ChosenLate)'
    BY BlindFixed, ChosenLateStep DEF OrderInv, ChosenLate
  <2>3. QED BY <2>1, <2>2, RealTimeOrderStep DEF OrderInv
<1>3. OrderInv => RealTimeOrder
  BY DEF OrderInv
<1>4. QED BY <1>1, <1>2, <1>3, FileInvariant, PTL DEF Spec

-----------------------------------------------------------------------------
(* The budget. *)

\* Writers that have rotated and not yet enforced the budget, those of them that
\* remove segments, and the generation the budget does not count: the first
\* one, once it has been created again.
Enforcing == {w \in Writers : pc[w] \in {"budget", "remove"}}

Removing == {w \in Writers : pc[w] = "remove"}

Recreated == IF \E i \in 2..Len(files) : files[i].gen = 1 THEN {1} ELSE {}

\* The segments that will be left when the writers in S have removed theirs.
Remaining(S) == Generations \ (Recreated \cup UNION {victims[w] : w \in S})

\* Whatever some of the removing writers will still remove, what remains exceeds
\* the budget only by what the other writers, or a failed enforcement, owe.
BudgetInv ==
  /\ IsFiniteSet(Generations)
  /\ IsFiniteSet(Enforcing)
  /\ \A S \in SUBSET Removing :
       Cardinality(Remaining(S)) <= MaxSegments + Cardinality(Enforcing \ S) + missed

\* All but the n - 1 newest have n or more newer ones.
LEMMA FewAreNewest ==
  ASSUME NEW S \in SUBSET Nat, IsFiniteSet(S), NEW n \in Nat \ {0},
         NEW K \in SUBSET S, \A g \in K : ~(Cardinality({h \in S : h > g}) >= n)
  PROVE  IsFiniteSet(K) /\ Cardinality(K) <= n
<1>1. IsFiniteSet(K) /\ Cardinality(K) \in Nat
  BY FS_Subset, FS_CardinalityType
<1>2. CASE K = {}
  BY <1>1, <1>2, FS_EmptySet
<1>3. CASE K # {}
  <2>1. PICK m \in K : \A k \in K : m <= k
    BY <1>3, Smallest
  <2> DEFINE N == {h \in S : h > m}
  <2>2. IsFiniteSet(N) /\ Cardinality(N) \in Nat
    BY FS_Subset, FS_CardinalityType
  <2>3. ~(Cardinality(N) >= n)
    BY <2>1
  <2>4. K \ {m} \in SUBSET N
    BY <2>1
  <2> HIDE DEF N
  <2>5. Cardinality(K \ {m}) <= Cardinality(N)
    BY <2>2, <2>4, FS_Subset
  <2>6. Cardinality(K \ {m}) = Cardinality(K) - 1
    BY <1>1, <2>1, FS_RemoveElement
  <2>7. QED BY <1>1, <2>2, <2>3, <2>5, <2>6
<1>4. QED BY <1>2, <1>3

\* Enforcing the budget leaves no more than it allows.
LEMMA WithoutExcess ==
  ASSUME TypeOK, IsFiniteSet(Generations)
  PROVE  Cardinality(Generations \ Excess) <= MaxSegments
<1>1. Generations \in SUBSET Nat
  BY GenerationsPositive
<1>2. \A g \in Generations \ Excess : ~(Cardinality({h \in Generations : h > g}) >= MaxSegments)
  BY DEF Excess
<1>3. QED BY <1>1, <1>2, FewAreNewest, LimitsAssumption

\* What remains is within the budget when it is within what remained for some
\* other writers, and at most new beside it, for which the step owes as much.
LEMMA BudgetCarries ==
  ASSUME BudgetInv, TypeOK, IsFiniteSet(Enforcing'), missed' \in Nat,
         NEW S, NEW T \in SUBSET Removing, NEW new, IsFiniteSet(new),
         Remaining(S)' \subseteq Remaining(T) \cup new,
         Cardinality(Enforcing \ T) + missed + Cardinality(new)
           <= Cardinality(Enforcing' \ S) + missed'
  PROVE  Cardinality(Remaining(S)') <= MaxSegments + Cardinality(Enforcing' \ S) + missed'
<1> DEFINE R == Remaining(T)
           Q == Remaining(S)'
<1>1. Cardinality(R) <= MaxSegments + Cardinality(Enforcing \ T) + missed
  BY DEF BudgetInv
<1>2. IsFiniteSet(R)
  BY FS_Subset DEF BudgetInv, Remaining
<1>3. /\ Cardinality(Enforcing \ T) \in Nat
      /\ Cardinality(Enforcing' \ S) \in Nat
  BY FS_Difference, FS_CardinalityType DEF BudgetInv
<1> HIDE DEF R, Q
<1>4. Q \in SUBSET (R \cup new)
  BY DEF R, Q
<1>5. /\ IsFiniteSet(R \cup new)
      /\ Cardinality(R \cup new) = Cardinality(R) + Cardinality(new) - Cardinality(R \cap new)
      /\ IsFiniteSet(R \cap new)
  BY <1>2, FS_Union, FS_Subset
<1>6. IsFiniteSet(Q) /\ Cardinality(Q) <= Cardinality(R \cup new)
  BY <1>4, <1>5, FS_Subset
<1>7. /\ Cardinality(Q) \in Nat /\ Cardinality(R) \in Nat /\ Cardinality(new) \in Nat
      /\ Cardinality(R \cap new) \in Nat
  BY <1>2, <1>5, <1>6, FS_CardinalityType
<1>8. Cardinality(Q) <= Cardinality(R) + Cardinality(new)
  BY <1>5, <1>6, <1>7
<1>9. missed \in Nat /\ MaxSegments \in Nat
  BY LimitsAssumption DEF TypeOK
<1>10. Cardinality(Q) <= MaxSegments + Cardinality(Enforcing' \ S) + missed'
  BY <1>1, <1>3, <1>7, <1>8, <1>9
<1>11. QED BY <1>10 DEF Q

\* What remains is within the budget itself.
LEMMA BudgetMet ==
  ASSUME TypeOK, IsFiniteSet(Enforcing'), missed' \in Nat,
         NEW S, NEW K, IsFiniteSet(K), Cardinality(K) <= MaxSegments,
         Remaining(S)' \subseteq K
  PROVE  Cardinality(Remaining(S)') <= MaxSegments + Cardinality(Enforcing' \ S) + missed'
<1> DEFINE Q == Remaining(S)'
<1>1. Q \in SUBSET K
  OBVIOUS
<1> HIDE DEF Q
<1>2. IsFiniteSet(Q) /\ Cardinality(Q) <= Cardinality(K)
  BY <1>1, FS_Subset
<1>3. Cardinality(Q) \in Nat /\ Cardinality(K) \in Nat /\ Cardinality(Enforcing' \ S) \in Nat
  BY <1>2, FS_Difference, FS_CardinalityType
<1>4. Cardinality(Q) <= MaxSegments + Cardinality(Enforcing' \ S) + missed'
  BY <1>2, <1>3, LimitsAssumption
<1>5. QED BY <1>4 DEF Q

\* One writer fewer owes one less.
LEMMA OneFewer ==
  ASSUME NEW E, IsFiniteSet(E), NEW w \in E, NEW S, w \notin S
  PROVE  /\ IsFiniteSet(E \ {w})
         /\ Cardinality(E \ S) = Cardinality((E \ {w}) \ S) + 1
         /\ Cardinality((E \ {w}) \ S) \in Nat
<1>1. IsFiniteSet(E \ {w}) /\ IsFiniteSet(E \ S)
  BY FS_RemoveElement, FS_Difference
<1> DEFINE D == E \ S
<1>2. (E \ {w}) \ S = D \ {w} /\ w \in D /\ IsFiniteSet(D)
  BY <1>1
<1> HIDE DEF D
<1>3. Cardinality(D \ {w}) = Cardinality(D) - 1 /\ IsFiniteSet(D \ {w})
  BY <1>2, FS_RemoveElement
<1>4. Cardinality(D) \in Nat /\ Cardinality(D \ {w}) \in Nat
  BY <1>2, <1>3, FS_CardinalityType
<1>5. Cardinality(D) = Cardinality(D \ {w}) + 1
  BY <1>3, <1>4
<1>6. QED BY <1>1, <1>2, <1>4, <1>5 DEF D

\* The first generation stays recreated.
LEMMA RecreatedStays ==
  ASSUME FilesKept
  PROVE  Recreated \subseteq Recreated'
<1>1. ASSUME NEW i \in 2..Len(files), files[i].gen = 1
      PROVE  i \in 2..Len(files') /\ files'[i].gen = 1
  BY <1>1 DEF FilesKept
<1>2. QED BY <1>1 DEF Recreated

\* A step that adds nothing, and whose writer enforces no budget.
LEMMA BystandersKeepBudget ==
  ASSUME BudgetInv, TypeOK, TypeOK', FilesKept,
         Generations' \ Recreated' \subseteq Generations \ Recreated,
         IsFiniteSet(Generations'), UNCHANGED <<Enforcing, Removing, missed>>,
         \A w \in Removing : victims'[w] = victims[w]
  PROVE  BudgetInv'
<1>1. IsFiniteSet(Enforcing') /\ missed \in Nat /\ missed' \in Nat
  BY DEF BudgetInv, TypeOK
<1>2. ASSUME NEW S \in SUBSET Removing
      PROVE  Cardinality(Remaining(S)') <= MaxSegments + Cardinality(Enforcing' \ S) + missed'
  <2>1. Remaining(S)' \subseteq Remaining(S) \cup {}
    BY DEF Remaining
  <2>2. IsFiniteSet({}) /\ Cardinality({}) = 0
    BY FS_EmptySet
  <2>3. Cardinality(Enforcing \ S) \in Nat
    BY FS_Difference, FS_CardinalityType DEF BudgetInv
  <2>4. Cardinality(Enforcing \ S) + missed + Cardinality({})
          <= Cardinality(Enforcing' \ S) + missed'
    BY <1>1, <2>2, <2>3
  <2>5. QED BY <1>1, <2>1, <2>2, <2>4, BudgetCarries
<1>3. QED BY <1>1, <1>2 DEF BudgetInv

\* A writer stops enforcing the budget before it has removed anything, and the
\* failure is counted.
LEMMA GivingUpKeepsBudget ==
  ASSUME BudgetInv, TypeOK, TypeOK', NEW w \in Enforcing,
         UNCHANGED files, missed' = missed + 1,
         Enforcing' = Enforcing \ {w}, Removing' = Removing \ {w},
         \A v \in Removing \ {w} : victims'[v] = victims[v]
  PROVE  BudgetInv'
<1>1. IsFiniteSet(Enforcing') /\ missed \in Nat /\ missed' \in Nat
  BY FS_RemoveElement DEF BudgetInv, TypeOK
<1>2. Generations' = Generations /\ Recreated' = Recreated
  BY DEF Generations, Live, Recreated
<1>3. ASSUME NEW S \in SUBSET Removing'
      PROVE  Cardinality(Remaining(S)') <= MaxSegments + Cardinality(Enforcing' \ S) + missed'
  <2>1. S \in SUBSET Removing /\ w \notin S
    OBVIOUS
  <2>2. Remaining(S)' \subseteq Remaining(S) \cup {}
    BY <1>2, <2>1 DEF Remaining
  <2>3. IsFiniteSet({}) /\ Cardinality({}) = 0
    BY FS_EmptySet
  <2>4. /\ Cardinality(Enforcing \ S) = Cardinality(Enforcing' \ S) + 1
        /\ Cardinality(Enforcing' \ S) \in Nat
    <3> DEFINE E == Enforcing
    <3>1. IsFiniteSet(E) /\ w \in E /\ w \notin S /\ E \ {w} = Enforcing'
      BY <2>1 DEF BudgetInv
    <3> HIDE DEF E
    <3>2. /\ Cardinality(E \ S) = Cardinality((E \ {w}) \ S) + 1
          /\ Cardinality((E \ {w}) \ S) \in Nat
      BY <3>1, OneFewer
    <3>3. QED BY <3>1, <3>2 DEF E
  <2>5. Cardinality(Enforcing \ S) + missed + Cardinality({})
          <= Cardinality(Enforcing' \ S) + missed'
    BY <1>1, <2>3, <2>4
  <2>6. QED BY <1>1, <2>1, <2>2, <2>3, <2>5, BudgetCarries
<1>4. QED BY <1>1, <1>2, <1>3 DEF BudgetInv

\* rotate creates a generation.
LEMMA RotateKeepsBudget ==
  ASSUME FileInv, SegmentsThere, BudgetInv, TypeOK', FilesKept, NEW w \in Writers, Rotate(w)
  PROVE  BudgetInv'
<1> USE DEF FileInv
<1>1. pc \in [Writers -> Locations] /\ pc[w] = "rotate" /\ gen[w] \in Nat
  BY DEF Rotate, TypeOK
<1>2. UNCHANGED <<missed, victims>> /\ missed \in Nat
  BY DEF Rotate, TypeOK
<1>3. CASE gen[w] + 1 \in Generations
  <2>1. UNCHANGED files /\ pc' = [pc EXCEPT ![w] = "scan"]
    BY <1>3 DEF Rotate, Goto
  <2>2. UNCHANGED <<Enforcing, Removing>>
    BY <1>1, <2>1 DEF Enforcing, Removing
  <2>3. Generations' = Generations /\ Recreated' = Recreated
    BY <2>1 DEF Generations, Live, Recreated
  <2>4. QED BY <1>2, <2>2, <2>3, BystandersKeepBudget DEF BudgetInv
<1>4. CASE gen[w] + 1 \notin Generations
  <2> DEFINE g == gen[w] + 1
  <2>1. Create(g) /\ pc' = [pc EXCEPT ![w] = "budget"] /\ g \in Nat \ {0}
    BY <1>1, <1>4 DEF Rotate, Goto
  <2>2. Generations' = Generations \cup {g}
    BY <1>4, <2>1, CreateAdds
  <2> HIDE DEF g
  <2>3. Enforcing' = Enforcing \cup {w} /\ w \notin Enforcing /\ Removing' = Removing
        /\ w \notin Removing
    BY <1>1, <2>1 DEF Enforcing, Removing
  <2>4. IsFiniteSet(Generations') /\ IsFiniteSet(Enforcing')
    BY <2>2, <2>3, FS_AddElement DEF BudgetInv
  <2>5. Recreated \subseteq Recreated'
    BY RecreatedStays
  <2>6. ASSUME NEW S \in SUBSET Removing
        PROVE  Cardinality(Remaining(S)') <= MaxSegments + Cardinality(Enforcing' \ S) + missed'
    <3>1. Remaining(S)' \subseteq Remaining(S) \cup {g}
      BY <1>2, <2>2, <2>5 DEF Remaining
    <3>2. IsFiniteSet({g}) /\ Cardinality({g}) = 1
      BY FS_Singleton
    <3>3. Enforcing' \ {w} = Enforcing /\ w \in Enforcing' /\ w \notin S
      BY <2>3
    <3>4. /\ Cardinality(Enforcing' \ S) = Cardinality(Enforcing \ S) + 1
          /\ Cardinality(Enforcing \ S) \in Nat
      <4> DEFINE E == Enforcing'
      <4>1. IsFiniteSet(E) /\ w \in E /\ w \notin S /\ E \ {w} = Enforcing
        BY <2>4, <3>3
      <4> HIDE DEF E
      <4>2. /\ Cardinality(E \ S) = Cardinality((E \ {w}) \ S) + 1
            /\ Cardinality((E \ {w}) \ S) \in Nat
        BY <4>1, OneFewer
      <4>3. QED BY <4>1, <4>2 DEF E
    <3>5. Cardinality(Enforcing \ S) + missed + Cardinality({g})
            <= Cardinality(Enforcing' \ S) + missed'
      BY <1>2, <3>2, <3>4
    <3>6. QED BY <1>2, <2>4, <3>1, <3>2, <3>5, BudgetCarries
  <2>7. QED BY <2>3, <2>4, <2>6 DEF BudgetInv
<1>5. QED BY <1>3, <1>4

\* openActive creates the first generation: in an empty directory, or again.
LEMMA CreateFirstKeepsBudget ==
  ASSUME FileInv, BudgetInv, TypeOK', FilesKept, NEW w \in Writers, CreateFirst(w)
  PROVE  BudgetInv'
<1> USE DEF FileInv
<1>1. pc \in [Writers -> Locations] /\ pc[w] = "create"
  BY DEF CreateFirst, TypeOK
<1>2. UNCHANGED <<missed, victims>> /\ missed \in Nat
  BY DEF CreateFirst, TypeOK
<1>3. UNCHANGED <<Enforcing, Removing>>
  <2>1. PICK loc \in {"scan", "write", "stat"} : pc' = [pc EXCEPT ![w] = loc]
    BY DEF CreateFirst, Opened, Goto
  <2>2. QED BY <1>1, <2>1 DEF Enforcing, Removing
<1>4. CASE 1 \in Generations
  <2>1. UNCHANGED files
    BY <1>4 DEF CreateFirst
  <2>2. Generations' = Generations /\ Recreated' = Recreated
    BY <2>1 DEF Generations, Live, Recreated
  <2>3. QED BY <1>2, <1>3, <2>2, BystandersKeepBudget DEF BudgetInv
<1>5. CASE 1 \notin Generations
  <2>1. Create(1)
    BY <1>5 DEF CreateFirst
  <2>2. Generations' = Generations \cup {1}
    BY <1>5, <2>1, CreateAdds
  <2>3. IsFiniteSet(Generations')
    BY <2>2, FS_AddElement DEF BudgetInv
  <2>4. Len(files') = Len(files) + 1 /\ files'[Len(files) + 1].gen = 1
    BY <2>1, CreateKeepsFiles
  <2>5. CASE files = <<>>
    <3>1. Generations = {}
      BY <2>5 DEF Generations, Live
    <3>2. IsFiniteSet(Enforcing') /\ IsFiniteSet({1}) /\ Cardinality({1}) <= MaxSegments
      <4>1. IsFiniteSet(Enforcing')
        BY <1>3 DEF BudgetInv
      <4>2. IsFiniteSet({1}) /\ Cardinality({1}) = 1
        BY FS_Singleton
      <4>3. QED BY <4>1, <4>2, LimitsAssumption
    <3>3. ASSUME NEW S \in SUBSET Removing
          PROVE  Cardinality(Remaining(S)') <= MaxSegments + Cardinality(Enforcing' \ S) + missed'
      <4>1. Remaining(S)' \subseteq {1}
        BY <2>2, <3>1 DEF Remaining
      <4>2. QED BY <1>2, <3>2, <4>1, BudgetMet
    <3>4. QED BY <1>3, <2>3, <3>2, <3>3 DEF BudgetInv
  <2>6. CASE files # <<>>
    <3>1. Len(files) + 1 \in 2..Len(files')
      <4>1. Len(files) \in Nat /\ Len(files) # 0
        BY <2>6 DEF TypeOK
      <4>2. QED BY <2>4, <4>1
    <3>2. Recreated' = {1}
      BY <2>4, <3>1 DEF Recreated
    <3>3. Generations' \ Recreated' \subseteq Generations \ Recreated
      BY <1>5, <2>2, <3>2 DEF Recreated
    <3>4. QED BY <1>2, <1>3, <2>3, <3>3, BystandersKeepBudget
  <2>7. QED BY <2>5, <2>6
<1>6. QED BY <1>4, <1>5

\* enforceSegmentBudget lists the directory.
LEMMA BudgetKeepsBudget ==
  ASSUME FileInv, BudgetInv, TypeOK', NEW w \in Writers, Budget(w)
  PROVE  BudgetInv'
<1> USE DEF FileInv
<1>1. /\ pc \in [Writers -> Locations] /\ pc[w] = "budget"
      /\ victims' = [victims EXCEPT ![w] = Excess] /\ victims \in [Writers -> SUBSET Nat]
      /\ UNCHANGED <<files, missed>> /\ missed \in Nat /\ missed' \in Nat
  BY DEF Budget, TypeOK, fileVars
<1>2. Generations' = Generations /\ Recreated' = Recreated
  BY <1>1 DEF Generations, Live, Recreated
<1>3. /\ IsFiniteSet(Generations \ Excess)
      /\ Cardinality(Generations \ Excess) <= MaxSegments
  BY WithoutExcess, FS_Difference DEF BudgetInv
<1>4. \A v \in Removing : victims'[v] = victims[v]
  BY <1>1 DEF Removing
<1>5. CASE Excess = {}
  <2>1. pc' = [pc EXCEPT ![w] = "write"]
    BY <1>5 DEF Budget, Goto
  <2>2. Enforcing' = Enforcing \ {w} /\ Removing' = Removing
    BY <1>1, <2>1 DEF Enforcing, Removing
  <2>3. IsFiniteSet(Enforcing')
    BY <2>2, FS_Subset DEF BudgetInv
  <2>4. ASSUME NEW S \in SUBSET Removing
        PROVE  Cardinality(Remaining(S)') <= MaxSegments + Cardinality(Enforcing' \ S) + missed'
    <3>1. Remaining(S)' \subseteq Generations \ Excess
      BY <1>2, <1>5 DEF Remaining
    <3>2. QED BY <1>1, <1>3, <2>3, <3>1, BudgetMet
  <2>5. QED BY <1>2, <2>2, <2>3, <2>4 DEF BudgetInv
<1>6. CASE Excess # {}
  <2>1. pc' = [pc EXCEPT ![w] = "remove"]
    BY <1>6 DEF Budget, Goto
  <2>2. Enforcing' = Enforcing /\ Removing' = Removing \cup {w}
    BY <1>1, <2>1 DEF Enforcing, Removing
  <2>3. IsFiniteSet(Enforcing')
    BY <2>2 DEF BudgetInv
  <2>4. ASSUME NEW S \in SUBSET Removing'
        PROVE  Cardinality(Remaining(S)') <= MaxSegments + Cardinality(Enforcing' \ S) + missed'
    <3>1. CASE w \in S
      <4>1. Excess \subseteq UNION {victims'[v] : v \in S}
        BY <1>1, <3>1
      <4>2. Remaining(S)' \subseteq Generations \ Excess
        BY <1>2, <4>1 DEF Remaining
      <4>3. QED BY <1>1, <1>3, <2>3, <4>2, BudgetMet
    <3>2. CASE w \notin S
      <4>1. S \in SUBSET Removing
        BY <2>2, <3>2
      <4>2. Remaining(S)' \subseteq Remaining(S) \cup {}
        BY <1>2, <1>4, <4>1 DEF Remaining
      <4>3. IsFiniteSet({}) /\ Cardinality({}) = 0
        BY FS_EmptySet
      <4>4. Cardinality(Enforcing \ S) \in Nat
        BY FS_Difference, FS_CardinalityType DEF BudgetInv
      <4>5. Cardinality(Enforcing \ S) + missed + Cardinality({})
              <= Cardinality(Enforcing' \ S) + missed'
        BY <1>1, <2>2, <4>3, <4>4
      <4>6. QED BY <1>1, <2>3, <4>1, <4>2, <4>3, <4>5, BudgetCarries
    <3>3. QED BY <3>1, <3>2
  <2>5. QED BY <1>2, <2>2, <2>3, <2>4 DEF BudgetInv
<1>7. QED BY <1>5, <1>6

\* It removes one segment, finds it gone, or fails to remove it.
LEMMA RemoveKeepsBudget ==
  ASSUME FileInv, BudgetInv, TypeOK', FilesKept, NEW w \in Writers, Remove(w)
  PROVE  BudgetInv'
<1> USE DEF FileInv
<1>1. PICK g \in victims[w] :
        /\ \/ g \in Generations /\ Unlink(g, "dropped") /\ missed' = missed
           \/ g \notin Generations /\ UNCHANGED fileVars
           \/ g \in Generations /\ missed' = missed + 1 /\ UNCHANGED files
        /\ victims' = [victims EXCEPT ![w] = @ \ {g}]
        /\ Goto(w, IF victims[w] = {g} THEN "write" ELSE "remove")
  BY DEF Remove
<1>2. /\ pc \in [Writers -> Locations] /\ pc[w] = "remove" /\ w \in Removing /\ w \in Enforcing
      /\ victims \in [Writers -> SUBSET Nat]
      /\ missed \in Nat /\ missed' \in Nat
  BY DEF Remove, TypeOK, Removing, Enforcing
<1>3. Recreated \subseteq Recreated'
  BY RecreatedStays
<1> DEFINE new == IF missed' = missed THEN {} ELSE {g}
<1>4. /\ Generations' \subseteq Generations
      /\ Generations' \subseteq (Generations \ {g}) \cup new
      /\ missed' = missed + Cardinality(new) /\ Cardinality(new) \in Nat /\ IsFiniteSet(new)
  <2>0. Cardinality({}) = 0 /\ IsFiniteSet({}) /\ Cardinality({g}) = 1 /\ IsFiniteSet({g})
    BY FS_EmptySet, FS_Singleton
  <2>1. CASE g \in Generations /\ Unlink(g, "dropped") /\ missed' = missed
    <3>1. Generations' = Generations \ {g}
      BY <2>1, UnlinkRemoves
    <3>2. QED BY <1>2, <2>0, <2>1, <3>1
  <2>2. CASE g \notin Generations /\ UNCHANGED fileVars
    <3>1. Generations' = Generations /\ missed' = missed
      BY <2>2 DEF Generations, Live, fileVars
    <3>2. QED BY <1>2, <2>0, <2>2, <3>1
  <2>3. CASE g \in Generations /\ missed' = missed + 1 /\ UNCHANGED files
    <3>1. Generations' = Generations
      BY <2>3 DEF Generations, Live
    <3>2. missed' # missed /\ new = {g}
      BY <1>2, <2>3
    <3>3. QED BY <1>2, <2>0, <2>3, <3>1, <3>2
  <2>4. QED BY <1>1, <2>1, <2>2, <2>3
<1> HIDE DEF new
<1>5. IsFiniteSet(Generations')
  BY <1>4, FS_Subset DEF BudgetInv
<1>6. \A v \in Writers : victims'[v] = IF v = w THEN victims[w] \ {g} ELSE victims[v]
  BY <1>1, <1>2
<1>7. Removing \subseteq Writers
  BY DEF Removing
<1>8. CASE victims[w] # {g}
  <2>1. pc' = [pc EXCEPT ![w] = "remove"]
    BY <1>1, <1>8 DEF Goto
  <2>2. Enforcing' = Enforcing /\ Removing' = Removing
    BY <1>2, <2>1 DEF Enforcing, Removing
  <2>3. IsFiniteSet(Enforcing')
    BY <2>2 DEF BudgetInv
  <2>4. ASSUME NEW S \in SUBSET Removing
        PROVE  Cardinality(Remaining(S)') <= MaxSegments + Cardinality(Enforcing' \ S) + missed'
    <3>1. (UNION {victims[v] : v \in S}) \subseteq (UNION {victims'[v] : v \in S}) \cup {g}
      BY <1>6, <1>7
    <3>2. Remaining(S)' \subseteq Remaining(S) \cup new
      <4>1. CASE w \in S
        BY <1>3, <1>4, <3>1 DEF Remaining
      <4>2. CASE w \notin S
        <5>1. UNION {victims[v] : v \in S} = UNION {victims'[v] : v \in S}
          BY <1>6, <1>7, <4>2
        <5>2. QED BY <1>3, <1>4, <5>1 DEF Remaining
      <4>3. QED BY <4>1, <4>2
    <3> DEFINE owed == Cardinality(Enforcing \ S)
    <3>3. owed \in Nat
      BY FS_Difference, FS_CardinalityType DEF BudgetInv
    <3>4. owed + missed + Cardinality(new) <= owed + missed'
      <4> HIDE DEF owed
      <4>1. QED BY <1>2, <1>4, <3>3
    <3>5. QED BY <1>2, <1>4, <2>2, <2>3, <3>2, <3>4, BudgetCarries
  <2>5. QED BY <1>5, <2>2, <2>3, <2>4 DEF BudgetInv
<1>9. CASE victims[w] = {g}
  <2>1. pc' = [pc EXCEPT ![w] = "write"]
    BY <1>1, <1>9 DEF Goto
  <2>2. Enforcing' = Enforcing \ {w} /\ Removing' = Removing \ {w}
    BY <1>2, <2>1 DEF Enforcing, Removing
  <2>3. IsFiniteSet(Enforcing')
    BY <2>2, FS_RemoveElement DEF BudgetInv
  <2>4. ASSUME NEW S \in SUBSET Removing'
        PROVE  Cardinality(Remaining(S)') <= MaxSegments + Cardinality(Enforcing' \ S) + missed'
    <3> DEFINE T == S \cup {w}
    <3>1. T \in SUBSET Removing
      BY <1>2, <2>2
    <3>2. (UNION {victims[v] : v \in T}) = (UNION {victims'[v] : v \in S}) \cup {g}
      BY <1>6, <1>7, <1>9, <2>2
    <3>3. Enforcing \ T = Enforcing' \ S
      BY <2>2
    <3> HIDE DEF T
    <3>4. Remaining(S)' \subseteq Remaining(T) \cup new
      BY <1>3, <1>4, <3>2 DEF Remaining
    <3> DEFINE owed == Cardinality(Enforcing \ T)
    <3>5. owed \in Nat
      BY FS_Difference, FS_CardinalityType DEF BudgetInv
    <3>6. owed + missed + Cardinality(new) <= owed + missed'
      <4> HIDE DEF owed
      <4>1. QED BY <1>2, <1>4, <3>5
    <3>7. QED BY <1>2, <1>4, <2>3, <3>1, <3>3, <3>4, <3>6, BudgetCarries
  <2>5. QED BY <1>5, <2>2, <2>3, <2>4 DEF BudgetInv
<1>10. QED BY <1>8, <1>9

\* Every step keeps it.
LEMMA StepKeepsBudget ==
  ASSUME FileInv, SegmentsThere, BudgetInv, [Next]_vars
  PROVE  BudgetInv'
<1> USE DEF FileInv
<1>1. TypeOK' /\ FilesKept
  BY StepTyped, FilesStep
<1>2. IsFiniteSet(Generations) /\ pc \in [Writers -> Locations]
  BY DEF BudgetInv, TypeOK
<1>3. ASSUME Generations' = Generations, Recreated' = Recreated,
             UNCHANGED <<Enforcing, Removing, missed>>,
             \A w \in Removing : victims'[w] = victims[w]
      PROVE  BudgetInv'
  BY <1>1, <1>2, <1>3, BystandersKeepBudget
<1>4. ASSUME UNCHANGED files PROVE Generations' = Generations /\ Recreated' = Recreated
  BY <1>4 DEF Generations, Live, Recreated
<1>5. ASSUME NEW w \in Writers, NEW f \in Frames, AppendRefused(w, f) \/ AppendCalled(w, f)
      PROVE  BudgetInv'
  <2>1. UNCHANGED <<files, missed, victims>>
    BY <1>5 DEF AppendRefused, AppendCalled, fileVars, localVars
  <2>2. UNCHANGED <<Enforcing, Removing>>
    BY <1>2, <1>5 DEF AppendRefused, AppendCalled, Goto, Enforcing, Removing
  <2>3. QED BY <1>3, <1>4, <2>1, <2>2
<1>6. ASSUME NEW w \in Writers, Scan(w) \/ Open(w) \/ Stat(w)
      PROVE  BudgetInv'
  <2>1. UNCHANGED <<files, missed, victims>>
    BY <1>6 DEF Scan, Open, Stat, fileVars, localVars
  <2>2. UNCHANGED <<Enforcing, Removing>>
    <3>1. PICK loc \in Locations \ {"budget", "remove"} : pc' = [pc EXCEPT ![w] = loc]
      BY <1>6 DEF Scan, Open, Opened, Stat, Goto, Locations
    <3>2. pc[w] \notin {"budget", "remove"}
      BY <1>6 DEF Scan, Open, Stat
    <3>3. QED BY <1>2, <3>1, <3>2 DEF Enforcing, Removing
  <2>3. QED BY <1>3, <1>4, <2>1, <2>2
<1>7. ASSUME NEW w \in Writers, Write(w) \/ WriteTorn(w)
      PROVE  BudgetInv'
  <2>1. Return(w) /\ pc[w] = "write" /\ UNCHANGED missed
    BY <1>7 DEF Write, WriteTorn
  <2>2. UNCHANGED <<Enforcing, Removing>> /\ \A v \in Removing : victims'[v] = victims[v]
    BY <2>1, ReturnTyped DEF Enforcing, Removing, TypeOK
  <2>3. PICK torn \in BOOLEAN : Wrote(w, torn)
    BY <1>7 DEF Write, WriteTorn
  <2>4. frame[w] \in Frames /\ fd[w] \in 1..Len(files)
    BY <1>7 DEF FrameCalled, TypeOK, SegmentsThere, AtFile, Write, WriteTorn
  <2>5. Generations' = Generations /\ Len(files') = Len(files)
    BY <2>3, <2>4, WriteKeepsDirectory, WriteKeepsFiles
  <2>6. Recreated' = Recreated
    <3>1. \A i \in 2..Len(files) : files'[i].gen = files[i].gen
      BY <1>1 DEF FilesKept
    <3>2. QED BY <2>5, <3>1 DEF Recreated
  <2>7. QED BY <1>3, <2>1, <2>2, <2>5, <2>6
<1>8. ASSUME NEW w \in Writers, Abandon(w)
      PROVE  BudgetInv'
  <2>1. /\ Return(w) /\ UNCHANGED files
        /\ missed' = IF pc[w] \in {"budget", "remove"} THEN missed + 1 ELSE missed
    BY <1>8 DEF Abandon
  <2>2. /\ pc' = [pc EXCEPT ![w] = "idle"]
        /\ \A v \in Removing \ {w} : victims'[v] = victims[v]
    BY <2>1, ReturnTyped DEF Removing, TypeOK
  <2>3. Enforcing' = Enforcing \ {w} /\ Removing' = Removing \ {w}
    BY <1>2, <2>2 DEF Enforcing, Removing
  <2>4. CASE w \in Enforcing
    <3>1. missed' = missed + 1
      BY <2>1, <2>4 DEF Enforcing
    <3>2. QED BY <1>1, <2>1, <2>2, <2>3, <2>4, <3>1, GivingUpKeepsBudget
  <2>5. CASE w \notin Enforcing
    <3>1. missed' = missed /\ w \notin Removing
      BY <2>1, <2>5 DEF Enforcing, Removing
    <3>2. QED BY <1>3, <1>4, <2>1, <2>2, <2>3, <2>5, <3>1
  <2>6. QED BY <2>4, <2>5
<1>9. ASSUME NEW w \in Writers, BudgetBlind(w)
      PROVE  BudgetInv'
  <2>1. /\ UNCHANGED <<files, victims>> /\ missed' = missed + 1 /\ pc[w] = "budget"
        /\ pc' = [pc EXCEPT ![w] = "write"]
    BY <1>9 DEF BudgetBlind, localVars, Goto
  <2>2. w \in Enforcing /\ Enforcing' = Enforcing \ {w} /\ Removing' = Removing \ {w}
    BY <1>2, <2>1 DEF Enforcing, Removing
  <2>3. QED BY <1>1, <2>1, <2>2, GivingUpKeepsBudget
<1>10. ASSUME NEW g \in Generations, Retire(g)
       PROVE  BudgetInv'
  <2>1. UNCHANGED <<pc, missed, victims>> /\ Unlink(g, "retired")
    BY <1>10 DEF Retire, localVars
  <2>2. Generations' = Generations \ {g}
    BY <2>1, UnlinkRemoves
  <2>3. Recreated \subseteq Recreated'
    BY <1>1, RecreatedStays
  <2>4. IsFiniteSet(Generations')
    BY <1>2, <2>2, FS_RemoveElement
  <2>5. UNCHANGED <<Enforcing, Removing>>
    BY <2>1 DEF Enforcing, Removing
  <2>6. QED BY <1>1, <2>1, <2>2, <2>3, <2>4, <2>5, BystandersKeepBudget
<1>11. CASE UNCHANGED vars
  <2>1. UNCHANGED <<files, pc, victims, missed>>
    BY <1>11 DEF vars, fileVars, localVars
  <2>2. UNCHANGED <<Enforcing, Removing>>
    BY <2>1 DEF Enforcing, Removing
  <2>3. QED BY <1>3, <1>4, <2>1, <2>2
<1>12. QED BY <1>1, <1>5, <1>6, <1>7, <1>8, <1>9, <1>10, <1>11, CreateFirstKeepsBudget,
              RotateKeepsBudget, BudgetKeepsBudget, RemoveKeepsBudget
           DEF Next, Continue

\* The directory holds at most MaxSegments segments and what unfinished or failed
\* enforcements, and a first generation created again, leave there (rotate,
\* enforceSegmentBudget, openActive).
THEOREM BudgetKept == Spec => []SegmentBudget
<1>1. Init => SegmentsThere /\ BudgetInv
  <2> SUFFICES ASSUME Init PROVE SegmentsThere /\ BudgetInv
    OBVIOUS
  <2>1. SegmentsThere
    BY DEF Init, SegmentsThere, AtFile
  <2>2. Generations = {} /\ Enforcing = {} /\ missed = 0
    BY DEF Init, Generations, Live, Enforcing
  <2>3. \A S : Remaining(S) = {} /\ Enforcing \ S = {}
    BY <2>2 DEF Remaining
  <2>4. IsFiniteSet({}) /\ Cardinality({}) = 0
    BY FS_EmptySet
  <2>5. QED BY <2>1, <2>2, <2>3, <2>4, LimitsAssumption DEF BudgetInv
<1>2. FileInv /\ SegmentsThere /\ BudgetInv /\ [Next]_vars => SegmentsThere' /\ BudgetInv'
  BY SegmentsThereStep, StepKeepsBudget
<1>3. FileInv /\ BudgetInv => SegmentBudget
  <2> SUFFICES ASSUME FileInv, BudgetInv PROVE SegmentBudget
    OBVIOUS
  <2> DEFINE R == Remaining({})
             B == Cardinality(Enforcing)
  <2>1. Cardinality(R) <= MaxSegments + B + missed
    <3>1. {} \in SUBSET Removing /\ Enforcing \ {} = Enforcing
      OBVIOUS
    <3>2. QED BY <3>1 DEF BudgetInv
  <2>2. R = Generations \ Recreated
    BY DEF Remaining
  <2>3. IsFiniteSet(R) /\ Cardinality(R) \in Nat /\ B \in Nat /\ missed \in Nat
    <3>1. IsFiniteSet(Generations) /\ IsFiniteSet(Enforcing) /\ missed \in Nat
      BY DEF BudgetInv, FileInv, TypeOK
    <3>2. IsFiniteSet(Generations \ Recreated)
      BY <3>1, FS_Difference
    <3>3. QED BY <2>2, <3>1, <3>2, FS_CardinalityType
  <2> HIDE DEF R, B
  <2>4. CASE \E i \in 2..Len(files) : files[i].gen = 1
    <3>1. Generations \ R \subseteq {1} /\ R \subseteq Generations
      BY <2>2, <2>4 DEF Recreated
    <3>2. Generations = R \/ Generations = R \cup {1}
      BY <3>1
    <3>3. Cardinality(R \cup {1}) <= Cardinality(R) + 1
      BY <2>3, FS_AddElement
    <3>4. Cardinality(Generations) <= Cardinality(R) + 1
      BY <2>3, <3>2, <3>3
    <3>5. Cardinality(Generations) <= MaxSegments + B + missed + 1
      <4>1. Cardinality(Generations) \in Nat
        BY FS_CardinalityType DEF BudgetInv
      <4>2. QED BY <2>1, <2>3, <3>4, <4>1, LimitsAssumption
    <3>6. QED BY <2>4, <3>5 DEF SegmentBudget, B, Enforcing
  <2>5. CASE ~ \E i \in 2..Len(files) : files[i].gen = 1
    <3>1. Generations = R
      BY <2>2, <2>5 DEF Recreated
    <3>2. Cardinality(Generations) <= MaxSegments + B + missed + 0
      BY <2>1, <2>3, <3>1, LimitsAssumption
    <3>3. QED BY <2>5, <3>2 DEF SegmentBudget, B, Enforcing
  <2>6. QED BY <2>4, <2>5
<1>4. QED BY <1>1, <1>2, <1>3, FileInvariant, PTL DEF Spec

-----------------------------------------------------------------------------
(* openActive's loop. *)

\* A writer that knows of every change to the directory has chosen right: it
\* found the directory empty and it is, or chose the newest segment.
UpToDate(w) ==
  /\ pc[w] = "create" => Generations = {}
  /\ pc[w] \in {"open", "stat", "rotate"} => IsNewest(gen[w])

ListedInv ==
  \A w \in Writers : listed[w] <= Changes /\ (listed[w] = Changes => UpToDate(w))

\* The directory has changed if anything in it has.
LEMMA ChangesGrow ==
  ASSUME TypeOK, TypeOK', FilesKept
  PROVE  /\ Changes \in Nat /\ Changes' \in Nat /\ Changes <= Changes'
         /\ Changes' = Changes => Generations' = Generations
         /\ Len(files') > Len(files) => Changes < Changes'
<1> DEFINE Gone == 1..Len(files) \ Live
           N == Len(files)
           M == Len(files')
<1>1. N \in Nat /\ M \in Nat /\ N <= M
  BY DEF FilesKept
<1>2. Gone \in SUBSET Gone'
  BY <1>1 DEF FilesKept
<1>3. IsFiniteSet(1..M)
  BY <1>1, FS_Interval
<1>4. IsFiniteSet(Gone')
  BY <1>3, FS_Difference
<1>5. /\ IsFiniteSet(Gone) /\ Cardinality(Gone) <= Cardinality(Gone')
      /\ Cardinality(Gone) = Cardinality(Gone') => Gone = Gone'
  BY <1>2, <1>4, FS_Subset
<1>6. Cardinality(Gone) \in Nat /\ Cardinality(Gone') \in Nat
  BY <1>4, <1>5, FS_CardinalityType
<1>7. Changes = N + Cardinality(Gone) /\ Changes' = M + Cardinality(Gone')
  BY DEF Changes
<1>8. ASSUME M = N, Gone = Gone' PROVE Generations' = Generations
  <2>1. Live' = Live
    BY <1>8 DEF Live
  <2>2. \A i \in Live : files'[i].gen = files[i].gen
    BY DEF FilesKept, Live
  <2>3. QED BY <2>1, <2>2 DEF Generations
<1> DEFINE c == Cardinality(Gone)
           d == Cardinality(Gone')
<1>9. c \in Nat /\ d \in Nat /\ c <= d
  BY <1>5, <1>6
<1>10. Changes = N + c /\ Changes' = M + d
  BY <1>7
<1>11. c = d => Gone = Gone'
  BY <1>5
<1> HIDE DEF N, M, c, d, Gone
<1>12. Changes \in Nat /\ Changes' \in Nat /\ Changes <= Changes'
       /\ (M > N => Changes < Changes')
  BY <1>1, <1>9, <1>10
<1>13. ASSUME Changes' = Changes PROVE Generations' = Generations
  <2>1. M = N /\ c = d
    BY <1>1, <1>9, <1>10, <1>13
  <2>2. QED BY <1>8, <1>11, <2>1
<1>14. QED BY <1>12, <1>13 DEF N, M

\* A writer that lists the directory again knew less than everything.
LEMMA ScansForProgress ==
  ASSUME FileInv, ListedInv, ~blind, [Next]_vars, NEW w \in Writers,
         pc[w] \notin {"idle", "scan"}, pc'[w] = "scan"
  PROVE  listed[w] < Changes
<1> USE DEF FileInv
<1>1. Changes \in Nat /\ listed[w] \in Nat /\ listed[w] <= Changes
  BY ChangesTyped DEF ListedInv, TypeOK
<1> SUFFICES ASSUME listed[w] = Changes PROVE FALSE
  BY <1>1
<1>2. UpToDate(w)
  BY DEF ListedInv
<1>3. pc \in [Writers -> Locations] /\ \A g \in Generations : g \in Nat
  BY GenerationsPositive DEF TypeOK
<1>4. CASE ~StepOf(w) /\ \A f \in Frames : ~AppendCalled(w, f)
  BY <1>4, Bystander
<1>5. CASE \E f \in Frames : AppendCalled(w, f)
  BY <1>5 DEF AppendCalled
<1>6. CASE CreateFirst(w)
  BY <1>2, <1>3, <1>6 DEF CreateFirst, Opened, Goto, UpToDate
<1>7. CASE Open(w)
  BY <1>2, <1>3, <1>7 DEF Open, Opened, Goto, UpToDate, IsNewest
<1>8. CASE Rotate(w)
  <2>1. pc[w] = "rotate" /\ gen[w] + 1 \in Generations
    BY <1>3, <1>8 DEF Rotate, Goto
  <2>2. gen[w] \in Nat /\ gen[w] + 1 <= gen[w]
    BY <1>2, <2>1 DEF UpToDate, IsNewest, TypeOK
  <2>3. QED BY <2>2
<1>9. CASE Scan(w)
  BY <1>9 DEF Scan
<1>10. CASE Stat(w) \/ Budget(w) \/ BudgetBlind(w) \/ Remove(w)
  BY <1>3, <1>10 DEF Stat, Budget, BudgetBlind, Remove, Goto
<1>11. CASE Write(w) \/ WriteTorn(w) \/ Abandon(w)
  BY <1>3, <1>11 DEF Write, WriteTorn, Abandon, Return, Goto
<1>12. QED BY <1>4, <1>5, <1>6, <1>7, <1>8, <1>9, <1>10, <1>11 DEF StepOf, Continue

\* Every step of a directory that can be listed keeps it.
LEMMA ListedStep ==
  ASSUME FileInv, SegmentsThere, ListedInv, ~blind, [Next]_vars
  PROVE  ListedInv'
<1> USE DEF FileInv
<1>1. TypeOK' /\ FilesKept
  BY StepTyped, FilesStep
<1>2. /\ Changes \in Nat /\ Changes' \in Nat /\ Changes <= Changes'
      /\ Changes' = Changes => Generations' = Generations
      /\ Len(files') > Len(files) => Changes < Changes'
  BY <1>1, ChangesGrow
<1> SUFFICES ASSUME NEW w \in Writers
             PROVE  listed'[w] <= Changes' /\ (listed'[w] = Changes' => UpToDate(w)')
  BY DEF ListedInv
<1>3. listed[w] \in Nat /\ listed[w] <= Changes /\ (listed[w] = Changes => UpToDate(w))
  BY DEF ListedInv, TypeOK
<1>4. pc \in [Writers -> Locations] /\ listed \in [Writers -> Nat]
  BY DEF TypeOK
\* A writer that keeps its choice.
<1>5. ASSUME listed'[w] = listed[w],
             UNCHANGED <<pc[w], gen[w]>> \/ pc'[w] \notin {"create", "open", "stat", "rotate"}
      PROVE  listed'[w] <= Changes' /\ (listed'[w] = Changes' => UpToDate(w)')
  <2>1. listed'[w] <= Changes'
    BY <1>2, <1>3, <1>5
  <2>2. ASSUME listed'[w] = Changes' PROVE UpToDate(w)'
    <3>1. UpToDate(w) /\ Generations' = Generations
      BY <1>2, <1>3, <1>5, <2>2
    <3>2. QED BY <1>5, <3>1 DEF UpToDate, IsNewest
  <2>3. QED BY <2>1, <2>2
\* One that goes on with it.
<1>6. ASSUME UNCHANGED <<listed[w], gen[w]>>,
             pc[w] \in {"open", "stat"}, pc'[w] \in {"stat", "rotate"}
      PROVE  listed'[w] <= Changes' /\ (listed'[w] = Changes' => UpToDate(w)')
  <2>1. listed'[w] <= Changes'
    BY <1>2, <1>3, <1>6
  <2>2. ASSUME listed'[w] = Changes' PROVE UpToDate(w)'
    <3>1. UpToDate(w) /\ Generations' = Generations
      BY <1>2, <1>3, <1>6, <2>2
    <3>2. QED BY <1>6, <3>1 DEF UpToDate, IsNewest
  <2>3. QED BY <2>1, <2>2
<1>7. CASE ~StepOf(w) /\ \A f \in Frames : ~AppendCalled(w, f)
  BY <1>5, <1>7, Bystander
<1>8. CASE \E f \in Frames : AppendCalled(w, f)
  BY <1>4, <1>5, <1>8 DEF AppendCalled, Goto
<1>9. CASE Scan(w)
  <2>1. listed'[w] = Changes /\ UNCHANGED files
    BY <1>4, <1>9 DEF Scan, fileVars
  <2>2. Changes' = Changes /\ Generations' = Generations
    BY <2>1 DEF Changes, Generations, Live
  <2>3. \/ pc'[w] = "create" /\ Generations = {}
        \/ pc'[w] = "open" /\ gen'[w] \in Generations /\ IsNewest(gen'[w])
    <3>1. gen \in [Writers -> Nat]
      BY DEF TypeOK
    <3>2. QED BY <1>4, <1>9, <3>1 DEF Scan, Goto
  <2>4. UpToDate(w)'
    BY <2>2, <2>3 DEF UpToDate, IsNewest
  <2>5. QED BY <1>2, <2>1, <2>2, <2>4
<1>10. CASE CreateFirst(w)
  <2>1. UNCHANGED listed
    BY <1>10 DEF CreateFirst
  <2>2. CASE 1 \in Generations
    BY <1>4, <1>5, <1>10, <2>1, <2>2 DEF CreateFirst, Goto
  <2>3. CASE 1 \notin Generations
    <3>1. Create(1)
      BY <1>10, <2>3 DEF CreateFirst
    <3>2. Len(files') = Len(files) + 1 /\ Len(files) \in Nat
      BY <3>1, CreateKeepsFiles DEF TypeOK
    <3>3. Changes < Changes'
      BY <1>2, <3>2
    <3>4. QED BY <1>2, <1>3, <2>1, <3>3
  <2>4. QED BY <2>2, <2>3
<1>11. CASE Open(w)
  <2>1. UNCHANGED <<listed, gen>> /\ pc[w] = "open"
    BY <1>11 DEF Open
  <2>2. pc'[w] \in {"scan", "stat", "write"}
    BY <1>4, <1>11 DEF Open, Opened, Goto
  <2>3. QED BY <1>5, <1>6, <2>1, <2>2
<1>12. CASE Stat(w)
  <2>1. UNCHANGED <<listed, gen>> /\ pc[w] = "stat"
    BY <1>12 DEF Stat, localVars
  <2>2. pc'[w] \in {"rotate", "write"}
    BY <1>4, <1>12 DEF Stat, Goto
  <2>3. QED BY <1>5, <1>6, <2>1, <2>2
<1>13. CASE Rotate(w) \/ Budget(w) \/ BudgetBlind(w) \/ Remove(w)
  <2>1. UNCHANGED listed
    BY <1>13 DEF Rotate, Budget, BudgetBlind, Remove, localVars
  <2>2. pc'[w] \in {"scan", "budget", "write", "remove"}
    BY <1>4, <1>13 DEF Rotate, Budget, BudgetBlind, Remove, Goto
  <2>3. QED BY <1>5, <2>1, <2>2
<1>14. CASE Write(w) \/ WriteTorn(w) \/ Abandon(w)
  <2>1. Return(w)
    BY <1>14 DEF Write, WriteTorn, Abandon
  <2>2. listed'[w] = 0 /\ pc'[w] = "idle"
    BY <1>4, <2>1 DEF Return, Goto
  <2>3. UpToDate(w)'
    BY <2>2 DEF UpToDate
  <2>4. QED BY <1>2, <2>2, <2>3
<1>15. QED BY <1>7, <1>8, <1>9, <1>10, <1>11, <1>12, <1>13, <1>14 DEF StepOf, Continue

\* openActive's loop is lock-free: where the directory can be listed, a writer
\* lists it again only after somebody else has changed it (openActive, rotate).
THEOREM RescansAreProgress == Spec => RescansForProgress
<1>1. Init => SegmentsThere /\ ListedInv
  <2> SUFFICES ASSUME Init PROVE SegmentsThere /\ ListedInv
    OBVIOUS
  <2>1. SegmentsThere
    BY DEF Init, SegmentsThere, AtFile
  <2>2. Len(files) = 0
    BY DEF Init
  <2>3. Live = {} /\ 1..Len(files) \ Live = {}
    BY <2>2 DEF Live
  <2>4. Changes = 0
    BY <2>2, <2>3, FS_EmptySet DEF Changes
  <2>5. ASSUME NEW w \in Writers PROVE listed[w] = 0 /\ pc[w] = "idle"
    BY DEF Init
  <2>6. ASSUME NEW w \in Writers
        PROVE  listed[w] <= Changes /\ (listed[w] = Changes => UpToDate(w))
    BY <2>4, <2>5 DEF UpToDate
  <2>7. QED BY <2>1, <2>6 DEF ListedInv
<1>2. FileInv /\ SegmentsThere /\ (~blind => ListedInv) /\ [Next]_vars
        => SegmentsThere' /\ (~blind => ListedInv)'
  BY SegmentsThereStep, ListedStep, BlindFixed
<1>3. FileInv /\ (~blind => ListedInv) /\ [Next]_vars
        => (~blind => \A w \in Writers :
              pc[w] \notin {"idle", "scan"} /\ pc'[w] = "scan" => listed[w] < Changes)
  BY ScansForProgress
<1>4. QED BY <1>1, <1>2, <1>3, FileInvariant, PTL DEF Spec, RescansForProgress
=============================================================================
