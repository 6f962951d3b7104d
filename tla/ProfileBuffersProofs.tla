------------------------ MODULE ProfileBuffersProofs ------------------------
(***************************************************************************)
(* Theorems about ProfileBuffers, for every finite set of stacks and of    *)
(* callers and every setting of the limits.                                *)
(***************************************************************************)
EXTENDS ProfileBuffers, Sums, FiniteSetTheorems, SequenceTheorems, TLAPS

-----------------------------------------------------------------------------
(* Documents: at most ProfileBatchSize samples in each. *)

\* The place in the samples of the j-th sample of the i-th document.
Place(i, j) == (i - 1) * ProfileBatchSize + j

ChunkCount(samples) == (Len(samples) + ProfileBatchSize - 1) \div ProfileBatchSize

Chunk(samples, i) ==
  SubSeq(samples, (i - 1) * ProfileBatchSize + 1, Lesser(i * ProfileBatchSize, Len(samples)))

LEMMA Monotone ==
  ASSUME NEW a \in Nat, NEW b \in Nat, a <= b, NEW c \in Nat
  PROVE  a * c <= b * c
OBVIOUS

LEMMA Predecessor ==
  ASSUME NEW i \in Nat \ {0}
  PROVE  /\ i * ProfileBatchSize = (i - 1) * ProfileBatchSize + ProfileBatchSize
         /\ (i - 1) * ProfileBatchSize \in Nat
<1>1. ProfileBatchSize \in Nat
  BY ProfileLimitsAssumption
<1> DEFINE c == ProfileBatchSize
<1> HIDE DEF c
<1>2. ASSUME c \in Nat PROVE i * c = (i - 1) * c + c /\ (i - 1) * c \in Nat
  BY <1>2
<1>3. QED BY <1>1, <1>2 DEF c

\* The number of documents is the quotient, rounded up.
LEMMA CountBounds ==
  ASSUME NEW S, NEW samples \in Seq(S)
  PROVE  /\ ChunkCount(samples) \in Nat
         /\ Len(samples) <= ChunkCount(samples) * ProfileBatchSize
         /\ ChunkCount(samples) * ProfileBatchSize <= Len(samples) + ProfileBatchSize - 1
<1> DEFINE b == ProfileBatchSize
           n == Len(samples) + b - 1
<1>1. b \in Nat \ {0} /\ Len(samples) \in Nat /\ n \in Nat
  BY ProfileLimitsAssumption
<1>2. ASSUME NEW m \in Nat, NEW c \in Nat \ {0}
      PROVE  m \div c \in Nat /\ (m \div c) * c <= m /\ m < (m \div c) * c + c
  OBVIOUS
<1>3. /\ n \div b \in Nat /\ (n \div b) * b <= n /\ n < (n \div b) * b + b
  <2> HIDE DEF n, b
  <2>1. QED BY <1>1, <1>2
<1> DEFINE q == (n \div b) * b
<1>4. q \in Nat /\ q <= n /\ n < q + b
  <2>1. \A k, l \in Nat : k * l \in Nat
    OBVIOUS
  <2> HIDE DEF n, b
  <2>2. QED BY <1>1, <1>3, <2>1
<1>5. q \in Nat /\ q <= n /\ Len(samples) <= q
  <2>1. n = Len(samples) + b - 1
    OBVIOUS
  <2> HIDE DEF n, b, q
  <2>2. QED BY <1>1, <1>4, <2>1
<1>6. QED BY <1>3, <1>5 DEF ChunkCount

LEMMA Slice ==
  ASSUME NEW S, NEW samples \in Seq(S), NEW low \in Nat, NEW high \in Nat,
         low < high, high <= Len(samples)
  PROVE  /\ SubSeq(samples, low + 1, high) \in Seq(S)
         /\ Len(SubSeq(samples, low + 1, high)) = high - low
         /\ \A j \in 1..(high - low) : SubSeq(samples, low + 1, high)[j] = samples[low + j]
<1>1. Len(SubSeq(samples, low + 1, high)) = high - low
  OBVIOUS
<1>2. ASSUME NEW j \in 1..(high - low)
      PROVE  SubSeq(samples, low + 1, high)[j] = samples[low + j]
  BY <1>1
<1>3. SubSeq(samples, low + 1, high) \in Seq(S)
  <2>1. \A m \in (low + 1)..high : samples[m] \in S
    OBVIOUS
  <2>2. QED BY <2>1, SubSeqProperties
<1>4. QED BY <1>1, <1>2, <1>3

\* The documents of a series hold the samples in their order, each in one place.
LEMMA ChunksHold ==
  ASSUME NEW S, NEW samples \in Seq(S), NEW series
  PROVE  /\ Chunks(series, samples)
              = [i \in 1..ChunkCount(samples) |-> [series |-> series, samples |-> Chunk(samples, i)]]
         /\ \A i \in 1..ChunkCount(samples) :
              /\ Chunk(samples, i) \in Seq(S)
              /\ Len(Chunk(samples, i)) \in 1..ProfileBatchSize
              /\ \A j \in 1..Len(Chunk(samples, i)) :
                   /\ Place(i, j) \in 1..Len(samples)
                   /\ Chunk(samples, i)[j] = samples[Place(i, j)]
<1>1. ProfileBatchSize \in Nat \ {0} /\ Len(samples) \in Nat
  BY ProfileLimitsAssumption
<1>2. ASSUME NEW i \in 1..ChunkCount(samples)
      PROVE  /\ Chunk(samples, i) \in Seq(S)
             /\ Len(Chunk(samples, i)) \in 1..ProfileBatchSize
             /\ \A j \in 1..Len(Chunk(samples, i)) :
                  /\ Place(i, j) \in 1..Len(samples)
                  /\ Chunk(samples, i)[j] = samples[Place(i, j)]
  <2> DEFINE b == ProfileBatchSize
             c == ChunkCount(samples)
             low == (i - 1) * b
             high == Lesser(i * b, Len(samples))
  <2>1. c \in Nat /\ c * b <= Len(samples) + b - 1 /\ i \in Nat \ {0} /\ i <= c
    BY CountBounds
  <2>2. i * b = low + b /\ low \in Nat
    BY <2>1, Predecessor
  <2>3. low + b <= Len(samples) + b - 1
    <3>1. i * b <= c * b
      BY <1>1, <2>1, Monotone
    <3>2. c * b \in Nat
      BY <1>1, <2>1
    <3> DEFINE cb == c * b
               ib == i * b
    <3>3. ib <= cb /\ cb <= Len(samples) + b - 1 /\ ib = low + b /\ cb \in Nat
      BY <2>1, <2>2, <3>1, <3>2
    <3> HIDE DEF cb, ib, low, c
    <3>4. QED BY <1>1, <2>2, <3>3
  <2>4. high \in Nat /\ low + 1 <= high /\ high <= low + b /\ high <= Len(samples)
    <3>1. high = IF i * b <= Len(samples) THEN i * b ELSE Len(samples)
      BY DEF Lesser
    <3>2. high = IF low + b <= Len(samples) THEN low + b ELSE Len(samples)
      BY <2>2, <3>1
    <3> HIDE DEF high, low, c
    <3>3. QED BY <1>1, <2>2, <2>3, <3>2
  <2>5. Chunk(samples, i) = SubSeq(samples, low + 1, high)
    BY DEF Chunk
  <2>6. \A j \in Nat : Place(i, j) = low + j
    BY DEF Place
  <2> HIDE DEF low, high, c
  <2>7. low \in Nat /\ high \in Nat /\ low < high /\ high <= Len(samples)
    BY <2>2, <2>4
  <2>8. /\ Chunk(samples, i) \in Seq(S)
        /\ Len(Chunk(samples, i)) = high - low
        /\ \A j \in 1..(high - low) : Chunk(samples, i)[j] = samples[low + j]
    BY <2>5, <2>7, Slice
  <2>9. high - low \in 1..b
    BY <1>1, <2>2, <2>4
  <2>10. ASSUME NEW j \in 1..(high - low)
         PROVE  Place(i, j) = low + j /\ Place(i, j) \in 1..Len(samples)
    <3>1. j \in Nat
      BY <2>9
    <3>2. low + j \in 1..Len(samples)
      BY <1>1, <2>2, <2>4
    <3>3. QED BY <2>6, <3>1, <3>2
  <2>11. QED BY <2>8, <2>9, <2>10
<1>3. QED BY <1>2 DEF Chunks, ChunkCount, Chunk

\* No sample is left out ...
LEMMA ChunksCover ==
  ASSUME NEW S, NEW samples \in Seq(S), NEW k \in 1..Len(samples)
  PROVE  \E i \in 1..ChunkCount(samples) :
           \E j \in 1..Len(Chunk(samples, i)) : Place(i, j) = k
<1> DEFINE b == ProfileBatchSize
           c == ChunkCount(samples)
           q == (k - 1) \div b
           low == q * b
           j == k - low
           i == q + 1
           high == Lesser(i * b, Len(samples))
<1>1. b \in Nat \ {0} /\ Len(samples) \in Nat /\ k \in Nat \ {0} /\ k <= Len(samples)
  BY ProfileLimitsAssumption
<1>2. q \in Nat /\ low <= k - 1 /\ k - 1 < low + b
  <2>1. ASSUME NEW m \in Nat, NEW d \in Nat \ {0}
        PROVE  m \div d \in Nat /\ (m \div d) * d <= m /\ m < (m \div d) * d + d
    OBVIOUS
  <2>2. k - 1 \in Nat
    BY <1>1
  <2>3. QED BY <1>1, <2>1, <2>2
<1>3. i \in Nat \ {0} /\ i - 1 = q /\ i * b = low + b /\ low \in Nat
  <2> HIDE DEF q
  <2>1. i \in Nat \ {0} /\ i - 1 = q
    BY <1>2
  <2>2. QED BY <2>1, Predecessor
<1>4. c \in Nat /\ Len(samples) <= c * b
  BY CountBounds
<1>5. i <= c
  <2>1. SUFFICES ASSUME c <= q PROVE FALSE
    <3> HIDE DEF q, c
    <3>1. QED BY <1>2, <1>4
  <2>2. c * b <= low
    BY <1>1, <1>2, <1>4, <2>1, Monotone
  <2> DEFINE cb == c * b
  <2>3. Len(samples) <= cb /\ cb <= low /\ cb \in Nat
    BY <1>1, <1>4, <2>2
  <2> HIDE DEF cb, low, c
  <2>4. QED BY <1>1, <1>2, <1>3, <2>3
<1>6. high = IF low + b <= Len(samples) THEN low + b ELSE Len(samples)
  BY <1>3 DEF Lesser
<1>7. Chunk(samples, i) = SubSeq(samples, low + 1, high)
  BY <1>3 DEF Chunk
<1>8. Place(i, j) = low + j
  BY <1>3 DEF Place
<1> HIDE DEF low, high, c, q
<1>9. /\ j \in 1..(high - low) /\ high \in Nat /\ high <= Len(samples) /\ low + j = k
  BY <1>1, <1>2, <1>3, <1>6
<1>10. Len(SubSeq(samples, low + 1, high)) = high - low
  BY <1>1, <1>3, <1>9
<1>11. i \in 1..c
  BY <1>3, <1>4, <1>5
<1> HIDE DEF i, j
<1>12. QED BY <1>7, <1>8, <1>9, <1>10, <1>11 DEF c

\* ... or is in two.
LEMMA PlacesApart ==
  ASSUME NEW i \in Nat \ {0}, NEW k \in Nat \ {0},
         NEW j \in 1..ProfileBatchSize, NEW l \in 1..ProfileBatchSize,
         Place(i, j) = Place(k, l)
  PROVE  i = k /\ j = l
<1> DEFINE b == ProfileBatchSize
<1>1. b \in Nat \ {0} /\ j \in Nat /\ l \in Nat
  BY ProfileLimitsAssumption
<1>2. ASSUME NEW u \in Nat \ {0}, NEW v \in Nat \ {0}, u < v,
             NEW x \in 1..b, NEW y \in 1..b
      PROVE  Place(u, x) < Place(v, y)
  <2> DEFINE ub == (u - 1) * b
             vb == (v - 1) * b
  <2>1. u * b = ub + b /\ ub \in Nat /\ vb \in Nat
    BY Predecessor
  <2>2. u <= v - 1 /\ u \in Nat /\ v - 1 \in Nat
    BY <1>2
  <2>3. u * b <= vb
    BY <1>1, <2>2, Monotone
  <2>4. ub + b <= vb
    BY <2>1, <2>3
  <2> HIDE DEF ub, vb
  <2>5. ub + x < vb + y
    BY <1>1, <2>1, <2>4
  <2>6. QED BY <2>5 DEF Place, ub, vb
<1>3. i = k
  <2>1. Place(i, j) \in Int /\ Place(k, l) \in Int
    <3>1. (i - 1) * b \in Nat /\ (k - 1) * b \in Nat
      BY Predecessor
    <3>2. QED BY <1>1, <3>1 DEF Place
  <2>2. ~(i < k) /\ ~(k < i)
    BY <1>2, <2>1
  <2>3. QED BY <2>2
<1>4. j = l
  <2> DEFINE ib == (i - 1) * b
  <2>1. ib \in Nat /\ ib + j = ib + l
    BY <1>3, Predecessor DEF Place
  <2> HIDE DEF ib
  <2>2. QED BY <1>1, <2>1
<1>5. QED BY <1>3, <1>4
-----------------------------------------------------------------------------
(* What the documents of a flush of the sampler hold. *)

StackSamples == [stack : Stacks, ticks : Nat \ {0}]

StackDocuments == [series : StackSeries, samples : Seq(StackSamples)]

\* A sample of s in a document, and in those of a series.
Shows(d, s) == \E j \in DOMAIN d.samples : d.samples[j].stack = s

ShownIn(series, s, ds) == \E i \in DOMAIN ds : ds[i].series = series /\ Shows(ds[i], s)

\* The stacks a series is about.
StacksOf(series) == IF series = "go-wall" THEN WallStacks ELSE OffCPUStacks

\* A stack has a sample in each series at most.
StacksApart(ds) ==
  \A i, k \in DOMAIN ds : \A j \in DOMAIN ds[i].samples : \A l \in DOMAIN ds[k].samples :
    ds[i].series = ds[k].series /\ ds[i].samples[j].stack = ds[k].samples[l].stack
      => i = k /\ j = l

\* Both series tell the same ticks of a stack.
TicksAgree(ds) ==
  \A i, k \in DOMAIN ds : \A j \in DOMAIN ds[i].samples : \A l \in DOMAIN ds[k].samples :
    ds[i].samples[j].stack = ds[k].samples[l].stack
      => ds[i].samples[j].ticks = ds[k].samples[l].ticks

\* What flushWallProfiles has still to write: WALL before OFF_CPU.
WallRest(ds) ==
  /\ ds \in Seq(StackDocuments)
  /\ StacksApart(ds)
  /\ TicksAgree(ds)
  /\ \A i \in DOMAIN ds : \A j \in DOMAIN ds[i].samples :
       ds[i].samples[j].stack \in StacksOf(ds[i].series)
  /\ \A i, k \in DOMAIN ds :
       ds[i].series = "go-wall" /\ ds[k].series = "go-offcpu" => i < k

LEMMA StacksFinite == IsFiniteSet(Stacks) /\ IsFiniteSet(Procs)
<1>1. IsFiniteSet({Loop, Main})
  <2>1. IsFiniteSet({Main})
    BY FS_Singleton
  <2>2. IsFiniteSet({Main} \cup {Loop})
    BY <2>1, FS_AddElement
  <2>3. {Main} \cup {Loop} = {Loop, Main}
    OBVIOUS
  <2>4. QED BY <2>2, <2>3
<1>2. QED BY <1>1, FS_Union, StacksAssumption, ProfileProcsAssumption DEF Procs

\* The ticks of a stack in a document are those of its sample.
LEMMA TicksAre ==
  ASSUME NEW d \in StackDocuments, NEW s,
         \A j, l \in DOMAIN d.samples : d.samples[j].stack = d.samples[l].stack => j = l
  PROVE  /\ TicksOf(s, d) \in Nat
         /\ \A j \in DOMAIN d.samples :
              d.samples[j].stack = s => TicksOf(s, d) = d.samples[j].ticks
         /\ ~Shows(d, s) => TicksOf(s, d) = 0
<1> DEFINE f == [j \in DOMAIN d.samples |->
                   IF d.samples[j].stack = s THEN d.samples[j].ticks ELSE 0]
           D == DOMAIN d.samples
<1>1. /\ d.samples \in Seq(StackSamples) /\ D = 1..Len(d.samples)
      /\ \A j \in D : d.samples[j].ticks \in Nat \ {0}
  <2>1. d.samples \in Seq(StackSamples)
    BY DEF StackDocuments
  <2>2. D = 1..Len(d.samples) /\ \A j \in D : d.samples[j] \in StackSamples
    BY <2>1
  <2>3. \A x \in StackSamples : x.ticks \in Nat \ {0}
    BY DEF StackSamples
  <2>4. QED BY <2>1, <2>2, <2>3
<1>2. IsFiniteSet(D)
  BY <1>1, FS_Interval
<1>3. f \in [D -> Nat] /\ f \in [D -> Int] /\ DOMAIN f = D
  BY <1>1
<1>4. TicksOf(s, d) = SumFunctionOnSet(f, D)
  BY <1>3 DEF TicksOf, SumFunction
<1>5. ASSUME NEW j \in D, d.samples[j].stack = s
      PROVE  TicksOf(s, d) = d.samples[j].ticks
  <2>1. f[j] = d.samples[j].ticks /\ \A l \in D \ {j} : f[l] = 0
    BY <1>5
  <2> HIDE DEF f, D
  <2>2. QED BY <1>2, <1>3, <1>4, <1>5, <2>1, SumOfOne
<1>6. ASSUME ~Shows(d, s) PROVE TicksOf(s, d) = 0
  <2>1. \A j \in D : f[j] = 0
    BY <1>6 DEF Shows
  <2> HIDE DEF f, D
  <2>2. QED BY <1>2, <1>3, <1>4, <2>1, SumOfZeros
<1>7. TicksOf(s, d) \in Nat
  <2> HIDE DEF f, D
  <2>1. QED BY <1>2, <1>3, <1>4, SumOfNaturals
<1>8. QED BY <1>5, <1>6, <1>7

\* The ticks of a stack in a series are those of its sample.
LEMMA SeriesTicksAre ==
  ASSUME NEW ds, WallRest(ds), NEW series, NEW s
  PROVE  /\ SeriesTicks(series, s, ds) \in Nat
         /\ \A i \in DOMAIN ds : ds[i].series = series /\ Shows(ds[i], s)
              => SeriesTicks(series, s, ds) = TicksOf(s, ds[i])
         /\ ~ShownIn(series, s, ds) => SeriesTicks(series, s, ds) = 0
<1> DEFINE f == [i \in DOMAIN ds |-> IF ds[i].series = series THEN TicksOf(s, ds[i]) ELSE 0]
           D == DOMAIN ds
<1>1. /\ ds \in Seq(StackDocuments) /\ D = 1..Len(ds)
      /\ \A i \in D : ds[i] \in StackDocuments
  BY DEF WallRest
<1>2. IsFiniteSet(D)
  BY <1>1, FS_Interval
<1>3. ASSUME NEW i \in D
      PROVE  TicksOf(s, ds[i]) \in Nat /\ (~Shows(ds[i], s) => TicksOf(s, ds[i]) = 0)
  <2>1. \A j, l \in DOMAIN ds[i].samples :
          ds[i].samples[j].stack = ds[i].samples[l].stack => j = l
    BY DEF WallRest, StacksApart
  <2>2. QED BY <1>1, <2>1, TicksAre
<1>4. f \in [D -> Nat] /\ f \in [D -> Int] /\ DOMAIN f = D
  BY <1>3
<1>5. SeriesTicks(series, s, ds) = SumFunctionOnSet(f, D)
  BY <1>4 DEF SeriesTicks, SumFunction
<1>6. ASSUME NEW i \in D, ds[i].series = series, Shows(ds[i], s)
      PROVE  SeriesTicks(series, s, ds) = TicksOf(s, ds[i])
  <2>1. \A k \in D \ {i} : ds[k].series = series => ~Shows(ds[k], s)
    BY <1>6 DEF WallRest, StacksApart, Shows
  <2>2. f[i] = TicksOf(s, ds[i]) /\ \A k \in D \ {i} : f[k] = 0
    BY <1>3, <1>6, <2>1
  <2> HIDE DEF f, D
  <2>3. QED BY <1>2, <1>4, <1>5, <1>6, <2>2, SumOfOne
<1>7. ASSUME ~ShownIn(series, s, ds) PROVE SeriesTicks(series, s, ds) = 0
  <2>1. \A i \in D : f[i] = 0
    BY <1>3, <1>7 DEF ShownIn
  <2> HIDE DEF f, D
  <2>2. QED BY <1>2, <1>4, <1>5, <2>1, SumOfZeros
<1>8. SeriesTicks(series, s, ds) \in Nat
  <2> HIDE DEF f, D
  <2>1. QED BY <1>2, <1>4, <1>5, SumOfNaturals
<1>9. QED BY <1>6, <1>7, <1>8

\* The first document is written and the others remain.
LEMMA RestTicks ==
  ASSUME NEW ds, WallRest(ds), ds # <<>>, NEW series, NEW s
  PROVE  /\ WallRest(Tail(ds))
         /\ Head(ds) \in StackDocuments
         /\ TicksOf(s, Head(ds)) \in Nat
         /\ ~Shows(Head(ds), s) => TicksOf(s, Head(ds)) = 0
         /\ Head(ds).series # series =>
              SeriesTicks(series, s, ds) = SeriesTicks(series, s, Tail(ds))
         /\ Head(ds).series = series =>
              SeriesTicks(series, s, ds) = SeriesTicks(series, s, Tail(ds)) + TicksOf(s, Head(ds))
<1> DEFINE rest == Tail(ds)
           d == Head(ds)
<1>1. /\ ds \in Seq(StackDocuments) /\ Len(ds) \in Nat /\ DOMAIN ds = 1..Len(ds)
      /\ rest \in Seq(StackDocuments) /\ d = ds[1] /\ 1 \in DOMAIN ds
      /\ d \in StackDocuments
      /\ DOMAIN rest = 1..(Len(ds) - 1)
      /\ \A i \in DOMAIN rest : i + 1 \in DOMAIN ds /\ rest[i] = ds[i + 1] /\ i \in Nat
  BY DEF WallRest
<1>2. \A i \in DOMAIN ds \ {1} : i - 1 \in DOMAIN rest /\ rest[i - 1] = ds[i]
  BY <1>1
<1> HIDE DEF rest, d
<1>3. WallRest(rest)
  <2>1. StacksApart(rest)
    <3> SUFFICES ASSUME NEW i \in DOMAIN rest, NEW k \in DOMAIN rest,
                        NEW j \in DOMAIN rest[i].samples, NEW l \in DOMAIN rest[k].samples,
                        rest[i].series = rest[k].series,
                        rest[i].samples[j].stack = rest[k].samples[l].stack
                 PROVE  i = k /\ j = l
      BY DEF StacksApart
    <3>1. i + 1 = k + 1 /\ j = l
      BY <1>1 DEF WallRest, StacksApart
    <3>2. QED BY <1>1, <3>1
  <2>2. TicksAgree(rest)
    <3> SUFFICES ASSUME NEW i \in DOMAIN rest, NEW k \in DOMAIN rest,
                        NEW j \in DOMAIN rest[i].samples, NEW l \in DOMAIN rest[k].samples,
                        rest[i].samples[j].stack = rest[k].samples[l].stack
                 PROVE  rest[i].samples[j].ticks = rest[k].samples[l].ticks
      BY DEF TicksAgree
    <3>1. QED BY <1>1 DEF WallRest, TicksAgree
  <2>3. ASSUME NEW i \in DOMAIN rest, NEW j \in DOMAIN rest[i].samples
        PROVE  rest[i].samples[j].stack \in StacksOf(rest[i].series)
    BY <1>1 DEF WallRest
  <2>4. ASSUME NEW i \in DOMAIN rest, NEW k \in DOMAIN rest,
               rest[i].series = "go-wall", rest[k].series = "go-offcpu"
        PROVE  i < k
    <3>1. i + 1 < k + 1
      BY <1>1, <2>4 DEF WallRest
    <3>2. QED BY <1>1, <3>1
  <2>5. QED BY <1>1, <2>1, <2>2, <2>3, <2>4 DEF WallRest
<1>4. TicksOf(s, d) \in Nat /\ (~Shows(d, s) => TicksOf(s, d) = 0)
  <2>1. \A j, l \in DOMAIN d.samples : d.samples[j].stack = d.samples[l].stack => j = l
    BY <1>1 DEF WallRest, StacksApart
  <2>2. QED BY <1>1, <2>1, TicksAre
<1>5. SeriesTicks(series, s, ds) \in Nat /\ SeriesTicks(series, s, rest) \in Nat
  BY <1>3, SeriesTicksAre
<1>6. CASE d.series = series /\ Shows(d, s)
  <2>1. SeriesTicks(series, s, ds) = TicksOf(s, d)
    BY <1>1, <1>6, SeriesTicksAre
  <2>2. ~ShownIn(series, s, rest)
    <3> SUFFICES ASSUME NEW i \in DOMAIN rest, rest[i].series = series, Shows(rest[i], s)
                 PROVE  FALSE
      BY DEF ShownIn
    <3>1. ds[i + 1].series = ds[1].series /\ Shows(ds[i + 1], s) /\ Shows(ds[1], s)
      BY <1>1, <1>6
    <3>2. i + 1 = 1
      BY <1>1, <3>1 DEF Shows, WallRest, StacksApart
    <3>3. QED BY <1>1, <3>2
  <2>3. SeriesTicks(series, s, rest) = 0
    BY <1>3, <2>2, SeriesTicksAre
  <2>4. QED BY <1>1, <1>3, <1>4, <1>5, <1>6, <2>1, <2>3 DEF rest, d
<1>7. CASE ~(d.series = series /\ Shows(d, s))
  <2>1. SeriesTicks(series, s, ds) = SeriesTicks(series, s, rest)
    <3>1. CASE ShownIn(series, s, rest)
      <4>1. PICK i \in DOMAIN rest : rest[i].series = series /\ Shows(rest[i], s)
        BY <3>1 DEF ShownIn
      <4>2. SeriesTicks(series, s, rest) = TicksOf(s, rest[i])
        BY <1>3, <4>1, SeriesTicksAre
      <4>3. SeriesTicks(series, s, ds) = TicksOf(s, ds[i + 1])
        BY <1>1, <4>1, SeriesTicksAre
      <4>4. QED BY <1>1, <4>2, <4>3
    <3>2. CASE ~ShownIn(series, s, rest)
      <4>1. ~ShownIn(series, s, ds)
        BY <1>1, <1>2, <1>7, <3>2 DEF ShownIn
      <4>2. QED BY <1>3, <3>2, <4>1, SeriesTicksAre
    <3>3. QED BY <3>1, <3>2
  <2>2. d.series = series => TicksOf(s, d) = 0
    BY <1>4, <1>7
  <2>3. QED BY <1>1, <1>3, <1>4, <1>5, <2>1, <2>2 DEF rest, d
<1>8. QED BY <1>6, <1>7
-----------------------------------------------------------------------------
(* The two recursive functions of the model. *)

\* h follows a chain of n steps from a.
IsPath(h, X, n, a, next) ==
  h \in [0..n -> X] /\ h[0] = a /\ \A i \in 1..n : h[i] = next[i][h[i - 1]]

\* A chain of steps can be followed to its end.
LEMMA PathExists ==
  ASSUME NEW X, NEW n \in Nat, NEW a \in X, NEW next \in [1..n -> [X -> X]]
  PROVE  \E h : IsPath(h, X, n, a, next)
<1> DEFINE Follows(h, m) == h[0] = a /\ \A i \in 1..m : h[i] = next[i][h[i - 1]]
           Failing == {m \in 0..n : ~ \E h \in [0..m -> X] : Follows(h, m)}
<1>1. Failing = {}
  <2>1. SUFFICES ASSUME Failing # {} PROVE FALSE
    OBVIOUS
  <2>2. PICK m \in Failing : \A k \in Failing : m <= k
    <3>1. Failing \in SUBSET Nat
      OBVIOUS
    <3> HIDE DEF Failing
    <3>2. QED BY <2>1, <3>1, Smallest
  <2>3. m \in 0..n
    OBVIOUS
  <2>4. CASE m = 0
    <3> DEFINE h == [i \in 0..0 |-> a]
    <3>1. h \in [0..0 -> X] /\ Follows(h, 0)
      OBVIOUS
    <3> HIDE DEF h, Follows
    <3>2. QED BY <2>4, <3>1
  <2>5. CASE m # 0
    <3>1. m - 1 \in 0..n /\ m - 1 \notin Failing
      BY <2>2, <2>3, <2>5
    <3>2. PICK h \in [0..(m - 1) -> X] : Follows(h, m - 1)
      BY <3>1
    <3> DEFINE g == [i \in 0..m |-> IF i = m THEN next[m][h[m - 1]] ELSE h[i]]
    <3>3. m \in 1..n /\ m - 1 \in 0..(m - 1)
      BY <2>3, <2>5
    <3>4. next[m][h[m - 1]] \in X
      BY <3>3
    <3>5. g \in [0..m -> X]
      BY <2>3, <3>4
    <3>6. g[0] = a
      BY <2>3, <2>5, <3>2
    <3>7. ASSUME NEW i \in 1..m PROVE g[i] = next[i][g[i - 1]]
      <4>1. i - 1 \in 0..(m - 1) /\ i - 1 # m /\ i - 1 \in 0..m
        BY <3>3
      <4>2. g[i - 1] = h[i - 1]
        BY <4>1
      <4>3. CASE i = m
        BY <4>2, <4>3
      <4>4. CASE i # m
        <5>1. i \in 1..(m - 1)
          BY <3>3, <4>4
        <5>2. h[i] = next[i][h[i - 1]]
          BY <3>2, <5>1
        <5>3. QED BY <4>2, <4>4, <5>2
      <4>5. QED BY <4>3, <4>4
    <3> HIDE DEF g
    <3>8. Follows(g, m)
      BY <3>6, <3>7
    <3> HIDE DEF Follows
    <3>9. QED BY <3>5, <3>8
  <2>6. QED BY <2>4, <2>5
<1>2. n \in 0..n /\ n \notin Failing
  BY <1>1
<1>3. PICK h \in [0..n -> X] : Follows(h, n)
  BY <1>2
<1>4. QED BY <1>3 DEF IsPath

\* The windows of the sampler.
Windows ==
  {window \in UNION {[held -> Nat \ {0}] : held \in SUBSET Stacks} :
     Cardinality(DOMAIN window) <= WallMaxStacks}

LEMMA WindowsAre == \A window : window \in Windows <=> IsWindow(window)
BY DEF Windows, IsWindow

\* A record adds to a window, or is dropped.
LEMMA BankGrows ==
  ASSUME NEW window \in Windows, NEW s \in Stacks
  PROVE  /\ Bank(window, s) \in Windows
         /\ \A t \in Stacks : /\ TicksIn(window, t) \in Nat
                              /\ TicksIn(window, t) <= TicksIn(Bank(window, s), t)
<1> DEFINE D == DOMAIN window
<1>1. D \in SUBSET Stacks /\ window \in [D -> Nat \ {0}] /\ Cardinality(D) <= WallMaxStacks
  BY WindowsAre DEF IsWindow
<1>2. IsFiniteSet(D) /\ Cardinality(D) \in Nat
  BY <1>1, StacksFinite, FS_Subset, FS_CardinalityType
<1>3. \A t \in Stacks : TicksIn(window, t) \in Nat
  BY <1>1 DEF TicksIn
<1>4. CASE s \in D
  <2> DEFINE w == [window EXCEPT ![s] = @ + 1]
  <2>1. w \in [D -> Nat \ {0}] /\ DOMAIN w = D /\ \A t \in D : window[t] <= w[t]
    BY <1>1, <1>4
  <2>2. Bank(window, s) = w
    BY <1>4 DEF Bank
  <2> HIDE DEF w, D
  <2>3. w \in Windows
    BY <1>1, <2>1, WindowsAre DEF IsWindow
  <2>4. \A t \in Stacks : TicksIn(window, t) <= TicksIn(w, t)
    BY <2>1 DEF TicksIn, D
  <2>5. QED BY <1>3, <2>2, <2>3, <2>4
<1>5. CASE s \notin D /\ Cardinality(D) >= WallMaxStacks
  <2>1. Bank(window, s) = window
    BY <1>5 DEF Bank
  <2>2. QED BY <1>3, <2>1
<1>6. CASE s \notin D /\ ~(Cardinality(D) >= WallMaxStacks)
  <2> DEFINE w == [t \in D \cup {s} |-> IF t = s THEN 1 ELSE window[t]]
  <2>1. w \in [D \cup {s} -> Nat \ {0}] /\ DOMAIN w = D \cup {s}
    BY <1>1
  <2>2. \A t \in D : w[t] = window[t]
    BY <1>6
  <2>3. Bank(window, s) = w
    BY <1>6 DEF Bank
  <2>4. Cardinality(D \cup {s}) = Cardinality(D) + 1
    BY <1>2, <1>6, FS_AddElement
  <2>5. Cardinality(D \cup {s}) <= WallMaxStacks
    <3>1. WallMaxStacks \in Nat
      BY ProfileLimitsAssumption
    <3>2. QED BY <1>2, <1>6, <2>4, <3>1
  <2>6. D \cup {s} \in SUBSET Stacks
    BY <1>1
  <2> HIDE DEF w, D
  <2>7. w \in Windows
    BY <2>1, <2>5, <2>6, WindowsAre DEF IsWindow
  <2>8. \A t \in Stacks : TicksIn(window, t) <= TicksIn(w, t)
    <3> SUFFICES ASSUME NEW t \in Stacks PROVE TicksIn(window, t) <= TicksIn(w, t)
      OBVIOUS
    <3>1. CASE t \in D
      BY <1>3, <2>1, <2>2, <3>1 DEF TicksIn, D
    <3>2. CASE t \notin D
      <4>1. TicksIn(window, t) = 0
        BY <3>2 DEF TicksIn, D
      <4>2. TicksIn(w, t) \in Nat
        BY <2>1 DEF TicksIn
      <4>3. QED BY <4>1, <4>2
    <3>3. QED BY <3>1, <3>2
  <2>9. QED BY <1>3, <2>3, <2>7, <2>8
<1>7. QED BY <1>4, <1>5, <1>6

\* The windows after each record of a snapshot.
BankedFrom(window, records) ==
  CHOOSE after : after = [i \in 0..Len(records) |->
                           IF i = 0 THEN window ELSE Bank(after[i - 1], records[i])]

LEMMA BankAllUnfolds ==
  ASSUME NEW window \in Windows, NEW records \in Seq(Stacks)
  PROVE  /\ BankAll(window, records) = BankedFrom(window, records)[Len(records)]
         /\ BankedFrom(window, records)[0] = window
         /\ \A i \in 1..Len(records) :
              BankedFrom(window, records)[i] = Bank(BankedFrom(window, records)[i - 1], records[i])
<1> DEFINE n == Len(records)
           next == [i \in 1..n |-> [w \in Windows |-> Bank(w, records[i])]]
           Solves(h) == h = [i \in 0..n |-> IF i = 0 THEN window ELSE Bank(h[i - 1], records[i])]
<1>1. n \in Nat /\ \A i \in 1..n : records[i] \in Stacks
  OBVIOUS
<1>2. next \in [1..n -> [Windows -> Windows]]
  BY <1>1, BankGrows
<1>3. PICK h \in [0..n -> Windows] : h[0] = window /\ \A i \in 1..n : h[i] = next[i][h[i - 1]]
  <2>1. window \in Windows
    OBVIOUS
  <2> HIDE DEF n, next
  <2>2. PICK h : IsPath(h, Windows, n, window, next)
    BY <1>1, <1>2, <2>1, PathExists
  <2>3. QED BY <2>2 DEF IsPath
<1>4. \A i \in 1..n : h[i] = Bank(h[i - 1], records[i])
  <2>1. \A i \in 1..n : h[i - 1] \in Windows
    BY <1>1
  <2>2. QED BY <1>3, <2>1
<1>5. Solves(h)
  <2>1. h = [i \in 0..n |-> h[i]]
    OBVIOUS
  <2>2. \A i \in 0..n : h[i] = IF i = 0 THEN window ELSE Bank(h[i - 1], records[i])
    BY <1>1, <1>3, <1>4
  <2>3. QED BY <2>1, <2>2
<1>6. Solves(BankedFrom(window, records))
  BY <1>5 DEF BankedFrom
<1>7. BankAll(window, records) = BankedFrom(window, records)[n]
  BY DEF BankAll, BankedFrom
<1> DEFINE A == BankedFrom(window, records)
<1> HIDE DEF A
<1>8. A[0] = window /\ \A i \in 1..n : A[i] = Bank(A[i - 1], records[i])
  BY <1>1, <1>6 DEF A
<1>9. QED BY <1>7, <1>8 DEF A

\* A snapshot adds to the window.
LEMMA BankAllGrows ==
  ASSUME NEW window \in Windows, NEW records \in Seq(Stacks)
  PROVE  /\ BankAll(window, records) \in Windows
         /\ \A t \in Stacks : /\ TicksIn(window, t) \in Nat
                              /\ TicksIn(BankAll(window, records), t) \in Nat
                              /\ TicksIn(window, t) <= TicksIn(BankAll(window, records), t)
<1> DEFINE A == BankedFrom(window, records)
           n == Len(records)
           More(w) == w \in Windows /\ \A t \in Stacks : TicksIn(window, t) <= TicksIn(w, t)
           Bad == {i \in 0..n : ~More(A[i])}
<1>1. n \in Nat /\ \A i \in 1..n : records[i] \in Stacks
  OBVIOUS
<1>2. /\ BankAll(window, records) = A[n] /\ A[0] = window
      /\ \A i \in 1..n : A[i] = Bank(A[i - 1], records[i])
  BY BankAllUnfolds
<1>3. ASSUME NEW w \in Windows PROVE \A t \in Stacks : TicksIn(w, t) \in Nat
  BY BankGrows
<1> HIDE DEF A
<1>4. Bad = {}
  <2>1. SUFFICES ASSUME Bad # {} PROVE FALSE
    OBVIOUS
  <2>2. PICK i \in Bad : \A k \in Bad : i <= k
    <3>1. Bad \in SUBSET Nat
      OBVIOUS
    <3> HIDE DEF Bad
    <3>2. QED BY <2>1, <3>1, Smallest
  <2>3. i # 0
    BY <1>2, <1>3
  <2>4. i \in 1..n /\ i - 1 \in 0..n /\ i - 1 \notin Bad
    BY <1>1, <2>2, <2>3
  <2>5. More(A[i - 1])
    BY <2>4
  <2>6. A[i] \in Windows /\ \A t \in Stacks : TicksIn(A[i - 1], t) <= TicksIn(A[i], t)
    BY <1>1, <1>2, <2>4, <2>5, BankGrows
  <2>7. \A t \in Stacks : TicksIn(window, t) <= TicksIn(A[i], t)
    BY <1>3, <2>5, <2>6
  <2>8. More(A[i])
    BY <2>6, <2>7
  <2>9. QED BY <2>8
<1>5. More(A[n])
  BY <1>1, <1>4
<1>6. QED BY <1>2, <1>3, <1>5
\* The samples after each stack.
SampledFrom(window, order, selected) ==
  CHOOSE after : after = [i \in 0..Len(order) |->
                           IF i = 0 THEN <<>>
                           ELSE IF order[i] \in selected
                             THEN Append(after[i - 1], StackSample(window, order[i]))
                           ELSE after[i - 1]]

LEMMA SamplesOfUnfolds ==
  ASSUME NEW window \in Windows, NEW order \in Seq(DOMAIN window), NEW selected
  PROVE  /\ SamplesOf(window, order, selected)
              = SampledFrom(window, order, selected)[Len(order)]
         /\ SampledFrom(window, order, selected)[0] = <<>>
         /\ \A i \in 1..Len(order) :
              SampledFrom(window, order, selected)[i] =
                IF order[i] \in selected
                  THEN Append(SampledFrom(window, order, selected)[i - 1],
                              StackSample(window, order[i]))
                ELSE SampledFrom(window, order, selected)[i - 1]
<1> DEFINE n == Len(order)
           Outputs == Seq(StackSamples)
           Step(x, i) == IF order[i] \in selected
                           THEN Append(x, StackSample(window, order[i])) ELSE x
           next == [i \in 1..n |-> [x \in Outputs |-> Step(x, i)]]
           Solves(h) == h = [i \in 0..n |-> IF i = 0 THEN <<>> ELSE Step(h[i - 1], i)]
<1>1. n \in Nat /\ \A i \in 1..n : order[i] \in DOMAIN window
  OBVIOUS
<1>2. ASSUME NEW i \in 1..n, NEW x \in Outputs PROVE Step(x, i) \in Outputs
  <2>1. StackSample(window, order[i]) \in StackSamples
    BY <1>1, WindowsAre DEF IsWindow, StackSample, StackSamples
  <2>2. QED BY <2>1
<1>3. next \in [1..n -> [Outputs -> Outputs]]
  <2> HIDE DEF Step, Outputs
  <2>1. QED BY <1>2
<1>4. PICK h \in [0..n -> Outputs] : h[0] = <<>> /\ \A i \in 1..n : h[i] = next[i][h[i - 1]]
  <2>1. <<>> \in Outputs
    OBVIOUS
  <2> HIDE DEF n, next, Outputs
  <2>2. PICK h : IsPath(h, Outputs, n, <<>>, next)
    BY <1>1, <1>3, <2>1, PathExists
  <2>3. QED BY <2>2 DEF IsPath
<1>5. \A i \in 1..n : h[i] = Step(h[i - 1], i)
  <2>1. \A i \in 1..n : h[i - 1] \in Outputs
    BY <1>1
  <2> HIDE DEF Step
  <2>2. QED BY <1>4, <2>1
<1>6. Solves(h)
  <2> HIDE DEF Step
  <2>1. h = [i \in 0..n |-> h[i]]
    OBVIOUS
  <2>2. \A i \in 0..n : h[i] = IF i = 0 THEN <<>> ELSE Step(h[i - 1], i)
    BY <1>1, <1>4, <1>5
  <2>3. QED BY <2>1, <2>2
<1> DEFINE A == SampledFrom(window, order, selected)
<1>7. Solves(A)
  BY <1>6 DEF SampledFrom
<1>8. SamplesOf(window, order, selected) = A[n]
  BY DEF SamplesOf, SampledFrom
<1> HIDE DEF A
<1>9. A[0] = <<>> /\ \A i \in 1..n : A[i] = Step(A[i - 1], i)
  <2> HIDE DEF Step
  <2>1. QED BY <1>1, <1>7
<1>10. QED BY <1>8, <1>9 DEF A

\* drain's order has each stack of the window in one place.
LEMMA SortedHolds ==
  ASSUME NEW window \in Windows, NEW order \in Sorted(window)
  PROVE  /\ order \in Seq(DOMAIN window)
         /\ \A k, l \in 1..Len(order) : order[k] = order[l] => k = l
         /\ \A s \in DOMAIN window : \E k \in 1..Len(order) : order[k] = s
<1> DEFINE D == DOMAIN window
           m == Cardinality(D)
<1>1. IsFiniteSet(D) /\ m \in Nat
  <2>1. D \in SUBSET Stacks
    BY WindowsAre DEF IsWindow
  <2> HIDE DEF D
  <2>2. QED BY <2>1, StacksFinite, FS_Subset, FS_CardinalityType
<1>2. order \in [1..m -> D] /\ \A i, j \in 1..m : i # j => order[i] # order[j]
  BY DEF Sorted, SetToSeqs
<1>3. order \in Seq(D) /\ Len(order) = m
  BY <1>1, <1>2
<1>4. order \in Injection(1..m, D)
  BY <1>2 DEF Injection, IsInjective
<1>5. Cardinality(1..m) = m
  BY <1>1, FS_Interval
<1>6. order \in Surjection(1..m, D)
  <2> HIDE DEF D, m
  <2>1. QED BY <1>1, <1>4, <1>5, FS_Injection DEF m
<1>7. \A s \in D : \E k \in 1..m : order[k] = s
  BY <1>6 DEF Surjection
<1>8. QED BY <1>2, <1>3, <1>7

\* The samples of a series are those of its stacks, each once, with their ticks.
LEMMA SamplesOfHold ==
  ASSUME NEW window \in Windows, NEW order \in Sorted(window), NEW selected
  PROVE  /\ SamplesOf(window, order, selected) \in Seq(StackSamples)
         /\ \A j \in 1..Len(SamplesOf(window, order, selected)) :
              LET sample == SamplesOf(window, order, selected)[j]
              IN /\ sample.stack \in DOMAIN window /\ sample.stack \in selected
                 /\ sample.ticks = window[sample.stack]
         /\ \A j, l \in 1..Len(SamplesOf(window, order, selected)) :
              SamplesOf(window, order, selected)[j].stack
                = SamplesOf(window, order, selected)[l].stack => j = l
         /\ \A s \in DOMAIN window : s \in selected =>
              \E j \in 1..Len(SamplesOf(window, order, selected)) :
                SamplesOf(window, order, selected)[j].stack = s
<1> DEFINE A == SampledFrom(window, order, selected)
           n == Len(order)
           Typed(x) == x \in Seq(StackSamples)
           From(x, i) == \A j \in 1..Len(x) : \E k \in 1..i :
                           order[k] \in selected /\ x[j] = StackSample(window, order[k])
           Apart(x) == \A j, l \in 1..Len(x) : x[j].stack = x[l].stack => j = l
           All(x, i) == \A k \in 1..i : order[k] \in selected =>
                          \E j \in 1..Len(x) : x[j].stack = order[k]
           Good(x, i) == Typed(x) /\ From(x, i) /\ Apart(x) /\ All(x, i)
           Bad == {i \in 0..n : ~Good(A[i], i)}
<1>1. /\ order \in Seq(DOMAIN window)
      /\ \A k, l \in 1..n : order[k] = order[l] => k = l
      /\ \A s \in DOMAIN window : \E k \in 1..n : order[k] = s
  BY SortedHolds
<1>2. n \in Nat /\ \A i \in 1..n : order[i] \in DOMAIN window
  BY <1>1
<1>3. /\ SamplesOf(window, order, selected) = A[n] /\ A[0] = <<>>
      /\ \A i \in 1..n : A[i] = IF order[i] \in selected
                                  THEN Append(A[i - 1], StackSample(window, order[i]))
                                ELSE A[i - 1]
  BY <1>1, SamplesOfUnfolds
<1> HIDE DEF A
<1>4. \A s \in DOMAIN window : /\ StackSample(window, s) \in StackSamples
                               /\ StackSample(window, s).stack = s
                               /\ StackSample(window, s).ticks = window[s]
  BY WindowsAre DEF IsWindow, StackSample, StackSamples
<1>5. Bad = {}
  <2>1. SUFFICES ASSUME Bad # {} PROVE FALSE
    OBVIOUS
  <2>2. PICK i \in Bad : \A k \in Bad : i <= k
    <3>1. Bad \in SUBSET Nat
      OBVIOUS
    <3> HIDE DEF Bad
    <3>2. QED BY <2>1, <3>1, Smallest
  <2>3. i # 0
    <3>1. SUFFICES ASSUME i = 0 PROVE FALSE
      OBVIOUS
    <3>2. Good(<<>>, 0)
      OBVIOUS
    <3>3. ~Good(A[0], 0)
      <4> HIDE DEF Good
      <4>1. QED BY <3>1
    <3> HIDE DEF Good
    <3>4. QED BY <1>3, <3>2, <3>3
  <2>4. i \in 1..n /\ i - 1 \in 0..n /\ i - 1 \notin Bad /\ i \in Nat
    <3>1. i \in 0..n
      OBVIOUS
    <3> HIDE DEF n, Good, Bad
    <3>2. i \in 1..n /\ i - 1 \in 0..n /\ i \in Nat /\ i - 1 \in Int /\ ~(i <= i - 1)
      BY <1>2, <2>3, <3>1
    <3>3. i - 1 \notin Bad
      BY <2>2, <3>2
    <3>4. QED BY <3>2, <3>3
  <2> DEFINE x == A[i - 1]
             y == A[i]
  <2>5. Good(x, i - 1)
    BY <2>4
  <2>6. y = IF order[i] \in selected THEN Append(x, StackSample(window, order[i])) ELSE x
    BY <1>3, <2>4
  <2> HIDE DEF x, y
  <2>7. CASE order[i] \notin selected
    <3>1. y = x
      BY <2>6, <2>7
    <3>2. From(x, i)
      <4> SUFFICES ASSUME NEW j \in 1..Len(x)
                   PROVE  \E k \in 1..i :
                            order[k] \in selected /\ x[j] = StackSample(window, order[k])
        OBVIOUS
      <4>1. PICK k \in 1..(i - 1) :
              order[k] \in selected /\ x[j] = StackSample(window, order[k])
        BY <2>5
      <4>2. k \in 1..i
        BY <2>4
      <4>3. QED BY <4>1, <4>2
    <3>3. All(x, i)
      <4> SUFFICES ASSUME NEW k \in 1..i, order[k] \in selected
                   PROVE  \E j \in 1..Len(x) : x[j].stack = order[k]
        OBVIOUS
      <4>1. k # i
        BY <2>7
      <4>2. k \in 1..(i - 1)
        BY <2>4, <4>1
      <4>3. QED BY <2>5, <4>2
    <3>4. Good(y, i)
      BY <2>5, <3>1, <3>2, <3>3
    <3>5. QED BY <3>4 DEF y
  <2>8. CASE order[i] \in selected
    <3> DEFINE e == StackSample(window, order[i])
    <3>1. y = Append(x, e)
      BY <2>6, <2>8
    <3>2. e \in StackSamples /\ e.stack = order[i]
      BY <1>2, <1>4, <2>4
    <3>3. x \in Seq(StackSamples) /\ Len(x) \in Nat
      BY <2>5
    <3> HIDE DEF e
    <3>4. /\ y \in Seq(StackSamples) /\ Len(y) = Len(x) + 1 /\ y[Len(y)] = e
          /\ \A j \in 1..Len(x) : y[j] = x[j]
      BY <3>1, <3>2, <3>3
    <3>5. \A j \in 1..Len(x) : j \in 1..Len(y)
      BY <3>3, <3>4
    <3>6. \A j \in 1..Len(y) : j \in 1..Len(x) \/ j = Len(y)
      BY <3>3, <3>4
    <3>7. \A j \in 1..Len(x) : \E k \in 1..(i - 1) :
            order[k] \in selected /\ x[j] = StackSample(window, order[k])
      BY <2>5
    <3>8. \A k \in 1..(i - 1) : k \in 1..i /\ k \in 1..n /\ k # i
      BY <1>2, <2>4
    <3>9. From(y, i)
      <4> SUFFICES ASSUME NEW j \in 1..Len(y)
                   PROVE  \E k \in 1..i :
                            order[k] \in selected /\ y[j] = StackSample(window, order[k])
        OBVIOUS
      <4>1. CASE j \in 1..Len(x)
        BY <3>4, <3>7, <3>8, <4>1
      <4>2. CASE j = Len(y)
        <5>1. i \in 1..i
          BY <2>4
        <5>2. QED BY <2>8, <3>4, <4>2, <5>1 DEF e
      <4>3. QED BY <3>6, <4>1, <4>2
    <3>10. \A j \in 1..Len(x) : y[j].stack # e.stack
      <4> SUFFICES ASSUME NEW j \in 1..Len(x) PROVE y[j].stack # order[i]
        BY <3>2
      <4>1. PICK k \in 1..(i - 1) : x[j] = StackSample(window, order[k])
        BY <3>7
      <4>2. y[j].stack = order[k]
        BY <1>2, <1>4, <3>4, <3>8, <4>1
      <4>3. QED BY <1>1, <2>4, <3>8, <4>2
    <3>11. Apart(y)
      <4> SUFFICES ASSUME NEW j \in 1..Len(y), NEW l \in 1..Len(y), y[j].stack = y[l].stack
                   PROVE  j = l
        OBVIOUS
      <4>1. CASE j \in 1..Len(x) /\ l \in 1..Len(x)
        BY <2>5, <3>4, <4>1
      <4>2. CASE j = Len(y) /\ l \in 1..Len(x)
        BY <3>4, <3>10, <4>2
      <4>3. CASE l = Len(y) /\ j \in 1..Len(x)
        BY <3>4, <3>10, <4>3
      <4>4. QED BY <3>6, <4>1, <4>2, <4>3
    <3>12. All(y, i)
      <4> SUFFICES ASSUME NEW k \in 1..i, order[k] \in selected
                   PROVE  \E j \in 1..Len(y) : y[j].stack = order[k]
        OBVIOUS
      <4>1. CASE k = i
        <5>1. Len(y) \in 1..Len(y)
          BY <3>3, <3>4
        <5>2. QED BY <3>2, <3>4, <4>1, <5>1
      <4>2. CASE k # i
        <5>1. k \in 1..(i - 1)
          BY <2>4, <4>2
        <5>2. PICK j \in 1..Len(x) : x[j].stack = order[k]
          BY <2>5, <5>1
        <5>3. QED BY <3>4, <3>5, <5>2
      <4>3. QED BY <4>1, <4>2
    <3>13. Good(y, i)
      BY <3>4, <3>9, <3>11, <3>12
    <3>14. QED BY <3>13 DEF y
  <2>9. QED BY <2>7, <2>8
<1> DEFINE out == SamplesOf(window, order, selected)
<1>6. Good(out, n)
  <2>1. n \in 0..n
    BY <1>2
  <2> HIDE DEF Good
  <2>2. Good(A[n], n)
    BY <1>5, <2>1
  <2>3. out = A[n]
    BY <1>3
  <2> HIDE DEF out
  <2>4. QED BY <2>2, <2>3
<1> HIDE DEF out
<1>7. \A j \in 1..Len(out) :
        /\ out[j].stack \in DOMAIN window /\ out[j].stack \in selected
        /\ out[j].ticks = window[out[j].stack]
  BY <1>2, <1>4, <1>6
<1>8. ASSUME NEW s \in DOMAIN window, s \in selected
      PROVE  \E j \in 1..Len(out) : out[j].stack = s
  <2>1. PICK k \in 1..n : order[k] = s
    BY <1>1
  <2>2. All(out, n)
    BY <1>6
  <2>3. QED BY <1>8, <2>1, <2>2
<1>9. QED BY <1>6, <1>7, <1>8 DEF out
-----------------------------------------------------------------------------
(* What a flush of the sampler sets out to write. *)

LEMMA WallStacksAre ==
  /\ OffCPUStacks \subseteq WallStacks /\ WallStacks \subseteq Stacks
  /\ \A series \in StackSeries : StacksOf(series) \subseteq WallStacks
BY DEF OffCPUStacks, WallStacks, Stacks, StacksOf

\* The documents of both series.
LEMMA WallDocumentsHold ==
  ASSUME NEW window \in Windows, NEW order \in Sorted(window)
  PROVE  /\ WallRest(WallDocuments(window, order))
         /\ \A i \in DOMAIN WallDocuments(window, order) :
              Len(WallDocuments(window, order)[i].samples) \in 1..ProfileBatchSize
         /\ \A s \in Stacks :
              /\ SeriesTicks("go-wall", s, WallDocuments(window, order))
                   = IF s \in WallStacks THEN TicksIn(window, s) ELSE 0
              /\ ShownIn("go-offcpu", s, WallDocuments(window, order))
                   => ShownIn("go-wall", s, WallDocuments(window, order))
<1> DEFINE ds == WallDocuments(window, order)
           W == SamplesOf(window, order, WallStacks)
           O == SamplesOf(window, order, OffCPUStacks)
           w == ChunkCount(W)
           o == ChunkCount(O)
           \* Document k of the samples S is document i of the flush.
           Is(i, k, S, series) == /\ k \in 1..ChunkCount(S)
                                  /\ ds[i] = [series |-> series, samples |-> Chunk(S, k)]
           Samples(S, selected) ==
             /\ S \in Seq(StackSamples)
             /\ \A j \in 1..Len(S) : /\ S[j].stack \in DOMAIN window /\ S[j].stack \in selected
                                     /\ S[j].ticks = window[S[j].stack]
             /\ \A j, l \in 1..Len(S) : S[j].stack = S[l].stack => j = l
             /\ \A s \in DOMAIN window : s \in selected => \E j \in 1..Len(S) : S[j].stack = s
<1>1. Samples(W, WallStacks) /\ Samples(O, OffCPUStacks)
  BY SamplesOfHold
<1>2. w \in Nat /\ o \in Nat
  BY <1>1, CountBounds
<1>3. /\ Chunks("go-wall", W) = [k \in 1..w |-> [series |-> "go-wall", samples |-> Chunk(W, k)]]
      /\ Chunks("go-offcpu", O) = [k \in 1..o |-> [series |-> "go-offcpu", samples |-> Chunk(O, k)]]
  BY <1>1, ChunksHold
<1>4. ds = Chunks("go-wall", W) \o Chunks("go-offcpu", O)
  BY DEF WallDocuments
<1> HIDE DEF W, O, w, o, ds
<1>5. \A S, k, selected : Samples(S, selected) /\ k \in 1..ChunkCount(S) =>
        /\ Chunk(S, k) \in Seq(StackSamples)
        /\ Len(Chunk(S, k)) \in 1..ProfileBatchSize
        /\ \A j \in 1..Len(Chunk(S, k)) :
             Place(k, j) \in 1..Len(S) /\ Chunk(S, k)[j] = S[Place(k, j)]
  BY ChunksHold
<1>6. /\ DOMAIN ds = 1..(w + o)
      /\ \A i \in 1..w : ds[i] = Chunks("go-wall", W)[i]
      /\ \A i \in (w + 1)..(w + o) : ds[i] = Chunks("go-offcpu", O)[i - w]
      /\ ds \in Seq(StackDocuments) /\ \A i \in DOMAIN ds : ds[i] \in StackDocuments
  <2>1. Chunks("go-wall", W) \in Seq(StackDocuments) /\ Len(Chunks("go-wall", W)) = w
    <3>1. \A k \in 1..w : Chunk(W, k) \in Seq(StackSamples)
      BY <1>1, <1>5 DEF w
    <3>2. \A k \in 1..w : [series |-> "go-wall", samples |-> Chunk(W, k)] \in StackDocuments
      BY <3>1 DEF StackDocuments, StackSeries
    <3>3. QED BY <1>2, <1>3, <3>2
  <2>2. Chunks("go-offcpu", O) \in Seq(StackDocuments) /\ Len(Chunks("go-offcpu", O)) = o
    <3>1. \A k \in 1..o : Chunk(O, k) \in Seq(StackSamples)
      BY <1>1, <1>5 DEF o
    <3>2. \A k \in 1..o : [series |-> "go-offcpu", samples |-> Chunk(O, k)] \in StackDocuments
      BY <3>1 DEF StackDocuments, StackSeries
    <3>3. QED BY <1>2, <1>3, <3>2
  <2> DEFINE C == Chunks("go-wall", W)
             E == Chunks("go-offcpu", O)
  <2> HIDE DEF C, E
  <2>3. /\ C \in Seq(StackDocuments) /\ E \in Seq(StackDocuments)
        /\ Len(C) = w /\ Len(E) = o /\ ds = C \o E
    BY <1>4, <2>1, <2>2 DEF C, E
  <2>4. /\ ds \in Seq(StackDocuments) /\ Len(ds) = w + o
        /\ \A i \in 1..Len(ds) : ds[i] = IF i <= w THEN C[i] ELSE E[i - w]
    <3>1. /\ C \o E \in Seq(StackDocuments) /\ Len(C \o E) = Len(C) + Len(E)
          /\ \A i \in 1..Len(C) + Len(E) :
               (C \o E)[i] = IF i <= Len(C) THEN C[i] ELSE E[i - Len(C)]
      BY <2>3, ConcatProperties
    <3>2. QED BY <2>3, <3>1
  <2>5. \A i \in 1..w : i \in 1..(w + o) /\ i <= w
    BY <1>2
  <2>6. \A i \in (w + 1)..(w + o) : i \in 1..(w + o) /\ ~(i <= w)
    BY <1>2
  <2>7. DOMAIN ds = 1..(w + o)
    BY <2>4
  <2>8. \A i \in DOMAIN ds : ds[i] \in StackDocuments
    BY <2>4
  <2>9. QED BY <2>4, <2>5, <2>6, <2>7, <2>8 DEF C, E
<1>7. /\ \A i \in 1..w : i \in DOMAIN ds /\ Is(i, i, W, "go-wall")
      /\ \A k \in 1..o : w + k \in DOMAIN ds /\ Is(w + k, k, O, "go-offcpu")
  <2>1. ASSUME NEW i \in 1..w PROVE i \in DOMAIN ds /\ Is(i, i, W, "go-wall")
    BY <1>2, <1>3, <1>6 DEF w
  <2>2. ASSUME NEW k \in 1..o PROVE w + k \in DOMAIN ds /\ Is(w + k, k, O, "go-offcpu")
    <3>1. w + k \in (w + 1)..(w + o) /\ (w + k) - w = k /\ w + k \in 1..(w + o)
      BY <1>2
    <3>2. QED BY <1>3, <1>6, <3>1 DEF o
  <2>3. QED BY <2>1, <2>2
<1>8. \A i \in DOMAIN ds : \/ i \in 1..w /\ Is(i, i, W, "go-wall")
                           \/ /\ i \in (w + 1)..(w + o) /\ i - w \in 1..o
                              /\ Is(i, i - w, O, "go-offcpu")
  <2> SUFFICES ASSUME NEW i \in DOMAIN ds, i \notin 1..w
               PROVE  /\ i \in (w + 1)..(w + o) /\ i - w \in 1..o
                      /\ Is(i, i - w, O, "go-offcpu")
    BY <1>7
  <2>1. i - w \in 1..o /\ w + (i - w) = i /\ i \in (w + 1)..(w + o)
    BY <1>2, <1>6
  <2>2. Is(w + (i - w), i - w, O, "go-offcpu")
    <3> HIDE DEF Is
    <3>1. QED BY <1>7, <2>1
  <2> HIDE DEF Is
  <2>3. QED BY <2>1, <2>2
\* What a sample of the flush is.
<1>9. ASSUME NEW S, NEW selected, Samples(S, selected),
             NEW i, NEW k, NEW series, Is(i, k, S, series), NEW j \in DOMAIN ds[i].samples
      PROVE  /\ j \in 1..ProfileBatchSize /\ k \in Nat \ {0}
             /\ Place(k, j) \in 1..Len(S) /\ ds[i].samples[j] = S[Place(k, j)]
             /\ ds[i].samples[j].stack \in DOMAIN window
             /\ ds[i].samples[j].stack \in selected
             /\ ds[i].samples[j].ticks = window[ds[i].samples[j].stack]
  <2>1. ds[i].samples = Chunk(S, k) /\ k \in 1..ChunkCount(S)
    BY <1>9
  <2>2. ProfileBatchSize \in Nat
    BY ProfileLimitsAssumption
  <2>3. /\ j \in 1..Len(Chunk(S, k)) /\ Len(Chunk(S, k)) \in 1..ProfileBatchSize
        /\ Place(k, j) \in 1..Len(S) /\ Chunk(S, k)[j] = S[Place(k, j)]
    <3> HIDE DEF Samples
    <3>1. /\ Chunk(S, k) \in Seq(StackSamples) /\ Len(Chunk(S, k)) \in 1..ProfileBatchSize
          /\ \A l \in 1..Len(Chunk(S, k)) :
               Place(k, l) \in 1..Len(S) /\ Chunk(S, k)[l] = S[Place(k, l)]
      BY <1>5, <1>9, <2>1
    <3>2. j \in 1..Len(Chunk(S, k))
      BY <1>9, <2>1, <3>1
    <3>3. QED BY <3>1, <3>2
  <2>4. j \in 1..ProfileBatchSize
    BY <2>2, <2>3
  <2>5. QED BY <1>9, <2>1, <2>3, <2>4
<1>10. ASSUME NEW S, NEW selected, Samples(S, selected), NEW series,
              NEW i, NEW k, Is(i, k, S, series), NEW j \in DOMAIN ds[i].samples,
              NEW m, NEW n, Is(m, n, S, series), NEW l \in DOMAIN ds[m].samples,
              ds[i].samples[j].stack = ds[m].samples[l].stack
       PROVE  k = n /\ j = l
  <2>1. /\ j \in 1..ProfileBatchSize /\ k \in Nat \ {0}
        /\ Place(k, j) \in 1..Len(S) /\ ds[i].samples[j] = S[Place(k, j)]
    <3> HIDE DEF Is, Samples
    <3>1. QED BY <1>9, <1>10
  <2>2. /\ l \in 1..ProfileBatchSize /\ n \in Nat \ {0}
        /\ Place(n, l) \in 1..Len(S) /\ ds[m].samples[l] = S[Place(n, l)]
    <3> HIDE DEF Is, Samples
    <3>1. QED BY <1>9, <1>10
  <2>3. Place(k, j) = Place(n, l)
    BY <1>10, <2>1, <2>2
  <2>4. QED BY <2>1, <2>2, <2>3, PlacesApart
\* Every sample is in some document.
<1>11. ASSUME NEW S, NEW selected, Samples(S, selected), NEW s \in DOMAIN window, s \in selected
       PROVE  \E k \in 1..ChunkCount(S) : \E j \in DOMAIN Chunk(S, k) : Chunk(S, k)[j].stack = s
  <2>1. PICK x \in 1..Len(S) : S[x].stack = s
    BY <1>11
  <2>2. S \in Seq(StackSamples)
    BY <1>11
  <2>3. PICK k \in 1..ChunkCount(S) : \E j \in 1..Len(Chunk(S, k)) : Place(k, j) = x
    BY <2>2, ChunksCover
  <2>4. PICK j \in 1..Len(Chunk(S, k)) : Place(k, j) = x
    BY <2>3
  <2>5. /\ Chunk(S, k) \in Seq(StackSamples)
        /\ Chunk(S, k)[j] = S[Place(k, j)]
    <3> HIDE DEF Samples
    <3>1. QED BY <1>5, <1>11
  <2>6. QED BY <2>1, <2>4, <2>5
<1>12. \A i \in DOMAIN ds : \A j \in DOMAIN ds[i].samples :
         /\ ds[i].samples[j].stack \in DOMAIN window
         /\ ds[i].samples[j].stack \in StacksOf(ds[i].series)
         /\ ds[i].samples[j].ticks = window[ds[i].samples[j].stack]
  <2> SUFFICES ASSUME NEW i \in DOMAIN ds, NEW j \in DOMAIN ds[i].samples
               PROVE  /\ ds[i].samples[j].stack \in DOMAIN window
                      /\ ds[i].samples[j].stack \in StacksOf(ds[i].series)
                      /\ ds[i].samples[j].ticks = window[ds[i].samples[j].stack]
    OBVIOUS
  <2>1. CASE Is(i, i, W, "go-wall")
    <3>1. StacksOf(ds[i].series) = WallStacks
      BY <2>1 DEF StacksOf
    <3> HIDE DEF Is, Samples
    <3>2. QED BY <1>1, <1>9, <2>1, <3>1
  <2>2. CASE Is(i, i - w, O, "go-offcpu")
    <3>1. StacksOf(ds[i].series) = OffCPUStacks
      BY <2>2 DEF StacksOf
    <3> HIDE DEF Is, Samples
    <3>2. QED BY <1>1, <1>9, <2>2, <3>1
  <2> HIDE DEF Is
  <2>3. QED BY <1>8, <2>1, <2>2
<1>13. StacksApart(ds)
  <2> SUFFICES ASSUME NEW i \in DOMAIN ds, NEW m \in DOMAIN ds,
                      NEW j \in DOMAIN ds[i].samples, NEW l \in DOMAIN ds[m].samples,
                      ds[i].series = ds[m].series,
                      ds[i].samples[j].stack = ds[m].samples[l].stack
               PROVE  i = m /\ j = l
    BY DEF StacksApart
  <2>1. CASE Is(i, i, W, "go-wall") /\ Is(m, m, W, "go-wall")
    <3> HIDE DEF Is, Samples
    <3>1. QED BY <1>1, <1>10, <2>1
  <2>2. CASE Is(i, i - w, O, "go-offcpu") /\ Is(m, m - w, O, "go-offcpu")
    <3>1. i - w = m - w /\ j = l
      <4> HIDE DEF Is, Samples
      <4>1. QED BY <1>1, <1>10, <2>2
    <3>2. i \in Int /\ m \in Int
      BY <1>2, <1>6
    <3>3. QED BY <1>2, <3>1, <3>2
  <2>3. \A a, k, S : Is(a, k, S, "go-wall") => ds[a].series = "go-wall"
    OBVIOUS
  <2>4. \A a, k, S : Is(a, k, S, "go-offcpu") => ds[a].series = "go-offcpu"
    OBVIOUS
  <2> HIDE DEF Is
  <2>5. QED BY <1>8, <2>1, <2>2, <2>3, <2>4
<1>14. TicksAgree(ds)
  BY <1>12 DEF TicksAgree
<1>15. \A i, k \in DOMAIN ds : ds[i].series = "go-wall" /\ ds[k].series = "go-offcpu" => i < k
  <2> SUFFICES ASSUME NEW i \in DOMAIN ds, NEW k \in DOMAIN ds,
                      ds[i].series = "go-wall", ds[k].series = "go-offcpu"
               PROVE  i < k
    OBVIOUS
  <2>1. i \in 1..w
    BY <1>8
  <2>2. k \in (w + 1)..(w + o)
    BY <1>8
  <2>3. QED BY <1>2, <2>1, <2>2
<1>16. WallRest(ds)
  BY <1>6, <1>12, <1>13, <1>14, <1>15 DEF WallRest
<1>17. ASSUME NEW i \in DOMAIN ds PROVE Len(ds[i].samples) \in 1..ProfileBatchSize
  <2>1. ASSUME NEW S, NEW selected, Samples(S, selected), NEW k, NEW series, Is(i, k, S, series)
        PROVE  Len(ds[i].samples) \in 1..ProfileBatchSize
    <3>1. ds[i].samples = Chunk(S, k) /\ k \in 1..ChunkCount(S)
      BY <2>1
    <3> HIDE DEF Samples
    <3>2. QED BY <1>5, <2>1, <3>1
  <2> HIDE DEF Is, Samples
  <2>2. QED BY <1>1, <1>8, <2>1
\* The stacks of the WALL documents.
<1>18. ASSUME NEW s \in DOMAIN window, s \in WallStacks
       PROVE  \E i \in DOMAIN ds : ds[i].series = "go-wall" /\ Shows(ds[i], s)
  <2>1. PICK k \in 1..ChunkCount(W) : \E j \in DOMAIN Chunk(W, k) : Chunk(W, k)[j].stack = s
    <3> HIDE DEF Samples
    <3>1. QED BY <1>1, <1>11, <1>18
  <2>2. k \in DOMAIN ds /\ Is(k, k, W, "go-wall")
    <3>1. k \in 1..w
      BY <2>1 DEF w
    <3> HIDE DEF Is
    <3>2. QED BY <1>7, <3>1
  <2>3. QED BY <2>1, <2>2 DEF Shows
<1>19. ASSUME NEW s \in Stacks
       PROVE  SeriesTicks("go-wall", s, ds) = IF s \in WallStacks THEN TicksIn(window, s) ELSE 0
  <2>1. CASE s \in WallStacks /\ s \in DOMAIN window
    <3>1. PICK i \in DOMAIN ds : ds[i].series = "go-wall" /\ Shows(ds[i], s)
      BY <1>18, <2>1
    <3>2. PICK j \in DOMAIN ds[i].samples : ds[i].samples[j].stack = s
      BY <3>1 DEF Shows
    <3>3. ds[i] \in StackDocuments
      BY <1>6
    <3>4. TicksOf(s, ds[i]) = ds[i].samples[j].ticks
      <4>1. \A a, b \in DOMAIN ds[i].samples :
              ds[i].samples[a].stack = ds[i].samples[b].stack => a = b
        BY <1>13 DEF StacksApart
      <4>2. QED BY <3>2, <3>3, <4>1, TicksAre
    <3>5. SeriesTicks("go-wall", s, ds) = TicksOf(s, ds[i])
      BY <1>16, <3>1, SeriesTicksAre
    <3>6. QED BY <1>12, <2>1, <3>2, <3>4, <3>5 DEF TicksIn
  <2>2. CASE ~(s \in WallStacks /\ s \in DOMAIN window)
    <3>1. ~ShownIn("go-wall", s, ds)
      BY <1>12, <2>2 DEF ShownIn, Shows, StacksOf
    <3>2. SeriesTicks("go-wall", s, ds) = 0
      BY <1>16, <3>1, SeriesTicksAre
    <3>3. QED BY <2>2, <3>2 DEF TicksIn
  <2>3. QED BY <2>1, <2>2
<1>20. ASSUME NEW s \in Stacks, ShownIn("go-offcpu", s, ds)
       PROVE  ShownIn("go-wall", s, ds)
  <2>1. s \in DOMAIN window /\ s \in OffCPUStacks
    BY <1>12, <1>20 DEF ShownIn, Shows, StacksOf
  <2>2. s \in WallStacks
    BY <2>1, WallStacksAre
  <2>3. QED BY <1>18, <2>1, <2>2 DEF ShownIn
<1>21. QED BY <1>16, <1>17, <1>19, <1>20 DEF ds
-----------------------------------------------------------------------------
(* What a flush of the recorder sets out to write. *)

WaitSamples == [wait : 1..MaxInputs]

WaitDocuments == [series : {"go-io"}, samples : Seq(WaitSamples)]

\* What flushIOProfiles has still to write: each wait once.
IORest(ds) ==
  /\ ds \in Seq(WaitDocuments)
  /\ \A i, k \in DOMAIN ds : \A j \in DOMAIN ds[i].samples : \A l \in DOMAIN ds[k].samples :
       ds[i].samples[j].wait = ds[k].samples[l].wait => i = k /\ j = l

Holds(d, w) == \E j \in DOMAIN d.samples : d.samples[j].wait = w

\* Documents of waits have no ticks.
LEMMA NoTicks ==
  ASSUME NEW ds \in Seq(Documents), \A i \in DOMAIN ds : ds[i].series = "go-io",
         NEW series \in StackSeries, NEW s
  PROVE  SeriesTicks(series, s, ds) = 0
<1> DEFINE f == [i \in DOMAIN ds |-> IF ds[i].series = series THEN TicksOf(s, ds[i]) ELSE 0]
           D == DOMAIN ds
<1>1. D = 1..Len(ds) /\ Len(ds) \in Nat
  OBVIOUS
<1>2. IsFiniteSet(D)
  BY <1>1, FS_Interval
<1>3. f \in [D -> Int] /\ DOMAIN f = D /\ \A i \in D : f[i] = 0
  BY DEF StackSeries
<1>4. SeriesTicks(series, s, ds) = SumFunctionOnSet(f, D)
  BY <1>3 DEF SeriesTicks, SumFunction
<1> HIDE DEF f, D
<1>5. QED BY <1>2, <1>3, <1>4, SumOfZeros

\* The documents of the waits that were measured.
LEMMA IODocumentsHold ==
  ASSUME NEW ws \in Seq(WaitSamples),
         \A i, k \in DOMAIN ws : ws[i].wait = ws[k].wait => i = k
  PROVE  /\ IORest(Chunks("go-io", ws))
         /\ \A i \in DOMAIN Chunks("go-io", ws) :
              Len(Chunks("go-io", ws)[i].samples) \in 1..ProfileBatchSize
         /\ \A i \in DOMAIN Chunks("go-io", ws) : \A w :
              Holds(Chunks("go-io", ws)[i], w) => \E k \in DOMAIN ws : ws[k].wait = w
         /\ Chunks("go-io", ws) = <<>> <=> ws = <<>>
<1> DEFINE ds == Chunks("go-io", ws)
           n == ChunkCount(ws)
<1>1. n \in Nat
  BY CountBounds
<1>2. /\ ds = [i \in 1..n |-> [series |-> "go-io", samples |-> Chunk(ws, i)]]
      /\ \A i \in 1..n :
           /\ Chunk(ws, i) \in Seq(WaitSamples)
           /\ Len(Chunk(ws, i)) \in 1..ProfileBatchSize
           /\ \A j \in 1..Len(Chunk(ws, i)) :
                Place(i, j) \in 1..Len(ws) /\ Chunk(ws, i)[j] = ws[Place(i, j)]
  BY ChunksHold
<1> HIDE DEF ds, n
<1>3. DOMAIN ds = 1..n /\ \A i \in 1..n : ds[i].samples = Chunk(ws, i) /\ ds[i].series = "go-io"
  BY <1>2
<1>4. ds \in Seq(WaitDocuments)
  <2>1. \A i \in 1..n : [series |-> "go-io", samples |-> Chunk(ws, i)] \in WaitDocuments
    BY <1>2 DEF WaitDocuments
  <2>2. QED BY <1>1, <1>2, <2>1
<1>5. \A i \in 1..n : \A j \in DOMAIN ds[i].samples :
        /\ j \in 1..ProfileBatchSize /\ Place(i, j) \in DOMAIN ws
        /\ ds[i].samples[j] = ws[Place(i, j)]
  <2> SUFFICES ASSUME NEW i \in 1..n, NEW j \in DOMAIN ds[i].samples
               PROVE  /\ j \in 1..ProfileBatchSize /\ Place(i, j) \in DOMAIN ws
                      /\ ds[i].samples[j] = ws[Place(i, j)]
    OBVIOUS
  <2>1. j \in 1..Len(Chunk(ws, i))
    BY <1>2, <1>3
  <2>2. ProfileBatchSize \in Nat
    BY ProfileLimitsAssumption
  <2>3. QED BY <1>2, <1>3, <2>1, <2>2
<1>6. ASSUME NEW i \in DOMAIN ds, NEW k \in DOMAIN ds,
             NEW j \in DOMAIN ds[i].samples, NEW l \in DOMAIN ds[k].samples,
             ds[i].samples[j].wait = ds[k].samples[l].wait
      PROVE  i = k /\ j = l
  <2>1. Place(i, j) = Place(k, l)
    BY <1>3, <1>5, <1>6
  <2>2. i \in Nat \ {0} /\ k \in Nat \ {0}
    BY <1>1, <1>3
  <2>3. j \in 1..ProfileBatchSize /\ l \in 1..ProfileBatchSize
    BY <1>3, <1>5
  <2>4. QED BY <2>1, <2>2, <2>3, PlacesApart
<1>7. \A i \in DOMAIN ds : Len(ds[i].samples) \in 1..ProfileBatchSize
  BY <1>2, <1>3
<1>8. \A i \in DOMAIN ds : \A w : Holds(ds[i], w) => \E k \in DOMAIN ws : ws[k].wait = w
  BY <1>3, <1>5 DEF Holds
<1>9. ds = <<>> <=> ws = <<>>
  <2>1. CASE ws = <<>>
    <3>1. Len(ws) = 0
      BY <2>1
    <3>2. n = 0
      <4> SUFFICES ASSUME n # 0 PROVE FALSE
        OBVIOUS
      <4>1. 1 \in 1..n
        BY <1>1
      <4>2. Len(Chunk(ws, 1)) \in 1..ProfileBatchSize /\ ProfileBatchSize \in Nat
        BY <1>2, <4>1, ProfileLimitsAssumption
      <4>3. 1 \in 1..Len(Chunk(ws, 1))
        BY <4>2
      <4>4. Place(1, 1) \in 1..Len(ws)
        BY <1>2, <4>1, <4>3
      <4>5. QED BY <3>1, <4>4
    <3>3. QED BY <1>4, <1>3, <2>1, <3>2
  <2>2. CASE ws # <<>>
    <3>1. 1 \in 1..Len(ws)
      BY <2>2
    <3>2. PICK i \in 1..n : \E j \in 1..Len(Chunk(ws, i)) : Place(i, j) = 1
      BY <3>1, ChunksCover DEF n
    <3>3. i \in DOMAIN ds
      BY <1>3
    <3>4. QED BY <2>2, <3>3
  <2>3. QED BY <2>1, <2>2
<1>10. QED BY <1>4, <1>6, <1>7, <1>8, <1>9 DEF IORest, ds

\* The first document of waits is written and the others remain.
LEMMA IORestTail ==
  ASSUME NEW ds, IORest(ds), ds # <<>>
  PROVE  /\ IORest(Tail(ds)) /\ Head(ds) \in WaitDocuments
         /\ \A i \in DOMAIN Tail(ds) : i + 1 \in DOMAIN ds /\ Tail(ds)[i] = ds[i + 1]
         /\ \A i \in DOMAIN Tail(ds) : \A w : ~(Holds(Tail(ds)[i], w) /\ Holds(Head(ds), w))
<1> DEFINE rest == Tail(ds)
           d == Head(ds)
<1>1. /\ ds \in Seq(WaitDocuments) /\ Len(ds) \in Nat /\ DOMAIN ds = 1..Len(ds)
      /\ rest \in Seq(WaitDocuments) /\ d = ds[1] /\ 1 \in DOMAIN ds
      /\ d \in WaitDocuments
      /\ DOMAIN rest = 1..(Len(ds) - 1)
      /\ \A i \in DOMAIN rest : i + 1 \in DOMAIN ds /\ rest[i] = ds[i + 1] /\ i \in Nat
  BY DEF IORest
<1> HIDE DEF rest, d
<1>2. ASSUME NEW i \in DOMAIN rest, NEW k \in DOMAIN rest,
             NEW j \in DOMAIN rest[i].samples, NEW l \in DOMAIN rest[k].samples,
             rest[i].samples[j].wait = rest[k].samples[l].wait
      PROVE  i = k /\ j = l
  <2>1. i + 1 = k + 1 /\ j = l
    BY <1>1, <1>2 DEF IORest
  <2>2. QED BY <1>1, <2>1
<1>3. ASSUME NEW i \in DOMAIN rest, NEW w, Holds(rest[i], w), Holds(d, w)
      PROVE  FALSE
  <2>1. i + 1 = 1
    BY <1>1, <1>3 DEF IORest, Holds
  <2>2. QED BY <1>1, <2>1
<1>4. IORest(rest)
  BY <1>1, <1>2 DEF IORest
<1>5. QED BY <1>1, <1>3, <1>4 DEF rest, d

-----------------------------------------------------------------------------
(* Types, and what a goroutine has still to write where it is. *)

Pending ==
  \A p \in Procs :
    /\ pc[p] = "writeWall" => todo[p] # <<>> /\ WallRest(todo[p])
    /\ pc[p] = "writeIO" => todo[p] # <<>> /\ IORest(todo[p])
    /\ pc[p] \notin {"writeWall", "writeIO"} => todo[p] = <<>>

WaitsDistinct == \A i, k \in DOMAIN waits : waits[i].wait = waits[k].wait => i = k

Base == TypeOK /\ Pending /\ WaitsDistinct

Locations == {"idle", "wait", "wall", "writeWall", "io", "writeIO", "exited", "returned", "failed"}

SmallDocuments(ds) == \A i \in DOMAIN ds : Len(ds[i].samples) \in 1..ProfileBatchSize

LEMMA DocumentsAre ==
  /\ StackDocuments \subseteq Documents
  /\ WaitDocuments \subseteq Documents
BY DEF StackDocuments, WaitDocuments, Documents, StackSamples, WaitSamples

\* What a goroutine has to write changes, and nothing of anybody else.
LEMMA TodoTyped ==
  ASSUME Base, NEW p \in Procs, NEW ds \in Seq(Documents), SmallDocuments(ds),
         NEW loc \in Locations,
         todo' = [todo EXCEPT ![p] = ds], Goto(p, loc),
         loc = "writeWall" => ds # <<>> /\ WallRest(ds),
         loc = "writeIO" => ds # <<>> /\ IORest(ds),
         loc \notin {"writeWall", "writeIO"} => ds = <<>>
  PROVE  /\ todo' \in [Procs -> Seq(Documents)]
         /\ \A q \in Procs : SmallDocuments(todo'[q])
         /\ pc' \in [Procs -> Locations]
         /\ Pending'
<1>1. /\ todo \in [Procs -> Seq(Documents)] /\ pc \in [Procs -> Locations]
      /\ \A q \in Procs : SmallDocuments(todo[q])
  BY DEF Base, TypeOK, Locations, SmallDocuments
<1>2. \A q \in Procs : /\ pc'[q] = IF q = p THEN loc ELSE pc[q]
                       /\ todo'[q] = IF q = p THEN ds ELSE todo[q]
  BY <1>1 DEF Goto
<1>3. todo' \in [Procs -> Seq(Documents)] /\ pc' \in [Procs -> Locations]
  BY <1>1 DEF Goto
<1>4. Pending'
  <2> SUFFICES ASSUME NEW q \in Procs
               PROVE  /\ pc'[q] = "writeWall" => todo'[q] # <<>> /\ WallRest(todo'[q])
                      /\ pc'[q] = "writeIO" => todo'[q] # <<>> /\ IORest(todo'[q])
                      /\ pc'[q] \notin {"writeWall", "writeIO"} => todo'[q] = <<>>
    BY DEF Pending, WallRest, IORest
  <2>1. QED BY <1>2 DEF Base, Pending
<1>5. QED BY <1>1, <1>2, <1>3, <1>4
\* What a goroutine has still to write is of its kind.
LEMMA HeadsAre ==
  ASSUME Base, NEW p \in Procs
  PROVE  /\ pc[p] = "writeWall" => /\ todo[p] # <<>> /\ WallRest(todo[p])
                                   /\ Head(todo[p]) \in StackDocuments
                                   /\ Head(todo[p]).series \in StackSeries
                                   /\ Head(todo[p]).series # "go-io"
         /\ pc[p] = "writeIO" => /\ todo[p] # <<>> /\ IORest(todo[p])
                                 /\ Head(todo[p]).series = "go-io"
<1>1. pc[p] = "writeWall" => todo[p] # <<>> /\ WallRest(todo[p])
  BY DEF Base, Pending
<1>2. pc[p] = "writeIO" => todo[p] # <<>> /\ IORest(todo[p])
  BY DEF Base, Pending
<1>3. ASSUME pc[p] = "writeWall"
      PROVE  Head(todo[p]) \in StackDocuments
  BY <1>1, <1>3, RestTicks
<1>4. ASSUME pc[p] = "writeIO"
      PROVE  Head(todo[p]) \in WaitDocuments
  BY <1>2, <1>4, IORestTail
<1>5. QED BY <1>1, <1>2, <1>3, <1>4 DEF StackDocuments, WaitDocuments, StackSeries

\* The waits of the buffer are named by calls made.
LEMMA WaitsTyped ==
  ASSUME Base
  PROVE  /\ waits \in Seq(WaitSamples) /\ Len(waits) \in Nat
         /\ DOMAIN waits = 1..Len(waits)
         /\ \A i \in DOMAIN waits : waits[i].wait \in 1..recorded
         /\ \A i, k \in DOMAIN waits : waits[i].wait = waits[k].wait => i = k
<1> DEFINE S == [wait : 1..recorded]
<1>1. /\ waits \in Seq(S) /\ recorded \in Nat /\ snapshots \in Nat
      /\ snapshots + recorded <= MaxInputs /\ WaitsDistinct
  BY DEF Base, TypeOK
<1>2. S \subseteq WaitSamples
  BY <1>1, ProfileLimitsAssumption DEF WaitSamples
<1>3. \A x \in S : x.wait \in 1..recorded
  OBVIOUS
<1> HIDE DEF S
<1>4. /\ waits \in Seq(WaitSamples) /\ Len(waits) \in Nat /\ DOMAIN waits = 1..Len(waits)
      /\ \A i \in DOMAIN waits : waits[i] \in S
  BY <1>1, <1>2, SeqMonotonic
<1>5. QED BY <1>1, <1>3, <1>4 DEF WaitsDistinct

\* The ticks a written document adds are a number for each stack.
LEMMA ChargedTyped ==
  ASSUME Base, NEW p \in Procs, WriteAccepted(p)
  PROVE  charged' \in [StackSeries -> [Stacks -> Nat]] /\ spooled' \in [1..MaxInputs -> Nat]
<1> DEFINE d == Head(todo[p])
<1>1. charged \in [StackSeries -> [Stacks -> Nat]] /\ spooled \in [1..MaxInputs -> Nat]
  BY DEF Base, TypeOK
<1>2. pc[p] \in {"writeWall", "writeIO"}
  BY DEF WriteAccepted
<1>3. CASE pc[p] = "writeIO"
  <2>1. UNCHANGED charged /\ spooled' = [w \in 1..MaxInputs |->
          spooled[w] + IF [wait |-> w] \in ToSet(d.samples) THEN 1 ELSE 0]
    BY <1>3, HeadsAre DEF WriteAccepted
  <2>2. QED BY <1>1, <2>1
<1>4. CASE pc[p] = "writeWall"
  <2>1. /\ UNCHANGED spooled
        /\ charged' = [charged EXCEPT ![d.series] = [s \in Stacks |-> @[s] + TicksOf(s, d)]]
        /\ d.series \in StackSeries
    BY <1>4, HeadsAre DEF WriteAccepted
  <2>2. \A s \in Stacks : TicksOf(s, d) \in Nat
    BY <1>4, HeadsAre, RestTicks
  <2>3. [s \in Stacks |-> charged[d.series][s] + TicksOf(s, d)] \in [Stacks -> Nat]
    BY <1>1, <2>1, <2>2
  <2> HIDE DEF d
  <2>4. QED BY <1>1, <2>1, <2>3
<1>5. QED BY <1>2, <1>3, <1>4

\* Every step keeps the types, and what a goroutine has to write where it is.
LEMMA BaseStep ==
  ASSUME Base, [Next]_vars
  PROVE  Base'
<1>1. /\ IsWindow(buckets) /\ buckets \in Windows
      /\ waits \in Seq([wait : 1..recorded]) /\ Len(waits) <= IOMaxSamples
      /\ pc \in [Procs -> Locations] /\ todo \in [Procs -> Seq(Documents)]
      /\ \A p \in Procs : SmallDocuments(todo[p])
      /\ stopping \in BOOLEAN /\ cancelled \in BOOLEAN
      /\ charged \in [StackSeries -> [Stacks -> Nat]]
      /\ spooled \in [1..MaxInputs -> Nat]
      /\ snapshots \in Nat /\ recorded \in Nat /\ snapshots + recorded <= MaxInputs
      /\ banked \in [Stacks -> Nat] /\ refused \in BOOLEAN
      /\ Pending /\ WaitsDistinct
  BY WindowsAre DEF Base, TypeOK, Locations, SmallDocuments
<1>2. MaxInputs \in Nat /\ IOMaxSamples \in Nat
  BY ProfileLimitsAssumption
<1>3. /\ waits \in Seq(WaitSamples) /\ Len(waits) \in Nat
      /\ DOMAIN waits = 1..Len(waits)
      /\ \A i \in DOMAIN waits : waits[i].wait \in 1..recorded
  BY WaitsTyped
\* The rest of the types, for a step of a flush.
<1>4. ASSUME todo' \in [Procs -> Seq(Documents)], \A p \in Procs : SmallDocuments(todo'[p]),
             pc' \in [Procs -> Locations], Pending',
             IsWindow(buckets'), UNCHANGED waits \/ waits' = <<>>,
             stopping' \in BOOLEAN, cancelled' \in BOOLEAN, refused' \in BOOLEAN,
             charged' \in [StackSeries -> [Stacks -> Nat]],
             spooled' \in [1..MaxInputs -> Nat],
             UNCHANGED countVars
      PROVE  Base'
  <2>1. waits' \in Seq([wait : 1..recorded']) /\ Len(waits') <= IOMaxSamples
    <3>1. UNCHANGED recorded
      BY <1>4 DEF countVars
    <3>2. CASE UNCHANGED waits
      BY <1>1, <3>1, <3>2
    <3>3. CASE waits' = <<>>
      BY <1>2, <3>3
    <3>4. QED BY <1>4, <3>2, <3>3
  <2>2. WaitsDistinct'
    BY <1>1, <1>4 DEF WaitsDistinct
  <2>3. TypeOK'
    BY <1>1, <1>4, <2>1 DEF TypeOK, IsWindow, Locations, SmallDocuments, countVars
  <2>4. QED BY <1>4, <2>2, <2>3 DEF Base
<1>5. /\ IsWindow(NoBuckets)
      /\ <<>> \in Seq(Documents) /\ SmallDocuments(<<>>)
  <2>1. DOMAIN NoBuckets = {} /\ NoBuckets \in [{} -> Nat \ {0}]
    BY DEF NoBuckets
  <2>2. Cardinality({}) = 0 /\ WallMaxStacks \in Nat
    BY FS_EmptySet, ProfileLimitsAssumption
  <2>3. QED BY <2>1, <2>2 DEF IsWindow, SmallDocuments
\* A goroutine goes on without anything to write.
<1>6. ASSUME NEW p \in Procs, NEW loc \in Locations \ {"writeWall", "writeIO"},
             pc[p] \notin {"writeWall", "writeIO"}, Goto(p, loc),
             UNCHANGED <<buckets, waits, todo, writtenVars, countVars, refused>>,
             stopping' \in BOOLEAN, cancelled' \in BOOLEAN
      PROVE  Base'
  <2>1. todo' = [todo EXCEPT ![p] = <<>>]
    <3>1. todo[p] = <<>>
      BY <1>1, <1>6 DEF Pending
    <3>2. QED BY <1>1, <1>6, <3>1
  <2>2. /\ todo' \in [Procs -> Seq(Documents)] /\ \A q \in Procs : SmallDocuments(todo'[q])
        /\ pc' \in [Procs -> Locations] /\ Pending'
    BY <1>5, <1>6, <2>1, TodoTyped
  <2>3. QED BY <1>1, <1>4, <1>6, <2>2 DEF IsWindow, writtenVars
<1>7. ASSUME NEW records \in Snapshots, Sample(records) PROVE Base'
  <2>1. records \in Seq(Stacks)
    <3>1. PICK n \in 1..MaxLive : records \in [1..n -> Stacks]
      BY <1>7 DEF Snapshots
    <3>2. n \in Nat
      BY <3>1, ProfileLimitsAssumption
    <3>3. QED BY <3>1, <3>2
  <2>2. /\ buckets' \in Windows
        /\ \A s \in Stacks : /\ TicksIn(buckets, s) \in Nat /\ TicksIn(buckets', s) \in Nat
                             /\ TicksIn(buckets, s) <= TicksIn(buckets', s)
    BY <1>1, <1>7, <2>1, BankAllGrows DEF Sample
  <2>3. IsWindow(buckets')
    BY <2>2, WindowsAre
  <2>4. banked' \in [Stacks -> Nat]
    <3>1. \A s \in Stacks : banked[s] + TicksIn(buckets', s) - TicksIn(buckets, s) \in Nat
      BY <1>1, <2>2
    <3>2. QED BY <1>7, <3>1 DEF Sample
  <2>5. /\ UNCHANGED <<waits, pc, todo, stopping, cancelled, charged, spooled, recorded, refused>>
        /\ snapshots' = snapshots + 1 /\ snapshots + recorded < MaxInputs
    BY <1>7 DEF Sample, writtenVars
  <2>6. snapshots' \in Nat /\ snapshots' + recorded' <= MaxInputs
    BY <1>1, <1>2, <2>5
  <2>7. Pending' /\ WaitsDistinct'
    BY <1>1, <2>5 DEF Pending, WaitsDistinct, WallRest, IORest
  <2>8. TypeOK'
    BY <1>1, <2>3, <2>4, <2>5, <2>6 DEF TypeOK, IsWindow, Locations, SmallDocuments
  <2>9. QED BY <2>7, <2>8 DEF Base
<1>8. CASE RecordIOWait
  <2>1. /\ UNCHANGED <<buckets, pc, todo, stopping, cancelled, charged, spooled, snapshots,
                       banked, refused>>
        /\ recorded' = recorded + 1 /\ snapshots + recorded < MaxInputs
        /\ waits' = IF Len(waits) < IOMaxSamples THEN Append(waits, [wait |-> recorded'])
                    ELSE waits
    BY <1>8 DEF RecordIOWait, writtenVars
  <2>2. recorded' \in Nat /\ snapshots' + recorded' <= MaxInputs /\ recorded' \in 1..recorded'
    BY <1>1, <1>2, <2>1
  <2>3. waits \in Seq([wait : 1..recorded'])
    <3>1. [wait : 1..recorded] \subseteq [wait : 1..recorded']
      BY <1>1, <2>1, <2>2
    <3>2. QED BY <1>1, <3>1, SeqMonotonic
  <2>4. waits' \in Seq([wait : 1..recorded']) /\ Len(waits') <= IOMaxSamples /\ WaitsDistinct'
    <3>1. CASE ~(Len(waits) < IOMaxSamples)
      BY <1>1, <2>1, <2>3, <3>1 DEF WaitsDistinct
    <3>2. CASE Len(waits) < IOMaxSamples
      <4> DEFINE e == [wait |-> recorded']
      <4>1. waits' = Append(waits, e) /\ e \in [wait : 1..recorded'] /\ e.wait = recorded'
        BY <2>1, <2>2, <3>2
      <4> HIDE DEF e
      <4>2. /\ waits' \in Seq([wait : 1..recorded']) /\ Len(waits') = Len(waits) + 1
            /\ waits'[Len(waits) + 1] = e /\ \A i \in 1..Len(waits) : waits'[i] = waits[i]
        BY <2>3, <4>1
      <4>3. Len(waits') <= IOMaxSamples
        BY <1>2, <1>3, <3>2, <4>2
      <4>4. \A i \in DOMAIN waits' : i \in DOMAIN waits \/ i = Len(waits) + 1
        BY <1>3, <4>2
      <4>5. \A i \in DOMAIN waits : waits'[i].wait # recorded'
        BY <1>1, <1>3, <2>1, <4>2
      <4>6. WaitsDistinct'
        BY <1>1, <1>3, <4>1, <4>2, <4>4, <4>5 DEF WaitsDistinct
      <4>7. QED BY <4>2, <4>3, <4>6
    <3>3. QED BY <3>1, <3>2
  <2>5. Pending'
    BY <1>1, <2>1 DEF Pending, WallRest, IORest
  <2>6. TypeOK'
    BY <1>1, <2>1, <2>2, <2>4 DEF TypeOK, IsWindow, Locations, SmallDocuments
  <2>7. QED BY <2>4, <2>5, <2>6 DEF Base
<1>9. ASSUME NEW p \in Procs, DrainWall(p) PROVE Base'
  <2>1. PICK order \in Sorted(buckets) : todo' = [todo EXCEPT ![p] = WallDocuments(buckets, order)]
    BY <1>9 DEF DrainWall
  <2> DEFINE ds == WallDocuments(buckets, order)
  <2>2. WallRest(ds) /\ SmallDocuments(ds)
    BY <1>1, WallDocumentsHold DEF SmallDocuments
  <2>3. ds \in Seq(Documents)
    <3>1. ds \in Seq(StackDocuments)
      BY <2>2 DEF WallRest
    <3> HIDE DEF ds
    <3>2. QED BY <3>1, DocumentsAre
  <2>4. todo'[p] = ds
    BY <1>1, <2>1
  <2> DEFINE loc == IF ds = <<>> THEN "io" ELSE "writeWall"
  <2>5. Goto(p, loc)
    BY <1>9, <2>4 DEF DrainWall
  <2> HIDE DEF ds
  <2>6. /\ loc \in Locations /\ (loc = "writeWall" => ds # <<>>) /\ loc # "writeIO"
        /\ (loc # "writeWall" => ds = <<>>)
    BY DEF Locations
  <2> HIDE DEF loc
  <2>7. /\ todo' \in [Procs -> Seq(Documents)] /\ \A q \in Procs : SmallDocuments(todo'[q])
        /\ pc' \in [Procs -> Locations] /\ Pending'
    BY <2>1, <2>2, <2>3, <2>5, <2>6, TodoTyped DEF ds
  <2>8. QED BY <1>1, <1>4, <1>5, <1>9, <2>7 DEF DrainWall, writtenVars
<1>10. ASSUME NEW p \in Procs, DrainIO(p) PROVE Base'
  <2> DEFINE ds == Chunks("go-io", waits)
             loc == IF waits = <<>> THEN IF p = Loop THEN IF stopping THEN "exited" ELSE "idle"
                                         ELSE "returned"
                    ELSE "writeIO"
  <2>1. IORest(ds) /\ SmallDocuments(ds) /\ (ds = <<>> <=> waits = <<>>)
    BY <1>1, <1>3, IODocumentsHold DEF SmallDocuments, WaitsDistinct
  <2>2. ds \in Seq(Documents)
    <3>1. ds \in Seq(WaitDocuments)
      BY <2>1 DEF IORest
    <3> HIDE DEF ds
    <3>2. QED BY <3>1, DocumentsAre
  <2>3. todo' = [todo EXCEPT ![p] = ds] /\ Goto(p, loc)
    BY <1>10 DEF DrainIO, FlushReturns
  <2>4. /\ loc \in Locations /\ (loc = "writeIO" => waits # <<>>) /\ loc # "writeWall"
        /\ (loc # "writeIO" => waits = <<>>)
    BY DEF Locations
  <2> HIDE DEF ds, loc
  <2>5. /\ todo' \in [Procs -> Seq(Documents)] /\ \A q \in Procs : SmallDocuments(todo'[q])
        /\ pc' \in [Procs -> Locations] /\ Pending'
    BY <2>1, <2>2, <2>3, <2>4, TodoTyped
  <2>6. QED BY <1>1, <1>4, <1>10, <2>5 DEF DrainIO, writtenVars, IsWindow
<1>11. ASSUME NEW p \in Procs, WriteAccepted(p) PROVE Base'
  <2> DEFINE ds == Tail(todo[p])
             loc == IF ds # <<>> THEN pc[p]
                    ELSE IF pc[p] = "writeWall" THEN "io"
                    ELSE IF p = Loop THEN IF stopping THEN "exited" ELSE "idle"
                    ELSE "returned"
  <2>1. todo' = [todo EXCEPT ![p] = ds] /\ todo'[p] = ds
    BY <1>1, <1>11 DEF WriteAccepted
  <2>2. Goto(p, loc)
    BY <1>1, <1>11, <2>1 DEF WriteAccepted, Goto, FlushReturns
  <2>3. pc[p] \in {"writeWall", "writeIO"}
    BY <1>11 DEF WriteAccepted
  <2>4. todo[p] # <<>> /\ todo[p] \in Seq(Documents) /\ SmallDocuments(todo[p])
    BY <1>1, <2>3, HeadsAre
  <2>5. ds \in Seq(Documents) /\ SmallDocuments(ds)
    <3>1. /\ ds \in Seq(Documents)
          /\ \A i \in DOMAIN ds : i + 1 \in DOMAIN todo[p] /\ ds[i] = todo[p][i + 1]
      BY <2>4
    <3> HIDE DEF ds
    <3>2. QED BY <2>4, <3>1 DEF SmallDocuments
  <2>6. pc[p] = "writeWall" => WallRest(ds)
    BY HeadsAre, RestTicks
  <2>7. pc[p] = "writeIO" => IORest(ds)
    BY HeadsAre, IORestTail
  <2> HIDE DEF ds
  <2>8. /\ loc \in Locations /\ (loc = "writeIO" => ds # <<>> /\ pc[p] = "writeIO")
        /\ (loc = "writeWall" => ds # <<>> /\ pc[p] = "writeWall")
        /\ (loc \notin {"writeIO", "writeWall"} => ds = <<>>)
    BY <2>3 DEF Locations
  <2> HIDE DEF loc
  <2>9. /\ todo' \in [Procs -> Seq(Documents)] /\ \A q \in Procs : SmallDocuments(todo'[q])
        /\ pc' \in [Procs -> Locations] /\ Pending'
    BY <2>1, <2>2, <2>5, <2>6, <2>7, <2>8, TodoTyped
  <2>10. charged' \in [StackSeries -> [Stacks -> Nat]] /\ spooled' \in [1..MaxInputs -> Nat]
    BY <1>11, ChargedTyped
  <2>11. UNCHANGED <<buckets, waits, stopping, cancelled, countVars, refused>>
    BY <1>11 DEF WriteAccepted
  <2>12. QED BY <1>1, <1>4, <2>9, <2>10, <2>11 DEF IsWindow
<1>12. ASSUME NEW p \in Procs, WriteRefused(p) PROVE Base'
  <2> DEFINE loc == IF p = Loop /\ pc[p] = "writeWall" THEN "io"
                    ELSE IF p = Loop THEN IF stopping THEN "exited" ELSE "idle"
                    ELSE "failed"
  <2>1. todo' = [todo EXCEPT ![p] = <<>>] /\ Goto(p, loc)
    BY <1>12 DEF WriteRefused, FlushReturns
  <2>2. loc \in Locations \ {"writeWall", "writeIO"}
    BY DEF Locations
  <2> HIDE DEF loc
  <2>3. /\ todo' \in [Procs -> Seq(Documents)] /\ \A q \in Procs : SmallDocuments(todo'[q])
        /\ pc' \in [Procs -> Locations] /\ Pending'
    BY <1>5, <2>1, <2>2, TodoTyped
  <2>4. QED BY <1>1, <1>4, <1>12, <2>3 DEF WriteRefused, writtenVars, IsWindow
<1>13. ASSUME NEW p \in Procs, FlushProfiles(p) PROVE Base'
  <2>1. "wall" \in Locations \ {"writeWall", "writeIO"}
    BY DEF Locations
  <2>2. QED BY <1>1, <1>6, <1>13, <2>1 DEF FlushProfiles
<1>14. CASE FlushTick \/ LoopStops
  <2>1. "wall" \in Locations \ {"writeWall", "writeIO"} /\ Loop \in Procs
    BY DEF Locations, Procs
  <2>2. QED BY <1>1, <1>6, <1>14, <2>1 DEF FlushTick, LoopStops
<1>15. CASE Shutdown
  <2>1. "wait" \in Locations \ {"writeWall", "writeIO"} /\ Main \in Procs
    BY DEF Locations, Procs
  <2>2. QED BY <1>1, <1>6, <1>15, <2>1 DEF Shutdown
<1>16. CASE ShutdownFlushes
  <2>1. {"wall", "failed"} \subseteq Locations \ {"writeWall", "writeIO"} /\ Main \in Procs
    BY DEF Locations, Procs
  <2>2. \E loc \in {"wall", "failed"} : Goto(Main, loc)
    BY <1>16 DEF ShutdownFlushes
  <2>3. QED BY <1>1, <1>6, <1>16, <2>1, <2>2 DEF ShutdownFlushes
<1>17. CASE UNCHANGED vars
  BY <1>1, <1>4, <1>17 DEF vars, writtenVars, Pending, WallRest, IORest
<1>18. QED BY <1>7, <1>8, <1>9, <1>10, <1>11, <1>12, <1>13, <1>14, <1>15, <1>16, <1>17
  DEF Next, Flush

LEMMA BaseInit == Init => Base
<1> SUFFICES ASSUME Init PROVE Base
  OBVIOUS
<1>1. IsWindow(buckets)
  <2>1. buckets = NoBuckets /\ DOMAIN NoBuckets = {} /\ NoBuckets \in [{} -> Nat \ {0}]
    BY DEF Init, NoBuckets
  <2>2. Cardinality({}) = 0 /\ WallMaxStacks \in Nat
    BY FS_EmptySet, ProfileLimitsAssumption
  <2>3. QED BY <2>1, <2>2 DEF IsWindow
<1>2. waits = <<>> /\ recorded = 0 /\ snapshots = 0 /\ IOMaxSamples \in Nat /\ MaxInputs \in Nat
  BY ProfileLimitsAssumption DEF Init
<1>3. waits \in Seq([wait : 1..recorded]) /\ Len(waits) <= IOMaxSamples /\ WaitsDistinct
  BY <1>2 DEF WaitsDistinct
<1>4. todo \in [Procs -> Seq(Documents)] /\ \A p \in Procs : todo[p] = <<>> /\ pc[p] = "idle"
  BY DEF Init
<1>5. Pending
  BY <1>4 DEF Pending
<1>6. \A p \in Procs : \A i \in DOMAIN todo[p] : Len(todo[p][i].samples) \in 1..ProfileBatchSize
  BY <1>4
<1>7. pc \in [Procs -> Locations] /\ stopping \in BOOLEAN /\ cancelled \in BOOLEAN
      /\ refused \in BOOLEAN
  BY DEF Init, Locations
<1>8. /\ charged \in [StackSeries -> [Stacks -> Nat]] /\ spooled \in [1..MaxInputs -> Nat]
      /\ banked \in [Stacks -> Nat]
  BY DEF Init
<1>9. TypeOK
  BY <1>1, <1>2, <1>3, <1>4, <1>6, <1>7, <1>8 DEF TypeOK, Locations
<1>10. QED BY <1>3, <1>5, <1>9 DEF Base

\* The base invariant, and with it TypeOK: what the buffers, the flushes and the
\* spool hold is of its kind, within its limits (sample, recordIOWait, drain,
\* writeProfileSamples).
THEOREM ProfilesTypeCorrect == Spec => []TypeOK
<1>1. Base => TypeOK
  BY DEF Base
<1>2. QED BY <1>1, BaseInit, BaseStep, PTL DEF Spec
-----------------------------------------------------------------------------
(* The ticks in flight. *)

\* The off-CPU ticks of s that are to be written although the WALL ones have
\* been.
Owed(s, ds) == IF ShownIn("go-wall", s, ds) THEN 0 ELSE SeriesTicks("go-offcpu", s, ds)

TotalOwed(s) == SumFunction([p \in Procs |-> Owed(s, todo[p])])

\* A goroutine has ticks in flight only while it writes those of the sampler.
LEMMA TicksTyped ==
  ASSUME Base, NEW p \in Procs, NEW s
  PROVE  /\ SeriesTicks("go-wall", s, todo[p]) \in Nat /\ Owed(s, todo[p]) \in Nat
         /\ pc[p] # "writeWall" =>
              SeriesTicks("go-wall", s, todo[p]) = 0 /\ Owed(s, todo[p]) = 0
<1>1. CASE pc[p] = "writeWall"
  <2>1. WallRest(todo[p])
    BY <1>1, HeadsAre
  <2>2. QED BY <1>1, <2>1, SeriesTicksAre DEF Owed
<1>2. CASE pc[p] # "writeWall"
  <2>1. todo[p] \in Seq(Documents)
    BY DEF Base, TypeOK
  <2>2. \A i \in DOMAIN todo[p] : todo[p][i].series = "go-io"
    <3>1. CASE pc[p] = "writeIO"
      <4>1. todo[p] \in Seq(WaitDocuments)
        BY <3>1 DEF Base, Pending, IORest
      <4>2. \A i \in DOMAIN todo[p] : todo[p][i] \in WaitDocuments
        BY <4>1
      <4>3. QED BY <4>2 DEF WaitDocuments
    <3>2. CASE pc[p] # "writeIO"
      <4>1. todo[p] = <<>>
        BY <1>2, <3>2 DEF Base, Pending
      <4>2. QED BY <4>1
    <3>3. QED BY <3>1, <3>2
  <2>3. \A series \in StackSeries : SeriesTicks(series, s, todo[p]) = 0
    BY <2>1, <2>2, NoTicks
  <2>4. QED BY <2>3 DEF Owed, StackSeries
<1>3. QED BY <1>1, <1>2

LEMMA TotalsTyped ==
  ASSUME Base, NEW s
  PROVE  InFlight(s) \in Nat /\ TotalOwed(s) \in Nat
<1> DEFINE f == [q \in Procs |-> SeriesTicks("go-wall", s, todo[q])]
           h == [q \in Procs |-> Owed(s, todo[q])]
<1>1. f \in [Procs -> Nat] /\ h \in [Procs -> Nat] /\ DOMAIN f = Procs /\ DOMAIN h = Procs
  BY TicksTyped
<1>2. InFlight(s) = SumFunctionOnSet(f, Procs) /\ TotalOwed(s) = SumFunctionOnSet(h, Procs)
  BY <1>1 DEF InFlight, TotalOwed, SumFunction
<1> HIDE DEF f, h
<1>3. QED BY <1>1, <1>2, StacksFinite, SumOfNaturals

\* Documents of waits, and no documents, have no ticks in flight.
LEMMA NoneInFlight ==
  ASSUME NEW ds \in Seq(Documents), \A i \in DOMAIN ds : ds[i].series = "go-io", NEW s
  PROVE  SeriesTicks("go-wall", s, ds) = 0 /\ Owed(s, ds) = 0
<1>1. \A series \in StackSeries : SeriesTicks(series, s, ds) = 0
  BY NoTicks
<1>2. QED BY <1>1 DEF Owed, StackSeries

\* The sums change by what the goroutine that takes the step has.
LEMMA TotalsChange ==
  ASSUME Base, NEW p \in Procs, \A q \in Procs \ {p} : todo'[q] = todo[q], NEW s,
         SeriesTicks("go-wall", s, todo'[p]) \in Nat, Owed(s, todo'[p]) \in Nat
  PROVE  /\ InFlight(s) \in Nat /\ TotalOwed(s) \in Nat
         /\ InFlight(s)' \in Nat /\ TotalOwed(s)' \in Nat
         /\ InFlight(s)' = InFlight(s) + SeriesTicks("go-wall", s, todo'[p])
                                       - SeriesTicks("go-wall", s, todo[p])
         /\ TotalOwed(s)' = TotalOwed(s) + Owed(s, todo'[p]) - Owed(s, todo[p])
<1> DEFINE f == [q \in Procs |-> SeriesTicks("go-wall", s, todo[q])]
           g == [q \in Procs |-> SeriesTicks("go-wall", s, todo'[q])]
           h == [q \in Procs |-> Owed(s, todo[q])]
           k == [q \in Procs |-> Owed(s, todo'[q])]
<1>1. \A q \in Procs : SeriesTicks("go-wall", s, todo[q]) \in Nat /\ Owed(s, todo[q]) \in Nat
  BY TicksTyped
<1>2. \A q \in Procs : SeriesTicks("go-wall", s, todo'[q]) \in Nat /\ Owed(s, todo'[q]) \in Nat
  <2> SUFFICES ASSUME NEW q \in Procs
               PROVE  SeriesTicks("go-wall", s, todo'[q]) \in Nat /\ Owed(s, todo'[q]) \in Nat
    OBVIOUS
  <2>1. CASE q = p
    BY <2>1
  <2>2. CASE q # p
    <3>1. todo'[q] = todo[q]
      BY <2>2
    <3>2. QED BY <1>1, <3>1
  <2>3. QED BY <2>1, <2>2
<1>3. /\ f \in [Procs -> Nat] /\ g \in [Procs -> Nat]
      /\ h \in [Procs -> Nat] /\ k \in [Procs -> Nat]
      /\ \A q \in Procs \ {p} : g[q] = f[q] /\ k[q] = h[q]
      /\ DOMAIN f = Procs /\ DOMAIN g = Procs /\ DOMAIN h = Procs /\ DOMAIN k = Procs
      /\ f[p] = SeriesTicks("go-wall", s, todo[p]) /\ g[p] = SeriesTicks("go-wall", s, todo'[p])
      /\ h[p] = Owed(s, todo[p]) /\ k[p] = Owed(s, todo'[p])
  BY <1>1, <1>2
<1>4. /\ InFlight(s) = SumFunctionOnSet(f, Procs) /\ TotalOwed(s) = SumFunctionOnSet(h, Procs)
      /\ InFlight(s)' = SumFunctionOnSet(g, Procs) /\ TotalOwed(s)' = SumFunctionOnSet(k, Procs)
  <2>1. InFlight(s) = SumFunctionOnSet(f, Procs) /\ TotalOwed(s) = SumFunctionOnSet(h, Procs)
    BY <1>3 DEF InFlight, TotalOwed, SumFunction
  <2>2. InFlight(s)' = SumFunctionOnSet(g, Procs) /\ TotalOwed(s)' = SumFunctionOnSet(k, Procs)
    BY <1>3 DEF InFlight, TotalOwed, SumFunction
  <2>3. QED BY <2>1, <2>2
<1> HIDE DEF f, g, h, k
<1>5. IsFiniteSet(Procs)
  BY StacksFinite
<1>6. /\ f \in [Procs -> Int] /\ g \in [Procs -> Int]
      /\ h \in [Procs -> Int] /\ k \in [Procs -> Int]
  BY <1>3
<1>7. SumFunctionOnSet(g, Procs) = SumFunctionOnSet(f, Procs) + g[p] - f[p]
  BY <1>3, <1>5, <1>6, SumChanges
<1>8. SumFunctionOnSet(k, Procs) = SumFunctionOnSet(h, Procs) + k[p] - h[p]
  BY <1>3, <1>5, <1>6, SumChanges
<1>9. /\ SumFunctionOnSet(f, Procs) \in Nat /\ SumFunctionOnSet(h, Procs) \in Nat
      /\ SumFunctionOnSet(g, Procs) \in Nat /\ SumFunctionOnSet(k, Procs) \in Nat
  BY <1>3, <1>5, SumOfNaturals
<1>10. QED BY <1>3, <1>4, <1>7, <1>8, <1>9

\* A drain of the sampler takes the window, and owes nothing.
LEMMA DrainTicks ==
  ASSUME Base, NEW p \in Procs, DrainWall(p), NEW s \in Stacks
  PROVE  /\ pc[p] = "wall"
         /\ SeriesTicks("go-wall", s, todo'[p])
              = IF s \in WallStacks THEN TicksIn(buckets, s) ELSE 0
         /\ Owed(s, todo'[p]) = 0
         /\ TicksIn(buckets', s) = 0
<1>1. PICK order \in Sorted(buckets) : todo' = [todo EXCEPT ![p] = WallDocuments(buckets, order)]
  BY DEF DrainWall
<1> DEFINE ds == WallDocuments(buckets, order)
<1>2. buckets \in Windows
  BY WindowsAre DEF Base, TypeOK
<1>3. /\ WallRest(ds)
      /\ SeriesTicks("go-wall", s, ds) = IF s \in WallStacks THEN TicksIn(buckets, s) ELSE 0
      /\ ShownIn("go-offcpu", s, ds) => ShownIn("go-wall", s, ds)
  BY <1>2, WallDocumentsHold
<1>4. todo'[p] = ds
  BY <1>1 DEF Base, TypeOK
<1> HIDE DEF ds
<1>5. Owed(s, ds) = 0
  BY <1>3, SeriesTicksAre DEF Owed
<1>6. TicksIn(buckets', s) = 0
  BY DEF DrainWall, TicksIn, NoBuckets
<1>7. QED BY <1>3, <1>4, <1>5, <1>6 DEF DrainWall

\* A written document: its ticks are no longer in flight, and off-CPU ticks are
\* owed only if the wall ticks have been written.
LEMMA WriteTicks ==
  ASSUME Base, NEW p \in Procs, WriteAccepted(p), pc[p] = "writeWall", NEW s \in Stacks
  PROVE  LET d == Head(todo[p])
         IN /\ todo'[p] = Tail(todo[p])
            /\ TicksOf(s, d) \in Nat
            /\ SeriesTicks("go-wall", s, Tail(todo[p])) \in Nat /\ Owed(s, Tail(todo[p])) \in Nat
            /\ s \notin WallStacks => TicksOf(s, d) = 0
            /\ d.series \in StackSeries
            /\ charged'[d.series][s] = charged[d.series][s] + TicksOf(s, d)
            /\ \A series \in StackSeries \ {d.series} : charged'[series][s] = charged[series][s]
            /\ d.series = "go-wall" =>
                 /\ SeriesTicks("go-wall", s, todo[p])
                      = SeriesTicks("go-wall", s, Tail(todo[p])) + TicksOf(s, d)
                 /\ Owed(s, Tail(todo[p])) <= Owed(s, todo[p]) + TicksOf(s, d)
            /\ d.series = "go-offcpu" =>
                 /\ SeriesTicks("go-wall", s, todo[p]) = SeriesTicks("go-wall", s, Tail(todo[p]))
                 /\ Owed(s, todo[p]) = Owed(s, Tail(todo[p])) + TicksOf(s, d)
<1> DEFINE ds == todo[p]
           d == Head(ds)
           rest == Tail(ds)
<1>1. WallRest(ds) /\ ds # <<>> /\ d \in StackDocuments /\ d.series \in StackSeries
      /\ d.series # "go-io"
  BY HeadsAre
<1>2. todo'[p] = rest
  BY DEF Base, TypeOK, WriteAccepted
<1>3. /\ WallRest(rest) /\ TicksOf(s, d) \in Nat
      /\ ~Shows(d, s) => TicksOf(s, d) = 0
      /\ \A series : d.series # series => SeriesTicks(series, s, ds) = SeriesTicks(series, s, rest)
      /\ \A series : d.series = series =>
           SeriesTicks(series, s, ds) = SeriesTicks(series, s, rest) + TicksOf(s, d)
  BY <1>1, RestTicks
<1>4. /\ charged \in [StackSeries -> [Stacks -> Nat]]
      /\ charged' = [charged EXCEPT ![d.series] = [t \in Stacks |-> @[t] + TicksOf(t, d)]]
  BY <1>1 DEF Base, TypeOK, WriteAccepted
<1>5. /\ ds \in Seq(StackDocuments) /\ d = ds[1] /\ 1 \in DOMAIN ds
      /\ Len(ds) \in Nat /\ DOMAIN ds = 1..Len(ds)
      /\ \A i \in DOMAIN rest : i + 1 \in DOMAIN ds /\ rest[i] = ds[i + 1] /\ i + 1 # 1
      /\ \A i \in DOMAIN ds : i = 1 \/ (i - 1 \in DOMAIN rest /\ rest[i - 1] = ds[i])
  BY <1>1 DEF WallRest
<1>6. \A i \in DOMAIN ds : ds[i] \in StackDocuments
  BY <1>5
<1> HIDE DEF ds, d, rest
<1>7. s \notin WallStacks => ~Shows(d, s)
  <2>1. \A j \in DOMAIN d.samples : d.samples[j].stack \in StacksOf(d.series)
    BY <1>1, <1>5 DEF WallRest
  <2>2. QED BY <1>1, <2>1, WallStacksAre DEF Shows
<1>8. /\ charged'[d.series][s] = charged[d.series][s] + TicksOf(s, d)
      /\ \A series \in StackSeries \ {d.series} : charged'[series][s] = charged[series][s]
  BY <1>1, <1>4
<1>9. /\ SeriesTicks("go-offcpu", s, ds) \in Nat /\ SeriesTicks("go-offcpu", s, rest) \in Nat
      /\ Owed(s, ds) \in Nat /\ Owed(s, rest) \in Nat
      /\ Owed(s, rest) <= SeriesTicks("go-offcpu", s, rest)
  <2>1. SeriesTicks("go-offcpu", s, ds) \in Nat /\ SeriesTicks("go-offcpu", s, rest) \in Nat
    BY <1>1, <1>3, SeriesTicksAre
  <2>2. QED BY <2>1 DEF Owed
<1>10. ASSUME d.series = "go-wall"
       PROVE  Owed(s, rest) <= Owed(s, ds) + TicksOf(s, d)
  <2>1. SeriesTicks("go-offcpu", s, ds) = SeriesTicks("go-offcpu", s, rest)
    BY <1>3, <1>10
  <2>2. CASE Shows(d, s)
    <3>1. SeriesTicks("go-offcpu", s, ds) <= TicksOf(s, d)
      <4>1. CASE ShownIn("go-offcpu", s, ds)
        <5>1. PICK i \in DOMAIN ds : ds[i].series = "go-offcpu" /\ Shows(ds[i], s)
          BY <4>1 DEF ShownIn
        <5>2. SeriesTicks("go-offcpu", s, ds) = TicksOf(s, ds[i])
          BY <1>1, <5>1, SeriesTicksAre
        <5>3. PICK j \in DOMAIN ds[i].samples : ds[i].samples[j].stack = s
          BY <5>1 DEF Shows
        <5>4. PICK l \in DOMAIN ds[1].samples : ds[1].samples[l].stack = s
          BY <1>5, <2>2 DEF Shows
        <5>5. ds[i].samples[j].ticks = ds[1].samples[l].ticks
          BY <1>1, <1>5, <5>3, <5>4 DEF WallRest, TicksAgree
        <5>6. ASSUME NEW m \in DOMAIN ds
              PROVE  \A a, b \in DOMAIN ds[m].samples :
                       ds[m].samples[a].stack = ds[m].samples[b].stack => a = b
          BY <1>1 DEF WallRest, StacksApart
        <5>7. TicksOf(s, ds[i]) = ds[i].samples[j].ticks
          BY <1>6, <5>3, <5>6, TicksAre
        <5>8. TicksOf(s, ds[1]) = ds[1].samples[l].ticks
          BY <1>5, <1>6, <5>4, <5>6, TicksAre
        <5>9. QED BY <1>3, <1>5, <5>2, <5>5, <5>7, <5>8
      <4>2. CASE ~ShownIn("go-offcpu", s, ds)
        BY <1>1, <1>3, <4>2, SeriesTicksAre
      <4>3. QED BY <4>1, <4>2
    <3>2. QED BY <1>3, <1>9, <2>1, <3>1
  <2>3. CASE ~Shows(d, s)
    <3>1. ShownIn("go-wall", s, rest) <=> ShownIn("go-wall", s, ds)
      BY <1>5, <2>3 DEF ShownIn
    <3>2. Owed(s, rest) = Owed(s, ds)
      BY <2>1, <3>1 DEF Owed
    <3>3. QED BY <1>3, <1>9, <3>2
  <2>4. QED BY <2>2, <2>3
<1>11. ASSUME d.series = "go-offcpu"
       PROVE  Owed(s, ds) = Owed(s, rest) + TicksOf(s, d)
  <2>1. \A i \in DOMAIN ds : ds[i].series # "go-wall"
    <3> SUFFICES ASSUME NEW i \in DOMAIN ds, ds[i].series = "go-wall" PROVE FALSE
      OBVIOUS
    <3>1. i < 1
      BY <1>1, <1>5, <1>11 DEF WallRest
    <3>2. QED BY <1>5, <3>1
  <2>2. ~ShownIn("go-wall", s, ds) /\ ~ShownIn("go-wall", s, rest)
    BY <1>5, <2>1 DEF ShownIn
  <2>3. QED BY <1>3, <1>11, <2>2 DEF Owed
<1>12. d.series = "go-wall" =>
         SeriesTicks("go-wall", s, ds) = SeriesTicks("go-wall", s, rest) + TicksOf(s, d)
  BY <1>3
<1>13. d.series = "go-offcpu" =>
         SeriesTicks("go-wall", s, ds) = SeriesTicks("go-wall", s, rest)
  BY <1>3
<1>14. s \notin WallStacks => TicksOf(s, d) = 0
  BY <1>3, <1>7
<1>15. TicksOf(s, d) \in Nat /\ SeriesTicks("go-wall", s, rest) \in Nat /\ Owed(s, rest) \in Nat
  BY <1>3, <1>9, SeriesTicksAre
<1>16. QED BY <1>1, <1>2, <1>8, <1>10, <1>11, <1>12, <1>13, <1>14, <1>15 DEF ds, d, rest

\* Every other step leaves the samples of stacks alone, unless the spool refuses
\* a document.
LEMMA QuietSteps ==
  ASSUME Base, NEW s,
         \/ RecordIOWait \/ FlushTick \/ LoopStops \/ Shutdown \/ ShutdownFlushes
         \/ UNCHANGED vars
         \/ \E p \in Procs : \/ FlushProfiles(p) \/ DrainIO(p) \/ WriteRefused(p)
                             \/ WriteAccepted(p) /\ pc[p] = "writeIO"
  PROVE  /\ InFlight(s) \in Nat /\ TotalOwed(s) \in Nat
         /\ InFlight(s)' \in Nat /\ TotalOwed(s)' \in Nat
         /\ InFlight(s)' <= InFlight(s) /\ TotalOwed(s)' <= TotalOwed(s)
         /\ refused' = TRUE \/ (InFlight(s)' = InFlight(s) /\ UNCHANGED refused)
         /\ UNCHANGED <<buckets, charged, banked>>
<1>1. todo \in [Procs -> Seq(Documents)] /\ refused \in BOOLEAN
  BY DEF Base, TypeOK
<1>2. \A p \in Procs :
        SeriesTicks("go-wall", s, todo[p]) \in Nat /\ Owed(s, todo[p]) \in Nat
  BY TicksTyped
<1>3. ASSUME UNCHANGED todo
      PROVE  /\ InFlight(s) \in Nat /\ TotalOwed(s) \in Nat
             /\ InFlight(s)' = InFlight(s) /\ TotalOwed(s)' = TotalOwed(s)
  BY <1>3, TotalsTyped DEF InFlight, TotalOwed
<1>4. CASE RecordIOWait \/ FlushTick \/ LoopStops \/ Shutdown \/ ShutdownFlushes \/ UNCHANGED vars
  <2>1. UNCHANGED <<todo, buckets, charged, banked, refused>>
    BY <1>4 DEF RecordIOWait, FlushTick, LoopStops, Shutdown, ShutdownFlushes, vars,
                writtenVars, countVars
  <2>2. QED BY <1>3, <2>1
<1>5. ASSUME NEW p \in Procs, FlushProfiles(p)
      PROVE  UNCHANGED <<todo, buckets, charged, banked, refused>>
  BY <1>5 DEF FlushProfiles, writtenVars, countVars
\* What p has in flight is dropped.
<1>6. ASSUME NEW p \in Procs, NEW ds \in Seq(Documents),
             \A i \in DOMAIN ds : ds[i].series = "go-io",
             todo' = [todo EXCEPT ![p] = ds]
      PROVE  /\ InFlight(s) \in Nat /\ TotalOwed(s) \in Nat
             /\ InFlight(s)' \in Nat /\ TotalOwed(s)' \in Nat
             /\ InFlight(s)' <= InFlight(s) /\ TotalOwed(s)' <= TotalOwed(s)
             /\ pc[p] # "writeWall" => InFlight(s)' = InFlight(s)
  <2>1. todo'[p] = ds /\ \A q \in Procs \ {p} : todo'[q] = todo[q]
    BY <1>1, <1>6
  <2>2. SeriesTicks("go-wall", s, todo'[p]) = 0 /\ Owed(s, todo'[p]) = 0
    BY <1>6, <2>1, NoneInFlight
  <2>3. /\ InFlight(s) \in Nat /\ TotalOwed(s) \in Nat
        /\ InFlight(s)' \in Nat /\ TotalOwed(s)' \in Nat
        /\ InFlight(s)' = InFlight(s) + 0 - SeriesTicks("go-wall", s, todo[p])
        /\ TotalOwed(s)' = TotalOwed(s) + 0 - Owed(s, todo[p])
    BY <2>1, <2>2, TotalsChange
  <2>4. SeriesTicks("go-wall", s, todo[p]) \in Nat /\ Owed(s, todo[p]) \in Nat
    BY <1>2
  <2>5. pc[p] # "writeWall" => SeriesTicks("go-wall", s, todo[p]) = 0
    BY TicksTyped
  <2>6. QED BY <2>3, <2>4, <2>5
<1>7. ASSUME NEW p \in Procs, WriteRefused(p)
      PROVE  /\ InFlight(s) \in Nat /\ TotalOwed(s) \in Nat
             /\ InFlight(s)' \in Nat /\ TotalOwed(s)' \in Nat
             /\ InFlight(s)' <= InFlight(s) /\ TotalOwed(s)' <= TotalOwed(s)
             /\ refused' = TRUE
             /\ UNCHANGED <<buckets, charged, banked>>
  <2>1. todo' = [todo EXCEPT ![p] = <<>>] /\ refused' = TRUE
        /\ UNCHANGED <<buckets, charged, banked>>
    BY <1>7 DEF WriteRefused, writtenVars, countVars
  <2>2. <<>> \in Seq(Documents) /\ \A i \in DOMAIN <<>> : <<>>[i].series = "go-io"
    OBVIOUS
  <2>3. QED BY <1>6, <2>1, <2>2
<1>8. ASSUME NEW p \in Procs, DrainIO(p)
      PROVE  /\ InFlight(s) \in Nat /\ TotalOwed(s) \in Nat
             /\ InFlight(s)' \in Nat /\ TotalOwed(s)' \in Nat
             /\ InFlight(s)' = InFlight(s) /\ TotalOwed(s)' <= TotalOwed(s)
             /\ UNCHANGED <<buckets, charged, banked, refused>>
  <2> DEFINE ds == Chunks("go-io", waits)
  <2>1. todo' = [todo EXCEPT ![p] = ds] /\ pc[p] # "writeWall"
        /\ UNCHANGED <<buckets, charged, banked, refused>>
    BY <1>8 DEF DrainIO, writtenVars, countVars
  <2>2. IORest(ds)
    BY WaitsTyped, IODocumentsHold
  <2>3. ds \in Seq(WaitDocuments)
    BY <2>2 DEF IORest
  <2> HIDE DEF ds
  <2>4. ds \in Seq(Documents) /\ \A i \in DOMAIN ds : ds[i].series = "go-io"
    <3>1. \A d \in WaitDocuments : d.series = "go-io"
      BY DEF WaitDocuments
    <3>2. \A i \in DOMAIN ds : ds[i] \in WaitDocuments
      BY <2>3
    <3>3. QED BY <2>3, <3>1, <3>2, DocumentsAre
  <2>5. QED BY <1>6, <2>1, <2>4
<1>9. ASSUME NEW p \in Procs, WriteAccepted(p), pc[p] = "writeIO"
      PROVE  /\ InFlight(s) \in Nat /\ TotalOwed(s) \in Nat
             /\ InFlight(s)' \in Nat /\ TotalOwed(s)' \in Nat
             /\ InFlight(s)' = InFlight(s) /\ TotalOwed(s)' <= TotalOwed(s)
             /\ UNCHANGED <<buckets, charged, banked, refused>>
  <2> DEFINE ds == Tail(todo[p])
  <2>1. todo[p] # <<>> /\ IORest(todo[p]) /\ Head(todo[p]).series = "go-io"
    BY <1>9, HeadsAre
  <2>2. todo' = [todo EXCEPT ![p] = ds] /\ UNCHANGED <<buckets, charged, banked, refused>>
    BY <1>9, <2>1 DEF WriteAccepted, countVars
  <2>3. IORest(ds)
    BY <2>1, IORestTail
  <2>4. ds \in Seq(WaitDocuments)
    BY <2>3 DEF IORest
  <2> HIDE DEF ds
  <2>5. ds \in Seq(Documents) /\ \A i \in DOMAIN ds : ds[i].series = "go-io"
    <3>1. \A d \in WaitDocuments : d.series = "go-io"
      BY DEF WaitDocuments
    <3>2. \A i \in DOMAIN ds : ds[i] \in WaitDocuments
      BY <2>4
    <3>3. QED BY <2>4, <3>1, <3>2, DocumentsAre
  <2>6. QED BY <1>6, <1>9, <2>2, <2>5
<1> HIDE DEF Base
<1>10. ASSUME NEW p \in Procs, FlushProfiles(p)
       PROVE  /\ InFlight(s) \in Nat /\ TotalOwed(s) \in Nat
              /\ InFlight(s)' \in Nat /\ TotalOwed(s)' \in Nat
              /\ InFlight(s)' = InFlight(s) /\ TotalOwed(s)' <= TotalOwed(s)
              /\ UNCHANGED <<buckets, charged, banked, refused>>
  <2>1. UNCHANGED <<todo, buckets, charged, banked, refused>>
    BY <1>5, <1>10
  <2>2. /\ InFlight(s) \in Nat /\ TotalOwed(s) \in Nat
        /\ InFlight(s)' = InFlight(s) /\ TotalOwed(s)' = TotalOwed(s)
    BY <1>3, <2>1
  <2>3. QED BY <2>1, <2>2
<1>11. ASSUME InFlight(s) \in Nat, InFlight(s)' = InFlight(s)
       PROVE  InFlight(s)' <= InFlight(s) /\ InFlight(s)' \in Nat
  BY <1>11
<1>12. ASSUME TotalOwed(s) \in Nat, TotalOwed(s)' = TotalOwed(s)
       PROVE  TotalOwed(s)' <= TotalOwed(s) /\ TotalOwed(s)' \in Nat
  BY <1>12
<1>13. CASE RecordIOWait \/ FlushTick \/ LoopStops \/ Shutdown \/ ShutdownFlushes \/ UNCHANGED vars
  BY <1>4, <1>11, <1>12, <1>13
<1>14. ASSUME NEW p \in Procs,
              \/ FlushProfiles(p) \/ DrainIO(p)
              \/ WriteAccepted(p) /\ pc[p] = "writeIO"
       PROVE  /\ InFlight(s) \in Nat /\ TotalOwed(s) \in Nat
              /\ InFlight(s)' \in Nat /\ TotalOwed(s)' \in Nat
              /\ InFlight(s)' = InFlight(s) /\ TotalOwed(s)' <= TotalOwed(s)
              /\ UNCHANGED <<buckets, charged, banked, refused>>
  BY <1>8, <1>9, <1>10, <1>14
<1>15. CASE \E p \in Procs : \/ FlushProfiles(p) \/ DrainIO(p)
                             \/ WriteAccepted(p) /\ pc[p] = "writeIO"
  BY <1>11, <1>14, <1>15
<1>16. CASE \E p \in Procs : WriteRefused(p)
  BY <1>7, <1>16
<1>17. QED BY <1>13, <1>15, <1>16
-----------------------------------------------------------------------------
(* Wall time is charged once, and off-CPU time is a part of it. *)

\* What is known of the ticks of a stack, but for those that were lost.
Known(s) == TicksIn(buckets, s) + InFlight(s) + charged["go-wall"][s]

StackCharged(s) ==
  /\ s \notin WallStacks => charged["go-wall"][s] = 0
  /\ s \in WallStacks => Known(s) <= banked[s] /\ (~refused => Known(s) = banked[s])

\* The spool shows more wall than off-CPU ticks by those that are owed.
StackOwed(s) == charged["go-offcpu"][s] + TotalOwed(s) <= charged["go-wall"][s]

Charged == Base /\ \A s \in Stacks : StackCharged(s) /\ StackOwed(s)

LEMMA CountersTyped ==
  ASSUME Base, NEW s \in Stacks
  PROVE  /\ TicksIn(buckets, s) \in Nat /\ banked[s] \in Nat /\ refused \in BOOLEAN
         /\ charged["go-wall"][s] \in Nat /\ charged["go-offcpu"][s] \in Nat
<1>1. /\ IsWindow(buckets) /\ banked \in [Stacks -> Nat] /\ refused \in BOOLEAN
      /\ charged \in [StackSeries -> [Stacks -> Nat]]
  BY DEF Base, TypeOK
<1>2. TicksIn(buckets, s) \in Nat
  BY <1>1 DEF TicksIn, IsWindow
<1>3. {"go-wall", "go-offcpu"} = StackSeries
  BY DEF StackSeries
<1>4. QED BY <1>1, <1>2, <1>3

\* A snapshot banks what it adds to the window.
LEMMA SampleCharged ==
  ASSUME Base, NEW s \in Stacks, StackCharged(s), StackOwed(s),
         NEW records \in Snapshots, Sample(records)
  PROVE  StackCharged(s)' /\ StackOwed(s)'
<1>1. /\ UNCHANGED <<todo, charged, refused>>
      /\ banked'[s] = banked[s] + TicksIn(buckets', s) - TicksIn(buckets, s)
  BY DEF Sample, writtenVars
<1>2. InFlight(s)' = InFlight(s) /\ TotalOwed(s)' = TotalOwed(s)
  BY <1>1 DEF InFlight, TotalOwed
<1>3. InFlight(s) \in Nat /\ TotalOwed(s) \in Nat
  BY TotalsTyped
<1>4. records \in Seq(Stacks)
  <2>1. PICK n \in 1..MaxLive : records \in [1..n -> Stacks]
    BY DEF Snapshots
  <2>2. n \in Nat
    BY <2>1, ProfileLimitsAssumption
  <2>3. QED BY <2>1, <2>2
<1>5. buckets \in Windows /\ buckets' = BankAll(buckets, records)
  BY WindowsAre DEF Sample, Base, TypeOK
<1>6. TicksIn(buckets', s) \in Nat
  BY <1>4, <1>5, BankAllGrows
<1>7. /\ TicksIn(buckets, s) \in Nat /\ banked[s] \in Nat
      /\ charged["go-wall"][s] \in Nat
  BY CountersTyped
<1> DEFINE before == TicksIn(buckets, s)
           after == TicksIn(buckets', s)
           flight == InFlight(s)
           wall == charged["go-wall"][s]
           bank == banked[s]
<1>8. Known(s) = before + flight + wall /\ Known(s)' = after + flight + wall
      /\ banked'[s] = bank + after - before
  BY <1>1, <1>2 DEF Known, TicksIn
<1>9. before \in Nat /\ after \in Nat /\ flight \in Nat /\ wall \in Nat /\ bank \in Nat
  BY <1>3, <1>6, <1>7
<1> HIDE DEF before, after, flight, wall, bank
<1>10. /\ Known(s) <= bank => Known(s)' <= banked'[s]
       /\ Known(s) = bank => Known(s)' = banked'[s]
  BY <1>8, <1>9
<1>11. StackCharged(s)'
  BY <1>1, <1>10 DEF StackCharged, bank
<1>12. StackOwed(s)'
  BY <1>1, <1>2 DEF StackOwed
<1>13. QED BY <1>11, <1>12

\* A drain moves the window into documents.
LEMMA DrainCharged ==
  ASSUME Base, NEW s \in Stacks, StackCharged(s), StackOwed(s),
         NEW p \in Procs, DrainWall(p)
  PROVE  StackCharged(s)' /\ StackOwed(s)'
<1>1. UNCHANGED <<charged, banked, refused>> /\ \A q \in Procs \ {p} : todo'[q] = todo[q]
  BY DEF DrainWall, writtenVars, countVars, Base, TypeOK
<1>2. /\ pc[p] = "wall" /\ Owed(s, todo'[p]) = 0 /\ TicksIn(buckets', s) = 0
      /\ SeriesTicks("go-wall", s, todo'[p])
           = IF s \in WallStacks THEN TicksIn(buckets, s) ELSE 0
  BY DrainTicks
<1>3. /\ TicksIn(buckets, s) \in Nat /\ banked[s] \in Nat
      /\ charged["go-wall"][s] \in Nat /\ charged["go-offcpu"][s] \in Nat
  BY CountersTyped
<1>4. SeriesTicks("go-wall", s, todo[p]) = 0 /\ Owed(s, todo[p]) = 0
  BY <1>2, TicksTyped
<1>5. SeriesTicks("go-wall", s, todo'[p]) \in Nat
  BY <1>2, <1>3
<1>6. /\ InFlight(s) \in Nat /\ TotalOwed(s) \in Nat
      /\ InFlight(s)' = InFlight(s) + SeriesTicks("go-wall", s, todo'[p]) - 0
      /\ TotalOwed(s)' = TotalOwed(s) + 0 - 0
  BY <1>1, <1>2, <1>4, <1>5, TotalsChange
<1>7. TicksIn(buckets, s)' = 0
  BY <1>2 DEF TicksIn
<1>8. s \in WallStacks => Known(s)' = Known(s)
  BY <1>1, <1>2, <1>3, <1>6, <1>7 DEF Known
<1>9. StackCharged(s)'
  BY <1>1, <1>8 DEF StackCharged
<1>10. TotalOwed(s)' = TotalOwed(s)
  BY <1>6
<1>11. StackOwed(s)'
  BY <1>1, <1>10 DEF StackOwed
<1>12. QED BY <1>9, <1>11

\* A written document moves its ticks to the spool.
LEMMA WriteCharged ==
  ASSUME Base, NEW s \in Stacks, StackCharged(s), StackOwed(s),
         NEW p \in Procs, WriteAccepted(p), pc[p] = "writeWall"
  PROVE  StackCharged(s)' /\ StackOwed(s)'
<1> DEFINE d == Head(todo[p])
           ticks == TicksOf(s, d)
           before == SeriesTicks("go-wall", s, todo[p])
           after == SeriesTicks("go-wall", s, todo'[p])
           owed == Owed(s, todo[p])
           owes == Owed(s, todo'[p])
           wall == charged["go-wall"][s]
           offcpu == charged["go-offcpu"][s]
<1>1. UNCHANGED <<buckets, banked, refused>> /\ \A q \in Procs \ {p} : todo'[q] = todo[q]
  BY DEF WriteAccepted, countVars, Base, TypeOK
<1>2. /\ ticks \in Nat /\ after \in Nat /\ owes \in Nat
      /\ s \notin WallStacks => ticks = 0
      /\ d.series = "go-wall" \/ d.series = "go-offcpu"
      /\ d.series = "go-wall" => /\ charged'["go-wall"][s] = wall + ticks
                                 /\ charged'["go-offcpu"][s] = offcpu
                                 /\ before = after + ticks
                                 /\ owes <= owed + ticks
      /\ d.series = "go-offcpu" => /\ charged'["go-offcpu"][s] = offcpu + ticks
                                   /\ charged'["go-wall"][s] = wall
                                   /\ before = after
                                   /\ owed = owes + ticks
  BY WriteTicks DEF StackSeries
<1>3. TicksIn(buckets, s) \in Nat /\ banked[s] \in Nat /\ wall \in Nat /\ offcpu \in Nat
  BY CountersTyped
<1>4. before \in Nat /\ owed \in Nat
  BY TicksTyped
<1>5. /\ InFlight(s) \in Nat /\ TotalOwed(s) \in Nat
      /\ InFlight(s)' \in Nat /\ TotalOwed(s)' \in Nat
      /\ InFlight(s)' = InFlight(s) + after - before
      /\ TotalOwed(s)' = TotalOwed(s) + owes - owed
  BY <1>1, <1>2, TotalsChange
<1>6. TicksIn(buckets, s)' = TicksIn(buckets, s)
  BY <1>1 DEF TicksIn
<1> HIDE DEF d, ticks, before, after, owed, owes
<1>7. Known(s)' = Known(s)
  <2>1. /\ Known(s) = TicksIn(buckets, s) + InFlight(s) + wall
        /\ Known(s)' = TicksIn(buckets, s) + InFlight(s)' + charged'["go-wall"][s]
    BY <1>6 DEF Known
  <2> HIDE DEF wall
  <2>2. QED BY <1>2, <1>3, <1>4, <1>5, <2>1
<1>8. s \notin WallStacks => charged'["go-wall"][s] = wall
  <2> HIDE DEF wall, offcpu
  <2>1. QED BY <1>2, <1>3
<1>9. StackCharged(s)'
  BY <1>1, <1>7, <1>8 DEF StackCharged
<1>10. charged'["go-offcpu"][s] + TotalOwed(s)' <= charged'["go-wall"][s]
  <2>1. offcpu + TotalOwed(s) <= wall
    BY DEF StackOwed
  <2> HIDE DEF wall, offcpu
  <2>2. QED BY <1>2, <1>3, <1>4, <1>5, <2>1
<1>11. QED BY <1>9, <1>10 DEF StackOwed

LEMMA QuietCharged ==
  ASSUME Base, NEW s \in Stacks, StackCharged(s), StackOwed(s),
         \/ RecordIOWait \/ FlushTick \/ LoopStops \/ Shutdown \/ ShutdownFlushes
         \/ UNCHANGED vars
         \/ \E p \in Procs : \/ FlushProfiles(p) \/ DrainIO(p) \/ WriteRefused(p)
                             \/ WriteAccepted(p) /\ pc[p] = "writeIO"
  PROVE  StackCharged(s)' /\ StackOwed(s)'
<1>1. /\ InFlight(s) \in Nat /\ TotalOwed(s) \in Nat
      /\ InFlight(s)' \in Nat /\ TotalOwed(s)' \in Nat
      /\ InFlight(s)' <= InFlight(s) /\ TotalOwed(s)' <= TotalOwed(s)
      /\ refused' = TRUE \/ (InFlight(s)' = InFlight(s) /\ UNCHANGED refused)
      /\ UNCHANGED <<buckets, charged, banked>>
  BY QuietSteps
<1>2. /\ TicksIn(buckets, s) \in Nat /\ banked[s] \in Nat
      /\ charged["go-wall"][s] \in Nat /\ charged["go-offcpu"][s] \in Nat
  BY CountersTyped
<1>3. TicksIn(buckets, s)' = TicksIn(buckets, s)
  BY <1>1 DEF TicksIn
<1>4. /\ Known(s) = TicksIn(buckets, s) + InFlight(s) + charged["go-wall"][s]
      /\ Known(s)' = TicksIn(buckets, s) + InFlight(s)' + charged["go-wall"][s]
  BY <1>1, <1>3 DEF Known
<1>5. /\ InFlight(s)' = InFlight(s) => Known(s)' = Known(s)
      /\ Known(s) <= banked[s] => Known(s)' <= banked[s]
  BY <1>1, <1>2, <1>4
<1>6. StackCharged(s)'
  BY <1>1, <1>5 DEF StackCharged
<1>7. charged["go-offcpu"][s] + TotalOwed(s) <= charged["go-wall"][s]
      => charged["go-offcpu"][s] + TotalOwed(s)' <= charged["go-wall"][s]
  BY <1>1, <1>2
<1>8. StackOwed(s)'
  BY <1>1, <1>7 DEF StackOwed
<1>9. QED BY <1>6, <1>8

LEMMA ChargedStep ==
  ASSUME Charged, [Next]_vars
  PROVE  Charged'
<1>1. Base'
  BY BaseStep DEF Charged
<1>2. ASSUME NEW s \in Stacks PROVE StackCharged(s)' /\ StackOwed(s)'
  <2>1. Base /\ StackCharged(s) /\ StackOwed(s)
    BY DEF Charged
  <2>2. CASE \E records \in Snapshots : Sample(records)
    BY <2>1, <2>2, SampleCharged
  <2>3. CASE \E p \in Procs : DrainWall(p)
    BY <2>1, <2>3, DrainCharged
  <2>4. CASE \E p \in Procs : WriteAccepted(p) /\ pc[p] = "writeWall"
    BY <2>1, <2>4, WriteCharged
  <2>5. CASE \/ RecordIOWait \/ FlushTick \/ LoopStops \/ Shutdown \/ ShutdownFlushes
             \/ UNCHANGED vars
             \/ \E p \in Procs : \/ FlushProfiles(p) \/ DrainIO(p) \/ WriteRefused(p)
                                 \/ WriteAccepted(p) /\ pc[p] = "writeIO"
    BY <2>1, <2>5, QuietCharged
  <2>6. \A p \in Procs : WriteAccepted(p) => pc[p] = "writeWall" \/ pc[p] = "writeIO"
    BY DEF WriteAccepted
  <2>7. QED BY <2>2, <2>3, <2>4, <2>5, <2>6 DEF Next, Flush
<1>3. (\A s \in Stacks : StackCharged(s) /\ StackOwed(s))'
  BY <1>2
<1>4. QED BY <1>1, <1>3 DEF Charged

LEMMA ChargedInit == Init => Charged
<1> SUFFICES ASSUME Init PROVE Charged
  OBVIOUS
<1>1. Base
  BY BaseInit
<1>2. ASSUME NEW s \in Stacks PROVE StackCharged(s) /\ StackOwed(s)
  <2>1. /\ charged["go-wall"][s] = 0 /\ charged["go-offcpu"][s] = 0 /\ banked[s] = 0
        /\ TicksIn(buckets, s) = 0 /\ \A p \in Procs : todo[p] = <<>> /\ pc[p] = "idle"
    BY DEF Init, StackSeries, TicksIn, NoBuckets
  <2> DEFINE f == [p \in Procs |-> SeriesTicks("go-wall", s, todo[p])]
             g == [p \in Procs |-> Owed(s, todo[p])]
  <2>2. \A p \in Procs : SeriesTicks("go-wall", s, todo[p]) = 0 /\ Owed(s, todo[p]) = 0
    BY <1>1, <2>1, TicksTyped
  <2>3. /\ f \in [Procs -> Int] /\ DOMAIN f = Procs /\ \A p \in Procs : f[p] = 0
        /\ g \in [Procs -> Int] /\ DOMAIN g = Procs /\ \A p \in Procs : g[p] = 0
    BY <2>2
  <2>4. InFlight(s) = SumFunctionOnSet(f, Procs) /\ TotalOwed(s) = SumFunctionOnSet(g, Procs)
    BY <2>3 DEF InFlight, TotalOwed, SumFunction
  <2> HIDE DEF f, g
  <2>5. InFlight(s) = 0 /\ TotalOwed(s) = 0
    BY <2>3, <2>4, StacksFinite, SumOfZeros
  <2>6. Known(s) = 0
    BY <2>1, <2>5 DEF Known
  <2>7. QED BY <2>1, <2>5, <2>6 DEF StackCharged, StackOwed
<1>3. QED BY <1>1, <1>2 DEF Charged

\* However the flushes of wallLoop, FlushProfiles and Shutdown interleave, a tick
\* banked for an application stack reaches at most one WALL document, and is lost
\* only when the spool refuses one (drain, flushWallProfiles).
THEOREM WallChargedOnce == Spec => []ChargedOnce
<1>1. Charged => ChargedOnce
  BY DEF Charged, StackCharged, Known, ChargedOnce
<1>2. QED BY <1>1, ChargedInit, ChargedStep, PTL DEF Spec

\* The spool never shows more off-CPU than wall ticks for a stack, whichever
\* writes fail: flushWallProfiles writes the WALL documents first.
THEOREM OffCPUIsWall == Spec => []OffCPUWithinWall
<1>1. Charged => OffCPUWithinWall
  <2> SUFFICES ASSUME Charged, NEW s \in Stacks
               PROVE  charged["go-offcpu"][s] <= charged["go-wall"][s]
    BY DEF OffCPUWithinWall
  <2>1. Base /\ StackOwed(s)
    BY DEF Charged
  <2>2. TotalOwed(s) \in Nat
    BY <2>1, TotalsTyped
  <2>3. charged["go-wall"][s] \in Nat /\ charged["go-offcpu"][s] \in Nat
    BY <2>1, CountersTyped
  <2>4. QED BY <2>1, <2>2, <2>3 DEF StackOwed
<1>2. QED BY <1>1, ChargedInit, ChargedStep, PTL DEF Spec
-----------------------------------------------------------------------------
(* Where a wait is. *)

Buffered(w) == \E i \in DOMAIN waits : waits[i].wait = w

HeldBy(p, w) == pc[p] = "writeIO" /\ \E i \in DOMAIN todo[p] : Holds(todo[p][i], w)

\* A wait is in one place at most, and a call not yet made has none.
WaitPlaced(w) ==
  /\ spooled[w] \in {0, 1}
  /\ Buffered(w) => spooled[w] = 0 /\ \A p \in Procs : ~HeldBy(p, w)
  /\ \A p \in Procs : HeldBy(p, w) => spooled[w] = 0
  /\ \A p, q \in Procs : HeldBy(p, w) /\ HeldBy(q, w) => p = q
  /\ w > recorded => spooled[w] = 0 /\ \A p \in Procs : ~HeldBy(p, w)

Placed == Base /\ \A w \in 1..MaxInputs : WaitPlaced(w)

\* A wait stays where it is, or is lost.
LEMMA WaitStays ==
  ASSUME Base, NEW w \in 1..MaxInputs, WaitPlaced(w),
         Buffered(w)' => Buffered(w), \A p \in Procs : HeldBy(p, w)' => HeldBy(p, w),
         spooled'[w] = spooled[w], UNCHANGED recorded
  PROVE  WaitPlaced(w)'
<1>1. spooled'[w] \in {0, 1}
  BY DEF WaitPlaced
<1>2. Buffered(w)' => spooled'[w] = 0 /\ \A p \in Procs : ~HeldBy(p, w)'
  BY DEF WaitPlaced
<1>3. \A p \in Procs : HeldBy(p, w)' => spooled'[w] = 0
  BY DEF WaitPlaced
<1>4. ASSUME NEW p \in Procs, NEW q \in Procs, HeldBy(p, w)', HeldBy(q, w)'
      PROVE  p = q
  BY <1>4 DEF WaitPlaced
<1>5. w > recorded' => spooled'[w] = 0 /\ \A p \in Procs : ~HeldBy(p, w)'
  BY DEF WaitPlaced
<1> HIDE DEF Base, Buffered, HeldBy
<1>6. QED BY <1>1, <1>2, <1>3, <1>4, <1>5 DEF WaitPlaced

\* Goroutine p goes to a place where it holds no waits.
LEMMA HoldersLeave ==
  ASSUME Base, NEW w, NEW p \in Procs, NEW loc, loc # "writeIO", Goto(p, loc),
         \A q \in Procs \ {p} : todo'[q] = todo[q]
  PROVE  \A q \in Procs : HeldBy(q, w)' => HeldBy(q, w)
<1>1. pc \in [Procs -> Locations]
  BY DEF Base, TypeOK, Locations
<1>2. pc'[p] = loc /\ \A q \in Procs \ {p} : pc'[q] = pc[q]
  BY <1>1 DEF Goto
<1>3. QED BY <1>2 DEF HeldBy

\* RecordIOWait names the wait by a call that is new.
LEMMA RecordPlaced ==
  ASSUME Base, NEW w \in 1..MaxInputs, WaitPlaced(w), RecordIOWait
  PROVE  WaitPlaced(w)'
<1>1. /\ UNCHANGED <<pc, todo, spooled>> /\ recorded \in Nat /\ recorded' = recorded + 1
      /\ waits' = IF Len(waits) < IOMaxSamples THEN Append(waits, [wait |-> recorded'])
                  ELSE waits
  BY DEF RecordIOWait, writtenVars, Base, TypeOK
<1>2. \A p \in Procs : HeldBy(p, w)' <=> HeldBy(p, w)
  BY <1>1 DEF HeldBy
<1>3. Buffered(w)' => Buffered(w) \/ w = recorded'
  <2>1. CASE ~(Len(waits) < IOMaxSamples)
    BY <1>1, <2>1 DEF Buffered
  <2>2. CASE Len(waits) < IOMaxSamples
    <3> DEFINE e == [wait |-> recorded']
    <3>1. waits' = Append(waits, e) /\ e.wait = recorded' /\ e \in [wait : {recorded'}]
      BY <1>1, <2>2
    <3> HIDE DEF e
    <3>2. waits \in Seq(WaitSamples) /\ DOMAIN waits = 1..Len(waits) /\ Len(waits) \in Nat
      BY WaitsTyped
    <3>3. /\ DOMAIN waits' = 1..(Len(waits) + 1)
          /\ \A i \in 1..Len(waits) : waits'[i] = waits[i]
          /\ waits'[Len(waits) + 1] = e
      BY <3>1, <3>2
    <3>4. \A i \in DOMAIN waits' : i \in DOMAIN waits \/ i = Len(waits) + 1
      BY <3>2, <3>3
    <3>5. QED BY <3>1, <3>2, <3>3, <3>4 DEF Buffered
  <2>3. QED BY <2>1, <2>2
<1>4. w \in Nat /\ (w > recorded' => w > recorded) /\ (w = recorded' => w > recorded)
  BY <1>1, ProfileLimitsAssumption
<1>5. spooled'[w] = spooled[w]
  BY <1>1
<1>6. Buffered(w)' => spooled'[w] = 0 /\ \A p \in Procs : ~HeldBy(p, w)'
  BY <1>2, <1>3, <1>4, <1>5 DEF WaitPlaced
<1>7. /\ spooled'[w] \in {0, 1}
      /\ \A p \in Procs : HeldBy(p, w)' => spooled'[w] = 0
      /\ \A p, q \in Procs : HeldBy(p, w)' /\ HeldBy(q, w)' => p = q
      /\ w > recorded' => spooled'[w] = 0 /\ \A p \in Procs : ~HeldBy(p, w)'
  BY <1>2, <1>4, <1>5 DEF WaitPlaced
<1> HIDE DEF Base, Buffered, HeldBy
<1>8. QED BY <1>6, <1>7 DEF WaitPlaced

\* drain moves the waits from the buffer to the flush.
LEMMA DrainPlaced ==
  ASSUME Base, NEW w \in 1..MaxInputs, WaitPlaced(w), NEW p \in Procs, DrainIO(p)
  PROVE  WaitPlaced(w)'
<1> DEFINE ds == Chunks("go-io", waits)
           loc == IF waits = <<>> THEN IF p = Loop THEN IF stopping THEN "exited" ELSE "idle"
                                       ELSE "returned"
                  ELSE "writeIO"
<1>1. /\ todo' = [todo EXCEPT ![p] = ds] /\ waits' = <<>> /\ UNCHANGED <<spooled, recorded>>
      /\ Goto(p, loc) /\ pc[p] = "io"
  BY DEF DrainIO, writtenVars, countVars, FlushReturns
<1>2. pc \in [Procs -> Locations] /\ todo \in [Procs -> Seq(Documents)]
  BY DEF Base, TypeOK, Locations
<1>3. \A i \in DOMAIN ds : \A v : Holds(ds[i], v) => \E k \in DOMAIN waits : waits[k].wait = v
  BY WaitsTyped, IODocumentsHold
<1>4. ~Buffered(w)'
  BY <1>1 DEF Buffered
<1> HIDE DEF ds, loc
<1>5. HeldBy(p, w)' => Buffered(w)
  BY <1>1, <1>2, <1>3 DEF HeldBy, Buffered
<1>6. \A q \in Procs \ {p} : HeldBy(q, w)' <=> HeldBy(q, w)
  BY <1>1, <1>2 DEF HeldBy, Goto
<1>7. spooled'[w] = spooled[w] /\ UNCHANGED recorded
  BY <1>1
<1>8. w > recorded => ~Buffered(w)
  <2>1. \A i \in DOMAIN waits : waits[i].wait \in 1..recorded
    BY WaitsTyped
  <2>2. recorded \in Nat /\ w \in Nat
    BY ProfileLimitsAssumption DEF Base, TypeOK
  <2>3. QED BY <2>1, <2>2 DEF Buffered
<1> HIDE DEF Base, Buffered, HeldBy
<1>9. /\ spooled'[w] \in {0, 1}
      /\ Buffered(w)' => spooled'[w] = 0 /\ \A q \in Procs : ~HeldBy(q, w)'
  BY <1>4, <1>7 DEF WaitPlaced
<1>10. ASSUME NEW q \in Procs, HeldBy(q, w)' PROVE spooled'[w] = 0 /\ ~(w > recorded')
  BY <1>5, <1>6, <1>7, <1>8, <1>10 DEF WaitPlaced
<1>11. ASSUME NEW q \in Procs, NEW r \in Procs, HeldBy(q, w)', HeldBy(r, w)' PROVE q = r
  BY <1>5, <1>6, <1>11 DEF WaitPlaced
<1>12. w > recorded' => spooled'[w] = 0 /\ \A q \in Procs : ~HeldBy(q, w)'
  BY <1>7, <1>10 DEF WaitPlaced
<1>13. QED BY <1>9, <1>10, <1>11, <1>12 DEF WaitPlaced

LEMMA SampleNamed ==
  ASSUME NEW d \in WaitDocuments, NEW w
  PROVE  [wait |-> w] \in ToSet(d.samples) <=> Holds(d, w)
<1>1. d.samples \in Seq(WaitSamples)
  BY DEF WaitDocuments
<1>2. \A j \in DOMAIN d.samples : d.samples[j] \in WaitSamples
  BY <1>1
<1>3. \A x \in WaitSamples : x = [wait |-> w] <=> x.wait = w
  BY DEF WaitSamples
<1>4. QED BY <1>2, <1>3 DEF ToSet, Holds

\* A written document moves its waits from the flush to the spool.
LEMMA WritePlaced ==
  ASSUME Base, NEW w \in 1..MaxInputs, WaitPlaced(w),
         NEW p \in Procs, WriteAccepted(p), pc[p] = "writeIO"
  PROVE  WaitPlaced(w)'
<1> DEFINE d == Head(todo[p])
           rest == Tail(todo[p])
<1>1. /\ todo[p] # <<>> /\ IORest(todo[p]) /\ d.series = "go-io" /\ d \in WaitDocuments
      /\ \A i \in DOMAIN rest : i + 1 \in DOMAIN todo[p] /\ rest[i] = todo[p][i + 1]
      /\ \A i \in DOMAIN rest : \A v : ~(Holds(rest[i], v) /\ Holds(d, v))
  BY HeadsAre, IORestTail
<1>2. pc \in [Procs -> Locations] /\ todo \in [Procs -> Seq(Documents)]
  BY DEF Base, TypeOK, Locations
<1>3. /\ todo' = [todo EXCEPT ![p] = rest] /\ UNCHANGED <<waits, recorded>>
      /\ spooled'[w] = spooled[w] + IF [wait |-> w] \in ToSet(d.samples) THEN 1 ELSE 0
  BY <1>1 DEF WriteAccepted, countVars
<1>4. todo'[p] = rest /\ \A q \in Procs \ {p} : todo'[q] = todo[q]
  BY <1>2, <1>3
<1>5. \A q \in Procs \ {p} : pc'[q] = pc[q]
  BY <1>2 DEF WriteAccepted, Goto, FlushReturns
<1>6. spooled'[w] = spooled[w] + IF Holds(d, w) THEN 1 ELSE 0
  BY <1>1, <1>3, SampleNamed
<1>7. Holds(d, w) => HeldBy(p, w)
  <2>1. d = todo[p][1] /\ 1 \in DOMAIN todo[p]
    BY <1>1, <1>2
  <2> HIDE DEF d
  <2>2. QED BY <2>1 DEF HeldBy
<1> HIDE DEF d, rest
<1>8. HeldBy(p, w)' => HeldBy(p, w) /\ ~Holds(d, w)
  BY <1>1, <1>4 DEF HeldBy
<1>9. \A q \in Procs \ {p} : HeldBy(q, w)' <=> HeldBy(q, w)
  BY <1>4, <1>5 DEF HeldBy
<1>10. (Buffered(w)' <=> Buffered(w)) /\ recorded' = recorded
  BY <1>3 DEF Buffered
<1> HIDE DEF Base, Buffered, HeldBy
<1>11. CASE Holds(d, w)
  <2>1. spooled[w] = 0 /\ spooled'[w] = 1
    BY <1>6, <1>7, <1>11 DEF WaitPlaced
  <2>2. \A q \in Procs : ~HeldBy(q, w)'
    BY <1>7, <1>8, <1>9, <1>11 DEF WaitPlaced
  <2>3. ~Buffered(w)' /\ ~(w > recorded')
    BY <1>7, <1>10, <1>11 DEF WaitPlaced
  <2>4. QED BY <2>1, <2>2, <2>3 DEF WaitPlaced
<1>12. CASE ~Holds(d, w)
  <2>1. spooled'[w] = spooled[w]
    <3>1. spooled[w] \in {0, 1}
      BY DEF WaitPlaced
    <3>2. QED BY <1>6, <1>12, <3>1
  <2>2. QED BY <1>8, <1>9, <1>10, <2>1, WaitStays DEF Base
<1>13. QED BY <1>11, <1>12

LEMMA OthersPlaced ==
  ASSUME Base, NEW w \in 1..MaxInputs, WaitPlaced(w),
         \/ \E records \in Snapshots : Sample(records)
         \/ FlushTick \/ LoopStops \/ Shutdown \/ ShutdownFlushes \/ UNCHANGED vars
         \/ \E p \in Procs : \/ FlushProfiles(p) \/ DrainWall(p) \/ WriteRefused(p)
                             \/ WriteAccepted(p) /\ pc[p] = "writeWall"
  PROVE  WaitPlaced(w)'
<1>1. SUFFICES /\ UNCHANGED <<waits, recorded, spooled>>
               /\ \A q \in Procs : HeldBy(q, w)' => HeldBy(q, w)
  <2>1. ASSUME UNCHANGED <<waits, recorded, spooled>> PROVE Buffered(w)' => Buffered(w)
    BY <2>1 DEF Buffered
  <2>2. QED BY <2>1, WaitStays
<1>2. Loop \in Procs /\ Main \in Procs
  BY DEF Procs
<1>3. todo \in [Procs -> Seq(Documents)]
  BY DEF Base, TypeOK
<1>4. CASE (\E records \in Snapshots : Sample(records)) \/ UNCHANGED vars
  <2>1. UNCHANGED <<pc, todo, waits, recorded, spooled>>
    BY <1>4 DEF Sample, vars, writtenVars, countVars
  <2>2. QED BY <2>1 DEF HeldBy
<1>5. CASE FlushTick \/ LoopStops
  <2>1. UNCHANGED <<todo, waits, recorded, spooled>> /\ Goto(Loop, "wall")
    BY <1>5 DEF FlushTick, LoopStops, writtenVars, countVars
  <2>2. QED BY <1>2, <2>1, HoldersLeave
<1>6. CASE Shutdown
  <2>1. UNCHANGED <<todo, waits, recorded, spooled>> /\ Goto(Main, "wait")
    BY <1>6 DEF Shutdown, writtenVars, countVars
  <2>2. QED BY <1>2, <2>1, HoldersLeave
<1>7. CASE ShutdownFlushes
  <2>1. UNCHANGED <<todo, waits, recorded, spooled>>
        /\ (Goto(Main, "wall") \/ Goto(Main, "failed"))
    BY <1>7 DEF ShutdownFlushes, writtenVars, countVars
  <2>2. QED BY <1>2, <2>1, HoldersLeave
<1>8. ASSUME NEW p \in Procs, FlushProfiles(p)
      PROVE  /\ UNCHANGED <<waits, recorded, spooled>>
             /\ \A q \in Procs : HeldBy(q, w)' => HeldBy(q, w)
  <2>1. UNCHANGED <<todo, waits, recorded, spooled>> /\ Goto(p, "wall")
    BY <1>8 DEF FlushProfiles, writtenVars, countVars
  <2>2. QED BY <2>1, HoldersLeave
<1>9. ASSUME NEW p \in Procs, DrainWall(p)
      PROVE  /\ UNCHANGED <<waits, recorded, spooled>>
             /\ \A q \in Procs : HeldBy(q, w)' => HeldBy(q, w)
  <2> DEFINE loc == IF todo'[p] = <<>> THEN "io" ELSE "writeWall"
  <2>1. UNCHANGED <<waits, recorded, spooled>> /\ Goto(p, loc) /\ loc # "writeIO"
    BY <1>9 DEF DrainWall, writtenVars, countVars
  <2>2. \A q \in Procs \ {p} : todo'[q] = todo[q]
    BY <1>3, <1>9 DEF DrainWall
  <2> HIDE DEF loc
  <2>3. QED BY <2>1, <2>2, HoldersLeave
<1>10. ASSUME NEW p \in Procs, WriteRefused(p)
       PROVE  /\ UNCHANGED <<waits, recorded, spooled>>
              /\ \A q \in Procs : HeldBy(q, w)' => HeldBy(q, w)
  <2> DEFINE loc == IF p = Loop /\ pc[p] = "writeWall" THEN "io"
                    ELSE IF p = Loop THEN IF stopping THEN "exited" ELSE "idle"
                    ELSE "failed"
  <2>1. UNCHANGED <<waits, recorded, spooled>> /\ Goto(p, loc) /\ loc # "writeIO"
    BY <1>10 DEF WriteRefused, FlushReturns, writtenVars, countVars
  <2>2. \A q \in Procs \ {p} : todo'[q] = todo[q]
    BY <1>3, <1>10 DEF WriteRefused
  <2> HIDE DEF loc
  <2>3. QED BY <2>1, <2>2, HoldersLeave
<1>11. ASSUME NEW p \in Procs, WriteAccepted(p), pc[p] = "writeWall"
       PROVE  /\ UNCHANGED <<waits, recorded, spooled>>
              /\ \A q \in Procs : HeldBy(q, w)' => HeldBy(q, w)
  <2> DEFINE loc == IF todo'[p] # <<>> THEN "writeWall" ELSE "io"
  <2>1. Head(todo[p]).series # "go-io"
    BY <1>11, HeadsAre
  <2>2. UNCHANGED <<waits, recorded, spooled>>
    BY <1>11, <2>1 DEF WriteAccepted, countVars
  <2>3. Goto(p, loc)
    <3>1. pc \in [Procs -> Locations]
      BY DEF Base, TypeOK, Locations
    <3>2. [pc EXCEPT ![p] = pc[p]] = pc
      BY <3>1
    <3>3. QED BY <1>11, <3>2 DEF WriteAccepted, Goto
  <2>4. \A q \in Procs \ {p} : todo'[q] = todo[q]
    BY <1>3, <1>11 DEF WriteAccepted
  <2>5. loc # "writeIO"
    OBVIOUS
  <2> HIDE DEF loc
  <2>6. QED BY <2>2, <2>3, <2>4, <2>5, HoldersLeave
<1> HIDE DEF Base, HeldBy
<1>12. QED BY <1>4, <1>5, <1>6, <1>7, <1>8, <1>9, <1>10, <1>11

LEMMA PlacedStep ==
  ASSUME Placed, [Next]_vars
  PROVE  Placed'
<1>1. Base'
  BY BaseStep DEF Placed
<1>2. ASSUME NEW w \in 1..MaxInputs PROVE WaitPlaced(w)'
  <2>1. Base /\ WaitPlaced(w)
    BY DEF Placed
  <2>2. CASE RecordIOWait
    BY <2>1, <2>2, RecordPlaced
  <2>3. CASE \E p \in Procs : DrainIO(p)
    BY <2>1, <2>3, DrainPlaced
  <2>4. CASE \E p \in Procs : WriteAccepted(p) /\ pc[p] = "writeIO"
    BY <2>1, <2>4, WritePlaced
  <2>5. CASE \/ \E records \in Snapshots : Sample(records)
             \/ FlushTick \/ LoopStops \/ Shutdown \/ ShutdownFlushes \/ UNCHANGED vars
             \/ \E p \in Procs : \/ FlushProfiles(p) \/ DrainWall(p) \/ WriteRefused(p)
                                 \/ WriteAccepted(p) /\ pc[p] = "writeWall"
    BY <2>1, <2>5, OthersPlaced
  <2>6. \A p \in Procs : WriteAccepted(p) => pc[p] = "writeWall" \/ pc[p] = "writeIO"
    BY DEF WriteAccepted
  <2>7. QED BY <2>2, <2>3, <2>4, <2>5, <2>6 DEF Next, Flush
<1>3. (\A w \in 1..MaxInputs : WaitPlaced(w))'
  BY <1>2
<1>4. QED BY <1>1, <1>3 DEF Placed

LEMMA PlacedInit == Init => Placed
<1> SUFFICES ASSUME Init PROVE Placed
  OBVIOUS
<1>1. Base
  BY BaseInit
<1>2. ASSUME NEW w \in 1..MaxInputs PROVE WaitPlaced(w)
  <2>1. spooled[w] = 0 /\ waits = <<>> /\ \A p \in Procs : pc[p] = "idle"
    BY DEF Init
  <2>2. ~Buffered(w) /\ \A p \in Procs : ~HeldBy(p, w)
    BY <2>1 DEF Buffered, HeldBy
  <2> HIDE DEF Buffered, HeldBy
  <2>3. QED BY <2>1, <2>2 DEF WaitPlaced
<1>3. QED BY <1>1, <1>2 DEF Placed

\* Only a flush of the recorder has waits to write.
LEMMA HoldersAre ==
  ASSUME Base, NEW p \in Procs, NEW w
  PROVE  [wait |-> w] \in HeldWaits(p) <=> HeldBy(p, w)
<1>1. HeldWaits(p) = UNION {ToSet(todo[p][i].samples) :
                              i \in {j \in 1..Len(todo[p]) : todo[p][j].series = "go-io"}}
  BY DEF HeldWaits
<1>2. CASE pc[p] = "writeIO"
  <2>1. todo[p] \in Seq(WaitDocuments)
    BY <1>2, HeadsAre DEF IORest
  <2>2. /\ DOMAIN todo[p] = 1..Len(todo[p])
        /\ \A i \in DOMAIN todo[p] : todo[p][i] \in WaitDocuments
    BY <2>1
  <2>3. \A i \in DOMAIN todo[p] : todo[p][i].series = "go-io"
    BY <2>2 DEF WaitDocuments
  <2>4. \A i \in DOMAIN todo[p] :
          [wait |-> w] \in ToSet(todo[p][i].samples) <=> Holds(todo[p][i], w)
    BY <2>2, SampleNamed
  <2>5. QED BY <1>1, <1>2, <2>2, <2>3, <2>4 DEF HeldBy
<1>3. CASE pc[p] # "writeIO"
  <2>1. \A j \in 1..Len(todo[p]) : todo[p][j].series # "go-io"
    <3>1. CASE pc[p] = "writeWall"
      <4>1. todo[p] \in Seq(StackDocuments)
        BY <3>1, HeadsAre DEF WallRest
      <4>2. \A j \in 1..Len(todo[p]) : todo[p][j] \in StackDocuments
        BY <4>1
      <4>3. QED BY <4>2 DEF StackDocuments, StackSeries
    <3>2. CASE pc[p] # "writeWall"
      <4>1. todo[p] = <<>>
        BY <1>3, <3>2 DEF Base, Pending
      <4>2. QED BY <4>1
    <3>3. QED BY <3>1, <3>2
  <2>2. QED BY <1>1, <1>3, <2>1 DEF HeldBy
<1>4. QED BY <1>2, <1>3

\* A set with no two elements counts one at most.
LEMMA CountOfOne ==
  ASSUME NEW S, \A x, y \in S : x = y
  PROVE  /\ Cardinality(S) \in {0, 1}
         /\ S = {} => Cardinality(S) = 0
<1>1. CASE S = {}
  BY <1>1, FS_EmptySet
<1>2. CASE S # {}
  <2>1. PICK x \in S : S = {x}
    BY <1>2
  <2>2. QED BY <1>2, <2>1, FS_Singleton
<1>3. QED BY <1>1, <1>2

\* A measured wait is in one place at most, the buffer, a flush or the spool,
\* and in the spool once (recordIOWait, drain, flushIOProfiles).
THEOREM WaitsKeptOnce == Spec => []WaitsOnce
<1>1. Placed => WaitsOnce
  <2> SUFFICES ASSUME Placed, NEW w \in 1..MaxInputs
               PROVE  Cardinality({i \in 1..Len(waits) : waits[i].wait = w})
                        + Cardinality({p \in Procs : [wait |-> w] \in HeldWaits(p)})
                        + spooled[w] <= 1
    BY DEF WaitsOnce
  <2> DEFINE B == {i \in 1..Len(waits) : waits[i].wait = w}
             H == {p \in Procs : [wait |-> w] \in HeldWaits(p)}
  <2>1. Base /\ WaitPlaced(w)
    BY DEF Placed
  <2>2. H = {p \in Procs : HeldBy(p, w)}
    BY <2>1, HoldersAre
  <2>3. DOMAIN waits = 1..Len(waits)
        /\ \A i, k \in DOMAIN waits : waits[i].wait = waits[k].wait => i = k
    BY <2>1, WaitsTyped
  <2>4. (\A i, k \in B : i = k) /\ (B # {} => Buffered(w))
    BY <2>3 DEF Buffered
  <2>5. \A p, q \in H : p = q
    BY <2>1, <2>2 DEF WaitPlaced
  <2>6. /\ spooled[w] \in {0, 1}
        /\ B # {} => spooled[w] = 0 /\ H = {}
        /\ H # {} => spooled[w] = 0
    BY <2>1, <2>2, <2>4 DEF WaitPlaced
  <2> HIDE DEF B, H
  <2>7. Cardinality(B) \in {0, 1} /\ (B = {} => Cardinality(B) = 0)
    BY <2>4, CountOfOne
  <2>8. Cardinality(H) \in {0, 1} /\ (H = {} => Cardinality(H) = 0)
    BY <2>5, CountOfOne
  <2>9. Cardinality(B) + Cardinality(H) + spooled[w] <= 1
    BY <2>6, <2>7, <2>8
  <2>10. QED BY <2>9 DEF B, H
<1>2. QED BY <1>1, PlacedInit, PlacedStep, PTL DEF Spec
=============================================================================
