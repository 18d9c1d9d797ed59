----------------------------- MODULE MCSequences -----------------------------
(***************************************************************************)
(* The compressed sequences of ds2i together: the sequences with a cursor, *)
(* the partition of one (OptimalPartition), and the collections and        *)
(* indexes of several.  `part' is what a behaviour is about; the variables *)
(* of the others are not used in it.  The inputs of each part are          *)
(* constants; those that TLC is given are defined at the end.              *)
(***************************************************************************)
EXTENDS PartitionedSequence         \* whose Inputs are those of its part

CONSTANTS
    PartitionInputs, FixCost, Factor, Lookahead,                    \* of OptimalPartition
    SortedInputs, LogSampling0, LogSampling1, LinearScanThreshold,  \* of EliasFano
    IncreasingInputs,                                               \* of strict_elias_fano
    BitvectorInputs, LogRank1Sampling,                              \* of RankedBitvector
    IndexedInputs, Params, NoSampling, Infinity,                    \* of IndexedSequence
    Lists, NumDocs, MaxLists, Garbage,                              \* of FreqIndex
    CollectionInputs, MaxSequences                                  \* of SequenceCollection

VARIABLES
    part,
    bounds, windowEnds, start, window, lastEnd, minCost, path,      \* of OptimalPartition
    written, bits, lows, pointers0, pointers1, rank1, enum, original,
    strict, params, typeBit, appended, type, cursor,                \* of IndexedSequence
    added, built, docs, freqs, reader, freq, stored, read           \* of the collections

Optimal == INSTANCE OptimalPartition WITH Inputs <- PartitionInputs, ends <- windowEnds
Plain == INSTANCE EliasFano WITH Inputs <- SortedInputs
Ranked == INSTANCE RankedBitvector WITH Inputs <- BitvectorInputs
Indexed == INSTANCE IndexedSequence WITH Inputs <- IndexedInputs, size <- appended
Index == INSTANCE FreqIndex
Collection == INSTANCE SequenceCollection WITH Inputs <- CollectionInputs

ASSUME SequencesAssumption ==
    /\ PartitionedAssumption /\ InputsAssumption
    /\ Optimal!InputsAssumption /\ Optimal!CostsAssumption
    /\ Plain!EliasFanoAssumption /\ Plain!InputsAssumption
    /\ Ranked!RankedBitvectorAssumption /\ Ranked!InputsAssumption
    /\ Indexed!InputsAssumption /\ Indexed!SizesAssumption
    /\ Index!FreqIndexAssumption /\ Index!ListsAssumption
    /\ Collection!InputsAssumption
    /\ \A s \in IncreasingInputs : Abstract!IsIncreasing(s)

optimalVars == <<bounds, windowEnds, start, window, lastEnd, minCost, path>>
eliasFanoVars == <<lows, pointers0>>
sampledVars == <<written, bits, pointers1, enum>>                   \* of EliasFano and RankedBitvector
indexedVars == <<strict, params, typeBit, appended, type, cursor>>
partitionedVars == <<uniform, cuts, file, e>>
bothVars == <<added, built>>                                        \* of both collections
indexVars == <<docs, freqs, reader, freq>>
collectionVars == <<stored, read>>
mcvars == <<part, sequence, phase, call, original, rank1, optimalVars, eliasFanoVars, sampledVars,
            indexedVars, partitionedVars, bothVars, indexVars, collectionVars>>

Unused(v) == v = "unused"
NotCalled == call = <<"none", 0>>
OptimalUnused ==
    /\ Unused(bounds) /\ Unused(windowEnds) /\ Unused(start) /\ Unused(window) /\ Unused(lastEnd)
    /\ Unused(minCost) /\ Unused(path)
SampledUnused == Unused(written) /\ Unused(bits) /\ Unused(pointers1) /\ Unused(enum)
EliasFanoUnused == Unused(lows) /\ Unused(pointers0)
IndexedUnused ==
    /\ Unused(strict) /\ Unused(params) /\ Unused(typeBit) /\ Unused(appended) /\ Unused(type)
    /\ Unused(cursor)
PartitionedUnused == Unused(uniform) /\ Unused(cuts) /\ Unused(file) /\ Unused(e)
CollectionsUnused ==
    /\ Unused(added) /\ Unused(built) /\ Unused(docs) /\ Unused(freqs) /\ Unused(reader) /\ Unused(freq)
    /\ Unused(stored) /\ Unused(read)

OptimalInit ==
    /\ part = "optimal_partition" /\ Optimal!Init
    /\ NotCalled /\ Unused(original) /\ Unused(rank1) /\ SampledUnused /\ EliasFanoUnused
    /\ IndexedUnused /\ PartitionedUnused /\ CollectionsUnused

SampledInit ==
    /\ \/ part = "elias_fano" /\ Plain!Init /\ Unused(original) /\ Unused(rank1)
       \/ part = "strict_elias_fano" /\ original \in IncreasingInputs
          /\ Plain!StrictInit(original) /\ Unused(rank1)
       \/ part = "ranked_bitvector" /\ Ranked!Init /\ Unused(original) /\ EliasFanoUnused
    /\ OptimalUnused /\ IndexedUnused /\ PartitionedUnused /\ CollectionsUnused

LaidOutInit ==
    /\ \/ part = "indexed" /\ Indexed!Init /\ PartitionedUnused
       \/ part = "partitioned" /\ Init /\ IndexedUnused
    /\ OptimalUnused /\ Unused(original) /\ Unused(rank1) /\ SampledUnused /\ EliasFanoUnused
    /\ CollectionsUnused

CollectionInit ==
    /\ \/ part = "freq_index" /\ Index!Init /\ Unused(stored) /\ Unused(read)
       \/ /\ part = "sequence_collection" /\ Collection!Init
          /\ Unused(docs) /\ Unused(freqs) /\ Unused(reader) /\ Unused(freq)
    /\ sequence = Nothing /\ Unused(phase) /\ NotCalled
    /\ OptimalUnused /\ Unused(original) /\ Unused(rank1) /\ SampledUnused
    /\ EliasFanoUnused /\ IndexedUnused /\ PartitionedUnused

MCInit == OptimalInit \/ SampledInit \/ LaidOutInit \/ CollectionInit

OfOptimal ==
    part = "optimal_partition"
        /\ UNCHANGED <<part, call, original, rank1, eliasFanoVars, sampledVars, indexedVars,
                       partitionedVars, bothVars, indexVars, collectionVars>>
OfPlain ==
    part = "elias_fano"
        /\ UNCHANGED <<part, original, rank1, optimalVars, indexedVars, partitionedVars,
                       bothVars, indexVars, collectionVars>>
OfStrict ==
    part = "strict_elias_fano"
        /\ UNCHANGED <<part, original, rank1, optimalVars, indexedVars, partitionedVars,
                       bothVars, indexVars, collectionVars>>
OfRanked ==
    part = "ranked_bitvector"
        /\ UNCHANGED <<part, original, optimalVars, eliasFanoVars, indexedVars, partitionedVars,
                       bothVars, indexVars, collectionVars>>
OfIndexed ==
    part = "indexed"
        /\ UNCHANGED <<part, original, rank1, optimalVars, eliasFanoVars, sampledVars,
                       partitionedVars, bothVars, indexVars, collectionVars>>
OfPartitioned ==
    part = "partitioned"
        /\ UNCHANGED <<part, original, rank1, optimalVars, eliasFanoVars, sampledVars, indexedVars,
                       bothVars, indexVars, collectionVars>>
OfIndex ==
    part = "freq_index"
        /\ UNCHANGED <<part, sequence, phase, call, original, rank1, optimalVars, eliasFanoVars,
                       sampledVars, indexedVars, partitionedVars, collectionVars>>
OfCollection ==
    part = "sequence_collection"
        /\ UNCHANGED <<part, sequence, phase, call, original, rank1, optimalVars, eliasFanoVars,
                       sampledVars, indexedVars, partitionedVars, indexVars>>

MCNext ==
    \/ OfOptimal /\ Optimal!MakeWindow
    \/ OfOptimal /\ Optimal!Extend
    \/ OfOptimal /\ Optimal!NextStart
    \/ OfPlain /\ Plain!Write
    \/ OfPlain /\ Plain!WriteEnd
    \/ OfPlain /\ Plain!Move
    \/ OfPlain /\ Plain!NextGeq
    \/ OfPlain /\ Plain!Advance
    \/ OfStrict /\ Plain!Write
    \/ OfStrict /\ Plain!WriteEnd
    \/ OfStrict /\ Plain!Move
    \/ OfStrict /\ Plain!Advance
    \/ OfRanked /\ Ranked!Write
    \/ OfRanked /\ Ranked!WriteEnd
    \/ OfRanked /\ Ranked!Move
    \/ OfRanked /\ Ranked!NextGeq
    \/ OfRanked /\ Ranked!Advance
    \/ OfIndexed /\ Indexed!Write
    \/ OfIndexed /\ Indexed!Open
    \/ OfIndexed /\ Indexed!Move
    \/ OfIndexed /\ Indexed!NextGeq
    \/ OfIndexed /\ Indexed!Advance
    \/ OfPartitioned /\ WriteSingle
    \/ OfPartitioned /\ WritePartition
    \/ OfPartitioned /\ WriteEnd
    \/ OfPartitioned /\ Open
    \/ OfPartitioned /\ Move
    \/ OfPartitioned /\ NextGeq
    \/ OfPartitioned /\ Advance
    \/ \E l \in Lists : OfIndex /\ Index!AddPostingList(l)
    \/ OfIndex /\ Index!Build
    \/ \E i \in 0 .. MaxLists - 1 : OfIndex /\ i < Len(added) /\ Index!Open(i)
    \/ OfIndex /\ Index!MoveDocs
    \/ OfIndex /\ Index!Freq
    \/ \E values \in CollectionInputs : \E last \in {values[Len(values)], values[Len(values)] + 1} :
            OfCollection /\ Collection!AddSequence(values, last)
    \/ OfCollection /\ Collection!Build
    \/ \E i \in 0 .. MaxSequences - 1 : OfCollection /\ i < Len(added) /\ Collection!Open(i)

MCSpec == MCInit /\ [][MCNext]_mcvars

-----------------------------------------------------------------------------
(* Properties.                                                             *)

\* The cursors that an enumerator is made of stand at the same place, whichever
\* way it came there: that in the high bits has consumed the one of its position
\* and no other, that in a partition is in the partition the bounds are of, and
\* the sum that is kept for frequencies is that of the position before.
CursorsInStep ==
    CASE part \in {"elias_fano", "strict_elias_fano"} -> Plain!TypeOK /\ Plain!CursorConsumed
      [] part = "ranked_bitvector" -> Ranked!TypeOK
      [] part = "partitioned" -> SwitchHits /\ CursorsTogether
      [] part = "freq_index" -> Index!CacheInStep
      [] OTHER -> TRUE

\* A sequence is stored or refused as its order demands, every sample in it is
\* exact, and it takes the bits that were announced for it.
CodedExactly ==
    CASE part = "elias_fano" -> Plain!OnlySortedIsStored /\ Plain!SamplesExact
      [] part = "strict_elias_fano" -> Plain!ShiftedFits /\ Plain!SamplesExact
      [] part = "ranked_bitvector" -> Ranked!OnlyIncreasingIsStored /\ Ranked!RanksExact
      [] part = "indexed" -> Indexed!SizeAsAnnounced /\ Indexed!StrictUnsampled
      [] OTHER -> TRUE

\* What is read of an index or of a collection is what was added to it: lists of
\* one document and full ones, for which parts are not written, and frequencies
\* from sums, whatever positions were asked for before.
ListsRead ==
    CASE part = "freq_index" -> Index!EndpointsEncodable /\ Index!ListRead /\ Index!FreqOfDocument
      [] part = "sequence_collection" -> Collection!AllEncodable /\ Collection!ReadAsWritten
      [] OTHER -> TRUE

\* The path of the partition leads back to 0 from every position: the loop that
\* follows it ends (optimal_partition).
PathGoesBack == part = "optimal_partition" => Optimal!PathGoesBack

\* The windows' ends are in order, the cost that is returned is that of the
\* partition that is returned, and it is near the smallest there is.
PartitionIsCheap ==
    part = "optimal_partition"
        => Optimal!WindowsOrdered /\ Optimal!CostIsOfPath /\ Optimal!NearOptimal

\* Whatever the representation, each call of an enumerator leads where the
\* cursor of SequenceCursor goes, or strays past the end where it may: which is
\* at the end of the sequences that are not partitioned (CursorsInStep) nor
\* strict, for bounds beyond the universe.
Viewed ==
    CASE part = "strict_elias_fano" -> [original EXCEPT !.universe = @ + 1]
      [] part \in {"elias_fano", "ranked_bitvector", "indexed", "partitioned"} -> sequence
      [] OTHER -> Nothing
CursorView ==
    CASE part = "elias_fano" -> Plain!View
      [] part = "strict_elias_fano" -> Plain!StrictView(original)
      [] part = "ranked_bitvector" -> Ranked!View
      [] part = "indexed" -> cursor
      [] part = "partitioned" -> View
      [] OTHER -> [position |-> 0, value |-> 0, previous |-> 0]
Viewer == INSTANCE SequenceCursor WITH sequence <- Viewed, cursor <- CursorView
RefinesSequenceCursor == Viewer!StrayingSpec

-----------------------------------------------------------------------------
(* The inductive invariant, with one of its own for each part (that of     *)
(* "partitioned" is PartitionedSequence's).  Sequences_proofs shows that   *)
(* it is one.                                                              *)

\* An abbreviation, under which the provers can compare powers.
Power(k) == 2 ^ k

\* The elements of C before x, and the k-th element.
Rank(C, x) == Cardinality({d \in C : d < x})
Nth(C, k) == CHOOSE c \in C : Rank(C, c) = k

Increases(f, m) ==
  /\ \A i \in 0 .. m - 1 : f[i] \in Nat
  /\ \A i, j \in 0 .. m - 1 : i < j => f[i] < f[j]
Ordered(f, m) ==
  /\ \A i \in 0 .. m - 1 : f[i] \in Nat
  /\ \A i, j \in 0 .. m - 1 : i <= j => f[i] <= f[j]

\* f[i], ... f[j - 1], and how many of m ordered numbers are below x.
Image(f, i, j) == {f[k] : k \in i .. j - 1}
Below(f, m, x) == CHOOSE r \in 0 .. m : \A i \in 0 .. m - 1 : i < r <=> f[i] < x

\* The k-th element, or out if there is none.
NthOr(S, k, out) == IF k < Cardinality(S) THEN Nth(S, k) ELSE out
PastK(h, k, out) ==
  IF k = 0 THEN h
  ELSE LET x == NthOr(h.ones, k - 1, out) IN [at |-> x, ones |-> {b \in h.ones : b > x}]
ToKth(h, k, out) ==
  LET x == NthOr(h.ones, k, out) IN [at |-> x, ones |-> {b \in h.ones : b >= x}]

\* Where the enumerator stands when it shows position q, whatever way it came:
\* its cursor has read the value of q and no other behind it.
RankedStands(x, q) ==
  /\ q \in Nat
  /\ x = [position |-> q, value |-> ValueAt(q), high |-> x.high]
  /\ x.high.at \in 0 .. universe
  /\ q < n => x.high = [at |-> sequence.values[q], ones |-> Image(sequence.values, q + 1, n)]

\* The distances of the samples.
Apart1 == Power(LogSampling1)
ApartRank == Power(LogRank1Sampling)

\* What is written of the first values, the ranks up to bit reach.
RankedWritten(reach) ==
  /\ written \in 0 .. n /\ Increases(sequence.values, written)
  /\ bits = Image(sequence.values, 0, written)
  /\ DOMAIN pointers1 = {p \in 1 .. n : p * Apart1 < written}
  /\ \A p \in DOMAIN pointers1 : pointers1[p] = sequence.values[p * Apart1]
  /\ DOMAIN rank1 = {p \in 1 .. universe : p * ApartRank < reach}
  /\ \A p \in DOMAIN rank1 :
         rank1[p] \in 0 .. written
         /\ \A i \in 0 .. written - 1 : i < rank1[p] <=> sequence.values[i] < p * ApartRank

\* All of it is.
RankedStored ==
  /\ Abstract!IsSequence(sequence) /\ RankedWritten(universe) /\ written = n

\* The value at which the samples of the ranks stop, one value behind the last.
RankedReach == IF phase = "read" THEN universe ELSE Ranked!Last + 1
Ascending == \A i \in 1 .. n - 1 : sequence.values[i - 1] < sequence.values[i]

RankedInv ==
  /\ Abstract!IsSequence(sequence) /\ phase \in {"write", "thrown", "read"}
  /\ RankedWritten(RankedReach)
  /\ phase = "thrown" => ~Ascending
  /\ phase = "read" => written = n /\ \E q : RankedStands(enum, q)
  /\ phase # "read" => enum = [position |-> n, value |-> universe, high |-> [at |-> 0, ones |-> {}]]

\* The position that the enumerator shows.
RankedSpot == IF phase = "read" THEN enum.position ELSE n

\* The weight of a high bit; the high bits of the values, the places of their
\* ones, how long the unary part is, and the places of its zeros.
Scale == Power(Plain!LowerBits)
Highs == [i \in 0 .. n - 1 |-> sequence.values[i] \div Scale]
Places == [i \in 0 .. n - 1 |-> Highs[i] + i + 1]
Span == n + (universe \div Scale) + 2
Zeros == Span - n
Gaps == [k \in 0 .. Zeros - 1 |-> k + Below(Highs, n, k)]

\* Where the enumerator stands when it shows position q, whatever way it came:
\* its cursor has read the one of q and no other behind it.
PlainStands(x, q) ==
  /\ q \in Nat
  /\ x = [position |-> q, value |-> ValueAt(q), high |-> x.high]
  /\ x.high.at \in 0 .. Span
  /\ q < n => x.high = [at |-> Places[q], ones |-> Image(Places, q + 1, n)]

Apart0 == Power(LogSampling0)

\* What is written of the first values, the places of the zeros up to that of
\* number reach: a zero is as far as there are zeros and ones before it.
PlainWritten(reach) ==
  /\ written \in 0 .. n /\ Ordered(sequence.values, written)
  /\ bits = Image(Places, 0, written)
  /\ DOMAIN lows = 0 .. written - 1
  /\ \A i \in 0 .. written - 1 : lows[i] = sequence.values[i] % Scale
  /\ DOMAIN pointers1 = {p \in 1 .. n : p * Apart1 < written}
  /\ \A p \in DOMAIN pointers1 : pointers1[p] = Places[p * Apart1]
  /\ DOMAIN pointers0 = {p \in 1 .. Span : p * Apart0 < reach}
  /\ \A p \in DOMAIN pointers0 : \E r \in 0 .. written :
         /\ pointers0[p] = p * Apart0 + r
         /\ \A i \in 0 .. written - 1 : i < r <=> Highs[i] < p * Apart0

\* All of it is.
PlainStored ==
  /\ Abstract!IsSequence(sequence) /\ PlainWritten(Zeros) /\ written = n

\* The number of the zero at which their samples stop, the one behind the last
\* one that is written.
PlainReach == IF phase = "read" THEN Zeros ELSE IF written = 0 THEN 1 ELSE Highs[written - 1] + 1
NeverFalls == \A i \in 1 .. n - 1 : sequence.values[i - 1] <= sequence.values[i]

PlainInv ==
  /\ Abstract!IsSequence(sequence) /\ phase \in {"write", "thrown", "read"}
  /\ PlainWritten(PlainReach)
  /\ phase = "thrown" => ~NeverFalls
  /\ phase = "read" => written = n /\ \E q : PlainStands(enum, q)
  /\ phase # "read" => enum = [position |-> n, value |-> universe, high |-> [at |-> 0, ones |-> {}]]

\* The position that the enumerator shows.
PlainSpot == IF phase = "read" THEN enum.position ELSE n

\* The sampled zeros before number x, and where one is that has `rank' ones
\* before it.
ZerosBelow(x) == {p \in 1 .. Span : p * Apart0 < x}
ZeroAt(p, rank) == p * Apart0 + rank

\* The samples of the zeros before `first' are there, with `rank' ones before it.
Sampling(first, last, rank) ==
  /\ first \in Nat /\ last \in Nat /\ rank \in 0 .. n
  /\ rank <= first /\ first <= last /\ last <= Span
  /\ DOMAIN pointers0 = ZerosBelow(first - rank)

\* What is written is a shifted sequence of increasing values.
OfOriginal == Abstract!IsIncreasing(original) /\ sequence = Plain!Shifted(original)

IndexedSpot == cursor.position

IndexedInv ==
  /\ sequence \in IndexedInputs /\ strict \in BOOLEAN /\ params \in Params
  /\ phase \in {"write", "read", "open"}
  /\ phase # "write" => appended = Indexed!BitSize(params, universe, n)
  /\ phase = "open" => (type = "all_ones" <=> universe = n)
  /\ IndexedSpot \in Nat /\ cursor = Whole!At(sequence, IndexedSpot)
  /\ phase # "open" \/ type = "all_ones" => IndexedSpot <= n

\* The sums of the first frequencies, of which the differences are the others.
SumUp(sums, f, m) ==
  /\ sums \in Seq(Nat) /\ Len(sums) = m /\ sums[1] = f[1]
  /\ \A i \in 1 .. m - 1 : sums[i + 1] = sums[i] + f[i + 1]

AllDocsBits == {Index!DocsBits(l) : l \in Lists}
AllFreqsBits == {Index!FreqsBits(l) : l \in Lists}

ReaderIs(r) ==
  /\ r \in [list : Nat, occurrences : Nat, n : Nat, values : Seq(Nat), sums : Seq(Nat),
            pos : Nat, docid : Nat, base : Nat, cachedPos : Nat, cachedSum : Nat]
  /\ r.list \in 1 .. Len(added)
  /\ r.n = Len(added[r.list].docs) /\ r.values = added[r.list].docs
  /\ r.occurrences = Index!Occurrences(added[r.list]) /\ r.sums = Index!PartialSums(added[r.list])
  /\ r.pos <= r.n /\ r.base = r.cachedPos /\ r.cachedPos <= r.n
  /\ r.cachedPos < r.n => r.cachedSum = r.sums[r.cachedPos + 1]

\* What was appended for a list is what the list says, and the enumerator of a list
\* has what was appended for it.
IndexInv ==
  /\ added \in Seq(Lists) /\ docs \in Seq(AllDocsBits) /\ freqs \in Seq(AllFreqsBits)
  /\ Len(docs) = Len(added) /\ Len(freqs) = Len(added)
  /\ \A k \in 1 .. Len(added) : /\ docs[k] = Index!DocsBits(added[k])
                                /\ freqs[k] = Index!FreqsBits(added[k])
  /\ (reader.list = 0 /\ freq = 0) \/ (built /\ ReaderIs(reader))
  /\ freq > 0 => /\ reader.list > 0 /\ reader.pos < reader.n
                 /\ freq = added[reader.list].freqs[reader.pos + 1]

Kept(values, p) ==
  /\ p.n = Len(values) /\ p.values = values /\ p.size \in Nat \ {0}
  /\ p.universe = 2 ^ p.universeBits + 1
  /\ \A i \in 1 .. Len(values) : values[i] < p.universe
AllKept == {p \in {Collection!Prepared(values, last) : values \in CollectionInputs, last \in Nat} :
                p.size \in Nat \ {0}}

CollectionInv ==
  /\ added \in Seq(CollectionInputs) /\ stored \in Seq(AllKept) /\ Len(stored) = Len(added)
  /\ \A k \in 1 .. Len(added) : Kept(added[k], stored[k])
  /\ \/ read.list = 0
     \/ built /\ read.list \in 1 .. Len(added) /\ Collection!ReadAsWritten

\* The position the loop is at, and where the windows end.
LoopInv ==
  /\ sequence \in PartitionInputs
  /\ phase \in {"bounds", "loop", "done"}
  /\ bounds \in Seq(Nat) /\ windowEnds \in Seq(0 .. Optimal!size) /\ Len(bounds) = Len(windowEnds)
  /\ start \in 0 .. Optimal!size /\ window \in Nat \ {0}
  /\ phase = "bounds" => start = 0 /\ lastEnd = 1
  /\ phase = "loop" => start < Optimal!size /\ lastEnd \in start + 1 .. Optimal!size
  /\ DOMAIN path = 0 .. Optimal!size
  /\ \A j \in 1 .. Optimal!size : path[j] \in 0 .. j - 1

Parts == {"optimal_partition", "elias_fano", "strict_elias_fano", "ranked_bitvector",
          "indexed", "partitioned", "freq_index", "sequence_collection"}

PartInv ==
  /\ part \in Parts
  /\ part = "optimal_partition" => LoopInv
  /\ part = "elias_fano" => PlainInv
  /\ part = "strict_elias_fano" => PlainInv /\ OfOriginal /\ PlainSpot <= n
  /\ part = "ranked_bitvector" => RankedInv
  /\ part = "indexed" => IndexedInv
  /\ part = "partitioned" => PartitionedInv
  /\ part = "freq_index" => IndexInv
  /\ part = "sequence_collection" => CollectionInv

\* The position that is shown, of the sequences that show what their invariants say.
Shows == {"elias_fano", "strict_elias_fano", "ranked_bitvector", "indexed"}
Spot == CASE part = "indexed" -> IndexedSpot
          [] part = "ranked_bitvector" -> RankedSpot
          [] OTHER -> PlainSpot
Shown == part \in Shows => CursorView = Whole!At(Viewed, Spot)

-----------------------------------------------------------------------------
(* The inputs that TLC is given, and the parameters that are no numbers.   *)

IthOf(S, i) == CHOOSE x \in S : Cardinality({y \in S : y < x}) = i
Of(S, u) == [values |-> [i \in 0 .. Cardinality(S) - 1 |-> IthOf(S, i)], universe |-> u]
FromTuple(t, u) == [values |-> [i \in 0 .. Len(t) - 1 |-> t[i + 1]], universe |-> u]
InOrder(t) == \A i \in 1 .. Len(t) - 1 : t[i] <= t[i + 1]

\* Of OptimalPartition.  Runs, gaps and mixtures of both, so that partitions of
\* one, two and more blocks are the best; the look-ahead cuts off some windows.
RunsAndGaps == {Of(S, 9) : S \in SUBSET (0 .. 7) \ {{}}}
                   \cup {Of({1, 2, 3, 4, 19, 20, 21, 22, 40}, 41), Of({0, 8, 16, 17, 18, 19, 31}, 60)}
ThreeHalves == <<3, 2>>
SixTimes == <<6, 1>>

\* Of EliasFano.  Every non-decreasing sequence of up to three values below 5,
\* longer ones with several samples of zeros and ones, two with low bits and one
\* that is not sorted.
SortedTuples ==
    {FromTuple(t, 5) : t \in {s \in UNION {[1 .. k -> 0 .. 4] : k \in 1 .. 3} : InOrder(s)}}
    \cup {FromTuple(<<0, 0, 1, 4, 4, 8>>, 9), FromTuple(<<2, 3, 5, 6, 7, 8>>, 10),
          FromTuple(<<0, 1, 2, 3, 9, 10, 11>>, 13), FromTuple(<<5, 6, 18, 30>>, 32),
          FromTuple(<<9, 9, 11, 30, 31>>, 40), FromTuple(<<1, 3, 2>>, 5)}

\* Of strict_elias_fano.  Every set of values in a tight and in a wider universe,
\* a full one, and two that have samples and low bits.
IncreasingSets ==
    {Of(S, u) : S \in SUBSET (0 .. 3) \ {{}}, u \in {4, 6}}
    \cup {Of(0 .. 6, 7), Of({0, 4, 5, 6, 17, 18, 30}, 32), Of({7, 20, 41}, 42)}

\* Of RankedBitvector.  Also two long ones, one that is not sorted and one with
\* a value twice.
BitvectorSets ==
    {Of(S, u) : S \in SUBSET (0 .. 4) \ {{}}, u \in {5, 8}}
    \cup {Of({1, 2, 3, 8, 9, 11, 12, 15}, 16), Of({0, 5, 6, 13, 14}, 19)}
    \cup {FromTuple(<<2, 1>>, 4), FromTuple(<<1, 3, 3>>, 4)}

\* Of IndexedSequence.  Tight, full and wide universes, dense and sparse, and
\* samplings small enough for the samples to decide.
IndexedSets ==
    {Of(S, u) : S \in SUBSET (0 .. 3) \ {{}}, u \in {4, 5, 9}}
    \cup {Of({30}, 31), Of({0, 31}, 64), Of(0 .. 5, 6), Of({1, 5, 9, 10, 11}, 12)}
Samplings == [ef0 : {1, 3}, ef1 : {1, 3}, rb0 : {1, 3}, rb1 : {1, 3}]

\* Of PartitionedSequence, cut in every way or uniformly.
CutSets == {Of(S, u) : S \in SUBSET (0 .. 4) \ {{}}, u \in {5, 7}} \cup {Of({1, 2, 3, 7, 8, 9, 12}, 13)}

\* Of FreqIndex.  Lists of one document and of several, one of every document,
\* with frequencies of 1 only (as many occurrences as documents) and larger ones.
PostingLists ==
    {[docs |-> <<2>>, freqs |-> <<1>>], [docs |-> <<3>>, freqs |-> <<4>>],
     [docs |-> <<0, 1, 2, 3>>, freqs |-> <<1, 1, 1, 1>>],
     [docs |-> <<1, 3>>, freqs |-> <<1, 1>>],
     [docs |-> <<0, 2, 3>>, freqs |-> <<2, 1, 3>>]}

\* Of SequenceCollection.  Sequences that end at powers of two and around them,
\* and one that fills its universe.
AroundPowers == {<<0>>, <<1>>, <<2>>, <<0, 3>>, <<1, 4>>, <<0, 1, 2, 3, 4>>, <<2, 7>>, <<5, 8>>}
=============================================================================
