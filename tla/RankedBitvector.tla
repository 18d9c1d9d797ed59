--------------------------- MODULE RankedBitvector ---------------------------
(***************************************************************************)
(* compact_ranked_bitvector: a strictly increasing sequence as the set of  *)
(* its values, with samples of the rank of every 2^LogRank1Sampling-th bit *)
(* and of the place of every 2^LogSampling1-th one.  next_geq puts the     *)
(* unary cursor at the bound and has to find out which position that is:   *)
(* by counting the ones from where it was, or from the last rank sample.   *)
(***************************************************************************)
EXTENDS Naturals, FiniteSets, FiniteSetsExt

CONSTANTS Inputs, LogRank1Sampling, LogSampling1, LinearScanThreshold,
    Beyond      \* as of EliasFano

RankedBitvectorAssumption ==
    /\ LogRank1Sampling \in Nat /\ LogSampling1 \in Nat /\ Beyond \in Nat
    /\ LinearScanThreshold \in Nat \ {0}

VARIABLES sequence, phase, written, bits, rank1, pointers1, enum, call

vars == <<sequence, phase, written, bits, rank1, pointers1, enum, call>>

n == Cardinality(DOMAIN sequence.values)
universe == sequence.universe

Msb(x) == CHOOSE k \in 0 .. x : 2 ^ k <= x /\ x < 2 ^ (k + 1)
CeilLog2(x) == IF x > 1 THEN Msb(x - 1) + 1 ELSE 0

Rank1SampleSize == CeilLog2(n + 1)
PointerSize == CeilLog2(universe)
Rank1Samples == universe \div 2 ^ LogRank1Sampling
Pointers1 == n \div 2 ^ LogSampling1
BitSize == Rank1Samples * Rank1SampleSize + Pointers1 * PointerSize + universe

-----------------------------------------------------------------------------
(* The unary enumerator of succinct *)

Outside == universe
Kth(S, k) == IF k < Cardinality(S)
             THEN CHOOSE x \in S : Cardinality({y \in S : y < x}) = k
             ELSE Outside
From(p) == [at |-> p, ones |-> {b \in bits : b >= p}]
Nexts(h, k) == IF k = 0 THEN h
               ELSE LET m == Kth(h.ones, k - 1)
                    IN [at |-> m, ones |-> {b \in h.ones : b > m}]
Skip(h, k) == LET m == Kth(h.ones, k) IN [at |-> m, ones |-> {b \in h.ones : b >= m}]

-----------------------------------------------------------------------------
(* Writing *)

\* The samples of f, and those of g for the others.
Joined(f, g) == [p \in DOMAIN f \cup DOMAIN g |-> IF p \in DOMAIN f THEN f[p] ELSE g[p]]

\* set_rank1_samples: the samples in first .. last - 1 have this rank.
SetRank1Samples(first, last, rank) ==
    LET sampled == {p \in 1 .. last : first <= p * 2 ^ LogRank1Sampling
                                       /\ p * 2 ^ LogRank1Sampling < last}
    IN Joined([p \in sampled |-> rank % 2 ^ Rank1SampleSize], rank1)

Last == IF written = 0 THEN 0 ELSE sequence.values[written - 1]

WriteValue(i, v) ==
    /\ bits' = bits \cup {v}
    /\ pointers1' = IF i > 0 /\ i % 2 ^ LogSampling1 = 0
                    THEN Joined(pointers1, [p \in {i \div 2 ^ LogSampling1} |-> v % 2 ^ PointerSize])
                    ELSE pointers1
    /\ rank1' = SetRank1Samples(Last + 1, v + 1, i)
    /\ written' = i + 1

Write ==
    /\ phase = "write" /\ written < n
    /\ IF written > 0 /\ sequence.values[written] <= Last
       THEN phase' = "thrown" /\ UNCHANGED <<written, bits, rank1, pointers1>>
       ELSE WriteValue(written, sequence.values[written]) /\ UNCHANGED phase
    /\ UNCHANGED <<sequence, enum, call>>

WriteEnd ==
    /\ phase = "write" /\ written = n
    /\ rank1' = SetRank1Samples(Last + 1, universe, n)
    /\ phase' = "read"
    /\ UNCHANGED <<sequence, written, bits, pointers1, enum, call>>

-----------------------------------------------------------------------------
(* Reading *)

Sample(samples, i) == IF i = 0 THEN 0
                      ELSE IF i \in DOMAIN samples THEN samples[i] ELSE Outside

AtEnd(e) == [e EXCEPT !.position = n, !.value = universe]

\* read_next, at position p
Read(h, p) == [position |-> p, value |-> Kth(h.ones, 0), high |-> Nexts(h, 1)]

SlowMove(e, p) ==
    LET ptr == p \div 2 ^ LogSampling1
    IN IF p = n THEN AtEnd(e)
       ELSE IF p > e.position /\ p - e.position < 2 ^ LogSampling1
       THEN Read(Skip(e.high, p - e.position - 1), p)
       ELSE Read(Skip(From(Sample(pointers1, ptr)), p - ptr * 2 ^ LogSampling1), p)

Moved(e, p) ==
    IF p = e.position THEN e
    ELSE IF p > e.position /\ p - e.position <= LinearScanThreshold
    THEN IF p = n THEN AtEnd(e)
         ELSE Read(Nexts(e.high, p - e.position - 1), p)
    ELSE SlowMove(e, p)

SlowNextGeq(e, bound) ==
    LET block == bound \div 2 ^ LogRank1Sampling
        ahead == bound > e.value /\ bound - e.value < 2 ^ LogRank1Sampling
        begin == IF ahead THEN e.value ELSE block * 2 ^ LogRank1Sampling
        p == (IF ahead THEN e.position ELSE Sample(rank1, block))
                + Cardinality({b \in bits : begin <= b /\ b < bound})
    IN IF bound >= universe THEN Moved(e, n)
       ELSE IF p < n THEN Read(From(bound), p)
       ELSE [position |-> p, value |-> universe, high |-> From(bound)]

\* The scan reads on from the position of e until it finds the bound: at the end
\* too, of which it counts one position more.
Scan(e, bound) ==
    LET found == {q \in e.position + 1 .. n - 1 : Kth(e.high.ones, q - e.position - 1) >= bound}
        q == IF found # {} THEN Min(found)
             ELSE IF e.position < n THEN n ELSE e.position + 1
    IN IF found # {} THEN Read(Nexts(e.high, q - e.position - 1), q)
       ELSE [position |-> q, value |-> universe, high |-> Nexts(e.high, q - e.position - 1)]

Geq(e, bound) ==
    IF bound = e.value THEN e
    ELSE IF bound > e.value /\ bound - e.value <= LinearScanThreshold
    THEN Scan(e, bound)
    ELSE SlowNextGeq(e, bound)

Advanced(e) ==
    IF e.position + 1 < n THEN Read(e.high, e.position + 1)
    ELSE [e EXCEPT !.position = e.position + 1, !.value = universe]

PrevValue(e) ==
    LET below == {b \in bits : e.position >= n \/ b < e.high.at}
    IN IF e.position = 0 THEN 0 ELSE IF below = {} THEN Outside ELSE Max(below)

Calls(name, argument) ==
    /\ phase = "read"
    /\ call' = <<name, argument>>
    /\ UNCHANGED <<sequence, phase, written, bits, rank1, pointers1>>

Move == \E p \in 0 .. n : Calls("move", p) /\ enum' = Moved(enum, p)
NextGeq == \E bound \in 0 .. universe + Beyond :
               /\ bound > universe => enum.position < n + Beyond
               /\ Calls("next_geq", bound) /\ enum' = Geq(enum, bound)
Advance == /\ enum.position < n
           /\ Calls("next", 0) /\ enum' = Advanced(enum)

Init == /\ sequence \in Inputs
        /\ phase = "write" /\ written = 0 /\ bits = {} /\ rank1 = <<>> /\ pointers1 = <<>>
        /\ enum = [position |-> n, value |-> universe, high |-> [at |-> 0, ones |-> {}]]
        /\ call = <<"none", 0>>

Next == Write \/ WriteEnd \/ Move \/ NextGeq \/ Advance

Spec == Init /\ [][Next]_vars

-----------------------------------------------------------------------------
(* Properties *)

\* No sample is written outside the space reserved for it (the asserts of
\* write) and the enumerator stays within the bitvector.
TypeOK ==
    /\ phase \in {"write", "thrown", "read"} /\ written \in 0 .. n
    /\ bits \subseteq 0 .. universe - 1
    /\ DOMAIN rank1 \subseteq 1 .. Rank1Samples /\ DOMAIN pointers1 \subseteq 1 .. Pointers1
    /\ enum.position \in Nat /\ enum.high.at \in 0 .. Outside

\* write() throws on exactly the sequences that do not increase strictly.
OnlyIncreasingIsStored ==
    LET increasing == \A i \in 1 .. n - 1 : sequence.values[i - 1] < sequence.values[i]
    IN /\ phase = "thrown" => ~increasing
       /\ phase = "read" => increasing

\* A rank sample is the number of ones before its bit: those that fall on a one,
\* those in the gap before it and those behind the last one.
RanksExact ==
    phase = "read" =>
        \A p \in 1 .. Rank1Samples : p * 2 ^ LogRank1Sampling < universe =>
            Sample(rank1, p) = Cardinality({b \in bits : b < p * 2 ^ LogRank1Sampling})

\* Each call leads where the abstract cursor goes, whichever way it counts.
View == IF phase # "read"
        THEN [position |-> n, value |-> universe, previous |-> sequence.values[n - 1]]
        ELSE [position |-> enum.position, value |-> enum.value, previous |-> PrevValue(enum)]
Abstract == INSTANCE SequenceCursor WITH cursor <- View
InputsAssumption == \A s \in Inputs : Abstract!IsSequence(s)
RefinesCursor == Abstract!StrayingSpec
=============================================================================
