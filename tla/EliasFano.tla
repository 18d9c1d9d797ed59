------------------------------ MODULE EliasFano ------------------------------
(***************************************************************************)
(* compact_elias_fano: a non-decreasing sequence as its high bits in unary *)
(* (a bitvector with a one for every value), its low bits in an array, and *)
(* samples of where every 2^LogSampling0-th zero and every                 *)
(* 2^LogSampling1-th one is.  The enumerator reads the unary part with a   *)
(* cursor of its own that has already consumed the one it stands at; the   *)
(* four ways it moves (short scan, skip of ones, skip of zeros, jump to a  *)
(* sample) have to agree on that.  Positions in the bitvector are relative *)
(* to its offset.                                                          *)
(***************************************************************************)
EXTENDS Naturals, FiniteSets, FiniteSetsExt

CONSTANTS
    Inputs,                 \* sequences: [values, universe]
    LogSampling0, LogSampling1,
    LinearScanThreshold,    \* 8 in the code
    Beyond                  \* how far beyond the universe bounds are asked for,
                            \* and past the end positions are followed

EliasFanoAssumption ==
    /\ LogSampling0 \in Nat /\ LogSampling1 \in Nat /\ Beyond \in Nat
    /\ LinearScanThreshold \in Nat \ {0}

VARIABLES
    sequence,       \* what is written
    phase,          \* "write", "thrown" or "read"
    written,        \* how many values are
    bits, lows, pointers0, pointers1,
    enum,           \* m_position, m_value, m_high_enumerator
    call

vars == <<sequence, phase, written, bits, lows, pointers0, pointers1, enum, call>>

n == Cardinality(DOMAIN sequence.values)
universe == sequence.universe

Msb(x) == CHOOSE k \in 0 .. x : 2 ^ k <= x /\ x < 2 ^ (k + 1)
CeilLog2(x) == IF x > 1 THEN Msb(x - 1) + 1 ELSE 0

LowerBits == IF universe > n THEN Msb(universe \div n) ELSE 0
High(v) == v \div 2 ^ LowerBits
Low(v) == v % 2 ^ LowerBits
HigherBitsLength == n + High(universe) + 2
PointerSize == CeilLog2(HigherBitsLength)
Pointers0 == (HigherBitsLength - n) \div 2 ^ LogSampling0
Pointers1 == n \div 2 ^ LogSampling1
BitSize == (Pointers0 + Pointers1) * PointerSize + HigherBitsLength + n * LowerBits

-----------------------------------------------------------------------------
(* The unary enumerator of succinct: at is its position, ones are the bits  *)
(* it has not consumed.                                                     *)

Outside == HigherBitsLength
Kth(S, k) == IF k < Cardinality(S)
             THEN CHOOSE x \in S : Cardinality({y \in S : y < x}) = k
             ELSE Outside
From(p) == [at |-> p, ones |-> {b \in bits : b >= p}]
\* k calls of next()
Nexts(h, k) == IF k = 0 THEN h
               ELSE LET m == Kth(h.ones, k - 1)
                    IN [at |-> m, ones |-> {b \in h.ones : b > m}]
Skip(h, k) == LET m == Kth(h.ones, k) IN [at |-> m, ones |-> {b \in h.ones : b >= m}]
Skip0(h, k) == LET m == Kth((h.at .. HigherBitsLength - 1) \ h.ones, k)
               IN [at |-> m, ones |-> {b \in h.ones : b >= m}]

-----------------------------------------------------------------------------
(* Writing *)

\* The samples of f, and those of g for the others.
Joined(f, g) == [p \in DOMAIN f \cup DOMAIN g |-> IF p \in DOMAIN f THEN f[p] ELSE g[p]]

\* set_ptr0s: the zeros in first .. last - 1, with `rank' ones before them.
Sampled0(first, last, rank) ==
    {p \in 1 .. last : first - rank <= p * 2 ^ LogSampling0 /\ p * 2 ^ LogSampling0 < last - rank}
SetPtr0s_Late(first, last, rank) ==
    Joined([p \in Sampled0(first, last, rank) |-> p * 2 ^ LogSampling0 % 2 ^ PointerSize], pointers0)
SetPtr0s(first, last, rank) ==
    Joined([p \in Sampled0(first, last, rank)
               |-> (p * 2 ^ LogSampling0 + rank) % 2 ^ PointerSize], pointers0)

HighOf(i) == High(sequence.values[i]) + i + 1
LastHigh == IF written = 0 THEN 0 ELSE HighOf(written - 1)

WriteValue(i) ==
    /\ bits' = bits \cup {HighOf(i)}
    /\ lows' = Joined(lows, [j \in {i} |-> Low(sequence.values[i])])
    /\ pointers1' = IF i > 0 /\ i % 2 ^ LogSampling1 = 0
                    THEN Joined(pointers1, [p \in {i \div 2 ^ LogSampling1} |-> HighOf(i) % 2 ^ PointerSize])
                    ELSE pointers1
    /\ pointers0' = SetPtr0s(LastHigh + 1, HighOf(i), i)
    /\ written' = i + 1

Write ==
    /\ phase = "write" /\ written < n
    /\ IF written > 0 /\ sequence.values[written] < sequence.values[written - 1]
       THEN phase' = "thrown" /\ UNCHANGED <<written, bits, lows, pointers0, pointers1>>
       ELSE WriteValue(written) /\ UNCHANGED phase
    /\ UNCHANGED <<sequence, enum, call>>

WriteEnd ==
    /\ phase = "write" /\ written = n
    /\ pointers0' = SetPtr0s(LastHigh + 1, HigherBitsLength, n)
    /\ phase' = "read"
    /\ UNCHANGED <<sequence, written, bits, lows, pointers1, enum, call>>

-----------------------------------------------------------------------------
(* Reading *)

Sample(pointers, i) == IF i = 0 THEN 0
                       ELSE IF i \in DOMAIN pointers THEN pointers[i] ELSE Outside

\* The value at q when the next one of h is that of position p.
ValueAt(h, p, q) == (Kth(h.ones, q - p) - q - 1) * 2 ^ LowerBits + lows[q]

AtEnd(e) == [e EXCEPT !.position = n, !.value = universe]

SlowMove(e, p) ==
    LET ahead == p > e.position /\ p - e.position < 2 ^ LogSampling1
        ptr == p \div 2 ^ LogSampling1
        h == IF ahead THEN Skip(e.high, p - e.position - 1)
             ELSE Skip(From(Sample(pointers1, ptr)), p - ptr * 2 ^ LogSampling1)
    IN IF p = n THEN AtEnd(e)
       ELSE [position |-> p, value |-> ValueAt(h, p, p), high |-> Nexts(h, 1)]

Moved(e, p) ==
    IF p = e.position THEN e
    ELSE IF p > e.position /\ p - e.position <= LinearScanThreshold
    THEN IF p = n THEN AtEnd(e)
         ELSE [position |-> p, value |-> ValueAt(e.high, e.position + 1, p),
               high |-> Nexts(e.high, p - e.position)]
    ELSE SlowMove(e, p)

\* The loop of both next_geq: from position p on, of which h holds the ones.  It
\* counts the position before it compares it: at the end, one too many.
Scan(h, p, bound) ==
    LET found == {q \in p .. n - 1 : ValueAt(h, p, q) >= bound}
        q == IF found # {} THEN Min(found) ELSE IF p > n THEN p ELSE n
    IN [position |-> q,
        value |-> IF found # {} THEN ValueAt(h, p, q) ELSE universe,
        high |-> Nexts(h, IF found # {} THEN q - p + 1 ELSE q - p)]

SlowNextGeq(e, bound) ==
    LET high == High(bound)
        ahead == bound > e.value /\ high - High(e.value) < 2 ^ LogSampling0
        ptr == high \div 2 ^ LogSampling0
        h == IF ahead THEN Skip0(e.high, high - High(e.value))
             ELSE Skip0(From(Sample(pointers0, ptr)), high - ptr * 2 ^ LogSampling0)
    IN IF bound >= universe THEN Moved(e, n)
       ELSE Scan(h, h.at - high, bound)

Geq(e, bound) ==
    IF bound = e.value THEN e
    ELSE IF bound > e.value /\ High(bound) - High(e.value) <= LinearScanThreshold
    THEN Scan(e.high, e.position + 1, bound)
    ELSE SlowNextGeq(e, bound)

Advanced(e) ==
    IF e.position + 1 < n
    THEN [position |-> e.position + 1, value |-> ValueAt(e.high, e.position + 1, e.position + 1),
          high |-> Nexts(e.high, 1)]
    ELSE [e EXCEPT !.position = e.position + 1, !.value = universe]

PrevValue(e) ==
    LET below == {b \in bits : e.position >= n \/ b < e.high.at}
        p == e.position - 1
    IN IF e.position = 0 THEN 0
       ELSE IF below = {} THEN Outside
       ELSE (Max(below) - p - 1) * 2 ^ LowerBits + lows[p]

Calls(name, argument) ==
    /\ phase = "read"
    /\ call' = <<name, argument>>
    /\ UNCHANGED <<sequence, phase, written, bits, lows, pointers0, pointers1>>

Move == \E p \in 0 .. n : Calls("move", p) /\ enum' = Moved(enum, p)
NextGeq == \E bound \in 0 .. universe + Beyond :
               /\ bound > universe => enum.position < n + Beyond
               /\ Calls("next_geq", bound) /\ enum' = Geq(enum, bound)
Advance == /\ enum.position < n
           /\ Calls("next", 0) /\ enum' = Advanced(enum)

Opened == [position |-> n, value |-> universe, high |-> [at |-> 0, ones |-> {}]]

Empty == /\ phase = "write" /\ written = 0 /\ bits = {} /\ lows = <<>> /\ pointers0 = <<>> /\ pointers1 = <<>>
         /\ enum = Opened /\ call = <<"none", 0>>
Init == sequence \in Inputs /\ Empty

Next == Write \/ WriteEnd \/ Move \/ NextGeq \/ Advance

Spec == Init /\ [][Next]_vars

-----------------------------------------------------------------------------
(* strict_elias_fano: a strictly increasing sequence is written as the      *)
(* non-decreasing one of its values minus their positions, in a universe    *)
(* that is smaller by as much, and every call adds the position again.  It  *)
(* has no next_geq.                                                         *)

Shifted(s) == [values |-> [i \in DOMAIN s.values |-> s.values[i] - i],
               universe |-> s.universe - Cardinality(DOMAIN s.values) + 1]

StrictInit(original) == sequence = Shifted(original) /\ Empty

StrictPrevValue == IF enum.position = 0 THEN 0 ELSE PrevValue(enum) + enum.position - 1

-----------------------------------------------------------------------------
(* Properties *)

\* The samples fit their fields and none is written beyond the space reserved
\* for it (the asserts of write), and the enumerator is within the sequence.
TypeOK ==
    /\ phase \in {"write", "thrown", "read"} /\ written \in 0 .. n
    /\ bits \subseteq 1 .. HigherBitsLength - 1
    /\ DOMAIN pointers0 \subseteq 1 .. Pointers0 /\ DOMAIN pointers1 \subseteq 1 .. Pointers1
    /\ enum.position \in Nat /\ enum.high.at \in 0 .. Outside

\* write() throws on exactly the sequences that are not sorted.
OnlySortedIsStored ==
    LET sorted == \A i \in 1 .. n - 1 : sequence.values[i - 1] <= sequence.values[i]
    IN /\ phase = "thrown" => ~sorted
       /\ phase = "read" => sorted

\* Every sample, when all are written, is the place of the zero or the one it
\* stands for, and none that the enumerator asks for is missing: the loops that
\* set them go through the runs between two ones.
SamplesExact ==
    phase = "read" =>
        LET zeros == (0 .. HigherBitsLength - 1) \ bits
        IN /\ \A p \in 1 .. Pointers0 : p * 2 ^ LogSampling0 < Cardinality(zeros)
                => Sample(pointers0, p) = Kth(zeros, p * 2 ^ LogSampling0)
           /\ \A p \in 1 .. Pointers1 : p * 2 ^ LogSampling1 < n
                => Sample(pointers1, p) = Kth(bits, p * 2 ^ LogSampling1)

\* The unary cursor has consumed the one of the position the enumerator is at,
\* and nothing more: whichever way it came there.
CursorConsumed ==
    phase = "read" /\ enum.position < n
        => enum.high = [at |-> HighOf(enum.position),
                        ones |-> {b \in bits : b > HighOf(enum.position)}]

\* Each call leads where the abstract cursor goes, and prev_value is right at
\* each position; past the end, where it would read low bits that no value has,
\* nothing is said of it.
View == IF phase # "read"
        THEN [position |-> n, value |-> universe, previous |-> sequence.values[n - 1]]
        ELSE [position |-> enum.position, value |-> enum.value,
              previous |-> IF enum.position > n THEN sequence.values[n - 1] ELSE PrevValue(enum)]
Abstract == INSTANCE SequenceCursor WITH cursor <- View
InputsAssumption == \A s \in Inputs : Abstract!IsSequence(s)
RefinesCursor == Abstract!StrayingSpec

\* Every shifted value is below the shifted universe (the assert of write): so
\* a strict sequence that fills its universe, or ends at its last value, still
\* fits.
ShiftedFits ==
    \A i \in DOMAIN sequence.values :
        sequence.values[i] \in Nat /\ sequence.values[i] < sequence.universe

\* The shift is invisible: the enumerator is a cursor in the original sequence.
\* Only its value at the end is not the universe but one more, as the shifted
\* universe has one value more.
StrictView(original) ==
    [position |-> IF phase = "read" THEN enum.position ELSE n,
     value |-> IF phase = "read" THEN enum.value + enum.position ELSE universe + n,
     previous |-> IF phase = "read" THEN StrictPrevValue ELSE original.values[n - 1]]
=============================================================================
