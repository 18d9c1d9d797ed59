------------------------- MODULE PartitionedSequence -------------------------
(***************************************************************************)
(* partitioned_sequence and uniform_partitioned_sequence: a strictly       *)
(* increasing sequence cut into partitions, each a base sequence of its    *)
(* own relative to the value behind the last of the one before.  The       *)
(* enumerator keeps the bounds of the partition it is in and a cursor in   *)
(* it; what it is told of that partition -- place, universe, length -- it  *)
(* puts together from the upper bounds, the sizes and the endpoints, and   *)
(* must be what the partition was written with, as a base sequence that    *)
(* fills its universe takes no bits and is known by that alone.            *)
(*                                                                         *)
(* The sequences of sizes and upper bounds (compact_elias_fano) and the    *)
(* base enumerators are abstract cursors, see EliasFano, RankedBitvector   *)
(* and IndexedSequence; which partitions are taken is free here and        *)
(* modelled by OptimalPartition.                                           *)
(***************************************************************************)
EXTENDS Integers, Sequences, FiniteSets, FiniteSetsExt

CONSTANTS
    Inputs,             \* strictly increasing sequences: [values, universe]
    LogPartitionSize,   \* of uniform_partitioned_sequence
    Beyond,             \* how far beyond the universe bounds are asked for
    IntLimit            \* 2^31: an int is below it

PartitionedAssumption ==
    LogPartitionSize \in Nat /\ Beyond \in Nat /\ IntLimit \in Nat \ {0}

VARIABLES
    sequence,
    uniform,    \* the type: uniform_partitioned_sequence or partitioned_sequence
    cuts,       \* the partition of the optimal or uniform one: a set of ends
    phase,      \* "write", "open" or "read"
    file,       \* what is written: upper_bounds, endpoints, the base sequences
    e,          \* the enumerator
    call

vars == <<sequence, uniform, cuts, phase, file, e, call>>

Abstract == INSTANCE SequenceCursor WITH cursor <- e

\* Universes fit an int: the enumerator of a single partition keeps what it reads
\* of its universe in one.
InputsAssumption == \A s \in Inputs : Abstract!IsIncreasing(s) /\ s.universe < IntLimit

n == Abstract!Size(sequence)
universe == sequence.universe
Partitions == Cardinality(cuts)
Cut(p) == CHOOSE c \in cuts : Cardinality({d \in cuts : d < c}) = p
Msb(x) == CHOOSE k \in 0 .. x : 2 ^ k <= x /\ x < 2 ^ (k + 1)
CeilLog2(x) == IF x > 1 THEN Msb(x - 1) + 1 ELSE 0

\* A base sequence takes bits unless it fills its universe.
BaseBits(base) == IF base.universe = Abstract!Size(base) THEN 0 ELSE base.universe + 1

-----------------------------------------------------------------------------
(* Writing *)

Written == Len(file.bases)
LastUpper == file.uppers[Len(file.uppers)]
Base(first, last, from) ==
    [values |-> [i \in 0 .. last - first - 1 |-> sequence.values[first + i] - from],
     universe |-> sequence.values[last - 1] - from + 1]

WriteSingle ==
    LET from == sequence.values[0]
        back == sequence.values[n - 1] - from
    IN /\ phase = "write" /\ Partitions = 1
       /\ file' = [file EXCEPT !.first = from % 2 ^ CeilLog2(universe),
                               !.delta = IF n = 1 \/ from + back + 1 = universe THEN 0 ELSE back,
                               !.bases = <<Base(0, n, from)>>]
       /\ phase' = "open"
       /\ UNCHANGED <<sequence, uniform, cuts, e, call>>

\* One turn of the loop over the partitions.
WritePartition ==
    LET p == Written
        base == Base(IF p = 0 THEN 0 ELSE Cut(p - 1), Cut(p),
                     IF p = 0 THEN LastUpper ELSE LastUpper + 1)
    IN /\ phase = "write" /\ Partitions > 1 /\ p < Partitions
       /\ file' = [file EXCEPT !.bases = Append(@, base),
                               !.size = @ + BaseBits(base),
                               !.endpoints = Append(@, file.size + BaseBits(base)),
                               !.uppers = Append(@, sequence.values[Cut(p) - 1])]
       /\ UNCHANGED <<sequence, uniform, cuts, phase, e, call>>

WriteEnd ==
    /\ phase = "write" /\ Partitions > 1 /\ Written = Partitions
    /\ file' = [file EXCEPT !.endpoints =
           [p \in 1 .. Partitions - 1 |-> @[p] % 2 ^ CeilLog2(file.size + 1)]]
    /\ phase' = "open"
    /\ UNCHANGED <<sequence, uniform, cuts, e, call>>

-----------------------------------------------------------------------------
(* Reading *)

Nothing == [values |-> <<>>, universe |-> 0]    \* bits that are no sequence

\* The base enumerator at an offset, of the universe and the length it is told.
Offset(p) == IF p = 1 THEN 0 ELSE file.endpoints[p - 1]
BaseAt(offset, u, m) ==
    LET stored == {p \in 1 .. Partitions : BaseBits(file.bases[p]) > 0 /\ Offset(p) = offset}
    IN IF u = m THEN [values |-> [i \in 0 .. m - 1 |-> i], universe |-> u]
       ELSE IF \E p \in stored : file.bases[p].universe = u /\ Abstract!Size(file.bases[p]) = m
       THEN file.bases[Min(stored)]
       ELSE Nothing

\* switch_partition
Begin(p) == IF uniform THEN p * 2 ^ LogPartitionSize ELSE IF p = 0 THEN 0 ELSE Cut(p - 1)
End(p) == IF uniform THEN Min({n, (p + 1) * 2 ^ LogPartitionSize}) ELSE Cut(p)

Switched(x, p) ==
    LET base == file.uppers[p + 1] + (IF p = 0 THEN 0 ELSE 1)
    IN [x EXCEPT !.partition = p, !.begin = Begin(p), !.end = End(p),
                 !.upperAt = p + 1, !.upper = file.uppers[p + 2], !.base = base,
                 !.seq = BaseAt(IF p = 0 THEN 0 ELSE file.endpoints[p],
                                file.uppers[p + 2] - base + 1, End(p) - Begin(p)),
                 !.at = End(p) - Begin(p)]

\* The base cursor goes to `at', and the pair that is returned is of there.
BaseMoved(x, at) ==
    [x EXCEPT !.at = at, !.position = x.begin + at,
              !.value = IF at \in DOMAIN x.seq.values THEN x.base + x.seq.values[at]
                        ELSE x.base + x.seq.universe]
ToEnd(x) == [x EXCEPT !.position = n, !.value = universe, !.at = Abstract!Size(x.seq)]

SlowMove(x, p) ==
    IF p = n
    THEN ToEnd(IF Partitions > 1 THEN Switched(x, Partitions - 1) ELSE x)
    ELSE LET q == IF uniform THEN p \div 2 ^ LogPartitionSize
                  ELSE Cardinality({c \in cuts : c <= p})      \* m_sizes.next_geq
             y == Switched(x, q)
         IN BaseMoved(y, p - y.begin)
Moved(x, p) == IF x.begin <= p /\ p < x.end THEN BaseMoved(x, p - x.begin) ELSE SlowMove(x, p)

Inside(x, bound) == x.base <= bound /\ bound <= x.upper
GeqInside(x, bound) == BaseMoved(x, Abstract!FirstGeq(x.seq, bound - x.base))

\* The last step of slow_next_geq is next_geq again, where only the direct way
\* is meant to be left.
Lost(x) == [x EXCEPT !.position = n + 1]
SlowNextGeq(x, bound) ==
    LET u == IF bound = file.uppers[x.upperAt + 1] THEN x.upperAt   \* m_upper_bounds.next_geq
             ELSE Cardinality({i \in 1 .. Partitions + 1 : file.uppers[i] < bound})
        y == [x EXCEPT !.upperAt = u]
        z == Switched(y, u - 1)
    IN IF Partitions = 1 THEN Moved(x, IF bound < x.base THEN 0 ELSE n)
       ELSE IF u = 0 THEN Moved(y, 0)
       ELSE IF u = Partitions + 1 THEN Moved(y, n)
       ELSE IF Inside(z, bound) THEN GeqInside(z, bound) ELSE Lost(z)
Geq(x, bound) == IF Inside(x, bound) THEN GeqInside(x, bound) ELSE SlowNextGeq(x, bound)

Advanced(x) ==
    LET p == x.position + 1
    IN IF p < x.end THEN BaseMoved(x, x.at + 1)
       ELSE IF p = n THEN [x EXCEPT !.position = n, !.value = universe, !.at = @ + 1]
       ELSE BaseMoved(Switched(x, x.partition + 1), 0)

PrevValue_OfPartition(x) ==
    IF x.position = x.begin THEN 0
    ELSE x.base + (IF x.at = 0 THEN 0 ELSE x.seq.values[x.at - 1])
PrevValue(x) ==
    IF x.position = x.begin
    THEN IF x.partition = 0 THEN 0 ELSE x.base - 1
    ELSE x.base + (IF x.at = 0 THEN 0 ELSE x.seq.values[x.at - 1])

Unset == [position |-> n, value |-> universe, partition |-> 0, begin |-> 0, end |-> n,
          base |-> 0, upper |-> 0, upperAt |-> 0, seq |-> Nothing, at |-> 0]

\* What an int keeps of a number of 64 bits.
Narrow(x) == ((x + IntLimit) % (2 * IntLimit)) - IntLimit

\* The constructor, which ends with slow_move to the end.
Open ==
    LET ub == IF n = 1 THEN 0
              ELSE Narrow(IF file.delta = 0 THEN universe - file.first - 1 ELSE file.delta)
    IN /\ phase = "open" /\ phase' = "read"
       /\ e' = IF Partitions = 1
               THEN ToEnd([Unset EXCEPT !.base = file.first, !.upper = file.first + ub,
                                        !.seq = BaseAt(0, ub + 1, n)])
               ELSE SlowMove(Unset, n)
       /\ UNCHANGED <<sequence, uniform, cuts, file, call>>

Calls(name, argument) ==
    phase = "read" /\ call' = <<name, argument>> /\ UNCHANGED <<sequence, uniform, cuts, phase, file>>
Move == \E p \in 0 .. n : Calls("move", p) /\ e' = Moved(e, p)
NextGeq == \E bound \in 0 .. universe + Beyond : Calls("next_geq", bound) /\ e' = Geq(e, bound)
Advance == e.position < n /\ Calls("next", 0) /\ e' = Advanced(e)

Init == /\ sequence \in Inputs /\ uniform \in BOOLEAN
        /\ cuts \in IF uniform
                    THEN {{Min({n, k * 2 ^ LogPartitionSize}) : k \in 1 .. n}}
                    ELSE {C \cup {n} : C \in SUBSET (1 .. n - 1)}
        /\ phase = "write" /\ e = Unset /\ call = <<"none", 0>>
        /\ file = [first |-> 0, delta |-> 0, bases |-> <<>>, size |-> 0, endpoints |-> <<>>,
                   uppers |-> <<sequence.values[0]>>]

Next == WriteSingle \/ WritePartition \/ WriteEnd \/ Open \/ Move \/ NextGeq \/ Advance

Spec == Init /\ [][Next]_vars

-----------------------------------------------------------------------------
(* Properties *)

\* The bounds the enumerator keeps are those of the partition it is in, the base
\* enumerator is the one written for it, and the cursor in it is where the
\* position is: also after a switch on the way to somewhere else.
CursorsTogether ==
    phase = "read" =>
        LET b == file.bases[e.partition + 1]
        IN /\ e.position = e.begin + e.at
           /\ e.position = n => e.partition = Partitions - 1
           /\ e.seq = b
           /\ e.base + b.universe - 1 = e.upper

\* The partition that slow_next_geq switches to holds the bound: next_geq, which
\* it calls again, does not come back to it.
SwitchHits == e.position <= n

\* Every call leads where the abstract cursor goes: from each partition into
\* each other one, to the gaps between two and to both ends; for bounds beyond
\* the universe too, as those never reach m_upper_bounds at its own end nor a
\* base enumerator.
View == IF phase # "read" THEN Abstract!At(sequence, n)
        ELSE [position |-> e.position, value |-> e.value, previous |-> PrevValue(e)]
Whole == INSTANCE SequenceCursor WITH cursor <- View
RefinesCursor == Whole!Spec

-----------------------------------------------------------------------------
(* The inductive invariant, of which Sequences_proofs shows that it is one. *)

\* What is assumed of the constants.
Assumed == PartitionedAssumption /\ InputsAssumption

\* What Init takes as the ends of the partitions.
CutsOK ==
    /\ cuts \in SUBSET (1 .. n) /\ n \in cuts
    /\ uniform => cuts = {Min({n, k * 2 ^ LogPartitionSize}) : k \in 1 .. n}

\* Where partition p begins, the number its values are relative to, and what is
\* written of it.
First(p) == IF p = 0 THEN 0 ELSE Cut(p - 1)
FromOf(p) == IF p = 0 THEN sequence.values[0] ELSE sequence.values[First(p) - 1] + 1
BaseOf(p) == Base(First(p), Cut(p), FromOf(p))

\* The partition of position x.
PartOf(x) == Cardinality({c \in cuts : c <= x})

Valid == Assumed /\ sequence \in Inputs /\ CutsOK
Length(p) == Cut(p) - First(p)

\* The file, and what of it the enumerator relies on: the partitions, each at an
\* offset of its own if it takes bits, and the bounds that lead to them.
AllBases == {BaseOf(p) : p \in 0 .. Partitions - 1}
FileType == [first : Nat, delta : Nat, bases : Seq(AllBases), size : Nat,
             endpoints : Seq(Nat), uppers : Seq(Nat)]

UpperOf(p) == IF p = 1 THEN sequence.values[0] ELSE sequence.values[Cut(p - 2) - 1]
EndAt(p) == IF p = 0 THEN 0 ELSE file.endpoints[p]
SingleUpper == IF n = 1 THEN 0
               ELSE Narrow(IF file.delta = 0 THEN universe - file.first - 1 ELSE file.delta)

Stored ==
    /\ file \in FileType /\ Len(file.bases) = Partitions
    /\ \A p \in 0 .. Partitions - 1 :
          file.bases[p + 1] = BaseOf(p) /\ (Partitions > 1 => EndAt(p) \in Nat)
    /\ \A p, q \in 0 .. Partitions - 1 :
          p < q => EndAt(p) + BaseBits(BaseOf(p)) <= EndAt(q)
    /\ Partitions > 1 => /\ Len(file.uppers) = Partitions + 1
                         /\ \A p \in 1 .. Partitions + 1 : file.uppers[p] = UpperOf(p)
    /\ Partitions = 1 => /\ file.first = sequence.values[0]
                         /\ file.first + SingleUpper = sequence.values[n - 1]

EnumType == [position : Nat, value : Nat, partition : Nat, begin : Nat, end : Nat,
             base : Nat, upper : Nat, upperAt : Nat, seq : AllBases \cup {Nothing}, at : Nat]

\* What an enumerator keeps of partition p, and of the upper bounds; that it
\* stands at position q of the sequence, or at its end.
In(x, p) ==
    /\ x \in EnumType /\ p \in 0 .. Partitions - 1
    /\ x.partition = p /\ x.begin = First(p) /\ x.end = Cut(p)
    /\ x.base = FromOf(p) /\ x.upper = sequence.values[Cut(p) - 1] /\ x.seq = BaseOf(p)

UppersKept(x) ==
    Partitions > 1 => x.upperAt = x.partition + 1 \/ (x.upperAt = 0 /\ x.partition = 0)
ValueAt(q) == IF q >= n THEN universe ELSE sequence.values[q]
Stands(x, q) ==
    /\ q \in 0 .. n
    /\ In(x, x.partition)
    /\ x.position = q /\ x.value = ValueAt(q)
    /\ q = x.begin + x.at /\ q <= x.end /\ (q = x.end => q = n)

\* What is written so far, before the last partition ends the file.
Writing ==
    /\ file \in FileType
    /\ Written <= Partitions /\ (Partitions = 1 => Written = 0)
    /\ Len(file.endpoints) = Written /\ Len(file.uppers) = Written + 1
    /\ \A p \in 0 .. Written - 1 : file.bases[p + 1] = BaseOf(p)
    /\ \A p \in 0 .. Written : EndAt(p) <= file.size
    /\ EndAt(Written) = file.size
    /\ \A p, q \in 0 .. Written : p < q => EndAt(p) + BaseBits(BaseOf(p)) <= EndAt(q)
    /\ \A p \in 1 .. Written + 1 : file.uppers[p] = UpperOf(p)

Phases == {"write", "open", "read"}

\* x names what e is, so that it can be spoken of before and after a step.
Standing == \E x, q : e = x /\ Stands(x, q) /\ UppersKept(x)

PartitionedInv ==
    /\ sequence \in Inputs /\ CutsOK /\ phase \in Phases
    /\ phase = "write" => Writing
    /\ phase # "write" => Stored
    /\ phase # "read" => e = Unset
    /\ phase = "read" => Standing
=============================================================================
