--------------------------- MODULE IndexedSequence ---------------------------
(***************************************************************************)
(* indexed_sequence and strict_sequence: of two representations the one    *)
(* that takes fewer bits, told apart by one bit in front -- unless the     *)
(* sequence fills its universe: then nothing at all is written, and the    *)
(* reader knows by the universe and the length alone.  The sizes have to   *)
(* be exact, as the ones who lay out several sequences compute their       *)
(* offsets with them.  EliasFano (which is also strict_elias_fano) and     *)
(* RankedBitvector model the representations; here they are cursors.       *)
(***************************************************************************)
EXTENDS Naturals, FiniteSets, FiniteSetsExt

CONSTANTS
    Inputs,         \* strictly increasing sequences: [values, universe]
    Params,         \* global_parameters: records of the four samplings
    NoSampling,     \* 63 in strict_params
    Beyond,         \* as of EliasFano
    Infinity        \* uint64_t(-1), a cost

VARIABLES
    sequence,
    strict,         \* the type: strict_sequence or indexed_sequence
    params, phase,
    typeBit,        \* what append_bits wrote: a set of at most one bit
    size,           \* the bits appended
    type, cursor,   \* of the enumerator
    call

vars == <<sequence, strict, params, phase, typeBit, size, type, cursor, call>>

Abstract == INSTANCE SequenceCursor

InputsAssumption == \A s \in Inputs : Abstract!IsIncreasing(s)

Msb(x) == CHOOSE k \in 0 .. x : 2 ^ k <= x /\ x < 2 ^ (k + 1)
CeilLog2(x) == IF x > 1 THEN Msb(x - 1) + 1 ELSE 0
Sampled(count, log) == IF log >= NoSampling THEN 0 ELSE count \div 2 ^ log

\* compact_elias_fano::bitsize
EliasFanoBits(ps, u, m) ==
    LET lower == IF u > m THEN Msb(u \div m) ELSE 0
        higher == m + u \div 2 ^ lower + 2
    IN (Sampled(higher - m, ps.ef0) + Sampled(m, ps.ef1)) * CeilLog2(higher)
           + higher + m * lower
\* compact_ranked_bitvector::bitsize
RankedBits(ps, u, m) ==
    Sampled(u, ps.rb0) * CeilLog2(m + 1) + Sampled(m, ps.rb1) * CeilLog2(u) + u

\* The parameters are numbers, and no cost comes near that of what is impossible.
SizesAssumption ==
    /\ NoSampling \in Nat /\ Infinity \in Nat /\ Beyond \in Nat
    /\ Params \subseteq [ef0 : Nat, ef1 : Nat, rb0 : Nat, rb1 : Nat]
    /\ \A s \in Inputs : \A ps \in Params :
           RankedBits(ps, s.universe, Abstract!Size(s)) < Infinity

SampledAs(ps) == IF strict THEN [ps EXCEPT !.ef0 = NoSampling, !.rb0 = NoSampling] ELSE ps

\* What all_ones, elias_fano and ranked_bitvector take, without the type bit.
AllOnesBits(u, m) == IF u = m THEN 0 ELSE Infinity
Bits(t, ps, u, m) ==
    CASE t = "all_ones" -> AllOnesBits(u, m)
      [] t = "elias_fano" -> EliasFanoBits(SampledAs(ps), IF strict THEN u - m + 1 ELSE u, m)
      [] t = "ranked_bitvector" -> RankedBits(SampledAs(ps), u, m)

\* bitsize(), type_bits being 1
BitSize(ps, u, m) ==
    Min({Bits("all_ones", ps, u, m), Bits("elias_fano", ps, u, m) + 1,
           Bits("ranked_bitvector", ps, u, m) + 1})

u0 == sequence.universe
n == Abstract!Size(sequence)

Write ==
    LET t == IF AllOnesBits(u0, n) = 0 THEN "all_ones"
             ELSE IF Bits("ranked_bitvector", params, u0, n) < Bits("elias_fano", params, u0, n)
             THEN "ranked_bitvector" ELSE "elias_fano"
    IN /\ phase = "write" /\ phase' = "read"
       /\ typeBit' = IF t = "all_ones" THEN {} ELSE {IF t = "elias_fano" THEN 0 ELSE 1}
       /\ size' = Bits(t, params, u0, n) + Cardinality(typeBit')
       /\ UNCHANGED <<sequence, strict, params, type, cursor, call>>

\* The constructor of the enumerator: the type is that of the universe and the
\* length it is given, or the bit at its offset.
Open ==
    /\ phase = "read" /\ phase' = "open"
    /\ type' = IF AllOnesBits(u0, n) = 0 THEN "all_ones"
               ELSE IF typeBit = {0} THEN "elias_fano" ELSE "ranked_bitvector"
    /\ UNCHANGED <<sequence, strict, params, typeBit, size, cursor, call>>

-----------------------------------------------------------------------------
(* The calls: all_ones_sequence, or one of the other enumerators *)

AllOnesAt(p) == [position |-> p, value |-> p, previous |-> IF p = 0 THEN 0 ELSE p - 1]

Go(name, argument, p) ==
    /\ phase = "open"
    /\ call' = <<name, argument>>
    /\ cursor' = IF type = "all_ones" THEN AllOnesAt(p) ELSE Abstract!At(sequence, p)
    /\ UNCHANGED <<sequence, strict, params, phase, typeBit, size, type>>

Move == \E p \in 0 .. n : Go("move", p, p)
\* all_ones_sequence asserts that the bound is not beyond its universe; the two
\* others may stray.  A bound that is the value where one strayed to keeps it.
NextGeq == ~strict /\ \E bound \in 0 .. u0 + Beyond :
    \/ type = "all_ones" /\ bound <= u0 /\ Go("next_geq", bound, bound)
    \/ type # "all_ones" /\ Go("next_geq", bound, IF bound = cursor.value THEN cursor.position
                                                  ELSE Abstract!FirstGeq(sequence, bound))
    \/ /\ type # "all_ones" /\ bound > u0 /\ n <= cursor.position /\ cursor.position < n + Beyond
       /\ Go("next_geq", bound, cursor.position + 1)
Advance == cursor.position < n /\ Go("next", 0, cursor.position + 1)

Init == /\ sequence \in Inputs /\ strict \in BOOLEAN /\ params \in Params
        /\ phase = "write" /\ typeBit = {} /\ size = 0 /\ type = "none"
        /\ cursor = Abstract!At(sequence, n) /\ call = <<"none", 0>>

Next == Write \/ Open \/ Move \/ NextGeq \/ Advance

Spec == Init /\ [][Next]_vars

-----------------------------------------------------------------------------
(* Properties *)

\* What is written takes as many bits as bitsize() tells whoever lays it out.
SizeAsAnnounced == phase # "write" => size = BitSize(params, u0, n)

\* Strict sequences write no sample of zeros or ranks: their size does not
\* depend on these samplings.
StrictUnsampled ==
    strict /\ phase # "write" =>
        \A ps \in Params : (ps.ef1 = params.ef1 /\ ps.rb1 = params.rb1)
            => size = BitSize(ps, u0, n)

\* The enumerator is a cursor in the sequence, of a full universe too where
\* nothing was written.
RefinesCursor == Abstract!StrayingSpec
=============================================================================
