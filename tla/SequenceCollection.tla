-------------------------- MODULE SequenceCollection --------------------------
(***************************************************************************)
(* sequence_collection: sequences of which only the logarithm of the last  *)
(* element and the length are kept, so that the universe they are written  *)
(* and read with is a power of two and one.                                *)
(***************************************************************************)
EXTENDS BitvectorCollection

CONSTANTS
    Inputs,         \* tuples, strictly increasing
    MaxSequences    \* bound

InputsAssumption ==
    /\ MaxSequences \in Nat
    /\ \A values \in Inputs :
           /\ values \in Seq(Nat) /\ values # <<>>
           /\ \A i \in 1 .. Len(values) : values[i] <= values[Len(values)]

VARIABLES added, stored, built, read

vars == <<added, stored, built, read>>

Universe(last) == 2 ^ CeilLog2(last) + 1
Prepared(values, last) ==
    [universeBits |-> CeilLog2(last), n |-> Len(values), values |-> values,
     universe |-> Universe(last),
     size |-> GammaBits(CeilLog2(last)) + GammaBits(Len(values) - 1)
                  + (IF Universe(last) = Len(values) THEN 0 ELSE Universe(last) + 1)]

\* add_sequence, for a caller that gives the last element or one more.
AddSequence(values, last) ==
    /\ ~built /\ Len(added) < MaxSequences /\ last > 0
    /\ added' = Append(added, values)
    /\ stored' = Append(stored, Prepared(values, last))
    /\ UNCHANGED <<built, read>>

Build == ~built /\ added # <<>> /\ built' = TRUE /\ UNCHANGED <<added, stored, read>>

Open(i) == LET s == Get(stored, i) IN
    /\ built
    /\ read' = [list |-> i + 1, universe |-> 2 ^ s.universeBits + 1, n |-> s.n,
                values |-> s.values]
    /\ UNCHANGED <<added, stored, built>>

Init == added = <<>> /\ stored = <<>> /\ built = FALSE /\ read = [list |-> 0]

Next == \/ \E values \in Inputs : \E last \in {values[Len(values)], values[Len(values)] + 1} :
               AddSequence(values, last)
        \/ Build
        \/ \E i \in 0 .. Len(added) - 1 : Open(i)

Spec == Init /\ [][Next]_vars

-----------------------------------------------------------------------------
(* Properties *)

\* The universe that stands for the last element is above every value (the
\* assert of compact_elias_fano::write), for powers of two as for the others,
\* and the beginnings of the sequences can be written.
AllEncodable ==
    /\ \A k \in 1 .. Len(stored) : \A i \in 1 .. Len(added[k]) : added[k][i] < stored[k].universe
    /\ built => Encodable(stored)

\* The enumerator is made with the universe and the length of the writer: a
\* sequence that fills its universe is known by them alone.
ReadAsWritten ==
    read.list > 0 =>
        /\ read.n = Len(added[read.list]) /\ read.values = added[read.list]
        /\ read.universe = stored[read.list].universe
=============================================================================
