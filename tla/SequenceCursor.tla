--------------------------- MODULE SequenceCursor ---------------------------
(***************************************************************************)
(* What every enumerator of a sequence promises (value_type, a pair of a   *)
(* position and a value, in all the sequences of ds2i): the cursor stands  *)
(* at a position of the sequence or at its end, where the value is the     *)
(* universe.  move goes to a position, next to the following one and       *)
(* next_geq to the first value that is not smaller than a bound -- but     *)
(* stays where it is when the bound is the value it stands at.  A bound     *)
(* beyond the universe leads to the end.  Two of the enumerators break     *)
(* this at the end itself: there such a bound may move them one further    *)
(* (Stray), to a position that the sequence does not have.                 *)
(***************************************************************************)
EXTENDS Naturals, FiniteSets, FiniteSetsExt

CONSTANT
    Beyond          \* how far beyond the universe bounds are asked for

VARIABLES
    sequence,       \* [values |-> a function on 0 .. n - 1, universe |-> ...]
    cursor,         \* the position, the value and prev_value()
    call            \* the last call: its name and its argument

Size(s) == Cardinality(DOMAIN s.values)

\* What is stored: at least one value, all below the universe, and in most of
\* the representations increasing ones.
IsSequence(s) ==
    /\ s.universe \in Nat /\ Size(s) \in Nat \ {0}
    /\ s.values \in [0 .. Size(s) - 1 -> 0 .. s.universe - 1]
IsIncreasing(s) ==
    IsSequence(s) /\ \A i, j \in DOMAIN s.values : i < j => s.values[i] < s.values[j]

\* The cursor at position p of s, or past its end, where it is as at the end.
At(s, p) == [position |-> p,
             value |-> IF p >= Size(s) THEN s.universe ELSE s.values[p],
             previous |-> IF p = 0 THEN 0
                          ELSE s.values[(IF p > Size(s) THEN Size(s) ELSE p) - 1]]

\* The first position of s with a value of at least bound, or the end.
FirstGeq(s, bound) ==
    Min({Size(s)} \cup {p \in DOMAIN s.values : s.values[p] >= bound})

Init == /\ cursor = At(sequence, Size(sequence))
        /\ call = <<"none", 0>>

Move(p) ==
    /\ call' = <<"move", p>>
    /\ cursor' = At(sequence, p)

NextGeq(bound) ==
    /\ call' = <<"next_geq", bound>>
    /\ cursor' = IF bound = cursor.value THEN cursor
                 ELSE At(sequence, FirstGeq(sequence, bound))

Advance ==
    /\ cursor.position < Size(sequence)
    /\ call' = <<"next", 0>>
    /\ cursor' = At(sequence, cursor.position + 1)

Next == /\ UNCHANGED sequence
        /\ \/ \E p \in 0 .. Size(sequence) : Move(p)
           \/ \E bound \in 0 .. sequence.universe + Beyond : NextGeq(bound)
           \/ Advance

Spec == Init /\ [][Next]_<<sequence, cursor, call>>

\* From the end, and from where it has strayed to before, the cursor may be led
\* one position further by a bound beyond the universe.
Stray(bound) ==
    /\ cursor.position >= Size(sequence) /\ bound > sequence.universe
    /\ call' = <<"next_geq", bound>>
    /\ cursor' = At(sequence, cursor.position + 1)

StrayNext == UNCHANGED sequence /\ \E bound \in 0 .. sequence.universe + Beyond : Stray(bound)

StrayingSpec == Init /\ [][Next \/ StrayNext]_<<sequence, cursor, call>>
=============================================================================
