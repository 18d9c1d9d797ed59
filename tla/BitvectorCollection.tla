------------------------- MODULE BitvectorCollection -------------------------
(***************************************************************************)
(* bitvector_collection: bitvectors one behind the other, and the places   *)
(* they begin at -- one more than there are, of which build() drops the    *)
(* last -- as a compact_elias_fano sequence.  A collection is the sequence *)
(* of what was appended, each with the bits it takes.                      *)
(***************************************************************************)
EXTENDS Naturals, Sequences, FiniteSets, FiniteSetsExt

Msb(x) == CHOOSE k \in 0 .. x : 2 ^ k <= x /\ x < 2 ^ (k + 1)
CeilLog2(x) == IF x > 1 THEN Msb(x - 1) + 1 ELSE 0
GammaBits(x) == 2 * Msb(x + 1) + 1              \* write_gamma

\* The sums of the first numbers of w, from none to all of them.
Sums(w) == LET sum[i \in 0 .. Len(w)] == IF i = 0 THEN 0 ELSE sum[i - 1] + w[i] IN sum
Bits(c, k) == Sums([i \in 1 .. Len(c) |-> c[i].size])[k]

\* m_endpoints, and what build() writes of it
Endpoints(c) == [k \in 1 .. Len(c) + 1 |-> Bits(c, k - 1)]
Stored(c) == SubSeq(Endpoints(c), 1, Len(c))

\* What begins at the i-th endpoint, counted from 0.
Get(c, i) == LET at == {k \in 1 .. Len(c) : Endpoints(c)[k] = Stored(c)[i + 1]}
             IN IF at = {} THEN [size |-> 0] ELSE c[Max(at)]

\* compact_elias_fano::write asks for values that do not decrease and are below
\* the universe, here the size of all bitvectors together.
Encodable(c) == /\ \A k \in 1 .. Len(c) : Stored(c)[k] < Bits(c, Len(c))
                /\ \A k \in 2 .. Len(c) : Stored(c)[k - 1] <= Stored(c)[k]
=============================================================================
