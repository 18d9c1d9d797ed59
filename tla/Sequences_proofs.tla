-------------------------- MODULE Sequences_proofs --------------------------
(***************************************************************************)
(* Proofs about the compressed sequences of ds2i, for all their inputs and *)
(* parameters.  MCSequences gives each part an inductive invariant of its  *)
(* own: PartitionedInv, RankedInv, PlainInv (also of strict_elias_fano),   *)
(* IndexedInv, IndexInv, CollectionInv and LoopInv.  PartInv composes      *)
(* them, and the theorems at the end take from it what MCSequences states. *)
(***************************************************************************)
EXTENDS MCSequences, FiniteSetTheorems, WellFoundedInduction, TLAPS

------------------------------
(* Numbers. *)

\* Naturals of which there is one have a least one, which is their Min.
LEMMA LeastNat ==
  ASSUME NEW S, S \subseteq Nat, S # {}
  PROVE \E x \in S : \A y \in S : x <= y
<1>1. PICK x \in S : \A y \in S : ~(<<y, x>> \in OpToRel(<, Nat))  BY NatLessThanWellFounded, WFMin
<1>2. \A y \in S : ~(y < x)  BY <1>1 DEF OpToRel
<1> QED BY <1>2

LEMMA MinFacts ==
  ASSUME NEW S, S \subseteq Nat, S # {}
  PROVE Min(S) \in S /\ \A x \in S : Min(S) <= x
BY LeastNat DEF Min

\* Naturals that have a bound, and of which there is one, have a greatest.
LEMMA GreatestNat ==
  ASSUME NEW S, S \subseteq Nat, S # {}, NEW top \in Nat, \A x \in S : x <= top
  PROVE \E x \in S : \A y \in S : y <= x
<1> DEFINE D == {top - x : x \in S}
<1>1. D \subseteq Nat /\ D # {}
 <2>1. ASSUME NEW d \in D PROVE d \in Nat
  <3>1. PICK x \in S : d = top - x  OBVIOUS
  <3>2. x \in Nat /\ x <= top  OBVIOUS
  <3> QED BY <3>1, <3>2
 <2>2. D # {}  OBVIOUS
 <2> QED BY <2>1, <2>2
<1>2. PICK d \in D : \A y \in D : d <= y  BY <1>1, LeastNat
<1>3. PICK x \in S : d = top - x  OBVIOUS
<1>4. \A y \in S : top - x <= top - y  BY <1>2, <1>3
<1> QED BY <1>4

\* What holds of the first number, and of each number behind one it holds of, holds of all of them.
LEMMA Upwards ==
  ASSUME NEW m \in Nat, NEW S, 0 \in S, \A i \in 0 .. m - 1 : i \in S => i + 1 \in S
  PROVE \A i \in 0 .. m : i \in S
<1> DEFINE T == {i \in 0 .. m : i \notin S}
<1> SUFFICES ASSUME T # {} PROVE FALSE  OBVIOUS
<1>1. PICK i \in T : \A y \in T : i <= y
 <2>1. T \subseteq Nat  OBVIOUS
 <2> QED BY <2>1, LeastNat
<1>2. i # 0 /\ i - 1 \in 0 .. m - 1  BY <1>1
<1>3. i - 1 \in S  BY <1>1, <1>2
<1> QED BY <1>1, <1>2, <1>3

\* The powers of two are positive, grow, and grow beyond every number.
LEMMA PowerFacts ==
  ASSUME NEW k \in Nat
  PROVE /\ Power(k) \in Nat \ {0} /\ k < Power(k)
        /\ \A j \in Nat : j <= k => Power(j) <= Power(k)
<1>1. ASSUME NEW j \in Nat
      PROVE IsFiniteSet(SUBSET (1 .. j)) /\ Cardinality(SUBSET (1 .. j)) = Power(j)
 <2>1. IsFiniteSet(1 .. j) /\ Cardinality(1 .. j) = j  BY FS_Interval
 <2>2. IsFiniteSet(SUBSET (1 .. j)) /\ Cardinality(SUBSET (1 .. j)) = 2 ^ Cardinality(1 .. j)
   BY <2>1, FS_SUBSET
 <2> QED BY <2>1, <2>2, Zenon DEF Power
<1>2. Power(k) \in Nat  BY <1>1, FS_CardinalityType
<1>3. k < Power(k)
 <2> DEFINE f == [i \in 0 .. k |-> IF i = 0 THEN {} ELSE {i}]
 <2>1. f \in [0 .. k -> SUBSET (1 .. k)]
  <3>1. ASSUME NEW i \in 0 .. k PROVE (IF i = 0 THEN {} ELSE {i}) \in SUBSET (1 .. k)  OBVIOUS
  <3> QED BY <3>1
 <2>2. f \in Injection(0 .. k, SUBSET (1 .. k))
  <3>1. \A i, j \in 0 .. k : f[i] = f[j] => i = j  OBVIOUS
  <3> HIDE DEF f
  <3> QED BY <2>1, <3>1 DEF Injection, IsInjective
 <2>3. Cardinality(0 .. k) <= Cardinality(SUBSET (1 .. k))  BY <1>1, <2>2, FS_Injection
 <2>4. Cardinality(0 .. k) = k + 1  BY FS_Interval
 <2>5. Cardinality(SUBSET (1 .. k)) = Power(k)  BY <1>1
 <2> QED BY <1>2, <2>3, <2>4, <2>5
<1>4. ASSUME NEW j \in Nat, j <= k PROVE Power(j) <= Power(k)
 <2>1. SUBSET (1 .. j) \in SUBSET (SUBSET (1 .. k))  BY <1>4
 <2>2. Cardinality(SUBSET (1 .. j)) <= Cardinality(SUBSET (1 .. k))  BY <1>1, <2>1, FS_Subset
 <2> QED BY <1>1, <2>2
<1> QED BY <1>2, <1>3, <1>4

\* The most significant bit of a number.
LEMMA MsbFacts ==
  ASSUME NEW x \in Nat, x > 0
  PROVE Msb(x) \in 0 .. x /\ Power(Msb(x)) <= x /\ x < Power(Msb(x) + 1)
<1> DEFINE S == {k \in 0 .. x : x < Power(k + 1)}
<1>1. x \in S
 <2>1. x + 1 < Power(x + 1) /\ Power(x + 1) \in Nat  BY PowerFacts
 <2> QED BY <2>1
<1>2. PICK k \in S : \A y \in S : k <= y
 <2>1. S \subseteq Nat  OBVIOUS
 <2> QED BY <1>1, <2>1, LeastNat
<1>3. Power(k) <= x
 <2>1. CASE k = 0
  <3>1. 2 ^ 0 = 1  OBVIOUS
  <3> QED BY <2>1, <3>1 DEF Power
 <2>2. CASE k # 0
  <3>1. k - 1 \in 0 .. x /\ k - 1 \notin S /\ (k - 1) + 1 = k  BY <1>2, <2>2
  <3>2. ~(x < Power((k - 1) + 1))  BY <3>1
  <3>3. Power(k) \in Nat  BY PowerFacts
  <3> QED BY <3>1, <3>2, <3>3
 <2> QED BY <2>1, <2>2
<1>4. \E m \in 0 .. x : Power(m) <= x /\ x < Power(m + 1)  BY <1>2, <1>3
<1>5. Msb(x) = CHOOSE m \in 0 .. x : Power(m) <= x /\ x < Power(m + 1)  BY Zenon DEF Msb, Power
<1> QED BY <1>4, <1>5

\* What is smaller than y fits a field of ceil_log2(y) bits.
LEMMA FieldHolds ==
  ASSUME NEW x \in Nat, NEW y \in Nat, x < y
  PROVE x % 2 ^ CeilLog2(y) = x
<1> DEFINE z == Power(CeilLog2(y))
<1>1. z \in Nat /\ x < z
 <2>1. CASE y > 1
  <3>1. y - 1 \in Nat /\ y - 1 > 0 /\ CeilLog2(y) = Msb(y - 1) + 1  BY <2>1 DEF CeilLog2
  <3>2. y - 1 < Power(CeilLog2(y)) /\ CeilLog2(y) \in Nat  BY <3>1, MsbFacts
  <3>3. Power(CeilLog2(y)) \in Nat \ {0}  BY <3>2, PowerFacts
  <3> QED BY <3>2, <3>3
 <2>2. CASE y = 1
  <3>1. x = 0 /\ CeilLog2(y) = 0  BY <2>2 DEF CeilLog2
  <3> QED BY <3>1, PowerFacts
 <2> QED BY <2>1, <2>2
<1> HIDE DEF z
<1>2. x % z = x  BY <1>1
<1> QED BY <1>2, Zenon DEF z, Power

\* m numbers below m that increase are 0, 1, ... m - 1.
LEMMA FullIsIdentity ==
  ASSUME NEW m \in Nat, NEW f \in [0 .. m - 1 -> Nat],
         \A i \in 0 .. m - 1 : f[i] < m,
         \A i, j \in 0 .. m - 1 : i < j => f[i] < f[j]
  PROVE f = [i \in 0 .. m - 1 |-> i]
<1>1. ASSUME NEW i \in 0 .. m - 1 PROVE f[i] >= i
 <2> DEFINE S == {j \in 0 .. m - 1 : f[j] < j}
 <2> SUFFICES ASSUME S # {} PROVE FALSE  OBVIOUS
 <2>1. PICK j \in S : \A y \in S : j <= y
  <3>1. S \subseteq Nat  OBVIOUS
  <3> QED BY <3>1, LeastNat
 <2>2. j > 0 /\ j - 1 \in 0 .. m - 1 /\ j - 1 \notin S  BY <2>1
 <2> QED BY <2>1, <2>2
<1>2. ASSUME NEW i \in 0 .. m - 1 PROVE f[i] <= i
 <2> DEFINE S == {j \in 0 .. m - 1 : f[j] > j}
 <2> SUFFICES ASSUME S # {} PROVE FALSE  OBVIOUS
 <2>1. PICK j \in S : \A y \in S : y <= j
  <3>1. S \subseteq Nat /\ \A x \in S : x <= m  OBVIOUS
  <3> HIDE DEF S
  <3> QED BY <3>1, GreatestNat
 <2>2. CASE j = m - 1  BY <2>1, <2>2
 <2>3. CASE j # m - 1
  <3>1. j + 1 \in 0 .. m - 1 /\ j + 1 \notin S  BY <2>1, <2>3
  <3> QED BY <2>1, <3>1
 <2> QED BY <2>2, <2>3
<1>3. \A i \in 0 .. m - 1 : f[i] = i  BY <1>1, <1>2
<1> QED BY <1>3

------------------------------
(* Finite sets of numbers. *)

\* Elements are told apart by their rank, and every rank is that of one.
LEMMA RankFacts ==
  ASSUME NEW C, IsFiniteSet(C), C \subseteq Nat
  PROVE /\ Cardinality(C) \in Nat
        /\ \A x \in Nat : Rank(C, x) \in Nat /\ Rank(C, x) <= Cardinality(C)
        /\ \A x, y \in Nat : x <= y => Rank(C, x) <= Rank(C, y)
        /\ \A c \in C, y \in Nat : c < y => Rank(C, c) < Rank(C, y)
        /\ \A c \in C : Rank(C, c) < Cardinality(C)
        /\ \A k \in 0 .. Cardinality(C) - 1 : \E c \in C : Rank(C, c) = k
<1> DEFINE below(x) == {d \in C : d < x}
<1>1. ASSUME NEW x \in Nat
      PROVE /\ IsFiniteSet(below(x)) /\ Rank(C, x) = Cardinality(below(x))
            /\ Rank(C, x) \in Nat /\ Rank(C, x) <= Cardinality(C)
 <2>1. below(x) \in SUBSET C  OBVIOUS
 <2>2. IsFiniteSet(below(x)) /\ Cardinality(below(x)) <= Cardinality(C)  BY <2>1, FS_Subset
 <2>3. Cardinality(below(x)) \in Nat  BY <2>2, FS_CardinalityType
 <2> QED BY <2>2, <2>3 DEF Rank
<1>2. Cardinality(C) \in Nat  BY FS_CardinalityType
<1>3. ASSUME NEW x \in Nat, NEW y \in Nat, x <= y PROVE Rank(C, x) <= Rank(C, y)
 <2>1. below(x) \in SUBSET below(y)
  <3>1. \A d \in C : d < x => d < y  BY <1>3
  <3> QED BY <3>1
 <2> HIDE DEF below
 <2> QED BY <1>1, <2>1, FS_Subset
<1>4. ASSUME NEW c \in C, NEW y \in Nat, c < y PROVE Rank(C, c) < Rank(C, y)
 <2>1. c \in Nat /\ below(c) \in SUBSET below(y) /\ c \in below(y) /\ c \notin below(c)
  <3>1. c \in Nat /\ ~(c < c)  OBVIOUS
  <3>2. \A d \in C : d < c => d < y  BY <1>4
  <3> QED BY <1>4, <3>1, <3>2
 <2> HIDE DEF below
 <2>2. Rank(C, c) <= Rank(C, y) /\ (Rank(C, y) = Rank(C, c) => below(y) = below(c))
   BY <1>1, <2>1, FS_Subset
 <2> QED BY <1>1, <2>1, <2>2
<1>5. ASSUME NEW c \in C PROVE Rank(C, c) < Cardinality(C)
 <2>1. c \in Nat /\ below(c) \in SUBSET C /\ c \notin below(c)  OBVIOUS
 <2> HIDE DEF below
 <2>2. Cardinality(below(c)) <= Cardinality(C) /\ (Cardinality(C) = Cardinality(below(c)) => C = below(c))
   BY <2>1, FS_Subset
 <2> QED BY <1>1, <1>2, <2>1, <2>2
<1>6. ASSUME NEW k \in 0 .. Cardinality(C) - 1 PROVE \E c \in C : Rank(C, c) = k
 <2> DEFINE K == 0 .. Cardinality(C) - 1
            f == [c \in C |-> Rank(C, c)]
 <2>1. f \in [C -> K]
  <3>1. ASSUME NEW c \in C PROVE Rank(C, c) \in K
   <4>1. c \in Nat  OBVIOUS
   <4>2. Rank(C, c) \in Nat /\ Rank(C, c) < Cardinality(C)  BY <1>1, <1>5, <4>1
   <4> QED BY <1>2, <4>2
  <3> QED BY <3>1
 <2>2. \A c, d \in C : f[c] = f[d] => c = d
  <3> SUFFICES ASSUME NEW c \in C, NEW d \in C, f[c] = f[d], c < d PROVE FALSE  OBVIOUS
  <3>1. Rank(C, c) < Rank(C, d) /\ Rank(C, c) = Rank(C, d) /\ Rank(C, c) \in Nat  BY <1>1, <1>4
  <3> QED BY <3>1
 <2>3. IsFiniteSet(K) /\ Cardinality(K) = Cardinality(C)  BY <1>2, FS_Interval
 <2> HIDE DEF f, K
 <2>4. f \in Injection(C, K)  BY <2>1, <2>2 DEF Injection, IsInjective
 <2>5. f \in Surjection(C, K)  BY <2>3, <2>4, FS_Injection
 <2>6. \E c \in C : f[c] = k  BY <2>5 DEF Surjection, K
 <2> QED BY <2>6 DEF f
<1>7. \A x \in Nat : Rank(C, x) \in Nat /\ Rank(C, x) <= Cardinality(C)  BY <1>1
<1> QED BY <1>2, <1>3, <1>4, <1>5, <1>6, <1>7

LEMMA NthFacts ==
  ASSUME NEW C, IsFiniteSet(C), C \subseteq Nat
  PROVE /\ \A k \in 0 .. Cardinality(C) - 1 : Nth(C, k) \in C /\ Rank(C, Nth(C, k)) = k
        /\ \A c \in C : Nth(C, Rank(C, c)) = c
        /\ \A j, k \in 0 .. Cardinality(C) - 1 : j < k => Nth(C, j) < Nth(C, k)
        /\ \A k \in 0 .. Cardinality(C) - 1, x \in Nat : Nth(C, k) < x <=> k < Rank(C, x)
<1>1. ASSUME NEW k \in 0 .. Cardinality(C) - 1 PROVE Nth(C, k) \in C /\ Rank(C, Nth(C, k)) = k
 <2>1. \E c \in C : Rank(C, c) = k  BY RankFacts
 <2> QED BY <2>1 DEF Nth
<1>2. ASSUME NEW c \in C, NEW d \in C, Rank(C, c) = Rank(C, d) PROVE c = d
 <2>1. c \in Nat /\ d \in Nat  OBVIOUS
 <2>0. Rank(C, c) \in Nat /\ Rank(C, d) \in Nat  BY <2>1, RankFacts
 <2>2. c < d => Rank(C, c) < Rank(C, d)  BY <2>1, RankFacts
 <2>3. d < c => Rank(C, d) < Rank(C, c)  BY <2>1, RankFacts
 <2> QED BY <1>2, <2>0, <2>1, <2>2, <2>3
<1>3. ASSUME NEW c \in C PROVE Nth(C, Rank(C, c)) = c
 <2>1. Nth(C, Rank(C, c)) \in C /\ Rank(C, Nth(C, Rank(C, c))) = Rank(C, c)
  <3>1. \E d \in C : Rank(C, d) = Rank(C, c)  OBVIOUS
  <3> QED BY <3>1 DEF Nth
 <2> QED BY <1>2, <2>1
<1>4. ASSUME NEW k \in 0 .. Cardinality(C) - 1, NEW x \in Nat PROVE Nth(C, k) < x <=> k < Rank(C, x)
 <2> DEFINE c == Nth(C, k)
 <2>0. c \in C /\ Rank(C, c) = k  BY <1>1
 <2>1. c \in C /\ c \in Nat /\ Rank(C, c) = k /\ k \in Nat /\ Rank(C, x) \in Nat
  <3>1. Rank(C, x) \in Nat  BY RankFacts
  <3>2. Cardinality(C) \in Nat  BY RankFacts
  <3>3. k \in Nat  BY <3>2
  <3>4. c \in Nat  BY <2>0
  <3> QED BY <2>0, <3>1, <3>3, <3>4
 <2> HIDE DEF c
 <2>2. c < x => Rank(C, c) < Rank(C, x)  BY <2>1, RankFacts
 <2>3. x <= c => Rank(C, x) <= Rank(C, c)  BY <2>1, RankFacts
 <2>4. c < x <=> k < Rank(C, x)  BY <2>1, <2>2, <2>3
 <2> QED BY <2>4 DEF c
<1>5. ASSUME NEW j \in 0 .. Cardinality(C) - 1, NEW k \in 0 .. Cardinality(C) - 1, j < k
      PROVE Nth(C, j) < Nth(C, k)
 <2>1. Nth(C, k) \in Nat /\ Rank(C, Nth(C, k)) = k  BY <1>1
 <2> QED BY <1>4, <1>5, <2>1
<1> QED BY <1>1, <1>3, <1>4, <1>5

\* A set of numbers from 1 to m that has what is below its elements is the numbers up to its
\* cardinality.
LEMMA InitialSegment ==
  ASSUME NEW m \in Nat, NEW S \in SUBSET (1 .. m), \A x \in S : \A y \in 1 .. m : y < x => y \in S
  PROVE Cardinality(S) \in 0 .. m /\ S = 1 .. Cardinality(S)
<1>1. CASE S = {}  BY <1>1, FS_EmptySet
<1>2. CASE S # {}
 <2>1. PICK x \in S : \A y \in S : y <= x
  <3>1. S \subseteq Nat /\ \A y \in S : y <= m  OBVIOUS
  <3> QED BY <1>2, <3>1, GreatestNat
 <2>2. x \in 1 .. m  BY <2>1
 <2>3. \A y : y \in S <=> y \in 1 .. x
  <3>1. ASSUME NEW y \in S PROVE y \in 1 .. x
   <4>1. y \in 1 .. m /\ y <= x  BY <2>1
   <4> QED BY <2>2, <4>1
  <3>2. ASSUME NEW y \in 1 .. x PROVE y \in S
   <4>1. y \in 1 .. m /\ (y < x \/ y = x)  BY <2>2
   <4> QED BY <2>1, <4>1
  <3> QED BY <3>1, <3>2
 <2>4. S = 1 .. x  BY <2>3
 <2>5. Cardinality(1 .. x) = x  BY <2>2, FS_Interval
 <2> QED BY <2>2, <2>4, <2>5
<1> QED BY <1>1, <1>2

------------------------------
(* The sequence and its partitions. *)

\* Both instances of SequenceCursor have the same operators, and a sequence as many values as its
\* domain has elements.
LEMMA SizeIs ==
  ASSUME NEW x
  PROVE /\ Abstract!Size(x) = Cardinality(DOMAIN x.values)
        /\ Whole!Size(x) = Cardinality(DOMAIN x.values)
<1>1. Abstract!Cardinality(DOMAIN x.values) = Cardinality(DOMAIN x.values)
  BY DEF Abstract!Cardinality, Cardinality
<1>2. Whole!Cardinality(DOMAIN x.values) = Cardinality(DOMAIN x.values)
  BY DEF Whole!Cardinality, Cardinality
<1> QED BY <1>1, <1>2 DEF Abstract!Size, Whole!Size

LEMMA MinIs ==
  ASSUME NEW S
  PROVE Abstract!Min(S) = Min(S) /\ Whole!Min(S) = Min(S)
BY DEF Abstract!Min, Whole!Min, Min

\* A sequence has a value at every position, and the values increase.
LEMMA ValueFacts ==
  ASSUME Assumed, sequence \in Inputs
  PROVE /\ n \in Nat \ {0} /\ universe \in Nat
        /\ DOMAIN sequence.values = 0 .. n - 1
        /\ \A i \in 0 .. n - 1 : sequence.values[i] \in Nat /\ sequence.values[i] < universe
        /\ \A i, j \in 0 .. n - 1 : i < j => sequence.values[i] < sequence.values[j]
        /\ \A i, j \in 0 .. n - 1 : i <= j => sequence.values[i] <= sequence.values[j]
<1>0. /\ sequence.universe \in Nat /\ n \in Nat \ {0}
      /\ sequence.values \in [0 .. n - 1 -> 0 .. sequence.universe - 1]
      /\ \A i, j \in DOMAIN sequence.values : i < j => sequence.values[i] < sequence.values[j]
  BY DEF Assumed, InputsAssumption, Abstract!IsIncreasing, Abstract!IsSequence, n
<1>1. PICK m \in Nat \ {0} : sequence.values \in [0 .. m - 1 -> 0 .. sequence.universe - 1]  BY <1>0
<1>2. DOMAIN sequence.values = 0 .. m - 1  BY <1>1
<1>3. n = m
 <2>1. Cardinality(0 .. m - 1) = m  BY FS_Interval
 <2> QED BY <1>2, <2>1, SizeIs DEF n
<1>4. universe \in Nat  BY <1>0 DEF universe
<1>5. \A i \in 0 .. n - 1 : sequence.values[i] \in Nat /\ sequence.values[i] < universe
  BY <1>1, <1>3, <1>4 DEF universe
<1>6. \A i, j \in 0 .. n - 1 : i < j => sequence.values[i] < sequence.values[j]  BY <1>0, <1>2, <1>3
<1>7. \A i, j \in 0 .. n - 1 : i <= j => sequence.values[i] <= sequence.values[j]
  BY <1>3, <1>5, <1>6
<1> QED BY <1>1, <1>2, <1>3, <1>4, <1>5, <1>6, <1>7

\* Partitions are not empty, follow each other and end with the sequence, and each position is in
\* the one that as many of them end before.
LEMMA PartitionFacts ==
  ASSUME Assumed, sequence \in Inputs, CutsOK
  PROVE /\ Partitions \in Nat \ {0}
        /\ \A p \in 0 .. Partitions - 1 :
             /\ First(p) \in 0 .. n - 1 /\ Cut(p) \in 1 .. n /\ First(p) < Cut(p)
             /\ First(p) = 0 <=> p = 0
             /\ p > 0 => First(p) = Cut(p - 1)
             /\ Cut(p) = n <=> p = Partitions - 1
        /\ \A p, q \in 0 .. Partitions - 1 : p < q => Cut(p) <= First(q)
        /\ \A x \in 0 .. n - 1 :
             /\ PartOf(x) \in 0 .. Partitions - 1
             /\ First(PartOf(x)) <= x /\ x < Cut(PartOf(x))
<1> DEFINE K == Partitions
<1>1. n \in Nat \ {0}  BY ValueFacts
<1>2. IsFiniteSet(cuts) /\ cuts \subseteq Nat /\ cuts \subseteq 1 .. n /\ n \in cuts
 <2>1. cuts \in SUBSET (1 .. n) /\ n \in cuts  BY DEF CutsOK
 <2>2. IsFiniteSet(1 .. n)  BY <1>1, FS_Interval
 <2>3. IsFiniteSet(cuts)  BY <2>1, <2>2, FS_Subset
 <2> QED BY <1>1, <2>1, <2>3
<1>3. \A p : Cut(p) = Nth(cuts, p)  BY DEF Cut, Nth, Rank
<1>4. K \in Nat \ {0} /\ K = Cardinality(cuts)
 <2>1. Cardinality(cuts) \in Nat /\ Cardinality(cuts) # 0  BY <1>2, FS_CardinalityType, FS_EmptySet
 <2> QED BY <2>1 DEF Partitions
<1>5. \A p \in 0 .. K - 1 : Cut(p) \in cuts  BY <1>2, <1>3, <1>4, NthFacts
<1>6. \A p \in 0 .. K - 1 : Cut(p) \in 1 .. n  BY <1>2, <1>5
<1>7. \A p, q \in 0 .. K - 1 : p < q => Cut(p) < Cut(q)  BY <1>2, <1>3, <1>4, NthFacts
<1>8. Rank(cuts, n) \in 0 .. K - 1 /\ Cut(Rank(cuts, n)) = n
 <2>1. Rank(cuts, n) \in Nat  BY <1>1, <1>2, RankFacts
 <2>2. Rank(cuts, n) < K  BY <1>2, <1>4, RankFacts
 <2>3. Cut(Rank(cuts, n)) = n  BY <1>2, <1>3, NthFacts
 <2> QED BY <1>4, <2>1, <2>2, <2>3
<1> HIDE DEF K
<1>9. Cut(K - 1) = n
 <2> SUFFICES ASSUME Rank(cuts, n) # K - 1 PROVE FALSE  BY <1>8
 <2> DEFINE r == Rank(cuts, n)
 <2>1. r \in 0 .. K - 1 /\ K - 1 \in 0 .. K - 1 /\ r < K - 1  BY <1>4, <1>8
 <2>2. Cut(r) < Cut(K - 1) /\ Cut(r) = n /\ Cut(K - 1) \in 1 .. n  BY <1>6, <1>7, <1>8, <2>1
 <2> QED BY <1>1, <2>2
<1>10. ASSUME NEW p \in 0 .. K - 1
       PROVE /\ First(p) \in 0 .. n - 1 /\ Cut(p) \in 1 .. n /\ First(p) < Cut(p)
             /\ First(p) = 0 <=> p = 0
             /\ p > 0 => First(p) = Cut(p - 1)
             /\ Cut(p) = n <=> p = K - 1
 <2>1. Cut(p) \in 1 .. n  BY <1>6
 <2>2. Cut(p) = n <=> p = K - 1
  <3>1. p < K - 1 => Cut(p) < Cut(K - 1)  BY <1>4, <1>7
  <3> QED BY <1>1, <1>4, <1>9, <2>1, <3>1
 <2>3. CASE p = 0  BY <1>1, <2>1, <2>2, <2>3 DEF First
 <2>4. CASE p # 0
  <3>1. p - 1 \in 0 .. K - 1 /\ p - 1 < p  BY <1>4, <2>4
  <3>2. First(p) = Cut(p - 1) /\ Cut(p - 1) \in 1 .. n /\ Cut(p - 1) < Cut(p)
    BY <1>6, <1>7, <2>4, <3>1 DEF First
  <3> QED BY <1>1, <2>1, <2>2, <2>4, <3>2
 <2> QED BY <2>3, <2>4
<1>11. ASSUME NEW p \in 0 .. K - 1, NEW q \in 0 .. K - 1, p < q PROVE Cut(p) <= First(q)
 <2>1. q - 1 \in 0 .. K - 1 /\ First(q) = Cut(q - 1)  BY <1>4, <1>10, <1>11
 <2>2. p < q - 1 => Cut(p) < Cut(q - 1)  BY <1>7, <2>1
 <2>3. Cut(p) \in Nat /\ Cut(q - 1) \in Nat  BY <1>1, <1>6, <2>1
 <2>4. p = q - 1 \/ p < q - 1  BY <1>4, <1>11
 <2> QED BY <2>1, <2>2, <2>3, <2>4
<1>12. ASSUME NEW x \in 0 .. n - 1
       PROVE /\ PartOf(x) \in 0 .. K - 1
             /\ First(PartOf(x)) <= x /\ x < Cut(PartOf(x))
 <2> DEFINE q == PartOf(x)
 <2>1. q = Rank(cuts, x + 1)
  <3>1. \A c \in cuts : c <= x <=> c < x + 1  BY <1>1, <1>2
  <3>2. {c \in cuts : c <= x} = {c \in cuts : c < x + 1}  BY <3>1
  <3> QED BY <3>2 DEF PartOf, Rank
 <2>2. x + 1 \in Nat /\ q \in Nat
  <3>1. x + 1 \in Nat  BY <1>1
  <3>2. Rank(cuts, x + 1) \in Nat  BY <1>2, <3>1, RankFacts
  <3> QED BY <2>1, <3>1, <3>2
 <2> HIDE DEF q
 <2>3. ASSUME NEW k \in 0 .. K - 1 PROVE Cut(k) < x + 1 <=> k < q
  <3>1. Nth(cuts, k) < x + 1 <=> k < Rank(cuts, x + 1)  BY <1>2, <1>4, <2>2, NthFacts
  <3> QED BY <1>3, <2>1, <3>1
 <2>4. q < K
  <3>1. ~(K - 1 < q)  BY <1>1, <1>4, <1>9, <2>3
  <3> QED BY <1>4, <2>2, <3>1
 <2>5. x < Cut(q)
  <3>1. ~(Cut(q) < x + 1)  BY <1>4, <2>2, <2>3, <2>4
  <3>2. Cut(q) \in Nat  BY <1>1, <1>4, <1>6, <2>2, <2>4
  <3> QED BY <1>1, <3>1, <3>2
 <2>6. First(q) <= x
  <3>1. CASE q = 0  BY <1>1, <3>1 DEF First
  <3>2. CASE q # 0
   <4>1. q - 1 \in 0 .. K - 1 /\ q - 1 < q  BY <1>4, <2>2, <2>4, <3>2
   <4>2. Cut(q - 1) < x + 1 /\ Cut(q - 1) \in Nat /\ First(q) = Cut(q - 1)
     BY <1>1, <1>6, <2>3, <3>2, <4>1 DEF First
   <4> QED BY <1>1, <4>2
  <3> QED BY <3>1, <3>2
 <2>7. q \in 0 .. K - 1  BY <1>4, <2>2, <2>4
 <2> QED BY <2>5, <2>6, <2>7 DEF q
<1> QED BY <1>4, <1>10, <1>11, <1>12 DEF K

\* Partitions of one size begin and end at its multiples, so that the partition of a position is a
\* quotient.
LEMMA MinOfTwo ==
  ASSUME NEW a \in Nat, NEW b \in Nat
  PROVE Min({a, b}) = IF a <= b THEN a ELSE b
<1> DEFINE S == {a, b}
<1>1. S \subseteq Nat /\ S # {}  OBVIOUS
<1> HIDE DEF S
<1>2. Min(S) \in S /\ \A x \in S : Min(S) <= x  BY <1>1, MinFacts
<1>3. a \in S /\ b \in S /\ \A x \in S : x = a \/ x = b  BY DEF S
<1>4. Min(S) = IF a <= b THEN a ELSE b
 <2>1. Min(S) <= a /\ Min(S) <= b /\ (Min(S) = a \/ Min(S) = b)  BY <1>2, <1>3
 <2> QED BY <2>1
<1>5. S = {a, b}  BY DEF S
<1> QED BY <1>4, <1>5

LEMMA TimesGrows ==
  ASSUME NEW a \in Nat, NEW b \in Nat, NEW c \in Nat, c > 0
  PROVE /\ a * c \in Nat /\ (a + 1) * c = a * c + c /\ a <= a * c
        /\ a < b <=> a * c < b * c
<1>1. a * c \in Nat /\ (a + 1) * c = a * c + c /\ a <= a * c  OBVIOUS
<1>2. ASSUME NEW x \in Nat, NEW y \in Nat, x < y PROVE x * c < y * c
 <2>1. PICK d \in Nat : y = x + 1 + d
  <3>1. y - x - 1 \in Nat /\ y = x + 1 + (y - x - 1)  BY <1>2
  <3> QED BY <3>1
 <2>2. y * c = x * c + c + d * c /\ d * c \in Nat /\ x * c \in Nat  BY <2>1
 <2> QED BY <2>2
<1>3. ASSUME NEW x \in Nat, NEW y \in Nat PROVE x * c \in Nat  OBVIOUS
<1>4. a = b \/ a < b \/ b < a  OBVIOUS
<1>5. a * c \in Nat /\ b * c \in Nat  OBVIOUS
<1>6. a < b => a * c < b * c  BY <1>2
<1>7. b < a => b * c < a * c  BY <1>2
<1>8. a < b <=> a * c < b * c  BY <1>4, <1>5, <1>6, <1>7
<1> QED BY <1>1, <1>8

LEMMA EvenFacts ==
  ASSUME Assumed, sequence \in Inputs, CutsOK, uniform
  PROVE /\ \A p \in 0 .. Partitions - 1 : Begin(p) = First(p) /\ End(p) = Cut(p)
        /\ \A x \in 0 .. n - 1 : x \div 2 ^ LogPartitionSize = PartOf(x)
<1> DEFINE P == Power(LogPartitionSize)
           K == Partitions
           end(k) == IF k * P <= n THEN k * P ELSE n
<1>1. n \in Nat \ {0} /\ P \in Nat \ {0} /\ P = 2 ^ LogPartitionSize
 <2>1. P \in Nat \ {0}  BY PowerFacts DEF Assumed, PartitionedAssumption
 <2> QED BY <2>1, ValueFacts DEF Power
<1> HIDE DEF P
<1>2. cuts = {end(k) : k \in 1 .. n}
 <2>1. ASSUME NEW k \in 1 .. n PROVE Min({n, k * P}) = end(k)
  <3>1. k * P \in Nat  BY <1>1
  <3>2. Min({n, k * P}) = IF n <= k * P THEN n ELSE k * P  BY <1>1, <3>1, MinOfTwo
  <3> QED BY <1>1, <3>1, <3>2
 <2>2. cuts = {Min({n, k * P}) : k \in 1 .. n}  BY <1>1, Zenon DEF CutsOK
 <2> HIDE DEF end
 <2> QED BY <2>1, <2>2
<1>3. IsFiniteSet(cuts) /\ cuts \subseteq Nat
 <2>1. cuts \in SUBSET (1 .. n)  BY DEF CutsOK
 <2>2. IsFiniteSet(1 .. n)  BY <1>1, FS_Interval
 <2>3. IsFiniteSet(cuts)  BY <2>1, <2>2, FS_Subset
 <2>4. cuts \subseteq Nat  BY <1>1, <2>1
 <2> QED BY <2>3, <2>4
<1>4. K = Cardinality(cuts) /\ K \in Nat \ {0} /\ \A p : Cut(p) = Nth(cuts, p)
 <2>1. K \in Nat \ {0}  BY PartitionFacts
 <2> QED BY <2>1 DEF Partitions, Cut, Nth, Rank
<1> HIDE DEF K
<1>5. ASSUME NEW p \in Nat, p * P < n PROVE p \in 0 .. K - 1 /\ Cut(p) = end(p + 1)
 <2>1. p + 1 \in 1 .. n /\ p * P \in Nat /\ (p + 1) * P = p * P + P
  <3>1. p <= p * P /\ p * P \in Nat /\ (p + 1) * P = p * P + P  BY <1>1, TimesGrows
  <3> QED BY <1>1, <1>5, <3>1
 <2>2. end(p + 1) \in cuts /\ end(p + 1) \in Nat /\ p * P < end(p + 1)  BY <1>1, <1>2, <1>5, <2>1
 <2> DEFINE S == {d \in cuts : d < end(p + 1)}
            f == [k \in 1 .. p |-> k * P]
 <2>3. ASSUME NEW k \in 1 .. n PROVE k * P \in Nat /\ (k <= p <=> end(k) < end(p + 1)) /\ (k <= p => end(k) = k * P)
  <3>1. k * P \in Nat  BY <1>1
  <3>2. CASE k <= p
   <4>1. k = p \/ k < p  BY <3>2
   <4>2. k < p <=> k * P < p * P  BY <1>1, TimesGrows
   <4>3. k * P <= p * P  BY <2>1, <3>1, <4>1, <4>2
   <4> QED BY <1>1, <1>5, <2>1, <2>2, <3>1, <3>2, <4>3
  <3>3. CASE k > p
   <4>1. k = p + 1 \/ p + 1 < k  BY <3>3
   <4>2. p + 1 < k <=> (p + 1) * P < k * P  BY <1>1, TimesGrows
   <4>3. (p + 1) * P <= k * P  BY <1>1, <2>1, <3>1, <4>1, <4>2
   <4> QED BY <1>1, <2>1, <3>1, <3>3, <4>3
  <3> QED BY <3>2, <3>3
 <2>4. S = {k * P : k \in 1 .. p} /\ \A k \in 1 .. p : k \in 1 .. n
  <3>1. \A k \in 1 .. p : k \in 1 .. n  BY <1>1, <2>1
  <3> HIDE DEF end
  <3>2. ASSUME NEW d \in S PROVE d \in {k * P : k \in 1 .. p}
   <4>1. PICK k \in 1 .. n : d = end(k)  BY <1>2
   <4>2. end(k) < end(p + 1)  BY <4>1
   <4>3. k <= p /\ end(k) = k * P  BY <2>3, <4>2
   <4> QED BY <4>1, <4>3
  <3>3. ASSUME NEW k \in 1 .. p PROVE k * P \in S
   <4>1. k \in 1 .. n /\ k <= p  BY <3>1
   <4>2. end(k) < end(p + 1) /\ end(k) = k * P  BY <2>3, <4>1
   <4> QED BY <1>2, <4>1, <4>2
  <3> QED BY <3>1, <3>2, <3>3
 <2>5. f \in Bijection(1 .. p, S)
  <3>1. f \in [1 .. p -> S] /\ \A d \in S : \E k \in 1 .. p : f[k] = d  BY <2>4
  <3>2. \A j, k \in 1 .. p : f[j] = f[k] => j = k
   <4> SUFFICES ASSUME NEW j \in 1 .. p, NEW k \in 1 .. p, j < k PROVE j * P # k * P  OBVIOUS
   <4>1. j * P < k * P /\ j * P \in Nat  BY <1>1, TimesGrows
   <4> QED BY <4>1
  <3> HIDE DEF f, S
  <3> QED BY <3>1, <3>2 DEF Bijection, Injection, Surjection, IsInjective
 <2>6. Cardinality(S) = p
  <3>1. IsFiniteSet(1 .. p) /\ Cardinality(1 .. p) = p  BY FS_Interval
  <3> HIDE DEF f, S
  <3>2. ExistsBijection(1 .. p, S)  BY <2>5 DEF ExistsBijection
  <3> QED BY <3>1, <3>2, FS_Bijection
 <2>7. Rank(cuts, end(p + 1)) = p  BY <2>6 DEF Rank
 <2> HIDE DEF end
 <2>8. p < K  BY <1>3, <1>4, <2>2, <2>7, RankFacts
 <2>9. Nth(cuts, p) = end(p + 1)  BY <1>3, <2>2, <2>7, NthFacts
 <2> QED BY <1>4, <2>8, <2>9
<1>6. ASSUME NEW p \in 0 .. K - 1 PROVE p * P < n /\ p * P \in Nat
 <2> DEFINE S == {q \in 0 .. K - 1 : ~(q * P < n)}
 <2> SUFFICES ASSUME S # {} PROVE FALSE  BY <1>1, <1>4
 <2>1. PICK q \in S : \A y \in S : q <= y
  <3>1. S \subseteq Nat  BY <1>4
  <3> QED BY <3>1, LeastNat
 <2>2. q # 0 /\ q - 1 \in 0 .. K - 1 /\ q - 1 \notin S  BY <1>1, <1>4, <2>1
 <2>3. (q - 1) * P < n /\ ((q - 1) + 1) * P = q * P /\ q * P \in Nat /\ ~(q * P < n)
   BY <1>1, <1>4, <2>1, <2>2
 <2>4. Cut(q - 1) = n  BY <1>1, <1>5, <2>2, <2>3
 <2>5. q - 1 < q /\ q \in 0 .. K - 1 /\ q - 1 # K - 1  BY <1>4, <2>1
 <2> QED BY <2>2, <2>4, <2>5, PartitionFacts DEF K
<1>7. ASSUME NEW p \in 0 .. K - 1 PROVE First(p) = p * P
 <2>1. CASE p = 0  BY <1>1, <2>1 DEF First
 <2>2. CASE p # 0
  <3>1. p - 1 \in 0 .. K - 1 /\ p - 1 \in Nat /\ (p - 1) + 1 = p  BY <1>4, <2>2
  <3>2. Cut(p - 1) = end((p - 1) + 1)  BY <1>5, <1>6, <3>1
  <3>3. p * P < n /\ p * P \in Nat  BY <1>6
  <3> QED BY <1>1, <2>2, <3>1, <3>2, <3>3 DEF First
 <2> QED BY <2>1, <2>2
<1>8. ASSUME NEW p \in 0 .. K - 1 PROVE Begin(p) = First(p) /\ End(p) = Cut(p)
 <2>1. Begin(p) = p * P  BY <1>1, Zenon DEF Begin
 <2>2. End(p) = Min({n, (p + 1) * P})  BY <1>1, Zenon DEF End
 <2>3. (p + 1) * P \in Nat /\ p \in Nat  BY <1>1, <1>4
 <2>4. End(p) = IF n <= (p + 1) * P THEN n ELSE (p + 1) * P  BY <1>1, <2>2, <2>3, MinOfTwo
 <2>5. Cut(p) = end(p + 1)  BY <1>5, <1>6, <2>3
 <2> QED BY <1>1, <1>7, <2>1, <2>3, <2>4, <2>5
<1>9. ASSUME NEW x \in 0 .. n - 1 PROVE x \div P = PartOf(x)
 <2> DEFINE q == PartOf(x)
            r == x \div P
 <2>1. x \in Nat /\ r \in Nat /\ r * P <= x /\ x < r * P + P /\ r * P \in Nat  BY <1>1
 <2>2. q \in 0 .. K - 1 /\ First(q) <= x /\ x < Cut(q)  BY PartitionFacts DEF K
 <2> HIDE DEF q, r
 <2>3. q * P <= x /\ q \in Nat /\ x < (q + 1) * P /\ (q + 1) * P = q * P + P
  <3>1. First(q) = q * P /\ q * P < n /\ q * P \in Nat /\ q \in Nat  BY <1>4, <1>6, <1>7, <2>2
  <3>2. Cut(q) = end(q + 1)  BY <1>5, <3>1
  <3>3. (q + 1) * P = q * P + P  BY <1>1, <3>1
  <3> QED BY <1>1, <2>1, <2>2, <3>1, <3>2, <3>3
 <2>4. ~(q < r)
  <3> SUFFICES ASSUME q < r PROVE FALSE  OBVIOUS
  <3>1. q + 1 = r \/ q + 1 < r  BY <2>1, <2>3
  <3>2. q + 1 < r <=> (q + 1) * P < r * P  BY <1>1, <2>1, <2>3, TimesGrows
  <3>3. (q + 1) * P \in Nat  BY <1>1, <2>3
  <3> QED BY <2>1, <2>3, <3>1, <3>2, <3>3
 <2>5. ~(r < q)
  <3> SUFFICES ASSUME r < q PROVE FALSE  OBVIOUS
  <3>1. r + 1 = q \/ r + 1 < q  BY <2>1, <2>3
  <3>2. r + 1 < q <=> (r + 1) * P < q * P  BY <1>1, <2>1, <2>3, TimesGrows
  <3>3. (r + 1) * P = r * P + P /\ q * P \in Nat  BY <1>1, <2>1, <2>3
  <3>4. r * P + P <= q * P
   <4>1. CASE r + 1 = q
    <5>1. (r + 1) * P = q * P  BY <4>1
    <5> QED BY <1>1, <2>1, <3>3, <5>1
   <4>2. CASE r + 1 < q
    <5>1. (r + 1) * P < q * P  BY <3>2, <4>2
    <5> DEFINE a == r * P
               b == q * P
               c == (r + 1) * P
    <5>2. c = a + P /\ c < b /\ a \in Nat /\ b \in Nat  BY <2>1, <3>3, <5>1
    <5> HIDE DEF a, b, c
    <5> QED BY <1>1, <5>2 DEF a, b
   <4> QED BY <3>1, <4>1, <4>2
  <3>5. x \in Nat /\ r * P \in Nat /\ q * P <= x /\ x < r * P + P  BY <2>1, <2>3
  <3> DEFINE a == r * P
             b == q * P
  <3>6. a + P <= b /\ a \in Nat /\ b \in Nat /\ b <= x /\ x < a + P  BY <3>3, <3>4, <3>5
  <3> HIDE DEF a, b
  <3> QED BY <1>1, <3>5, <3>6
 <2>6. q = r  BY <2>1, <2>3, <2>4, <2>5
 <2> QED BY <2>6 DEF q, r
<1>10. \A x \in 0 .. n - 1 : x \div 2 ^ LogPartitionSize = PartOf(x)
 <2>1. \A x \in 0 .. n - 1 : x \div P = PartOf(x)  BY <1>9
 <2> QED BY <1>1, <2>1, Zenon
<1> QED BY <1>8, <1>10 DEF K

------------------------------
(* What is written of a partition. *)

\* A partition holds the values of its positions, relative to a number that is not above the first
\* of them, and its universe ends with the last; it takes no bits only if it is an interval.
LEMMA BaseFacts ==
  ASSUME Valid, NEW p \in 0 .. Partitions - 1
  PROVE /\ Length(p) \in Nat \ {0} /\ FromOf(p) \in Nat
        /\ First(p) \in Nat /\ Cut(p) \in Nat /\ Cut(p) = First(p) + Length(p)
        /\ FromOf(p) <= sequence.values[First(p)]
        /\ sequence.values[Cut(p) - 1] \in Nat /\ FromOf(p) <= sequence.values[Cut(p) - 1]
        /\ DOMAIN BaseOf(p).values = 0 .. Length(p) - 1
        /\ Abstract!Size(BaseOf(p)) = Length(p)
        /\ BaseOf(p).universe = sequence.values[Cut(p) - 1] - FromOf(p) + 1
        /\ BaseOf(p).universe \in Nat
        /\ BaseBits(BaseOf(p)) \in Nat
        /\ BaseOf(p).universe # Length(p) => BaseBits(BaseOf(p)) > 0
<1>1. /\ n \in Nat \ {0}
      /\ \A i \in 0 .. n - 1 : sequence.values[i] \in Nat
      /\ \A i, j \in 0 .. n - 1 : i < j => sequence.values[i] < sequence.values[j]
      /\ \A i, j \in 0 .. n - 1 : i <= j => sequence.values[i] <= sequence.values[j]
  BY ValueFacts DEF Valid
<1>2. First(p) \in 0 .. n - 1 /\ Cut(p) \in 1 .. n /\ First(p) < Cut(p) /\ (First(p) = 0 <=> p = 0)
  BY PartitionFacts DEF Valid
<1> DEFINE first == First(p)
           last == Cut(p)
           from == FromOf(p)
<1>3. first \in Nat /\ last \in Nat /\ first < last /\ last <= n /\ (first = 0 <=> p = 0)
  BY <1>1, <1>2
<1>4. from \in Nat /\ from <= sequence.values[first]
 <2>1. first \in 0 .. n - 1  BY <1>2
 <2>2. CASE p = 0  BY <1>1, <1>3, <2>1, <2>2 DEF FromOf
 <2>3. CASE p # 0
  <3>1. first - 1 \in 0 .. n - 1 /\ first - 1 < first  BY <1>1, <1>3, <2>3
  <3>2. sequence.values[first - 1] < sequence.values[first]  BY <1>1, <2>1, <3>1
  <3>3. from = sequence.values[first - 1] + 1  BY <2>3 DEF FromOf
  <3>4. sequence.values[first - 1] \in Nat /\ sequence.values[first] \in Nat  BY <1>1, <2>1, <3>1
  <3> QED BY <3>2, <3>3, <3>4
 <2> QED BY <2>2, <2>3
<1>5. sequence.values[last - 1] \in Nat /\ from <= sequence.values[last - 1]
 <2>1. first \in 0 .. n - 1 /\ last - 1 \in 0 .. n - 1 /\ first <= last - 1  BY <1>1, <1>3
 <2>2. sequence.values[first] <= sequence.values[last - 1]  BY <1>1, <2>1
 <2>3. sequence.values[first] \in Nat /\ sequence.values[last - 1] \in Nat  BY <1>1, <2>1
 <2> QED BY <1>4, <2>2, <2>3
<1>6. /\ BaseOf(p).values = [i \in 0 .. last - first - 1 |-> sequence.values[first + i] - from]
      /\ BaseOf(p).universe = sequence.values[last - 1] - from + 1
  BY DEF BaseOf, Base
<1> HIDE DEF first, last, from
<1>7. BaseOf(p).universe \in Nat  BY <1>4, <1>5, <1>6
<1> DEFINE m == last - first
<1>8. m \in Nat \ {0} /\ last = first + m  BY <1>3
<1>9. DOMAIN BaseOf(p).values = 0 .. m - 1  BY <1>6
<1>10. Abstract!Size(BaseOf(p)) = m
 <2>1. Cardinality(0 .. m - 1) = m  BY <1>8, FS_Interval
 <2> QED BY <1>9, <2>1, SizeIs
<1>11. BaseBits(BaseOf(p)) \in Nat /\ (BaseOf(p).universe # m => BaseBits(BaseOf(p)) > 0)
  BY <1>7, <1>10 DEF BaseBits
<1> QED  BY <1>4, <1>5, <1>6, <1>7, <1>8, <1>9, <1>10, <1>11, <1>3 DEF Length, first, last, from

LEMMA BaseValues ==
  ASSUME Valid, NEW p \in 0 .. Partitions - 1, NEW i \in 0 .. Length(p) - 1
  PROVE /\ First(p) + i \in 0 .. n - 1
        /\ BaseOf(p).values[i] \in Nat /\ BaseOf(p).values[i] < BaseOf(p).universe
        /\ FromOf(p) + BaseOf(p).values[i] = sequence.values[First(p) + i]
<1>1. /\ n \in Nat \ {0}
      /\ \A j \in 0 .. n - 1 : sequence.values[j] \in Nat
      /\ \A j, k \in 0 .. n - 1 : j <= k => sequence.values[j] <= sequence.values[k]
  BY ValueFacts DEF Valid
<1>2. Cut(p) \in 1 .. n  BY PartitionFacts DEF Valid
<1>3. /\ Length(p) \in Nat \ {0} /\ FromOf(p) \in Nat
      /\ First(p) \in Nat /\ Cut(p) \in Nat /\ Cut(p) = First(p) + Length(p)
      /\ FromOf(p) <= sequence.values[First(p)]
      /\ BaseOf(p).universe = sequence.values[Cut(p) - 1] - FromOf(p) + 1
  BY BaseFacts
<1>4. /\ First(p) + i \in 0 .. n - 1 /\ Cut(p) - 1 \in 0 .. n - 1 /\ First(p) \in 0 .. n - 1
      /\ First(p) <= First(p) + i /\ First(p) + i <= Cut(p) - 1
  BY <1>1, <1>2, <1>3
<1> DEFINE v == sequence.values[First(p) + i]
           a == sequence.values[First(p)]
           z == sequence.values[Cut(p) - 1]
           from == FromOf(p)
<1>5. v \in Nat /\ a \in Nat /\ z \in Nat /\ a <= v /\ v <= z  BY <1>1, <1>4
<1>6. BaseOf(p).values[i] = v - from
 <2>1. BaseOf(p).values = [k \in 0 .. Length(p) - 1 |-> sequence.values[First(p) + k] - from]
   BY DEF BaseOf, Base, Length
 <2> QED BY <2>1
<1>7. from \in Nat /\ from <= a /\ BaseOf(p).universe = z - from + 1  BY <1>3
<1> HIDE DEF v, a, z, from
<1>8. v - from \in Nat /\ v - from < z - from + 1 /\ from + (v - from) = v  BY <1>5, <1>7
<1> QED  BY <1>4, <1>6, <1>7, <1>8 DEF v, a, z, from

\* A partition that fills its universe is known by its length.
LEMMA FullBase ==
  ASSUME Valid, NEW p \in 0 .. Partitions - 1, BaseOf(p).universe = Length(p)
  PROVE BaseOf(p) = [values |-> [i \in 0 .. Length(p) - 1 |-> i], universe |-> Length(p)]
<1> DEFINE f == BaseOf(p).values
           m == Length(p)
<1>1. m \in Nat /\ DOMAIN f = 0 .. m - 1  BY BaseFacts
<1>2. /\ \A i \in 0 .. m - 1 : f[i] \in Nat /\ f[i] < m
      /\ \A i \in 0 .. m - 1 : First(p) + i \in 0 .. n - 1 /\ FromOf(p) + f[i] = sequence.values[First(p) + i]
  BY BaseValues
<1>3. f = [i \in 0 .. m - 1 |-> f[i]]  BY <1>1 DEF BaseOf, Base, Length
<1>4. ASSUME NEW i \in 0 .. m - 1, NEW j \in 0 .. m - 1, i < j PROVE f[i] < f[j]
 <2>1. sequence.values[First(p) + i] < sequence.values[First(p) + j]
  <3>1. \A k, l \in 0 .. n - 1 : k < l => sequence.values[k] < sequence.values[l]
    BY ValueFacts DEF Valid
  <3>2. First(p) \in Nat  BY BaseFacts
  <3>3. First(p) + i < First(p) + j  BY <1>1, <1>4, <3>2
  <3> QED BY <1>2, <3>1, <3>3
 <2>2. FromOf(p) \in Nat  BY BaseFacts
 <2>3. /\ FromOf(p) + f[i] = sequence.values[First(p) + i]
       /\ FromOf(p) + f[j] = sequence.values[First(p) + j]
       /\ f[i] \in Nat /\ f[j] \in Nat
   BY <1>2
 <2> HIDE DEF f
 <2> QED BY <2>1, <2>2, <2>3
<1>5. BaseOf(p) = [values |-> f, universe |-> m]  BY DEF BaseOf, Base
<1> HIDE DEF f, m
<1>6. f \in [0 .. m - 1 -> Nat]  BY <1>1, <1>2, <1>3
<1>7. f = [i \in 0 .. m - 1 |-> i]  BY <1>1, <1>2, <1>4, <1>6, FullIsIdentity
<1> QED BY <1>5, <1>7 DEF m

\* A partition is found where it begins, given its universe and length.
LEMMA BaseAtFacts ==
  ASSUME Valid, Stored, NEW p \in 0 .. Partitions - 1
  PROVE BaseAt(EndAt(p), BaseOf(p).universe, Length(p)) = BaseOf(p)
<1>1. CASE BaseOf(p).universe = Length(p)
 <2>1. BaseOf(p) = [values |-> [i \in 0 .. Length(p) - 1 |-> i], universe |-> Length(p)]
   BY <1>1, FullBase
 <2> QED BY <1>1, <2>1 DEF BaseAt
<1>2. CASE BaseOf(p).universe # Length(p)
 <2> DEFINE K == Partitions
            there == {q \in 1 .. K : BaseBits(file.bases[q]) > 0 /\ Offset(q) = EndAt(p)}
 <2>1. K \in Nat \ {0}  BY PartitionFacts DEF Valid
 <2>2. \A q \in 1 .. K : /\ q - 1 \in 0 .. K - 1 /\ file.bases[q] = BaseOf(q - 1)
                         /\ Offset(q) = EndAt(q - 1)
  <3> SUFFICES ASSUME NEW q \in 1 .. K
               PROVE /\ q - 1 \in 0 .. K - 1 /\ file.bases[q] = BaseOf(q - 1)
                     /\ Offset(q) = EndAt(q - 1)
    OBVIOUS
  <3>1. q - 1 \in 0 .. K - 1 /\ (q - 1) + 1 = q /\ (q = 1 <=> q - 1 = 0)  BY <2>1
  <3>2. file.bases[(q - 1) + 1] = BaseOf(q - 1)  BY <3>1 DEF Stored
  <3> QED BY <3>1, <3>2 DEF Offset, EndAt
 <2> HIDE DEF K
 <2>3. p + 1 \in 1 .. K /\ (p + 1) - 1 = p /\ p \in 0 .. K - 1  BY <2>1 DEF K
 <2>4. p + 1 \in there
  <3>1. BaseBits(BaseOf(p)) > 0  BY <1>2, BaseFacts
  <3>2. file.bases[p + 1] = BaseOf(p) /\ Offset(p + 1) = EndAt(p)  BY <2>2, <2>3
  <3> QED BY <2>3, <3>1, <3>2
 <2>5. ASSUME NEW q \in there PROVE q = p + 1
  <3> DEFINE r == q - 1
  <3>1. r \in 0 .. K - 1 /\ q = r + 1 /\ BaseBits(BaseOf(r)) > 0 /\ EndAt(r) = EndAt(p)
    BY <2>1, <2>2
  <3>2. BaseBits(BaseOf(p)) > 0  BY <1>2, BaseFacts
  <3>3. BaseBits(BaseOf(p)) \in Nat /\ BaseBits(BaseOf(r)) \in Nat  BY <2>3, <3>1, BaseFacts DEF K
  <3> HIDE DEF r
  <3>4. /\ r < p => EndAt(r) + BaseBits(BaseOf(r)) <= EndAt(p)
        /\ p < r => EndAt(p) + BaseBits(BaseOf(p)) <= EndAt(r)
    BY <2>3, <3>1 DEF Stored, K
  <3>5. EndAt(p) \in Nat
   <4>1. CASE K = 1
    <5>1. p = 0  BY <2>3, <4>1
    <5> QED BY <5>1 DEF EndAt
   <4>2. CASE K # 1
    <5>1. Partitions > 1  BY <2>1, <4>2 DEF K
    <5> QED BY <2>3, <5>1 DEF K, Stored
   <4> QED BY <4>1, <4>2
  <3>6. ~(r < p) /\ ~(p < r)  BY <3>1, <3>2, <3>3, <3>4, <3>5
  <3> QED BY <2>1, <2>3, <3>1, <3>6
 <2>6. Min(there) = p + 1
  <3>1. there \subseteq Nat /\ there # {}  BY <2>1, <2>4
  <3>2. Min(there) \in there  BY <3>1, MinFacts
  <3> QED BY <2>5, <3>2
 <2>7. file.bases[p + 1] = BaseOf(p) /\ Abstract!Size(BaseOf(p)) = Length(p)
   BY <2>2, <2>3, BaseFacts
 <2>8. BaseAt(EndAt(p), BaseOf(p).universe, Length(p)) = file.bases[Min(there)]
  <3>1. \E q \in there : file.bases[q].universe = BaseOf(p).universe
                             /\ Abstract!Size(file.bases[q]) = Length(p)
    BY <2>4, <2>7
  <3> QED BY <1>2, <3>1 DEF BaseAt, K
 <2> QED BY <2>6, <2>7, <2>8
<1> QED BY <1>1, <1>2

------------------------------
(* Where an enumerator is. *)

\* The first value of a sequence that is not below a bound.
LEMMA FirstGeqFacts ==
  ASSUME NEW s, NEW m \in Nat, DOMAIN s.values = 0 .. m - 1, NEW bound \in Nat,
         \A i \in 0 .. m - 1 : s.values[i] \in Nat
  PROVE /\ Abstract!FirstGeq(s, bound) = Whole!FirstGeq(s, bound)
        /\ Abstract!FirstGeq(s, bound) \in 0 .. m
        /\ Abstract!FirstGeq(s, bound) # m => s.values[Abstract!FirstGeq(s, bound)] >= bound
        /\ \A i \in 0 .. m - 1 : i < Abstract!FirstGeq(s, bound) => s.values[i] < bound
<1> DEFINE S == {m} \cup {q \in 0 .. m - 1 : s.values[q] >= bound}
<1>1. Abstract!Size(s) = m /\ Whole!Size(s) = m
 <2>1. Cardinality(0 .. m - 1) = m  BY FS_Interval
 <2> QED BY <2>1, SizeIs
<1>2. Abstract!FirstGeq(s, bound) = Min(S) /\ Whole!FirstGeq(s, bound) = Min(S)
 <2>1. Abstract!FirstGeq(s, bound) = Abstract!Min(S)  BY <1>1 DEF Abstract!FirstGeq
 <2>2. Whole!FirstGeq(s, bound) = Whole!Min(S)  BY <1>1 DEF Whole!FirstGeq
 <2> QED BY <2>1, <2>2, MinIs
<1>3. S \subseteq Nat /\ S # {}  OBVIOUS
<1>4. Min(S) \in S /\ \A q \in S : Min(S) <= q
 <2> HIDE DEF S
 <2> QED BY <1>3, MinFacts
<1> DEFINE f == Min(S)
<1>5. f \in 0 .. m /\ (f # m => s.values[f] >= bound)  BY <1>4
<1>6. \A i \in 0 .. m - 1 : i \in S => f <= i  BY <1>4
<1> HIDE DEF f
<1>7. ASSUME NEW i \in 0 .. m - 1, i < f PROVE s.values[i] < bound
 <2>1. i \notin S  BY <1>5, <1>6, <1>7
 <2> QED BY <2>1
<1> QED BY <1>2, <1>5, <1>7 DEF f

LEMMA FirstGeqIs ==
  ASSUME Valid, NEW bound \in Nat, NEW q \in 0 .. n,
         q = n \/ sequence.values[q] >= bound,
         \A i \in 0 .. n - 1 : i < q => sequence.values[i] < bound
  PROVE Whole!FirstGeq(sequence, bound) = q
<1>1. n \in Nat /\ DOMAIN sequence.values = 0 .. n - 1 /\ \A i \in 0 .. n - 1 : sequence.values[i] \in Nat
  BY ValueFacts DEF Valid
<1>2. PICK f : f = Whole!FirstGeq(sequence, bound)  OBVIOUS
<1>3. /\ f \in 0 .. n /\ (f # n => sequence.values[f] >= bound)
      /\ \A i \in 0 .. n - 1 : i < f => sequence.values[i] < bound
 <2>1. Abstract!FirstGeq(sequence, bound) = f  BY <1>1, <1>2, FirstGeqFacts
 <2>2. Abstract!FirstGeq(sequence, bound) \in 0 .. n  BY <1>1, FirstGeqFacts
 <2>3. Abstract!FirstGeq(sequence, bound) # n
         => sequence.values[Abstract!FirstGeq(sequence, bound)] >= bound
   BY <1>1, FirstGeqFacts
 <2>4. \A i \in 0 .. n - 1 : i < Abstract!FirstGeq(sequence, bound) => sequence.values[i] < bound
   BY <1>1, FirstGeqFacts
 <2> QED BY <2>1, <2>2, <2>3, <2>4
<1>4. ~(f < q)
 <2> SUFFICES ASSUME f < q PROVE FALSE  OBVIOUS
 <2>1. f \in 0 .. n - 1 /\ f # n  BY <1>1, <1>3
 <2>2. sequence.values[f] < bound /\ sequence.values[f] >= bound /\ sequence.values[f] \in Nat
   BY <1>1, <1>3, <2>1
 <2> QED BY <2>2
<1>5. ~(q < f)
 <2> SUFFICES ASSUME q < f PROVE FALSE  OBVIOUS
 <2>1. q \in 0 .. n - 1 /\ q # n  BY <1>1, <1>3
 <2>2. sequence.values[q] < bound /\ sequence.values[q] >= bound /\ sequence.values[q] \in Nat
   BY <1>1, <1>3, <2>1
 <2> QED BY <2>2
<1> QED BY <1>1, <1>2, <1>3, <1>4, <1>5

\* switch_partition: everything that is kept is of the new partition.
LEMMA BoundsOfPartition ==
  ASSUME Valid, NEW p \in 0 .. Partitions - 1
  PROVE Begin(p) = First(p) /\ End(p) = Cut(p)
<1>1. CASE uniform  BY <1>1, EvenFacts DEF Valid
<1>2. CASE ~uniform  BY <1>2 DEF Begin, End, First
<1> QED BY <1>1, <1>2

LEMMA SwitchedIs ==
  ASSUME Valid, Stored, Partitions > 1, NEW x \in EnumType, NEW p \in 0 .. Partitions - 1
  PROVE /\ In(Switched(x, p), p) /\ Switched(x, p).upperAt = p + 1
        /\ Switched(x, p).position = x.position
<1> DEFINE base == file.uppers[p + 1] + (IF p = 0 THEN 0 ELSE 1)
<1>1. Partitions \in Nat \ {0} /\ p \in Nat /\ p + 1 \in 1 .. Partitions + 1 /\ p + 2 \in 1 .. Partitions + 1
 <2>1. Partitions \in Nat \ {0}  BY PartitionFacts DEF Valid
 <2> QED BY <2>1
<1>2. Begin(p) = First(p) /\ End(p) = Cut(p)  BY BoundsOfPartition
<1>3. base = FromOf(p)
 <2>1. file.uppers[p + 1] = UpperOf(p + 1)  BY <1>1 DEF Stored
 <2>2. CASE p = 0
  <3>1. FromOf(p) \in Nat /\ FromOf(p) = sequence.values[0]  BY <2>2, BaseFacts DEF FromOf
  <3> QED BY <2>1, <2>2, <3>1 DEF UpperOf
 <2>3. CASE p # 0
  <3>1. (p + 1) - 2 = p - 1 /\ p + 1 # 1  BY <1>1, <2>3
  <3>2. UpperOf(p + 1) = sequence.values[Cut(p - 1) - 1]  BY <3>1 DEF UpperOf
  <3> QED BY <2>1, <2>3, <3>2 DEF FromOf, First
 <2> QED BY <2>2, <2>3
<1>4. file.uppers[p + 2] = sequence.values[Cut(p) - 1]
 <2>1. file.uppers[p + 2] = UpperOf(p + 2)  BY <1>1 DEF Stored
 <2>2. (p + 2) - 2 = p /\ p + 2 # 1  BY <1>1
 <2> QED BY <2>1, <2>2 DEF UpperOf
<1> DEFINE offset == IF p = 0 THEN 0 ELSE file.endpoints[p]
           seq == BaseAt(offset, file.uppers[p + 2] - base + 1, End(p) - Begin(p))
<1>5. seq = BaseOf(p)
 <2>1. BaseAt(EndAt(p), BaseOf(p).universe, Length(p)) = BaseOf(p)  BY BaseAtFacts
 <2>2. BaseOf(p).universe = file.uppers[p + 2] - base + 1  BY <1>3, <1>4, BaseFacts
 <2> QED BY <1>2, <2>1, <2>2 DEF Length, EndAt
<1>6. /\ First(p) \in Nat /\ Cut(p) \in Nat /\ FromOf(p) \in Nat /\ sequence.values[Cut(p) - 1] \in Nat
      /\ Length(p) \in Nat
  BY BaseFacts
<1>7. BaseOf(p) \in AllBases  BY DEF AllBases
<1>8. Switched(x, p) = [x EXCEPT !.partition = p, !.begin = First(p), !.end = Cut(p),
                 !.upperAt = p + 1, !.upper = sequence.values[Cut(p) - 1], !.base = FromOf(p),
                 !.seq = BaseOf(p), !.at = Length(p)]
 <2> HIDE DEF base, seq
 <2>1. Switched(x, p) = [x EXCEPT !.partition = p, !.begin = Begin(p), !.end = End(p),
                !.upperAt = p + 1, !.upper = file.uppers[p + 2], !.base = base,
                !.seq = seq, !.at = End(p) - Begin(p)]
   BY Zenon DEF Switched, base, seq
 <2> QED BY <1>2, <1>3, <1>4, <1>5, <2>1 DEF Length
<1> HIDE DEF base, seq, offset
<1> DEFINE y == Switched(x, p)
           u == sequence.values[Cut(p) - 1]
           b == First(p)
           c == Cut(p)
           f == FromOf(p)
           s == BaseOf(p)
           m == Length(p)
<1>9. /\ y \in EnumType /\ y.partition = p /\ y.begin = b /\ y.end = c
      /\ y.upperAt = p + 1 /\ y.upper = u /\ y.base = f
      /\ y.seq = s /\ y.at = m /\ y.position = x.position
 <2>1. /\ b \in Nat /\ c \in Nat /\ f \in Nat /\ u \in Nat /\ m \in Nat
       /\ p \in Nat /\ p + 1 \in Nat /\ s \in AllBases
   BY <1>1, <1>6, <1>7
 <2>2. y = [x EXCEPT !.partition = p, !.begin = b, !.end = c, !.upperAt = p + 1,
                     !.upper = u, !.base = f, !.seq = s, !.at = m]
   BY <1>8
 <2> HIDE DEF y, u, b, c, f, s, m
 <2> QED BY <2>1, <2>2 DEF EnumType
<1> QED BY <1>9 DEF In

\* A base cursor that stays in its partition; the end of the last one.
LEMMA BaseMovedIs ==
  ASSUME Valid, NEW x, NEW p, In(x, p), NEW i \in 0 .. Length(p) - 1
  PROVE /\ Stands(BaseMoved(x, i), First(p) + i)
        /\ BaseMoved(x, i).partition = p /\ BaseMoved(x, i).upperAt = x.upperAt
<1>1. p \in 0 .. Partitions - 1 /\ x \in EnumType  BY DEF In
<1>2. /\ Length(p) \in Nat \ {0} /\ First(p) \in Nat /\ Cut(p) = First(p) + Length(p)
      /\ DOMAIN BaseOf(p).values = 0 .. Length(p) - 1 /\ FromOf(p) \in Nat
  BY <1>1, BaseFacts
<1>3. /\ First(p) + i \in 0 .. n - 1 /\ FromOf(p) + BaseOf(p).values[i] = sequence.values[First(p) + i]
      /\ BaseOf(p).values[i] \in Nat
  BY <1>1, BaseValues
<1>4. BaseMoved(x, i) = [x EXCEPT !.at = i, !.position = First(p) + i,
                                  !.value = sequence.values[First(p) + i]]
 <2>1. x.begin = First(p) /\ x.base = FromOf(p) /\ x.seq = BaseOf(p) /\ i \in DOMAIN x.seq.values
   BY <1>2 DEF In
 <2> QED BY <1>3, <2>1 DEF BaseMoved
<1>5. n \in Nat /\ First(p) + i # n /\ First(p) + i \in 0 .. n /\ First(p) + i < Cut(p)
      /\ ~(First(p) + i >= n)
 <2>1. n \in Nat  BY ValueFacts DEF Valid
 <2> QED BY <1>2, <1>3, <2>1
<1>6. ValueAt(First(p) + i) = sequence.values[First(p) + i] /\ sequence.values[First(p) + i] \in Nat
 <2>1. ValueAt(First(p) + i) = sequence.values[First(p) + i]  BY <1>5, Zenon DEF ValueAt
 <2> QED BY <1>2, <1>3, <2>1
<1> DEFINE y == BaseMoved(x, i)
           q == First(p) + i
           v == sequence.values[First(p) + i]
<1>7. /\ y \in EnumType /\ y.partition = x.partition /\ y.begin = x.begin /\ y.end = x.end
      /\ y.upperAt = x.upperAt /\ y.upper = x.upper /\ y.base = x.base /\ y.seq = x.seq
      /\ y.at = i /\ y.position = q /\ y.value = v
 <2>1. i \in Nat /\ q \in Nat /\ v \in Nat  BY <1>2, <1>6
 <2>2. y = [x EXCEPT !.at = i, !.position = q, !.value = v]  BY <1>4
 <2> HIDE DEF y, q, v
 <2> QED BY <1>1, <2>1, <2>2 DEF EnumType
<1> HIDE DEF y, v
<1>8. In(y, p) /\ y.partition = p /\ y.begin = First(p) /\ y.end = Cut(p)  BY <1>7 DEF In
<1>9. Stands(y, q)
 <2>1. /\ q \in 0 .. n /\ q # n /\ q < Cut(p) /\ q = First(p) + i /\ ValueAt(q) = v
       /\ n \in Nat /\ Cut(p) \in Nat
   BY <1>2, <1>5, <1>6 DEF v
 <2> HIDE DEF q
 <2> QED BY <1>7, <1>8, <2>1 DEF Stands
<1> QED BY <1>7, <1>8, <1>9 DEF y

LEMMA ToEndIs ==
  ASSUME Valid, NEW x, In(x, Partitions - 1)
  PROVE /\ Stands(ToEnd(x), n)
        /\ ToEnd(x).partition = x.partition /\ ToEnd(x).upperAt = x.upperAt
<1> DEFINE p == Partitions - 1
<1>1. p \in 0 .. Partitions - 1 /\ x \in EnumType /\ x.seq = BaseOf(p) /\ x.begin = First(p)
  BY DEF In
<1>2. /\ Length(p) \in Nat \ {0} /\ First(p) \in Nat /\ Cut(p) = First(p) + Length(p)
      /\ Abstract!Size(BaseOf(p)) = Length(p)
  BY <1>1, BaseFacts
<1>3. n \in Nat /\ universe \in Nat  BY ValueFacts DEF Valid
<1>4. Cut(p) = n  BY <1>1, PartitionFacts DEF Valid
<1>5. ToEnd(x) = [x EXCEPT !.position = n, !.value = universe, !.at = Length(p)]
  BY <1>1, <1>2 DEF ToEnd
<1> DEFINE y == ToEnd(x)
<1>6. /\ y \in EnumType /\ y.partition = x.partition /\ y.begin = x.begin /\ y.end = x.end
      /\ y.upperAt = x.upperAt /\ y.upper = x.upper /\ y.base = x.base /\ y.seq = x.seq
      /\ y.at = Length(p) /\ y.position = n /\ y.value = universe
 <2> DEFINE m == Length(p)
            q == n
            v == universe
 <2>1. m \in Nat /\ q \in Nat /\ v \in Nat  BY <1>2, <1>3
 <2>2. y = [x EXCEPT !.position = q, !.value = v, !.at = m]  BY <1>5
 <2>3. /\ y \in EnumType /\ y.partition = x.partition /\ y.begin = x.begin /\ y.end = x.end
       /\ y.upperAt = x.upperAt /\ y.upper = x.upper /\ y.base = x.base /\ y.seq = x.seq
       /\ y.at = m /\ y.position = q /\ y.value = v
  <3> HIDE DEF y, m, q, v
  <3> QED BY <1>1, <2>1, <2>2 DEF EnumType
 <2> QED BY <2>3
<1> HIDE DEF y
<1>7. In(y, p) /\ y.partition = p /\ y.begin = First(p) /\ y.end = Cut(p)  BY <1>6 DEF In
<1>8. ValueAt(n) = universe  BY <1>3 DEF ValueAt
<1> QED BY <1>2, <1>3, <1>4, <1>6, <1>7, <1>8 DEF Stands, y

\* slow_move finds the partition of a position, and move does not need it to in the partition it is
\* in.
LEMMA SlowMoveIs ==
  ASSUME Valid, Stored, NEW x \in EnumType, NEW q \in 0 .. n,
         Partitions = 1 => In(x, 0) /\ q = n
  PROVE /\ Stands(SlowMove(x, q), q) /\ UppersKept(SlowMove(x, q))
<1>1. Partitions \in Nat \ {0} /\ Partitions - 1 \in 0 .. Partitions - 1
 <2>1. Partitions \in Nat \ {0}  BY PartitionFacts DEF Valid
 <2> QED BY <2>1
<1>2. n \in Nat \ {0}  BY ValueFacts DEF Valid
<1>3. CASE q = n /\ Partitions = 1
 <2>1. SlowMove(x, q) = ToEnd(x)  BY <1>3 DEF SlowMove
 <2> QED BY <1>3, <2>1, ToEndIs DEF UppersKept
<1>4. CASE q = n /\ Partitions > 1
 <2> DEFINE y == Switched(x, Partitions - 1)
 <2>1. SlowMove(x, q) = ToEnd(y)  BY <1>4 DEF SlowMove
 <2>2. In(y, Partitions - 1) /\ y.upperAt = (Partitions - 1) + 1  BY <1>1, <1>4, SwitchedIs
 <2>3. y.partition = Partitions - 1  BY <2>2 DEF In
 <2> HIDE DEF y
 <2>4. Stands(ToEnd(y), n) /\ ToEnd(y).partition = y.partition /\ ToEnd(y).upperAt = y.upperAt
   BY <2>2, ToEndIs
 <2> QED BY <1>4, <2>1, <2>2, <2>3, <2>4 DEF UppersKept
<1>5. CASE q # n
 <2> DEFINE p == PartOf(q)
            y == Switched(x, p)
 <2>1. q \in 0 .. n - 1 /\ q \in Nat  BY <1>2, <1>5
 <2>2. p \in 0 .. Partitions - 1 /\ First(p) <= q /\ q < Cut(p)  BY <2>1, PartitionFacts DEF Valid
 <2>3. SlowMove(x, q) = BaseMoved(y, q - y.begin)
  <3>1. uniform => q \div 2 ^ LogPartitionSize = p  BY <2>1, EvenFacts DEF Valid
  <3>2. Cardinality({c \in cuts : c <= q}) = p  BY DEF PartOf
  <3> DEFINE r == IF uniform THEN q \div 2 ^ LogPartitionSize
                  ELSE Cardinality({c \in cuts : c <= q})
             z == Switched(x, r)
  <3>3. r = p  BY <3>1, <3>2
  <3> HIDE DEF p, r
  <3>4. SlowMove(x, q) = BaseMoved(z, q - z.begin)  BY <1>5, Zenon DEF SlowMove, r
  <3> QED BY <3>3, <3>4
 <2> HIDE DEF p
 <2>4. Partitions > 1  BY <1>1, <1>5
 <2>5. In(y, p) /\ y.upperAt = p + 1  BY <2>2, <2>4, SwitchedIs
 <2>6. y.begin = First(p) /\ y.partition = p  BY <2>5 DEF In
 <2> HIDE DEF y
 <2>7. q - First(p) \in 0 .. Length(p) - 1 /\ First(p) + (q - First(p)) = q
  <3>1. First(p) \in Nat /\ Cut(p) \in Nat /\ Length(p) \in Nat /\ Cut(p) = First(p) + Length(p)
    BY <2>2, BaseFacts
  <3> QED BY <2>1, <2>2, <3>1
 <2> DEFINE z == BaseMoved(y, q - First(p))
 <2>8. Stands(z, First(p) + (q - First(p))) /\ z.partition = p /\ z.upperAt = y.upperAt
   BY <2>5, <2>7, BaseMovedIs
 <2>9. Stands(z, q)  BY <2>7, <2>8, Zenon
 <2>10. z.partition = p /\ z.upperAt = p + 1  BY <2>5, <2>8
 <2> HIDE DEF z
 <2>11. UppersKept(z)  BY <2>10 DEF UppersKept
 <2> QED BY <2>3, <2>6, <2>9, <2>11 DEF z
<1> QED BY <1>1, <1>3, <1>4, <1>5

LEMMA MovedIs ==
  ASSUME Valid, Stored, NEW x, NEW p, In(x, p), NEW q \in 0 .. n
  PROVE /\ Stands(Moved(x, q), q)
        /\ UppersKept(x) \/ ~(First(p) <= q /\ q < Cut(p)) => UppersKept(Moved(x, q))
<1>1. x \in EnumType /\ p \in 0 .. Partitions - 1 /\ x.begin = First(p) /\ x.end = Cut(p) /\ x.partition = p
  BY DEF In
<1>2. First(p) \in Nat /\ Cut(p) \in Nat /\ Length(p) \in Nat /\ Cut(p) = First(p) + Length(p)
  BY <1>1, BaseFacts
<1>3. n \in Nat \ {0} /\ q \in Nat
 <2>1. n \in Nat \ {0}  BY ValueFacts DEF Valid
 <2> QED BY <2>1
<1>4. CASE First(p) <= q /\ q < Cut(p)
 <2> DEFINE z == BaseMoved(x, q - First(p))
 <2>1. Moved(x, q) = z  BY <1>1, <1>4 DEF Moved
 <2>2. q - First(p) \in 0 .. Length(p) - 1 /\ First(p) + (q - First(p)) = q  BY <1>2, <1>3, <1>4
 <2>3. Stands(z, First(p) + (q - First(p))) /\ z.partition = p /\ z.upperAt = x.upperAt
   BY <2>2, BaseMovedIs
 <2>4. Stands(z, q)  BY <2>2, <2>3, Zenon
 <2>5. UppersKept(x) => UppersKept(z)
  <3> HIDE DEF z
  <3> QED BY <1>1, <2>3 DEF UppersKept
 <2> QED BY <1>4, <2>1, <2>4, <2>5
<1>5. CASE ~(First(p) <= q /\ q < Cut(p))
 <2>1. Moved(x, q) = SlowMove(x, q)  BY <1>1, <1>5 DEF Moved
 <2>2. Partitions = 1 => p = 0 /\ q = n
  <3> SUFFICES ASSUME Partitions = 1 PROVE p = 0 /\ q = n  OBVIOUS
  <3>1. p = 0  BY <1>1
  <3>2. First(p) = 0  BY <3>1 DEF First
  <3>3. Cut(p) = n  BY <1>1, <3>1, PartitionFacts DEF Valid
  <3> QED BY <1>3, <1>5, <3>1, <3>2, <3>3
 <2> QED BY <1>1, <2>1, <2>2, SlowMoveIs
<1> QED BY <1>4, <1>5

\* next_geq in a partition whose values are on both sides of the bound.
LEMMA GeqInsideIs ==
  ASSUME Valid, NEW x, NEW p, In(x, p), NEW bound \in Nat, Inside(x, bound)
  PROVE /\ Whole!FirstGeq(sequence, bound) \in 0 .. n
        /\ Stands(GeqInside(x, bound), Whole!FirstGeq(sequence, bound))
        /\ UppersKept(x) => UppersKept(GeqInside(x, bound))
<1>1. /\ p \in 0 .. Partitions - 1 /\ x.base = FromOf(p) /\ x.seq = BaseOf(p) /\ x.partition = p
      /\ x.upper = sequence.values[Cut(p) - 1]
  BY DEF In
<1> DEFINE from == FromOf(p)
           first == First(p)
           m == Length(p)
           s == BaseOf(p)
           b == bound - from
           k == Abstract!FirstGeq(s, b)
           q == first + k
<1>2. /\ m \in Nat \ {0} /\ from \in Nat /\ first \in Nat /\ Cut(p) = first + m
      /\ DOMAIN s.values = 0 .. m - 1
  BY <1>1, BaseFacts
<1>3. from <= bound /\ bound <= sequence.values[Cut(p) - 1] /\ b \in Nat
 <2>1. from <= bound /\ bound <= sequence.values[Cut(p) - 1]  BY <1>1 DEF Inside
 <2> QED BY <1>2, <2>1
<1>4. \A i \in 0 .. m - 1 : /\ first + i \in 0 .. n - 1
                            /\ s.values[i] \in Nat
                            /\ from + s.values[i] = sequence.values[first + i]
  BY <1>1, BaseValues
<1> HIDE DEF m, from, first, s, b
<1>5. /\ k \in 0 .. m
      /\ k # m => s.values[k] >= b
      /\ \A i \in 0 .. m - 1 : i < k => s.values[i] < b
 <2>1. m \in Nat /\ \A i \in 0 .. m - 1 : s.values[i] \in Nat  BY <1>2, <1>4
 <2>2. k \in 0 .. m  BY <1>2, <1>3, <2>1, FirstGeqFacts
 <2>3. k # m => s.values[k] >= b  BY <1>2, <1>3, <2>1, FirstGeqFacts
 <2>4. \A i \in 0 .. m - 1 : i < k => s.values[i] < b  BY <1>2, <1>3, <2>1, FirstGeqFacts
 <2> QED BY <2>2, <2>3, <2>4
<1> HIDE DEF k
<1>6. k \in 0 .. m - 1
 <2> SUFFICES ASSUME k = m PROVE FALSE  BY <1>2, <1>5
 <2>1. m - 1 \in 0 .. m - 1 /\ m - 1 < k /\ first + (m - 1) = Cut(p) - 1  BY <1>2
 <2>2. s.values[m - 1] < b /\ s.values[m - 1] \in Nat  BY <1>4, <1>5, <2>1
 <2>3. from + s.values[m - 1] = sequence.values[Cut(p) - 1]  BY <1>4, <2>1
 <2>4. b = bound - from  BY DEF b
 <2> QED BY <1>2, <1>3, <2>2, <2>3, <2>4
<1>7. GeqInside(x, bound) = BaseMoved(x, k)  BY <1>1 DEF GeqInside, k, b, s, from
<1>8. Stands(BaseMoved(x, k), q) /\ BaseMoved(x, k).partition = p /\ BaseMoved(x, k).upperAt = x.upperAt
  BY <1>6, BaseMovedIs DEF m, first
<1>9. Whole!FirstGeq(sequence, bound) = q /\ q \in 0 .. n
 <2>1. /\ n \in Nat \ {0}
       /\ \A i \in 0 .. n - 1 : sequence.values[i] \in Nat
       /\ \A i, j \in 0 .. n - 1 : i <= j => sequence.values[i] <= sequence.values[j]
   BY ValueFacts DEF Valid
 <2>2. q \in 0 .. n /\ q \in 0 .. n - 1 /\ first \in 0 .. n - 1
  <3>1. q \in 0 .. n - 1  BY <1>4, <1>6
  <3> QED BY <1>2, <1>6, <2>1, <3>1
 <2>3. sequence.values[q] >= bound
  <3>1. s.values[k] >= b /\ s.values[k] \in Nat /\ from + s.values[k] = sequence.values[q]
    BY <1>4, <1>5, <1>6
  <3>2. b = bound - from  BY DEF b
  <3> QED BY <1>2, <1>3, <3>1, <3>2
 <2>4. ASSUME NEW i \in 0 .. n - 1, i < q PROVE sequence.values[i] < bound
  <3>1. CASE first <= i
   <4> DEFINE j == i - first
   <4>1. j \in 0 .. m - 1 /\ j < k /\ first + j = i  BY <1>2, <1>6, <2>4, <3>1
   <4> HIDE DEF j
   <4>2. s.values[j] < b /\ s.values[j] \in Nat /\ from + s.values[j] = sequence.values[i]
     BY <1>4, <1>5, <4>1
   <4>3. b = bound - from  BY DEF b
   <4> QED BY <1>2, <1>3, <4>2, <4>3
  <3>2. CASE i < first
   <4>1. p # 0  BY <3>2 DEF first, First
   <4>2. from = sequence.values[first - 1] + 1  BY <4>1 DEF from, FromOf, first
   <4>3. first - 1 \in 0 .. n - 1 /\ i <= first - 1  BY <1>2, <2>1, <2>2, <3>2
   <4>4. sequence.values[i] <= sequence.values[first - 1]  BY <2>1, <4>3
   <4>5. sequence.values[i] \in Nat /\ sequence.values[first - 1] \in Nat  BY <2>1, <4>3
   <4> QED BY <1>3, <4>2, <4>4, <4>5
  <3> QED BY <1>2, <2>1, <3>1, <3>2
 <2> HIDE DEF q
 <2>5. Whole!FirstGeq(sequence, bound) = q  BY <2>2, <2>3, <2>4, FirstGeqIs
 <2> QED BY <2>2, <2>5
<1>10. UppersKept(x) => UppersKept(BaseMoved(x, k))  BY <1>1, <1>8 DEF UppersKept
<1> QED BY <1>7, <1>8, <1>9, <1>10, Zenon

\* next_geq: with the upper bounds the way to the partition that holds the bound is never the one
\* that is left for a bound the cursor stands at.
LEMMA UpperFacts ==
  ASSUME Valid, Stored, Partitions > 1
  PROVE /\ \A i \in 1 .. Partitions + 1 : file.uppers[i] \in Nat
        /\ \A i, j \in 1 .. Partitions + 1 : i < j => file.uppers[i] <= file.uppers[j]
        /\ file.uppers[1] = sequence.values[0]
        /\ file.uppers[Partitions + 1] = sequence.values[n - 1]
        /\ \A p \in 0 .. Partitions - 1 :
              /\ file.uppers[p + 2] = sequence.values[Cut(p) - 1]
              /\ FromOf(p) = file.uppers[p + 1] + (IF p = 0 THEN 0 ELSE 1)
<1> DEFINE K == Partitions
           P(i) == IF i = 1 THEN 0 ELSE Cut(i - 2) - 1
<1>1. K \in Nat \ {0} /\ n \in Nat \ {0}
 <2>1. K \in Nat \ {0}  BY PartitionFacts DEF Valid
 <2>2. n \in Nat \ {0}  BY ValueFacts DEF Valid
 <2> QED BY <2>1, <2>2
<1>2. /\ \A i \in 0 .. n - 1 : sequence.values[i] \in Nat
      /\ \A i, j \in 0 .. n - 1 : i <= j => sequence.values[i] <= sequence.values[j]
  BY ValueFacts DEF Valid
<1>3. ASSUME NEW i \in 1 .. K + 1 PROVE file.uppers[i] = sequence.values[P(i)] /\ P(i) \in 0 .. n - 1
 <2>1. file.uppers[i] = UpperOf(i)  BY DEF Stored
 <2>2. CASE i = 1  BY <1>1, <2>1, <2>2 DEF UpperOf
 <2>3. CASE i # 1
  <3>1. i - 2 \in 0 .. K - 1  BY <1>1, <2>3
  <3>2. Cut(i - 2) \in 1 .. n  BY <3>1, PartitionFacts DEF Valid
  <3> QED BY <1>1, <2>1, <2>3, <3>2 DEF UpperOf
 <2> QED BY <2>2, <2>3
<1>4. ASSUME NEW i \in 1 .. K + 1, NEW j \in 1 .. K + 1, i < j PROVE P(i) <= P(j)
 <2>1. P(i) \in 0 .. n - 1 /\ P(j) \in 0 .. n - 1  BY <1>3
 <2>2. CASE i = 1  BY <1>1, <2>1, <2>2
 <2>3. CASE i # 1
  <3>1. i - 2 \in 0 .. K - 1 /\ j - 2 \in 0 .. K - 1 /\ i - 2 < j - 2 /\ j # 1  BY <1>1, <1>4, <2>3
  <3>2. Cut(i - 2) <= First(j - 2)  BY <3>1, PartitionFacts DEF Valid
  <3>3. First(j - 2) < Cut(j - 2) /\ First(j - 2) \in 0 .. n - 1  BY <3>1, PartitionFacts DEF Valid
  <3>4. Cut(i - 2) \in 1 .. n /\ Cut(j - 2) \in 1 .. n  BY <3>1, PartitionFacts DEF Valid
  <3> QED BY <1>1, <2>3, <3>1, <3>2, <3>3, <3>4
 <2> QED BY <2>2, <2>3
<1>5. /\ P(1) = 0 /\ P(K + 1) = n - 1 /\ 1 \in 1 .. K + 1 /\ K + 1 \in 1 .. K + 1
 <2>1. K - 1 \in 0 .. K - 1 /\ (K + 1) - 2 = K - 1  BY <1>1
 <2>2. Cut(K - 1) = n  BY <2>1, PartitionFacts DEF Valid
 <2> QED BY <1>1, <2>1, <2>2
<1>6. ASSUME NEW p \in 0 .. K - 1
      PROVE /\ file.uppers[p + 2] = sequence.values[Cut(p) - 1]
            /\ FromOf(p) = file.uppers[p + 1] + (IF p = 0 THEN 0 ELSE 1)
 <2>1. p + 2 \in 1 .. K + 1 /\ p + 1 \in 1 .. K + 1 /\ p + 2 # 1 /\ (p + 2) - 2 = p /\ (p + 1) - 2 = p - 1
   BY <1>1
 <2>2. file.uppers[p + 2] = sequence.values[Cut(p) - 1]  BY <2>1 DEF Stored, UpperOf
 <2>3. CASE p = 0
  <3>1. file.uppers[p + 1] = sequence.values[0] /\ sequence.values[0] \in Nat
    BY <1>1, <1>2, <2>1, <2>3 DEF Stored, UpperOf
  <3> QED BY <2>2, <2>3, <3>1 DEF FromOf
 <2>4. CASE p # 0
  <3>1. file.uppers[p + 1] = sequence.values[Cut(p - 1) - 1]
   <4>1. p + 1 # 1  BY <2>4
   <4> QED BY <2>1, <4>1 DEF Stored, UpperOf
  <3> QED BY <2>2, <2>4, <3>1 DEF FromOf, First
 <2> QED BY <2>3, <2>4
<1> HIDE DEF K, P
<1>7. \A i \in 1 .. K + 1 : file.uppers[i] \in Nat  BY <1>2, <1>3
<1>8. \A i, j \in 1 .. K + 1 : i < j => file.uppers[i] <= file.uppers[j]  BY <1>2, <1>3, <1>4
<1>9. file.uppers[1] = sequence.values[0] /\ file.uppers[K + 1] = sequence.values[n - 1]
  BY <1>3, <1>5
<1> QED BY <1>6, <1>7, <1>8, <1>9 DEF K

LEMMA UppersBelow ==
  ASSUME Valid, Stored, Partitions > 1, NEW bound \in Nat, NEW u,
         u = Cardinality({i \in 1 .. Partitions + 1 : file.uppers[i] < bound})
  PROVE /\ u \in 0 .. Partitions + 1
        /\ u # 0 => file.uppers[u] < bound
        /\ u # Partitions + 1 => bound <= file.uppers[u + 1]
<1> DEFINE m == Partitions + 1
           S == {i \in 1 .. m : file.uppers[i] < bound}
<1>1. Partitions \in Nat /\ m \in Nat
 <2>1. Partitions \in Nat  BY PartitionFacts DEF Valid
 <2> QED BY <2>1
<1>2. /\ \A i \in 1 .. m : file.uppers[i] \in Nat
      /\ \A i, j \in 1 .. m : i < j => file.uppers[i] <= file.uppers[j]
  BY UpperFacts
<1> HIDE DEF m
<1>3. ASSUME NEW j \in S, NEW i \in 1 .. m, i < j PROVE i \in S
 <2>1. file.uppers[i] <= file.uppers[j] /\ file.uppers[j] < bound  BY <1>2, <1>3
 <2>2. file.uppers[i] \in Nat /\ file.uppers[j] \in Nat  BY <1>2, <1>3
 <2> QED BY <2>1, <2>2
<1>4. S \subseteq 1 .. m  OBVIOUS
<1>5. Cardinality(S) \in 0 .. m /\ S = 1 .. Cardinality(S)
 <2> HIDE DEF S
 <2> QED BY <1>1, <1>3, <1>4, InitialSegment
<1>6. u = Cardinality(S)  BY DEF m
<1>7. u \in 0 .. m /\ \A i \in 1 .. m : i \in S <=> i <= u
 <2>1. u \in 0 .. m /\ S = 1 .. u  BY <1>5, <1>6, Zenon
 <2> HIDE DEF S
 <2> QED BY <1>1, <2>1
<1>8. u # 0 => file.uppers[u] < bound
 <2> SUFFICES ASSUME u # 0 PROVE file.uppers[u] < bound  OBVIOUS
 <2>1. u \in 1 .. m /\ u <= u  BY <1>1, <1>7
 <2> QED BY <1>7, <2>1
<1>9. u # m => bound <= file.uppers[u + 1]
 <2> SUFFICES ASSUME u # m PROVE bound <= file.uppers[u + 1]  OBVIOUS
 <2>1. u + 1 \in 1 .. m /\ ~(u + 1 <= u)  BY <1>1, <1>7
 <2>2. u + 1 \notin S /\ file.uppers[u + 1] \in Nat  BY <1>2, <1>7, <2>1
 <2> QED BY <2>1, <2>2
<1> QED BY <1>7, <1>8, <1>9 DEF m

LEMMA GeqIs ==
  ASSUME Valid, Stored, NEW x, NEW p, In(x, p), UppersKept(x), NEW bound \in Nat
  PROVE /\ Whole!FirstGeq(sequence, bound) \in 0 .. n
        /\ Stands(Geq(x, bound), Whole!FirstGeq(sequence, bound))
        /\ UppersKept(Geq(x, bound))
<1> DEFINE K == Partitions
           q == Whole!FirstGeq(sequence, bound)
<1>1. /\ p \in 0 .. K - 1 /\ x.partition = p /\ x \in EnumType
      /\ x.base = FromOf(p) /\ x.upper = sequence.values[Cut(p) - 1]
  BY DEF In
<1>2. /\ n \in Nat \ {0}
      /\ \A i \in 0 .. n - 1 : sequence.values[i] \in Nat
      /\ \A i, j \in 0 .. n - 1 : i <= j => sequence.values[i] <= sequence.values[j]
  BY ValueFacts DEF Valid
<1>3. K \in Nat \ {0}  BY PartitionFacts DEF Valid
<1>4. bound <= sequence.values[0] => q = 0
 <2> SUFFICES ASSUME bound <= sequence.values[0] PROVE q = 0  OBVIOUS
 <2>1. 0 \in 0 .. n /\ sequence.values[0] >= bound  BY <1>2
 <2>2. \A i \in 0 .. n - 1 : i < 0 => sequence.values[i] < bound  BY <1>2
 <2> HIDE DEF q
 <2> QED BY <2>1, <2>2, FirstGeqIs DEF q
<1>5. sequence.values[n - 1] < bound => q = n
 <2> SUFFICES ASSUME sequence.values[n - 1] < bound PROVE q = n  OBVIOUS
 <2>1. ASSUME NEW i \in 0 .. n - 1 PROVE sequence.values[i] < bound
  <3>1. i <= n - 1 /\ n - 1 \in 0 .. n - 1  BY <1>2
  <3>2. sequence.values[i] <= sequence.values[n - 1]  BY <1>2, <3>1
  <3>3. sequence.values[i] \in Nat /\ sequence.values[n - 1] \in Nat  BY <1>2, <3>1
  <3> QED BY <3>2, <3>3
 <2>2. n \in 0 .. n  BY <1>2
 <2> HIDE DEF q
 <2> QED BY <2>1, <2>2, FirstGeqIs DEF q
<1>6. CASE Inside(x, bound)
 <2>1. Geq(x, bound) = GeqInside(x, bound)  BY <1>6 DEF Geq
 <2>2. q \in 0 .. n  BY <1>6, GeqInsideIs
 <2>3. Stands(GeqInside(x, bound), q)  BY <1>6, GeqInsideIs
 <2>4. UppersKept(GeqInside(x, bound))  BY <1>6, GeqInsideIs
 <2> QED BY <2>1, <2>2, <2>3, <2>4
<1>7. CASE ~Inside(x, bound) /\ K = 1
 <2> DEFINE r == IF bound < x.base THEN 0 ELSE n
 <2>1. Geq(x, bound) = Moved(x, r)  BY <1>7 DEF Geq, SlowNextGeq
 <2>2. p = 0  BY <1>1, <1>7
 <2>3. Cut(p) = n  BY <1>1, <1>7, <2>2, PartitionFacts DEF Valid
 <2>4. x.base = sequence.values[0] /\ x.upper = sequence.values[n - 1]
   BY <1>1, <2>2, <2>3 DEF FromOf
 <2>5. sequence.values[0] \in Nat /\ sequence.values[n - 1] \in Nat  BY <1>2
 <2>6. q = r
  <3>1. CASE bound < x.base  BY <1>4, <2>4, <2>5, <3>1
  <3>2. CASE ~(bound < x.base)  BY <1>5, <1>7, <2>4, <2>5, <3>2 DEF Inside
  <3> QED BY <3>1, <3>2
 <2>7. r \in 0 .. n  BY <1>2
 <2> HIDE DEF q, r
 <2>8. Stands(Moved(x, r), r) /\ UppersKept(Moved(x, r))  BY <2>7, MovedIs
 <2> QED BY <2>1, <2>6, <2>7, <2>8 DEF q
<1>8. CASE ~Inside(x, bound) /\ K > 1
 <2> DEFINE u == Cardinality({i \in 1 .. K + 1 : file.uppers[i] < bound})
            y == [x EXCEPT !.upperAt = u]
            z == Switched(y, u - 1)
 <2>1. bound # file.uppers[x.upperAt + 1]
  <3> SUFFICES ASSUME bound = file.uppers[x.upperAt + 1] PROVE FALSE  OBVIOUS
  <3>1. FromOf(p) \in Nat /\ sequence.values[Cut(p) - 1] \in Nat /\ FromOf(p) <= sequence.values[Cut(p) - 1]
    BY <1>1, BaseFacts
  <3>2. CASE x.upperAt = p + 1
   <4>1. file.uppers[p + 2] = sequence.values[Cut(p) - 1]  BY <1>1, <1>8, UpperFacts
   <4>2. (p + 1) + 1 = p + 2  BY <1>1
   <4> QED BY <1>1, <1>8, <3>1, <3>2, <4>1, <4>2 DEF Inside
  <3>3. CASE x.upperAt = 0 /\ p = 0
   <4>1. file.uppers[1] = sequence.values[0]  BY <1>8, UpperFacts
   <4> QED BY <1>1, <1>8, <3>1, <3>3, <4>1 DEF Inside, FromOf
  <3> QED BY <1>1, <1>8, <3>2, <3>3 DEF UppersKept
 <2>2. Geq(x, bound) = IF u = 0 THEN Moved(y, 0)
                       ELSE IF u = K + 1 THEN Moved(y, n)
                       ELSE IF Inside(z, bound) THEN GeqInside(z, bound) ELSE Lost(z)
  <3> DEFINE uu == IF bound = file.uppers[x.upperAt + 1] THEN x.upperAt
                   ELSE Cardinality({i \in 1 .. Partitions + 1 : file.uppers[i] < bound})
             yy == [x EXCEPT !.upperAt = uu]
             zz == Switched(yy, uu - 1)
  <3>1. uu = u  BY <2>1
  <3> HIDE DEF uu, u
  <3>2. ~(Partitions = 1) /\ ~Inside(x, bound)  BY <1>8
  <3>3. Geq(x, bound) = IF uu = 0 THEN Moved(yy, 0)
                        ELSE IF uu = Partitions + 1 THEN Moved(yy, n)
                        ELSE IF Inside(zz, bound) THEN GeqInside(zz, bound) ELSE Lost(zz)
    BY <3>2, Zenon DEF Geq, SlowNextGeq, uu
  <3> QED BY <3>1, <3>3
 <2>3. /\ u \in 0 .. K + 1
       /\ u # 0 => file.uppers[u] < bound
       /\ u # K + 1 => bound <= file.uppers[u + 1]
   BY <1>8, UppersBelow
 <2> HIDE DEF u
 <2>4. y \in EnumType  BY <1>1, <1>3, <2>3 DEF EnumType
 <2>5. In(y, p) /\ y.upperAt = u
  <3>1. /\ y.partition = x.partition /\ y.begin = x.begin /\ y.end = x.end /\ y.base = x.base
        /\ y.upper = x.upper /\ y.seq = x.seq /\ y.upperAt = u
    BY <1>1 DEF EnumType
  <3> HIDE DEF y
  <3> QED BY <2>4, <3>1 DEF In
 <2> HIDE DEF y
 <2>6. First(p) \in 0 .. n - 1 /\ Cut(p) \in 1 .. n /\ (First(p) = 0 <=> p = 0) /\ y.partition = p
  <3>1. y.partition = p  BY <2>5 DEF In
  <3> QED BY <1>1, <3>1, PartitionFacts DEF Valid
 <2>7. CASE u = 0
  <3>1. q = 0
   <4>1. bound <= sequence.values[0]  BY <1>8, <2>3, <2>7, <1>3, UpperFacts
   <4> QED BY <1>4, <4>1
  <3>2. 0 \in 0 .. n  BY <1>2
  <3>3. UppersKept(y) \/ ~(First(p) <= 0 /\ 0 < Cut(p))  BY <1>2, <2>5, <2>6, <2>7 DEF UppersKept
  <3>4. Stands(Moved(y, 0), 0) /\ UppersKept(Moved(y, 0))  BY <2>5, <3>2, <3>3, MovedIs
  <3> QED BY <2>2, <2>7, <3>1, <3>2, <3>4
 <2>8. CASE u = K + 1
  <3>1. q = n
   <4>1. sequence.values[n - 1] < bound  BY <1>8, <2>3, <2>8, <1>3, UpperFacts
   <4> QED BY <1>5, <4>1
  <3>2. n \in 0 .. n  BY <1>2
  <3>3. ~(First(p) <= n /\ n < Cut(p))  BY <1>2, <2>6
  <3>4. Stands(Moved(y, n), n) /\ UppersKept(Moved(y, n))  BY <2>5, <3>2, <3>3, MovedIs
  <3>5. u # 0  BY <1>3, <2>8
  <3> QED BY <2>2, <2>8, <3>1, <3>2, <3>4, <3>5
 <2>9. CASE u # 0 /\ u # K + 1
  <3> DEFINE r == u - 1
  <3>1. r \in 0 .. K - 1 /\ r + 1 = u /\ r + 2 = u + 1 /\ u \in 1 .. K + 1 /\ u + 1 \in 1 .. K + 1
    BY <1>3, <2>3, <2>9
  <3>2. In(z, r) /\ z.upperAt = r + 1  BY <1>8, <2>4, <3>1, SwitchedIs
  <3>3. z.base = FromOf(r) /\ z.upper = sequence.values[Cut(r) - 1] /\ z.partition = r
    BY <3>2 DEF In
  <3> HIDE DEF z, r
  <3>4. /\ file.uppers[r + 2] = sequence.values[Cut(r) - 1]
        /\ FromOf(r) = file.uppers[r + 1] + (IF r = 0 THEN 0 ELSE 1)
        /\ file.uppers[u] \in Nat /\ file.uppers[u + 1] \in Nat
    BY <1>8, <3>1, UpperFacts
  <3>5. Inside(z, bound)
   <4>1. file.uppers[u] < bound /\ bound <= file.uppers[u + 1]  BY <2>3, <2>9
   <4>2. FromOf(r) <= bound  BY <3>1, <3>4, <4>1
   <4>3. bound <= sequence.values[Cut(r) - 1]  BY <3>1, <3>4, <4>1
   <4> QED BY <3>3, <4>2, <4>3 DEF Inside
  <3>6. UppersKept(z)  BY <3>2, <3>3 DEF UppersKept
  <3>7. q \in 0 .. n  BY <3>2, <3>5, GeqInsideIs
  <3>8. Stands(GeqInside(z, bound), q)  BY <3>2, <3>5, GeqInsideIs
  <3>9. UppersKept(GeqInside(z, bound))  BY <3>2, <3>5, <3>6, GeqInsideIs
  <3>10. Geq(x, bound) = GeqInside(z, bound)  BY <2>2, <2>9, <3>5 DEF z
  <3> QED BY <3>7, <3>8, <3>9, <3>10
 <2> QED BY <2>7, <2>8, <2>9
<1> QED BY <1>3, <1>6, <1>7, <1>8

\* next, and the value before the cursor.
LEMMA StandsIn ==
  ASSUME Valid, NEW x, NEW q, Stands(x, q), NEW p, p = x.partition
  PROVE /\ p \in 0 .. Partitions - 1 /\ x \in EnumType /\ In(x, p)
        /\ x.begin = First(p) /\ x.end = Cut(p) /\ x.base = FromOf(p) /\ x.seq = BaseOf(p)
        /\ n \in Nat \ {0} /\ q \in 0 .. n /\ x.at \in Nat /\ First(p) \in Nat /\ Cut(p) \in Nat
        /\ Length(p) \in Nat \ {0} /\ Cut(p) = First(p) + Length(p) /\ Cut(p) <= n
        /\ q = First(p) + x.at /\ q <= Cut(p) /\ (q = Cut(p) => q = n)
        /\ x.position = q /\ x.value = ValueAt(q)
<1>1. In(x, p)  BY DEF Stands
<1>2. /\ p \in 0 .. Partitions - 1 /\ x \in EnumType
      /\ x.begin = First(p) /\ x.end = Cut(p) /\ x.base = FromOf(p) /\ x.seq = BaseOf(p)
  BY <1>1 DEF In
<1>3. n \in Nat \ {0}  BY ValueFacts DEF Valid
<1>4. /\ First(p) \in Nat /\ Cut(p) \in Nat /\ Length(p) \in Nat \ {0} /\ Cut(p) = First(p) + Length(p)
  BY <1>2, BaseFacts
<1>5. Cut(p) \in 1 .. n  BY <1>2, PartitionFacts DEF Valid
<1>6. x.at \in Nat  BY <1>2 DEF EnumType
<1>7. Cut(p) <= n  BY <1>3, <1>5
<1> QED BY <1>1, <1>2, <1>3, <1>4, <1>6, <1>7 DEF Stands

LEMMA AdvancedIs ==
  ASSUME Valid, Stored, NEW x, NEW q, Stands(x, q), UppersKept(x), q < n
  PROVE Stands(Advanced(x), q + 1) /\ UppersKept(Advanced(x))
<1>0. PICK p : p = x.partition  OBVIOUS
<1>1. /\ p \in 0 .. Partitions - 1 /\ x \in EnumType /\ In(x, p)
      /\ x.begin = First(p) /\ x.end = Cut(p) /\ x.base = FromOf(p) /\ x.seq = BaseOf(p)
      /\ n \in Nat \ {0} /\ q \in 0 .. n /\ x.at \in Nat /\ First(p) \in Nat /\ Cut(p) \in Nat
      /\ Length(p) \in Nat \ {0} /\ Cut(p) = First(p) + Length(p) /\ Cut(p) <= n
      /\ q = First(p) + x.at /\ q <= Cut(p) /\ (q = Cut(p) => q = n)
      /\ x.position = q
  BY <1>0, StandsIn
<1>2. q < Cut(p)  BY <1>1
<1>3. CASE q + 1 < Cut(p)
 <2> DEFINE i == x.at + 1
            z == BaseMoved(x, i)
 <2>1. i \in 0 .. Length(p) - 1 /\ First(p) + i = q + 1  BY <1>1, <1>3
 <2>2. Advanced(x) = z  BY <1>1, <1>3 DEF Advanced
 <2> HIDE DEF i
 <2>3. Stands(z, First(p) + i) /\ z.partition = p /\ z.upperAt = x.upperAt
   BY <1>1, <2>1, BaseMovedIs
 <2>4. Stands(z, q + 1)  BY <2>1, <2>3, Zenon
 <2> HIDE DEF z
 <2>5. UppersKept(z)  BY <1>0, <2>3 DEF UppersKept
 <2> QED BY <2>2, <2>4, <2>5
<1>4. CASE ~(q + 1 < Cut(p)) /\ q + 1 = n
 <2> DEFINE i == x.at + 1
            z == [x EXCEPT !.position = n, !.value = universe, !.at = i]
 <2>1. Advanced(x) = z  BY <1>1, <1>4 DEF Advanced
 <2>2. Cut(p) = n /\ n = First(p) + i /\ n \in 0 .. n  BY <1>1, <1>2, <1>4
 <2>3. universe \in Nat /\ n \in Nat /\ i \in Nat  BY <1>1, ValueFacts DEF Valid
 <2> HIDE DEF i
 <2>4. /\ z \in EnumType /\ z.partition = x.partition /\ z.begin = x.begin /\ z.end = x.end
       /\ z.upperAt = x.upperAt /\ z.upper = x.upper /\ z.base = x.base /\ z.seq = x.seq
       /\ z.at = i /\ z.position = n /\ z.value = universe
  <3> DEFINE a == n
             v == universe
  <3>1. /\ z \in EnumType /\ z.partition = x.partition /\ z.begin = x.begin /\ z.end = x.end
        /\ z.upperAt = x.upperAt /\ z.upper = x.upper /\ z.base = x.base /\ z.seq = x.seq
        /\ z.at = i /\ z.position = a /\ z.value = v
   <4>1. a \in Nat /\ v \in Nat  BY <2>3
   <4>2. z = [x EXCEPT !.position = a, !.value = v, !.at = i]  OBVIOUS
   <4> HIDE DEF a, v, z
   <4> QED BY <1>1, <2>3, <4>1, <4>2 DEF EnumType
  <3> QED BY <3>1
 <2> HIDE DEF z
 <2>5. In(z, p)  BY <1>1, <2>4 DEF In
 <2>6. ValueAt(n) = universe /\ n = z.begin + z.at /\ n <= z.end  BY <1>1, <2>2, <2>4 DEF ValueAt
 <2>7. Stands(z, n)  BY <1>0, <2>2, <2>4, <2>5, <2>6 DEF Stands
 <2>8. UppersKept(z)  BY <2>4 DEF UppersKept
 <2> QED BY <1>4, <2>1, <2>7, <2>8
<1>5. CASE ~(q + 1 < Cut(p)) /\ q + 1 # n
 <2> DEFINE y == Switched(x, x.partition + 1)
            z == BaseMoved(y, 0)
            r == p + 1
 <2>1. Advanced(x) = z  BY <1>1, <1>5 DEF Advanced
 <2>2. Cut(p) = q + 1 /\ Cut(p) # n  BY <1>1, <1>2, <1>5
 <2>3. Partitions \in Nat \ {0}  BY PartitionFacts DEF Valid
 <2>4. p # Partitions - 1  BY <1>1, <2>2, PartitionFacts DEF Valid
 <2>5. r \in 0 .. Partitions - 1 /\ Partitions > 1 /\ r - 1 = p /\ r > 0  BY <1>1, <2>3, <2>4
 <2>6. First(r) = q + 1  BY <2>2, <2>5 DEF First
 <2>7. In(y, r) /\ y.upperAt = r + 1  BY <1>0, <1>1, <2>5, SwitchedIs
 <2> HIDE DEF y, r
 <2>8. 0 \in 0 .. Length(r) - 1 /\ First(r) + 0 = q + 1
  <3>1. Length(r) \in Nat \ {0}  BY <2>5, BaseFacts
  <3> QED BY <1>1, <2>6, <3>1
 <2>9. Stands(z, First(r) + 0) /\ z.partition = r /\ z.upperAt = y.upperAt
   BY <2>7, <2>8, BaseMovedIs
 <2>10. Stands(z, q + 1)  BY <2>8, <2>9, Zenon
 <2> HIDE DEF z
 <2>11. UppersKept(z)  BY <2>7, <2>9 DEF UppersKept
 <2> QED BY <2>1, <2>10, <2>11
<1> QED BY <1>3, <1>4, <1>5

LEMMA ViewIs ==
  ASSUME Valid, NEW x, NEW q, Stands(x, q)
  PROVE [position |-> x.position, value |-> x.value, previous |-> PrevValue(x)] = Whole!At(sequence, q)
<1>0. PICK p : p = x.partition  OBVIOUS
<1>1. /\ p \in 0 .. Partitions - 1 /\ x \in EnumType /\ In(x, p)
      /\ x.begin = First(p) /\ x.end = Cut(p) /\ x.base = FromOf(p) /\ x.seq = BaseOf(p)
      /\ n \in Nat \ {0} /\ q \in 0 .. n /\ x.at \in Nat /\ First(p) \in Nat /\ Cut(p) \in Nat
      /\ Length(p) \in Nat \ {0} /\ Cut(p) = First(p) + Length(p) /\ Cut(p) <= n
      /\ q = First(p) + x.at /\ q <= Cut(p) /\ (q = Cut(p) => q = n)
      /\ x.position = q /\ x.value = ValueAt(q)
  BY <1>0, StandsIn
<1>2. Whole!Size(sequence) = n  BY SizeIs DEF n
<1>3. Whole!At(sequence, q) = [position |-> q, value |-> ValueAt(q),
                               previous |-> IF q = 0 THEN 0 ELSE sequence.values[q - 1]]
  BY <1>1, <1>2 DEF Whole!At, ValueAt, universe
<1>4. PrevValue(x) = IF q = 0 THEN 0 ELSE sequence.values[q - 1]
 <2>1. First(p) = 0 <=> p = 0  BY <1>1, PartitionFacts DEF Valid
 <2>2. CASE x.at = 0
  <3>1. q = First(p)  BY <1>1, <2>2
  <3>2. CASE p = 0  BY <1>0, <1>1, <2>1, <3>1, <3>2 DEF PrevValue
  <3>3. CASE p # 0
   <4>1. FromOf(p) = sequence.values[q - 1] + 1 /\ q # 0  BY <2>1, <3>1, <3>3 DEF FromOf
   <4>2. sequence.values[q - 1] \in Nat
    <5>1. \A i \in 0 .. n - 1 : sequence.values[i] \in Nat  BY ValueFacts DEF Valid
    <5>2. q - 1 \in 0 .. n - 1  BY <1>1, <4>1
    <5> QED BY <5>1, <5>2
   <4> QED BY <1>0, <1>1, <3>1, <3>3, <4>1, <4>2 DEF PrevValue
  <3> QED BY <3>2, <3>3
 <2>3. CASE x.at # 0
  <3> DEFINE i == x.at - 1
  <3>1. i \in 0 .. Length(p) - 1 /\ First(p) + i = q - 1 /\ q # First(p) /\ q # 0  BY <1>1, <2>3
  <3>2. FromOf(p) + BaseOf(p).values[i] = sequence.values[First(p) + i]  BY <1>1, <3>1, BaseValues
  <3>3. PrevValue(x) = FromOf(p) + BaseOf(p).values[i]  BY <1>1, <2>3, <3>1 DEF PrevValue
  <3> HIDE DEF i
  <3>4. sequence.values[First(p) + i] = sequence.values[q - 1]  BY <3>1
  <3> QED BY <3>1, <3>2, <3>3, <3>4
 <2> QED BY <2>2, <2>3
<1> QED BY <1>1, <1>3, <1>4

------------------------------
(* Writing the file. *)

\* The sequence and the way it is cut do not change.
LEMMA SameParts ==
  ASSUME UNCHANGED <<sequence, uniform, cuts>>
  PROVE /\ n' = n /\ universe' = universe /\ Partitions' = Partitions /\ AllBases' = AllBases
        /\ FileType' = FileType
        /\ \A p : /\ Cut(p)' = Cut(p) /\ First(p)' = First(p) /\ FromOf(p)' = FromOf(p)
                  /\ BaseOf(p)' = BaseOf(p) /\ UpperOf(p)' = UpperOf(p)
                  /\ Length(p)' = Length(p)
        /\ Valid => Valid'
<1>1. n' = n /\ universe' = universe /\ Partitions' = Partitions
  BY DEF n, universe, Partitions, Abstract!Size, Abstract!Cardinality, Cardinality
<1>2. \A p : Cut(p)' = Cut(p)  BY DEF Cut
<1>3. \A p : First(p)' = First(p)  BY <1>2 DEF First
<1>4. \A p : FromOf(p)' = FromOf(p)  BY <1>3 DEF FromOf
<1>5. \A p : BaseOf(p)' = BaseOf(p)
 <2> SUFFICES ASSUME NEW p PROVE BaseOf(p)' = BaseOf(p)  OBVIOUS
 <2>1. First(p)' = First(p) /\ Cut(p)' = Cut(p) /\ FromOf(p)' = FromOf(p)  BY <1>2, <1>3, <1>4
 <2> QED BY <2>1 DEF BaseOf, Base
<1>6. \A p : UpperOf(p)' = UpperOf(p)  BY <1>2 DEF UpperOf
<1>7. \A p : Length(p)' = Length(p)  BY <1>2, <1>3 DEF Length
<1>8. AllBases' = AllBases  BY <1>1, <1>5 DEF AllBases
<1>9. FileType' = FileType  BY <1>8 DEF FileType
<1>10. Valid => Valid'  BY <1>1 DEF Valid, Assumed, CutsOK
<1> QED BY <1>1, <1>2, <1>3, <1>4, <1>5, <1>6, <1>7, <1>8, <1>9, <1>10

\* An int holds what is below its limit.
LEMMA NarrowIs ==
  ASSUME Assumed, NEW x \in Nat, x < IntLimit
  PROVE Narrow(x) = x
<1>1. IntLimit \in Nat \ {0}  BY DEF Assumed, PartitionedAssumption
<1>2. PICK y : y = x + IntLimit  OBVIOUS
<1>3. PICK z : z = 2 * IntLimit  OBVIOUS
<1>4. y \in Nat /\ z \in Nat \ {0} /\ y < z /\ y - IntLimit = x  BY <1>1, <1>2, <1>3
<1>5. y % z = y  BY <1>4
<1> QED BY <1>2, <1>3, <1>4, <1>5 DEF Narrow

LEMMA SingleStored ==
  ASSUME Valid, Writing, WriteSingle
  PROVE Stored'
<1>1. /\ n \in Nat \ {0} /\ universe \in Nat
      /\ \A i \in 0 .. n - 1 : sequence.values[i] \in Nat /\ sequence.values[i] < universe
      /\ \A i, j \in 0 .. n - 1 : i < j => sequence.values[i] < sequence.values[j]
  BY ValueFacts DEF Valid
<1> DEFINE from == sequence.values[0]
           last == sequence.values[n - 1]
           d == IF n = 1 \/ from + (last - from) + 1 = universe THEN 0 ELSE last - from
           bases == <<BaseOf(0)>>
<1>2. /\ from \in Nat /\ last \in Nat /\ from < universe /\ last < universe
      /\ (n = 1 => last = from) /\ (n # 1 => from < last)
 <2>1. 0 \in 0 .. n - 1 /\ n - 1 \in 0 .. n - 1 /\ (n # 1 => 0 < n - 1)  BY <1>1
 <2> QED BY <1>1, <2>1
<1>3. Partitions = 1 /\ UNCHANGED <<sequence, uniform, cuts>>  BY DEF WriteSingle
<1>4. Cut(0) = n /\ First(0) = 0 /\ FromOf(0) = from
 <2>1. 0 \in 0 .. Partitions - 1 /\ 0 = Partitions - 1  BY <1>3
 <2>2. Cut(0) = n  BY <2>1, PartitionFacts DEF Valid
 <2> QED BY <2>2 DEF First, FromOf
<1>5. Base(0, n, from) = BaseOf(0) /\ BaseOf(0) \in AllBases
 <2>1. 0 \in 0 .. Partitions - 1  BY <1>3
 <2> QED BY <1>4, <2>1 DEF BaseOf, AllBases
<1>6. file' = [file EXCEPT !.first = from, !.delta = d, !.bases = bases]
 <2>1. from % 2 ^ CeilLog2(universe) = from  BY <1>1, <1>2, FieldHolds
 <2> DEFINE m == from % 2 ^ CeilLog2(universe)
            b == <<Base(0, n, from)>>
 <2>2. file' = [file EXCEPT !.first = m, !.delta = d, !.bases = b]  BY Zenon DEF WriteSingle
 <2>3. m = from /\ b = bases  BY <1>5, <2>1
 <2> HIDE DEF m, b, from, d, bases
 <2> QED BY <2>2, <2>3
<1>7. d \in Nat  BY <1>1, <1>2
<1>8. bases \in Seq(AllBases) /\ Len(bases) = 1 /\ bases[1] = BaseOf(0)  BY <1>5
<1> HIDE DEF bases
<1>9. /\ file' \in FileType /\ file'.first = from /\ file'.delta = d /\ file'.bases = bases
 <2>1. file \in FileType  BY DEF Writing
 <2> HIDE DEF from, d
 <2> QED BY <1>2, <1>6, <1>7, <1>8, <2>1 DEF FileType, from
<1>10. SingleUpper' = last - from
 <2> DEFINE ub == IF d = 0 THEN universe - from - 1 ELSE d
 <2>1. SingleUpper' = IF n = 1 THEN 0 ELSE Narrow(ub)
   BY <1>3, <1>9, SameParts DEF SingleUpper, Narrow
 <2>2. ub = last - from \/ n = 1
  <3> HIDE DEF from, last
  <3> QED BY <1>1, <1>2
 <2>3. universe < IntLimit /\ IntLimit \in Nat
   BY DEF Valid, Assumed, PartitionedAssumption, InputsAssumption, universe
 <2> HIDE DEF from, last, ub
 <2>4. last - from \in Nat /\ last - from < IntLimit  BY <1>1, <1>2, <2>3
 <2>5. Narrow(last - from) = last - from  BY <2>4, NarrowIs DEF Valid
 <2> QED BY <1>2, <2>1, <2>2, <2>5
<1>11. from + SingleUpper' = last
 <2> HIDE DEF from, last
 <2> QED BY <1>2, <1>10
<1>12. /\ n' = n /\ Partitions' = 1 /\ sequence' = sequence /\ FileType' = FileType
       /\ \A p : BaseOf(p)' = BaseOf(p)
  BY <1>3, SameParts
<1>13. \A p \in 0 .. 1 - 1 : p = 0  OBVIOUS
<1> HIDE DEF from, last, d
<1>14. \A p \in 0 .. 1 - 1 : file'.bases[p + 1] = BaseOf(p)  BY <1>8, <1>9, <1>13
<1> QED BY <1>8, <1>9, <1>11, <1>12, <1>13, <1>14 DEF Stored, from, last

LEMMA PartitionWritten ==
  ASSUME Valid, Writing, WritePartition
  PROVE Writing'
<1> DEFINE p == Written
           K == Partitions
           size == file.size + BaseBits(BaseOf(p))
           bases == Append(file.bases, BaseOf(p))
           ends == Append(file.endpoints, size)
           uppers == Append(file.uppers, sequence.values[Cut(p) - 1])
<1>1. K \in Nat \ {0} /\ K > 1 /\ p < K /\ UNCHANGED <<sequence, uniform, cuts>>
  BY PartitionFacts DEF Valid, WritePartition
<1>2. file \in FileType  BY DEF Writing
<1>3. /\ file.bases \in Seq(AllBases) /\ file.endpoints \in Seq(Nat) /\ file.uppers \in Seq(Nat)
      /\ file.size \in Nat /\ file.first \in Nat /\ file.delta \in Nat
  BY <1>2 DEF FileType
<1>4. p \in Nat /\ p = Len(file.bases) /\ p \in 0 .. K - 1
 <2>1. p \in Nat /\ p = Len(file.bases)  BY <1>3 DEF Written
 <2> QED BY <1>1, <2>1
<1> HIDE DEF p, K
<1>5. LastUpper = UpperOf(p + 1)
 <2>1. Len(file.uppers) = p + 1 /\ p + 1 \in 1 .. p + 1  BY <1>4 DEF Writing, p
 <2> QED BY <2>1 DEF LastUpper, Writing, p
<1>6. Base(IF p = 0 THEN 0 ELSE Cut(p - 1), Cut(p), IF p = 0 THEN LastUpper ELSE LastUpper + 1) = BaseOf(p)
 <2>1. CASE p = 0
  <3>1. p + 1 = 1  BY <2>1
  <3> QED BY <1>5, <2>1, <3>1 DEF UpperOf, BaseOf, First, FromOf
 <2>2. CASE p # 0
  <3>1. (p + 1) - 2 = p - 1 /\ p + 1 # 1  BY <1>4, <2>2
  <3>2. LastUpper = sequence.values[Cut(p - 1) - 1]  BY <1>5, <3>1 DEF UpperOf
  <3> QED BY <2>2, <3>2 DEF BaseOf, First, FromOf
 <2> QED BY <2>1, <2>2
<1>7. file' = [file EXCEPT !.bases = bases, !.size = size, !.endpoints = ends, !.uppers = uppers]
 <2> DEFINE base == Base(IF p = 0 THEN 0 ELSE Cut(p - 1), Cut(p), IF p = 0 THEN LastUpper ELSE LastUpper + 1)
 <2>1. file' = [file EXCEPT !.bases = Append(@, base), !.size = @ + BaseBits(base),
                            !.endpoints = Append(@, file.size + BaseBits(base)),
                            !.uppers = Append(@, sequence.values[Cut(p) - 1])]
   BY Zenon DEF WritePartition, p
 <2>2. base = BaseOf(p)  BY <1>6
 <2> HIDE DEF base
 <2> DEFINE taken == BaseBits(BaseOf(p))
            v == sequence.values[Cut(p) - 1]
            b == BaseOf(p)
 <2>3. file' = [file EXCEPT !.bases = Append(@, b), !.size = @ + taken,
                            !.endpoints = Append(@, file.size + taken),
                            !.uppers = Append(@, v)]
   BY <2>1, <2>2
 <2>4. /\ bases = Append(file.bases, b) /\ size = file.size + taken
       /\ ends = Append(file.endpoints, size) /\ uppers = Append(file.uppers, v)
   OBVIOUS
 <2> HIDE DEF taken, v, b, bases, size, ends, uppers
 <2> QED BY <1>2, <2>3, <2>4 DEF FileType
<1>8. /\ BaseBits(BaseOf(p)) \in Nat /\ BaseOf(p) \in AllBases /\ sequence.values[Cut(p) - 1] \in Nat
  BY <1>4, BaseFacts DEF AllBases, K
<1>9. size \in Nat /\ file.size <= size /\ file.size + BaseBits(BaseOf(p)) = size  BY <1>3, <1>8
<1>10. /\ bases \in Seq(AllBases) /\ Len(bases) = p + 1 /\ bases[p + 1] = BaseOf(p)
       /\ \A i \in 1 .. p : bases[i] = file.bases[i]
  BY <1>3, <1>4, <1>8
<1>11. /\ ends \in Seq(Nat) /\ Len(ends) = p + 1 /\ ends[p + 1] = size
       /\ \A i \in 1 .. p : ends[i] = file.endpoints[i]
 <2>1. Len(file.endpoints) = p  BY DEF Writing, p
 <2> HIDE DEF size
 <2> QED BY <1>3, <1>4, <1>9, <2>1
<1>12. /\ uppers \in Seq(Nat) /\ Len(uppers) = p + 2 /\ uppers[p + 2] = sequence.values[Cut(p) - 1]
       /\ \A i \in 1 .. p + 1 : uppers[i] = file.uppers[i]
 <2> DEFINE v == sequence.values[Cut(p) - 1]
            f == file.uppers
 <2>1. Len(f) = p + 1 /\ f \in Seq(Nat) /\ v \in Nat /\ uppers = Append(f, v)
   BY <1>3, <1>8 DEF Writing, p
 <2> HIDE DEF v, f, uppers
 <2>2. /\ uppers \in Seq(Nat) /\ Len(uppers) = (p + 1) + 1 /\ uppers[(p + 1) + 1] = v
       /\ \A i \in 1 .. p + 1 : uppers[i] = f[i]
   BY <1>4, <2>1
 <2>3. (p + 1) + 1 = p + 2  BY <1>4
 <2> QED BY <2>2, <2>3 DEF v, f
<1> HIDE DEF bases, ends, uppers, size
<1>13. /\ file' \in FileType /\ file'.bases = bases /\ file'.size = size
       /\ file'.endpoints = ends /\ file'.uppers = uppers
  BY <1>2, <1>7, <1>9, <1>10, <1>11, <1>12 DEF FileType
<1>14. /\ Partitions' = K /\ FileType' = FileType /\ \A i : BaseOf(i)' = BaseOf(i) /\ UpperOf(i)' = UpperOf(i)
  BY <1>1, SameParts DEF K
<1>15. Written' = p + 1  BY <1>10, <1>13 DEF Written
<1> DEFINE E(i) == IF i = 0 THEN 0 ELSE ends[i]
<1>16. \A i : EndAt(i)' = E(i)  BY <1>13 DEF EndAt
<1>17. \A i \in 0 .. p : E(i) = EndAt(i) /\ E(i) \in Nat
 <2> SUFFICES ASSUME NEW i \in 0 .. p PROVE E(i) = EndAt(i) /\ E(i) \in Nat  OBVIOUS
 <2>1. CASE i = 0  BY <2>1 DEF EndAt
 <2>2. CASE i # 0
  <3>1. i \in 1 .. p /\ Len(file.endpoints) = p  BY <1>4, <2>2 DEF Writing, p
  <3>2. file.endpoints[i] \in Nat  BY <1>3, <3>1
  <3> QED BY <1>11, <2>2, <3>1, <3>2 DEF EndAt
 <2> QED BY <2>1, <2>2
<1>18. E(p + 1) = size  BY <1>4, <1>11
<1>19. ASSUME NEW i \in 0 .. p + 1 PROVE E(i) <= size /\ E(i) \in Nat
 <2>1. CASE i = p + 1  BY <1>9, <1>18, <2>1
 <2>2. CASE i # p + 1
  <3>1. i \in 0 .. p  BY <1>4, <2>2
  <3>2. EndAt(i) <= file.size /\ EndAt(i) \in Nat /\ E(i) = EndAt(i)  BY <1>17, <3>1 DEF Writing, p
  <3> QED BY <1>3, <1>9, <3>2
 <2> QED BY <2>1, <2>2
<1>20. \A i \in Nat : BaseBits(BaseOf(i))' = BaseBits(BaseOf(i))
  BY <1>14 DEF BaseBits, Abstract!Size, Abstract!Cardinality, Cardinality
<1>21. ASSUME NEW i \in 0 .. p + 1, NEW j \in 0 .. p + 1, i < j
       PROVE E(i) + BaseBits(BaseOf(i)) <= E(j)
 <2>1. i \in 0 .. p  BY <1>4, <1>21
 <2>2. i \in 0 .. K - 1  BY <1>1, <1>4, <2>1
 <2>3. BaseBits(BaseOf(i)) \in Nat  BY <2>2, BaseFacts DEF K
 <2>4. CASE j # p + 1
  <3>1. j \in 0 .. p  BY <1>4, <2>4
  <3>2. EndAt(i) + BaseBits(BaseOf(i)) <= EndAt(j)  BY <1>21, <2>1, <3>1 DEF Writing, p
  <3> QED BY <1>17, <2>1, <3>1, <3>2
 <2>5. CASE j = p + 1 /\ i = p
  <3>1. EndAt(p) = file.size /\ E(p) = EndAt(p)  BY <1>4, <1>17 DEF Writing, p
  <3> QED BY <1>9, <1>18, <2>5, <3>1
 <2>6. CASE j = p + 1 /\ i # p
  <3>1. i < p /\ p \in 0 .. p  BY <1>4, <2>1, <2>6
  <3>2. EndAt(i) + BaseBits(BaseOf(i)) <= EndAt(p) /\ EndAt(p) = file.size
    BY <2>1, <3>1 DEF Writing, p
  <3>3. E(i) = EndAt(i) /\ EndAt(i) \in Nat  BY <1>17, <2>1
  <3> QED BY <1>3, <1>9, <1>18, <2>3, <2>6, <3>2, <3>3
 <2> QED BY <2>4, <2>5, <2>6
<1>22. ASSUME NEW i \in 0 .. p PROVE bases[i + 1] = BaseOf(i)
 <2>1. CASE i = p  BY <1>10, <2>1
 <2>2. CASE i # p
  <3>1. i \in 0 .. p - 1 /\ i + 1 \in 1 .. p  BY <1>4, <2>2
  <3>2. file.bases[i + 1] = BaseOf(i)  BY <3>1 DEF Writing, p
  <3> QED BY <1>10, <3>1, <3>2
 <2> QED BY <2>1, <2>2
<1>23. ASSUME NEW i \in 1 .. p + 2 PROVE uppers[i] = UpperOf(i)
 <2>1. CASE i = p + 2
  <3>1. (p + 2) - 2 = p /\ p + 2 # 1  BY <1>4
  <3> QED BY <1>12, <2>1, <3>1 DEF UpperOf
 <2>2. CASE i # p + 2
  <3>1. i \in 1 .. p + 1  BY <1>4, <2>2
  <3>2. file.uppers[i] = UpperOf(i)  BY <3>1 DEF Writing, p
  <3> QED BY <1>12, <3>1, <3>2
 <2> QED BY <2>1, <2>2
<1> HIDE DEF E
<1>24. p + 1 \in Nat /\ (p + 1) - 1 = p /\ (p + 1) + 1 = p + 2 /\ p + 1 <= K /\ K # 1  BY <1>1, <1>4
<1>25. /\ file' \in FileType' /\ Written' <= Partitions' /\ (Partitions' = 1 => Written' = 0)
       /\ Len(file'.endpoints) = Written' /\ Len(file'.uppers) = Written' + 1
  BY <1>11, <1>12, <1>13, <1>14, <1>15, <1>24
<1>26. \A i \in 0 .. Written' - 1 : file'.bases[i + 1] = BaseOf(i)'
  BY <1>13, <1>14, <1>15, <1>22, <1>24
<1>27. /\ \A i \in 0 .. Written' : EndAt(i)' <= file'.size
       /\ E(Written') = file'.size
  BY <1>13, <1>15, <1>16, <1>18, <1>19
<1>28. \A i, j \in 0 .. Written' : i < j => EndAt(i)' + BaseBits(BaseOf(i))' <= EndAt(j)'
 <2> SUFFICES ASSUME NEW i \in 0 .. p + 1, NEW j \in 0 .. p + 1, i < j
              PROVE E(i) + BaseBits(BaseOf(i))' <= E(j)
   BY <1>15, <1>16
 <2>1. BaseBits(BaseOf(i))' = BaseBits(BaseOf(i))  BY <1>20
 <2> QED BY <1>21, <2>1
<1>29. \A i \in 1 .. Written' + 1 : file'.uppers[i] = UpperOf(i)'
  BY <1>13, <1>14, <1>15, <1>23, <1>24
<1>30. E(Written') = (EndAt(Written))'  BY <1>13 DEF EndAt, E
<1> QED BY <1>25, <1>26, <1>27, <1>28, <1>29, <1>30 DEF Writing

LEMMA EndWritten ==
  ASSUME Valid, Writing, WriteEnd
  PROVE Stored'
<1> DEFINE K == Partitions
           ends == [p \in 1 .. K - 1 |-> file.endpoints[p] % 2 ^ CeilLog2(file.size + 1)]
<1>1. K \in Nat \ {0} /\ K > 1 /\ Written = K /\ UNCHANGED <<sequence, uniform, cuts>>
  BY PartitionFacts DEF Valid, WriteEnd
<1>2. file' = [file EXCEPT !.endpoints = ends]
 <2> DEFINE f(c) == [p \in 1 .. K - 1 |-> c[p] % 2 ^ CeilLog2(file.size + 1)]
 <2>1. file' = [file EXCEPT !.endpoints = f(@)]  BY Zenon DEF WriteEnd
 <2>2. file \in FileType /\ ends = f(file.endpoints)  BY DEF Writing
 <2> HIDE DEF f, ends
 <2> QED BY <2>1, <2>2 DEF FileType
<1> HIDE DEF K
<1>3. /\ file \in FileType /\ file.endpoints \in Seq(Nat) /\ Len(file.endpoints) = K
      /\ file.size \in Nat
  BY <1>1 DEF Writing, FileType
<1>4. ASSUME NEW p \in 1 .. K - 1 PROVE ends[p] = file.endpoints[p] /\ ends[p] \in Nat
 <2>1. p \in 0 .. K /\ p # 0 /\ p \in 1 .. K  BY <1>1
 <2> DEFINE x == file.endpoints[p]
            y == file.size + 1
 <2>2. x \in Nat  BY <1>3, <2>1
 <2>3. x <= file.size  BY <1>1, <2>1 DEF Writing, EndAt
 <2>4. y \in Nat /\ x < y  BY <1>3, <2>2, <2>3
 <2>5. ends[p] = x % 2 ^ CeilLog2(y)  BY Zenon
 <2> HIDE DEF x, y
 <2>6. x % 2 ^ CeilLog2(y) = x  BY <2>2, <2>4, FieldHolds
 <2> QED BY <2>2, <2>5, <2>6 DEF x
<1>5. ends \in Seq(Nat)
 <2>1. ends = [p \in 1 .. K - 1 |-> ends[p]]  BY Zenon
 <2> HIDE DEF ends
 <2>2. ends \in [1 .. K - 1 -> Nat]  BY <1>4, <2>1
 <2>3. K - 1 \in Nat  BY <1>1
 <2> QED BY <2>2, <2>3
<1> HIDE DEF ends
<1>6. file' \in FileType /\ file'.bases = file.bases /\ file'.endpoints = ends /\ file'.uppers = file.uppers
  BY <1>2, <1>3, <1>5 DEF FileType
<1>7. /\ Partitions' = K /\ FileType' = FileType /\ \A i : BaseOf(i)' = BaseOf(i) /\ UpperOf(i)' = UpperOf(i)
  BY <1>1, SameParts DEF K
<1>8. ASSUME NEW p \in 0 .. K - 1 PROVE EndAt(p)' = EndAt(p) /\ EndAt(p) \in Nat
 <2>1. CASE p = 0  BY <2>1 DEF EndAt
 <2>2. CASE p # 0
  <3>1. p \in 1 .. K - 1  BY <1>1, <2>2
  <3> QED BY <1>4, <1>6, <2>2, <3>1 DEF EndAt
 <2> QED BY <2>1, <2>2
<1>9. \A i \in Nat : BaseBits(BaseOf(i))' = BaseBits(BaseOf(i))
  BY <1>7 DEF BaseBits, Abstract!Size, Abstract!Cardinality, Cardinality
<1>10. ASSUME NEW p \in 0 .. K - 1, NEW q \in 0 .. K - 1, p < q
       PROVE EndAt(p)' + BaseBits(BaseOf(p))' <= EndAt(q)'
 <2>1. p \in 0 .. K /\ q \in 0 .. K /\ p \in Nat  BY <1>1
 <2>2. EndAt(p) + BaseBits(BaseOf(p)) <= EndAt(q)  BY <1>1, <1>10, <2>1 DEF Writing
 <2>3. EndAt(p)' = EndAt(p) /\ EndAt(q)' = EndAt(q) /\ BaseBits(BaseOf(p))' = BaseBits(BaseOf(p))
   BY <1>8, <1>9, <2>1
 <2> QED BY <2>2, <2>3
<1>11. Len(file'.bases) = K  BY <1>1, <1>6 DEF Written
<1>12. \A p \in 0 .. K - 1 : file'.bases[p + 1] = BaseOf(p)' /\ EndAt(p)' \in Nat
 <2> SUFFICES ASSUME NEW p \in 0 .. K - 1 PROVE file'.bases[p + 1] = BaseOf(p)' /\ EndAt(p)' \in Nat
   OBVIOUS
 <2>1. file.bases[p + 1] = BaseOf(p)  BY <1>1 DEF Writing
 <2>2. BaseOf(p)' = BaseOf(p)  BY <1>7
 <2> QED BY <1>6, <1>8, <2>1, <2>2
<1>13. Len(file'.uppers) = K + 1 /\ \A p \in 1 .. K + 1 : file'.uppers[p] = UpperOf(p)'
 <2>1. Len(file.uppers) = K + 1 /\ \A p \in 1 .. K + 1 : file.uppers[p] = UpperOf(p)
   BY <1>1 DEF Writing
 <2>2. \A p : UpperOf(p)' = UpperOf(p)  BY <1>7
 <2> QED BY <1>6, <2>1, <2>2
<1>14. K # 1  BY <1>1
<1> QED BY <1>6, <1>7, <1>10, <1>11, <1>12, <1>13, <1>14 DEF Stored

------------------------------
(* The invariant. *)

LEMMA UnsetType ==
  ASSUME Assumed, sequence \in Inputs
  PROVE Unset \in EnumType
<1>1. n \in Nat /\ universe \in Nat  BY ValueFacts
<1> DEFINE a == n
           v == universe
           s == Nothing
<1>2. a \in Nat /\ v \in Nat  BY <1>1
<1>3. Unset = [position |-> a, value |-> v, partition |-> 0, begin |-> 0, end |-> a,
               base |-> 0, upper |-> 0, upperAt |-> 0, seq |-> s, at |-> 0]
  BY DEF Unset
<1>4. EnumType = [position : Nat, value : Nat, partition : Nat, begin : Nat, end : Nat,
                  base : Nat, upper : Nat, upperAt : Nat, seq : AllBases \cup {s}, at : Nat]
  BY DEF EnumType
<1> HIDE DEF a, v, s
<1> QED BY <1>2, <1>3, <1>4

LEMMA InvInit ==
  ASSUME Assumed, Init
  PROVE PartitionedInv
<1>1. sequence \in Inputs /\ phase = "write" /\ e = Unset  BY DEF Init
<1>2. n \in Nat \ {0} /\ \A i \in 0 .. n - 1 : sequence.values[i] \in Nat  BY <1>1, ValueFacts
<1>3. CutsOK
 <2>1. CASE uniform
  <3> DEFINE P == Power(LogPartitionSize)
             end(k) == Min({n, k * P})
  <3>1. P \in Nat \ {0} /\ P = 2 ^ LogPartitionSize
   <4>1. P \in Nat \ {0}  BY PowerFacts DEF Assumed, PartitionedAssumption
   <4> QED BY <4>1 DEF Power
  <3>2. cuts = {Min({n, k * 2 ^ LogPartitionSize}) : k \in 1 .. n}  BY <2>1, Zenon DEF Init
  <3> HIDE DEF P
  <3>3. cuts = {end(k) : k \in 1 .. n}  BY <3>1, <3>2, Zenon
  <3>4. ASSUME NEW k \in 1 .. n PROVE end(k) \in 1 .. n /\ (k = n => end(k) = n)
   <4>1. k * P \in Nat /\ k <= k * P  BY <3>1, TimesGrows
   <4>2. end(k) = IF n <= k * P THEN n ELSE k * P  BY <1>2, <4>1, MinOfTwo
   <4> HIDE DEF end
   <4> QED BY <1>2, <4>1, <4>2
  <3> HIDE DEF end
  <3>5. cuts \in SUBSET (1 .. n) /\ n \in cuts
   <4>1. n \in 1 .. n  BY <1>2
   <4> QED BY <3>3, <3>4, <4>1
  <3> QED BY <2>1, <3>2, <3>5, Zenon DEF CutsOK
 <2>2. CASE ~uniform
  <3>1. PICK C \in SUBSET (1 .. n - 1) : cuts = C \cup {n}  BY <2>2 DEF Init
  <3>2. cuts \in SUBSET (1 .. n) /\ n \in cuts  BY <1>2, <3>1
  <3> QED BY <2>2, <3>2 DEF CutsOK
 <2> QED BY <2>1, <2>2
<1>4. Writing
 <2> DEFINE v == sequence.values[0]
            uppers == <<v>>
 <2>1. file = [first |-> 0, delta |-> 0, bases |-> <<>>, size |-> 0, endpoints |-> <<>>, uppers |-> uppers]
   BY DEF Init
 <2>2. v \in Nat
  <3>1. 0 \in 0 .. n - 1  BY <1>2
  <3> QED BY <1>2, <3>1
 <2>3. uppers \in Seq(Nat) /\ Len(uppers) = 1 /\ uppers[1] = v  BY <2>2
 <2> HIDE DEF uppers
 <2>4. file \in FileType /\ Written = 0 /\ Len(file.endpoints) = 0 /\ file.size = 0 /\ file.uppers = uppers
   BY <2>1, <2>3 DEF FileType, Written
 <2>5. Partitions \in Nat \ {0}  BY <1>1, <1>3, PartitionFacts
 <2>6. EndAt(0) = 0 /\ UpperOf(1) = v /\ \A p \in 0 .. 0 : p = 0  BY DEF EndAt, UpperOf
 <2>7. \A p \in 1 .. 0 + 1 : p = 1  OBVIOUS
 <2>8. \A p \in 1 .. 0 + 1 : file.uppers[p] = UpperOf(p)  BY <2>3, <2>4, <2>6, <2>7
 <2> HIDE DEF v
 <2> QED BY <2>3, <2>4, <2>5, <2>6, <2>8 DEF Writing
<1> QED BY <1>1, <1>3, <1>4 DEF PartitionedInv, Phases

\* Where the enumerator is after a call, and what it shows there.
LEMMA StandsNext ==
  ASSUME UNCHANGED <<sequence, uniform, cuts>>, NEW x, NEW q, e' = x, Stands(x, q), UppersKept(x)
  PROVE Standing'
<1>1. /\ n' = n /\ universe' = universe /\ Partitions' = Partitions /\ AllBases' = AllBases
      /\ sequence' = sequence
  BY SameParts
<1>2. \A p : /\ Cut(p)' = Cut(p) /\ First(p)' = First(p) /\ FromOf(p)' = FromOf(p)
             /\ BaseOf(p)' = BaseOf(p)
  BY SameParts
<1>3. EnumType' = EnumType  BY <1>1 DEF EnumType, Nothing
<1>4. In(x, x.partition)  BY DEF Stands
<1>5. In(x, x.partition)'
 <2>1. PICK p : p = x.partition  OBVIOUS
 <2>2. In(x, p)'  BY <1>1, <1>2, <1>3, <1>4, <2>1 DEF In
 <2> QED BY <2>1, <2>2
<1>6. ValueAt(q)' = ValueAt(q)  BY <1>1 DEF ValueAt
<1>7. Stands(x, q)'  BY <1>1, <1>5, <1>6 DEF Stands
<1>8. UppersKept(x)'  BY <1>1 DEF UppersKept
<1> QED BY <1>7, <1>8 DEF Standing

LEMMA ViewNext ==
  ASSUME Valid, UNCHANGED <<sequence, uniform, cuts>>, phase' = "read",
         NEW x, NEW q, e' = x, Stands(x, q)
  PROVE View' = Whole!At(sequence, q)
<1>1. [position |-> x.position, value |-> x.value, previous |-> PrevValue(x)] = Whole!At(sequence, q)
  BY ViewIs
<1>2. PrevValue(e)' = PrevValue(x)  BY DEF PrevValue
<1>3. View' = [position |-> e'.position, value |-> e'.value, previous |-> PrevValue(e)']
  BY DEF View
<1> QED BY <1>1, <1>2, <1>3

LEMMA ViewNow ==
  ASSUME Assumed, PartitionedInv
  PROVE View = Whole!At(sequence, IF phase = "read" THEN e.position ELSE n)
<1>1. Valid  BY DEF Valid, PartitionedInv
<1>2. CASE phase = "read"
 <2>1. PICK x, q : e = x /\ Stands(x, q)  BY <1>2 DEF PartitionedInv, Standing
 <2>2. q = e.position  BY <2>1 DEF Stands
 <2>3. [position |-> x.position, value |-> x.value, previous |-> PrevValue(x)] = Whole!At(sequence, q)
   BY <1>1, <2>1, ViewIs
 <2> QED BY <1>2, <2>1, <2>2, <2>3 DEF View
<1>3. CASE phase # "read"
 <2>1. Whole!Size(sequence) = n /\ Abstract!Size(sequence) = n  BY SizeIs DEF n
 <2> QED BY <1>3, <2>1 DEF View, Whole!At, Abstract!At
<1> QED BY <1>2, <1>3

LEMMA OpenStands ==
  ASSUME Assumed, PartitionedInv, Open
  PROVE Stands(e', n) /\ UppersKept(e')
<1>1. Valid /\ Stored /\ e = Unset /\ UNCHANGED <<sequence, uniform, cuts>>
  BY DEF Open, PartitionedInv, Valid
<1>2. Partitions \in Nat \ {0} /\ n \in Nat \ {0}
 <2>1. Partitions \in Nat \ {0}  BY <1>1, PartitionFacts DEF Valid
 <2>2. n \in Nat \ {0}  BY <1>1, ValueFacts DEF Valid
 <2> QED BY <2>1, <2>2
<1>3. Unset \in EnumType  BY <1>1, UnsetType DEF Valid
<1>4. CASE Partitions > 1
 <2>1. e' = SlowMove(Unset, n)  BY <1>4 DEF Open
 <2>2. n \in 0 .. n /\ Partitions # 1  BY <1>2, <1>4
 <2>3. PICK y : y = Unset  OBVIOUS
 <2>4. Stands(SlowMove(y, n), n) /\ UppersKept(SlowMove(y, n))
  <3>1. PICK q : q = n  OBVIOUS
  <3>2. Stands(SlowMove(y, q), q) /\ UppersKept(SlowMove(y, q))
    BY <1>1, <1>3, <2>2, <2>3, <3>1, SlowMoveIs
  <3> QED BY <3>1, <3>2
 <2> QED BY <2>1, <2>3, <2>4
<1>5. CASE Partitions = 1
 <2> DEFINE first == file.first
            upper == first + SingleUpper
            seq == BaseAt(0, SingleUpper + 1, n)
            x == [Unset EXCEPT !.base = first, !.upper = upper, !.seq = seq]
 <2>1. e' = ToEnd(x)  BY <1>5 DEF Open, SingleUpper
 <2>2. 0 \in 0 .. Partitions - 1 /\ Partitions - 1 = 0  BY <1>5
 <2>3. First(0) = 0 /\ Cut(0) = n /\ FromOf(0) = sequence.values[0] /\ Length(0) = n
  <3>1. Cut(0) = n  BY <1>1, <2>2, PartitionFacts DEF Valid
  <3> QED BY <1>2, <3>1 DEF First, FromOf, Length
 <2>4. first = FromOf(0) /\ upper = sequence.values[Cut(0) - 1] /\ first \in Nat /\ upper \in Nat
  <3>1. FromOf(0) \in Nat /\ sequence.values[Cut(0) - 1] \in Nat  BY <1>1, <2>2, BaseFacts
  <3> QED BY <1>1, <1>5, <2>3, <3>1 DEF Stored
 <2>5. seq = BaseOf(0)
  <3>1. SingleUpper + 1 = BaseOf(0).universe
   <4>1. BaseOf(0).universe = sequence.values[Cut(0) - 1] - FromOf(0) + 1  BY <1>1, <2>2, BaseFacts
   <4>2. SingleUpper \in Int
    <5>1. file.delta \in Nat /\ file.first \in Nat  BY <1>1 DEF Stored, FileType
    <5>2. universe \in Nat  BY <1>1, ValueFacts DEF Valid
    <5>3. PICK y : y = IF file.delta = 0 THEN universe - file.first - 1 ELSE file.delta  OBVIOUS
    <5>4. y \in Int  BY <5>1, <5>2, <5>3
    <5>5. Narrow(y) \in Int  BY <5>4 DEF Narrow, Assumed, PartitionedAssumption
    <5> QED BY <5>3, <5>5 DEF SingleUpper
   <4> HIDE DEF first
   <4> QED BY <2>4, <4>1, <4>2
  <3>2. BaseAt(EndAt(0), BaseOf(0).universe, Length(0)) = BaseOf(0)  BY <1>1, <2>2, BaseAtFacts
  <3> QED BY <2>3, <3>1, <3>2 DEF EndAt
 <2>6. seq \in AllBases  BY <2>2, <2>5 DEF AllBases
 <2> HIDE DEF first, upper, seq
 <2>7. /\ x \in EnumType /\ x.partition = Unset.partition /\ x.begin = Unset.begin /\ x.end = Unset.end
       /\ x.base = first /\ x.upper = upper /\ x.seq = seq
  <3>1. PICK y : y = Unset  OBVIOUS
  <3>2. /\ [y EXCEPT !.base = first, !.upper = upper, !.seq = seq] \in EnumType
        /\ [y EXCEPT !.base = first, !.upper = upper, !.seq = seq].partition = y.partition
        /\ [y EXCEPT !.base = first, !.upper = upper, !.seq = seq].begin = y.begin
        /\ [y EXCEPT !.base = first, !.upper = upper, !.seq = seq].end = y.end
        /\ [y EXCEPT !.base = first, !.upper = upper, !.seq = seq].base = first
        /\ [y EXCEPT !.base = first, !.upper = upper, !.seq = seq].upper = upper
        /\ [y EXCEPT !.base = first, !.upper = upper, !.seq = seq].seq = seq
    BY <1>3, <2>4, <2>6, <3>1 DEF EnumType
  <3> QED BY <3>1, <3>2
 <2>8. Unset.partition = 0 /\ Unset.begin = 0 /\ Unset.end = n  BY DEF Unset
 <2> HIDE DEF x
 <2>9. In(x, 0)  BY <2>2, <2>3, <2>4, <2>5, <2>7, <2>8 DEF In
 <2>10. PICK y : y = x  OBVIOUS
 <2>11. Stands(ToEnd(y), n)  BY <1>1, <2>2, <2>9, <2>10, ToEndIs
 <2> QED BY <1>5, <2>1, <2>10, <2>11 DEF UppersKept
<1> QED BY <1>2, <1>4, <1>5

LEMMA MoveStands ==
  ASSUME Valid, Stored, Standing, NEW q \in 0 .. n, e' = Moved(e, q)
  PROVE Stands(e', q) /\ UppersKept(e')
<1>1. PICK x, r : e = x /\ Stands(x, r) /\ UppersKept(x)  BY DEF Standing
<1>2. PICK p : p = x.partition  OBVIOUS
<1>3. In(x, p)  BY <1>1, <1>2 DEF Stands
<1>4. Stands(Moved(x, q), q) /\ UppersKept(Moved(x, q))  BY <1>1, <1>3, MovedIs
<1> QED BY <1>1, <1>4

LEMMA NextGeqStands ==
  ASSUME Valid, Stored, Standing, NEW bound \in Nat, e' = Geq(e, bound)
  PROVE /\ Whole!FirstGeq(sequence, bound) \in 0 .. n
        /\ Stands(e', Whole!FirstGeq(sequence, bound)) /\ UppersKept(e')
<1>1. PICK x, r : e = x /\ Stands(x, r) /\ UppersKept(x)  BY DEF Standing
<1>2. PICK p : p = x.partition  OBVIOUS
<1>3. In(x, p)  BY <1>1, <1>2 DEF Stands
<1>4. Whole!FirstGeq(sequence, bound) \in 0 .. n  BY <1>1, <1>3, GeqIs
<1>5. Stands(Geq(x, bound), Whole!FirstGeq(sequence, bound))  BY <1>1, <1>3, GeqIs
<1>6. UppersKept(Geq(x, bound))  BY <1>1, <1>3, GeqIs
<1> QED BY <1>1, <1>4, <1>5, <1>6

LEMMA AdvanceStands ==
  ASSUME Valid, Stored, Standing, e.position < n, e' = Advanced(e)
  PROVE Stands(e', e.position + 1) /\ UppersKept(e')
<1>1. PICK x, q : e = x /\ Stands(x, q) /\ UppersKept(x)  BY DEF Standing
<1>2. x.position = q  BY <1>1 DEF Stands
<1>3. Stands(Advanced(x), q + 1)  BY <1>1, <1>2, AdvancedIs
<1>4. UppersKept(Advanced(x))  BY <1>1, <1>2, AdvancedIs
<1> QED BY <1>1, <1>2, <1>3, <1>4

\* Every step keeps the invariant and is one of the abstract cursor, or changes nothing it shows.
AbstractStep == [Whole!Next]_<<sequence, View, call>>

LEMMA StoredStays ==
  ASSUME UNCHANGED <<sequence, uniform, cuts, file>>, Stored
  PROVE Stored'
<1>1. /\ n' = n /\ universe' = universe /\ Partitions' = Partitions /\ FileType' = FileType
      /\ \A p : BaseOf(p)' = BaseOf(p) /\ UpperOf(p)' = UpperOf(p)
  BY SameParts
<1>2. \A p : BaseBits(BaseOf(p))' = BaseBits(BaseOf(p))
  BY <1>1 DEF BaseBits, Abstract!Size, Abstract!Cardinality, Cardinality
<1>3. \A p : EndAt(p)' = EndAt(p)  BY DEF EndAt
<1>4. SingleUpper' = SingleUpper  BY <1>1 DEF SingleUpper
<1>5. \A p \in 0 .. Partitions - 1 : file'.bases[p + 1] = BaseOf(p)' /\ (Partitions' > 1 => EndAt(p)' \in Nat)
  BY <1>1, <1>3 DEF Stored
<1>6. \A p, q \in 0 .. Partitions - 1 : p < q => EndAt(p)' + BaseBits(BaseOf(p))' <= EndAt(q)'
 <2> SUFFICES ASSUME NEW p \in 0 .. Partitions - 1, NEW q \in 0 .. Partitions - 1, p < q
              PROVE EndAt(p)' + BaseBits(BaseOf(p))' <= EndAt(q)'
   OBVIOUS
 <2>1. EndAt(p) + BaseBits(BaseOf(p)) <= EndAt(q)  BY DEF Stored
 <2>2. EndAt(p)' = EndAt(p) /\ EndAt(q)' = EndAt(q) /\ BaseBits(BaseOf(p))' = BaseBits(BaseOf(p))
   BY <1>2, <1>3
 <2> QED BY <2>1, <2>2
<1>7. Partitions' > 1 => /\ Len(file'.uppers) = Partitions' + 1
                         /\ \A p \in 1 .. Partitions' + 1 : file'.uppers[p] = UpperOf(p)'
  BY <1>1 DEF Stored
<1>8. Partitions' = 1 => /\ file'.first = sequence'.values[0]
                         /\ file'.first + SingleUpper' = sequence'.values[n' - 1]
  BY <1>1, <1>4 DEF Stored
<1>9. file' \in FileType' /\ Len(file'.bases) = Partitions'  BY <1>1 DEF Stored
<1> QED BY <1>1, <1>5, <1>6, <1>7, <1>8, <1>9 DEF Stored

LEMMA WritingStep ==
  ASSUME Assumed, PartitionedInv, WriteSingle \/ WritePartition \/ WriteEnd
  PROVE PartitionedInv' /\ AbstractStep
<1>1. /\ Valid /\ Writing /\ phase = "write" /\ e = Unset /\ UNCHANGED <<sequence, uniform, cuts, e, call>>
      /\ phase' \in {"write", "open"}
  BY DEF PartitionedInv, Valid, WriteSingle, WritePartition, WriteEnd
<1>2. sequence' \in Inputs /\ CutsOK' /\ n' = n  BY <1>1, SameParts DEF Valid
<1>3. Unset' = Unset  BY <1>1, SameParts DEF Unset, Nothing
<1>4. (phase' = "write" => Writing') /\ (phase' # "write" => Stored')
 <2>1. CASE WriteSingle  BY <1>1, <2>1, SingleStored DEF WriteSingle
 <2>2. CASE WritePartition  BY <1>1, <2>2, PartitionWritten DEF WritePartition
 <2>3. CASE WriteEnd  BY <1>1, <2>3, EndWritten DEF WriteEnd
 <2> QED BY <2>1, <2>2, <2>3
<1>5. PartitionedInv'  BY <1>1, <1>2, <1>3, <1>4 DEF PartitionedInv, Phases
<1>6. View' = View
 <2>1. phase # "read" /\ phase' # "read"  BY <1>1
 <2>2. Abstract!At(sequence, n)' = Abstract!At(sequence, n)
   BY <1>1, <1>2 DEF Abstract!At, Abstract!Size, Abstract!Cardinality, Cardinality
 <2> QED BY <2>1, <2>2 DEF View
<1> QED BY <1>1, <1>5, <1>6 DEF AbstractStep

LEMMA ReadingStep ==
  ASSUME Assumed, PartitionedInv, Open \/ Move \/ NextGeq \/ Advance
  PROVE PartitionedInv' /\ AbstractStep
<1>1. /\ Valid /\ Stored /\ phase' = "read" /\ UNCHANGED <<sequence, uniform, cuts, file>>
      /\ phase # "write" /\ sequence \in Inputs /\ CutsOK
  BY DEF PartitionedInv, Valid, Open, Move, NextGeq, Advance, Calls
<1>2. n \in Nat \ {0} /\ universe \in Nat  BY <1>1, ValueFacts DEF Valid
<1>3. Whole!Size(sequence) = n  BY SizeIs DEF n
<1>4. ASSUME NEW q, Stands(e', q), UppersKept(e')
      PROVE PartitionedInv' /\ View' = Whole!At(sequence, q)
 <2>1. PICK x : e' = x  OBVIOUS
 <2>2. Stands(x, q) /\ UppersKept(x)  BY <1>4, <2>1
 <2>3. Standing'  BY <1>1, <2>1, <2>2, StandsNext
 <2>4. View' = Whole!At(sequence, q)  BY <1>1, <2>1, <2>2, ViewNext
 <2>5. sequence' \in Inputs /\ CutsOK'  BY <1>1, SameParts DEF Valid
 <2>6. Stored'  BY <1>1, StoredStays
 <2> QED BY <1>1, <2>3, <2>4, <2>5, <2>6 DEF PartitionedInv, Phases
<1>5. View = Whole!At(sequence, IF phase = "read" THEN e.position ELSE n)  BY ViewNow
<1>6. CASE Open
 <2>1. Stands(e', n) /\ UppersKept(e')  BY <1>6, OpenStands
 <2>2. PartitionedInv' /\ View' = Whole!At(sequence, n)  BY <1>4, <2>1
 <2>3. View = Whole!At(sequence, n)  BY <1>5, <1>6 DEF Open
 <2>4. UNCHANGED <<sequence, call>>  BY <1>6 DEF Open
 <2> QED BY <2>2, <2>3, <2>4 DEF AbstractStep
<1>7. CASE phase = "read"
 <2>1. Standing  BY <1>7 DEF PartitionedInv
 <2>2. PICK r : Stands(e, r) /\ r = e.position /\ r \in 0 .. n
  <3>1. PICK x, r : e = x /\ Stands(x, r)  BY <2>1 DEF Standing
  <3>2. r = x.position /\ r \in 0 .. n  BY <3>1 DEF Stands
  <3> QED BY <3>1, <3>2
 <2>3. View = Whole!At(sequence, r)  BY <1>5, <1>7, <2>2
 <2>4. CASE Move
  <3>1. PICK q \in 0 .. n : call' = <<"move", q>> /\ e' = Moved(e, q)  BY <2>4 DEF Move, Calls
  <3>2. Stands(e', q) /\ UppersKept(e')  BY <1>1, <2>1, <3>1, MoveStands
  <3>3. PartitionedInv' /\ View' = Whole!At(sequence, q)  BY <1>4, <3>2
  <3>4. Whole!Next  BY <1>1, <1>3, <3>1, <3>3 DEF Whole!Next, Whole!Move
  <3> QED BY <3>3, <3>4 DEF AbstractStep
 <2>5. CASE NextGeq
  <3>1. PICK bound \in 0 .. universe + Beyond : call' = <<"next_geq", bound>> /\ e' = Geq(e, bound)
    BY <2>5 DEF NextGeq, Calls
  <3>2. PICK q : q = Whole!FirstGeq(sequence, bound)  OBVIOUS
  <3>3. bound \in Nat  BY <1>2 DEF Assumed, PartitionedAssumption
  <3>4. Stands(e', q) /\ UppersKept(e')  BY <1>1, <2>1, <3>1, <3>2, <3>3, NextGeqStands
  <3>5. PartitionedInv' /\ View' = Whole!At(sequence, q)  BY <1>4, <3>4
  <3>6. bound = View.value => q = r
   <4> SUFFICES ASSUME bound = View.value PROVE Whole!FirstGeq(sequence, bound) = r  BY <3>2
   <4>1. bound = IF r = n THEN universe ELSE sequence.values[r]
     BY <1>2, <1>3, <2>2, <2>3 DEF Whole!At, universe
   <4>2. /\ \A i \in 0 .. n - 1 : sequence.values[i] \in Nat /\ sequence.values[i] < universe
         /\ \A i, j \in 0 .. n - 1 : i < j => sequence.values[i] < sequence.values[j]
     BY <1>1, ValueFacts DEF Valid
   <4>3. r = n \/ sequence.values[r] >= bound
    <5> SUFFICES ASSUME r # n PROVE sequence.values[r] >= bound  OBVIOUS
    <5>1. r \in 0 .. n - 1 /\ bound = sequence.values[r]  BY <1>2, <2>2, <4>1
    <5> QED BY <3>3, <5>1
   <4>4. \A i \in 0 .. n - 1 : i < r => sequence.values[i] < bound  BY <1>2, <2>2, <4>1, <4>2
   <4> QED BY <1>1, <2>2, <3>3, <4>3, <4>4, FirstGeqIs
  <3>7. Whole!NextGeq(bound)  BY <2>3, <3>1, <3>2, <3>5, <3>6 DEF Whole!NextGeq
  <3>8. Whole!Next  BY <1>1, <3>7 DEF Whole!Next, universe
  <3> QED BY <3>5, <3>8 DEF AbstractStep
 <2>6. CASE Advance
  <3>1. e.position < n /\ call' = <<"next", 0>> /\ e' = Advanced(e)  BY <2>6 DEF Advance, Calls
  <3>2. Stands(e', e.position + 1) /\ UppersKept(e')  BY <1>1, <2>1, <3>1, AdvanceStands
  <3>3. PICK q : q = r + 1  OBVIOUS
  <3>4. PartitionedInv' /\ View' = Whole!At(sequence, q)  BY <1>4, <2>2, <3>2, <3>3
  <3>5. Whole!Advance
   <4>1. View.position = r  BY <2>3 DEF Whole!At
   <4> QED BY <1>3, <2>2, <3>1, <3>3, <3>4, <4>1 DEF Whole!Advance
  <3>6. Whole!Next  BY <1>1, <3>5 DEF Whole!Next
  <3> QED BY <3>4, <3>6 DEF AbstractStep
 <2> QED BY <1>1, <1>6, <2>4, <2>5, <2>6
<1>8. CASE ~Open /\ phase # "read"  BY <1>8 DEF Move, NextGeq, Advance, Calls
<1> QED BY <1>6, <1>7, <1>8

LEMMA PartitionedStutter ==
  ASSUME PartitionedInv, UNCHANGED vars
  PROVE PartitionedInv' /\ AbstractStep
<1>1. UNCHANGED <<sequence, uniform, cuts, phase, file, e, call>>  BY DEF vars
<1>2. sequence' \in Inputs /\ CutsOK' /\ n' = n  BY <1>1, SameParts DEF PartitionedInv, CutsOK
<1>3. View' = View
  BY <1>1, <1>2 DEF View, PrevValue, Abstract!At, Abstract!Size, Abstract!Cardinality, Cardinality
<1>4. phase # "write" => Stored'  BY <1>1, StoredStays DEF PartitionedInv
<1>5. phase = "read" => Standing'
 <2> SUFFICES ASSUME phase = "read" PROVE Standing'  OBVIOUS
 <2>1. PICK x, q : e = x /\ Stands(x, q) /\ UppersKept(x)  BY DEF PartitionedInv, Standing
 <2> QED BY <1>1, <2>1, StandsNext
<1>6. phase # "read" => e' = Unset'  BY <1>1, SameParts DEF PartitionedInv, Unset, Nothing
<1>7. phase = "write" => Writing'
 <2> SUFFICES ASSUME Writing PROVE Writing'  BY DEF PartitionedInv
 <2>1. /\ Partitions' = Partitions /\ FileType' = FileType
       /\ \A p : BaseOf(p)' = BaseOf(p) /\ UpperOf(p)' = UpperOf(p)
   BY <1>1, SameParts
 <2>2. \A p : BaseBits(BaseOf(p))' = BaseBits(BaseOf(p))
   BY <2>1 DEF BaseBits, Abstract!Size, Abstract!Cardinality, Cardinality
 <2>3. Written' = Written /\ \A p : EndAt(p)' = EndAt(p)  BY <1>1 DEF Written, EndAt
 <2>4. EndAt(Written)' = EndAt(Written)  BY <1>1 DEF Written, EndAt
 <2>5. \A p, q \in 0 .. Written : p < q => EndAt(p)' + BaseBits(BaseOf(p))' <= EndAt(q)'
  <3> SUFFICES ASSUME NEW p \in 0 .. Written, NEW q \in 0 .. Written, p < q
               PROVE EndAt(p)' + BaseBits(BaseOf(p))' <= EndAt(q)'
    OBVIOUS
  <3>1. EndAt(p) + BaseBits(BaseOf(p)) <= EndAt(q)  BY DEF Writing
  <3>2. EndAt(p)' = EndAt(p) /\ EndAt(q)' = EndAt(q) /\ BaseBits(BaseOf(p))' = BaseBits(BaseOf(p))
    BY <2>2, <2>3
  <3> QED BY <3>1, <3>2
 <2>6. /\ \A p \in 0 .. Written - 1 : file'.bases[p + 1] = BaseOf(p)'
       /\ \A p \in 0 .. Written : EndAt(p)' <= file'.size
       /\ \A p \in 1 .. Written + 1 : file'.uppers[p] = UpperOf(p)'
   BY <1>1, <2>1, <2>3 DEF Writing
 <2> QED BY <1>1, <2>1, <2>3, <2>4, <2>5, <2>6 DEF Writing
<1> QED BY <1>1, <1>2, <1>3, <1>4, <1>5, <1>6, <1>7 DEF PartitionedInv, Phases, AbstractStep

\* PartitionedSequence.RefinesCursor: of every strictly increasing sequence, cut into partitions in
\* any way or uniformly, the enumerator of what is written goes with every move, next and next_geq
\* where a cursor of the whole sequence goes, for bounds beyond the universe too, and shows the
\* same position, value and previous value.  The universe is one that an int holds, as the
\* enumerator of a single partition keeps what it reads of it in one.
THEOREM PartitionedRefines ==
  ASSUME PartitionedAssumption, InputsAssumption
  PROVE Spec => RefinesCursor
<1>1. Assumed  BY DEF Assumed
<1>2. Init => PartitionedInv /\ Whole!Init
 <2> SUFFICES ASSUME Init PROVE PartitionedInv /\ Whole!Init  OBVIOUS
 <2>1. PartitionedInv  BY <1>1, InvInit
 <2>2. View = Whole!At(sequence, n)  BY <1>1, <2>1, ViewNow DEF Init
 <2>3. Whole!Size(sequence) = n  BY SizeIs DEF n
 <2> QED BY <2>1, <2>2, <2>3 DEF Whole!Init, Init
<1>3. PartitionedInv /\ [Next]_vars => PartitionedInv' /\ AbstractStep
 <2> SUFFICES ASSUME PartitionedInv, [Next]_vars PROVE PartitionedInv' /\ AbstractStep  OBVIOUS
 <2>1. CASE WriteSingle \/ WritePartition \/ WriteEnd  BY <1>1, <2>1, WritingStep
 <2>2. CASE Open \/ Move \/ NextGeq \/ Advance  BY <1>1, <2>2, ReadingStep
 <2>3. CASE UNCHANGED vars  BY <2>3, PartitionedStutter
 <2> QED BY <2>1, <2>2, <2>3 DEF Next
<1>4. AbstractStep => [Whole!Next]_<<sequence, View, call>>  BY DEF AbstractStep
<1> QED BY <1>2, <1>3, <1>4, PTL DEF Spec, RefinesCursor, Whole!Spec

LEMMA PartitionedInvariant ==
  ASSUME PartitionedAssumption, InputsAssumption
  PROVE Spec => []PartitionedInv
<1>1. Assumed  BY DEF Assumed
<1>2. Init => PartitionedInv  BY <1>1, InvInit
<1>3. PartitionedInv /\ [Next]_vars => PartitionedInv'
 <2> SUFFICES ASSUME PartitionedInv, [Next]_vars PROVE PartitionedInv'  OBVIOUS
 <2>1. CASE WriteSingle \/ WritePartition \/ WriteEnd  BY <1>1, <2>1, WritingStep
 <2>2. CASE Open \/ Move \/ NextGeq \/ Advance  BY <1>1, <2>2, ReadingStep
 <2>3. CASE UNCHANGED vars  BY <2>3, PartitionedStutter
 <2> QED BY <2>1, <2>2, <2>3 DEF Next
<1> QED BY <1>2, <1>3, PTL DEF Spec

\* PartitionedSequence.CursorsTogether: the bounds that are kept, the base
\* enumerator and the cursor in it are those of one partition, the last one at
\* the end of the sequence, whatever switches led there.
LEMMA TogetherNow ==
  ASSUME Assumed, PartitionedInv
  PROVE CursorsTogether
<1> SUFFICES ASSUME phase = "read"
             PROVE LET b == file.bases[e.partition + 1]
                   IN /\ e.position = e.begin + e.at
                      /\ e.position = n => e.partition = Partitions - 1
                      /\ e.seq = b
                      /\ e.base + b.universe - 1 = e.upper
  BY DEF CursorsTogether
<1>1. PICK x, q : e = x /\ Stands(x, q)  BY DEF PartitionedInv, Standing
<1>2. Valid /\ Stored  BY DEF PartitionedInv, Valid
<1>3. PICK p : p = x.partition  OBVIOUS
<1>4. /\ p \in 0 .. Partitions - 1 /\ In(x, p) /\ x.begin = First(p) /\ x.base = FromOf(p)
      /\ x.seq = BaseOf(p) /\ x.position = q /\ q = First(p) + x.at
      /\ n \in Nat \ {0} /\ q \in 0 .. n /\ q <= Cut(p) /\ Cut(p) <= n /\ Cut(p) \in Nat
  BY <1>1, <1>2, <1>3, StandsIn
<1>5. q = n => p = Partitions - 1
 <2>1. Cut(p) = n => p = Partitions - 1  BY <1>2, <1>4, PartitionFacts DEF Valid
 <2> QED BY <1>4, <2>1
<1>6. file.bases[p + 1] = BaseOf(p)  BY <1>2, <1>4 DEF Stored
<1>7. /\ BaseOf(p).universe = sequence.values[Cut(p) - 1] - FromOf(p) + 1
      /\ sequence.values[Cut(p) - 1] \in Nat /\ FromOf(p) \in Nat
  BY <1>2, <1>4, BaseFacts
<1>8. x.upper = sequence.values[Cut(p) - 1]  BY <1>4 DEF In
<1>9. FromOf(p) + BaseOf(p).universe - 1 = x.upper  BY <1>7, <1>8
<1> QED BY <1>1, <1>3, <1>4, <1>5, <1>6, <1>9

THEOREM PartitionedCursors ==
  ASSUME PartitionedAssumption, InputsAssumption
  PROVE Spec => []CursorsTogether
<1>1. PartitionedInv => CursorsTogether  BY TogetherNow DEF Assumed
<1> QED BY <1>1, PartitionedInvariant, PTL

\* PartitionedSequence.SwitchHits: the partition that slow_next_geq takes from
\* the upper bounds holds the bound it was called with, so that the next_geq it
\* ends with does not call it again.
LEMMA HitsNow ==
  ASSUME Assumed, PartitionedInv
  PROVE SwitchHits
<1>1. n \in Nat  BY ValueFacts DEF PartitionedInv
<1>2. CASE phase = "read"
 <2>1. PICK x, q : e = x /\ Stands(x, q)  BY <1>2 DEF PartitionedInv, Standing
 <2> QED BY <1>1, <2>1 DEF Stands, SwitchHits
<1>3. CASE phase # "read"  BY <1>1, <1>3 DEF PartitionedInv, Unset, SwitchHits
<1> QED BY <1>2, <1>3

THEOREM PartitionedSwitches ==
  ASSUME PartitionedAssumption, InputsAssumption
  PROVE Spec => []SwitchHits
<1>1. PartitionedInv => SwitchHits  BY HitsNow DEF Assumed
<1> QED BY <1>1, PartitionedInvariant, PTL

------------------------------
(* Increasing numbers, and those of them that are below another one. *)

\* A part of m increasing numbers has as many elements as it is long.
LEMMA ImageFacts ==
  ASSUME NEW m \in Nat, NEW f, Increases(f, m), NEW j \in 0 .. m, NEW i \in 0 .. j
  PROVE /\ Image(f, i, j) \subseteq Nat /\ IsFiniteSet(Image(f, i, j))
        /\ Cardinality(Image(f, i, j)) = j - i
<1> DEFINE I == i .. j - 1
           S == Image(f, i, j)
           g == [k \in I |-> f[k]]
<1>1. \A k \in I : k \in 0 .. m - 1 /\ f[k] \in Nat  BY DEF Increases
<1>2. S \subseteq Nat  BY <1>1 DEF Image
<1>3. IsFiniteSet(I) /\ Cardinality(I) = j - i
 <2>1. CASE i = j
  <3>1. I = {}  BY <2>1
  <3> QED BY <2>1, <3>1, FS_EmptySet
 <2>2. CASE i # j
  <3>1. i \in Int /\ j - 1 \in Int /\ ~(i > j - 1)  BY <2>2
  <3>2. IsFiniteSet(I) /\ Cardinality(I) = (j - 1) - i + 1  BY <3>1, FS_Interval
  <3> QED BY <3>2
 <2> QED BY <2>1, <2>2
<1>4. g \in Bijection(I, S)
 <2>1. g \in [I -> S]  BY DEF Image
 <2>2. \A s \in S : \E k \in I : g[k] = s  BY DEF Image
 <2>3. \A k, l \in I : g[k] = g[l] => k = l
  <3> SUFFICES ASSUME NEW k \in I, NEW l \in I, k # l PROVE f[k] # f[l]  OBVIOUS
  <3>1. k < l \/ l < k  OBVIOUS
  <3>2. (k < l => f[k] < f[l]) /\ (l < k => f[l] < f[k])  BY <1>1 DEF Increases
  <3> QED BY <1>1, <3>1, <3>2
 <2> HIDE DEF g, I, S
 <2> QED BY <2>1, <2>2, <2>3 DEF Bijection, Injection, IsInjective, Surjection
<1>5. IsFiniteSet(S) /\ Cardinality(S) = j - i
 <2> HIDE DEF I, S, g
 <2>1. IsFiniteSet(S) /\ Cardinality(S) = Cardinality(I)
   BY <1>3, <1>4, FS_Bijection DEF ExistsBijection
 <2> QED BY <1>3, <2>1
<1> QED BY <1>2, <1>5

\* The elements of such a part before its k-th one, and that one.
LEMMA ImageRank ==
  ASSUME NEW m \in Nat, NEW f, Increases(f, m), NEW j \in 0 .. m, NEW i \in 0 .. j, NEW k \in i .. j - 1
  PROVE /\ {x \in Image(f, i, j) : x < f[k]} = Image(f, i, k)
        /\ {x \in Image(f, i, j) : x >= f[k]} = Image(f, k, j)
        /\ {x \in Image(f, i, j) : x > f[k]} = Image(f, k + 1, j)
        /\ Rank(Image(f, i, j), f[k]) = k - i
        /\ Nth(Image(f, i, j), k - i) = f[k]
<1>1. \A q \in i .. j - 1 : /\ q \in 0 .. m - 1 /\ f[q] \in Nat
                            /\ f[q] < f[k] <=> q < k
                            /\ f[q] >= f[k] <=> q >= k
                            /\ f[q] > f[k] <=> q > k
 <2> SUFFICES ASSUME NEW q \in i .. j - 1
              PROVE /\ q \in 0 .. m - 1 /\ f[q] \in Nat
                    /\ f[q] < f[k] <=> q < k
                    /\ f[q] >= f[k] <=> q >= k
                    /\ f[q] > f[k] <=> q > k
   OBVIOUS
 <2>1. q \in 0 .. m - 1 /\ k \in 0 .. m - 1  OBVIOUS
 <2>2. f[q] \in Nat /\ f[k] \in Nat /\ (q < k => f[q] < f[k]) /\ (k < q => f[k] < f[q])
   BY <2>1 DEF Increases
 <2>3. q < k \/ q = k \/ k < q  OBVIOUS
 <2> QED BY <2>1, <2>2, <2>3
<1>2. {x \in Image(f, i, j) : x < f[k]} = Image(f, i, k)
 <2>1. ASSUME NEW x \in Image(f, i, j), x < f[k] PROVE x \in Image(f, i, k)
  <3>1. PICK q \in i .. j - 1 : x = f[q]  BY DEF Image
  <3>2. q \in i .. k - 1  BY <1>1, <2>1, <3>1
  <3> QED BY <3>1, <3>2 DEF Image
 <2>2. ASSUME NEW x \in Image(f, i, k) PROVE x \in Image(f, i, j) /\ x < f[k]
  <3>1. PICK q \in i .. k - 1 : x = f[q]  BY DEF Image
  <3>2. q \in i .. j - 1 /\ q < k  OBVIOUS
  <3> QED BY <1>1, <3>1, <3>2 DEF Image
 <2> QED BY <2>1, <2>2
<1>3. {x \in Image(f, i, j) : x >= f[k]} = Image(f, k, j)
 <2>1. ASSUME NEW x \in Image(f, i, j), x >= f[k] PROVE x \in Image(f, k, j)
  <3>1. PICK q \in i .. j - 1 : x = f[q]  BY DEF Image
  <3>2. q \in k .. j - 1  BY <1>1, <2>1, <3>1
  <3> QED BY <3>1, <3>2 DEF Image
 <2>2. ASSUME NEW x \in Image(f, k, j) PROVE x \in Image(f, i, j) /\ x >= f[k]
  <3>1. PICK q \in k .. j - 1 : x = f[q]  BY DEF Image
  <3>2. q \in i .. j - 1 /\ q >= k  OBVIOUS
  <3> QED BY <1>1, <3>1, <3>2 DEF Image
 <2> QED BY <2>1, <2>2
<1>4. {x \in Image(f, i, j) : x > f[k]} = Image(f, k + 1, j)
 <2>1. ASSUME NEW x \in Image(f, i, j), x > f[k] PROVE x \in Image(f, k + 1, j)
  <3>1. PICK q \in i .. j - 1 : x = f[q]  BY DEF Image
  <3>2. q \in k + 1 .. j - 1  BY <1>1, <2>1, <3>1
  <3> QED BY <3>1, <3>2 DEF Image
 <2>2. ASSUME NEW x \in Image(f, k + 1, j) PROVE x \in Image(f, i, j) /\ x > f[k]
  <3>1. PICK q \in k + 1 .. j - 1 : x = f[q]  BY DEF Image
  <3>2. q \in i .. j - 1 /\ q > k  OBVIOUS
  <3> QED BY <1>1, <3>1, <3>2 DEF Image
 <2> QED BY <2>1, <2>2
<1>5. Rank(Image(f, i, j), f[k]) = k - i
 <2>1. k \in 0 .. m /\ i \in 0 .. k  OBVIOUS
 <2>2. Cardinality(Image(f, i, k)) = k - i  BY <2>1, ImageFacts
 <2> QED BY <1>2, <2>2 DEF Rank
<1>6. Nth(Image(f, i, j), k - i) = f[k]
 <2>1. IsFiniteSet(Image(f, i, j)) /\ Image(f, i, j) \subseteq Nat  BY ImageFacts
 <2>2. f[k] \in Image(f, i, j)  BY DEF Image
 <2>3. Nth(Image(f, i, j), Rank(Image(f, i, j), f[k])) = f[k]  BY <2>1, <2>2, NthFacts
 <2> QED BY <1>5, <2>3
<1> QED BY <1>2, <1>3, <1>4, <1>5, <1>6

\* How many of m ordered numbers are below x.
LEMMA BelowFacts ==
  ASSUME NEW m \in Nat, NEW f, Ordered(f, m), NEW x \in Nat
  PROVE /\ Below(f, m, x) \in 0 .. m
        /\ \A i \in 0 .. m - 1 : i < Below(f, m, x) <=> f[i] < x
        /\ \A r \in 0 .. m : (\A i \in 0 .. m - 1 : i < r <=> f[i] < x) => Below(f, m, x) = r
<1> DEFINE S == {m} \cup {i \in 0 .. m - 1 : f[i] >= x}
<1>1. PICK r \in S : \A y \in S : r <= y
 <2>1. S \subseteq Nat /\ S # {}  OBVIOUS
 <2> HIDE DEF S
 <2> QED BY <2>1, LeastNat
<1>2. r \in 0 .. m  OBVIOUS
<1>3. \A i \in 0 .. m - 1 : i < r <=> f[i] < x
 <2> SUFFICES ASSUME NEW i \in 0 .. m - 1 PROVE i < r <=> f[i] < x  OBVIOUS
 <2>1. f[i] \in Nat  BY DEF Ordered
 <2>2. i < r => f[i] < x
  <3> SUFFICES ASSUME f[i] >= x PROVE r <= i  BY <1>2, <2>1
  <3> QED BY <1>1
 <2>3. i >= r => f[i] >= x
  <3> SUFFICES ASSUME i >= r PROVE f[i] >= x  OBVIOUS
  <3>1. r \in 0 .. m - 1 /\ f[r] >= x  BY <1>2
  <3>2. f[r] <= f[i] /\ f[r] \in Nat  BY <3>1 DEF Ordered
  <3> QED BY <2>1, <3>1, <3>2
 <2> QED BY <1>2, <2>1, <2>2, <2>3
<1> HIDE DEF S
<1> DEFINE b == Below(f, m, x)
<1>4. b \in 0 .. m /\ \A i \in 0 .. m - 1 : i < b <=> f[i] < x  BY <1>2, <1>3 DEF Below
<1> HIDE DEF b
<1>5. ASSUME NEW q \in 0 .. m, \A i \in 0 .. m - 1 : i < q <=> f[i] < x PROVE b = q
 <2>1. CASE b < q
  <3>1. b \in 0 .. m - 1  BY <1>4, <2>1
  <3> QED BY <1>4, <1>5, <2>1, <3>1
 <2>2. CASE q < b
  <3>1. q \in 0 .. m - 1  BY <1>4, <2>2
  <3> QED BY <1>4, <1>5, <2>2, <3>1
 <2>3. b \in Nat /\ q \in Nat  BY <1>4
 <2> QED BY <2>1, <2>2, <2>3
<1> QED BY <1>4, <1>5 DEF b

\* Increasing numbers are ordered, and those of them from x on, or before it, are a part.
LEMMA BelowImage ==
  ASSUME NEW m \in Nat, NEW f, Increases(f, m), NEW x \in Nat
  PROVE /\ Ordered(f, m)
        /\ {y \in Image(f, 0, m) : y >= x} = Image(f, Below(f, m, x), m)
        /\ {y \in Image(f, 0, m) : y < x} = Image(f, 0, Below(f, m, x))
<1>1. Ordered(f, m)
 <2>1. ASSUME NEW i \in 0 .. m - 1, NEW j \in 0 .. m - 1, i <= j PROVE f[i] <= f[j]
  <3>1. CASE i = j  BY <3>1 DEF Increases
  <3>2. CASE i # j
   <4>1. i < j  BY <2>1, <3>2
   <4>2. f[i] < f[j] /\ f[i] \in Nat /\ f[j] \in Nat  BY <4>1 DEF Increases
   <4> QED BY <4>2
  <3> QED BY <3>1, <3>2
 <2> QED BY <2>1 DEF Increases, Ordered
<1> DEFINE b == Below(f, m, x)
<1>2. b \in 0 .. m /\ \A i \in 0 .. m - 1 : i < b <=> f[i] < x  BY <1>1, BelowFacts
<1>3. \A i \in 0 .. m - 1 : f[i] \in Nat  BY DEF Increases
<1> HIDE DEF b
<1>4. {y \in Image(f, 0, m) : y >= x} = Image(f, b, m)
 <2>1. ASSUME NEW y \in Image(f, 0, m), y >= x PROVE y \in Image(f, b, m)
  <3>1. PICK q \in 0 .. m - 1 : y = f[q]  BY DEF Image
  <3>2. q \in b .. m - 1  BY <1>2, <1>3, <2>1, <3>1
  <3> QED BY <3>1, <3>2 DEF Image
 <2>2. ASSUME NEW y \in Image(f, b, m) PROVE y \in Image(f, 0, m) /\ y >= x
  <3>1. PICK q \in b .. m - 1 : y = f[q]  BY DEF Image
  <3>2. q \in 0 .. m - 1 /\ ~(q < b)  BY <1>2
  <3> QED BY <1>2, <1>3, <3>1, <3>2 DEF Image
 <2> QED BY <2>1, <2>2
<1>5. {y \in Image(f, 0, m) : y < x} = Image(f, 0, b)
 <2>1. ASSUME NEW y \in Image(f, 0, m), y < x PROVE y \in Image(f, 0, b)
  <3>1. PICK q \in 0 .. m - 1 : y = f[q]  BY DEF Image
  <3>2. q \in 0 .. b - 1  BY <1>2, <1>3, <2>1, <3>1
  <3> QED BY <3>1, <3>2 DEF Image
 <2>2. ASSUME NEW y \in Image(f, 0, b) PROVE y \in Image(f, 0, m) /\ y < x
  <3>1. PICK q \in 0 .. b - 1 : y = f[q]  BY DEF Image
  <3>2. q \in 0 .. m - 1 /\ q < b  BY <1>2
  <3> QED BY <1>2, <1>3, <3>1, <3>2 DEF Image
 <2> QED BY <2>1, <2>2
<1> QED BY <1>1, <1>4, <1>5 DEF b

------------------------------
(* The unary cursor that both EliasFano and RankedBitvector read with: from *)
(* a place on, it holds those of m increasing numbers that it has not read. *)

\* What it reads: the k-th of the numbers left, or the end.
LEMMA NthOrIs ==
  ASSUME NEW m \in Nat, NEW f, Increases(f, m), NEW i \in 0 .. m, NEW k \in Nat, NEW out
  PROVE NthOr(Image(f, i, m), k, out) = IF i + k < m THEN f[i + k] ELSE out
<1>1. Cardinality(Image(f, i, m)) = m - i
 <2>1. m \in 0 .. m /\ i \in 0 .. m  OBVIOUS
 <2> QED BY <2>1, ImageFacts
<1>2. CASE i + k < m
 <2>1. PICK q : q = i + k  OBVIOUS
 <2>2. q \in i .. m - 1 /\ m \in 0 .. m /\ q - i = k /\ k < m - i  BY <1>2, <2>1
 <2>3. Nth(Image(f, i, m), q - i) = f[q]  BY <2>2, ImageRank
 <2> QED BY <1>1, <1>2, <2>1, <2>2, <2>3 DEF NthOr
<1>3. CASE ~(i + k < m)
 <2>1. ~(k < m - i)  BY <1>3
 <2> QED BY <1>1, <1>3, <2>1 DEF NthOr
<1> QED BY <1>2, <1>3

\* Where it is after it has read k of them, and before the k-th one.
LEMMA PastKIs ==
  ASSUME NEW m \in Nat, NEW f, Increases(f, m), NEW i \in 0 .. m, NEW k \in Nat \ {0}, i + k <= m,
         NEW h, h.ones = Image(f, i, m), NEW out
  PROVE PastK(h, k, out) = [at |-> f[i + k - 1], ones |-> Image(f, i + k, m)]
<1>1. PICK q : q = i + k - 1  OBVIOUS
<1>2. q \in i .. m - 1 /\ m \in 0 .. m /\ k - 1 \in Nat /\ i + (k - 1) = q /\ q + 1 = i + k /\ q < m
  BY <1>1
<1>3. NthOr(h.ones, k - 1, out) = f[q]  BY <1>2, NthOrIs
<1>4. {b \in h.ones : b > f[q]} = Image(f, q + 1, m)  BY <1>2, ImageRank
<1> QED BY <1>1, <1>2, <1>3, <1>4 DEF PastK

LEMMA ToKthIs ==
  ASSUME NEW m \in Nat, NEW f, Increases(f, m), NEW i \in 0 .. m, NEW k \in Nat, i + k < m,
         NEW h, h.ones = Image(f, i, m), NEW out
  PROVE ToKth(h, k, out) = [at |-> f[i + k], ones |-> Image(f, i + k, m)]
<1>1. PICK q : q = i + k  OBVIOUS
<1>2. q \in i .. m - 1 /\ m \in 0 .. m  BY <1>1
<1>3. NthOr(h.ones, k, out) = f[q]  BY <1>1, NthOrIs
<1>4. {b \in h.ones : b >= f[q]} = Image(f, q, m)  BY <1>2, ImageRank
<1> QED BY <1>1, <1>3, <1>4 DEF ToKth

\* How many of m increasing numbers are between two others.
LEMMA CountBetween ==
  ASSUME NEW m \in Nat, NEW f, Increases(f, m), NEW x \in Nat, NEW z \in Nat, x <= z
  PROVE /\ Below(f, m, x) <= Below(f, m, z)
        /\ Cardinality({y \in Image(f, 0, m) : x <= y /\ y < z}) = Below(f, m, z) - Below(f, m, x)
<1>1. PICK a : a = Below(f, m, x)  OBVIOUS
<1>2. PICK c : c = Below(f, m, z)  OBVIOUS
<1>3. a \in 0 .. m /\ \A i \in 0 .. m - 1 : i < a <=> f[i] < x  BY <1>1, BelowImage, BelowFacts
<1>4. c \in 0 .. m /\ \A i \in 0 .. m - 1 : i < c <=> f[i] < z  BY <1>2, BelowImage, BelowFacts
<1>5. \A i \in 0 .. m - 1 : f[i] \in Nat  BY DEF Increases
<1>6. a <= c
 <2> SUFFICES ASSUME c < a PROVE FALSE  BY <1>3, <1>4
 <2>1. c \in 0 .. m - 1  BY <1>3, <1>4
 <2>2. f[c] < x /\ ~(f[c] < z) /\ f[c] \in Nat  BY <1>3, <1>4, <1>5, <2>1
 <2> QED BY <2>2
<1>7. {y \in Image(f, 0, m) : x <= y /\ y < z} = Image(f, a, c)
 <2>1. ASSUME NEW y \in Image(f, 0, m), x <= y, y < z PROVE y \in Image(f, a, c)
  <3>1. PICK i \in 0 .. m - 1 : y = f[i]  BY DEF Image
  <3>2. i \in a .. c - 1  BY <1>3, <1>4, <1>5, <2>1, <3>1
  <3> QED BY <3>1, <3>2 DEF Image
 <2>2. ASSUME NEW y \in Image(f, a, c) PROVE y \in Image(f, 0, m) /\ x <= y /\ y < z
  <3>1. PICK i \in a .. c - 1 : y = f[i]  BY DEF Image
  <3>2. i \in 0 .. m - 1 /\ ~(i < a) /\ i < c  BY <1>3, <1>4
  <3> QED BY <1>3, <1>4, <1>5, <3>1, <3>2 DEF Image
 <2> QED BY <2>1, <2>2
<1>8. Cardinality(Image(f, a, c)) = c - a
 <2>1. a \in 0 .. c  BY <1>3, <1>4, <1>6
 <2> QED BY <1>4, <2>1, ImageFacts
<1> QED BY <1>1, <1>2, <1>6, <1>7, <1>8

\* Division, and the multiple of c that it goes back to.
LEMMA DivFacts ==
  ASSUME NEW a \in Nat, NEW c \in Nat \ {0}
  PROVE /\ a \div c \in Nat /\ a % c \in Nat /\ a % c < c
        /\ a = (a \div c) * c + (a % c)
        /\ (a \div c) * c \in Nat /\ (a \div c) * c <= a /\ a < (a \div c) * c + c
        /\ a \div c <= a
<1>1. a \div c \in Nat /\ a % c \in 0 .. c - 1 /\ a = c * (a \div c) + (a % c)  OBVIOUS
<1>2. PICK q \in Nat : q = a \div c  BY <1>1
<1>3. c * q = q * c /\ q * c \in Nat /\ q <= q * c  BY TimesGrows
<1> QED BY <1>1, <1>2, <1>3

LEMMA MultipleFacts ==
  ASSUME NEW p \in Nat, NEW c \in Nat \ {0}
  PROVE (p * c) \div c = p /\ (p * c) % c = 0
<1>1. PICK a : a = p * c  OBVIOUS
<1>2. PICK q : q = a \div c  OBVIOUS
<1>3. a \in Nat  BY <1>1
<1>4. q \in Nat /\ q * c <= a /\ a < q * c + c /\ a = q * c + (a % c) /\ a % c \in Nat
  BY <1>2, <1>3, DivFacts
<1>5. p = q
 <2>1. p < q => (p + 1) * c <= q * c
  <3>1. p + 1 < q => (p + 1) * c < q * c  BY <1>4, TimesGrows
  <3>2. (p + 1) * c \in Nat /\ q * c \in Nat  BY <1>4
  <3>3. p < q => p + 1 < q \/ p + 1 = q  BY <1>4
  <3> QED BY <3>1, <3>2, <3>3
 <2>2. q < p => (q + 1) * c <= p * c
  <3>1. q + 1 < p => (q + 1) * c < p * c  BY <1>4, TimesGrows
  <3>2. (q + 1) * c \in Nat /\ p * c \in Nat  BY <1>4
  <3>3. q < p => q + 1 < p \/ q + 1 = p  BY <1>4
  <3> QED BY <3>1, <3>2, <3>3
 <2>3. (p + 1) * c = a + c /\ (q + 1) * c = q * c + c  BY <1>1, <1>4, TimesGrows
 <2>4. PICK qc \in Nat : qc = q * c  BY <1>4
 <2> QED BY <1>1, <1>3, <1>4, <2>1, <2>2, <2>3, <2>4
<1>6. PICK rest \in Nat : rest = a % c  BY <1>4
<1> QED BY <1>1, <1>2, <1>3, <1>4, <1>5, <1>6

\* Every c-th number has a sample: which are there for the numbers below w and with w itself.
LEMMA SampleAdded ==
  ASSUME NEW m \in Nat, NEW c \in Nat \ {0}, NEW w \in 0 .. m - 1
  PROVE /\ w > 0 /\ w % c = 0
             => /\ w \div c \in 1 .. m /\ (w \div c) * c = w
                /\ {p \in 1 .. m : p * c < w + 1} = {w \div c} \cup {p \in 1 .. m : p * c < w}
        /\ ~(w > 0 /\ w % c = 0)
             => {p \in 1 .. m : p * c < w + 1} = {p \in 1 .. m : p * c < w}
<1>1. PICK q, rest : q = w \div c /\ rest = w % c  OBVIOUS
<1>2. q \in Nat /\ q * c \in Nat /\ q <= w /\ rest \in Nat /\ w = q * c + rest  BY <1>1, DivFacts
<1>3. ASSUME NEW p \in 1 .. m
      PROVE /\ p * c \in Nat
            /\ p * c = w => p = q /\ rest = 0 /\ w > 0
            /\ p * c < w + 1 <=> p * c < w \/ p * c = w
 <2>1. p \in Nat /\ p * c \in Nat /\ p <= p * c  BY TimesGrows
 <2>2. p * c = w => p = q /\ rest = 0  BY <1>1, <2>1, MultipleFacts
 <2>3. PICK pc \in Nat : pc = p * c  BY <2>1
 <2> QED BY <2>1, <2>2, <2>3
<1>4. CASE w > 0 /\ rest = 0
 <2>1. q * c = w
  <3>1. PICK qc \in Nat : qc = q * c  BY <1>2
  <3> QED BY <1>2, <1>4, <3>1
 <2>2. q # 0  BY <1>4, <2>1
 <2>3. q \in 1 .. m  BY <1>2, <2>2
 <2>4. {p \in 1 .. m : p * c < w + 1} = {q} \cup {p \in 1 .. m : p * c < w}
  <3>1. ASSUME NEW p \in 1 .. m PROVE p * c < w + 1 <=> p = q \/ p * c < w  BY <1>3, <2>1
  <3>2. \A p \in {q} : p \in 1 .. m  BY <2>3
  <3> QED BY <3>1, <3>2
 <2> QED BY <1>1, <1>4, <2>1, <2>3, <2>4
<1>5. CASE ~(w > 0 /\ rest = 0)
 <2>1. \A p \in 1 .. m : p * c < w + 1 <=> p * c < w  BY <1>3, <1>5
 <2>2. {p \in 1 .. m : p * c < w + 1} = {p \in 1 .. m : p * c < w}  BY <2>1
 <2> QED BY <1>1, <1>5, <2>2
<1> QED BY <1>4, <1>5

LEMMA DivMonotone ==
  ASSUME NEW a \in Nat, NEW b \in Nat, a <= b, NEW c \in Nat \ {0}
  PROVE a \div c <= b \div c
<1>1. PICK x, y : x = a \div c /\ y = b \div c  OBVIOUS
<1>2. x \in Nat /\ x * c \in Nat /\ x * c <= a  BY <1>1, DivFacts
<1>3. y \in Nat /\ y * c \in Nat /\ b < y * c + c /\ (y + 1) * c = y * c + c
  BY <1>1, DivFacts, TimesGrows
<1>4. x * c < (y + 1) * c
 <2>1. PICK xc \in Nat : xc = x * c  BY <1>2
 <2>2. PICK yc \in Nat : yc = y * c  BY <1>3
 <2> QED BY <1>2, <1>3, <2>1, <2>2
<1>5. x < y + 1
 <2>1. x \in Nat /\ y + 1 \in Nat  BY <1>2, <1>3
 <2> QED BY <1>4, <2>1, TimesGrows
<1> QED BY <1>1, <1>2, <1>3, <1>5

\* A multiple of c is at most as far as the quotient goes.
LEMMA MultipleWithin ==
  ASSUME NEW u \in Nat, NEW c \in Nat \ {0}, NEW p \in Nat, p * c <= u
  PROVE p <= u \div c
<1>1. p * c \in Nat /\ (p * c) \div c = p  BY MultipleFacts
<1>2. PICK a \in Nat : a = p * c  BY <1>1
<1>3. a \div c <= u \div c  BY <1>2, DivMonotone
<1> QED BY <1>1, <1>2, <1>3

------------------------------
(* RankedBitvector. *)

\* A sequence that is stored has a value below its universe everywhere.
LEMMA SequenceFacts ==
  ASSUME Abstract!IsSequence(sequence)
  PROVE /\ n \in Nat \ {0} /\ universe \in Nat
        /\ DOMAIN sequence.values = 0 .. n - 1
        /\ \A i \in 0 .. n - 1 : sequence.values[i] \in Nat /\ sequence.values[i] < universe
<1>0. /\ sequence.universe \in Nat /\ n \in Nat \ {0}
      /\ sequence.values \in [0 .. n - 1 -> 0 .. sequence.universe - 1]
  BY DEF Abstract!IsSequence, n
<1>1. PICK m \in Nat \ {0} : m = n /\ sequence.values \in [0 .. m - 1 -> 0 .. sequence.universe - 1]
  BY <1>0
<1> QED BY <1>0, <1>1 DEF universe

\* The names of an instance are those of the library.
LEMMA RankedNames ==
  /\ Ranked!n = n /\ Ranked!universe = universe /\ Ranked!Outside = universe
  /\ \A S : Ranked!Cardinality(S) = Cardinality(S) /\ Ranked!Min(S) = Min(S)
  /\ \A x : Ranked!CeilLog2(x) = CeilLog2(x)
<1>1. \A S : Ranked!Cardinality(S) = Cardinality(S) /\ Ranked!Min(S) = Min(S)
  BY DEF Ranked!Cardinality, Cardinality, Ranked!Min, Min
<1>2. Abstract!Size(sequence) = Cardinality(DOMAIN sequence.values)  BY SizeIs
<1>3. Ranked!n = n /\ Ranked!universe = universe /\ Ranked!Outside = universe
  BY <1>1, <1>2 DEF Ranked!n, n, Ranked!universe, universe, Ranked!Outside
<1>4. \A x : Ranked!CeilLog2(x) = CeilLog2(x)  BY DEF Ranked!CeilLog2, CeilLog2, Ranked!Msb, Msb
<1> QED BY <1>1, <1>3, <1>4

LEMMA RankedUnary ==
  /\ \A S, k : Ranked!Kth(S, k) = NthOr(S, k, universe)
  /\ \A h, k : Ranked!Nexts(h, k) = PastK(h, k, universe) /\ Ranked!Skip(h, k) = ToKth(h, k, universe)
<1>1. ASSUME NEW S, NEW k PROVE Ranked!Kth(S, k) = NthOr(S, k, universe)
  BY DEF Ranked!Kth, NthOr, Nth, Rank, Ranked!Cardinality, Cardinality, Ranked!Outside, Ranked!universe, universe
<1> QED BY <1>1 DEF Ranked!Nexts, PastK, Ranked!Skip, ToKth

\* read_next: the next value that the cursor reads is that of position p.
LEMMA RankedRead ==
  ASSUME RankedStored, NEW p \in 0 .. n - 1, NEW h, h.ones = Image(sequence.values, p, n)
  PROVE RankedStands(Ranked!Read(h, p), p)
<1>1. n \in Nat /\ universe \in Nat /\ \A i \in 0 .. n - 1 : sequence.values[i] \in Nat /\ sequence.values[i] < universe
  BY SequenceFacts DEF RankedStored
<1>2. Increases(sequence.values, n)  BY DEF RankedStored, RankedWritten
<1>3. p \in 0 .. n /\ p \in Nat /\ p + 1 <= n /\ p + 0 < n /\ p + 0 = p /\ p + 1 - 1 = p  BY <1>1
<1>4. Ranked!Kth(h.ones, 0) = sequence.values[p]  BY <1>1, <1>2, <1>3, NthOrIs, RankedUnary
<1>5. Ranked!Nexts(h, 1) = [at |-> sequence.values[p], ones |-> Image(sequence.values, p + 1, n)]
 <2>1. PastK(h, 1, universe) = [at |-> sequence.values[p + 1 - 1], ones |-> Image(sequence.values, p + 1, n)]
   BY <1>1, <1>2, <1>3, PastKIs
 <2> QED BY <1>3, <2>1, RankedUnary
<1>6. PICK v : v = sequence.values[p]  OBVIOUS
<1>7. v \in 0 .. universe /\ ValueAt(p) = v  BY <1>1, <1>3, <1>6 DEF ValueAt
<1>8. PICK I : I = Image(sequence.values, p + 1, n)  OBVIOUS
<1>9. Ranked!Read(h, p) = [position |-> p, value |-> v, high |-> [at |-> v, ones |-> I]]
  BY <1>4, <1>5, <1>6, <1>8 DEF Ranked!Read
<1> QED BY <1>3, <1>6, <1>7, <1>8, <1>9 DEF RankedStands

\* move: the short scan, the skip of ones and the jump to a sample lead to position p.
LEMMA RankedEnd ==
  ASSUME RankedStored, NEW x, NEW q, RankedStands(x, q)
  PROVE RankedStands(Ranked!AtEnd(x), n)
<1>1. n \in Nat  BY SequenceFacts DEF RankedStored
<1>2. PICK h : h = x.high  OBVIOUS
<1>3. PICK v : v = ValueAt(q)  OBVIOUS
<1>4. x = [position |-> q, value |-> v, high |-> h] /\ h.at \in 0 .. universe
  BY <1>2, <1>3 DEF RankedStands
<1>5. Ranked!AtEnd(x) = [position |-> n, value |-> universe, high |-> h]
 <2>1. Ranked!AtEnd(x) = [x EXCEPT !.position = n, !.value = universe]
   BY RankedNames DEF Ranked!AtEnd
 <2> QED BY <1>4, <2>1
<1>6. PICK y : y = Ranked!AtEnd(x)  OBVIOUS
<1>7. y.high = h /\ ValueAt(n) = universe /\ n \in Nat /\ ~(n < n)
  BY <1>1, <1>5, <1>6 DEF ValueAt
<1>8. RankedStands(y, n)  BY <1>4, <1>5, <1>6, <1>7 DEF RankedStands
<1> QED BY <1>6, <1>8

LEMMA RankedJump ==
  ASSUME RankedStored, NEW p \in 0 .. n - 1
  PROVE LET ptr == p \div 2 ^ LogSampling1
            h == Ranked!Skip(Ranked!From(Ranked!Sample(pointers1, ptr)), p - ptr * 2 ^ LogSampling1)
        IN h.ones = Image(sequence.values, p, n)
<1>1. /\ n \in Nat /\ universe \in Nat /\ Increases(sequence.values, n) /\ bits = Image(sequence.values, 0, n)
      /\ \A i \in 0 .. n - 1 : sequence.values[i] \in Nat /\ sequence.values[i] < universe
  BY SequenceFacts DEF RankedStored, RankedWritten
<1>2. Apart1 \in Nat \ {0} /\ 2 ^ LogSampling1 = Apart1
 <2>1. LogSampling1 \in Nat  BY SequencesAssumption DEF Ranked!RankedBitvectorAssumption
 <2>2. Apart1 \in Nat \ {0}  BY <2>1, PowerFacts DEF Apart1
 <2> QED BY <2>2, Zenon DEF Apart1, Power
<1>3. PICK ptr : ptr = p \div Apart1  OBVIOUS
<1>4. PICK a : a = ptr * Apart1  OBVIOUS
<1>5. ptr \in Nat /\ a \in Nat /\ a <= p /\ ptr <= p /\ p \in Nat
  BY <1>1, <1>2, <1>3, <1>4, DivFacts
<1>6. Ranked!From(Ranked!Sample(pointers1, ptr)).ones = Image(sequence.values, a, n)
 <2>1. CASE ptr = 0
  <3>1. a = 0 /\ Ranked!Sample(pointers1, ptr) = 0  BY <1>2, <1>4, <2>1 DEF Ranked!Sample
  <3>2. {b \in bits : b >= 0} = bits
   <4>1. \A b \in bits : b \in Nat  BY <1>1 DEF Image, Increases
   <4> QED BY <4>1
  <3> QED BY <1>1, <3>1, <3>2 DEF Ranked!From
 <2>2. CASE ptr # 0
  <3>1. ptr \in DOMAIN pointers1
   <4>1. ptr \in 1 .. n /\ ptr * Apart1 < written  BY <1>1, <1>4, <1>5, <2>2 DEF RankedStored
   <4> QED BY <4>1 DEF RankedStored, RankedWritten
  <3>2. Ranked!Sample(pointers1, ptr) = sequence.values[a]
    BY <1>4, <2>2, <3>1 DEF Ranked!Sample, RankedStored, RankedWritten
  <3>3. a \in 0 .. n - 1 /\ n \in 0 .. n /\ 0 \in 0 .. n  BY <1>1, <1>5
  <3>4. {b \in Image(sequence.values, 0, n) : b >= sequence.values[a]} = Image(sequence.values, a, n)
    BY <1>1, <3>3, ImageRank
  <3> QED BY <1>1, <3>2, <3>4 DEF Ranked!From
 <2> QED BY <2>1, <2>2
<1>7. PICK h : h = Ranked!From(Ranked!Sample(pointers1, ptr))  OBVIOUS
<1>8. PICK k : k = p - a  OBVIOUS
<1>9. k \in Nat /\ a \in 0 .. n /\ a + k < n /\ a + k = p  BY <1>1, <1>5, <1>8
<1>10. ToKth(h, k, universe) = [at |-> sequence.values[a + k], ones |-> Image(sequence.values, a + k, n)]
  BY <1>1, <1>6, <1>7, <1>9, ToKthIs
<1>11. Ranked!Skip(h, k).ones = Image(sequence.values, p, n)  BY <1>9, <1>10, RankedUnary
<1> QED BY <1>2, <1>3, <1>4, <1>7, <1>8, <1>11

LEMMA RankedMoved ==
  ASSUME RankedStored, NEW x, NEW q, RankedStands(x, q), NEW p \in 0 .. n
  PROVE RankedStands(Ranked!Moved(x, p), p)
<1>1. /\ n \in Nat /\ universe \in Nat /\ Increases(sequence.values, n)
      /\ \A i \in 0 .. n - 1 : sequence.values[i] \in Nat /\ sequence.values[i] < universe
  BY SequenceFacts DEF RankedStored, RankedWritten
<1>2. q \in Nat /\ x.position = q  BY DEF RankedStands
<1>3. CASE p = q  BY <1>2, <1>3 DEF Ranked!Moved
<1>4. CASE p = n
 <2>1. RankedStands(Ranked!AtEnd(x), n)  BY RankedEnd
 <2>2. CASE p # q  BY <1>2, <1>4, <2>1, <2>2, RankedNames DEF Ranked!Moved, Ranked!SlowMove
 <2> QED BY <1>3, <2>2
<1>5. CASE p # q /\ p # n
 <2>1. p \in 0 .. n - 1  BY <1>1, <1>5
 <2>2. CASE p > q /\ p - q <= LinearScanThreshold
  <3> DEFINE h == Ranked!Nexts(x.high, p - q - 1)
  <3>1. Ranked!Moved(x, p) = Ranked!Read(h, p)  BY <1>2, <1>5, <2>2, RankedNames DEF Ranked!Moved
  <3>2. h.ones = Image(sequence.values, p, n)
   <4>1. x.high.ones = Image(sequence.values, q + 1, n)  BY <1>1, <1>2, <2>1, <2>2 DEF RankedStands
   <4>2. CASE p = q + 1
    <5>1. p - q - 1 = 0  BY <1>1, <1>2, <4>2
    <5>2. h = x.high  BY <5>1, RankedUnary DEF PastK
    <5> QED BY <4>1, <4>2, <5>2
   <4>3. CASE p # q + 1
    <5>1. PICK k, i : k = p - q - 1 /\ i = q + 1  OBVIOUS
    <5>2. k \in Nat \ {0} /\ i \in 0 .. n /\ i + k <= n /\ i + k = p
      BY <1>1, <1>2, <2>1, <2>2, <4>3, <5>1
    <5>0. PICK y : y = x.high  OBVIOUS
    <5>6. y.ones = Image(sequence.values, i, n)  BY <4>1, <5>0, <5>1
    <5>3. PastK(x.high, k, universe)
            = [at |-> sequence.values[i + k - 1], ones |-> Image(sequence.values, i + k, n)]
     <6>1. PastK(y, k, universe)
             = [at |-> sequence.values[i + k - 1], ones |-> Image(sequence.values, i + k, n)]
       BY <1>1, <5>2, <5>6, PastKIs
     <6> QED BY <5>0, <6>1
    <5>4. h = PastK(x.high, k, universe)  BY <5>1, RankedUnary
    <5> QED BY <5>2, <5>3, <5>4
   <4> QED BY <4>2, <4>3
  <3> HIDE DEF h
  <3> QED BY <2>1, <3>1, <3>2, RankedRead
 <2>3. CASE ~(p > q /\ p - q <= LinearScanThreshold)
  <3>1. Ranked!Moved(x, p) = Ranked!SlowMove(x, p)  BY <1>2, <1>5, <2>3 DEF Ranked!Moved
  <3>2. CASE p > q /\ p - q < 2 ^ LogSampling1
   <4> DEFINE h == Ranked!Skip(x.high, p - q - 1)
   <4>1. Ranked!SlowMove(x, p) = Ranked!Read(h, p)
     BY <1>2, <1>5, <3>2, RankedNames, Zenon DEF Ranked!SlowMove
   <4>2. h.ones = Image(sequence.values, p, n)
    <5>1. x.high.ones = Image(sequence.values, q + 1, n)  BY <1>1, <1>2, <2>1, <3>2 DEF RankedStands
    <5>2. PICK k, i : k = p - q - 1 /\ i = q + 1  OBVIOUS
    <5>3. k \in Nat /\ i \in 0 .. n /\ i + k < n /\ i + k = p  BY <1>1, <1>2, <2>1, <3>2, <5>2
    <5>4. ToKth(x.high, k, universe).ones = Image(sequence.values, i + k, n)
      BY <1>1, <5>1, <5>2, <5>3, ToKthIs
    <5> QED BY <5>2, <5>3, <5>4, RankedUnary
   <4> HIDE DEF h
   <4> QED BY <2>1, <3>1, <4>1, <4>2, RankedRead
  <3>3. CASE ~(p > q /\ p - q < 2 ^ LogSampling1)
   <4> DEFINE ptr == p \div 2 ^ LogSampling1
              h == Ranked!Skip(Ranked!From(Ranked!Sample(pointers1, ptr)), p - ptr * 2 ^ LogSampling1)
   <4>1. Ranked!SlowMove(x, p) = Ranked!Read(h, p)
     BY <1>2, <1>5, <3>3, RankedNames, Zenon DEF Ranked!SlowMove
   <4>2. h.ones = Image(sequence.values, p, n)  BY <2>1, RankedJump
   <4> HIDE DEF h
   <4> QED BY <2>1, <3>1, <4>1, <4>2, RankedRead
  <3> QED BY <3>2, <3>3
 <2> QED BY <2>2, <2>3
<1> QED BY <1>3, <1>4, <1>5

\* The first value of an ordered sequence that is not below a bound has as many values before it as
\* are below the bound.
LEMMA FirstGeqBelow ==
  ASSUME Abstract!IsSequence(sequence), Ordered(sequence.values, n), NEW bound \in Nat
  PROVE /\ Whole!FirstGeq(sequence, bound) = Below(sequence.values, n, bound)
        /\ Whole!FirstGeq(sequence, bound) \in 0 .. n
        /\ \A i \in 0 .. n - 1 : i < Whole!FirstGeq(sequence, bound) <=> sequence.values[i] < bound
<1>1. /\ n \in Nat /\ DOMAIN sequence.values = 0 .. n - 1
      /\ \A i \in 0 .. n - 1 : sequence.values[i] \in Nat
  BY SequenceFacts
<1>2. PICK r : r = Whole!FirstGeq(sequence, bound)  OBVIOUS
<1>3. /\ r \in 0 .. n /\ (r # n => sequence.values[r] >= bound)
      /\ \A i \in 0 .. n - 1 : i < r => sequence.values[i] < bound
  BY <1>1, <1>2, FirstGeqFacts
<1>4. ASSUME NEW i \in 0 .. n - 1 PROVE i < r <=> sequence.values[i] < bound
 <2>1. CASE i < r  BY <1>3, <2>1
 <2>2. CASE ~(i < r)
  <3>1. r \in 0 .. n - 1 /\ r # n /\ r <= i  BY <1>1, <1>3, <2>2
  <3>2. sequence.values[r] <= sequence.values[i] /\ sequence.values[r] >= bound
        /\ sequence.values[i] \in Nat /\ sequence.values[r] \in Nat
    BY <1>1, <1>3, <3>1 DEF Ordered
  <3> QED BY <2>2, <3>2
 <2> QED BY <2>1, <2>2
<1>5. Below(sequence.values, n, bound) = r  BY <1>1, <1>3, <1>4, BelowFacts
<1> QED BY <1>2, <1>3, <1>4, <1>5

\* next_geq, from wherever it counts: by the scan, from the position the enumerator is at or from a
\* sample of the ranks.
LEMMA RankedScan ==
  ASSUME RankedStored, NEW x, NEW q \in 0 .. n - 1, RankedStands(x, q),
         NEW bound \in Nat, NEW r \in 0 .. n, q < r,
         \A i \in 0 .. n - 1 : i < r <=> sequence.values[i] < bound
  PROVE RankedStands(Ranked!Scan(x, bound), r)
<1>1. /\ n \in Nat /\ universe \in Nat /\ Increases(sequence.values, n)
      /\ \A i \in 0 .. n - 1 : sequence.values[i] \in Nat /\ sequence.values[i] < universe
  BY SequenceFacts DEF RankedStored, RankedWritten
<1>2. PICK h : h = x.high  OBVIOUS
<1>3. x.position = q /\ h.ones = Image(sequence.values, q + 1, n) /\ h.at \in 0 .. universe
  BY <1>1, <1>2 DEF RankedStands
<1> DEFINE found == {k \in q + 1 .. n - 1 : Ranked!Kth(h.ones, k - q - 1) >= bound}
           to == IF found # {} THEN Min(found) ELSE IF q < n THEN n ELSE q + 1
<1>4. ASSUME NEW k \in q + 1 .. n - 1 PROVE Ranked!Kth(h.ones, k - q - 1) = sequence.values[k]
 <2>1. PICK i, j : i = q + 1 /\ j = k - q - 1  OBVIOUS
 <2>2. i \in 0 .. n /\ j \in Nat /\ i + j = k /\ i + j < n  BY <1>1, <2>1
 <2>3. NthOr(Image(sequence.values, i, n), j, universe) = sequence.values[i + j]
   BY <1>1, <2>2, NthOrIs
 <2> QED BY <1>3, <2>1, <2>2, <2>3, RankedUnary
<1>5. found = {k \in q + 1 .. n - 1 : k >= r}
 <2>1. ASSUME NEW k \in q + 1 .. n - 1 PROVE Ranked!Kth(h.ones, k - q - 1) >= bound <=> k >= r
  <3>1. k \in 0 .. n - 1 /\ sequence.values[k] \in Nat  BY <1>1
  <3> QED BY <1>1, <1>4, <3>1
 <2> QED BY <2>1
<1>6. to = r /\ (found # {} <=> r < n)
 <2>1. CASE r < n
  <3>1. r \in found
   <4>1. r \in q + 1 .. n - 1 /\ r >= r  BY <1>1, <2>1
   <4> HIDE DEF found
   <4> QED BY <1>5, <4>1
  <3>2. Min(found) = r
   <4>1. found \subseteq Nat  BY <1>1
   <4>2. Min(found) \in found /\ Min(found) <= r  BY <3>1, <4>1, MinFacts
   <4>3. Min(found) >= r /\ Min(found) \in Nat  BY <1>1, <1>5, <4>2
   <4> HIDE DEF found
   <4> QED BY <4>2, <4>3
  <3> QED BY <2>1, <3>1, <3>2
 <2>2. CASE ~(r < n)
  <3>1. found = {}  BY <1>1, <1>5, <2>2
  <3> QED BY <1>1, <2>2, <3>1
 <2> QED BY <2>1, <2>2
<1>7. Ranked!Scan(x, bound)
        = IF found # {} THEN Ranked!Read(Ranked!Nexts(h, to - q - 1), to)
          ELSE [position |-> to, value |-> universe, high |-> Ranked!Nexts(h, to - q - 1)]
  BY <1>2, <1>3, RankedNames, Zenon DEF Ranked!Scan
<1> HIDE DEF found, to
<1>8. PICK k, i : k = r - q - 1 /\ i = q + 1  OBVIOUS
<1>9. k \in Nat /\ i \in 0 .. n /\ i + k = r /\ i + k <= n  BY <1>1, <1>8
<1>10. PICK g : g = Ranked!Nexts(h, to - q - 1)  OBVIOUS
<1>11. g = PastK(h, k, universe)  BY <1>6, <1>8, <1>10, RankedUnary
<1>12. g.ones = Image(sequence.values, r, n) /\ g.at \in 0 .. universe
 <2>1. CASE k = 0  BY <1>3, <1>8, <1>9, <1>11, <2>1 DEF PastK
 <2>2. CASE k # 0
  <3>1. k \in Nat \ {0} /\ h.ones = Image(sequence.values, i, n)  BY <1>3, <1>8, <1>9, <2>2
  <3>2. PastK(h, k, universe)
          = [at |-> sequence.values[i + k - 1], ones |-> Image(sequence.values, i + k, n)]
    BY <1>1, <1>9, <3>1, PastKIs
  <3>3. i + k - 1 \in 0 .. n - 1  BY <1>1, <1>9, <3>1
  <3> QED BY <1>1, <1>9, <1>11, <3>2, <3>3
 <2> QED BY <2>1, <2>2
<1>13. CASE r < n
 <2>1. Ranked!Scan(x, bound) = Ranked!Read(g, r)  BY <1>6, <1>7, <1>10, <1>13
 <2>2. r \in 0 .. n - 1  BY <1>1, <1>13
 <2> QED BY <1>12, <2>1, <2>2, RankedRead
<1>14. CASE ~(r < n)
 <2>1. Ranked!Scan(x, bound) = [position |-> r, value |-> universe, high |-> g]
   BY <1>6, <1>7, <1>10, <1>14
 <2>2. ValueAt(r) = universe  BY <1>1, <1>14 DEF ValueAt
 <2> QED BY <1>1, <1>12, <1>14, <2>1, <2>2 DEF RankedStands
<1> QED BY <1>13, <1>14

\* At the end the scan counts a position more.
LEMMA RankedStrays ==
  ASSUME RankedStored, NEW x, NEW q, RankedStands(x, q), q >= n, NEW bound
  PROVE RankedStands(Ranked!Scan(x, bound), q + 1)
<1>1. n \in Nat /\ q \in Nat /\ ~(q < n)  BY SequenceFacts DEF RankedStored, RankedStands
<1>2. PICK h : h = x.high  OBVIOUS
<1>3. x.position = q /\ h.at \in 0 .. universe  BY <1>2 DEF RankedStands
<1> DEFINE found == {k \in q + 1 .. n - 1 : Ranked!Kth(h.ones, k - q - 1) >= bound}
           to == IF found # {} THEN Min(found) ELSE IF q < n THEN n ELSE q + 1
<1>4. found = {} /\ to = q + 1
 <2>1. q + 1 .. n - 1 = {}  BY <1>1
 <2>2. found = {}  BY <2>1
 <2> QED BY <1>1, <2>2
<1>5. Ranked!Scan(x, bound)
        = IF found # {} THEN Ranked!Read(Ranked!Nexts(h, to - q - 1), to)
          ELSE [position |-> to, value |-> universe, high |-> Ranked!Nexts(h, to - q - 1)]
  BY <1>2, <1>3, RankedNames, Zenon DEF Ranked!Scan
<1> HIDE DEF found, to
<1>6. PICK p, k : p = q + 1 /\ k = p - q - 1  OBVIOUS
<1>7. k = 0 /\ p \in Nat /\ ~(p < n) /\ p >= n  BY <1>1, <1>6
<1>8. Ranked!Nexts(h, 0) = h  BY DEF Ranked!Nexts
<1>9. PICK y : y = Ranked!Scan(x, bound)  OBVIOUS
<1>10. y = [position |-> p, value |-> universe, high |-> h]  BY <1>4, <1>5, <1>6, <1>7, <1>8, <1>9
<1>11. ValueAt(p) = universe /\ y.high = h  BY <1>7, <1>10 DEF ValueAt
<1>12. RankedStands(y, p)  BY <1>3, <1>7, <1>10, <1>11 DEF RankedStands
<1> QED BY <1>6, <1>9, <1>12

LEMMA RankedCounted ==
  ASSUME RankedStored, NEW x, NEW q, RankedStands(x, q),
         NEW bound \in Nat, bound < universe
  PROVE LET block == bound \div 2 ^ LogRank1Sampling
            ahead == bound > x.value /\ bound - x.value < 2 ^ LogRank1Sampling
            begin == IF ahead THEN x.value ELSE block * 2 ^ LogRank1Sampling
        IN (IF ahead THEN x.position ELSE Ranked!Sample(rank1, block))
             + Ranked!Cardinality({b \in bits : begin <= b /\ b < bound})
           = Below(sequence.values, n, bound)
<1>1. /\ n \in Nat /\ universe \in Nat /\ Increases(sequence.values, n) /\ Ordered(sequence.values, n)
      /\ \A i \in 0 .. n - 1 : sequence.values[i] \in Nat /\ sequence.values[i] < universe
      /\ bits = Image(sequence.values, 0, n)
 <2>1. /\ n \in Nat /\ universe \in Nat
       /\ \A i \in 0 .. n - 1 : sequence.values[i] \in Nat /\ sequence.values[i] < universe
   BY SequenceFacts DEF RankedStored
 <2>2. Increases(sequence.values, n) /\ bits = Image(sequence.values, 0, n)
   BY DEF RankedStored, RankedWritten
 <2>3. Ordered(sequence.values, n)  BY <2>1, <2>2, BelowImage
 <2> QED BY <2>1, <2>2, <2>3
<1>2. ApartRank \in Nat \ {0} /\ 2 ^ LogRank1Sampling = ApartRank
 <2>1. LogRank1Sampling \in Nat  BY SequencesAssumption DEF Ranked!RankedBitvectorAssumption
 <2>2. ApartRank \in Nat \ {0}  BY <2>1, PowerFacts DEF ApartRank
 <2> QED BY <2>2, Zenon DEF ApartRank, Power
<1> DEFINE block == bound \div 2 ^ LogRank1Sampling
           ahead == bound > x.value /\ bound - x.value < 2 ^ LogRank1Sampling
           begin == IF ahead THEN x.value ELSE block * 2 ^ LogRank1Sampling
           from == IF ahead THEN x.position ELSE Ranked!Sample(rank1, block)
<1>3. x.position = q /\ q \in Nat /\ x.value = ValueAt(q)  BY DEF RankedStands
<1>4. begin \in Nat /\ begin <= bound /\ from = Below(sequence.values, n, begin)
 <2>1. CASE ahead
  <3>1. PICK v : v = x.value  OBVIOUS
  <3>2. q \in 0 .. n - 1 /\ v = sequence.values[q]
   <4>1. ~(q >= n)  BY <1>1, <1>3, <2>1 DEF ValueAt
   <4> QED BY <1>1, <1>3, <3>1, <4>1 DEF ValueAt
  <3>3. v \in Nat /\ v < bound /\ begin = v /\ from = q  BY <1>1, <1>3, <2>1, <3>1, <3>2
  <3>4. \A i \in 0 .. n - 1 : i < q <=> sequence.values[i] < v
   <4> SUFFICES ASSUME NEW i \in 0 .. n - 1 PROVE i < q <=> sequence.values[i] < v  OBVIOUS
   <4>1. i < q => sequence.values[i] < sequence.values[q]  BY <1>1, <3>2 DEF Increases
   <4>2. q < i => sequence.values[q] < sequence.values[i]  BY <1>1, <3>2 DEF Increases
   <4>3. i < q \/ i = q \/ q < i  BY <1>3
   <4>4. sequence.values[i] \in Nat /\ sequence.values[q] \in Nat  BY <1>1, <3>2
   <4> QED BY <3>2, <4>1, <4>2, <4>3, <4>4
  <3>5. Below(sequence.values, n, v) = q
   <4>1. v \in Nat /\ q \in 0 .. n  BY <1>1, <3>2, <3>3
   <4> QED BY <1>1, <3>4, <4>1, BelowFacts
  <3> HIDE DEF begin, from
  <3> QED BY <1>1, <3>3, <3>5
 <2>2. CASE ~ahead
  <3>1. PICK k : k = bound \div ApartRank  OBVIOUS
  <3>2. PICK a : a = k * ApartRank  OBVIOUS
  <3>3. k \in Nat /\ a \in Nat /\ a <= bound /\ k <= bound  BY <1>2, <3>1, <3>2, DivFacts
  <3>4. block = k  BY <1>2, <3>1
  <3>5. begin = a /\ from = Ranked!Sample(rank1, k)  BY <1>2, <2>2, <3>2, <3>4
  <3>6. Ranked!Sample(rank1, k) = Below(sequence.values, n, a)
   <4>1. CASE k = 0
    <5>1. a = 0 /\ Ranked!Sample(rank1, k) = 0  BY <1>2, <3>2, <4>1 DEF Ranked!Sample
    <5>2. \A i \in 0 .. n - 1 : i < 0 <=> sequence.values[i] < 0  BY <1>1
    <5>3. Below(sequence.values, n, 0) = 0  BY <1>1, <5>2, BelowFacts
    <5> QED BY <5>1, <5>3
   <4>2. CASE k # 0
    <5>1. k \in 1 .. universe /\ k * ApartRank < universe  BY <1>1, <3>2, <3>3, <4>2
    <5>2. k \in DOMAIN rank1  BY <5>1 DEF RankedStored, RankedWritten
    <5>3. PICK r : r = rank1[k]  OBVIOUS
    <5>4. r \in 0 .. n /\ \A i \in 0 .. n - 1 : i < r <=> sequence.values[i] < a
      BY <3>2, <5>2, <5>3 DEF RankedStored, RankedWritten
    <5>5. Below(sequence.values, n, a) = r  BY <1>1, <3>3, <5>4, BelowFacts
    <5> QED BY <4>2, <5>2, <5>3, <5>5 DEF Ranked!Sample
   <4> QED BY <4>1, <4>2
  <3> HIDE DEF begin, from
  <3> QED BY <3>3, <3>5, <3>6
 <2> HIDE DEF begin, from
 <2> QED BY <2>1, <2>2
<1> HIDE DEF begin, from
<1>5. PICK a : a = begin  OBVIOUS
<1>6. PICK i, j : i = Below(sequence.values, n, a) /\ j = Below(sequence.values, n, bound)  OBVIOUS
<1>7. i \in Nat /\ j \in Nat  BY <1>1, <1>4, <1>5, <1>6, BelowFacts
<1>8. Cardinality({y \in Image(sequence.values, 0, n) : a <= y /\ y < bound}) = j - i
  BY <1>1, <1>4, <1>5, <1>6, CountBetween
<1>9. from + Ranked!Cardinality({b \in bits : begin <= b /\ b < bound}) = j
  BY <1>1, <1>4, <1>5, <1>6, <1>7, <1>8, RankedNames
<1> QED BY <1>6, <1>9 DEF begin, from

\* Where next_geq leads from position q, unless it strays.
GeqFrom(q, bound) == IF bound = ValueAt(q) THEN q ELSE Whole!FirstGeq(sequence, bound)
Strays(q, bound) == q >= n /\ bound > universe

LEMMA RankedGeq ==
  ASSUME RankedStored, NEW x, NEW q, RankedStands(x, q), NEW bound \in Nat
  PROVE \/ RankedStands(Ranked!Geq(x, bound), GeqFrom(q, bound))
        \/ Strays(q, bound) /\ RankedStands(Ranked!Geq(x, bound), q + 1)
<1>1. /\ n \in Nat /\ universe \in Nat /\ Increases(sequence.values, n) /\ Ordered(sequence.values, n)
      /\ \A i \in 0 .. n - 1 : sequence.values[i] \in Nat /\ sequence.values[i] < universe
      /\ bits = Image(sequence.values, 0, n) /\ bound \in Nat
 <2>1. /\ n \in Nat /\ universe \in Nat
       /\ \A i \in 0 .. n - 1 : sequence.values[i] \in Nat /\ sequence.values[i] < universe
   BY SequenceFacts DEF RankedStored
 <2>2. Increases(sequence.values, n) /\ bits = Image(sequence.values, 0, n)
   BY DEF RankedStored, RankedWritten
 <2>3. Ordered(sequence.values, n)  BY <2>1, <2>2, BelowImage
 <2> QED BY <2>1, <2>2, <2>3
<1>2. PICK r : r = Whole!FirstGeq(sequence, bound)  OBVIOUS
<1>3. /\ r \in 0 .. n /\ r = Below(sequence.values, n, bound)
      /\ \A i \in 0 .. n - 1 : i < r <=> sequence.values[i] < bound
  BY <1>1, <1>2, FirstGeqBelow DEF RankedStored
<1>4. x.position = q /\ q \in Nat /\ x.value = ValueAt(q) /\ ValueAt(q) \in Nat
      /\ (q < n => ValueAt(q) = sequence.values[q]) /\ (q >= n => ValueAt(q) = universe)
  BY <1>1 DEF RankedStands, ValueAt
<1>5. CASE bound = x.value
 <2>1. Ranked!Geq(x, bound) = x /\ GeqFrom(q, bound) = q  BY <1>4, <1>5 DEF Ranked!Geq, GeqFrom
 <2> QED BY <2>1
<1>6. CASE bound > x.value /\ bound - x.value <= LinearScanThreshold /\ q >= n
 <2>1. Ranked!Geq(x, bound) = Ranked!Scan(x, bound) /\ Strays(q, bound)
   BY <1>1, <1>4, <1>6 DEF Ranked!Geq, Strays
 <2>2. RankedStands(Ranked!Scan(x, bound), q + 1)  BY <1>6, RankedStrays
 <2> QED BY <2>1, <2>2
<1>7. CASE bound # x.value /\ ~(bound > x.value /\ bound - x.value <= LinearScanThreshold /\ q >= n)
 <2>1. GeqFrom(q, bound) = r  BY <1>2, <1>4, <1>7 DEF GeqFrom
 <2> SUFFICES RankedStands(Ranked!Geq(x, bound), r)  BY <2>1
 <2>2. CASE bound > x.value /\ bound - x.value <= LinearScanThreshold
  <3>1. Ranked!Geq(x, bound) = Ranked!Scan(x, bound)  BY <1>7, <2>2 DEF Ranked!Geq
  <3>2. q \in 0 .. n - 1  BY <1>1, <1>4, <1>7, <2>2
  <3>3. q < r  BY <1>1, <1>3, <1>4, <2>2, <3>2
  <3>4. RankedStands(Ranked!Scan(x, bound), r)  BY <1>1, <1>3, <3>2, <3>3, RankedScan
  <3> QED BY <3>1, <3>4
 <2>3. CASE bound # x.value /\ ~(bound > x.value /\ bound - x.value <= LinearScanThreshold)
  <3>1. Ranked!Geq(x, bound) = Ranked!SlowNextGeq(x, bound)  BY <2>3 DEF Ranked!Geq
  <3>2. CASE bound >= universe
   <4>1. Ranked!SlowNextGeq(x, bound) = Ranked!Moved(x, n)
     BY <3>2, RankedNames, Zenon DEF Ranked!SlowNextGeq
   <4>2. r = n
    <5>1. ~(r < n)  BY <1>1, <1>3, <3>2
    <5> QED BY <1>1, <1>3, <5>1
   <4>3. n \in 0 .. n  BY <1>1
   <4>4. RankedStands(Ranked!Moved(x, n), n)  BY <4>3, RankedMoved
   <4> QED BY <3>1, <4>1, <4>2, <4>4
  <3>3. CASE ~(bound >= universe)
   <4> DEFINE block == bound \div 2 ^ LogRank1Sampling
              ahead == bound > x.value /\ bound - x.value < 2 ^ LogRank1Sampling
              begin == IF ahead THEN x.value ELSE block * 2 ^ LogRank1Sampling
              p == (IF ahead THEN x.position ELSE Ranked!Sample(rank1, block))
                      + Ranked!Cardinality({b \in bits : begin <= b /\ b < bound})
   <4>1. bound < universe  BY <1>1, <3>3
   <4>2. p = r
    <5>1. p = Below(sequence.values, n, bound)  BY <1>1, <4>1, RankedCounted
    <5> HIDE DEF p
    <5> QED BY <1>3, <5>1
   <4>3. Ranked!SlowNextGeq(x, bound)
           = IF p < n THEN Ranked!Read(Ranked!From(bound), p)
             ELSE [position |-> p, value |-> universe, high |-> Ranked!From(bound)]
     BY <3>3, RankedNames, Zenon DEF Ranked!SlowNextGeq
   <4> HIDE DEF p
   <4>4. PICK g : g = Ranked!From(bound)  OBVIOUS
   <4>5. g.at = bound /\ g.ones = Image(sequence.values, r, n)
    <5>1. {b \in bits : b >= bound} = Image(sequence.values, r, n)  BY <1>1, <1>3, BelowImage
    <5> QED BY <4>4, <5>1 DEF Ranked!From
   <4>6. CASE r < n
    <5>1. r \in 0 .. n - 1  BY <1>1, <1>3, <4>6
    <5>2. RankedStands(Ranked!Read(g, r), r)  BY <4>5, <5>1, RankedRead
    <5> QED BY <3>1, <4>2, <4>3, <4>4, <4>6, <5>2
   <4>7. CASE ~(r < n)
    <5>1. Ranked!Geq(x, bound) = [position |-> r, value |-> universe, high |-> g]
      BY <3>1, <4>2, <4>3, <4>4, <4>7
    <5>2. ValueAt(r) = universe /\ g.at \in 0 .. universe /\ ~(r < n) /\ r \in Nat
      BY <1>1, <1>3, <4>1, <4>5, <4>7 DEF ValueAt
    <5> QED BY <5>1, <5>2 DEF RankedStands
   <4> QED BY <4>6, <4>7
  <3> QED BY <3>2, <3>3
 <2> QED BY <1>7, <2>2, <2>3
<1> QED BY <1>5, <1>6, <1>7

LEMMA RankedAdvanced ==
  ASSUME RankedStored, NEW x, NEW q, RankedStands(x, q), q < n
  PROVE RankedStands(Ranked!Advanced(x), q + 1)
<1>1. n \in Nat /\ q \in 0 .. n - 1  BY SequenceFacts DEF RankedStored, RankedStands
<1>2. PICK h : h = x.high  OBVIOUS
<1>3. PICK v : v = ValueAt(q)  OBVIOUS
<1>4. x = [position |-> q, value |-> v, high |-> h] /\ h.at \in 0 .. universe
      /\ h.ones = Image(sequence.values, q + 1, n)
  BY <1>2, <1>3 DEF RankedStands
<1>5. CASE q + 1 < n
 <2>1. q + 1 \in 0 .. n - 1  BY <1>1, <1>5
 <2>2. Ranked!Advanced(x) = Ranked!Read(h, q + 1)  BY <1>4, <1>5, RankedNames DEF Ranked!Advanced
 <2> QED BY <1>4, <2>1, <2>2, RankedRead
<1>6. CASE ~(q + 1 < n)
 <2>1. PICK y, p : y = Ranked!Advanced(x) /\ p = q + 1  OBVIOUS
 <2>2. p = n /\ ~(p < n) /\ p \in Nat  BY <1>1, <1>6, <2>1
 <2>3. y = [x EXCEPT !.position = p, !.value = universe]
   BY <1>4, <1>6, <2>1, RankedNames DEF Ranked!Advanced
 <2>4. y = [position |-> p, value |-> universe, high |-> h]  BY <1>4, <2>3
 <2>5. y.high = h /\ ValueAt(p) = universe  BY <2>2, <2>4 DEF ValueAt
 <2>6. RankedStands(y, p)  BY <1>4, <2>2, <2>4, <2>5 DEF RankedStands
 <2> QED BY <2>1, <2>6
<1> QED BY <1>5, <1>6

\* prev_value: the value before the one the cursor has read.
LEMMA LastIs ==
  ASSUME NEW m \in Nat, NEW f, Increases(f, m), NEW k \in 1 .. m
  PROVE Image(f, 0, k) # {} /\ Max(Image(f, 0, k)) = f[k - 1]
<1>1. \A i \in 0 .. k - 1 : f[i] \in Nat /\ f[i] <= f[k - 1]
 <2> SUFFICES ASSUME NEW i \in 0 .. k - 1 PROVE f[i] \in Nat /\ f[i] <= f[k - 1]  OBVIOUS
 <2>1. i \in 0 .. m - 1 /\ k - 1 \in 0 .. m - 1  OBVIOUS
 <2>2. f[i] \in Nat /\ f[k - 1] \in Nat /\ (i < k - 1 => f[i] < f[k - 1])  BY <2>1 DEF Increases
 <2>3. i < k - 1 \/ i = k - 1  OBVIOUS
 <2> QED BY <2>2, <2>3
<1>2. PICK S : S = Image(f, 0, k)  OBVIOUS
<1>3. PICK v : v = f[k - 1]  OBVIOUS
<1>4. v \in S /\ v \in Nat /\ \A y \in S : y \in Nat /\ y <= v
 <2>1. k - 1 \in 0 .. k - 1  OBVIOUS
 <2> QED BY <1>1, <1>2, <1>3, <2>1 DEF Image
<1>5. Max(S) \in S /\ \A y \in S : Max(S) >= y
 <2>1. \E x \in S : \A y \in S : x >= y  BY <1>4
 <2> QED BY <2>1 DEF Max
<1>6. Max(S) = v
 <2>1. PICK x : x = Max(S)  OBVIOUS
 <2>2. x \in Nat /\ x <= v /\ x >= v  BY <1>4, <1>5, <2>1
 <2> QED BY <1>4, <2>1, <2>2
<1> QED BY <1>2, <1>3, <1>4, <1>6

LEMMA RankedViewIs ==
  ASSUME RankedStored, NEW x, NEW q, RankedStands(x, q)
  PROVE [position |-> x.position, value |-> x.value, previous |-> Ranked!PrevValue(x)]
          = Whole!At(sequence, q)
<1>1. /\ n \in Nat \ {0} /\ universe \in Nat
      /\ Increases(sequence.values, n) /\ bits = Image(sequence.values, 0, n)
  BY SequenceFacts DEF RankedStored, RankedWritten
<1>2. q \in Nat /\ x.position = q /\ x.value = ValueAt(q)  BY DEF RankedStands
<1>3. Whole!Size(sequence) = n  BY SizeIs DEF n
<1> DEFINE k == IF q > n THEN n ELSE q
<1>4. Ranked!PrevValue(x) = IF q = 0 THEN 0 ELSE sequence.values[k - 1]
 <2> DEFINE below == {b \in bits : q >= n \/ b < x.high.at}
 <2>1. Ranked!PrevValue(x) = IF q = 0 THEN 0 ELSE IF below = {} THEN universe ELSE Max(below)
  <3>1. \A S : Ranked!Max(S) = Max(S)  BY DEF Ranked!Max, Max
  <3> QED BY <1>2, <3>1, RankedNames DEF Ranked!PrevValue
 <2>2. q # 0 => below = Image(sequence.values, 0, k)
  <3>1. CASE q >= n
   <4>1. k = n /\ below = bits  BY <1>1, <1>2, <3>1
   <4> QED BY <1>1, <4>1
  <3>2. CASE ~(q >= n)
   <4>1. q \in 0 .. n - 1 /\ 0 \in 0 .. n /\ n \in 0 .. n /\ k = q  BY <1>1, <1>2, <3>2
   <4>2. x.high.at = sequence.values[q]  BY <4>1 DEF RankedStands
   <4>3. {y \in Image(sequence.values, 0, n) : y < sequence.values[q]} = Image(sequence.values, 0, q)
     BY <1>1, <4>1, ImageRank
   <4> QED BY <1>1, <3>2, <4>1, <4>2, <4>3
  <3> QED BY <3>1, <3>2
 <2> HIDE DEF below
 <2>3. q # 0 => below # {} /\ Max(below) = sequence.values[k - 1]
  <3> SUFFICES ASSUME q # 0 PROVE below # {} /\ Max(below) = sequence.values[k - 1]  OBVIOUS
  <3>1. k \in 1 .. n  BY <1>1, <1>2
  <3> HIDE DEF k
  <3> QED BY <1>1, <2>2, <3>1, LastIs
 <2> QED BY <2>1, <2>3
<1> QED BY <1>2, <1>3, <1>4 DEF Whole!At, ValueAt, universe

\* What depends on the sequence alone stays as long as it does.
LEMMA SameSequence ==
  ASSUME sequence' = sequence
  PROVE /\ n' = n /\ universe' = universe /\ \A q : ValueAt(q)' = ValueAt(q)
        /\ Abstract!IsSequence(sequence)' <=> Abstract!IsSequence(sequence)
<1>1. n' = n /\ universe' = universe
  BY DEF n, universe, Abstract!Size, Abstract!Cardinality, Cardinality
<1>2. \A q : ValueAt(q)' = ValueAt(q)  BY <1>1 DEF ValueAt
<1>3. Abstract!IsSequence(sequence)' <=> Abstract!IsSequence(sequence)
  BY DEF Abstract!IsSequence, Abstract!Size, Abstract!Cardinality, Cardinality
<1> QED BY <1>1, <1>2, <1>3

\* Samples are added to those that are there.
LEMMA RankedJoined ==
  ASSUME NEW f, NEW g
  PROVE /\ DOMAIN Ranked!Joined(f, g) = DOMAIN f \cup DOMAIN g
        /\ \A p \in DOMAIN f : Ranked!Joined(f, g)[p] = f[p]
        /\ \A p \in DOMAIN g : p \notin DOMAIN f => Ranked!Joined(f, g)[p] = g[p]
BY DEF Ranked!Joined

\* The call leads from position q of s to position r.
Goes(s, q, r) ==
  \/ \E p \in 0 .. Whole!Size(s) : call' = <<"move", p>> /\ r = p
  \/ \E bound \in 0 .. s.universe + Beyond :
         /\ call' = <<"next_geq", bound>>
         /\ r = IF bound = Whole!At(s, q).value THEN q ELSE Whole!FirstGeq(s, bound)
  \/ \E bound \in 0 .. s.universe + Beyond :
         call' = <<"next_geq", bound>> /\ q >= Whole!Size(s) /\ bound > s.universe /\ r = q + 1
  \/ q < Whole!Size(s) /\ call' = <<"next", 0>> /\ r = q + 1

LEMMA BoundIs ==
  ASSUME Abstract!IsSequence(sequence), NEW bound \in 0 .. universe + Beyond
  PROVE bound \in Nat
BY SequenceFacts, SequencesAssumption DEF PartitionedAssumption

LEMMA GeqGoes ==
  ASSUME NEW q, NEW r, NEW bound \in 0 .. universe + Beyond, call' = <<"next_geq", bound>>,
         r = GeqFrom(q, bound) \/ (Strays(q, bound) /\ r = q + 1)
  PROVE Goes(sequence, q, r)
<1>1. Whole!Size(sequence) = n  BY SizeIs DEF n
<1>2. Whole!At(sequence, q).value = ValueAt(q)  BY <1>1 DEF Whole!At, ValueAt, universe
<1>3. bound \in 0 .. sequence.universe + Beyond  BY DEF universe
<1>4. CASE r = GeqFrom(q, bound)  BY <1>2, <1>3, <1>4 DEF Goes, GeqFrom
<1>5. CASE Strays(q, bound) /\ r = q + 1  BY <1>1, <1>3, <1>5 DEF Goes, Strays, universe
<1> QED BY <1>4, <1>5

LEMMA RankedBegins ==
  ASSUME Ranked!Init
  PROVE RankedInv
<1>1. Abstract!IsSequence(sequence)
 <2>1. Ranked!Abstract!IsSequence(sequence)
   BY SequencesAssumption DEF Ranked!InputsAssumption, Ranked!Init
 <2> QED BY <2>1 DEF Ranked!Abstract!IsSequence, Abstract!IsSequence, Ranked!Abstract!Size,
    Abstract!Size, Ranked!Abstract!Cardinality, Abstract!Cardinality
<1>2. n \in Nat \ {0} /\ universe \in Nat  BY <1>1, SequenceFacts
<1>3. /\ phase = "write" /\ written = 0 /\ bits = {} /\ rank1 = <<>> /\ pointers1 = <<>>
      /\ enum = [position |-> n, value |-> universe, high |-> [at |-> 0, ones |-> {}]]
  BY RankedNames DEF Ranked!Init
<1>4. RankedReach = 1  BY <1>3 DEF RankedReach, Ranked!Last
<1>5. RankedWritten(1)
 <2>1. Increases(sequence.values, 0) /\ Image(sequence.values, 0, 0) = {}  BY DEF Increases, Image
 <2>2. DOMAIN rank1 = {} /\ DOMAIN pointers1 = {}  BY <1>3
 <2>3. Apart1 \in Nat \ {0} /\ ApartRank \in Nat \ {0}
   BY SequencesAssumption, PowerFacts DEF Ranked!RankedBitvectorAssumption, Apart1, ApartRank
 <2>4. {p \in 1 .. n : p * Apart1 < 0} = {} /\ {p \in 1 .. universe : p * ApartRank < 1} = {}
  <3>1. ASSUME NEW p \in Nat, p > 0 PROVE p * Apart1 >= 1 /\ p * ApartRank >= 1
   <4>1. p * Apart1 \in Nat /\ p <= p * Apart1  BY <2>3, TimesGrows
   <4>2. p * ApartRank \in Nat /\ p <= p * ApartRank  BY <2>3, TimesGrows
   <4> QED BY <3>1, <4>1, <4>2
  <3>2. ASSUME NEW p \in 1 .. n PROVE ~(p * Apart1 < 0)
   <4>1. p * Apart1 \in Nat  BY <2>3
   <4> QED BY <4>1
  <3>3. ASSUME NEW p \in 1 .. universe PROVE ~(p * ApartRank < 1)
   <4>1. p * ApartRank >= 1 /\ p * ApartRank \in Nat  BY <2>3, <3>1
   <4> QED BY <4>1
  <3> QED BY <3>2, <3>3
 <2> QED BY <1>2, <1>3, <2>1, <2>2, <2>4 DEF RankedWritten
<1> QED BY <1>1, <1>3, <1>4, <1>5 DEF RankedInv

\* set_rank1_samples: those between the last place that has been reached and the one that is
\* reached now are added.
LEMMA RankedSampled ==
  ASSUME NEW first \in Nat, NEW last \in Nat, NEW rank \in 0 .. n, first <= last, last <= universe,
         Abstract!IsSequence(sequence), DOMAIN rank1 = {p \in 1 .. universe : p * ApartRank < first}
  PROVE LET f == Ranked!SetRank1Samples(first, last, rank)
        IN /\ DOMAIN f = {p \in 1 .. universe : p * ApartRank < last}
           /\ \A p \in DOMAIN f : f[p] = IF p \in DOMAIN rank1 THEN rank1[p] ELSE rank
<1>1. n \in Nat /\ universe \in Nat  BY SequenceFacts
<1>2. ApartRank \in Nat \ {0} /\ 2 ^ LogRank1Sampling = ApartRank
 <2>1. LogRank1Sampling \in Nat  BY SequencesAssumption DEF Ranked!RankedBitvectorAssumption
 <2>2. ApartRank \in Nat \ {0}  BY <2>1, PowerFacts DEF ApartRank
 <2> QED BY <2>2, Zenon DEF ApartRank, Power
<1> DEFINE sampled == {p \in 1 .. last : first <= p * ApartRank /\ p * ApartRank < last}
           g == [p \in sampled |-> rank % 2 ^ Ranked!Rank1SampleSize]
           h == Ranked!SetRank1Samples(first, last, rank)
<1>3. h = Ranked!Joined(g, rank1)  BY <1>2, Zenon DEF Ranked!SetRank1Samples
<1>4. rank % 2 ^ Ranked!Rank1SampleSize = rank
 <2>1. Ranked!Rank1SampleSize = CeilLog2(n + 1)  BY RankedNames DEF Ranked!Rank1SampleSize
 <2>2. rank \in Nat /\ n + 1 \in Nat /\ rank < n + 1  BY <1>1
 <2>3. rank % 2 ^ CeilLog2(n + 1) = rank  BY <2>2, FieldHolds
 <2> QED BY <2>1, <2>3, Zenon
<1>5. DOMAIN g = sampled /\ \A p \in sampled : g[p] = rank
 <2>1. PICK y : y = rank % 2 ^ Ranked!Rank1SampleSize  OBVIOUS
 <2>2. g = [p \in sampled |-> y] /\ y = rank  BY <1>4, <2>1, Zenon
 <2> HIDE DEF g, sampled
 <2> QED BY <2>2
<1> HIDE DEF g, h
<1>6. /\ DOMAIN h = sampled \cup DOMAIN rank1
      /\ \A p \in sampled : h[p] = rank
      /\ \A p \in DOMAIN rank1 : p \notin sampled => h[p] = rank1[p]
 <2> HIDE DEF sampled
 <2>1. PICK f, old : f = g /\ old = rank1  OBVIOUS
 <2>2. /\ DOMAIN Ranked!Joined(f, old) = DOMAIN f \cup DOMAIN old
       /\ \A p \in DOMAIN f : Ranked!Joined(f, old)[p] = f[p]
       /\ \A p \in DOMAIN old : p \notin DOMAIN f => Ranked!Joined(f, old)[p] = old[p]
   BY RankedJoined
 <2> QED BY <1>3, <1>5, <2>1, <2>2
<1>7. \A p \in 1 .. universe : p \in Nat /\ p * ApartRank \in Nat /\ p <= p * ApartRank
 <2> SUFFICES ASSUME NEW p \in 1 .. universe PROVE p \in Nat /\ p * ApartRank \in Nat /\ p <= p * ApartRank
   OBVIOUS
 <2>1. p \in Nat  OBVIOUS
 <2> QED BY <1>2, <2>1, TimesGrows
<1>8. sampled = {p \in 1 .. universe : first <= p * ApartRank /\ p * ApartRank < last}
 <2>1. ASSUME NEW p \in 1 .. universe, p * ApartRank < last PROVE p \in 1 .. last
  <3>1. PICK a \in Nat : a = p * ApartRank  BY <1>7
  <3> QED BY <1>7, <2>1, <3>1
 <2>2. \A p \in 1 .. last : p \in 1 .. universe  BY <1>1
 <2> QED BY <2>1, <2>2
<1>9. \A p \in 1 .. universe : p * ApartRank < last <=> p \in sampled \/ p \in DOMAIN rank1
 <2> SUFFICES ASSUME NEW p \in 1 .. universe
              PROVE p * ApartRank < last <=> p \in sampled \/ p \in DOMAIN rank1
   OBVIOUS
 <2>1. PICK a \in Nat : a = p * ApartRank  BY <1>7
 <2>2. p \in sampled <=> first <= a /\ a < last  BY <1>8, <2>1
 <2>3. p \in DOMAIN rank1 <=> a < first  BY <2>1
 <2> QED BY <2>1, <2>2, <2>3
<1>10. \A p \in sampled : p \notin DOMAIN rank1
 <2> SUFFICES ASSUME NEW p \in sampled PROVE p \notin DOMAIN rank1  OBVIOUS
 <2>1. p \in 1 .. universe /\ first <= p * ApartRank  BY <1>8
 <2>2. PICK a \in Nat : a = p * ApartRank  BY <1>7, <2>1
 <2> QED BY <2>1, <2>2
<1>11. DOMAIN h = {p \in 1 .. universe : p * ApartRank < last}
 <2>1. \A p \in sampled \cup DOMAIN rank1 : p \in 1 .. universe  BY <1>8
 <2> HIDE DEF sampled
 <2> QED BY <1>6, <1>9, <2>1
<1>12. \A p \in DOMAIN h : h[p] = IF p \in DOMAIN rank1 THEN rank1[p] ELSE rank
 <2> HIDE DEF sampled
 <2> QED BY <1>6, <1>10
<1> QED BY <1>11, <1>12 DEF h

LEMMA RankedValueWritten ==
  ASSUME RankedInv, phase = "write", written < n, UNCHANGED <<sequence, phase>>,
         ~(written > 0 /\ sequence.values[written] <= Ranked!Last),
         Ranked!WriteValue(written, sequence.values[written])
  PROVE RankedWritten(RankedReach)'
<1>1. /\ n \in Nat /\ universe \in Nat /\ written \in 0 .. n - 1
      /\ \A i \in 0 .. n - 1 : sequence.values[i] \in Nat /\ sequence.values[i] < universe
  BY SequenceFacts DEF RankedInv, RankedWritten
<1>2. PICK w, v, last : w = written /\ v = sequence.values[w] /\ last = Ranked!Last  OBVIOUS
<1>3. /\ w \in 0 .. n - 1 /\ v \in Nat /\ v < universe /\ last \in Nat
      /\ (w = 0 => last = 0) /\ (w # 0 => last = sequence.values[w - 1] /\ last < v)
 <2>1. w \in 0 .. n - 1 /\ v \in Nat /\ v < universe  BY <1>1, <1>2
 <2>2. CASE w = 0  BY <1>2, <2>1, <2>2 DEF Ranked!Last
 <2>3. CASE w # 0
  <3>1. last = sequence.values[w - 1] /\ w - 1 \in 0 .. n - 1
    BY <1>1, <1>2, <2>1, <2>3 DEF Ranked!Last
  <3>2. last \in Nat /\ ~(v <= last)  BY <1>1, <1>2, <2>1, <2>3, <3>1
  <3> QED BY <2>1, <2>3, <3>1, <3>2
 <2> QED BY <2>2, <2>3
<1>4. /\ RankedWritten(last + 1) /\ RankedReach = last + 1
      /\ Increases(sequence.values, w) /\ bits = Image(sequence.values, 0, w)
      /\ DOMAIN pointers1 = {p \in 1 .. n : p * Apart1 < w}
      /\ \A p \in DOMAIN pointers1 : pointers1[p] = sequence.values[p * Apart1]
      /\ DOMAIN rank1 = {p \in 1 .. universe : p * ApartRank < last + 1}
      /\ \A p \in DOMAIN rank1 :
             rank1[p] \in 0 .. w
             /\ \A i \in 0 .. w - 1 : i < rank1[p] <=> sequence.values[i] < p * ApartRank
 <2>1. RankedReach = last + 1  BY <1>2 DEF RankedReach
 <2> QED BY <1>2, <2>1 DEF RankedInv, RankedWritten
<1>5. written' = w + 1 /\ bits' = bits \cup {v} /\ rank1' = Ranked!SetRank1Samples(last + 1, v + 1, w)
  BY <1>2 DEF Ranked!WriteValue
<1>6. Increases(sequence.values, w + 1)
 <2>1. \A i \in 0 .. w : sequence.values[i] \in Nat  BY <1>1, <1>3
 <2>2. \A i \in 0 .. w - 1 : sequence.values[i] < v
  <3> SUFFICES ASSUME NEW i \in 0 .. w - 1 PROVE sequence.values[i] < v  OBVIOUS
  <3>1. w # 0 /\ w - 1 \in 0 .. w - 1 /\ sequence.values[i] \in Nat  BY <1>3, <2>1
  <3>2. i < w - 1 => sequence.values[i] < last  BY <1>3, <1>4, <3>1 DEF Increases
  <3>3. i = w - 1 \/ i < w - 1  BY <1>3
  <3> QED BY <1>3, <3>1, <3>2, <3>3
 <2>3. ASSUME NEW i \in 0 .. w + 1 - 1, NEW j \in 0 .. w + 1 - 1, i < j
       PROVE sequence.values[i] < sequence.values[j]
  <3>1. CASE j = w  BY <1>2, <1>3, <2>2, <2>3, <3>1
  <3>2. CASE j # w
   <4>1. i \in 0 .. w - 1 /\ j \in 0 .. w - 1  BY <1>3, <2>3, <3>2
   <4> QED BY <1>4, <2>3, <4>1 DEF Increases
  <3> QED BY <3>1, <3>2
 <2> QED BY <1>3, <2>1, <2>3 DEF Increases
<1>7. bits' = Image(sequence.values, 0, w + 1)
 <2>1. \A k : k \in 0 .. w + 1 - 1 <=> k \in 0 .. w - 1 \/ k = w  BY <1>3
 <2> QED BY <1>2, <1>4, <1>5, <2>1 DEF Image
<1>8. /\ DOMAIN pointers1' = {p \in 1 .. n : p * Apart1 < w + 1}
      /\ \A p \in DOMAIN pointers1' : pointers1'[p] = sequence.values[p * Apart1]
 <2>1. Apart1 \in Nat \ {0} /\ 2 ^ LogSampling1 = Apart1
  <3>1. LogSampling1 \in Nat  BY SequencesAssumption DEF Ranked!RankedBitvectorAssumption
  <3>2. Apart1 \in Nat \ {0}  BY <3>1, PowerFacts DEF Apart1
  <3> QED BY <3>2, Zenon DEF Apart1, Power
 <2>4. pointers1' = IF w > 0 /\ w % Apart1 = 0
                    THEN Ranked!Joined(pointers1, [p \in {w \div Apart1} |-> v]) ELSE pointers1
  <3>1. PICK y : y = sequence.values[written] % 2 ^ Ranked!PointerSize  OBVIOUS
  <3>2. pointers1' = IF written > 0 /\ written % Apart1 = 0
                     THEN Ranked!Joined(pointers1, [p \in {written \div Apart1} |-> y]) ELSE pointers1
   <4> DEFINE g == [p \in {written \div 2 ^ LogSampling1} |-> sequence.values[written] % 2 ^ Ranked!PointerSize]
   <4>1. pointers1' = IF written > 0 /\ written % 2 ^ LogSampling1 = 0
                      THEN Ranked!Joined(pointers1, g) ELSE pointers1
     BY DEF Ranked!WriteValue
   <4>2. PICK S : S = {written \div 2 ^ LogSampling1}  OBVIOUS
   <4>3. g = [p \in S |-> y]  BY <3>1, <4>2, Zenon
   <4>4. S = {written \div Apart1} /\ written % 2 ^ LogSampling1 = written % Apart1
     BY <2>1, <4>2, Zenon
   <4> HIDE DEF g
   <4> QED BY <4>1, <4>3, <4>4, Zenon
  <3>3. v % 2 ^ CeilLog2(universe) = v  BY <1>1, <1>3, FieldHolds
  <3>4. Ranked!PointerSize = CeilLog2(universe)  BY RankedNames DEF Ranked!PointerSize
  <3>5. y = v  BY <1>2, <3>1, <3>3, <3>4, Zenon
  <3> QED BY <1>2, <3>2, <3>5
 <2>2. CASE w > 0 /\ w % Apart1 = 0
  <3>1. PICK q, c : q = w \div Apart1 /\ c = Apart1  OBVIOUS
  <3>2. q \in 1 .. n /\ q * Apart1 = w
        /\ {p \in 1 .. n : p * Apart1 < w + 1} = {q} \cup {p \in 1 .. n : p * Apart1 < w}
   <4>1. c \in Nat \ {0} /\ n \in Nat /\ w \in 0 .. n - 1 /\ w > 0 /\ w % c = 0
     BY <1>1, <1>3, <2>1, <2>2, <3>1
   <4>2. /\ w \div c \in 1 .. n /\ (w \div c) * c = w
         /\ {p \in 1 .. n : p * c < w + 1} = {w \div c} \cup {p \in 1 .. n : p * c < w}
     BY <4>1, SampleAdded
   <4> QED BY <3>1, <4>2
  <3>4. PICK f, old : old = [p \in {q} |-> v] /\ f = pointers1  OBVIOUS
  <3>6. pointers1' = Ranked!Joined(f, old)  BY <2>2, <2>4, <3>1, <3>4
  <3>7. /\ DOMAIN Ranked!Joined(f, old) = DOMAIN f \cup DOMAIN old
        /\ \A p \in DOMAIN f : Ranked!Joined(f, old)[p] = f[p]
        /\ \A p \in DOMAIN old : p \notin DOMAIN f => Ranked!Joined(f, old)[p] = old[p]
    BY RankedJoined
  <3>8. DOMAIN old = {q} /\ old[q] = sequence.values[q * Apart1]  BY <1>2, <3>2, <3>4
  <3>9. \A p \in DOMAIN f : f[p] = sequence.values[p * Apart1]  BY <1>4, <3>4
  <3>10. DOMAIN f = {p \in 1 .. n : p * Apart1 < w}  BY <1>4, <3>4
  <3> QED BY <3>2, <3>6, <3>7, <3>8, <3>9, <3>10
 <2>3. CASE ~(w > 0 /\ w % Apart1 = 0)
  <3>1. pointers1' = pointers1  BY <2>3, <2>4
  <3>2. {p \in 1 .. n : p * Apart1 < w + 1} = {p \in 1 .. n : p * Apart1 < w}
    BY <1>1, <1>3, <2>1, <2>3, SampleAdded
  <3> QED BY <1>4, <3>1, <3>2
 <2> QED BY <2>2, <2>3
<1>9. /\ DOMAIN rank1' = {p \in 1 .. universe : p * ApartRank < v + 1}
      /\ \A p \in DOMAIN rank1' : rank1'[p] = IF p \in DOMAIN rank1 THEN rank1[p] ELSE w
 <2>1. PICK first, to : first = last + 1 /\ to = v + 1  OBVIOUS
 <2>2. first \in Nat /\ to \in Nat /\ first <= to /\ to <= universe /\ w \in 0 .. n
   BY <1>1, <1>3, <2>1
 <2>3. Abstract!IsSequence(sequence)  BY DEF RankedInv
 <2>4. DOMAIN rank1 = {p \in 1 .. universe : p * ApartRank < first}  BY <1>4, <2>1
 <2>5. /\ DOMAIN Ranked!SetRank1Samples(first, to, w) = {p \in 1 .. universe : p * ApartRank < to}
       /\ \A p \in DOMAIN Ranked!SetRank1Samples(first, to, w) :
              Ranked!SetRank1Samples(first, to, w)[p] = IF p \in DOMAIN rank1 THEN rank1[p] ELSE w
   BY <2>2, <2>3, <2>4, RankedSampled
 <2> QED BY <1>5, <2>1, <2>5
<1>10. ASSUME NEW p \in DOMAIN rank1'
       PROVE /\ rank1'[p] \in 0 .. w + 1
             /\ \A i \in 0 .. w : i < rank1'[p] <=> sequence.values[i] < p * ApartRank
 <2>1. PICK a : a = p * ApartRank  OBVIOUS
 <2>2. p \in 1 .. universe /\ a \in Nat /\ a < v + 1
  <3>1. p \in 1 .. universe /\ a < v + 1  BY <1>9, <2>1
  <3>2. ApartRank \in Nat
    BY SequencesAssumption, PowerFacts DEF Ranked!RankedBitvectorAssumption, ApartRank
  <3> QED BY <2>1, <3>1, <3>2
 <2>3. \A i \in 0 .. w : i \in 0 .. w - 1 \/ i = w  BY <1>3
 <2>4. CASE p \in DOMAIN rank1
  <3>1. PICK r : r = rank1[p]  OBVIOUS
  <3>2. rank1'[p] = r /\ r \in 0 .. w /\ a < last + 1
        /\ \A i \in 0 .. w - 1 : i < r <=> sequence.values[i] < a
    BY <1>4, <1>9, <2>1, <2>4, <3>1
  <3>3. ~(w < r) /\ ~(v < a)  BY <1>3, <2>2, <3>2
  <3> QED BY <1>2, <1>3, <2>1, <2>3, <3>2, <3>3
 <2>5. CASE p \notin DOMAIN rank1
  <3>1. rank1'[p] = w /\ ~(a < last + 1)  BY <1>4, <1>9, <2>1, <2>2, <2>5
  <3>2. ~(w < w) /\ ~(v < a)  BY <1>3, <2>2
  <3>3. \A i \in 0 .. w - 1 : sequence.values[i] < a
   <4> SUFFICES ASSUME NEW i \in 0 .. w - 1 PROVE sequence.values[i] < a  OBVIOUS
   <4>1. w # 0 /\ w - 1 \in 0 .. w - 1 /\ sequence.values[i] \in Nat /\ last = sequence.values[w - 1]
     BY <1>1, <1>3
   <4>2. i < w - 1 => sequence.values[i] < last  BY <1>4, <4>1 DEF Increases
   <4>3. i = w - 1 \/ i < w - 1  BY <1>3
   <4> QED BY <1>3, <2>2, <3>1, <4>1, <4>2, <4>3
  <3> QED BY <1>2, <1>3, <2>1, <2>3, <3>1, <3>2, <3>3
 <2> QED BY <2>4, <2>5
<1>11. RankedReach' = v + 1
 <2>1. phase' # "read" /\ written' # 0 /\ written' - 1 = w  BY <1>3, <1>5
 <2>2. Ranked!Last' = v  BY <1>2, <2>1 DEF Ranked!Last
 <2> QED BY <2>1, <2>2 DEF RankedReach
<1>12. n' = n /\ universe' = universe /\ sequence' = sequence  BY SameSequence
<1>13. w + 1 \in 0 .. n /\ w + 1 - 1 = w  BY <1>1, <1>3
<1>14. Apart1' = Apart1 /\ ApartRank' = ApartRank  BY DEF Apart1, ApartRank
<1>15. /\ written' \in 0 .. n' /\ Increases(sequence'.values, written')
       /\ bits' = Image(sequence'.values, 0, written')
  BY <1>5, <1>6, <1>7, <1>12, <1>13
<1>16. /\ DOMAIN pointers1' = {p \in 1 .. n' : p * Apart1' < written'}
       /\ \A p \in DOMAIN pointers1' : pointers1'[p] = sequence'.values[p * Apart1']
  BY <1>5, <1>8, <1>12, <1>14
<1>17. /\ DOMAIN rank1' = {p \in 1 .. universe' : p * ApartRank' < RankedReach'}
       /\ \A p \in DOMAIN rank1' :
              rank1'[p] \in 0 .. written'
              /\ \A i \in 0 .. written' - 1 : i < rank1'[p] <=> sequence'.values[i] < p * ApartRank'
 <2>1. written' - 1 = w /\ written' = w + 1  BY <1>3, <1>5
 <2>2. ASSUME NEW p \in DOMAIN rank1'
       PROVE /\ rank1'[p] \in 0 .. written'
             /\ \A i \in 0 .. written' - 1 : i < rank1'[p] <=> sequence'.values[i] < p * ApartRank'
   BY <1>10, <1>12, <1>14, <2>1
 <2> QED BY <1>9, <1>11, <1>12, <1>14, <2>2
<1> QED BY <1>15, <1>16, <1>17 DEF RankedWritten

LEMMA RankedWrites ==
  ASSUME RankedInv, Ranked!Write
  PROVE RankedInv' /\ sequence' = sequence /\ RankedSpot' = RankedSpot /\ call' = call
<1>1. phase = "write" /\ written < n /\ UNCHANGED <<sequence, enum, call>>
  BY RankedNames DEF Ranked!Write
<1>2. /\ Abstract!IsSequence(sequence)'
      /\ n' = n /\ universe' = universe
      /\ enum = [position |-> n, value |-> universe, high |-> [at |-> 0, ones |-> {}]]
  BY <1>1, SameSequence DEF RankedInv
<1>3. CASE written > 0 /\ sequence.values[written] <= Ranked!Last
 <2>1. phase' = "thrown" /\ UNCHANGED <<written, bits, rank1, pointers1>>  BY <1>3 DEF Ranked!Write
 <2>2. ~Ascending
  <3>1. n \in Nat /\ written \in 0 .. n /\ \A i \in 0 .. n - 1 : sequence.values[i] \in Nat
    BY SequenceFacts DEF RankedInv, RankedWritten
  <3>2. PICK w : w = written  OBVIOUS
  <3>3. w \in 1 .. n - 1 /\ w \in 0 .. n - 1 /\ w - 1 \in 0 .. n - 1  BY <1>1, <1>3, <3>1, <3>2
  <3>4. sequence.values[w] <= sequence.values[w - 1]  BY <1>3, <3>2, <3>3 DEF Ranked!Last
  <3>5. sequence.values[w] \in Nat /\ sequence.values[w - 1] \in Nat  BY <3>1, <3>3
  <3> QED BY <3>3, <3>4, <3>5 DEF Ascending
 <2>3. RankedReach' = RankedReach  BY <1>1, <2>1 DEF RankedReach, Ranked!Last
 <2>4. RankedWritten(RankedReach)'
   BY <1>1, <1>2, <2>1, <2>3 DEF RankedInv, RankedWritten, Apart1, ApartRank
 <2>5. ~Ascending'  BY <1>1, <1>2, <2>2 DEF Ascending
 <2> QED BY <1>1, <1>2, <2>1, <2>4, <2>5 DEF RankedInv, RankedSpot
<1>4. CASE ~(written > 0 /\ sequence.values[written] <= Ranked!Last)
 <2>1. Ranked!WriteValue(written, sequence.values[written]) /\ phase' = phase
   BY <1>4 DEF Ranked!Write
 <2>2. RankedWritten(RankedReach)'  BY <1>1, <1>4, <2>1, RankedValueWritten
 <2> QED BY <1>1, <1>2, <2>1, <2>2 DEF RankedInv, RankedSpot
<1> QED BY <1>3, <1>4

LEMMA RankedEnds ==
  ASSUME RankedInv, Ranked!WriteEnd
  PROVE RankedInv' /\ sequence' = sequence /\ RankedSpot' = RankedSpot /\ call' = call
<1>1. /\ phase = "write" /\ written = n /\ phase' = "read"
      /\ rank1' = Ranked!SetRank1Samples(Ranked!Last + 1, universe, n)
      /\ UNCHANGED <<sequence, written, bits, pointers1, enum, call>>
  BY RankedNames DEF Ranked!WriteEnd
<1>2. /\ n \in Nat \ {0} /\ universe \in Nat
      /\ \A i \in 0 .. n - 1 : sequence.values[i] \in Nat /\ sequence.values[i] < universe
  BY SequenceFacts DEF RankedInv
<1>3. /\ Abstract!IsSequence(sequence)' /\ Abstract!IsSequence(sequence) /\ n' = n /\ universe' = universe
      /\ enum = [position |-> n, value |-> universe, high |-> [at |-> 0, ones |-> {}]]
      /\ \A q : ValueAt(q)' = ValueAt(q)
  BY <1>1, SameSequence DEF RankedInv
<1>4. PICK last : last = Ranked!Last  OBVIOUS
<1>5. last \in Nat /\ last + 1 <= universe /\ last = sequence.values[n - 1]
 <2>1. last = sequence.values[n - 1] /\ n - 1 \in 0 .. n - 1  BY <1>1, <1>2, <1>4 DEF Ranked!Last
 <2> QED BY <1>2, <2>1
<1>6. RankedWritten(last + 1)  BY <1>1, <1>4 DEF RankedInv, RankedReach
<1>7. /\ DOMAIN rank1' = {p \in 1 .. universe : p * ApartRank < universe}
      /\ \A p \in DOMAIN rank1' : rank1'[p] = IF p \in DOMAIN rank1 THEN rank1[p] ELSE n
 <2>1. PICK first, to : first = last + 1 /\ to = universe  OBVIOUS
 <2>2. first \in Nat /\ to \in Nat /\ first <= to /\ to <= universe /\ n \in 0 .. n
   BY <1>2, <1>5, <2>1
 <2>3. DOMAIN rank1 = {p \in 1 .. universe : p * ApartRank < first}  BY <1>6, <2>1 DEF RankedWritten
 <2>4. /\ DOMAIN Ranked!SetRank1Samples(first, to, n) = {p \in 1 .. universe : p * ApartRank < to}
       /\ \A p \in DOMAIN Ranked!SetRank1Samples(first, to, n) :
              Ranked!SetRank1Samples(first, to, n)[p] = IF p \in DOMAIN rank1 THEN rank1[p] ELSE n
   BY <1>3, <2>2, <2>3, RankedSampled
 <2> QED BY <1>1, <1>4, <2>1, <2>4
<1>8. ASSUME NEW p \in DOMAIN rank1'
      PROVE /\ rank1'[p] \in 0 .. n
            /\ \A i \in 0 .. n - 1 : i < rank1'[p] <=> sequence.values[i] < p * ApartRank
 <2>1. PICK a : a = p * ApartRank  OBVIOUS
 <2>2. p \in 1 .. universe /\ a \in Nat
  <3>1. p \in 1 .. universe  BY <1>7
  <3>2. ApartRank \in Nat
    BY SequencesAssumption, PowerFacts DEF Ranked!RankedBitvectorAssumption, ApartRank
  <3> QED BY <2>1, <3>1, <3>2
 <2>3. CASE p \in DOMAIN rank1  BY <1>1, <1>6, <1>7, <2>3 DEF RankedWritten
 <2>4. CASE p \notin DOMAIN rank1
  <3>1. rank1'[p] = n /\ ~(a < last + 1)  BY <1>6, <1>7, <2>1, <2>2, <2>4 DEF RankedWritten
  <3>2. \A i \in 0 .. n - 1 : sequence.values[i] < a
   <4> SUFFICES ASSUME NEW i \in 0 .. n - 1 PROVE sequence.values[i] < a  OBVIOUS
   <4>1. n - 1 \in 0 .. n - 1 /\ sequence.values[i] \in Nat  BY <1>2
   <4>2. i < n - 1 => sequence.values[i] < last
     BY <1>1, <1>5, <1>6, <4>1 DEF RankedWritten, Increases
   <4>3. i = n - 1 \/ i < n - 1  BY <1>2
   <4> QED BY <1>5, <2>2, <3>1, <4>1, <4>2, <4>3
  <3> QED BY <1>2, <2>1, <3>1, <3>2
 <2> QED BY <2>3, <2>4
<1>9. RankedReach' = universe  BY <1>1, <1>3 DEF RankedReach
<1>10. RankedWritten(RankedReach)'
  BY <1>1, <1>2, <1>3, <1>6, <1>7, <1>8, <1>9 DEF RankedWritten, Apart1, ApartRank
<1>11. RankedStands(enum, n)'
 <2>1. PICK x : enum = x  OBVIOUS
 <2>2. x = [position |-> n, value |-> universe, high |-> [at |-> 0, ones |-> {}]] /\ enum' = x
   BY <1>1, <1>3, <2>1
 <2>3. ValueAt(n) = universe /\ x.high = [at |-> 0, ones |-> {}] /\ ~(n < n) /\ n \in Nat
   BY <1>2, <2>2 DEF ValueAt
 <2>4. RankedStands(x, n)  BY <1>2, <2>2, <2>3 DEF RankedStands
 <2>5. ValueAt(n)' = ValueAt(n)  BY <1>3 DEF ValueAt
 <2> QED BY <1>1, <1>3, <2>2, <2>4, <2>5 DEF RankedStands
<1>12. RankedSpot' = RankedSpot  BY <1>1, <1>3 DEF RankedSpot
<1> QED BY <1>1, <1>2, <1>3, <1>10, <1>11, <1>12 DEF RankedInv

LEMMA RankedReads ==
  ASSUME RankedInv, Ranked!Move \/ Ranked!NextGeq \/ Ranked!Advance
  PROVE RankedInv' /\ sequence' = sequence /\ Goes(sequence, RankedSpot, RankedSpot')
<1>1. phase = "read" /\ UNCHANGED <<sequence, phase, written, bits, rank1, pointers1>>
  BY DEF Ranked!Move, Ranked!NextGeq, Ranked!Advance, Ranked!Calls
<1>2. PICK x, q : enum = x /\ RankedStands(x, q)  BY <1>1 DEF RankedInv
<1>3. RankedStored /\ RankedSpot = q /\ q \in Nat /\ x.value = ValueAt(q) /\ x.position = q
  BY <1>1, <1>2 DEF RankedInv, RankedReach, RankedStored, RankedSpot, RankedStands
<1>4. Whole!Size(sequence) = n  BY SizeIs DEF n
<1>5. /\ n' = n /\ universe' = universe /\ \A p : ValueAt(p)' = ValueAt(p)
      /\ Abstract!IsSequence(sequence)'
  BY <1>1, <1>3, SameSequence DEF RankedStored
<1>6. ASSUME NEW r, RankedStands(enum', r) PROVE RankedInv' /\ RankedSpot' = r
 <2>1. PICK y : enum' = y /\ RankedStands(y, r)  BY <1>6
 <2>2. RankedStands(enum, r)'  BY <1>1, <1>5, <2>1 DEF RankedStands
 <2>3. Apart1' = Apart1 /\ ApartRank' = ApartRank /\ RankedReach' = RankedReach
   BY <1>1, <1>5 DEF Apart1, ApartRank, RankedReach
 <2>4. RankedWritten(RankedReach)'  BY <1>1, <1>5, <2>3 DEF RankedInv, RankedWritten
 <2>5. RankedSpot' = r  BY <1>1, <2>1 DEF RankedSpot, RankedStands
 <2>6. written' = n' /\ \E p : RankedStands(enum, p)'  BY <1>1, <1>3, <1>5, <2>2 DEF RankedStored
 <2>7. RankedInv'  BY <1>1, <1>5, <2>4, <2>6 DEF RankedInv
 <2> QED BY <2>5, <2>7
<1>7. CASE Ranked!Move
 <2>1. PICK p \in 0 .. n : call' = <<"move", p>> /\ enum' = Ranked!Moved(enum, p)
   BY <1>7, RankedNames DEF Ranked!Move, Ranked!Calls
 <2>2. RankedStands(enum', p)  BY <1>2, <1>3, <2>1, RankedMoved
 <2>3. RankedInv' /\ RankedSpot' = p  BY <1>6, <2>2
 <2> QED BY <1>1, <1>4, <2>1, <2>3 DEF Goes
<1>8. CASE Ranked!NextGeq
 <2>1. PICK bound \in 0 .. universe + Beyond :
          call' = <<"next_geq", bound>> /\ enum' = Ranked!Geq(enum, bound)
   BY <1>8, RankedNames DEF Ranked!NextGeq, Ranked!Calls
 <2>2. bound \in Nat  BY <1>3, BoundIs DEF RankedStored
 <2>3. \/ RankedStands(enum', GeqFrom(q, bound))
       \/ Strays(q, bound) /\ RankedStands(enum', q + 1)
  <3>1. \/ RankedStands(Ranked!Geq(x, bound), GeqFrom(q, bound))
        \/ Strays(q, bound) /\ RankedStands(Ranked!Geq(x, bound), q + 1)
    BY <1>2, <1>3, <2>2, RankedGeq
  <3> QED BY <1>2, <2>1, <3>1
 <2>4. PICK r : RankedStands(enum', r) /\ (r = GeqFrom(q, bound) \/ (Strays(q, bound) /\ r = q + 1))
   BY <2>3
 <2>5. RankedInv' /\ RankedSpot' = r  BY <1>6, <2>4
 <2>6. Goes(sequence, q, r)  BY <2>1, <2>4, GeqGoes
 <2> QED BY <1>1, <1>3, <2>5, <2>6
<1>9. CASE Ranked!Advance
 <2>1. q < n /\ call' = <<"next", 0>> /\ enum' = Ranked!Advanced(enum)
   BY <1>2, <1>3, <1>9, RankedNames DEF Ranked!Advance, Ranked!Calls
 <2>2. RankedStands(enum', q + 1)  BY <1>2, <1>3, <2>1, RankedAdvanced
 <2>3. RankedInv' /\ RankedSpot' = q + 1  BY <1>6, <2>2
 <2> QED BY <1>1, <1>3, <1>4, <2>1, <2>3 DEF Goes
<1> QED BY <1>7, <1>8, <1>9

LEMMA RankedStays ==
  ASSUME RankedInv, UNCHANGED <<sequence, phase, written, bits, rank1, pointers1, enum>>
  PROVE RankedInv' /\ RankedSpot' = RankedSpot
<1>1. /\ n' = n /\ universe' = universe /\ \A p : ValueAt(p)' = ValueAt(p)
      /\ Abstract!IsSequence(sequence)'
  BY SameSequence DEF RankedInv
<1>2. Apart1' = Apart1 /\ ApartRank' = ApartRank /\ RankedReach' = RankedReach /\ Ascending' = Ascending
  BY <1>1 DEF Apart1, ApartRank, RankedReach, Ranked!Last, Ascending
<1>3. RankedWritten(RankedReach)'  BY <1>1, <1>2 DEF RankedInv, RankedWritten
<1>4. phase = "read" => \E q : RankedStands(enum, q)'
 <2> SUFFICES ASSUME phase = "read" PROVE \E q : RankedStands(enum, q)'  OBVIOUS
 <2>1. PICK x, q : enum = x /\ RankedStands(x, q)  BY DEF RankedInv
 <2>2. RankedStands(enum, q)'  BY <1>1, <2>1 DEF RankedStands
 <2> QED BY <2>2
<1>5. RankedSpot' = RankedSpot  BY <1>1 DEF RankedSpot
<1> QED BY <1>1, <1>2, <1>3, <1>4, <1>5 DEF RankedInv

\* What the invariant says of the enumerator and of what is written.
LEMMA RankedShows ==
  ASSUME RankedInv
  PROVE Ranked!View = Whole!At(sequence, RankedSpot)
<1>1. CASE phase = "read"
 <2>1. PICK x, q : enum = x /\ RankedStands(x, q)  BY <1>1 DEF RankedInv
 <2>2. RankedStored /\ RankedSpot = q
   BY <1>1, <2>1 DEF RankedInv, RankedReach, RankedStored, RankedSpot, RankedStands
 <2>3. [position |-> x.position, value |-> x.value, previous |-> Ranked!PrevValue(x)]
         = Whole!At(sequence, q)
   BY <2>1, <2>2, RankedViewIs
 <2> QED BY <1>1, <2>1, <2>2, <2>3 DEF Ranked!View
<1>2. CASE phase # "read"
 <2>1. n \in Nat \ {0} /\ Whole!Size(sequence) = n
  <3>1. n \in Nat \ {0}  BY SequenceFacts DEF RankedInv
  <3> QED BY <3>1, SizeIs DEF n
 <2>2. RankedSpot = n  BY <1>2 DEF RankedSpot
 <2>3. Ranked!View = [position |-> n, value |-> sequence.universe, previous |-> sequence.values[n - 1]]
   BY <1>2, RankedNames DEF Ranked!View, universe
 <2> QED BY <2>1, <2>2, <2>3 DEF Whole!At
<1> QED BY <1>1, <1>2

LEMMA RankedTyped ==
  ASSUME RankedInv
  PROVE Ranked!TypeOK
<1>1. /\ n \in Nat \ {0} /\ universe \in Nat
      /\ \A i \in 0 .. n - 1 : sequence.values[i] \in Nat /\ sequence.values[i] < universe
  BY SequenceFacts DEF RankedInv
<1>2. RankedWritten(RankedReach) /\ RankedReach <= universe /\ RankedReach \in Nat
 <2>1. RankedWritten(RankedReach) /\ written \in 0 .. n  BY DEF RankedInv, RankedWritten
 <2>2. CASE phase = "read"  BY <1>1, <2>1, <2>2 DEF RankedReach
 <2>3. CASE phase # "read" /\ written = 0
  <3>1. 0 \in 0 .. n - 1 /\ RankedReach = 1  BY <1>1, <2>3 DEF RankedReach, Ranked!Last
  <3>2. sequence.values[0] \in Nat /\ sequence.values[0] < universe  BY <1>1, <3>1
  <3> QED BY <1>1, <2>1, <3>1, <3>2
 <2>4. CASE phase # "read" /\ written # 0
  <3>1. PICK w : w = written  OBVIOUS
  <3>2. w - 1 \in 0 .. n - 1 /\ RankedReach = sequence.values[w - 1] + 1
    BY <1>1, <2>1, <2>4, <3>1 DEF RankedReach, Ranked!Last
  <3>3. sequence.values[w - 1] \in Nat /\ sequence.values[w - 1] < universe  BY <1>1, <3>2
  <3> QED BY <1>1, <2>1, <3>2, <3>3
 <2> QED BY <2>2, <2>3, <2>4
<1>3. phase \in {"write", "thrown", "read"} /\ written \in 0 .. n /\ bits \subseteq 0 .. universe - 1
 <2>1. ASSUME NEW b \in bits PROVE b \in 0 .. universe - 1
  <3>1. PICK i \in 0 .. written - 1 : b = sequence.values[i]  BY <1>2, <2>1 DEF RankedWritten, Image
  <3>2. i \in 0 .. n - 1  BY <1>1, <1>2 DEF RankedWritten
  <3> QED BY <1>1, <3>1, <3>2
 <2> QED BY <1>2, <2>1 DEF RankedInv, RankedWritten
<1>4. /\ \A p \in 1 .. universe : p * ApartRank <= universe => p <= universe \div ApartRank
      /\ \A p \in 1 .. n : p * Apart1 <= n => p <= n \div Apart1
 <2>1. ApartRank \in Nat \ {0} /\ Apart1 \in Nat \ {0}
   BY SequencesAssumption, PowerFacts DEF Ranked!RankedBitvectorAssumption, ApartRank, Apart1
 <2>2. ASSUME NEW u \in Nat, NEW c \in Nat \ {0}, NEW p \in 1 .. u, p * c <= u PROVE p <= u \div c
  <3>1. PICK q : q = u \div c  OBVIOUS
  <3>2. q \in Nat /\ u < q * c + c /\ q * c \in Nat /\ (q + 1) * c = q * c + c
    BY <3>1, DivFacts, TimesGrows
  <3>3. p \in Nat /\ q + 1 \in Nat /\ p * c \in Nat /\ (q + 1) * c \in Nat  BY <3>2
  <3>4. p * c < (q + 1) * c
   <4>1. PICK pc \in Nat : pc = p * c  BY <3>3
   <4>2. PICK qc \in Nat : qc = q * c  BY <3>2
   <4> QED BY <2>2, <3>2, <4>1, <4>2
  <3>5. p < q + 1  BY <3>3, <3>4, TimesGrows
  <3> QED BY <3>1, <3>2, <3>5
 <2> QED BY <1>1, <2>1, <2>2
<1>5. DOMAIN rank1 \subseteq 1 .. Ranked!Rank1Samples /\ DOMAIN pointers1 \subseteq 1 .. Ranked!Pointers1
 <2>1. /\ Ranked!Rank1Samples = universe \div ApartRank /\ Ranked!Pointers1 = n \div Apart1
       /\ ApartRank \in Nat \ {0} /\ Apart1 \in Nat \ {0}
  <3>1. ApartRank \in Nat \ {0} /\ Apart1 \in Nat \ {0}
    BY SequencesAssumption, PowerFacts DEF Ranked!RankedBitvectorAssumption, ApartRank, Apart1
  <3>2. Ranked!Rank1Samples = universe \div ApartRank /\ Ranked!Pointers1 = n \div Apart1
    BY RankedNames, Zenon DEF Ranked!Rank1Samples, Ranked!Pointers1, ApartRank, Apart1, Power
  <3> QED BY <3>1, <3>2
 <2>2. universe \div ApartRank \in Nat /\ n \div Apart1 \in Nat  BY <1>1, <2>1, DivFacts
 <2>3. ASSUME NEW p \in DOMAIN rank1 PROVE p \in 1 .. universe \div ApartRank
  <3>1. p \in 1 .. universe /\ p * ApartRank < RankedReach  BY <1>2 DEF RankedWritten
  <3>2. PICK a \in Nat : a = p * ApartRank  BY <2>1, <3>1
  <3>3. p * ApartRank <= universe  BY <1>1, <1>2, <3>1, <3>2
  <3>4. p <= universe \div ApartRank  BY <1>4, <3>1, <3>3
  <3> QED BY <2>2, <3>1, <3>4
 <2>4. ASSUME NEW p \in DOMAIN pointers1 PROVE p \in 1 .. n \div Apart1
  <3>1. p \in 1 .. n /\ p * Apart1 < written  BY <1>2 DEF RankedWritten
  <3>2. PICK a \in Nat : a = p * Apart1  BY <2>1, <3>1
  <3>3. p * Apart1 <= n  BY <1>1, <1>3, <3>1, <3>2
  <3>4. p <= n \div Apart1  BY <1>4, <3>1, <3>3
  <3> QED BY <2>2, <3>1, <3>4
 <2> QED BY <2>1, <2>3, <2>4
<1>6. enum.position \in Nat /\ enum.high.at \in 0 .. universe
 <2>1. CASE phase = "read"
  <3>1. PICK x, q : enum = x /\ RankedStands(x, q)  BY <2>1 DEF RankedInv
  <3>2. x.position = q /\ q \in Nat /\ x.high.at \in 0 .. universe  BY <3>1 DEF RankedStands
  <3> QED BY <1>1, <3>1, <3>2
 <2>2. CASE phase # "read"  BY <1>1, <2>2 DEF RankedInv
 <2> QED BY <2>1, <2>2
<1> QED BY <1>3, <1>5, <1>6, RankedNames DEF Ranked!TypeOK

LEMMA RankedCoded ==
  ASSUME RankedInv
  PROVE Ranked!OnlyIncreasingIsStored /\ Ranked!RanksExact
<1>1. /\ n \in Nat \ {0} /\ universe \in Nat
      /\ \A i \in 0 .. n - 1 : sequence.values[i] \in Nat /\ sequence.values[i] < universe
  BY SequenceFacts DEF RankedInv
<1>2. Ranked!OnlyIncreasingIsStored
 <2>1. phase = "read" => Ascending
  <3> SUFFICES ASSUME phase = "read", NEW i \in 1 .. n - 1 PROVE sequence.values[i - 1] < sequence.values[i]
    BY DEF Ascending
  <3>1. Increases(sequence.values, n)  BY DEF RankedInv, RankedWritten
  <3>2. i - 1 \in 0 .. n - 1 /\ i \in 0 .. n - 1 /\ i - 1 < i  BY <1>1
  <3> QED BY <3>1, <3>2 DEF Increases
 <2>2. Ascending <=> \A i \in 1 .. Ranked!n - 1 : sequence.values[i - 1] < sequence.values[i]
   BY RankedNames DEF Ascending
 <2> QED BY <2>1, <2>2 DEF RankedInv, Ranked!OnlyIncreasingIsStored
<1>3. Ranked!RanksExact
 <2> SUFFICES ASSUME phase = "read", NEW p \in 1 .. Ranked!Rank1Samples,
                     p * 2 ^ LogRank1Sampling < Ranked!universe
              PROVE Ranked!Sample(rank1, p)
                      = Ranked!Cardinality({b \in bits : b < p * 2 ^ LogRank1Sampling})
   BY DEF Ranked!RanksExact
 <2>1. RankedWritten(universe) /\ written = n  BY DEF RankedInv, RankedReach
 <2>2. ApartRank \in Nat \ {0} /\ 2 ^ LogRank1Sampling = ApartRank
  <3>1. LogRank1Sampling \in Nat  BY SequencesAssumption DEF Ranked!RankedBitvectorAssumption
  <3>2. ApartRank \in Nat \ {0}  BY <3>1, PowerFacts DEF ApartRank
  <3> QED BY <3>2, Zenon DEF ApartRank, Power
 <2>3. p \in Nat /\ p # 0
  <3>1. Ranked!Rank1Samples = universe \div ApartRank
    BY <2>2, RankedNames, Zenon DEF Ranked!Rank1Samples
  <3>2. universe \div ApartRank \in Nat  BY <1>1, <2>2, DivFacts
  <3> QED BY <3>1, <3>2
 <2>4. PICK a : a = p * 2 ^ LogRank1Sampling  OBVIOUS
 <2>5. a = p * ApartRank /\ a < universe  BY <2>2, <2>4, RankedNames, Zenon
 <2>6. a \in Nat /\ p <= a  BY <2>2, <2>3, <2>5, TimesGrows
 <2>7. p \in DOMAIN rank1  BY <1>1, <2>1, <2>3, <2>5, <2>6 DEF RankedWritten
 <2>8. Ranked!Sample(rank1, p) = rank1[p]  BY <2>3, <2>7 DEF Ranked!Sample
 <2>9. PICK r : r = rank1[p]  OBVIOUS
 <2>10. r \in 0 .. n /\ \A i \in 0 .. n - 1 : i < r <=> sequence.values[i] < a
   BY <2>1, <2>5, <2>7, <2>9 DEF RankedWritten
 <2>11. Increases(sequence.values, n) /\ bits = Image(sequence.values, 0, n)
   BY <2>1 DEF RankedWritten
 <2>12. Ordered(sequence.values, n)  BY <1>1, <2>11, BelowImage
 <2>13. Below(sequence.values, n, a) = r
  <3>1. n \in Nat /\ a \in Nat /\ r \in 0 .. n  BY <1>1, <2>6, <2>10
  <3> QED BY <2>10, <2>12, <3>1, BelowFacts
 <2>14. {b \in bits : b < a} = Image(sequence.values, 0, r)  BY <1>1, <2>6, <2>11, <2>13, BelowImage
 <2>15. Cardinality(Image(sequence.values, 0, r)) = r
  <3>1. 0 \in 0 .. r /\ n \in Nat  BY <1>1, <2>10
  <3>2. Cardinality(Image(sequence.values, 0, r)) = r - 0  BY <2>10, <2>11, <3>1, ImageFacts
  <3> QED BY <2>10, <3>2
 <2>16. Ranked!Cardinality({b \in bits : b < a}) = r  BY <2>14, <2>15, RankedNames
 <2> QED BY <2>4, <2>8, <2>9, <2>16, Zenon
<1> QED BY <1>2, <1>3

------------------------------
(* EliasFano, also as strict_elias_fano uses it. *)

LEMMA PlainNames ==
  /\ Plain!n = n /\ Plain!universe = universe
  /\ \A S : Plain!Cardinality(S) = Cardinality(S) /\ Plain!Min(S) = Min(S) /\ Plain!Max(S) = Max(S)
  /\ \A x : Plain!CeilLog2(x) = CeilLog2(x) /\ Plain!Msb(x) = Msb(x)
<1>1. \A S : Plain!Cardinality(S) = Cardinality(S) /\ Plain!Min(S) = Min(S) /\ Plain!Max(S) = Max(S)
  BY DEF Plain!Cardinality, Cardinality, Plain!Min, Min, Plain!Max, Max
<1>2. Abstract!Size(sequence) = Cardinality(DOMAIN sequence.values)  BY SizeIs
<1>3. Plain!n = n /\ Plain!universe = universe
  BY <1>1, <1>2 DEF Plain!n, n, Plain!universe, universe
<1>4. \A x : Plain!CeilLog2(x) = CeilLog2(x) /\ Plain!Msb(x) = Msb(x)
  BY DEF Plain!CeilLog2, CeilLog2, Plain!Msb, Msb
<1> QED BY <1>1, <1>3, <1>4

LEMMA PlainScale ==
  ASSUME Abstract!IsSequence(sequence)
  PROVE /\ Scale \in Nat \ {0} /\ 2 ^ Plain!LowerBits = Scale
        /\ \A v : Plain!High(v) = v \div Scale /\ Plain!Low(v) = v % Scale
        /\ Plain!HigherBitsLength = Span /\ Plain!Outside = Span
        /\ Plain!PointerSize = CeilLog2(Span)
        /\ \A i \in 0 .. n - 1 : Plain!HighOf(i) = Places[i]
<1>1. n \in Nat \ {0} /\ universe \in Nat  BY SequenceFacts
<1>2. Plain!LowerBits \in Nat
 <2>1. CASE universe > n
  <3>1. universe \div n \in Nat  BY <1>1, DivFacts
  <3>2. universe \div n > 0
   <4>1. n \div n <= universe \div n  BY <1>1, <2>1, DivMonotone
   <4>2. 1 * n = n /\ (1 * n) \div n = 1  BY <1>1, MultipleFacts
   <4> QED BY <3>1, <4>1, <4>2
  <3>3. Msb(universe \div n) \in Nat  BY <3>1, <3>2, MsbFacts
  <3> QED BY <2>1, <3>3, PlainNames DEF Plain!LowerBits
 <2>2. CASE ~(universe > n)  BY <2>2, PlainNames DEF Plain!LowerBits
 <2> QED BY <2>1, <2>2
<1>3. Scale \in Nat \ {0}  BY <1>2, PowerFacts DEF Scale
<1>4. 2 ^ Plain!LowerBits = Scale  BY Zenon DEF Scale, Power
<1>5. \A v : Plain!High(v) = v \div Scale /\ Plain!Low(v) = v % Scale
  BY <1>4, Zenon DEF Plain!High, Plain!Low
<1>6. Plain!HigherBitsLength = Span  BY <1>5, PlainNames DEF Plain!HigherBitsLength, Span
<1>7. Plain!PointerSize = CeilLog2(Span) /\ Plain!Outside = Span
  BY <1>6, PlainNames DEF Plain!PointerSize, Plain!Outside
<1>8. \A i \in 0 .. n - 1 : Plain!HighOf(i) = Places[i]  BY <1>5 DEF Plain!HighOf, Places, Highs
<1> QED BY <1>3, <1>4, <1>5, <1>6, <1>7, <1>8

LEMMA PlainUnary ==
  ASSUME Abstract!IsSequence(sequence)
  PROVE /\ \A S, k : Plain!Kth(S, k) = NthOr(S, k, Span)
        /\ \A h, k : Plain!Nexts(h, k) = PastK(h, k, Span) /\ Plain!Skip(h, k) = ToKth(h, k, Span)
<1>0. Plain!Outside = Span  BY PlainScale
<1>1. ASSUME NEW S, NEW k PROVE Plain!Kth(S, k) = NthOr(S, k, Span)
  BY <1>0 DEF Plain!Kth, NthOr, Nth, Rank, Plain!Cardinality, Cardinality
<1> QED BY <1>1 DEF Plain!Nexts, PastK, Plain!Skip, ToKth

\* A value is its high and its low bits; the places of ordered values increase, within the unary
\* part.
LEMMA PlacesFacts ==
  ASSUME Abstract!IsSequence(sequence)
  PROVE /\ universe \div Scale \in Nat /\ Span \in Nat /\ Zeros = (universe \div Scale) + 2
        /\ \A i \in 0 .. n - 1 :
               /\ Highs[i] \in Nat /\ Highs[i] <= universe \div Scale /\ Highs[i] = sequence.values[i] \div Scale
               /\ Places[i] = Highs[i] + i + 1 /\ Places[i] \in 1 .. Span - 1
               /\ sequence.values[i] = Highs[i] * Scale + (sequence.values[i] % Scale)
               /\ sequence.values[i] % Scale \in Nat
<1>1. /\ n \in Nat \ {0} /\ universe \in Nat
      /\ \A i \in 0 .. n - 1 : sequence.values[i] \in Nat /\ sequence.values[i] < universe
  BY SequenceFacts
<1>2. Scale \in Nat \ {0}  BY PlainScale
<1>3. PICK u : u = universe \div Scale  OBVIOUS
<1>4. u \in Nat  BY <1>1, <1>2, <1>3, DivFacts
<1>5. Span = n + u + 2 /\ Zeros = u + 2 /\ Span \in Nat  BY <1>1, <1>3, <1>4 DEF Span, Zeros
<1>6. ASSUME NEW i \in 0 .. n - 1
      PROVE /\ Highs[i] \in Nat /\ Highs[i] <= u /\ Highs[i] = sequence.values[i] \div Scale
            /\ Places[i] = Highs[i] + i + 1 /\ Places[i] \in 1 .. Span - 1
            /\ sequence.values[i] = Highs[i] * Scale + (sequence.values[i] % Scale)
            /\ sequence.values[i] % Scale \in Nat
 <2>1. PICK v : v = sequence.values[i]  OBVIOUS
 <2>2. v \in Nat /\ v <= universe  BY <1>1, <2>1
 <2>3. PICK h : h = v \div Scale  OBVIOUS
 <2>4. h \in Nat /\ v = h * Scale + (v % Scale) /\ v % Scale \in Nat  BY <1>2, <2>2, <2>3, DivFacts
 <2>5. h <= u  BY <1>1, <1>2, <1>3, <2>2, <2>3, DivMonotone
 <2>6. Highs[i] = h /\ Places[i] = h + i + 1  BY <2>1, <2>3 DEF Highs, Places
 <2>7. h + i + 1 \in 1 .. Span - 1  BY <1>1, <1>4, <1>5, <2>4, <2>5
 <2> QED BY <2>1, <2>3, <2>4, <2>5, <2>6, <2>7
<1> QED BY <1>3, <1>4, <1>5, <1>6

LEMMA PlacesIncrease ==
  ASSUME Abstract!IsSequence(sequence), NEW w \in 0 .. n, Ordered(sequence.values, w)
  PROVE Ordered(Highs, w) /\ Increases(Places, w)
<1>1. n \in Nat \ {0} /\ Scale \in Nat \ {0}  BY SequenceFacts, PlainScale
<1>2. ASSUME NEW i \in 0 .. w - 1 PROVE i \in 0 .. n - 1 /\ Highs[i] \in Nat /\ Places[i] \in Nat
 <2>1. i \in 0 .. n - 1  BY <1>1
 <2> QED BY <1>1, <2>1, PlacesFacts
<1>3. ASSUME NEW i \in 0 .. w - 1, NEW j \in 0 .. w - 1, i <= j PROVE Highs[i] <= Highs[j]
 <2>1. PICK a, b : a = sequence.values[i] /\ b = sequence.values[j]  OBVIOUS
 <2>2. a <= b /\ a \in Nat /\ b \in Nat  BY <1>3, <2>1 DEF Ordered
 <2>3. Highs[i] = a \div Scale /\ Highs[j] = b \div Scale  BY <1>2, <2>1, PlacesFacts
 <2> QED BY <1>1, <2>2, <2>3, DivMonotone
<1>4. Ordered(Highs, w)  BY <1>2, <1>3 DEF Ordered
<1>5. ASSUME NEW i \in 0 .. w - 1, NEW j \in 0 .. w - 1, i < j PROVE Places[i] < Places[j]
 <2>1. Highs[i] <= Highs[j]  BY <1>3, <1>5
 <2>2. Places[i] = Highs[i] + i + 1 /\ Places[j] = Highs[j] + j + 1  BY <1>2, PlacesFacts
 <2> QED BY <1>2, <1>5, <2>1, <2>2
<1>6. Increases(Places, w)  BY <1>2, <1>5 DEF Increases
<1> QED BY <1>4, <1>6

\* The zeros are those of Gaps: the k-th one has the ones of the values before it whose high bits
\* are below k.
LEMMA GapsFacts ==
  ASSUME Abstract!IsSequence(sequence), Ordered(sequence.values, n)
  PROVE /\ Increases(Gaps, Zeros)
        /\ (0 .. Span - 1) \ Image(Places, 0, n) = Image(Gaps, 0, Zeros)
        /\ \A k \in 0 .. Zeros - 1, i \in 0 .. n - 1 :
               /\ Gaps[k] \in 0 .. Span - 1 /\ Gaps[k] = k + Below(Highs, n, k)
               /\ Below(Highs, n, k) \in 0 .. n
               /\ i < Below(Highs, n, k) <=> Places[i] < Gaps[k]
               /\ Places[i] < Gaps[k] <=> Highs[i] < k
               /\ Places[i] # Gaps[k]
<1>1. n \in Nat \ {0} /\ Span \in Nat /\ Zeros \in Nat /\ Span = n + Zeros
 <2>1. n \in Nat \ {0}  BY SequenceFacts
 <2>2. Zeros \in Nat /\ Span \in Nat  BY PlacesFacts
 <2> QED BY <2>1, <2>2 DEF Zeros
<1>2. Ordered(Highs, n) /\ Increases(Places, n)
 <2>1. n \in 0 .. n  BY <1>1
 <2> QED BY <2>1, PlacesIncrease
<1>3. \A i \in 0 .. n - 1 : Highs[i] \in Nat /\ Places[i] = Highs[i] + i + 1 /\ Highs[i] < Zeros - 1
 <2>1. universe \div Scale \in Nat /\ Zeros = (universe \div Scale) + 2  BY PlacesFacts
 <2>2. \A i \in 0 .. n - 1 : Highs[i] \in Nat /\ Places[i] = Highs[i] + i + 1 /\ Highs[i] <= universe \div Scale
   BY PlacesFacts
 <2>3. PICK u : u = universe \div Scale  OBVIOUS
 <2> QED BY <2>1, <2>2, <2>3
<1>4. ASSUME NEW k \in 0 .. Zeros - 1, NEW i \in 0 .. n - 1
      PROVE /\ Gaps[k] \in 0 .. Span - 1 /\ Gaps[k] = k + Below(Highs, n, k)
            /\ Below(Highs, n, k) \in 0 .. n
            /\ i < Below(Highs, n, k) <=> Places[i] < Gaps[k]
            /\ Places[i] < Gaps[k] <=> Highs[i] < k
            /\ Places[i] # Gaps[k]
 <2>1. PICK r : r = Below(Highs, n, k)  OBVIOUS
 <2>2. k \in Nat /\ n \in Nat  BY <1>1
 <2>3. r \in 0 .. n /\ \A j \in 0 .. n - 1 : j < r <=> Highs[j] < k  BY <1>2, <2>1, <2>2, BelowFacts
 <2>4. Gaps[k] = k + r  BY <2>1 DEF Gaps
 <2>5. PICK h : h = Highs[i]  OBVIOUS
 <2>6. h \in Nat /\ Places[i] = h + i + 1 /\ (i < r <=> h < k)  BY <1>3, <2>3, <2>5
 <2>7. CASE i < r
  <3>1. h + i + 1 < k + r  BY <2>2, <2>3, <2>6, <2>7
  <3> QED BY <1>1, <2>1, <2>2, <2>3, <2>4, <2>5, <2>6, <2>7, <3>1
 <2>8. CASE ~(i < r)
  <3>1. h + i + 1 > k + r  BY <2>2, <2>3, <2>6, <2>8
  <3> QED BY <1>1, <2>1, <2>2, <2>3, <2>4, <2>5, <2>6, <2>8, <3>1
 <2> QED BY <2>7, <2>8
<1>5. ASSUME NEW k \in 0 .. Zeros - 1 PROVE Gaps[k] \in Nat /\ Gaps[k] \in 0 .. Span - 1
 <2>1. 0 \in 0 .. n - 1  BY <1>1
 <2>2. Gaps[k] \in 0 .. Span - 1  BY <1>4, <2>1
 <2> QED BY <1>1, <2>2
<1>6. ASSUME NEW j \in 0 .. Zeros - 1, NEW k \in 0 .. Zeros - 1, j < k PROVE Gaps[j] < Gaps[k]
 <2>1. PICK a, b : a = Below(Highs, n, j) /\ b = Below(Highs, n, k)  OBVIOUS
 <2>2. j \in Nat /\ k \in Nat /\ n \in Nat  BY <1>1
 <2>3. a \in 0 .. n /\ \A i \in 0 .. n - 1 : i < a <=> Highs[i] < j  BY <1>2, <2>1, <2>2, BelowFacts
 <2>4. b \in 0 .. n /\ \A i \in 0 .. n - 1 : i < b <=> Highs[i] < k  BY <1>2, <2>1, <2>2, BelowFacts
 <2>5. a <= b
  <3> SUFFICES ASSUME b < a PROVE FALSE  BY <2>2, <2>3, <2>4
  <3>1. b \in 0 .. n - 1  BY <2>2, <2>3, <2>4
  <3>2. Highs[b] < j /\ ~(Highs[b] < k) /\ Highs[b] \in Nat  BY <1>3, <2>3, <2>4, <3>1
  <3> QED BY <1>6, <2>2, <3>2
 <2>6. Gaps[j] = j + a /\ Gaps[k] = k + b  BY <2>1 DEF Gaps
 <2> QED BY <1>6, <2>2, <2>3, <2>4, <2>5, <2>6
<1>7. Increases(Gaps, Zeros)  BY <1>5, <1>6 DEF Increases
<1>8. ASSUME NEW x \in 0 .. Span - 1, x \notin Image(Places, 0, n) PROVE x \in Image(Gaps, 0, Zeros)
 <2>1. PICK r : r = Below(Places, n, x)  OBVIOUS
 <2>2. x \in Nat /\ n \in Nat /\ Ordered(Places, n)
  <3>1. x \in Nat /\ n \in Nat  BY <1>1
  <3> QED BY <1>2, <3>1, BelowImage
 <2>3. r \in 0 .. n /\ \A i \in 0 .. n - 1 : i < r <=> Places[i] < x  BY <2>1, <2>2, BelowFacts
 <2>4. \A i \in 0 .. n - 1 : Places[i] # x  BY <1>8 DEF Image
 <2>5. PICK k : k = x - r  OBVIOUS
 <2>6. r > 0 => r <= x
  <3> SUFFICES ASSUME r > 0 PROVE r <= x  OBVIOUS
  <3>1. r - 1 \in 0 .. n - 1 /\ r - 1 < r  BY <1>1, <2>3
  <3>2. Places[r - 1] < x /\ Places[r - 1] = Highs[r - 1] + (r - 1) + 1 /\ Highs[r - 1] \in Nat
    BY <1>3, <2>3, <3>1
  <3> QED BY <2>2, <2>3, <3>1, <3>2
 <2>7. k \in Nat /\ x = k + r  BY <2>2, <2>3, <2>5, <2>6
 <2>8. ASSUME NEW i \in 0 .. n - 1 PROVE i < r <=> Highs[i] < k
  <3>1. Places[i] = Highs[i] + i + 1 /\ Highs[i] \in Nat /\ (i < r <=> Places[i] < x) /\ Places[i] # x
    BY <1>3, <2>3, <2>4
  <3>2. CASE i < r
   <4>1. r - 1 \in 0 .. n - 1 /\ i <= r - 1  BY <1>1, <2>3, <3>2
   <4>2. Places[r - 1] < x /\ Places[r - 1] = Highs[r - 1] + (r - 1) + 1 /\ Highs[r - 1] \in Nat
     BY <1>3, <2>3, <4>1
   <4>3. Highs[i] <= Highs[r - 1]  BY <1>2, <4>1 DEF Ordered
   <4> QED BY <2>3, <2>7, <3>1, <3>2, <4>1, <4>2, <4>3
  <3>3. CASE ~(i < r)
   <4>1. r \in 0 .. n - 1 /\ r <= i /\ ~(r < r)  BY <1>1, <2>3, <3>3
   <4>2. ~(Places[r] < x) /\ Places[r] # x /\ Places[r] = Highs[r] + r + 1 /\ Highs[r] \in Nat
     BY <1>3, <2>3, <2>4, <4>1
   <4>3. Highs[r] <= Highs[i]  BY <1>2, <4>1 DEF Ordered
   <4> QED BY <2>3, <2>7, <3>1, <3>3, <4>1, <4>2, <4>3
  <3> QED BY <3>2, <3>3
 <2>9. Below(Highs, n, k) = r  BY <1>2, <2>2, <2>3, <2>7, <2>8, BelowFacts
 <2>10. k < Zeros
  <3>1. CASE r = n  BY <1>1, <2>7, <3>1
  <3>2. CASE r # n
   <4>1. r \in 0 .. n - 1 /\ ~(r < r)  BY <1>1, <2>3, <3>2
   <4>2. ~(Highs[r] < k) /\ Highs[r] < Zeros - 1 /\ Highs[r] \in Nat  BY <1>3, <2>8, <4>1
   <4> QED BY <1>1, <2>7, <4>2
  <3> QED BY <3>1, <3>2
 <2>11. k \in 0 .. Zeros - 1  BY <1>1, <2>7, <2>10
 <2>12. Gaps[k] = x  BY <2>7, <2>9, <2>11 DEF Gaps
 <2> QED BY <2>11, <2>12 DEF Image
<1>9. ASSUME NEW x \in Image(Gaps, 0, Zeros) PROVE x \in (0 .. Span - 1) \ Image(Places, 0, n)
 <2>1. PICK k \in 0 .. Zeros - 1 : x = Gaps[k]  BY DEF Image
 <2>2. x \in 0 .. Span - 1 /\ \A i \in 0 .. n - 1 : Places[i] # x  BY <1>4, <1>5, <2>1
 <2> QED BY <2>2 DEF Image
<1>10. (0 .. Span - 1) \ Image(Places, 0, n) = Image(Gaps, 0, Zeros)  BY <1>8, <1>9
<1> QED BY <1>4, <1>7, <1>10

LEMMA PlainFacts ==
  ASSUME PlainStored
  PROVE /\ n \in Nat \ {0} /\ universe \in Nat /\ Span \in Nat /\ Zeros \in Nat
        /\ Abstract!IsSequence(sequence) /\ Ordered(sequence.values, n)
        /\ Ordered(Highs, n) /\ Increases(Places, n) /\ bits = Image(Places, 0, n)
        /\ \A i \in 0 .. n - 1 :
               /\ sequence.values[i] \in Nat /\ sequence.values[i] < universe
               /\ Highs[i] \in Nat /\ Places[i] \in 1 .. Span - 1 /\ Places[i] = Highs[i] + i + 1
               /\ sequence.values[i] = Highs[i] * Scale + lows[i] /\ lows[i] \in Nat
<1>1. /\ n \in Nat \ {0} /\ universe \in Nat
      /\ \A i \in 0 .. n - 1 : sequence.values[i] \in Nat /\ sequence.values[i] < universe
  BY SequenceFacts DEF PlainStored
<1>2. /\ written = n /\ Abstract!IsSequence(sequence) /\ Ordered(sequence.values, n)
      /\ bits = Image(Places, 0, n) /\ \A i \in 0 .. n - 1 : lows[i] = sequence.values[i] % Scale
  BY DEF PlainStored, PlainWritten
<1>3. Ordered(Highs, n) /\ Increases(Places, n)
 <2>1. n \in 0 .. n  BY <1>1
 <2> QED BY <1>2, <2>1, PlacesIncrease
<1>4. Span \in Nat /\ Zeros \in Nat  BY <1>2, PlacesFacts
<1>5. ASSUME NEW i \in 0 .. n - 1
      PROVE /\ Highs[i] \in Nat /\ Places[i] \in 1 .. Span - 1 /\ Places[i] = Highs[i] + i + 1
            /\ sequence.values[i] = Highs[i] * Scale + lows[i] /\ lows[i] \in Nat
  BY <1>2, PlacesFacts
<1> QED BY <1>1, <1>2, <1>3, <1>4, <1>5

\* read_next, and the scans: the cursor is before the one of position p, and the value of a later
\* position is read.
LEMMA PlainValue ==
  ASSUME PlainStored, NEW p \in 0 .. n, NEW q \in p .. n - 1, NEW h, h.ones = Image(Places, p, n)
  PROVE Plain!ValueAt(h, p, q) = sequence.values[q]
<1>1. n \in Nat /\ Span \in Nat /\ Increases(Places, n) /\ q \in 0 .. n - 1  BY PlainFacts
<1>2. PICK k : k = q - p  OBVIOUS
<1>3. k \in Nat /\ p + k = q /\ p + k < n  BY <1>1, <1>2
<1>4. Plain!Kth(h.ones, k) = Places[q]
 <2>1. NthOr(Image(Places, p, n), k, Span) = Places[p + k]  BY <1>1, <1>3, NthOrIs
 <2> QED BY <1>3, <2>1, PlainUnary DEF PlainStored
<1>5. Plain!ValueAt(h, p, q) = (Places[q] - q - 1) * Scale + lows[q]
 <2>1. 2 ^ Plain!LowerBits = Scale  BY PlainScale DEF PlainStored
 <2>2. Plain!ValueAt(h, p, q) = (Plain!Kth(h.ones, q - p) - q - 1) * 2 ^ Plain!LowerBits + lows[q]
   BY Zenon DEF Plain!ValueAt
 <2> QED BY <1>2, <1>4, <2>1, <2>2, Zenon
<1>6. PICK a : a = Highs[q]  OBVIOUS
<1>7. a \in Nat /\ Places[q] = a + q + 1 /\ sequence.values[q] = a * Scale + lows[q]
  BY <1>1, <1>6, PlainFacts
<1>8. Places[q] - q - 1 = a  BY <1>1, <1>7
<1> QED BY <1>5, <1>7, <1>8

LEMMA PlainRead ==
  ASSUME PlainStored, NEW p \in 0 .. n, NEW q \in p .. n - 1, NEW h, h.ones = Image(Places, p, n),
         NEW k, k = (q - p) + 1
  PROVE PlainStands([position |-> q, value |-> Plain!ValueAt(h, p, q), high |-> Plain!Nexts(h, k)], q)
<1>1. n \in Nat /\ Span \in Nat /\ Increases(Places, n) /\ q \in 0 .. n - 1  BY PlainFacts
<1>2. k \in Nat \ {0} /\ p + k = q + 1 /\ p + k <= n /\ p + k - 1 = q  BY <1>1
<1>3. Plain!Nexts(h, k) = [at |-> Places[q], ones |-> Image(Places, q + 1, n)]
 <2>1. PastK(h, k, Span) = [at |-> Places[p + k - 1], ones |-> Image(Places, p + k, n)]
   BY <1>1, <1>2, PastKIs
 <2> QED BY <1>2, <2>1, PlainUnary DEF PlainStored
<1>4. PICK g : g = Plain!Nexts(h, k)  OBVIOUS
<1>5. PICK v, z : v = sequence.values[q] /\ z = Places[q]  OBVIOUS
<1>6. z \in 0 .. Span /\ ValueAt(q) = v /\ q \in Nat
 <2>1. z \in 1 .. Span - 1  BY <1>1, <1>5, PlainFacts
 <2> QED BY <1>1, <1>5, <2>1 DEF ValueAt
<1>7. Plain!ValueAt(h, p, q) = v  BY <1>5, PlainValue
<1>8. PICK x : x = [position |-> q, value |-> v, high |-> g]  OBVIOUS
<1>9. PICK I : I = Image(Places, q + 1, n)  OBVIOUS
<1>10. g = [at |-> z, ones |-> I] /\ x.high = g  BY <1>3, <1>4, <1>5, <1>8, <1>9
<1>11. PlainStands(x, q)  BY <1>5, <1>6, <1>8, <1>9, <1>10 DEF PlainStands
<1> QED BY <1>4, <1>7, <1>8, <1>11

LEMMA PlainEnd ==
  ASSUME PlainStored, NEW x, NEW q, PlainStands(x, q)
  PROVE PlainStands(Plain!AtEnd(x), n)
<1>1. n \in Nat  BY PlainFacts
<1>2. PICK h : h = x.high  OBVIOUS
<1>3. PICK v : v = ValueAt(q)  OBVIOUS
<1>4. x = [position |-> q, value |-> v, high |-> h] /\ h.at \in 0 .. Span
  BY <1>2, <1>3 DEF PlainStands
<1>5. Plain!AtEnd(x) = [position |-> n, value |-> universe, high |-> h]
 <2>1. Plain!AtEnd(x) = [x EXCEPT !.position = n, !.value = universe]  BY PlainNames DEF Plain!AtEnd
 <2> QED BY <1>4, <2>1
<1>6. PICK y : y = Plain!AtEnd(x)  OBVIOUS
<1>7. y.high = h /\ ValueAt(n) = universe /\ n \in Nat /\ ~(n < n)
  BY <1>1, <1>5, <1>6 DEF ValueAt
<1>8. PlainStands(y, n)  BY <1>4, <1>5, <1>6, <1>7 DEF PlainStands
<1> QED BY <1>6, <1>8

\* move: the short scan, the skip of ones and the jump to a sample lead to position p.
LEMMA PlainJump ==
  ASSUME PlainStored, NEW p \in 0 .. n - 1
  PROVE LET ptr == p \div 2 ^ LogSampling1
            h == Plain!Skip(Plain!From(Plain!Sample(pointers1, ptr)), p - ptr * 2 ^ LogSampling1)
        IN h.ones = Image(Places, p, n)
<1>1. /\ n \in Nat /\ Span \in Nat /\ Increases(Places, n) /\ bits = Image(Places, 0, n)
      /\ \A i \in 0 .. n - 1 : Places[i] \in 1 .. Span - 1
  BY PlainFacts
<1>2. Apart1 \in Nat \ {0} /\ 2 ^ LogSampling1 = Apart1
 <2>1. LogSampling1 \in Nat  BY SequencesAssumption DEF Plain!EliasFanoAssumption
 <2>2. Apart1 \in Nat \ {0}  BY <2>1, PowerFacts DEF Apart1
 <2> QED BY <2>2, Zenon DEF Apart1, Power
<1>3. PICK ptr : ptr = p \div Apart1  OBVIOUS
<1>4. PICK a : a = ptr * Apart1  OBVIOUS
<1>5. ptr \in Nat /\ a \in Nat /\ a <= p /\ ptr <= p /\ p \in Nat
 <2>1. p \in Nat  BY <1>1
 <2>2. Apart1 \in Nat \ {0}  BY <1>2
 <2> QED BY <1>3, <1>4, <2>1, <2>2, DivFacts
<1>6. Plain!From(Plain!Sample(pointers1, ptr)).ones = Image(Places, a, n)
 <2>1. CASE ptr = 0
  <3>1. a = 0 /\ Plain!Sample(pointers1, ptr) = 0  BY <1>2, <1>4, <2>1 DEF Plain!Sample
  <3>2. {b \in bits : b >= 0} = bits
   <4>1. \A b \in bits : b \in Nat  BY <1>1 DEF Image, Increases
   <4> QED BY <4>1
  <3> QED BY <1>1, <3>1, <3>2 DEF Plain!From
 <2>2. CASE ptr # 0
  <3>1. ptr \in DOMAIN pointers1
   <4>1. ptr \in 1 .. n /\ ptr * Apart1 < written  BY <1>1, <1>4, <1>5, <2>2 DEF PlainStored
   <4> QED BY <4>1 DEF PlainStored, PlainWritten
  <3>2. Plain!Sample(pointers1, ptr) = Places[a]
    BY <1>4, <2>2, <3>1 DEF Plain!Sample, PlainStored, PlainWritten
  <3>3. a \in 0 .. n - 1 /\ n \in 0 .. n /\ 0 \in 0 .. n  BY <1>1, <1>5
  <3>4. {b \in Image(Places, 0, n) : b >= Places[a]} = Image(Places, a, n)  BY <1>1, <3>3, ImageRank
  <3> QED BY <1>1, <3>2, <3>4 DEF Plain!From
 <2> QED BY <2>1, <2>2
<1>7. PICK h : h = Plain!From(Plain!Sample(pointers1, ptr))  OBVIOUS
<1>8. PICK k : k = p - a  OBVIOUS
<1>9. k \in Nat /\ a \in 0 .. n /\ a + k < n /\ a + k = p  BY <1>1, <1>5, <1>8
<1>10. ToKth(h, k, Span) = [at |-> Places[a + k], ones |-> Image(Places, a + k, n)]
  BY <1>1, <1>6, <1>7, <1>9, ToKthIs
<1>11. Plain!Skip(h, k).ones = Image(Places, p, n)  BY <1>9, <1>10, PlainUnary DEF PlainStored
<1> QED BY <1>2, <1>3, <1>4, <1>7, <1>8, <1>11

LEMMA PlainMoved ==
  ASSUME PlainStored, NEW x, NEW q, PlainStands(x, q), NEW p \in 0 .. n
  PROVE PlainStands(Plain!Moved(x, p), p)
<1>1. n \in Nat /\ Span \in Nat /\ Increases(Places, n)  BY PlainFacts
<1>2. q \in Nat /\ x.position = q  BY DEF PlainStands
<1>3. CASE p = q  BY <1>2, <1>3 DEF Plain!Moved
<1>4. CASE p = n
 <2>1. PlainStands(Plain!AtEnd(x), n)  BY PlainEnd
 <2>2. CASE p # q  BY <1>2, <1>4, <2>1, <2>2, PlainNames DEF Plain!Moved, Plain!SlowMove
 <2> QED BY <1>3, <2>2
<1>5. CASE p # q /\ p # n
 <2>1. p \in 0 .. n - 1  BY <1>1, <1>5
 <2>2. CASE p > q /\ p - q <= LinearScanThreshold
  <3>1. PICK h, i, k : h = x.high /\ i = q + 1 /\ k = p - q  OBVIOUS
  <3>2. i \in 0 .. n /\ p \in i .. n - 1 /\ k = (p - i) + 1 /\ h.ones = Image(Places, i, n)
    BY <1>1, <1>2, <2>1, <2>2, <3>1 DEF PlainStands
  <3>3. PlainStands([position |-> p, value |-> Plain!ValueAt(h, i, p), high |-> Plain!Nexts(h, k)], p)
    BY <3>2, PlainRead
  <3>4. Plain!Moved(x, p) = [position |-> p, value |-> Plain!ValueAt(h, i, p), high |-> Plain!Nexts(h, k)]
    BY <1>2, <1>5, <2>2, <3>1, PlainNames DEF Plain!Moved
  <3> QED BY <3>3, <3>4
 <2>3. CASE ~(p > q /\ p - q <= LinearScanThreshold)
  <3>1. Plain!Moved(x, p) = Plain!SlowMove(x, p)  BY <1>2, <1>5, <2>3 DEF Plain!Moved
  <3> DEFINE ptr == p \div 2 ^ LogSampling1
             h == IF p > q /\ p - q < 2 ^ LogSampling1 THEN Plain!Skip(x.high, p - q - 1)
                  ELSE Plain!Skip(Plain!From(Plain!Sample(pointers1, ptr)), p - ptr * 2 ^ LogSampling1)
  <3>2. Plain!SlowMove(x, p)
          = [position |-> p, value |-> Plain!ValueAt(h, p, p), high |-> Plain!Nexts(h, 1)]
    BY <1>2, <1>5, PlainNames, Zenon DEF Plain!SlowMove
  <3>3. h.ones = Image(Places, p, n)
   <4>1. CASE p > q /\ p - q < 2 ^ LogSampling1
    <5>1. x.high.ones = Image(Places, q + 1, n)  BY <1>1, <1>2, <2>1, <4>1 DEF PlainStands
    <5>2. PICK k, i, g : k = p - q - 1 /\ i = q + 1 /\ g = x.high  OBVIOUS
    <5>3. k \in Nat /\ i \in 0 .. n /\ i + k < n /\ i + k = p /\ g.ones = Image(Places, i, n)
      BY <1>1, <1>2, <2>1, <4>1, <5>1, <5>2
    <5>4. ToKth(g, k, Span).ones = Image(Places, i + k, n)  BY <1>1, <5>3, ToKthIs
    <5>5. h = Plain!Skip(g, k)  BY <4>1, <5>2, Zenon
    <5> QED BY <5>3, <5>4, <5>5, PlainUnary DEF PlainStored
   <4>2. CASE ~(p > q /\ p - q < 2 ^ LogSampling1)
    <5>1. PICK g : g = Plain!Skip(Plain!From(Plain!Sample(pointers1, ptr)), p - ptr * 2 ^ LogSampling1)
      OBVIOUS
    <5>2. g.ones = Image(Places, p, n)  BY <2>1, <5>1, PlainJump
    <5>3. h = g  BY <4>2, <5>1, Zenon
    <5> QED BY <5>2, <5>3
   <4> QED BY <4>1, <4>2
  <3> HIDE DEF h
  <3>4. PICK one, g : one = (p - p) + 1 /\ g = h  OBVIOUS
  <3>5. one = 1 /\ p \in p .. n - 1 /\ g.ones = Image(Places, p, n)  BY <1>1, <2>1, <3>3, <3>4
  <3>6. PlainStands([position |-> p, value |-> Plain!ValueAt(g, p, p), high |-> Plain!Nexts(g, one)], p)
    BY <3>4, <3>5, PlainRead
  <3> QED BY <3>1, <3>2, <3>4, <3>5, <3>6
 <2> QED BY <2>2, <2>3
<1> QED BY <1>3, <1>4, <1>5

\* next_geq: the scan, from the position p that the cursor is before.
LEMMA PlainScan ==
  ASSUME PlainStored, NEW p \in 0 .. n, NEW h, h.ones = Image(Places, p, n), h.at \in 0 .. Span,
         NEW bound \in Nat, NEW r \in p .. n,
         \A i \in 0 .. n - 1 : i < r <=> sequence.values[i] < bound
  PROVE PlainStands(Plain!Scan(h, p, bound), r)
<1>1. /\ n \in Nat /\ Span \in Nat /\ Increases(Places, n)
      /\ \A i \in 0 .. n - 1 : sequence.values[i] \in Nat /\ Places[i] \in 1 .. Span - 1
  BY PlainFacts
<1> DEFINE found == {k \in p .. n - 1 : Plain!ValueAt(h, p, k) >= bound}
           to == IF found # {} THEN Min(found) ELSE IF p > n THEN p ELSE n
<1>2. found = {k \in p .. n - 1 : k >= r}
 <2>1. ASSUME NEW k \in p .. n - 1 PROVE Plain!ValueAt(h, p, k) >= bound <=> k >= r
  <3>1. k \in 0 .. n - 1 /\ sequence.values[k] \in Nat  BY <1>1
  <3>2. Plain!ValueAt(h, p, k) = sequence.values[k]  BY PlainValue
  <3>3. k >= r <=> ~(k < r)  BY <1>1
  <3> QED BY <3>1, <3>2, <3>3
 <2> QED BY <2>1
<1>3. to = r /\ (found # {} <=> r < n)
 <2>1. CASE r < n
  <3>1. r \in found
   <4>1. r \in p .. n - 1 /\ r >= r  BY <1>1, <2>1
   <4> HIDE DEF found
   <4> QED BY <1>2, <4>1
  <3>2. Min(found) = r
   <4>1. found \subseteq Nat  BY <1>1
   <4>2. Min(found) \in found /\ Min(found) <= r  BY <3>1, <4>1, MinFacts
   <4>3. Min(found) >= r /\ Min(found) \in Nat  BY <1>1, <1>2, <4>2
   <4> HIDE DEF found
   <4> QED BY <4>2, <4>3
  <3> QED BY <2>1, <3>1, <3>2
 <2>2. CASE ~(r < n)
  <3>1. found = {}  BY <1>1, <1>2, <2>2
  <3> QED BY <1>1, <2>2, <3>1
 <2> QED BY <2>1, <2>2
<1>4. Plain!Scan(h, p, bound)
        = [position |-> to,
           value |-> IF found # {} THEN Plain!ValueAt(h, p, to) ELSE universe,
           high |-> Plain!Nexts(h, IF found # {} THEN to - p + 1 ELSE to - p)]
  BY PlainNames, Zenon DEF Plain!Scan
<1> HIDE DEF found, to
<1>5. CASE r < n
 <2>1. PICK k : k = (r - p) + 1  OBVIOUS
 <2>2. r \in p .. n - 1  BY <1>1, <1>5
 <2>3. Plain!Scan(h, p, bound) = [position |-> r, value |-> Plain!ValueAt(h, p, r), high |-> Plain!Nexts(h, k)]
   BY <1>3, <1>4, <1>5, <2>1
 <2>4. PlainStands([position |-> r, value |-> Plain!ValueAt(h, p, r), high |-> Plain!Nexts(h, k)], r)
   BY <2>1, <2>2, PlainRead
 <2> QED BY <2>3, <2>4
<1>6. CASE ~(r < n)
 <2>1. PICK k, g : k = r - p /\ g = Plain!Nexts(h, k)  OBVIOUS
 <2>2. Plain!Scan(h, p, bound) = [position |-> r, value |-> universe, high |-> g]
   BY <1>3, <1>4, <1>6, <2>1
 <2>3. g = PastK(h, k, Span)  BY <2>1, PlainUnary DEF PlainStored
 <2>4. g.at \in 0 .. Span
  <3>1. CASE k = 0  BY <2>3, <3>1 DEF PastK
  <3>2. CASE k # 0
   <4>1. k \in Nat \ {0} /\ p + k <= n /\ p + k - 1 \in 0 .. n - 1  BY <1>1, <2>1, <3>2
   <4>2. PastK(h, k, Span) = [at |-> Places[p + k - 1], ones |-> Image(Places, p + k, n)]
     BY <1>1, <4>1, PastKIs
   <4>3. Places[p + k - 1] \in 1 .. Span - 1  BY <1>1, <4>1
   <4> QED BY <1>1, <2>3, <4>2, <4>3
  <3> QED BY <3>1, <3>2
 <2>5. PICK y : y = [position |-> r, value |-> universe, high |-> g]  OBVIOUS
 <2>6. ValueAt(r) = universe /\ r \in Nat /\ ~(r < n) /\ y.high = g
   BY <1>1, <1>6, <2>5 DEF ValueAt
 <2>7. PlainStands(y, r)  BY <2>4, <2>5, <2>6 DEF PlainStands
 <2> QED BY <2>2, <2>5, <2>7
<1> QED BY <1>5, <1>6

\* The scan from the end, or from behind it: to the position after.
LEMMA PlainStrays ==
  ASSUME PlainStored, NEW x, NEW q, PlainStands(x, q), q >= n, NEW bound
  PROVE PlainStands(Plain!Scan(x.high, q + 1, bound), q + 1)
<1>1. n \in Nat /\ q \in Nat
 <2>1. n \in Nat  BY PlainFacts
 <2> QED BY <2>1 DEF PlainStands
<1>2. PICK h, p : h = x.high /\ p = q + 1  OBVIOUS
<1>3. h.at \in 0 .. Span /\ p \in Nat /\ p > n /\ p >= n /\ ~(p < n) /\ p - p = 0
  BY <1>1, <1>2 DEF PlainStands
<1>4. p .. n - 1 = {}  BY <1>1, <1>3
<1> DEFINE found == {k \in p .. n - 1 : Plain!ValueAt(h, p, k) >= bound}
           to == IF found # {} THEN Min(found) ELSE IF p > n THEN p ELSE n
<1>5. found = {}  BY <1>4
<1>6. to = p  BY <1>3, <1>5
<1>7. Plain!Scan(h, p, bound)
        = [position |-> to,
           value |-> IF found # {} THEN Plain!ValueAt(h, p, to) ELSE universe,
           high |-> Plain!Nexts(h, IF found # {} THEN to - p + 1 ELSE to - p)]
  BY PlainNames, Zenon DEF Plain!Scan
<1> HIDE DEF found, to
<1>8. Plain!Nexts(h, 0) = h  BY DEF Plain!Nexts
<1>9. PICK y : y = Plain!Scan(h, p, bound)  OBVIOUS
<1>10. y = [position |-> p, value |-> universe, high |-> h]  BY <1>3, <1>5, <1>6, <1>7, <1>8, <1>9
<1>11. y.high = h /\ ValueAt(p) = universe  BY <1>3, <1>10 DEF ValueAt
<1>12. PlainStands(y, p)  BY <1>3, <1>10, <1>11 DEF PlainStands
<1> QED BY <1>2, <1>9, <1>12

\* The skips of zeros: to the zero of number k, from a sample or from the one that has been read,
\* which counts as the zero it is behind.
LEMMA PlainSampled ==
  ASSUME PlainStored, NEW k \in 0 .. Zeros - 1
  PROVE LET ptr == k \div 2 ^ LogSampling0
            h == Plain!Skip0(Plain!From(Plain!Sample(pointers0, ptr)), k - ptr * 2 ^ LogSampling0)
        IN h.at = Gaps[k] /\ h.ones = Image(Places, Below(Highs, n, k), n)
<1>1. /\ n \in Nat \ {0} /\ Span \in Nat /\ Zeros \in Nat /\ Increases(Places, n) /\ bits = Image(Places, 0, n)
      /\ Ordered(Highs, n)
      /\ \A i \in 0 .. n - 1 : Places[i] \in 1 .. Span - 1 /\ Highs[i] \in Nat
  BY PlainFacts
<1>2. /\ Increases(Gaps, Zeros)
      /\ (0 .. Span - 1) \ Image(Places, 0, n) = Image(Gaps, 0, Zeros)
      /\ \A z \in 0 .. Zeros - 1, i \in 0 .. n - 1 :
             /\ Gaps[z] \in 0 .. Span - 1 /\ Gaps[z] = z + Below(Highs, n, z)
             /\ Below(Highs, n, z) \in 0 .. n
             /\ i < Below(Highs, n, z) <=> Places[i] < Gaps[z]
             /\ Places[i] < Gaps[z] <=> Highs[i] < z
             /\ Places[i] # Gaps[z]
 <2>1. Abstract!IsSequence(sequence) /\ Ordered(sequence.values, n)  BY PlainFacts
 <2> QED BY <2>1, GapsFacts
<1>3. Apart0 \in Nat \ {0} /\ 2 ^ LogSampling0 = Apart0
 <2>1. LogSampling0 \in Nat  BY SequencesAssumption DEF Plain!EliasFanoAssumption
 <2>2. Apart0 \in Nat \ {0}  BY <2>1, PowerFacts DEF Apart0
 <2> QED BY <2>2, Zenon DEF Apart0, Power
<1>4. PICK ptr : ptr = k \div Apart0  OBVIOUS
<1>5. PICK a : a = ptr * Apart0  OBVIOUS
<1>6. k \in Nat /\ ptr \in Nat /\ a \in Nat /\ a <= k /\ ptr <= a
 <2>1. k \in Nat  BY <1>1
 <2>2. Apart0 \in Nat \ {0}  BY <1>3
 <2>3. ptr \in Nat /\ a \in Nat /\ a <= k  BY <1>4, <1>5, <2>1, <2>2, DivFacts
 <2>4. ptr <= ptr * Apart0  BY <2>2, <2>3, TimesGrows
 <2> QED BY <1>5, <2>1, <2>3, <2>4
<1>7. a \in 0 .. Zeros - 1 /\ 0 \in 0 .. Zeros - 1  BY <1>1, <1>6
<1>8. Plain!Sample(pointers0, ptr) = Gaps[a]
 <2>1. CASE ptr = 0
  <3>1. a = 0 /\ Plain!Sample(pointers0, ptr) = 0  BY <1>3, <1>5, <2>1 DEF Plain!Sample
  <3>2. \A i \in 0 .. n - 1 : i < 0 <=> Highs[i] < 0  BY <1>1
  <3>3. Below(Highs, n, 0) = 0
   <4>1. n \in Nat /\ 0 \in Nat /\ 0 \in 0 .. n  BY <1>1
   <4> QED BY <1>1, <3>2, <4>1, BelowFacts
  <3>4. Gaps[0] = 0 + Below(Highs, n, 0)  BY <1>7 DEF Gaps
  <3> QED BY <3>1, <3>3, <3>4
 <2>2. CASE ptr # 0
  <3>1. ptr \in DOMAIN pointers0
   <4>1. ptr \in 1 .. Span /\ ptr * Apart0 < Zeros
    <5>1. a < Zeros /\ Zeros <= Span  BY <1>1, <1>7 DEF Zeros
    <5> QED BY <1>1, <1>5, <1>6, <2>2, <5>1
   <4> QED BY <4>1 DEF PlainStored, PlainWritten
  <3>2. PICK r \in 0 .. n : pointers0[ptr] = a + r /\ \A i \in 0 .. n - 1 : i < r <=> Highs[i] < a
    BY <1>5, <3>1 DEF PlainStored, PlainWritten
  <3>3. Below(Highs, n, a) = r
   <4>1. n \in Nat  BY <1>1
   <4> QED BY <1>1, <1>6, <3>2, <4>1, BelowFacts
  <3>4. Gaps[a] = a + Below(Highs, n, a)  BY <1>7 DEF Gaps
  <3> QED BY <2>2, <3>1, <3>2, <3>3, <3>4 DEF Plain!Sample
 <2> QED BY <2>1, <2>2
<1>9. PICK at, to : at = Gaps[a] /\ to = Gaps[k]  OBVIOUS
<1>10. 0 \in 0 .. n - 1  BY <1>1
<1>11. at \in 0 .. Span - 1 /\ to \in 0 .. Span - 1 /\ at <= to
 <2>1. at \in 0 .. Span - 1 /\ to \in 0 .. Span - 1  BY <1>2, <1>7, <1>9, <1>10
 <2>2. a < k => at < to  BY <1>2, <1>7, <1>9 DEF Increases
 <2>3. a < k \/ a = k  BY <1>6
 <2> QED BY <1>1, <1>9, <2>1, <2>2, <2>3
<1>12. PICK h : h = Plain!From(Plain!Sample(pointers0, ptr))  OBVIOUS
<1>13. h.at = at /\ h.ones = {b \in bits : b >= at}  BY <1>8, <1>9, <1>12 DEF Plain!From
<1>14. (h.at .. Span - 1) \ h.ones = Image(Gaps, a, Zeros)
 <2>1. {z \in Image(Gaps, 0, Zeros) : z >= at} = Image(Gaps, a, Zeros)
  <3>1. Zeros \in 0 .. Zeros /\ 0 \in 0 .. Zeros  BY <1>1
  <3> QED BY <1>1, <1>2, <1>7, <1>9, <3>1, ImageRank
 <2>2. (at .. Span - 1) \ {b \in bits : b >= at} = {z \in (0 .. Span - 1) \ bits : z >= at}
  <3>1. ASSUME NEW z PROVE z \in at .. Span - 1 <=> z \in 0 .. Span - 1 /\ z >= at  BY <1>1, <1>11
  <3>2. ASSUME NEW z PROVE z \in at .. Span - 1 => z >= at  BY <1>1, <1>11
  <3> QED BY <3>1, <3>2
 <2> QED BY <1>1, <1>2, <1>13, <2>1, <2>2
<1>15. PICK d : d = k - a  OBVIOUS
<1>16. Plain!Skip0(h, d) = [at |-> to, ones |-> {b \in h.ones : b >= to}]
 <2>1. NthOr(Image(Gaps, a, Zeros), d, Span) = to
  <3>1. d \in Nat /\ a + d = k /\ a + d < Zeros /\ a \in 0 .. Zeros  BY <1>1, <1>6, <1>15
  <3> QED BY <1>1, <1>2, <1>9, <3>1, NthOrIs
 <2>2. Plain!HigherBitsLength = Span  BY PlainScale DEF PlainStored
 <2>3. Plain!Kth((h.at .. Plain!HigherBitsLength - 1) \ h.ones, d) = to
   BY <1>14, <2>1, <2>2, PlainUnary DEF PlainStored
 <2> QED BY <2>3 DEF Plain!Skip0
<1>17. {b \in h.ones : b >= to} = Image(Places, Below(Highs, n, k), n)
 <2>1. {b \in h.ones : b >= to} = {b \in Image(Places, 0, n) : b >= to}
  <3>1. \A b \in Image(Places, 0, n) : b >= to => b >= at
   <4> SUFFICES ASSUME NEW b \in Image(Places, 0, n), b >= to PROVE b >= at  OBVIOUS
   <4>1. b \in Nat  BY <1>1 DEF Image
   <4> QED BY <1>11, <4>1
  <3> QED BY <1>1, <1>13, <3>1
 <2>2. Below(Highs, n, k) = Below(Places, n, to)
  <3>1. PICK r : r = Below(Highs, n, k)  OBVIOUS
  <3>2. r \in 0 .. n  BY <1>2, <1>10, <3>1
  <3>3. \A i \in 0 .. n - 1 : i < r <=> Places[i] < to  BY <1>2, <1>9, <3>1
  <3>4. Ordered(Places, n) /\ n \in Nat /\ to \in Nat
   <4>1. n \in Nat /\ to \in Nat  BY <1>1, <1>11
   <4> QED BY <1>1, <4>1, BelowImage
  <3>5. Below(Places, n, to) = r  BY <3>2, <3>3, <3>4, BelowFacts
  <3> QED BY <3>1, <3>5
 <2>3. {b \in Image(Places, 0, n) : b >= to} = Image(Places, Below(Places, n, to), n)
  <3>1. n \in Nat /\ to \in Nat  BY <1>1, <1>11
  <3> QED BY <1>1, <3>1, BelowImage
 <2> QED BY <2>1, <2>2, <2>3
<1>18. PICK g : g = Plain!Skip0(h, d)  OBVIOUS
<1>19. g.at = Gaps[k] /\ g.ones = Image(Places, Below(Highs, n, k), n)  BY <1>9, <1>16, <1>17, <1>18
<1> QED BY <1>3, <1>4, <1>5, <1>12, <1>15, <1>18, <1>19, Zenon

LEMMA PlainAhead ==
  ASSUME PlainStored, NEW q \in 0 .. n - 1, NEW h, h = [at |-> Places[q], ones |-> Image(Places, q + 1, n)],
         NEW k \in 0 .. Zeros - 1, Highs[q] < k, NEW d, d = k - Highs[q]
  PROVE /\ Plain!Skip0(h, d).at = Gaps[k]
        /\ Plain!Skip0(h, d).ones = Image(Places, Below(Highs, n, k), n)
<1>1. /\ n \in Nat \ {0} /\ Span \in Nat /\ Zeros \in Nat /\ Increases(Places, n)
      /\ bits = Image(Places, 0, n) /\ Ordered(Highs, n)
      /\ \A i \in 0 .. n - 1 : Places[i] \in 1 .. Span - 1 /\ Highs[i] \in Nat
  BY PlainFacts
<1>2. /\ Increases(Gaps, Zeros)
      /\ (0 .. Span - 1) \ Image(Places, 0, n) = Image(Gaps, 0, Zeros)
      /\ \A z \in 0 .. Zeros - 1, i \in 0 .. n - 1 :
             /\ Gaps[z] \in 0 .. Span - 1 /\ Gaps[z] = z + Below(Highs, n, z)
             /\ Below(Highs, n, z) \in 0 .. n
             /\ i < Below(Highs, n, z) <=> Places[i] < Gaps[z]
             /\ Places[i] < Gaps[z] <=> Highs[i] < z
             /\ Places[i] # Gaps[z]
 <2>1. Abstract!IsSequence(sequence) /\ Ordered(sequence.values, n)  BY PlainFacts
 <2> QED BY <2>1, GapsFacts
<1>3. PICK a, at, to : a = Highs[q] /\ at = Places[q] /\ to = Gaps[k]  OBVIOUS
<1>4. /\ a \in Nat /\ a < k /\ k \in Nat /\ a \in 0 .. Zeros - 1
      /\ at \in 1 .. Span - 1 /\ to \in 0 .. Span - 1 /\ at < to
 <2>1. a \in Nat /\ a < k /\ k \in Nat /\ at \in 1 .. Span - 1 /\ to \in 0 .. Span - 1
   BY <1>1, <1>2, <1>3
 <2>2. at < to  BY <1>2, <1>3
 <2> QED BY <1>1, <2>1, <2>2
\* The zeros from the one that has been read on, this one in place of the zero
\* of its number.
<1> DEFINE g == [z \in 0 .. Zeros - 1 |-> IF z = a THEN at ELSE Gaps[z]]
<1>5. \A z \in 0 .. Zeros - 1 : Gaps[z] \in 0 .. Span - 1 /\ Gaps[z] # at /\ (at < Gaps[z] <=> a < z)
  BY <1>2, <1>3
<1>6. Increases(g, Zeros)
 <2>1. \A z \in 0 .. Zeros - 1 : g[z] \in Nat  BY <1>1, <1>4, <1>5
 <2>2. ASSUME NEW y \in 0 .. Zeros - 1, NEW z \in 0 .. Zeros - 1, y < z PROVE g[y] < g[z]
  <3>1. Gaps[y] < Gaps[z] /\ Gaps[y] \in 0 .. Span - 1 /\ Gaps[z] \in 0 .. Span - 1
    BY <1>2, <1>5, <2>2 DEF Increases
  <3>2. CASE y = a
   <4>1. at < Gaps[z] /\ z # a  BY <1>4, <1>5, <2>2, <3>2
   <4> QED BY <3>2, <4>1
  <3>3. CASE z = a
   <4>1. ~(at < Gaps[y]) /\ Gaps[y] # at /\ y # a  BY <1>4, <1>5, <2>2, <3>3
   <4>2. Gaps[y] < at  BY <1>1, <1>4, <3>1, <4>1
   <4> QED BY <3>3, <4>1, <4>2
  <3>4. CASE y # a /\ z # a  BY <3>1, <3>4
  <3> QED BY <3>2, <3>3, <3>4
 <2> QED BY <2>1, <2>2 DEF Increases
<1>7. (h.at .. Span - 1) \ h.ones = Image(g, a, Zeros)
 <2>1. h.at = at /\ h.ones = {b \in Image(Places, 0, n) : b > at}
  <3>1. 0 \in 0 .. n /\ n \in 0 .. n /\ n \in Nat  BY <1>1
  <3>2. {b \in Image(Places, 0, n) : b > Places[q]} = Image(Places, q + 1, n)
    BY <1>1, <3>1, ImageRank
  <3> QED BY <1>3, <3>2
 <2>2. at \in Image(Places, 0, n)  BY <1>3 DEF Image
 <2>3. ASSUME NEW x \in (at .. Span - 1) \ {b \in Image(Places, 0, n) : b > at} PROVE x \in Image(g, a, Zeros)
  <3>1. x \in 0 .. Span - 1 /\ x >= at  BY <1>1, <1>4
  <3>2. CASE x = at
   <4>1. a \in a .. Zeros - 1 /\ g[a] = at  BY <1>1, <1>4
   <4> HIDE DEF g
   <4> QED BY <3>2, <4>1 DEF Image
  <3>3. CASE x # at
   <4>1. x > at /\ x \notin Image(Places, 0, n)  BY <1>1, <1>4, <2>3, <3>1, <3>3
   <4>2. x \in Image(Gaps, 0, Zeros)  BY <1>2, <3>1, <4>1
   <4>3. PICK z \in 0 .. Zeros - 1 : x = Gaps[z]  BY <4>2 DEF Image
   <4>4. a < z  BY <1>4, <1>5, <3>1, <4>1, <4>3
   <4>5. z \in a .. Zeros - 1 /\ g[z] = x  BY <1>1, <1>4, <4>3, <4>4
   <4> HIDE DEF g
   <4> QED BY <4>5 DEF Image
  <3> QED BY <3>2, <3>3
 <2>4. ASSUME NEW x \in Image(g, a, Zeros) PROVE x \in (at .. Span - 1) \ {b \in Image(Places, 0, n) : b > at}
  <3>1. PICK z \in a .. Zeros - 1 : x = g[z]  BY DEF Image
  <3>2. CASE z = a
   <4>1. x = at  BY <1>4, <3>1, <3>2
   <4> QED BY <1>1, <1>4, <4>1
  <3>3. CASE z # a
   <4>1. z \in 0 .. Zeros - 1 /\ a < z /\ x = Gaps[z]  BY <1>1, <1>4, <3>1, <3>3
   <4>2. x \in 0 .. Span - 1 /\ at < x  BY <1>5, <4>1
   <4>3. x \in Image(Gaps, 0, Zeros)  BY <4>1 DEF Image
   <4>4. x \notin Image(Places, 0, n)  BY <1>2, <4>3
   <4> QED BY <1>1, <1>4, <4>2, <4>4
  <3> QED BY <3>2, <3>3
 <2> QED BY <2>1, <2>3, <2>4
<1>8. g[k] = to  BY <1>3, <1>4
<1>9. Plain!Skip0(h, d) = [at |-> to, ones |-> {b \in h.ones : b >= to}]
 <2> HIDE DEF g
 <2>1. NthOr(Image(g, a, Zeros), d, Span) = to
  <3>1. d \in Nat /\ a + d = k /\ a + d < Zeros /\ a \in 0 .. Zeros  BY <1>1, <1>3, <1>4
  <3> QED BY <1>1, <1>6, <1>8, <3>1, NthOrIs
 <2>2. Plain!HigherBitsLength = Span  BY PlainScale DEF PlainStored
 <2>3. Plain!Kth((h.at .. Plain!HigherBitsLength - 1) \ h.ones, d) = to
   BY <1>7, <2>1, <2>2, PlainUnary DEF PlainStored
 <2> QED BY <2>3 DEF Plain!Skip0
<1>10. {b \in h.ones : b >= to} = Image(Places, Below(Highs, n, k), n)
 <2>1. PICK r : r = Below(Highs, n, k)  OBVIOUS
 <2>2. r \in 0 .. n /\ \A i \in 0 .. n - 1 : i < r <=> Places[i] < to  BY <1>1, <1>2, <1>3, <2>1
 <2>3. q < r  BY <1>3, <1>4, <2>2
 <2>4. ASSUME NEW b \in Image(Places, q + 1, n), b >= to PROVE b \in Image(Places, r, n)
  <3>1. PICK i \in q + 1 .. n - 1 : b = Places[i]  BY DEF Image
  <3>2. i \in 0 .. n - 1 /\ Places[i] \in 1 .. Span - 1  BY <1>1
  <3>3. ~(i < r)  BY <1>1, <1>4, <2>2, <2>4, <3>1, <3>2
  <3>4. i \in r .. n - 1  BY <1>1, <2>2, <3>2, <3>3
  <3> QED BY <3>1, <3>4 DEF Image
 <2>5. ASSUME NEW b \in Image(Places, r, n) PROVE b \in Image(Places, q + 1, n) /\ b >= to
  <3>1. PICK i \in r .. n - 1 : b = Places[i]  BY DEF Image
  <3>2. i \in 0 .. n - 1 /\ i \in q + 1 .. n - 1 /\ ~(i < r)  BY <1>1, <2>2, <2>3
  <3>3. Places[i] \in 1 .. Span - 1 /\ ~(Places[i] < to)  BY <1>1, <2>2, <3>2
  <3>4. b >= to  BY <1>1, <1>4, <3>1, <3>3
  <3> QED BY <3>1, <3>2, <3>4 DEF Image
 <2> QED BY <2>1, <2>4, <2>5
<1>11. PICK y : y = Plain!Skip0(h, d)  OBVIOUS
<1>12. y.at = Gaps[k] /\ y.ones = Image(Places, Below(Highs, n, k), n)  BY <1>3, <1>9, <1>10, <1>11
<1> QED BY <1>11, <1>12

\* The values before the zero of a bound's high bits are below the bound.
LEMMA PlainHigh ==
  ASSUME PlainStored, NEW bound \in Nat, bound < universe, NEW high, high = bound \div Scale
  PROVE /\ high \in 0 .. Zeros - 1
        /\ Below(Highs, n, high) \in 0 .. n
        /\ Below(Highs, n, high) <= Below(sequence.values, n, bound)
        /\ \A i \in 0 .. n - 1 : sequence.values[i] < bound => Highs[i] <= high
<1>1. /\ n \in Nat \ {0} /\ universe \in Nat /\ Zeros \in Nat /\ Ordered(Highs, n) /\ Ordered(sequence.values, n)
      /\ \A i \in 0 .. n - 1 : sequence.values[i] \in Nat /\ Highs[i] \in Nat
  BY PlainFacts
<1>2. Scale \in Nat \ {0}  BY PlainScale DEF PlainStored
<1>3. \A i \in 0 .. n - 1 : Highs[i] = sequence.values[i] \div Scale  BY DEF Highs
<1>4. high \in Nat /\ high <= universe \div Scale
 <2>1. high \in Nat  BY <1>2, DivFacts
 <2>2. bound <= universe  BY <1>1
 <2> QED BY <1>1, <1>2, <2>1, <2>2, DivMonotone
<1>5. high \in 0 .. Zeros - 1
 <2>1. PICK u : u = universe \div Scale  OBVIOUS
 <2>2. u \in Nat /\ Zeros = u + 2  BY <2>1, PlacesFacts DEF PlainStored
 <2> QED BY <1>4, <2>1, <2>2
<1>6. PICK r, s : r = Below(Highs, n, high) /\ s = Below(sequence.values, n, bound)  OBVIOUS
<1>7. r \in 0 .. n /\ \A i \in 0 .. n - 1 : i < r <=> Highs[i] < high
 <2>1. n \in Nat  BY <1>1
 <2> QED BY <1>1, <1>4, <1>6, <2>1, BelowFacts
<1>8. s \in 0 .. n /\ \A i \in 0 .. n - 1 : i < s <=> sequence.values[i] < bound
 <2>1. n \in Nat  BY <1>1
 <2> QED BY <1>1, <1>6, <2>1, BelowFacts
<1>9. r <= s
 <2> SUFFICES ASSUME s < r PROVE FALSE  BY <1>1, <1>7, <1>8
 <2>1. s \in 0 .. n - 1  BY <1>1, <1>7, <1>8
 <2>2. PICK v : v = sequence.values[s]  OBVIOUS
 <2>3. v \in Nat /\ bound <= v /\ Highs[s] < high /\ Highs[s] = v \div Scale
   BY <1>1, <1>3, <1>7, <1>8, <2>1, <2>2
 <2>4. bound \div Scale <= v \div Scale  BY <1>2, <2>3, DivMonotone
 <2>5. Highs[s] \in Nat  BY <1>1, <2>1
 <2> QED BY <1>4, <2>3, <2>4, <2>5
<1>10. ASSUME NEW i \in 0 .. n - 1, sequence.values[i] < bound PROVE Highs[i] <= high
 <2>1. PICK v : v = sequence.values[i]  OBVIOUS
 <2>2. v \in Nat /\ v <= bound /\ Highs[i] = v \div Scale  BY <1>1, <1>3, <1>10, <2>1
 <2> QED BY <1>2, <2>2, DivMonotone
<1> QED BY <1>5, <1>6, <1>7, <1>9, <1>10

\* Where next_geq leads from position q: it stays if the value there is the bound.
LEMMA PlainSlowGeq ==
  ASSUME PlainStored, NEW x, NEW q, PlainStands(x, q), NEW bound \in Nat,
         bound # x.value,
         ~(bound > x.value /\ Plain!High(bound) - Plain!High(x.value) <= LinearScanThreshold)
  PROVE PlainStands(Plain!SlowNextGeq(x, bound), Whole!FirstGeq(sequence, bound))
<1>1. /\ n \in Nat \ {0} /\ universe \in Nat /\ Zeros \in Nat /\ Ordered(sequence.values, n) /\ bound \in Nat
      /\ \A i \in 0 .. n - 1 : sequence.values[i] \in Nat /\ sequence.values[i] < universe /\ Highs[i] \in Nat
  BY PlainFacts
<1>2. PICK r : r = Whole!FirstGeq(sequence, bound)  OBVIOUS
<1>3. /\ r \in 0 .. n /\ r = Below(sequence.values, n, bound)
      /\ \A i \in 0 .. n - 1 : i < r <=> sequence.values[i] < bound
  BY <1>1, <1>2, FirstGeqBelow DEF PlainStored
<1>4. x.position = q /\ q \in Nat /\ x.value = ValueAt(q) /\ ValueAt(q) \in Nat
      /\ (q < n => ValueAt(q) = sequence.values[q]) /\ (q >= n => ValueAt(q) = universe)
 <2>1. x.position = q /\ q \in Nat /\ x.value = ValueAt(q)  BY DEF PlainStands
 <2> QED BY <1>1, <2>1 DEF ValueAt
<1>5. CASE bound >= universe
 <2>1. Plain!SlowNextGeq(x, bound) = Plain!Moved(x, n)
   BY <1>5, PlainNames, Zenon DEF Plain!SlowNextGeq
 <2>2. r = n
  <3>1. ~(r < n)  BY <1>1, <1>3, <1>5
  <3> QED BY <1>1, <1>3, <3>1
 <2>3. n \in 0 .. n  BY <1>1
 <2>4. PlainStands(Plain!Moved(x, n), n)  BY <2>3, PlainMoved
 <2> QED BY <1>2, <2>1, <2>2, <2>4
<1>6. CASE ~(bound >= universe)
 <2> DEFINE high == Plain!High(bound)
            ahead == bound > x.value /\ high - Plain!High(x.value) < 2 ^ LogSampling0
            ptr == high \div 2 ^ LogSampling0
            h == IF ahead THEN Plain!Skip0(x.high, high - Plain!High(x.value))
                 ELSE Plain!Skip0(Plain!From(Plain!Sample(pointers0, ptr)), high - ptr * 2 ^ LogSampling0)
 <2>1. Plain!SlowNextGeq(x, bound) = Plain!Scan(h, h.at - high, bound)
   BY <1>6, PlainNames, Zenon DEF Plain!SlowNextGeq
 <2>2. PICK k : k = bound \div Scale  OBVIOUS
 <2>3. high = k  BY <2>2, PlainScale DEF PlainStored
 <2>4. bound < universe  BY <1>1, <1>6
 <2>5. PICK b : b = Below(Highs, n, k)  OBVIOUS
 <2>6. /\ k \in 0 .. Zeros - 1 /\ b \in 0 .. n /\ b <= r
       /\ \A i \in 0 .. n - 1 : sequence.values[i] < bound => Highs[i] <= k
   BY <1>1, <1>3, <2>2, <2>4, <2>5, PlainHigh
 <2>7. h.at = Gaps[k] /\ h.ones = Image(Places, b, n)
  <3>1. CASE ahead
   <4>1. q \in 0 .. n - 1 /\ x.value = sequence.values[q]
    <5>1. ~(q >= n)  BY <1>1, <1>4, <2>4, <3>1
    <5> QED BY <1>1, <1>4, <5>1
   <4>2. Plain!High(x.value) = Highs[q]
    <5>1. Plain!High(x.value) = x.value \div Scale  BY PlainScale DEF PlainStored
    <5> QED BY <4>1, <5>1 DEF Highs
   <4>3. PICK a : a = Highs[q]  OBVIOUS
   <4>4. a \in Nat /\ a <= k /\ k \in Nat  BY <1>1, <2>6, <3>1, <4>1, <4>3
   <4>5. a < k
    <5>1. LinearScanThreshold \in Nat \ {0}  BY SequencesAssumption DEF Plain!EliasFanoAssumption
    <5>2. ~(k - a <= LinearScanThreshold)  BY <2>3, <3>1, <4>2, <4>3
    <5> QED BY <4>4, <5>1, <5>2
   <4>6. PICK g, d : g = x.high /\ d = k - a  OBVIOUS
   <4>7. g = [at |-> Places[q], ones |-> Image(Places, q + 1, n)]
     BY <1>1, <4>1, <4>6 DEF PlainStands
   <4>8. Plain!Skip0(g, d).at = Gaps[k] /\ Plain!Skip0(g, d).ones = Image(Places, Below(Highs, n, k), n)
     BY <2>6, <4>1, <4>3, <4>5, <4>6, <4>7, PlainAhead
   <4>9. h = Plain!Skip0(g, d)  BY <2>3, <3>1, <4>2, <4>3, <4>6, Zenon
   <4> QED BY <2>5, <4>8, <4>9
  <3>2. CASE ~ahead
   <4>1. PICK g : g = Plain!Skip0(Plain!From(Plain!Sample(pointers0, k \div 2 ^ LogSampling0)),
                                  k - (k \div 2 ^ LogSampling0) * 2 ^ LogSampling0)
     OBVIOUS
   <4>2. g.at = Gaps[k] /\ g.ones = Image(Places, Below(Highs, n, k), n)
     BY <2>6, <4>1, PlainSampled
   <4>3. h = g  BY <2>3, <3>2, <4>1, Zenon
   <4> QED BY <2>5, <4>2, <4>3
  <3> QED BY <3>1, <3>2
 <2> HIDE DEF h, high
 <2>8. Gaps[k] = k + b /\ Gaps[k] \in 0 .. Span
  <3>1. Gaps[k] \in 0 .. Span - 1 /\ Gaps[k] = k + Below(Highs, n, k)
   <4>1. Abstract!IsSequence(sequence) /\ Ordered(sequence.values, n) /\ 0 \in 0 .. n - 1
     BY <1>1, PlainFacts
   <4> QED BY <2>6, <4>1, GapsFacts
  <3>2. Span \in Nat  BY PlainFacts
  <3> QED BY <2>5, <3>1, <3>2
 <2>9. PICK g, p : g = h /\ p = h.at - high  OBVIOUS
 <2>10. p = b  BY <2>3, <2>6, <2>7, <2>8, <2>9
 <2>11. g.ones = Image(Places, b, n) /\ g.at \in 0 .. Span /\ r \in b .. n
   BY <1>1, <1>3, <2>6, <2>7, <2>8, <2>9
 <2>12. PlainStands(Plain!Scan(g, b, bound), r)  BY <1>1, <1>3, <2>6, <2>11, PlainScan
 <2> QED BY <1>2, <2>1, <2>9, <2>10, <2>12
<1> QED BY <1>5, <1>6

LEMMA PlainGeq ==
  ASSUME PlainStored, NEW x, NEW q, PlainStands(x, q), NEW bound \in Nat
  PROVE \/ PlainStands(Plain!Geq(x, bound), GeqFrom(q, bound))
        \/ Strays(q, bound) /\ PlainStands(Plain!Geq(x, bound), q + 1)
<1>1. /\ n \in Nat \ {0} /\ universe \in Nat /\ Ordered(sequence.values, n) /\ bound \in Nat
      /\ \A i \in 0 .. n - 1 : sequence.values[i] \in Nat /\ sequence.values[i] < universe
  BY PlainFacts
<1>2. PICK r : r = Whole!FirstGeq(sequence, bound)  OBVIOUS
<1>3. /\ r \in 0 .. n
      /\ \A i \in 0 .. n - 1 : i < r <=> sequence.values[i] < bound
  BY <1>1, <1>2, FirstGeqBelow DEF PlainStored
<1>4. x.position = q /\ q \in Nat /\ x.value = ValueAt(q)
      /\ (q < n => ValueAt(q) = sequence.values[q]) /\ (q >= n => ValueAt(q) = universe)
 <2>1. x.position = q /\ q \in Nat /\ x.value = ValueAt(q)  BY DEF PlainStands
 <2> QED BY <1>1, <2>1 DEF ValueAt
<1>5. CASE bound = x.value
 <2>1. Plain!Geq(x, bound) = x /\ GeqFrom(q, bound) = q  BY <1>4, <1>5 DEF Plain!Geq, GeqFrom
 <2> QED BY <2>1
<1> DEFINE near == bound > x.value /\ Plain!High(bound) - Plain!High(x.value) <= LinearScanThreshold
<1>7. CASE bound # x.value /\ near /\ q >= n
 <2>1. Plain!Geq(x, bound) = Plain!Scan(x.high, q + 1, bound)
   BY <1>4, <1>7, Zenon DEF Plain!Geq
 <2>2. Strays(q, bound)  BY <1>4, <1>7 DEF Strays
 <2>3. PlainStands(Plain!Scan(x.high, q + 1, bound), q + 1)  BY <1>7, PlainStrays
 <2> QED BY <2>1, <2>2, <2>3
<1>6. CASE bound # x.value /\ ~(near /\ q >= n)
 <2>1. GeqFrom(q, bound) = r  BY <1>2, <1>4, <1>6 DEF GeqFrom
 <2> SUFFICES PlainStands(Plain!Geq(x, bound), r)  BY <2>1
 <2>2. CASE bound > x.value /\ Plain!High(bound) - Plain!High(x.value) <= LinearScanThreshold
  <3>1. Plain!Geq(x, bound) = Plain!Scan(x.high, x.position + 1, bound)
    BY <1>6, <2>2, Zenon DEF Plain!Geq
  <3>2. q \in 0 .. n - 1  BY <1>1, <1>4, <1>6, <2>2
  <3>3. q < r  BY <1>1, <1>3, <1>4, <2>2, <3>2
  <3>4. PICK p, h : p = q + 1 /\ h = x.high  OBVIOUS
  <3>5. p \in 0 .. n /\ h.ones = Image(Places, p, n) /\ h.at \in 0 .. Span /\ r \in p .. n
    BY <1>1, <1>3, <3>2, <3>3, <3>4 DEF PlainStands
  <3>6. PlainStands(Plain!Scan(h, p, bound), r)  BY <1>1, <1>3, <3>5, PlainScan
  <3> QED BY <1>4, <2>1, <3>1, <3>4, <3>6
 <2>3. CASE ~(bound > x.value /\ Plain!High(bound) - Plain!High(x.value) <= LinearScanThreshold)
  <3>1. Plain!Geq(x, bound) = Plain!SlowNextGeq(x, bound)  BY <1>6, <2>3, Zenon DEF Plain!Geq
  <3>2. PlainStands(Plain!SlowNextGeq(x, bound), Whole!FirstGeq(sequence, bound))
    BY <1>6, <2>3, PlainSlowGeq
  <3> QED BY <1>2, <3>1, <3>2
 <2> QED BY <2>2, <2>3
<1> QED BY <1>5, <1>6, <1>7

LEMMA PlainAdvanced ==
  ASSUME PlainStored, NEW x, NEW q, PlainStands(x, q), q < n
  PROVE PlainStands(Plain!Advanced(x), q + 1)
<1>1. n \in Nat /\ q \in 0 .. n - 1
 <2>1. n \in Nat \ {0}  BY PlainFacts
 <2> QED BY <2>1 DEF PlainStands
<1>2. PICK h, p, v : h = x.high /\ p = q + 1 /\ v = ValueAt(q)  OBVIOUS
<1>3. x = [position |-> q, value |-> v, high |-> h] /\ h.at \in 0 .. Span
      /\ h.ones = Image(Places, p, n)
  BY <1>2 DEF PlainStands
<1>4. CASE p < n
 <2>1. PICK one : one = (p - p) + 1  OBVIOUS
 <2>2. one = 1 /\ p \in 0 .. n /\ p \in p .. n - 1  BY <1>1, <1>2, <1>4, <2>1
 <2>3. Plain!Advanced(x) = [position |-> p, value |-> Plain!ValueAt(h, p, p), high |-> Plain!Nexts(h, one)]
   BY <1>2, <1>3, <1>4, <2>2, PlainNames DEF Plain!Advanced
 <2>4. PlainStands([position |-> p, value |-> Plain!ValueAt(h, p, p), high |-> Plain!Nexts(h, one)], p)
   BY <1>3, <2>1, <2>2, PlainRead
 <2> QED BY <1>2, <2>3, <2>4
<1>5. CASE ~(p < n)
 <2>1. PICK y : y = Plain!Advanced(x)  OBVIOUS
 <2>2. p = n /\ ~(p < n) /\ p \in Nat  BY <1>1, <1>2, <1>5
 <2>3. y = [x EXCEPT !.position = p, !.value = universe]
   BY <1>2, <1>3, <1>5, <2>1, PlainNames DEF Plain!Advanced
 <2>4. y = [position |-> p, value |-> universe, high |-> h]  BY <1>3, <2>3
 <2>5. y.high = h /\ ValueAt(p) = universe  BY <2>2, <2>4 DEF ValueAt
 <2>6. PlainStands(y, p)  BY <1>3, <2>2, <2>4, <2>5 DEF PlainStands
 <2> QED BY <1>2, <2>1, <2>6
<1> QED BY <1>4, <1>5

\* prev_value: that of the last one before the one the cursor has read.
LEMMA PlainPrevious ==
  ASSUME PlainStored, NEW x, NEW q \in 0 .. n, PlainStands(x, q)
  PROVE Plain!PrevValue(x) = IF q = 0 THEN 0 ELSE sequence.values[q - 1]
<1>1. n \in Nat \ {0} /\ Span \in Nat /\ Increases(Places, n) /\ bits = Image(Places, 0, n)
  BY PlainFacts
<1>2. q \in 0 .. n /\ x.position = q  BY DEF PlainStands
<1> DEFINE below == {b \in bits : q >= n \/ b < x.high.at}
           p == q - 1
<1>3. Plain!PrevValue(x) = IF q = 0 THEN 0 ELSE IF below = {} THEN Plain!Outside
                           ELSE (Max(below) - p - 1) * Scale + lows[p]
 <2>1. 2 ^ Plain!LowerBits = Scale  BY PlainScale DEF PlainStored
 <2>2. Plain!PrevValue(x) = IF q = 0 THEN 0 ELSE IF below = {} THEN Plain!Outside
                            ELSE (Max(below) - p - 1) * 2 ^ Plain!LowerBits + lows[p]
   BY <1>2, PlainNames, Zenon DEF Plain!PrevValue
 <2> HIDE DEF below, p
 <2> QED BY <2>1, <2>2, Zenon
<1>4. q # 0 => below = Image(Places, 0, q)
 <2>1. CASE q >= n
  <3>1. q = n  BY <1>1, <1>2, <2>1
  <3> QED BY <1>1, <2>1, <3>1
 <2>2. CASE ~(q >= n)
  <3>1. q \in 0 .. n - 1 /\ 0 \in 0 .. n /\ n \in 0 .. n  BY <1>1, <1>2, <2>2
  <3>2. x.high.at = Places[q]  BY <3>1 DEF PlainStands
  <3>3. {y \in Image(Places, 0, n) : y < Places[q]} = Image(Places, 0, q)  BY <1>1, <3>1, ImageRank
  <3> QED BY <1>1, <2>2, <3>2, <3>3
 <2> QED BY <2>1, <2>2
<1> HIDE DEF below
<1>5. ASSUME q # 0 PROVE Plain!PrevValue(x) = sequence.values[p]
 <2>1. q \in 1 .. n /\ p \in 0 .. n - 1  BY <1>1, <1>2, <1>5
 <2>2. below # {} /\ Max(below) = Places[p]  BY <1>1, <1>4, <1>5, <2>1, LastIs
 <2>3. Plain!PrevValue(x) = (Places[p] - p - 1) * Scale + lows[p]  BY <1>3, <1>5, <2>2, Zenon
 <2> HIDE DEF p
 <2>4. PICK a : a = Highs[p]  OBVIOUS
 <2>5. a \in Nat /\ Places[p] = a + p + 1 /\ sequence.values[p] = a * Scale + lows[p]
   BY <2>1, <2>4, PlainFacts
 <2>6. Places[p] - p - 1 = a  BY <1>1, <2>1, <2>5
 <2> QED BY <2>3, <2>5, <2>6
<1> QED BY <1>3, <1>5

------------------------------
(* Writing it. *)

LEMMA PlainPowers ==
  /\ Apart0 \in Nat \ {0} /\ 2 ^ LogSampling0 = Apart0
  /\ Apart1 \in Nat \ {0} /\ 2 ^ LogSampling1 = Apart1
<1>1. LogSampling0 \in Nat /\ LogSampling1 \in Nat
  BY SequencesAssumption DEF Plain!EliasFanoAssumption
<1>2. Apart0 \in Nat \ {0} /\ Apart1 \in Nat \ {0}  BY <1>1, PowerFacts DEF Apart0, Apart1
<1>3. 2 ^ LogSampling0 = Apart0 /\ 2 ^ LogSampling1 = Apart1  BY Zenon DEF Apart0, Apart1, Power
<1> QED BY <1>2, <1>3

LEMMA PlainBegins ==
  ASSUME Abstract!IsSequence(sequence), Plain!Empty
  PROVE PlainInv
<1>2. n \in Nat \ {0} /\ universe \in Nat /\ Span \in Nat  BY SequenceFacts, PlacesFacts
<1>3. /\ phase = "write" /\ written = 0 /\ bits = {} /\ lows = <<>> /\ pointers0 = <<>> /\ pointers1 = <<>>
      /\ enum = [position |-> n, value |-> universe, high |-> [at |-> 0, ones |-> {}]]
  BY PlainNames DEF Plain!Empty, Plain!Opened
<1>4. PlainReach = 1  BY <1>3 DEF PlainReach
<1>5. PlainWritten(1)
 <2>1. Ordered(sequence.values, 0) /\ Image(Places, 0, 0) = {}  BY DEF Ordered, Image
 <2>2. DOMAIN lows = {} /\ DOMAIN pointers0 = {} /\ DOMAIN pointers1 = {} /\ 0 .. 0 - 1 = {}
   BY <1>3
 <2>3. Apart0 \in Nat \ {0} /\ Apart1 \in Nat \ {0}  BY PlainPowers
 <2>4. {p \in 1 .. n : p * Apart1 < 0} = {} /\ {p \in 1 .. Span : p * Apart0 < 1} = {}
  <3>1. ASSUME NEW p \in 1 .. n PROVE ~(p * Apart1 < 0)
   <4>1. p \in Nat /\ p * Apart1 \in Nat  BY <2>3
   <4> QED BY <4>1
  <3>2. ASSUME NEW p \in 1 .. Span PROVE ~(p * Apart0 < 1)
   <4>1. p \in Nat /\ p >= 1  OBVIOUS
   <4>2. p * Apart0 \in Nat /\ p <= p * Apart0  BY <2>3, <4>1, TimesGrows
   <4> QED BY <4>1, <4>2
  <3> QED BY <3>1, <3>2
 <2> QED BY <1>2, <1>3, <2>1, <2>2, <2>4 DEF PlainWritten
<1> QED BY <1>3, <1>4, <1>5 DEF PlainInv

\* Samples are added to those that are there.
LEMMA PlainJoined ==
  ASSUME NEW f, NEW g
  PROVE /\ DOMAIN Plain!Joined(f, g) = DOMAIN f \cup DOMAIN g
        /\ \A p \in DOMAIN f : Plain!Joined(f, g)[p] = f[p]
        /\ \A p \in DOMAIN g : p \notin DOMAIN f => Plain!Joined(f, g)[p] = g[p]
BY DEF Plain!Joined

\* set_ptr0s: those of the zeros between the last place that has been reached and the one that is
\* reached now, with rank ones before them.
LEMMA PlainZeros ==
  ASSUME Abstract!IsSequence(sequence), NEW first, NEW last, NEW rank, Sampling(first, last, rank),
         NEW h, h = Plain!SetPtr0s(first, last, rank)
  PROVE /\ DOMAIN h = ZerosBelow(last - rank)
        /\ \A p \in DOMAIN h : h[p] = IF p \in DOMAIN pointers0 THEN pointers0[p] ELSE ZeroAt(p, rank)
<1>0. /\ first \in Nat /\ last \in Nat /\ rank \in 0 .. n
      /\ rank <= first /\ first <= last /\ last <= Span
      /\ DOMAIN pointers0 = {p \in 1 .. Span : p * Apart0 < first - rank}
  BY DEF Sampling, ZerosBelow
<1>1. n \in Nat /\ Span \in Nat /\ rank \in Nat
 <2>1. n \in Nat  BY SequenceFacts
 <2> QED BY <1>0, <2>1, PlacesFacts
<1>2. Apart0 \in Nat \ {0} /\ 2 ^ LogSampling0 = Apart0  BY PlainPowers
<1> DEFINE S == {p \in 1 .. last : first - rank <= p * Apart0 /\ p * Apart0 < last - rank}
           F(p) == (p * 2 ^ LogSampling0 + rank) % 2 ^ Plain!PointerSize
           g == [p \in S |-> F(p)]
<1>3. h = Plain!Joined(g, pointers0)
 <2>1. Plain!Sampled0(first, last, rank) = S  BY <1>2, Zenon DEF Plain!Sampled0
 <2> HIDE DEF S
 <2> QED BY <2>1, Zenon DEF Plain!SetPtr0s
<1>4. PICK low, top : low = first - rank /\ top = last - rank  OBVIOUS
<1>5. low \in Nat /\ top \in Nat /\ low <= top /\ top <= Span /\ last = top + rank /\ top <= last
  BY <1>0, <1>1, <1>4
<1>6. ASSUME NEW p \in S PROVE F(p) = p * Apart0 + rank
 <2>1. p \in Nat /\ p * Apart0 < top  BY <1>4
 <2>2. p * Apart0 \in Nat  BY <1>2, <2>1
 <2>3. PICK x : x = p * Apart0 + rank  OBVIOUS
 <2>4. x \in Nat /\ x < Span
  <3>1. PICK a \in Nat : a = p * Apart0  BY <2>2
  <3> QED BY <1>0, <1>1, <1>5, <2>1, <2>3, <3>1
 <2>5. x % 2 ^ CeilLog2(Span) = x  BY <1>1, <2>4, FieldHolds
 <2>6. Plain!PointerSize = CeilLog2(Span)  BY PlainScale
 <2>7. F(p) = x % 2 ^ CeilLog2(Span)  BY <1>2, <2>3, <2>6, Zenon
 <2> QED BY <2>3, <2>5, <2>7, Zenon
<1> HIDE DEF F
<1>7. DOMAIN g = S /\ \A p \in S : g[p] = p * Apart0 + rank
 <2> HIDE DEF S
 <2> QED BY <1>6
<1> HIDE DEF g
<1>8. /\ DOMAIN h = S \cup DOMAIN pointers0
      /\ \A p \in S : h[p] = p * Apart0 + rank
      /\ \A p \in DOMAIN pointers0 : p \notin S => h[p] = pointers0[p]
 <2> HIDE DEF S
 <2>1. PICK f, old : f = g /\ old = pointers0  OBVIOUS
 <2>2. /\ DOMAIN Plain!Joined(f, old) = DOMAIN f \cup DOMAIN old
       /\ \A p \in DOMAIN f : Plain!Joined(f, old)[p] = f[p]
       /\ \A p \in DOMAIN old : p \notin DOMAIN f => Plain!Joined(f, old)[p] = old[p]
   BY PlainJoined
 <2> QED BY <1>3, <1>7, <2>1, <2>2
<1>9. \A p \in 1 .. Span : p \in Nat /\ p * Apart0 \in Nat /\ p <= p * Apart0
 <2> SUFFICES ASSUME NEW p \in 1 .. Span PROVE p \in Nat /\ p * Apart0 \in Nat /\ p <= p * Apart0
   OBVIOUS
 <2>1. p \in Nat  OBVIOUS
 <2> QED BY <1>2, <2>1, TimesGrows
<1>10. S = {p \in 1 .. Span : low <= p * Apart0 /\ p * Apart0 < top}
 <2>1. ASSUME NEW p \in 1 .. Span, p * Apart0 < top PROVE p \in 1 .. last
  <3>1. PICK a \in Nat : a = p * Apart0  BY <1>9
  <3> QED BY <1>5, <1>9, <2>1, <3>1
 <2>2. \A p \in 1 .. last : p \in 1 .. Span  BY <1>0, <1>1
 <2> QED BY <1>4, <2>1, <2>2
<1>11. DOMAIN pointers0 = {p \in 1 .. Span : p * Apart0 < low}  BY <1>0, <1>4
<1> HIDE DEF S
<1>12. \A p \in 1 .. Span : p * Apart0 < top <=> p \in S \/ p \in DOMAIN pointers0
 <2> SUFFICES ASSUME NEW p \in 1 .. Span
              PROVE p * Apart0 < top <=> p \in S \/ p \in DOMAIN pointers0
   OBVIOUS
 <2>1. PICK a \in Nat : a = p * Apart0  BY <1>9
 <2>2. p \in S <=> low <= a /\ a < top  BY <1>10, <2>1
 <2>3. p \in DOMAIN pointers0 <=> a < low  BY <1>11, <2>1
 <2> QED BY <1>5, <2>1, <2>2, <2>3
<1>13. \A p \in S : p \notin DOMAIN pointers0
 <2> SUFFICES ASSUME NEW p \in S PROVE p \notin DOMAIN pointers0  OBVIOUS
 <2>1. p \in 1 .. Span /\ low <= p * Apart0  BY <1>10
 <2>2. PICK a \in Nat : a = p * Apart0  BY <1>9, <2>1
 <2>3. ~(p * Apart0 < low)  BY <1>5, <2>1, <2>2
 <2> QED BY <1>11, <2>3
<1>14. DOMAIN h = {p \in 1 .. Span : p * Apart0 < top}
 <2>1. \A p \in S \cup DOMAIN pointers0 : p \in 1 .. Span  BY <1>10, <1>11
 <2> QED BY <1>8, <1>12, <2>1
<1>15. \A p \in DOMAIN h : h[p] = IF p \in DOMAIN pointers0 THEN pointers0[p] ELSE p * Apart0 + rank
  BY <1>8, <1>13
<1> QED BY <1>4, <1>14, <1>15 DEF ZerosBelow, ZeroAt

\* One value is written: its low bits, its one, the sample of its one if it has one, and those of
\* the zeros before it.
LEMMA PlainOneAdded ==
  ASSUME PlainInv, phase = "write", written < n, Plain!WriteValue(written)
  PROVE /\ DOMAIN pointers1' = {p \in 1 .. n : p * Apart1 < written + 1}
        /\ \A p \in DOMAIN pointers1' : pointers1'[p] = Places[p * Apart1]
<1>1. n \in Nat /\ written \in 0 .. n - 1 /\ Abstract!IsSequence(sequence) /\ Span \in Nat
 <2>1. n \in Nat /\ written \in 0 .. n /\ Abstract!IsSequence(sequence)
   BY SequenceFacts DEF PlainInv, PlainWritten
 <2> QED BY <2>1, PlacesFacts
<1>2. PICK w, v : w = written /\ v = Places[w]  OBVIOUS
<1>3. w \in 0 .. n - 1 /\ v \in Nat /\ v < Span /\ Plain!HighOf(w) = v
 <2>1. w \in 0 .. n - 1  BY <1>1, <1>2
 <2>2. v \in 1 .. Span - 1 /\ Plain!HighOf(w) = v  BY <1>1, <1>2, <2>1, PlacesFacts, PlainScale
 <2> QED BY <1>1, <2>1, <2>2
<1>4. /\ DOMAIN pointers1 = {p \in 1 .. n : p * Apart1 < w}
      /\ \A p \in DOMAIN pointers1 : pointers1[p] = Places[p * Apart1]
  BY <1>2 DEF PlainInv, PlainWritten
<1>5. Apart1 \in Nat \ {0} /\ 2 ^ LogSampling1 = Apart1  BY PlainPowers
<1>6. pointers1' = IF w > 0 /\ w % Apart1 = 0
                   THEN Plain!Joined(pointers1, [p \in {w \div Apart1} |-> v]) ELSE pointers1
 <2>1. PICK y : y = Plain!HighOf(w) % 2 ^ Plain!PointerSize  OBVIOUS
 <2>2. pointers1' = IF w > 0 /\ w % Apart1 = 0
                    THEN Plain!Joined(pointers1, [p \in {w \div Apart1} |-> y]) ELSE pointers1
  <3> DEFINE g == [p \in {w \div 2 ^ LogSampling1} |-> Plain!HighOf(w) % 2 ^ Plain!PointerSize]
  <3>1. pointers1' = IF w > 0 /\ w % 2 ^ LogSampling1 = 0
                     THEN Plain!Joined(pointers1, g) ELSE pointers1
    BY <1>2 DEF Plain!WriteValue
  <3>2. PICK S : S = {w \div 2 ^ LogSampling1}  OBVIOUS
  <3>3. g = [p \in S |-> y]  BY <2>1, <3>2, Zenon
  <3>4. S = {w \div Apart1} /\ w % 2 ^ LogSampling1 = w % Apart1  BY <1>5, <3>2, Zenon
  <3> HIDE DEF g
  <3> QED BY <3>1, <3>3, <3>4, Zenon
 <2>3. v % 2 ^ CeilLog2(Span) = v  BY <1>1, <1>3, FieldHolds
 <2>4. Plain!PointerSize = CeilLog2(Span)  BY <1>1, PlainScale
 <2>5. y = v  BY <1>3, <2>1, <2>3, <2>4, Zenon
 <2> QED BY <2>2, <2>5
<1>7. CASE w > 0 /\ w % Apart1 = 0
 <2>1. PICK q, c : q = w \div Apart1 /\ c = Apart1  OBVIOUS
 <2>2. q \in 1 .. n /\ q * Apart1 = w
       /\ {p \in 1 .. n : p * Apart1 < w + 1} = {q} \cup {p \in 1 .. n : p * Apart1 < w}
  <3>1. c \in Nat \ {0} /\ n \in Nat /\ w \in 0 .. n - 1  BY <1>1, <1>3, <1>5, <2>1
  <3>2. /\ w \div c \in 1 .. n /\ (w \div c) * c = w
        /\ {p \in 1 .. n : p * c < w + 1} = {w \div c} \cup {p \in 1 .. n : p * c < w}
   <4>1. w > 0 /\ w % c = 0
           => /\ w \div c \in 1 .. n /\ (w \div c) * c = w
              /\ {p \in 1 .. n : p * c < w + 1} = {w \div c} \cup {p \in 1 .. n : p * c < w}
     BY <3>1, SampleAdded, ZenonT(30)
   <4>2. w > 0 /\ w % c = 0  BY <1>7, <2>1
   <4> QED BY <4>1, <4>2
  <3>3. w \div c = q  BY <2>1
  <3>4. q \in 1 .. n /\ q * c = w /\ {p \in 1 .. n : p * c < w + 1} = {q} \cup {p \in 1 .. n : p * c < w}
    BY <3>2, <3>3
  <3> QED BY <2>1, <3>4
 <2>3. PICK f, new : new = [p \in {q} |-> v] /\ f = pointers1  OBVIOUS
 <2>4. pointers1' = Plain!Joined(f, new)  BY <1>6, <1>7, <2>1, <2>3
 <2>5. /\ DOMAIN Plain!Joined(f, new) = DOMAIN f \cup DOMAIN new
       /\ \A p \in DOMAIN f : Plain!Joined(f, new)[p] = f[p]
       /\ \A p \in DOMAIN new : p \notin DOMAIN f => Plain!Joined(f, new)[p] = new[p]
   BY PlainJoined
 <2>6. DOMAIN new = {q} /\ new[q] = Places[q * Apart1]  BY <1>2, <2>2, <2>3
 <2>7. \A p \in DOMAIN f : f[p] = Places[p * Apart1]  BY <1>4, <2>3
 <2>8. DOMAIN f = {p \in 1 .. n : p * Apart1 < w}  BY <1>4, <2>3
 <2> QED BY <1>2, <2>2, <2>4, <2>5, <2>6, <2>7, <2>8
<1>8. CASE ~(w > 0 /\ w % Apart1 = 0)
 <2>1. pointers1' = pointers1  BY <1>6, <1>8
 <2>2. {p \in 1 .. n : p * Apart1 < w + 1} = {p \in 1 .. n : p * Apart1 < w}
  <3>1. PICK c : c = Apart1  OBVIOUS
  <3>2. c \in Nat \ {0} /\ n \in Nat /\ w \in 0 .. n - 1 /\ ~(w > 0 /\ w % c = 0)
    BY <1>1, <1>3, <1>5, <1>8, <3>1
  <3>3. {p \in 1 .. n : p * c < w + 1} = {p \in 1 .. n : p * c < w}  BY <3>2, SampleAdded
  <3> QED BY <3>1, <3>3
 <2> QED BY <1>2, <1>4, <2>1, <2>2
<1> QED BY <1>7, <1>8

LEMMA PlainValueWritten ==
  ASSUME PlainInv, phase = "write", written < n, UNCHANGED <<sequence, phase>>,
         ~(written > 0 /\ sequence.values[written] < sequence.values[written - 1]),
         Plain!WriteValue(written)
  PROVE PlainWritten(PlainReach)'
<1>1. /\ n \in Nat /\ Span \in Nat /\ written \in 0 .. n - 1 /\ Abstract!IsSequence(sequence)
      /\ \A i \in 0 .. n - 1 : sequence.values[i] \in Nat
      /\ \A i \in 0 .. n - 1 : Highs[i] \in Nat /\ Places[i] = Highs[i] + i + 1 /\ Places[i] \in 1 .. Span - 1
 <2>1. n \in Nat /\ written \in 0 .. n /\ \A i \in 0 .. n - 1 : sequence.values[i] \in Nat
   BY SequenceFacts DEF PlainInv, PlainWritten
 <2>2. Abstract!IsSequence(sequence)  BY DEF PlainInv
 <2>3. \A i \in 0 .. n - 1 : Highs[i] \in Nat /\ Places[i] = Highs[i] + i + 1 /\ Places[i] \in 1 .. Span - 1
   BY <2>2, PlacesFacts
 <2>4. Span \in Nat  BY <2>2, PlacesFacts
 <2> QED BY <2>1, <2>2, <2>3, <2>4
<1>2. PICK w, high, low : w = written /\ high = Highs[w] /\ low = PlainReach  OBVIOUS
<1>3. /\ w \in 0 .. n - 1 /\ high \in Nat /\ Ordered(sequence.values, w) /\ Ordered(sequence.values, w + 1)
 <2>1. w \in 0 .. n - 1 /\ high \in Nat  BY <1>1, <1>2
 <2>2. Ordered(sequence.values, w)  BY <1>2 DEF PlainInv, PlainWritten
 <2>3. \A i \in 0 .. w : sequence.values[i] \in Nat  BY <1>1, <2>1
 <2>4. \A i \in 0 .. w - 1 : sequence.values[i] <= sequence.values[w]
  <3> SUFFICES ASSUME NEW i \in 0 .. w - 1 PROVE sequence.values[i] <= sequence.values[w]  OBVIOUS
  <3>1. w # 0 /\ w - 1 \in 0 .. w - 1 /\ i <= w - 1 /\ w > 0  BY <2>1
  <3>2. sequence.values[i] <= sequence.values[w - 1]  BY <2>2, <3>1 DEF Ordered
  <3>3. ~(sequence.values[w] < sequence.values[w - 1])  BY <1>2, <3>1
  <3>4. sequence.values[i] \in Nat /\ sequence.values[w - 1] \in Nat /\ sequence.values[w] \in Nat
    BY <2>1, <2>3
  <3> QED BY <3>2, <3>3, <3>4
 <2>5. ASSUME NEW i \in 0 .. w + 1 - 1, NEW j \in 0 .. w + 1 - 1, i <= j
       PROVE sequence.values[i] <= sequence.values[j]
  <3>1. CASE j # w
   <4>1. i \in 0 .. w - 1 /\ j \in 0 .. w - 1  BY <2>1, <2>5, <3>1
   <4> QED BY <2>2, <2>5, <4>1 DEF Ordered
  <3>2. CASE j = w /\ i # w
   <4>1. i \in 0 .. w - 1  BY <2>1, <2>5, <3>2
   <4> QED BY <2>4, <3>2, <4>1
  <3>3. CASE j = w /\ i = w
   <4>1. sequence.values[w] \in Nat  BY <2>1, <2>3
   <4> QED BY <3>3, <4>1
  <3> QED BY <3>1, <3>2, <3>3
 <2> QED BY <2>1, <2>2, <2>3, <2>5 DEF Ordered
<1>4. /\ low \in Nat /\ low <= high + 1
      /\ \A i \in 0 .. w - 1 : Highs[i] < low
      /\ Plain!LastHigh + 1 \in Nat /\ (Plain!LastHigh + 1) - w = low /\ w <= Plain!LastHigh + 1
 <2>1. CASE w = 0
  <3>1. low = 1 /\ Plain!LastHigh = 0  BY <1>2, <2>1 DEF PlainReach, Plain!LastHigh
  <3> QED BY <1>3, <2>1, <3>1
 <2>2. CASE w # 0
  <3>1. w - 1 \in 0 .. n - 1 /\ w - 1 \in 0 .. w /\ w - 1 <= w /\ w \in 0 .. w  BY <1>1, <1>3, <2>2
  <3>2. PICK a : a = Highs[w - 1]  OBVIOUS
  <3>3. a \in Nat /\ low = a + 1 /\ Plain!LastHigh = a + (w - 1) + 1
   <4>1. a \in Nat /\ Places[w - 1] = a + (w - 1) + 1  BY <1>1, <3>1, <3>2
   <4>2. low = a + 1  BY <1>2, <2>2, <3>2 DEF PlainReach
   <4>3. Plain!LastHigh = Plain!HighOf(w - 1)  BY <1>2, <2>2 DEF Plain!LastHigh
   <4>4. Plain!HighOf(w - 1) = Places[w - 1]  BY <1>1, <3>1, PlainScale
   <4> QED BY <4>1, <4>2, <4>3, <4>4
  <3>4. Ordered(Highs, w + 1)
   <4>1. w + 1 \in 0 .. n  BY <1>1, <1>3
   <4> QED BY <1>1, <1>3, <4>1, PlacesIncrease
  <3>5. ASSUME NEW i \in 0 .. w, i < w PROVE Highs[i] <= a /\ Highs[i] \in Nat
   <4>1. i \in 0 .. w + 1 - 1 /\ w - 1 \in 0 .. w + 1 - 1 /\ i <= w - 1 /\ i \in 0 .. n - 1
     BY <1>1, <1>3, <3>1, <3>5
   <4>2. Highs[i] <= Highs[w - 1]
    <5>1. PICK m, j : m = w + 1 /\ j = w - 1  OBVIOUS
    <5>2. Ordered(Highs, m) /\ i \in 0 .. m - 1 /\ j \in 0 .. m - 1 /\ i <= j
     <6>1. Ordered(Highs, m)  BY <3>4, <5>1
     <6>2. i \in 0 .. m - 1 /\ j \in 0 .. m - 1 /\ i <= j  BY <1>3, <3>1, <3>5, <5>1
     <6> QED BY <6>1, <6>2
    <5>3. Highs[i] <= Highs[j]  BY <5>2 DEF Ordered
    <5> QED BY <5>1, <5>3
   <4> QED BY <1>1, <3>2, <4>1, <4>2
  <3>6. a <= high
   <4>1. w \in 0 .. w + 1 - 1 /\ w - 1 \in 0 .. w + 1 - 1 /\ w - 1 <= w  BY <1>3, <3>1
   <4> QED BY <1>2, <3>2, <3>4, <4>1 DEF Ordered
  <3>7. \A i \in 0 .. w - 1 : Highs[i] < low
   <4> SUFFICES ASSUME NEW i \in 0 .. w - 1 PROVE Highs[i] < low  OBVIOUS
   <4>1. i \in 0 .. w /\ i < w  BY <1>3
   <4> QED BY <3>3, <3>5, <4>1
  <3> QED BY <1>3, <3>1, <3>3, <3>6, <3>7
 <2> QED BY <2>1, <2>2
<1>5. /\ PlainWritten(low)
      /\ bits = Image(Places, 0, w)
      /\ DOMAIN lows = 0 .. w - 1 /\ \A i \in 0 .. w - 1 : lows[i] = sequence.values[i] % Scale
      /\ DOMAIN pointers0 = {p \in 1 .. Span : p * Apart0 < low}
      /\ \A p \in DOMAIN pointers0 : \E r \in 0 .. w :
             pointers0[p] = p * Apart0 + r /\ \A i \in 0 .. w - 1 : i < r <=> Highs[i] < p * Apart0
  BY <1>2 DEF PlainInv, PlainWritten
<1>6. /\ written' = w + 1 /\ bits' = bits \cup {Places[w]}
      /\ lows' = Plain!Joined(lows, [j \in {w} |-> sequence.values[w] % Scale])
      /\ pointers0' = Plain!SetPtr0s(Plain!LastHigh + 1, Places[w], w)
 <2>1. /\ written' = w + 1 /\ bits' = bits \cup {Plain!HighOf(w)}
       /\ lows' = Plain!Joined(lows, [j \in {w} |-> Plain!Low(sequence.values[w])])
       /\ pointers0' = Plain!SetPtr0s(Plain!LastHigh + 1, Plain!HighOf(w), w)
   BY <1>2 DEF Plain!WriteValue
 <2>2. Plain!HighOf(w) = Places[w] /\ Plain!Low(sequence.values[w]) = sequence.values[w] % Scale
   BY <1>1, <1>3, PlainScale
 <2> QED BY <2>1, <2>2
<1>7. bits' = Image(Places, 0, w + 1)
 <2>1. PICK m : m = w + 1  OBVIOUS
 <2>2. m - 1 = w /\ w \in Nat  BY <1>3, <2>1
 <2>3. ASSUME NEW x \in Image(Places, 0, m) PROVE x \in bits'
  <3>1. PICK k \in 0 .. m - 1 : x = Places[k]  BY DEF Image
  <3>2. CASE k = w  BY <1>6, <3>1, <3>2
  <3>3. CASE k # w
   <4>1. k \in 0 .. w - 1  BY <2>2, <3>3
   <4>2. x \in Image(Places, 0, w)  BY <3>1, <4>1 DEF Image
   <4> QED BY <1>5, <1>6, <4>2
  <3> QED BY <3>2, <3>3
 <2>4. ASSUME NEW x \in bits' PROVE x \in Image(Places, 0, m)
  <3>1. x \in Image(Places, 0, w) \/ x = Places[w]  BY <1>5, <1>6
  <3>2. CASE x \in Image(Places, 0, w)
   <4>1. PICK k \in 0 .. w - 1 : x = Places[k]  BY <3>2 DEF Image
   <4>2. k \in 0 .. m - 1  BY <2>2
   <4> QED BY <4>1, <4>2 DEF Image
  <3>3. CASE x = Places[w]
   <4>1. w \in 0 .. m - 1  BY <2>2
   <4> QED BY <3>3, <4>1 DEF Image
  <3> QED BY <3>1, <3>2, <3>3
 <2> QED BY <2>1, <2>3, <2>4
<1>8. DOMAIN lows' = 0 .. w /\ \A i \in 0 .. w : lows'[i] = sequence.values[i] % Scale
 <2>1. PICK y : y = sequence.values[w] % Scale  OBVIOUS
 <2>2. PICK f, new : f = lows /\ new = [j \in {w} |-> y]  OBVIOUS
 <2>3. lows' = Plain!Joined(f, new)  BY <1>6, <2>1, <2>2
 <2>4. /\ DOMAIN Plain!Joined(f, new) = DOMAIN f \cup DOMAIN new
       /\ \A p \in DOMAIN f : Plain!Joined(f, new)[p] = f[p]
       /\ \A p \in DOMAIN new : p \notin DOMAIN f => Plain!Joined(f, new)[p] = new[p]
   BY PlainJoined
 <2>5. DOMAIN new = {w} /\ new[w] = y  BY <2>2
 <2>6. DOMAIN f = 0 .. w - 1 /\ \A i \in 0 .. w - 1 : f[i] = sequence.values[i] % Scale
   BY <1>5, <2>2
 <2>7. (0 .. w - 1) \cup {w} = 0 .. w /\ w \notin 0 .. w - 1  BY <1>3
 <2> QED BY <2>1, <2>3, <2>4, <2>5, <2>6, <2>7
<1>9. /\ DOMAIN pointers1' = {p \in 1 .. n : p * Apart1 < w + 1}
      /\ \A p \in DOMAIN pointers1' : pointers1'[p] = Places[p * Apart1]
  BY <1>2, PlainOneAdded
<1>10. /\ DOMAIN pointers0' = {p \in 1 .. Span : p * Apart0 < high + 1}
       /\ \A p \in DOMAIN pointers0' :
              pointers0'[p] = IF p \in DOMAIN pointers0 THEN pointers0[p] ELSE p * Apart0 + w
 <2>1. PICK first, last : first = Plain!LastHigh + 1 /\ last = Places[w]  OBVIOUS
 <2>2. /\ first \in Nat /\ last \in Nat /\ w \in 0 .. n /\ w <= first /\ first <= last /\ last <= Span
       /\ first - w = low /\ last - w = high + 1
  <3>1. last = high + w + 1 /\ last \in 1 .. Span - 1  BY <1>1, <1>2, <1>3, <2>1
  <3>2. first \in Nat /\ w <= first /\ first - w = low  BY <1>4, <2>1
  <3> QED BY <1>1, <1>3, <1>4, <3>1, <3>2
 <2>4. PICK f : f = Plain!SetPtr0s(first, last, w)  OBVIOUS
 <2>5. Abstract!IsSequence(sequence) /\ Sampling(first, last, w)
  <3>1. DOMAIN pointers0 = ZerosBelow(first - w)  BY <1>5, <2>2 DEF ZerosBelow
  <3> QED BY <1>1, <2>2, <3>1 DEF Sampling
 <2>6. /\ DOMAIN f = ZerosBelow(last - w)
       /\ \A p \in DOMAIN f : f[p] = IF p \in DOMAIN pointers0 THEN pointers0[p] ELSE ZeroAt(p, w)
   BY <2>4, <2>5, PlainZeros
 <2>7. pointers0' = f /\ last - w = high + 1  BY <1>6, <2>1, <2>2, <2>4
 <2>8. DOMAIN f = ZerosBelow(high + 1)  BY <2>6, <2>7
 <2> QED BY <2>6, <2>7, <2>8 DEF ZerosBelow, ZeroAt
<1>11. ASSUME NEW p \in DOMAIN pointers0'
       PROVE \E r \in 0 .. w + 1 :
                 /\ pointers0'[p] = p * Apart0 + r
                 /\ \A i \in 0 .. w : i < r <=> Highs[i] < p * Apart0
 <2>1. PICK a : a = p * Apart0  OBVIOUS
 <2>2. p \in 1 .. Span /\ a \in Nat /\ a < high + 1
  <3>1. p \in 1 .. Span /\ a < high + 1  BY <1>10, <2>1
  <3>2. Apart0 \in Nat  BY PlainPowers
  <3> QED BY <2>1, <3>1, <3>2
 <2>3. \A i \in 0 .. w : i \in 0 .. w - 1 \/ i = w  BY <1>3
 <2>4. ~(high < a)  BY <1>3, <2>2
 <2>5. CASE p \in DOMAIN pointers0
  <3>1. PICK r \in 0 .. w : pointers0[p] = a + r /\ \A i \in 0 .. w - 1 : i < r <=> Highs[i] < a
    BY <1>5, <2>1, <2>5
  <3>2. r \in 0 .. w + 1 /\ ~(w < r)  BY <1>3, <3>1
  <3>3. \A i \in 0 .. w : i < r <=> Highs[i] < a  BY <1>2, <2>3, <2>4, <3>1, <3>2
  <3>4. pointers0'[p] = a + r  BY <1>10, <2>5, <3>1
  <3> QED BY <2>1, <3>2, <3>3, <3>4
 <2>6. CASE p \notin DOMAIN pointers0
  <3>1. ~(a < low)  BY <1>5, <2>1, <2>2, <2>6
  <3>2. w \in 0 .. w + 1 /\ ~(w < w)  BY <1>3
  <3>3. \A i \in 0 .. w - 1 : Highs[i] < a /\ i < w
   <4> SUFFICES ASSUME NEW i \in 0 .. w - 1 PROVE Highs[i] < a /\ i < w  OBVIOUS
   <4>1. i \in 0 .. n - 1  BY <1>1, <1>3
   <4>2. Highs[i] \in Nat /\ Highs[i] < low  BY <1>1, <1>4, <4>1
   <4> QED BY <1>3, <1>4, <2>2, <3>1, <4>2
  <3>4. \A i \in 0 .. w : i < w <=> Highs[i] < a  BY <1>2, <2>3, <2>4, <3>2, <3>3
  <3>5. pointers0'[p] = a + w  BY <1>10, <2>1, <2>6
  <3> QED BY <2>1, <3>2, <3>4, <3>5
 <2> QED BY <2>5, <2>6
<1>12. PlainReach' = high + 1
 <2>1. phase' # "read" /\ written' # 0 /\ written' - 1 = w  BY <1>3, <1>6
 <2>2. Highs' = Highs
   BY SameSequence DEF Highs, Scale, Plain!LowerBits, Plain!universe, Plain!n, Plain!Cardinality, Plain!Msb
 <2> QED BY <1>2, <2>1, <2>2 DEF PlainReach
<1>13. n' = n /\ universe' = universe /\ sequence' = sequence  BY SameSequence
<1>14. Scale' = Scale /\ Highs' = Highs /\ Places' = Places /\ Span' = Span /\ Apart0' = Apart0 /\ Apart1' = Apart1
 <2>1. Scale' = Scale
   BY DEF Scale, Plain!LowerBits, Plain!universe, Plain!n, Plain!Cardinality, Plain!Msb
 <2> QED BY <1>13, <2>1 DEF Highs, Places, Span, Apart0, Apart1
<1>15. w + 1 \in 0 .. n /\ w + 1 - 1 = w  BY <1>1, <1>3
<1>16. /\ written' \in 0 .. n' /\ Ordered(sequence'.values, written')
       /\ bits' = Image(Places', 0, written')
  BY <1>3, <1>6, <1>7, <1>13, <1>14, <1>15
<1>17. DOMAIN lows' = 0 .. written' - 1 /\ \A i \in 0 .. written' - 1 : lows'[i] = sequence'.values[i] % Scale'
 <2>0. written' = w + 1  BY <1>6
 <2>1. written' - 1 = w  BY <1>3, <2>0
 <2>2. \A i \in 0 .. w : lows'[i] = sequence'.values[i] % Scale'  BY <1>8, <1>13, <1>14, Zenon
 <2> QED BY <1>8, <2>1, <2>2, Zenon
<1>18. /\ DOMAIN pointers1' = {p \in 1 .. n' : p * Apart1' < written'}
       /\ \A p \in DOMAIN pointers1' : pointers1'[p] = Places'[p * Apart1']
  BY <1>6, <1>9, <1>13, <1>14
<1>19. /\ DOMAIN pointers0' = {p \in 1 .. Span' : p * Apart0' < PlainReach'}
       /\ \A p \in DOMAIN pointers0' : \E r \in 0 .. written' :
              /\ pointers0'[p] = p * Apart0' + r
              /\ \A i \in 0 .. written' - 1 : i < r <=> Highs'[i] < p * Apart0'
 <2>1. written' - 1 = w /\ written' = w + 1  BY <1>3, <1>6
 <2> QED BY <1>10, <1>11, <1>12, <1>14, <2>1
<1> QED BY <1>16, <1>17, <1>18, <1>19 DEF PlainWritten

\* What depends on the sequence alone, again.
LEMMA PlainSame ==
  ASSUME sequence' = sequence
  PROVE /\ n' = n /\ universe' = universe
        /\ Scale' = Scale /\ Highs' = Highs /\ Places' = Places /\ Span' = Span /\ Zeros' = Zeros
        /\ Apart0' = Apart0 /\ Apart1' = Apart1
<1>1. n' = n /\ universe' = universe  BY SameSequence
<1>2. Scale' = Scale
  BY DEF Scale, Plain!LowerBits, Plain!universe, Plain!n, Plain!Cardinality, Plain!Msb
<1> QED BY <1>1, <1>2 DEF Highs, Places, Span, Zeros, Apart0, Apart1

LEMMA PlainWrites ==
  ASSUME PlainInv, Plain!Write
  PROVE PlainInv' /\ sequence' = sequence /\ PlainSpot' = PlainSpot /\ call' = call
<1>1. phase = "write" /\ written < n /\ UNCHANGED <<sequence, enum, call>>
  BY PlainNames DEF Plain!Write
<1>2. /\ Abstract!IsSequence(sequence)'
      /\ n' = n /\ universe' = universe
      /\ enum = [position |-> n, value |-> universe, high |-> [at |-> 0, ones |-> {}]]
  BY <1>1, SameSequence DEF PlainInv
<1>3. CASE written > 0 /\ sequence.values[written] < sequence.values[written - 1]
 <2>1. phase' = "thrown" /\ UNCHANGED <<written, bits, lows, pointers0, pointers1>>
   BY <1>3 DEF Plain!Write
 <2>2. ~NeverFalls
  <3>1. n \in Nat /\ written \in 0 .. n /\ \A i \in 0 .. n - 1 : sequence.values[i] \in Nat
    BY SequenceFacts DEF PlainInv, PlainWritten
  <3>2. PICK w : w = written  OBVIOUS
  <3>3. w \in 1 .. n - 1 /\ w \in 0 .. n - 1 /\ w - 1 \in 0 .. n - 1  BY <1>1, <1>3, <3>1, <3>2
  <3>4. sequence.values[w] < sequence.values[w - 1]  BY <1>3, <3>2
  <3>5. sequence.values[w] \in Nat /\ sequence.values[w - 1] \in Nat  BY <3>1, <3>3
  <3> QED BY <3>3, <3>4, <3>5 DEF NeverFalls
 <2>3. /\ Scale' = Scale /\ Highs' = Highs /\ Places' = Places /\ Span' = Span /\ Zeros' = Zeros
       /\ Apart0' = Apart0 /\ Apart1' = Apart1
   BY <1>1, PlainSame
 <2>4. PlainReach' = PlainReach  BY <1>1, <2>1, <2>3 DEF PlainReach
 <2>5. PlainWritten(PlainReach)'  BY <1>1, <1>2, <2>1, <2>3, <2>4 DEF PlainInv, PlainWritten
 <2>6. ~NeverFalls'  BY <1>1, <1>2, <2>2 DEF NeverFalls
 <2> QED BY <1>1, <1>2, <2>1, <2>5, <2>6 DEF PlainInv, PlainSpot
<1>4. CASE ~(written > 0 /\ sequence.values[written] < sequence.values[written - 1])
 <2>1. Plain!WriteValue(written) /\ phase' = phase  BY <1>4 DEF Plain!Write
 <2>2. PlainWritten(PlainReach)'  BY <1>1, <1>4, <2>1, PlainValueWritten
 <2> QED BY <1>1, <1>2, <2>1, <2>2 DEF PlainInv, PlainSpot
<1> QED BY <1>3, <1>4

LEMMA PlainEnds ==
  ASSUME PlainInv, Plain!WriteEnd
  PROVE PlainInv' /\ sequence' = sequence /\ PlainSpot' = PlainSpot /\ call' = call
<1>1. /\ phase = "write" /\ written = n /\ phase' = "read"
      /\ pointers0' = Plain!SetPtr0s(Plain!LastHigh + 1, Plain!HigherBitsLength, n)
      /\ UNCHANGED <<sequence, written, bits, lows, pointers1, enum, call>>
  BY PlainNames DEF Plain!WriteEnd
<1>2. /\ Abstract!IsSequence(sequence)' /\ Abstract!IsSequence(sequence) /\ n' = n /\ universe' = universe
      /\ enum = [position |-> n, value |-> universe, high |-> [at |-> 0, ones |-> {}]]
      /\ \A q : ValueAt(q)' = ValueAt(q)
  BY <1>1, SameSequence DEF PlainInv
<1>3. /\ n \in Nat \ {0} /\ universe \in Nat /\ Span \in Nat /\ Zeros = Span - n /\ Zeros \in Nat
      /\ Plain!HigherBitsLength = Span
      /\ \A i \in 0 .. n - 1 : Highs[i] \in Nat /\ Places[i] = Highs[i] + i + 1 /\ Places[i] \in 1 .. Span - 1
 <2>1. n \in Nat \ {0} /\ universe \in Nat  BY <1>2, SequenceFacts
 <2>2. Span \in Nat /\ universe \div Scale \in Nat /\ Zeros = (universe \div Scale) + 2
   BY <1>2, PlacesFacts
 <2>3. \A i \in 0 .. n - 1 : Highs[i] \in Nat /\ Places[i] = Highs[i] + i + 1 /\ Places[i] \in 1 .. Span - 1
   BY <1>2, PlacesFacts
 <2>4. Plain!HigherBitsLength = Span  BY <1>2, PlainScale
 <2> QED BY <2>1, <2>2, <2>3, <2>4 DEF Zeros
<1>4. PICK high : high = Highs[n - 1]  OBVIOUS
<1>5. n - 1 \in 0 .. n - 1 /\ high \in Nat /\ Places[n - 1] = high + n /\ high + n < Span
 <2>1. n - 1 \in 0 .. n - 1  BY <1>3
 <2>2. Places[n - 1] = high + (n - 1) + 1 /\ Places[n - 1] \in 1 .. Span - 1 /\ high \in Nat
   BY <1>3, <1>4, <2>1
 <2> QED BY <1>3, <2>1, <2>2
<1>6. Plain!LastHigh + 1 = high + n + 1
 <2>1. Plain!LastHigh = Plain!HighOf(n - 1)  BY <1>1, <1>3 DEF Plain!LastHigh
 <2>2. Plain!HighOf(n - 1) = Places[n - 1]  BY <1>2, <1>5, PlainScale
 <2> QED BY <1>5, <2>1, <2>2
<1>7. PlainWritten(high + 1) /\ Ordered(Highs, n)
 <2>1. PlainWritten(high + 1)  BY <1>1, <1>3, <1>4 DEF PlainInv, PlainReach
 <2>2. Ordered(sequence.values, n) /\ n \in 0 .. n  BY <1>1, <1>3, <2>1 DEF PlainWritten
 <2> QED BY <1>2, <2>1, <2>2, PlacesIncrease
<1>8. /\ DOMAIN pointers0 = {p \in 1 .. Span : p * Apart0 < high + 1}
      /\ \A p \in DOMAIN pointers0 : \E r \in 0 .. n :
             pointers0[p] = p * Apart0 + r /\ \A i \in 0 .. n - 1 : i < r <=> Highs[i] < p * Apart0
  BY <1>1, <1>7 DEF PlainWritten
<1>9. /\ DOMAIN pointers0' = {p \in 1 .. Span : p * Apart0 < Zeros}
      /\ \A p \in DOMAIN pointers0' :
             pointers0'[p] = IF p \in DOMAIN pointers0 THEN pointers0[p] ELSE p * Apart0 + n
 <2>1. PICK first, last : first = high + n + 1 /\ last = Span  OBVIOUS
 <2>2. /\ first \in Nat /\ last \in Nat /\ n \in 0 .. n /\ n <= first /\ first <= last /\ last <= Span
       /\ first - n = high + 1 /\ last - n = Zeros
   BY <1>3, <1>5, <2>1
 <2>3. PICK f : f = Plain!SetPtr0s(first, last, n)  OBVIOUS
 <2>4. Abstract!IsSequence(sequence) /\ Sampling(first, last, n)
  <3>1. DOMAIN pointers0 = ZerosBelow(first - n)  BY <1>8, <2>2 DEF ZerosBelow
  <3> QED BY <1>2, <2>2, <3>1 DEF Sampling
 <2>5. /\ DOMAIN f = ZerosBelow(last - n)
       /\ \A p \in DOMAIN f : f[p] = IF p \in DOMAIN pointers0 THEN pointers0[p] ELSE ZeroAt(p, n)
   BY <2>3, <2>4, PlainZeros
 <2>6. pointers0' = f  BY <1>1, <1>3, <1>6, <2>1, <2>3
 <2>7. DOMAIN f = ZerosBelow(Zeros)  BY <2>2, <2>5
 <2> QED BY <2>5, <2>6, <2>7 DEF ZerosBelow, ZeroAt
<1>10. ASSUME NEW p \in DOMAIN pointers0'
       PROVE \E r \in 0 .. n :
                 pointers0'[p] = p * Apart0 + r /\ \A i \in 0 .. n - 1 : i < r <=> Highs[i] < p * Apart0
 <2>1. PICK a : a = p * Apart0  OBVIOUS
 <2>2. p \in 1 .. Span /\ a \in Nat
  <3>1. p \in 1 .. Span  BY <1>9
  <3>2. Apart0 \in Nat  BY PlainPowers
  <3> QED BY <2>1, <3>1, <3>2
 <2>3. CASE p \in DOMAIN pointers0  BY <1>8, <1>9, <2>3
 <2>4. CASE p \notin DOMAIN pointers0
  <3>1. ~(a < high + 1)  BY <1>8, <2>1, <2>2, <2>4
  <3>2. \A i \in 0 .. n - 1 : Highs[i] < a /\ i < n
   <4> SUFFICES ASSUME NEW i \in 0 .. n - 1 PROVE Highs[i] < a /\ i < n  OBVIOUS
   <4>1. i <= n - 1 /\ Highs[i] \in Nat  BY <1>3
   <4>2. Highs[i] <= high  BY <1>4, <1>5, <1>7, <4>1 DEF Ordered
   <4> QED BY <1>3, <1>5, <2>2, <3>1, <4>1, <4>2
  <3>3. pointers0'[p] = a + n /\ n \in 0 .. n  BY <1>3, <1>9, <2>1, <2>4
  <3> QED BY <2>1, <3>2, <3>3
 <2> QED BY <2>3, <2>4
<1>11. /\ Scale' = Scale /\ Highs' = Highs /\ Places' = Places /\ Span' = Span /\ Zeros' = Zeros
       /\ Apart0' = Apart0 /\ Apart1' = Apart1
  BY <1>1, PlainSame
<1>12. PlainReach' = Zeros  BY <1>1, <1>11 DEF PlainReach
<1>13. PlainWritten(PlainReach)'
 <2>1. /\ written' \in 0 .. n' /\ Ordered(sequence'.values, written')
       /\ bits' = Image(Places', 0, written')
       /\ DOMAIN lows' = 0 .. written' - 1
       /\ \A i \in 0 .. written' - 1 : lows'[i] = sequence'.values[i] % Scale'
       /\ DOMAIN pointers1' = {p \in 1 .. n' : p * Apart1' < written'}
       /\ \A p \in DOMAIN pointers1' : pointers1'[p] = Places'[p * Apart1']
   BY <1>1, <1>2, <1>7, <1>11 DEF PlainWritten
 <2>2. DOMAIN pointers0' = {p \in 1 .. Span' : p * Apart0' < PlainReach'}  BY <1>9, <1>11, <1>12
 <2>3. \A p \in DOMAIN pointers0' : \E r \in 0 .. written' :
           /\ pointers0'[p] = p * Apart0' + r
           /\ \A i \in 0 .. written' - 1 : i < r <=> Highs'[i] < p * Apart0'
   BY <1>1, <1>10, <1>11
 <2> QED BY <2>1, <2>2, <2>3 DEF PlainWritten
<1>14. PlainStands(enum, n)'
 <2>1. PICK x : enum = x  OBVIOUS
 <2>2. x = [position |-> n, value |-> universe, high |-> [at |-> 0, ones |-> {}]] /\ enum' = x
   BY <1>1, <1>2, <2>1
 <2>3. ValueAt(n) = universe /\ x.high = [at |-> 0, ones |-> {}] /\ ~(n < n) /\ n \in Nat
   BY <1>3, <2>2 DEF ValueAt
 <2>4. PlainStands(x, n)  BY <1>3, <2>2, <2>3 DEF PlainStands
 <2> QED BY <1>1, <1>2, <1>11, <2>2, <2>4 DEF PlainStands
<1>15. PlainSpot' = PlainSpot  BY <1>1, <1>2 DEF PlainSpot
<1> QED BY <1>1, <1>2, <1>13, <1>14, <1>15 DEF PlainInv

LEMMA PlainReads ==
  ASSUME PlainInv, Plain!Move \/ Plain!NextGeq \/ Plain!Advance
  PROVE PlainInv' /\ sequence' = sequence /\ Goes(sequence, PlainSpot, PlainSpot')
<1>1. phase = "read" /\ UNCHANGED <<sequence, phase, written, bits, lows, pointers0, pointers1>>
  BY DEF Plain!Move, Plain!NextGeq, Plain!Advance, Plain!Calls
<1>2. PICK x, q : enum = x /\ PlainStands(x, q)  BY <1>1 DEF PlainInv
<1>3. PlainStored /\ PlainSpot = q /\ q \in Nat /\ x.value = ValueAt(q) /\ x.position = q
  BY <1>1, <1>2 DEF PlainInv, PlainReach, PlainStored, PlainSpot, PlainStands
<1>4. Whole!Size(sequence) = n  BY SizeIs DEF n
<1>5. /\ n' = n /\ universe' = universe /\ \A p : ValueAt(p)' = ValueAt(p)
      /\ Abstract!IsSequence(sequence)'
  BY <1>1, <1>3, SameSequence DEF PlainStored
<1>0. /\ Scale' = Scale /\ Highs' = Highs /\ Places' = Places /\ Span' = Span /\ Zeros' = Zeros
      /\ Apart0' = Apart0 /\ Apart1' = Apart1
  BY <1>1, PlainSame
<1>6. ASSUME NEW r, PlainStands(enum', r) PROVE PlainInv' /\ PlainSpot' = r
 <2>1. PICK y : enum' = y /\ PlainStands(y, r)  BY <1>6
 <2>2. PlainStands(enum, r)'  BY <1>0, <1>1, <1>5, <2>1 DEF PlainStands
 <2>3. PlainReach' = PlainReach  BY <1>0, <1>1 DEF PlainReach
 <2>4. PlainWritten(PlainReach)'  BY <1>0, <1>1, <1>5, <2>3 DEF PlainInv, PlainWritten
 <2>5. PlainSpot' = r  BY <1>1, <2>1 DEF PlainSpot, PlainStands
 <2>6. written' = n' /\ \E p : PlainStands(enum, p)'  BY <1>1, <1>3, <1>5, <2>2 DEF PlainStored
 <2>7. PlainInv'  BY <1>1, <1>5, <2>4, <2>6 DEF PlainInv
 <2> QED BY <2>5, <2>7
<1>7. CASE Plain!Move
 <2>1. PICK p \in 0 .. n : call' = <<"move", p>> /\ enum' = Plain!Moved(enum, p)
   BY <1>7, PlainNames DEF Plain!Move, Plain!Calls
 <2>2. PlainStands(enum', p)  BY <1>2, <1>3, <2>1, PlainMoved
 <2>3. PlainInv' /\ PlainSpot' = p  BY <1>6, <2>2
 <2> QED BY <1>1, <1>4, <2>1, <2>3 DEF Goes
<1>8. CASE Plain!NextGeq
 <2>1. PICK bound \in 0 .. universe + Beyond :
          call' = <<"next_geq", bound>> /\ enum' = Plain!Geq(enum, bound)
   BY <1>8, PlainNames DEF Plain!NextGeq, Plain!Calls
 <2>2. bound \in Nat  BY <1>3, BoundIs DEF PlainStored
 <2>3. \/ PlainStands(enum', GeqFrom(q, bound))
       \/ Strays(q, bound) /\ PlainStands(enum', q + 1)
  <3>1. \/ PlainStands(Plain!Geq(x, bound), GeqFrom(q, bound))
        \/ Strays(q, bound) /\ PlainStands(Plain!Geq(x, bound), q + 1)
    BY <1>2, <1>3, <2>2, PlainGeq
  <3> QED BY <1>2, <2>1, <3>1
 <2>4. PICK r : PlainStands(enum', r) /\ (r = GeqFrom(q, bound) \/ (Strays(q, bound) /\ r = q + 1))
   BY <2>3
 <2>5. PlainInv' /\ PlainSpot' = r  BY <1>6, <2>4
 <2>6. Goes(sequence, q, r)  BY <2>1, <2>4, GeqGoes
 <2> QED BY <1>1, <1>3, <2>5, <2>6
<1>9. CASE Plain!Advance
 <2>1. q < n /\ call' = <<"next", 0>> /\ enum' = Plain!Advanced(enum)
   BY <1>2, <1>3, <1>9, PlainNames DEF Plain!Advance, Plain!Calls
 <2>2. PlainStands(enum', q + 1)  BY <1>2, <1>3, <2>1, PlainAdvanced
 <2>3. PlainInv' /\ PlainSpot' = q + 1  BY <1>6, <2>2
 <2> QED BY <1>1, <1>3, <1>4, <2>1, <2>3 DEF Goes
<1> QED BY <1>7, <1>8, <1>9

LEMMA PlainStays ==
  ASSUME PlainInv, UNCHANGED <<sequence, phase, written, bits, lows, pointers0, pointers1, enum>>
  PROVE PlainInv' /\ PlainSpot' = PlainSpot
<1>1. /\ n' = n /\ universe' = universe /\ \A p : ValueAt(p)' = ValueAt(p)
      /\ Abstract!IsSequence(sequence)'
  BY SameSequence DEF PlainInv
<1>2. /\ Scale' = Scale /\ Highs' = Highs /\ Places' = Places /\ Span' = Span /\ Zeros' = Zeros
      /\ Apart0' = Apart0 /\ Apart1' = Apart1
  BY PlainSame
<1>3. PlainReach' = PlainReach /\ NeverFalls' = NeverFalls  BY <1>1, <1>2 DEF PlainReach, NeverFalls
<1>4. PlainWritten(PlainReach)'  BY <1>1, <1>2, <1>3 DEF PlainInv, PlainWritten
<1>5. phase = "read" => \E q : PlainStands(enum, q)'
 <2> SUFFICES ASSUME phase = "read" PROVE \E q : PlainStands(enum, q)'  OBVIOUS
 <2>1. PICK x, q : enum = x /\ PlainStands(x, q)  BY DEF PlainInv
 <2>2. PlainStands(enum, q)'  BY <1>1, <1>2, <2>1 DEF PlainStands
 <2> QED BY <2>2
<1>6. PlainSpot' = PlainSpot  BY <1>1 DEF PlainSpot
<1> QED BY <1>1, <1>3, <1>4, <1>5, <1>6 DEF PlainInv

\* What the invariant says of the enumerator and of what is written.
LEMMA PlainShows ==
  ASSUME PlainInv
  PROVE Plain!View = Whole!At(sequence, PlainSpot) /\ PlainSpot \in Nat
<1>0. n \in Nat \ {0} /\ Whole!Size(sequence) = n
 <2>1. n \in Nat \ {0}  BY SequenceFacts DEF PlainInv
 <2> QED BY <2>1, SizeIs DEF n
<1>1. CASE phase = "read"
 <2>1. PICK x, q : enum = x /\ PlainStands(x, q)  BY <1>1 DEF PlainInv
 <2>2. PlainStored /\ PlainSpot = q /\ q \in Nat /\ x.position = q /\ x.value = ValueAt(q)
   BY <1>1, <2>1 DEF PlainInv, PlainReach, PlainStored, PlainSpot, PlainStands
 <2> DEFINE k == IF q > n THEN n ELSE q
            previous == IF q > n THEN sequence.values[n - 1] ELSE Plain!PrevValue(x)
 <2>3. previous = IF q = 0 THEN 0 ELSE sequence.values[k - 1]
  <3>1. CASE q > n  BY <1>0, <3>1
  <3>2. CASE ~(q > n)
   <4>1. q \in 0 .. n  BY <1>0, <2>2, <3>2
   <4>2. Plain!PrevValue(x) = IF q = 0 THEN 0 ELSE sequence.values[q - 1]
     BY <2>1, <2>2, <4>1, PlainPrevious
   <4> QED BY <3>2, <4>2
  <3> QED BY <3>1, <3>2
 <2>4. Plain!View = [position |-> q, value |-> ValueAt(q), previous |-> previous]
   BY <1>1, <2>1, <2>2, PlainNames DEF Plain!View
 <2> HIDE DEF previous
 <2>5. ValueAt(q) = IF q >= Whole!Size(sequence) THEN sequence.universe ELSE sequence.values[q]
   BY <1>0 DEF ValueAt, universe
 <2>6. Whole!At(sequence, q)
         = [position |-> q,
            value |-> IF q >= Whole!Size(sequence) THEN sequence.universe ELSE sequence.values[q],
            previous |-> IF q = 0 THEN 0 ELSE sequence.values[k - 1]]
   BY <1>0 DEF Whole!At
 <2> QED BY <2>2, <2>3, <2>4, <2>5, <2>6
<1>2. CASE phase # "read"
 <2>2. PlainSpot = n /\ n \in Nat  BY <1>0, <1>2 DEF PlainSpot
 <2>3. Plain!View = [position |-> n, value |-> sequence.universe, previous |-> sequence.values[n - 1]]
   BY <1>2, PlainNames DEF Plain!View, universe
 <2> QED BY <1>0, <2>2, <2>3 DEF Whole!At
<1> QED BY <1>1, <1>2

LEMMA PlainTyped ==
  ASSUME PlainInv
  PROVE Plain!TypeOK
<1>1. /\ n \in Nat \ {0} /\ Span \in Nat /\ Zeros \in Nat /\ Zeros = Span - n
      /\ \A i \in 0 .. n - 1 : Places[i] \in 1 .. Span - 1 /\ Highs[i] \in Nat /\ Highs[i] + 1 <= Zeros
      /\ 1 <= Zeros
 <2>1. n \in Nat \ {0} /\ Abstract!IsSequence(sequence)  BY SequenceFacts DEF PlainInv
 <2>2. PICK u : u = universe \div Scale  OBVIOUS
 <2>3. u \in Nat /\ Span \in Nat /\ Zeros = u + 2  BY <2>1, <2>2, PlacesFacts
 <2>4. \A i \in 0 .. n - 1 : Places[i] \in 1 .. Span - 1 /\ Highs[i] \in Nat /\ Highs[i] <= u
   BY <2>1, <2>2, PlacesFacts
 <2> QED BY <2>1, <2>3, <2>4 DEF Zeros
<1>2. PICK reach : reach = PlainReach  OBVIOUS
<1>3. PlainWritten(reach) /\ reach \in Nat /\ reach <= Zeros
 <2>1. PlainWritten(reach) /\ written \in 0 .. n  BY <1>2 DEF PlainInv, PlainWritten
 <2>2. CASE phase = "read"  BY <1>1, <1>2, <2>1, <2>2 DEF PlainReach
 <2>3. CASE phase # "read" /\ written = 0  BY <1>1, <1>2, <2>1, <2>3 DEF PlainReach
 <2>4. CASE phase # "read" /\ written # 0
  <3>1. written - 1 \in 0 .. n - 1 /\ reach = Highs[written - 1] + 1
    BY <1>1, <1>2, <2>1, <2>4 DEF PlainReach
  <3> QED BY <1>1, <2>1, <3>1
 <2> QED BY <2>2, <2>3, <2>4
<1>4. phase \in {"write", "thrown", "read"} /\ written \in 0 .. n /\ bits \subseteq 1 .. Span - 1
 <2>1. ASSUME NEW b \in bits PROVE b \in 1 .. Span - 1
  <3>1. PICK i \in 0 .. written - 1 : b = Places[i]  BY <1>3, <2>1 DEF PlainWritten, Image
  <3>2. i \in 0 .. n - 1  BY <1>1, <1>3 DEF PlainWritten
  <3> QED BY <1>1, <3>1, <3>2
 <2> QED BY <1>3, <2>1 DEF PlainInv, PlainWritten
<1>5. Plain!Pointers0 = Zeros \div Apart0 /\ Plain!Pointers1 = n \div Apart1
      /\ Plain!HigherBitsLength = Span /\ Plain!Outside = Span
      /\ Apart0 \in Nat \ {0} /\ Apart1 \in Nat \ {0}
 <2>1. Apart0 \in Nat \ {0} /\ 2 ^ LogSampling0 = Apart0 /\ Apart1 \in Nat \ {0} /\ 2 ^ LogSampling1 = Apart1
   BY PlainPowers
 <2>2. Plain!HigherBitsLength = Span /\ Plain!Outside = Span  BY PlainScale DEF PlainInv
 <2>3. Plain!n = n  BY PlainNames
 <2>4. Plain!HigherBitsLength - Plain!n = Zeros  BY <2>2, <2>3 DEF Zeros
 <2>5. Plain!Pointers0 = Zeros \div Apart0  BY <2>1, <2>4, Zenon DEF Plain!Pointers0
 <2>6. Plain!Pointers1 = n \div Apart1  BY <2>1, <2>3, Zenon DEF Plain!Pointers1
 <2> QED BY <2>1, <2>2, <2>5, <2>6
<1>6. ASSUME NEW p \in DOMAIN pointers0 PROVE p \in 1 .. Zeros \div Apart0
 <2>1. p \in 1 .. Span /\ p * Apart0 < reach  BY <1>3 DEF PlainWritten
 <2>2. PICK a \in Nat : a = p * Apart0  BY <1>5, <2>1
 <2>3. p \in Nat /\ p * Apart0 <= Zeros  BY <1>1, <1>3, <2>1, <2>2
 <2>4. p <= Zeros \div Apart0  BY <1>1, <1>5, <2>3, MultipleWithin
 <2>5. Zeros \div Apart0 \in Nat  BY <1>1, <1>5, DivFacts
 <2> QED BY <2>1, <2>4, <2>5
<1>7. ASSUME NEW p \in DOMAIN pointers1 PROVE p \in 1 .. n \div Apart1
 <2>1. p \in 1 .. n /\ p * Apart1 < written  BY <1>3 DEF PlainWritten
 <2>2. PICK a \in Nat : a = p * Apart1  BY <1>5, <2>1
 <2>3. p \in Nat /\ p * Apart1 <= n  BY <1>1, <1>4, <2>1, <2>2
 <2>4. p <= n \div Apart1  BY <1>1, <1>5, <2>3, MultipleWithin
 <2>5. n \div Apart1 \in Nat  BY <1>1, <1>5, DivFacts
 <2> QED BY <2>1, <2>4, <2>5
<1>8. enum.position \in Nat /\ enum.high.at \in 0 .. Span
 <2>1. CASE phase = "read"
  <3>1. PICK x, q : enum = x /\ PlainStands(x, q)  BY <2>1 DEF PlainInv
  <3>2. x.position = q /\ q \in Nat /\ x.high.at \in 0 .. Span  BY <3>1 DEF PlainStands
  <3> QED BY <1>1, <3>1, <3>2
 <2>2. CASE phase # "read"  BY <1>1, <2>2 DEF PlainInv
 <2> QED BY <2>1, <2>2
<1> QED BY <1>4, <1>5, <1>6, <1>7, <1>8, PlainNames DEF Plain!TypeOK

LEMMA PlainConsumed ==
  ASSUME PlainInv
  PROVE Plain!CursorConsumed
<1> SUFFICES ASSUME phase = "read", enum.position < n
             PROVE enum.high = [at |-> Plain!HighOf(enum.position),
                                ones |-> {b \in bits : b > Plain!HighOf(enum.position)}]
  BY PlainNames DEF Plain!CursorConsumed
<1>1. PICK x, q : enum = x /\ PlainStands(x, q)  BY DEF PlainInv
<1>2. PlainStored /\ q \in Nat /\ x.position = q
  BY <1>1 DEF PlainInv, PlainReach, PlainStored, PlainStands
<1>3. n \in Nat /\ Increases(Places, n) /\ bits = Image(Places, 0, n) /\ Abstract!IsSequence(sequence)
  BY <1>2, PlainFacts
<1>4. q \in 0 .. n - 1 /\ n \in 0 .. n /\ 0 \in 0 .. n /\ q < n  BY <1>1, <1>2, <1>3
<1>5. x.high = [at |-> Places[q], ones |-> Image(Places, q + 1, n)]  BY <1>1, <1>4 DEF PlainStands
<1>6. {b \in Image(Places, 0, n) : b > Places[q]} = Image(Places, q + 1, n)
  BY <1>3, <1>4, ImageRank
<1>7. Plain!HighOf(q) = Places[q]  BY <1>3, <1>4, PlainScale
<1> QED BY <1>1, <1>2, <1>3, <1>5, <1>6, <1>7

LEMMA PlainCoded ==
  ASSUME PlainInv
  PROVE Plain!OnlySortedIsStored /\ Plain!SamplesExact
<1>1. Plain!OnlySortedIsStored
 <2>1. phase = "read" => NeverFalls
  <3> SUFFICES ASSUME phase = "read", NEW i \in 1 .. n - 1 PROVE sequence.values[i - 1] <= sequence.values[i]
    BY DEF NeverFalls
  <3>1. Ordered(sequence.values, n) /\ n \in Nat  BY SequenceFacts DEF PlainInv, PlainWritten
  <3>2. i - 1 \in 0 .. n - 1 /\ i \in 0 .. n - 1 /\ i - 1 <= i  BY <3>1
  <3> QED BY <3>1, <3>2 DEF Ordered
 <2>2. NeverFalls <=> \A i \in 1 .. Plain!n - 1 : sequence.values[i - 1] <= sequence.values[i]
   BY PlainNames DEF NeverFalls
 <2> QED BY <2>1, <2>2 DEF PlainInv, Plain!OnlySortedIsStored
<1>2. ASSUME phase = "read" PROVE PlainStored  BY <1>2 DEF PlainInv, PlainReach, PlainStored
<1> DEFINE zeros == (0 .. Plain!HigherBitsLength - 1) \ bits
<1>3. ASSUME phase = "read"
      PROVE zeros = Image(Gaps, 0, Zeros) /\ Cardinality(zeros) = Zeros
 <2>1. PlainStored  BY <1>2, <1>3
 <2>2. Ordered(sequence.values, n) /\ bits = Image(Places, 0, n) /\ Abstract!IsSequence(sequence) /\ Zeros \in Nat
   BY <2>1, PlainFacts
 <2>3. Increases(Gaps, Zeros) /\ (0 .. Span - 1) \ Image(Places, 0, n) = Image(Gaps, 0, Zeros)
   BY <2>2, GapsFacts
 <2>4. Plain!HigherBitsLength = Span  BY <2>2, PlainScale
 <2>5. zeros = Image(Gaps, 0, Zeros)  BY <2>2, <2>3, <2>4
 <2>6. Zeros \in 0 .. Zeros /\ 0 \in 0 .. Zeros /\ Zeros - 0 = Zeros  BY <2>2
 <2>7. Cardinality(Image(Gaps, 0, Zeros)) = Zeros - 0  BY <2>2, <2>3, <2>6, ImageFacts
 <2> QED BY <2>5, <2>6, <2>7
<1>4. ASSUME phase = "read", NEW p \in 1 .. Plain!Pointers0, p * 2 ^ LogSampling0 < Cardinality(zeros)
      PROVE Plain!Sample(pointers0, p) = Plain!Kth(zeros, p * 2 ^ LogSampling0)
 <2>1. PlainStored  BY <1>2, <1>4
 <2>2. /\ Span \in Nat /\ Zeros \in Nat /\ Ordered(sequence.values, n) /\ Ordered(Highs, n) /\ n \in Nat
       /\ Abstract!IsSequence(sequence) /\ Zeros = Span - n
   BY <2>1, PlainFacts DEF Zeros
 <2>3. Apart0 \in Nat \ {0} /\ 2 ^ LogSampling0 = Apart0  BY PlainPowers
 <2>4. PICK a : a = p * 2 ^ LogSampling0  OBVIOUS
 <2>5. p \in Nat /\ p # 0 /\ a = p * Apart0 /\ a \in Nat /\ p <= a /\ a < Zeros
  <3>1. p \in Nat /\ p # 0
   <4>1. Plain!Pointers0 \in Nat
    <5>1. Plain!HigherBitsLength - Plain!n = Zeros  BY <2>2, PlainScale, PlainNames
    <5>2. Plain!Pointers0 = Zeros \div Apart0  BY <2>3, <5>1, Zenon DEF Plain!Pointers0
    <5> QED BY <2>2, <2>3, <5>2, DivFacts
   <4> QED BY <4>1
  <3>2. a = p * Apart0  BY <2>3, <2>4, Zenon
  <3>3. a \in Nat /\ p <= a  BY <2>3, <3>1, <3>2, TimesGrows
  <3>4. a < Zeros
   <4>1. Cardinality(zeros) = Zeros  BY <1>3, <1>4
   <4> QED BY <1>4, <2>4, <4>1, Zenon
  <3> QED BY <3>1, <3>2, <3>3, <3>4
 <2>6. p \in DOMAIN pointers0
  <3>1. p \in 1 .. Span  BY <2>2, <2>5
  <3> QED BY <2>1, <2>5, <3>1 DEF PlainStored, PlainWritten
 <2>7. PICK r \in 0 .. n : pointers0[p] = a + r /\ \A i \in 0 .. n - 1 : i < r <=> Highs[i] < a
   BY <2>1, <2>5, <2>6 DEF PlainStored, PlainWritten
 <2>8. Below(Highs, n, a) = r  BY <2>2, <2>5, <2>7, BelowFacts
 <2>9. a \in 0 .. Zeros - 1 /\ 0 \in 0 .. n - 1 /\ 0 + a = a /\ 0 \in 0 .. Zeros
  <3>1. n # 0  BY <2>1, PlainFacts
  <3> QED BY <2>2, <2>5, <3>1
 <2>10. Gaps[a] = a + r /\ Increases(Gaps, Zeros)
  <3>1. Gaps[a] = a + Below(Highs, n, a) /\ Increases(Gaps, Zeros)  BY <2>2, <2>9, GapsFacts
  <3> QED BY <2>8, <3>1
 <2>11. Plain!Kth(zeros, a) = NthOr(zeros, a, Span)  BY <2>2, PlainUnary
 <2>12. NthOr(Image(Gaps, 0, Zeros), a, Span) = Gaps[a]
  <3>1. NthOr(Image(Gaps, 0, Zeros), a, Span) = IF 0 + a < Zeros THEN Gaps[0 + a] ELSE Span
    BY <2>2, <2>5, <2>9, <2>10, NthOrIs
  <3> QED BY <2>5, <2>9, <3>1
 <2>13. zeros = Image(Gaps, 0, Zeros)  BY <1>3, <1>4
 <2>14. Plain!Sample(pointers0, p) = pointers0[p]  BY <2>5, <2>6 DEF Plain!Sample
 <2>15. Plain!Sample(pointers0, p) = Plain!Kth(zeros, a)
  <3> HIDE DEF zeros
  <3> QED BY <2>7, <2>10, <2>11, <2>12, <2>13, <2>14
 <2> QED BY <2>4, <2>15, Zenon
<1>5. ASSUME phase = "read", NEW p \in 1 .. Plain!Pointers1, p * 2 ^ LogSampling1 < n
      PROVE Plain!Sample(pointers1, p) = Plain!Kth(bits, p * 2 ^ LogSampling1)
 <2>1. PlainStored  BY <1>2, <1>5
 <2>2. n \in Nat /\ Increases(Places, n) /\ bits = Image(Places, 0, n) /\ Abstract!IsSequence(sequence)
   BY <2>1, PlainFacts
 <2>3. Apart1 \in Nat \ {0} /\ 2 ^ LogSampling1 = Apart1  BY PlainPowers
 <2>4. PICK a : a = p * 2 ^ LogSampling1  OBVIOUS
 <2>5. p \in Nat /\ p # 0 /\ a = p * Apart1 /\ a \in Nat /\ p <= a /\ a < n
  <3>1. p \in Nat /\ p # 0
   <4>1. Plain!Pointers1 \in Nat
    <5>1. Plain!Pointers1 = n \div Apart1  BY <2>3, PlainNames, Zenon DEF Plain!Pointers1
    <5> QED BY <2>2, <2>3, <5>1, DivFacts
   <4> QED BY <4>1
  <3>2. a = p * Apart1  BY <2>3, <2>4, Zenon
  <3>3. a \in Nat /\ p <= a  BY <2>3, <3>1, <3>2, TimesGrows
  <3>4. a < n  BY <1>5, <2>4, Zenon
  <3> QED BY <3>1, <3>2, <3>3, <3>4
 <2>6. p \in DOMAIN pointers1 /\ pointers1[p] = Places[a]
  <3>1. p \in 1 .. n  BY <2>2, <2>5
  <3>2. p \in DOMAIN pointers1  BY <2>1, <2>5, <3>1 DEF PlainStored, PlainWritten
  <3> QED BY <2>1, <2>5, <3>2 DEF PlainStored, PlainWritten
 <2>7. Plain!Kth(bits, a) = NthOr(bits, a, Span)  BY <2>2, PlainUnary
 <2>8. NthOr(Image(Places, 0, n), a, Span) = Places[a]
  <3>1. 0 \in 0 .. n /\ 0 + a = a  BY <2>2, <2>5
  <3>2. NthOr(Image(Places, 0, n), a, Span) = IF 0 + a < n THEN Places[0 + a] ELSE Span
    BY <2>2, <2>5, <3>1, NthOrIs
  <3> QED BY <2>5, <3>1, <3>2
 <2>9. Plain!Sample(pointers1, p) = pointers1[p]  BY <2>5, <2>6 DEF Plain!Sample
 <2>10. Plain!Sample(pointers1, p) = Plain!Kth(bits, a)  BY <2>2, <2>6, <2>7, <2>8, <2>9
 <2> QED BY <2>4, <2>10, Zenon
<1>6. Plain!SamplesExact
 <2>1. Plain!n = n /\ \A S : Plain!Cardinality(S) = Cardinality(S)  BY PlainNames
 <2>2. phase = "read" => \A p \in 1 .. Plain!Pointers0 :
           p * 2 ^ LogSampling0 < Plain!Cardinality(zeros)
               => Plain!Sample(pointers0, p) = Plain!Kth(zeros, p * 2 ^ LogSampling0)
  <3> HIDE DEF zeros
  <3> QED BY <1>4, <2>1, Zenon
 <2>3. phase = "read" => \A p \in 1 .. Plain!Pointers1 :
           p * 2 ^ LogSampling1 < Plain!n => Plain!Sample(pointers1, p) = Plain!Kth(bits, p * 2 ^ LogSampling1)
   BY <1>5, <2>1, Zenon
 <2> QED BY <2>2, <2>3, Zenon DEF Plain!SamplesExact
<1> QED BY <1>1, <1>6

------------------------------
(* strict_elias_fano: increasing values minus their positions, which are *)
(* values of a sequence that never falls. *)

\* Increasing numbers are at least their positions, and as many fit above each of them as there
\* are.
LEMMA IncreasingIsSpread ==
  ASSUME NEW m \in Nat, NEW f, NEW u \in Nat,
         \A i \in 0 .. m - 1 : f[i] \in Nat /\ f[i] < u,
         \A i, j \in 0 .. m - 1 : i < j => f[i] < f[j]
  PROVE \A i \in 0 .. m - 1 : i <= f[i] /\ f[i] + (m - i) <= u
<1>1. ASSUME NEW i \in 0 .. m - 1 PROVE f[i] >= i
 <2> DEFINE S == {j \in 0 .. m - 1 : f[j] < j}
 <2> SUFFICES ASSUME S # {} PROVE FALSE  OBVIOUS
 <2>1. PICK j \in S : \A y \in S : j <= y
  <3>1. S \subseteq Nat  OBVIOUS
  <3> QED BY <3>1, LeastNat
 <2>2. j > 0 /\ j - 1 \in 0 .. m - 1 /\ j - 1 \notin S  BY <2>1
 <2> QED BY <2>1, <2>2
<1>2. ASSUME NEW i \in 0 .. m - 1 PROVE f[i] + (m - i) <= u
 <2> DEFINE S == {j \in 0 .. m - 1 : f[j] + (m - j) > u}
 <2> SUFFICES ASSUME S # {} PROVE FALSE  OBVIOUS
 <2>1. PICK j \in S : \A y \in S : y <= j
  <3>1. S \subseteq Nat /\ \A x \in S : x <= m  OBVIOUS
  <3> HIDE DEF S
  <3> QED BY <3>1, GreatestNat
 <2>2. CASE j = m - 1  BY <2>1, <2>2
 <2>3. CASE j # m - 1
  <3>1. j + 1 \in 0 .. m - 1 /\ j + 1 \notin S /\ j < j + 1  BY <2>1, <2>3
  <3> QED BY <2>1, <3>1
 <2> QED BY <2>2, <2>3
<1> QED BY <1>1, <1>2

LEMMA ShiftedIs ==
  ASSUME OfOriginal
  PROVE /\ Abstract!IsSequence(sequence) /\ Plain!ShiftedFits
        /\ n = Abstract!Size(original) /\ original.universe \in Nat /\ universe + n = original.universe + 1
        /\ DOMAIN original.values = 0 .. n - 1
        /\ \A i \in 0 .. n - 1 : original.values[i] \in Nat /\ sequence.values[i] + i = original.values[i]
<1>1. PICK m, u, f : m = Abstract!Size(original) /\ u = original.universe /\ f = original.values
  OBVIOUS
<1>2. /\ m \in Nat \ {0} /\ u \in Nat /\ f \in [0 .. m - 1 -> 0 .. u - 1]
      /\ \A i, j \in DOMAIN f : i < j => f[i] < f[j]
  BY <1>1 DEF OfOriginal, Abstract!IsIncreasing, Abstract!IsSequence
<1>3. DOMAIN f = 0 .. m - 1 /\ \A i \in 0 .. m - 1 : f[i] \in Nat /\ f[i] < u  BY <1>2
<1>4. \A i \in 0 .. m - 1 : i <= f[i] /\ f[i] + (m - i) <= u  BY <1>2, <1>3, IncreasingIsSpread
<1>5. Cardinality(DOMAIN f) = m /\ Cardinality(0 .. m - 1) = m  BY <1>1, <1>3, SizeIs
<1>6. PICK g, w : g = [i \in 0 .. m - 1 |-> f[i] - i] /\ w = u - m + 1  OBVIOUS
<1>7. sequence = [values |-> g, universe |-> w]
 <2>1. sequence = [values |-> [i \in DOMAIN f |-> f[i] - i], universe |-> u - Cardinality(DOMAIN f) + 1]
   BY <1>1, PlainNames DEF OfOriginal, Plain!Shifted
 <2> QED BY <1>3, <1>5, <1>6, <2>1
<1>8. m <= u /\ w \in Nat
 <2>1. 0 \in 0 .. m - 1  BY <1>2
 <2>2. f[0] \in Nat /\ f[0] + (m - 0) <= u  BY <1>3, <1>4, <2>1
 <2> QED BY <1>2, <1>6, <2>2
<1>9. DOMAIN g = 0 .. m - 1 /\ \A i \in 0 .. m - 1 : g[i] \in 0 .. w - 1 /\ g[i] \in Nat /\ g[i] < w /\ g[i] + i = f[i]
 <2>1. ASSUME NEW i \in 0 .. m - 1
       PROVE f[i] - i \in 0 .. w - 1 /\ f[i] - i \in Nat /\ f[i] - i < w /\ (f[i] - i) + i = f[i]
  <3>1. PICK x : x = f[i]  OBVIOUS
  <3>2. x \in Nat /\ i <= x /\ x + (m - i) <= u /\ i \in Nat  BY <1>3, <1>4, <3>1
  <3> QED BY <1>2, <1>6, <3>1, <3>2
 <2> QED BY <1>6, <2>1
<1>10. g \in [0 .. m - 1 -> 0 .. w - 1]
 <2>1. g = [i \in 0 .. m - 1 |-> g[i]]  BY <1>6, <1>9
 <2> QED BY <1>9, <2>1
<1>11. sequence.values = g /\ sequence.universe = w  BY <1>7
<1>12. Abstract!Size(sequence) = m  BY <1>5, <1>9, <1>11, SizeIs
<1>13. Abstract!IsSequence(sequence)  BY <1>2, <1>8, <1>10, <1>11, <1>12 DEF Abstract!IsSequence
<1>14. n = m /\ universe = w  BY <1>11, <1>12 DEF n, universe
<1>15. Plain!ShiftedFits  BY <1>9, <1>11 DEF Plain!ShiftedFits
<1>16. universe + n = original.universe + 1 /\ original.universe \in Nat  BY <1>1, <1>2, <1>6, <1>14
<1> QED BY <1>1, <1>3, <1>9, <1>11, <1>13, <1>14, <1>15, <1>16

\* It has no next_geq: its enumerator never strays.
LEMMA StrictShows ==
  ASSUME PlainInv, OfOriginal, PlainSpot <= n
  PROVE Plain!StrictView(original) = Whole!At([original EXCEPT !.universe = @ + 1], PlainSpot)
<1>1. /\ n \in Nat \ {0} /\ n = Abstract!Size(original) /\ universe + n = original.universe + 1
      /\ universe \in Nat
      /\ \A i \in 0 .. n - 1 : original.values[i] \in Nat /\ sequence.values[i] + i = original.values[i]
      /\ \A i \in 0 .. n - 1 : sequence.values[i] \in Nat
 <2>1. Abstract!IsSequence(sequence) /\ n = Abstract!Size(original) /\ universe + n = original.universe + 1
       /\ \A i \in 0 .. n - 1 : original.values[i] \in Nat /\ sequence.values[i] + i = original.values[i]
   BY ShiftedIs
 <2>2. n \in Nat \ {0} /\ universe \in Nat /\ \A i \in 0 .. n - 1 : sequence.values[i] \in Nat
   BY <2>1, SequenceFacts
 <2> QED BY <2>1, <2>2
<1>2. PICK s : s = [original EXCEPT !.universe = @ + 1]  OBVIOUS
<1>3. s.values = original.values /\ s.universe = original.universe + 1  BY <1>2
<1>4. Whole!Size(s) = n  BY <1>1, <1>3, SizeIs
<1>5. CASE phase = "read"
 <2>1. PICK x, q : enum = x /\ PlainStands(x, q)  BY <1>5 DEF PlainInv
 <2>0. PlainStored /\ PlainSpot = q /\ q \in Nat /\ x.position = q /\ x.value = ValueAt(q)
   BY <1>5, <2>1 DEF PlainInv, PlainReach, PlainStored, PlainSpot, PlainStands
 <2>2. PlainStored /\ PlainSpot = q /\ q \in 0 .. n /\ x.position = q /\ x.value = ValueAt(q)
   BY <1>1, <2>0
 <2>3. Plain!PrevValue(x) = IF q = 0 THEN 0 ELSE sequence.values[q - 1]
   BY <2>1, <2>2, PlainPrevious
 <2>4. PICK a, b : a = ValueAt(q) /\ b = Plain!PrevValue(x)  OBVIOUS
 <2>5. Plain!StrictView(original)
         = [position |-> q, value |-> a + q, previous |-> IF q = 0 THEN 0 ELSE b + q - 1]
  <3>1. enum.position = q /\ enum.value = a /\ Plain!PrevValue(enum) = b  BY <2>1, <2>2, <2>4
  <3> QED BY <1>5, <3>1 DEF Plain!StrictView, Plain!StrictPrevValue
 <2>6. a + q = IF q = n THEN s.universe ELSE s.values[q]
  <3>1. CASE q = n
   <4>1. q >= n  BY <1>1, <3>1
   <4>2. a = universe  BY <2>4, <4>1 DEF ValueAt
   <4> QED BY <1>1, <1>3, <3>1, <4>2
  <3>2. CASE q # n
   <4>0. q \in 0 .. n - 1 /\ ~(q >= n)  BY <1>1, <2>2, <3>2
   <4>1. q \in 0 .. n - 1 /\ a = sequence.values[q]  BY <2>4, <4>0 DEF ValueAt
   <4> QED BY <1>1, <1>3, <3>2, <4>1
  <3> QED BY <3>1, <3>2
 <2>7. (IF q = 0 THEN 0 ELSE b + q - 1) = IF q = 0 THEN 0 ELSE s.values[q - 1]
  <3>1. CASE q # 0
   <4>1. q - 1 \in 0 .. n - 1 /\ b = sequence.values[q - 1]  BY <1>1, <2>2, <2>3, <2>4, <3>1
   <4>2. sequence.values[q - 1] + (q - 1) = original.values[q - 1] /\ sequence.values[q - 1] \in Nat
     BY <1>1, <4>1
   <4>3. b + q - 1 = s.values[q - 1]  BY <1>3, <2>2, <4>1, <4>2
   <4> QED BY <3>1, <4>3
  <3> QED BY <3>1
 <2>8. Whole!At(s, q) = [position |-> q,
                         value |-> IF q = n THEN s.universe ELSE s.values[q],
                         previous |-> IF q = 0 THEN 0 ELSE s.values[q - 1]]
  <3>1. (q >= n <=> q = n) /\ ~(q > n)  BY <1>1, <2>2
  <3> QED BY <1>4, <3>1 DEF Whole!At
 <2> QED BY <1>2, <2>2, <2>5, <2>6, <2>7, <2>8
<1>6. CASE phase # "read"
 <2>1. PlainSpot = n /\ n >= n /\ ~(n > n) /\ n # 0  BY <1>1, <1>6 DEF PlainSpot
 <2>2. Plain!StrictView(original)
         = [position |-> n, value |-> universe + n, previous |-> original.values[n - 1]]
   BY <1>6, PlainNames DEF Plain!StrictView
 <2> QED BY <1>1, <1>2, <1>3, <1>4, <2>1, <2>2 DEF Whole!At
<1> QED BY <1>5, <1>6

LEMMA StrictReads ==
  ASSUME PlainInv, OfOriginal, Plain!Move \/ Plain!Advance
  PROVE /\ PlainInv' /\ sequence' = sequence /\ PlainSpot' <= n
        /\ Goes([original EXCEPT !.universe = @ + 1], PlainSpot, PlainSpot')
<1>1. PlainInv' /\ sequence' = sequence /\ Goes(sequence, PlainSpot, PlainSpot')  BY PlainReads
<1>2. call'[1] = "move" \/ call'[1] = "next"  BY DEF Plain!Move, Plain!Advance, Plain!Calls
<1>3. PICK s, q, r : s = [original EXCEPT !.universe = @ + 1] /\ q = PlainSpot /\ r = PlainSpot'
  OBVIOUS
<1>4. Whole!Size(s) = n /\ Whole!Size(sequence) = n /\ n \in Nat /\ q \in Nat
 <2>1. s.values = original.values  BY <1>3
 <2>2. n = Abstract!Size(original) /\ n \in Nat  BY ShiftedIs, SequenceFacts
 <2>3. q \in Nat  BY <1>3, PlainShows
 <2> QED BY <2>1, <2>2, <2>3, SizeIs DEF n
<1>5. \/ \E p \in 0 .. n : call' = <<"move", p>> /\ r = p
      \/ q < n /\ call' = <<"next", 0>> /\ r = q + 1
  BY <1>1, <1>2, <1>3, <1>4 DEF Goes
<1>6. Goes(s, q, r)  BY <1>4, <1>5 DEF Goes
<1>7. r <= n  BY <1>4, <1>5
<1> QED BY <1>1, <1>3, <1>6, <1>7

------------------------------
(* IndexedSequence. *)

LEMMA IndexedNames ==
  /\ Indexed!n = n /\ Indexed!u0 = universe
  /\ \A S : Indexed!Cardinality(S) = Cardinality(S) /\ Indexed!Min(S) = Min(S)
  /\ \A x : Indexed!CeilLog2(x) = CeilLog2(x) /\ Indexed!Msb(x) = Msb(x)
  /\ \A s : Indexed!Abstract!Size(s) = Whole!Size(s)
  /\ \A s, p : Indexed!Abstract!At(s, p) = Whole!At(s, p)
  /\ \A s, v : Indexed!Abstract!FirstGeq(s, v) = Whole!FirstGeq(s, v)
  /\ \A s : Indexed!Abstract!IsIncreasing(s) <=> Abstract!IsIncreasing(s)
<1>1. \A S : Indexed!Cardinality(S) = Cardinality(S) /\ Indexed!Min(S) = Min(S)
  BY DEF Indexed!Cardinality, Cardinality, Indexed!Min, Min
<1>2. \A x : Indexed!CeilLog2(x) = CeilLog2(x) /\ Indexed!Msb(x) = Msb(x)
  BY DEF Indexed!CeilLog2, CeilLog2, Indexed!Msb, Msb
<1>3. \A S : /\ Indexed!Abstract!Cardinality(S) = Cardinality(S) /\ Whole!Cardinality(S) = Cardinality(S)
             /\ Abstract!Cardinality(S) = Cardinality(S)
  BY DEF Indexed!Abstract!Cardinality, Whole!Cardinality, Abstract!Cardinality, Cardinality
<1>4. \A s : Indexed!Abstract!Size(s) = Whole!Size(s) /\ Abstract!Size(s) = Whole!Size(s)
  BY <1>3 DEF Indexed!Abstract!Size, Whole!Size, Abstract!Size
<1>5. \A S : Indexed!Abstract!Min(S) = Min(S) /\ Whole!Min(S) = Min(S)
  BY DEF Indexed!Abstract!Min, Whole!Min, Min
<1>6. \A s, p : Indexed!Abstract!At(s, p) = Whole!At(s, p)
  BY <1>4 DEF Indexed!Abstract!At, Whole!At
<1>7. \A s, v : Indexed!Abstract!FirstGeq(s, v) = Whole!FirstGeq(s, v)
  BY <1>4, <1>5 DEF Indexed!Abstract!FirstGeq, Whole!FirstGeq
<1>8. ASSUME NEW s PROVE Indexed!Abstract!IsIncreasing(s) <=> Abstract!IsIncreasing(s)
 <2>1. Indexed!Abstract!Size(s) = Abstract!Size(s)  BY <1>4
 <2> QED BY <2>1 DEF Indexed!Abstract!IsIncreasing, Abstract!IsIncreasing, Indexed!Abstract!IsSequence, Abstract!IsSequence
<1>9. Indexed!n = n /\ Indexed!u0 = universe  BY <1>4 DEF Indexed!n, n, Indexed!u0, universe
<1> QED BY <1>1, <1>2, <1>4, <1>6, <1>7, <1>8, <1>9

LEMMA IndexedSequenceFacts ==
  ASSUME sequence \in IndexedInputs
  PROVE /\ Abstract!IsSequence(sequence) /\ Increases(sequence.values, n)
        /\ n \in Nat \ {0} /\ universe \in Nat /\ n <= universe
        /\ (universe = n => sequence.values = [i \in 0 .. n - 1 |-> i])
<1>1. Abstract!IsSequence(sequence) /\ \A i, j \in DOMAIN sequence.values : i < j => sequence.values[i] < sequence.values[j]
  BY SequencesAssumption, IndexedNames DEF Indexed!InputsAssumption, Abstract!IsIncreasing
<1>2. /\ n \in Nat \ {0} /\ universe \in Nat /\ DOMAIN sequence.values = 0 .. n - 1
      /\ \A i \in 0 .. n - 1 : sequence.values[i] \in Nat /\ sequence.values[i] < universe
  BY <1>1, SequenceFacts
<1>3. \A i, j \in 0 .. n - 1 : i < j => sequence.values[i] < sequence.values[j]  BY <1>1, <1>2
<1>4. Increases(sequence.values, n)  BY <1>2, <1>3 DEF Increases
<1>5. PICK m, u, f : m = n /\ u = universe /\ f = sequence.values  OBVIOUS
<1>6. n <= universe
 <2>1. /\ m \in Nat /\ u \in Nat /\ \A i \in 0 .. m - 1 : f[i] \in Nat /\ f[i] < u
       /\ \A i, j \in 0 .. m - 1 : i < j => f[i] < f[j]
   BY <1>2, <1>3, <1>5
 <2>2. \A i \in 0 .. m - 1 : i <= f[i] /\ f[i] + (m - i) <= u  BY <2>1, IncreasingIsSpread
 <2>3. 0 \in 0 .. m - 1  BY <1>2, <1>5
 <2>4. f[0] \in Nat /\ f[0] + (m - 0) <= u  BY <2>1, <2>2, <2>3
 <2> QED BY <1>5, <2>1, <2>4
<1>7. ASSUME u = m PROVE f = [i \in 0 .. m - 1 |-> i]
 <2>1. m \in Nat /\ f \in [0 .. m - 1 -> 0 .. sequence.universe - 1]
   BY <1>1, <1>2, <1>5 DEF Abstract!IsSequence, n
 <2>2. f = [i \in 0 .. m - 1 |-> f[i]] /\ \A i \in 0 .. m - 1 : f[i] \in Nat  BY <1>2, <1>5, <2>1
 <2>3. f \in [0 .. m - 1 -> Nat]  BY <2>2
 <2>4. /\ \A i \in 0 .. m - 1 : f[i] < m
       /\ \A i, j \in 0 .. m - 1 : i < j => f[i] < f[j]
   BY <1>2, <1>3, <1>5, <1>7
 <2> QED BY <2>1, <2>3, <2>4, FullIsIdentity
<1> QED BY <1>1, <1>2, <1>4, <1>5, <1>6, <1>7

\* Sizes are numbers, and what is impossible costs more.
LEMMA SampledIs ==
  ASSUME NEW count \in Nat, NEW log \in Nat
  PROVE Indexed!Sampled(count, log) \in Nat
<1>1. Power(log) \in Nat \ {0}  BY PowerFacts
<1>2. PICK q : q = count \div Power(log)  OBVIOUS
<1>3. q \in Nat  BY <1>1, <1>2, DivFacts
<1>4. Indexed!Sampled(count, log) = IF log >= NoSampling THEN 0 ELSE q
  BY <1>2, Zenon DEF Indexed!Sampled, Power
<1> QED BY <1>3, <1>4

LEMMA CeilIs ==
  ASSUME NEW x \in Nat
  PROVE CeilLog2(x) \in Nat
<1>1. CASE x > 1
 <2>1. x - 1 \in Nat /\ x - 1 > 0  BY <1>1
 <2>2. Msb(x - 1) \in 0 .. x - 1  BY <2>1, MsbFacts
 <2> QED BY <1>1, <2>2 DEF CeilLog2
<1>2. CASE ~(x > 1)  BY <1>2 DEF CeilLog2
<1> QED BY <1>1, <1>2

LEMMA CostsAreNumbers ==
  ASSUME NEW u \in Nat, NEW m \in Nat \ {0}, NEW ps \in [ef0 : Nat, ef1 : Nat, rb0 : Nat, rb1 : Nat]
  PROVE Indexed!EliasFanoBits(ps, u, m) \in Nat /\ Indexed!RankedBits(ps, u, m) \in Nat
<1>1. ps.ef0 \in Nat /\ ps.ef1 \in Nat /\ ps.rb0 \in Nat /\ ps.rb1 \in Nat  OBVIOUS
<1>2. Indexed!EliasFanoBits(ps, u, m) \in Nat
 <2>1. PICK lower : lower = IF u > m THEN Indexed!Msb(u \div m) ELSE 0  OBVIOUS
 <2>2. lower \in Nat
  <3>1. CASE u > m
   <4>1. u \div m \in Nat  BY DivFacts
   <4>2. u \div m > 0
    <5>1. m \div m <= u \div m  BY <3>1, DivMonotone
    <5>2. 1 * m = m /\ (1 * m) \div m = 1  BY MultipleFacts
    <5> QED BY <4>1, <5>1, <5>2
   <4>3. Msb(u \div m) \in Nat  BY <4>1, <4>2, MsbFacts
   <4> QED BY <2>1, <3>1, <4>3, IndexedNames
  <3>2. CASE ~(u > m)  BY <2>1, <3>2
  <3> QED BY <3>1, <3>2
 <2>3. PICK w : w = u \div 2 ^ lower  OBVIOUS
 <2>4. w \in Nat
  <3>1. Power(lower) \in Nat \ {0}  BY <2>2, PowerFacts
  <3>2. u \div Power(lower) \in Nat  BY <3>1, DivFacts
  <3> QED BY <2>3, <3>2, Zenon DEF Power
 <2>5. PICK higher : higher = m + w + 2  OBVIOUS
 <2>6. higher \in Nat /\ higher - m \in Nat  BY <2>4, <2>5
 <2>7. PICK a, b, c : /\ a = Indexed!Sampled(higher - m, ps.ef0) /\ b = Indexed!Sampled(m, ps.ef1)
                      /\ c = Indexed!CeilLog2(higher)
   OBVIOUS
 <2>8. a \in Nat /\ b \in Nat /\ c \in Nat
  <3>1. a \in Nat  BY <1>1, <2>6, <2>7, SampledIs
  <3>2. b \in Nat  BY <1>1, <2>7, SampledIs
  <3>3. c \in Nat  BY <2>6, <2>7, CeilIs, IndexedNames
  <3> QED BY <3>1, <3>2, <3>3
 <2>9. Indexed!EliasFanoBits(ps, u, m) = (a + b) * c + higher + m * lower
   BY <2>1, <2>3, <2>5, <2>7, Zenon DEF Indexed!EliasFanoBits
 <2>10. (a + b) * c \in Nat /\ m * lower \in Nat  BY <2>2, <2>8
 <2> QED BY <2>6, <2>9, <2>10
<1>3. Indexed!RankedBits(ps, u, m) \in Nat
 <2>1. PICK a, b, c, d : /\ a = Indexed!Sampled(u, ps.rb0) /\ b = Indexed!Sampled(m, ps.rb1)
                         /\ c = Indexed!CeilLog2(m + 1) /\ d = Indexed!CeilLog2(u)
   OBVIOUS
 <2>2. a \in Nat /\ b \in Nat  BY <1>1, <2>1, SampledIs
 <2>3. c \in Nat /\ d \in Nat  BY <2>1, CeilIs, IndexedNames
 <2>4. Indexed!RankedBits(ps, u, m) = a * c + b * d + u  BY <2>1 DEF Indexed!RankedBits
 <2>5. a * c \in Nat /\ b * d \in Nat  BY <2>2, <2>3
 <2> QED BY <2>4, <2>5
<1> QED BY <1>2, <1>3

LEMMA CostsFit ==
  ASSUME sequence \in IndexedInputs, strict \in BOOLEAN, NEW ps \in Params
  PROVE /\ Indexed!Bits("elias_fano", ps, universe, n) \in Nat
        /\ Indexed!Bits("ranked_bitvector", ps, universe, n) \in Nat
        /\ Indexed!Bits("ranked_bitvector", ps, universe, n) < Infinity
        /\ Infinity \in Nat \ {0} /\ Indexed!Bits("all_ones", ps, universe, n) = IF universe = n THEN 0 ELSE Infinity
<1>1. n \in Nat \ {0} /\ universe \in Nat /\ n <= universe  BY IndexedSequenceFacts
<1>2. /\ ps \in [ef0 : Nat, ef1 : Nat, rb0 : Nat, rb1 : Nat] /\ NoSampling \in Nat /\ Infinity \in Nat
      /\ Indexed!RankedBits(ps, universe, n) < Infinity
 <2>1. Indexed!SizesAssumption  BY SequencesAssumption
 <2>2. sequence.universe = universe /\ Indexed!Abstract!Size(sequence) = n
   BY IndexedNames DEF Indexed!n, universe
 <2> QED BY <2>1, <2>2 DEF Indexed!SizesAssumption
<1>3. PICK r : r = Indexed!SampledAs(ps)  OBVIOUS
<1>4. /\ r \in [ef0 : Nat, ef1 : Nat, rb0 : Nat, rb1 : Nat] /\ r.rb1 = ps.rb1
      /\ r.rb0 = NoSampling \/ r.rb0 = ps.rb0
  BY <1>2, <1>3 DEF Indexed!SampledAs
<1>5. Indexed!RankedBits(r, universe, n) \in Nat /\ Indexed!RankedBits(r, universe, n) < Infinity
 <2>1. PICK a, b, c, d, x : /\ a = Indexed!Sampled(universe, ps.rb0) /\ b = Indexed!Sampled(n, ps.rb1)
                            /\ c = Indexed!CeilLog2(n + 1) /\ d = Indexed!CeilLog2(universe)
                            /\ x = Indexed!Sampled(universe, r.rb0)
   OBVIOUS
 <2>2. a \in Nat /\ b \in Nat
  <3>1. ps.rb0 \in Nat /\ ps.rb1 \in Nat  BY <1>2
  <3> QED BY <1>1, <2>1, <3>1, SampledIs
 <2>3. c \in Nat /\ d \in Nat  BY <1>1, <2>1, CeilIs, IndexedNames
 <2>4. x = 0 \/ x = a  BY <1>2, <1>4, <2>1 DEF Indexed!Sampled
 <2>5. Indexed!RankedBits(ps, universe, n) = a * c + b * d + universe
       /\ Indexed!RankedBits(r, universe, n) = x * c + b * d + universe
   BY <1>4, <2>1 DEF Indexed!RankedBits
 <2>6. a * c \in Nat /\ b * d \in Nat  BY <2>2, <2>3
 <2>7. x * c = 0 \/ x * c = a * c  BY <2>2, <2>3, <2>4
 <2>8. PICK y, z, t : y = a * c /\ z = b * d /\ t = x * c  OBVIOUS
 <2> QED BY <1>1, <1>2, <2>5, <2>6, <2>7, <2>8
<1>6. Indexed!EliasFanoBits(r, universe, n) \in Nat /\ Indexed!EliasFanoBits(r, universe - n + 1, n) \in Nat
 <2>1. universe - n + 1 \in Nat  BY <1>1
 <2> QED BY <1>1, <1>4, <2>1, CostsAreNumbers
<1>7. /\ Indexed!Bits("elias_fano", ps, universe, n)
           = IF strict THEN Indexed!EliasFanoBits(r, universe - n + 1, n) ELSE Indexed!EliasFanoBits(r, universe, n)
      /\ Indexed!Bits("ranked_bitvector", ps, universe, n) = Indexed!RankedBits(r, universe, n)
      /\ Indexed!Bits("all_ones", ps, universe, n) = IF universe = n THEN 0 ELSE Infinity
  BY <1>3 DEF Indexed!Bits, Indexed!AllOnesBits
<1> QED BY <1>2, <1>5, <1>6, <1>7

\* The smallest of three numbers of which the first is 0 or more than the third.
LEMMA SmallestCost ==
  ASSUME NEW a, NEW x \in Nat, NEW y \in Nat, NEW top \in Nat \ {0}, a = 0 \/ a = top, y < top
  PROVE Min({a, x + 1, y + 1}) = IF a = 0 THEN 0 ELSE IF y < x THEN y + 1 ELSE x + 1
<1>1. PICK S, m : S = {a, x + 1, y + 1} /\ m = IF a = 0 THEN 0 ELSE IF y < x THEN y + 1 ELSE x + 1
  OBVIOUS
<1>2. S \subseteq Nat /\ m \in S /\ \A z \in S : m <= z  BY <1>1
<1>3. Min(S) \in S /\ \A z \in S : Min(S) <= z
 <2>1. \E z \in S : \A w \in S : z <= w  BY <1>2
 <2> QED BY <2>1 DEF Min
<1>4. Min(S) = m
 <2>1. PICK z : z = Min(S)  OBVIOUS
 <2>2. z \in Nat /\ m \in Nat /\ z <= m /\ m <= z  BY <1>2, <1>3, <2>1
 <2> QED BY <2>1, <2>2
<1> QED BY <1>1, <1>4

LEMMA IndexedBegins ==
  ASSUME Indexed!Init
  PROVE IndexedInv
<1>1. /\ sequence \in IndexedInputs /\ strict \in BOOLEAN /\ params \in Params /\ phase = "write"
      /\ cursor = Whole!At(sequence, n)
  BY IndexedNames DEF Indexed!Init
<1>2. n \in Nat /\ n <= n  BY <1>1, IndexedSequenceFacts
<1>3. cursor.position = n  BY <1>1 DEF Whole!At
<1> QED BY <1>1, <1>2, <1>3 DEF IndexedInv, IndexedSpot

LEMMA IndexedSame ==
  ASSUME IndexedInv, UNCHANGED <<sequence, strict, params>>
  PROVE /\ n' = n /\ universe' = universe
        /\ Indexed!BitSize(params, universe, n)' = Indexed!BitSize(params, universe, n)
        /\ \A p : Whole!At(sequence, p)' = Whole!At(sequence, p)
<1>1. n' = n /\ universe' = universe  BY SameSequence
<1>2. Indexed!BitSize(params, universe, n)' = Indexed!BitSize(params, universe, n)
  BY <1>1 DEF Indexed!BitSize, Indexed!Bits, Indexed!SampledAs, Indexed!Min, Indexed!EliasFanoBits,
     Indexed!RankedBits, Indexed!Sampled, Indexed!AllOnesBits, Indexed!CeilLog2, Indexed!Msb
<1>3. \A p : Whole!At(sequence, p)' = Whole!At(sequence, p)
  BY DEF Whole!At, Whole!Size, Whole!Cardinality
<1> QED BY <1>1, <1>2, <1>3

LEMMA IndexedWrites ==
  ASSUME IndexedInv, Indexed!Write
  PROVE IndexedInv' /\ sequence' = sequence /\ IndexedSpot' = IndexedSpot /\ call' = call
<1> DEFINE E == Indexed!Bits("elias_fano", params, universe, n)
           R == Indexed!Bits("ranked_bitvector", params, universe, n)
           A == Indexed!Bits("all_ones", params, universe, n)
           t == IF Indexed!AllOnesBits(universe, n) = 0 THEN "all_ones"
                ELSE IF R < E THEN "ranked_bitvector" ELSE "elias_fano"
<1>1. /\ phase = "write" /\ phase' = "read" /\ UNCHANGED <<sequence, strict, params, type, cursor, call>>
      /\ typeBit' = IF t = "all_ones" THEN {} ELSE {IF t = "elias_fano" THEN 0 ELSE 1}
      /\ appended' = Indexed!Bits(t, params, universe, n) + Cardinality(typeBit')
  BY IndexedNames DEF Indexed!Write
<1>2. n' = n /\ universe' = universe  BY <1>1, SameSequence
<1>3. /\ E \in Nat /\ R \in Nat /\ R < Infinity /\ Infinity \in Nat \ {0}
      /\ A = (IF universe = n THEN 0 ELSE Infinity) /\ Indexed!AllOnesBits(universe, n) = A
 <2>1. Indexed!AllOnesBits(universe, n) = A  BY DEF Indexed!Bits
 <2> QED BY <2>1, CostsFit DEF IndexedInv
<1>4. Indexed!BitSize(params, universe, n) = Min({A, E + 1, R + 1})
  BY IndexedNames DEF Indexed!BitSize
<1>5. Min({A, E + 1, R + 1}) = IF A = 0 THEN 0 ELSE IF R < E THEN R + 1 ELSE E + 1
 <2>1. PICK a, x, y, top : a = A /\ x = E /\ y = R /\ top = Infinity  OBVIOUS
 <2>2. x \in Nat /\ y \in Nat /\ top \in Nat \ {0} /\ (a = 0 \/ a = top) /\ y < top  BY <1>3, <2>1
 <2>3. Min({a, x + 1, y + 1}) = IF a = 0 THEN 0 ELSE IF y < x THEN y + 1 ELSE x + 1
   BY <2>2, SmallestCost
 <2> QED BY <2>1, <2>3
<1>6. Cardinality({}) = 0 /\ Cardinality({0}) = 1 /\ Cardinality({1}) = 1
  BY FS_EmptySet, FS_Singleton
<1>7. appended' = IF A = 0 THEN 0 ELSE IF R < E THEN R + 1 ELSE E + 1
 <2>1. CASE A = 0
  <3>1. t = "all_ones"  BY <1>3, <2>1
  <3>2. appended' = A + Cardinality({})  BY <1>1, <3>1
  <3> HIDE DEF A, E, R
  <3> QED BY <1>6, <2>1, <3>2
 <2>2. CASE A # 0 /\ R < E
  <3>1. t = "ranked_bitvector"  BY <1>3, <2>2
  <3>2. appended' = R + Cardinality({1})  BY <1>1, <3>1
  <3> HIDE DEF A, E, R
  <3> QED BY <1>6, <2>2, <3>2
 <2>3. CASE A # 0 /\ ~(R < E)
  <3>1. t = "elias_fano"  BY <1>3, <2>3
  <3>2. appended' = E + Cardinality({0})  BY <1>1, <3>1
  <3> HIDE DEF A, E, R
  <3> QED BY <1>6, <2>3, <3>2
 <2> QED BY <2>1, <2>2, <2>3
<1>8. appended' = Indexed!BitSize(params, universe, n)
 <2> HIDE DEF A, E, R
 <2> QED BY <1>4, <1>5, <1>7
<1>9. Indexed!BitSize(params, universe, n)' = Indexed!BitSize(params, universe, n)
  BY <1>1, IndexedSame
<1>10. Whole!At(sequence, IndexedSpot)' = Whole!At(sequence, IndexedSpot) /\ IndexedSpot' = IndexedSpot
  BY <1>1 DEF IndexedSpot, Whole!At, Whole!Size, Whole!Cardinality
<1> HIDE DEF A, E, R
<1> QED BY <1>1, <1>2, <1>8, <1>9, <1>10 DEF IndexedInv

LEMMA IndexedOpens ==
  ASSUME IndexedInv, Indexed!Open
  PROVE IndexedInv' /\ sequence' = sequence /\ IndexedSpot' = IndexedSpot /\ call' = call
<1>1. /\ phase = "read" /\ phase' = "open"
      /\ type' = IF Indexed!AllOnesBits(universe, n) = 0 THEN "all_ones"
                 ELSE IF typeBit = {0} THEN "elias_fano" ELSE "ranked_bitvector"
      /\ UNCHANGED <<sequence, strict, params, typeBit, appended, cursor, call>>
  BY IndexedNames DEF Indexed!Open
<1>2. Infinity # 0  BY CostsFit DEF IndexedInv
<1>3. type' = "all_ones" <=> universe = n  BY <1>1, <1>2 DEF Indexed!AllOnesBits
<1>4. /\ n' = n /\ universe' = universe
      /\ Indexed!BitSize(params, universe, n)' = Indexed!BitSize(params, universe, n)
      /\ \A p : Whole!At(sequence, p)' = Whole!At(sequence, p)
  BY <1>1, IndexedSame
<1>5. IndexedSpot' = IndexedSpot  BY <1>1 DEF IndexedSpot
<1> QED BY <1>1, <1>3, <1>4, <1>5 DEF IndexedInv

\* Of a sequence that fills its universe nothing is read: position and value are the same.
LEMMA AllOnesShows ==
  ASSUME sequence \in IndexedInputs, universe = n, NEW p \in 0 .. n
  PROVE Indexed!AllOnesAt(p) = Whole!At(sequence, p) /\ Whole!FirstGeq(sequence, p) = p
<1>1. /\ Abstract!IsSequence(sequence) /\ Increases(sequence.values, n) /\ n \in Nat \ {0}
      /\ sequence.values = [i \in 0 .. n - 1 |-> i]
  BY IndexedSequenceFacts
<1>2. \A i \in 0 .. n - 1 : sequence.values[i] = i  BY <1>1
<1>3. Whole!Size(sequence) = n /\ sequence.universe = n  BY SizeIs DEF n, universe
<1>4. Indexed!AllOnesAt(p) = Whole!At(sequence, p)
 <2>1. p # n => sequence.values[p] = p  BY <1>1, <1>2
 <2>2. p # 0 => sequence.values[p - 1] = p - 1  BY <1>1, <1>2
 <2>3. (p >= n <=> p = n) /\ ~(p > n)  BY <1>1
 <2> QED BY <1>3, <2>1, <2>2, <2>3 DEF Indexed!AllOnesAt, Whole!At
<1>5. Whole!FirstGeq(sequence, p) = p
 <2>1. Ordered(sequence.values, n) /\ p \in Nat
  <3>1. n \in Nat /\ p \in Nat  BY <1>1
  <3> QED BY <1>2, <3>1 DEF Ordered
 <2>2. PICK r : r = Whole!FirstGeq(sequence, p)  OBVIOUS
 <2>3. r \in 0 .. n /\ \A i \in 0 .. n - 1 : i < r <=> sequence.values[i] < p
   BY <1>1, <2>1, <2>2, FirstGeqBelow
 <2>4. \A i \in 0 .. n - 1 : i < r <=> i < p  BY <1>2, <2>3
 <2>5. ~(r < p)
  <3>1. r < p => r \in 0 .. n - 1  BY <1>1, <2>3
  <3> QED BY <2>3, <2>4, <3>1
 <2>6. ~(p < r)
  <3>1. p < r => p \in 0 .. n - 1  BY <1>1, <2>3
  <3> QED BY <2>1, <2>3, <2>4, <3>1
 <2> QED BY <2>1, <2>2, <2>3, <2>5, <2>6
<1> QED BY <1>4, <1>5

LEMMA IndexedReads ==
  ASSUME IndexedInv, Indexed!Move \/ Indexed!NextGeq \/ Indexed!Advance
  PROVE IndexedInv' /\ sequence' = sequence /\ Goes(sequence, IndexedSpot, IndexedSpot')
<1>1. /\ phase = "open" /\ UNCHANGED <<sequence, strict, params, phase, typeBit, appended, type>>
  BY DEF Indexed!Move, Indexed!NextGeq, Indexed!Advance, Indexed!Go
<1>2. /\ n' = n /\ universe' = universe
      /\ Indexed!BitSize(params, universe, n)' = Indexed!BitSize(params, universe, n)
      /\ \A p : Whole!At(sequence, p)' = Whole!At(sequence, p)
  BY <1>1, IndexedSame
<1>3. /\ Abstract!IsSequence(sequence) /\ Increases(sequence.values, n) /\ n \in Nat \ {0} /\ universe \in Nat
      /\ Whole!Size(sequence) = n /\ sequence \in IndexedInputs
  BY IndexedSequenceFacts, SizeIs DEF IndexedInv, n
<1>4. PICK q : q = IndexedSpot /\ q \in Nat /\ cursor = Whole!At(sequence, q)  BY DEF IndexedInv
<1>5. ASSUME NEW p \in Nat, type = "all_ones" => p <= n,
             cursor' = IF type = "all_ones" THEN Indexed!AllOnesAt(p) ELSE Whole!At(sequence, p)
      PROVE IndexedInv' /\ IndexedSpot' = p
 <2>0. type = "all_ones" => p \in 0 .. n  BY <1>3, <1>5
 <2>1. cursor' = Whole!At(sequence, p)  BY <1>1, <1>5, <2>0, AllOnesShows DEF IndexedInv
 <2>2. IndexedSpot' = p  BY <2>1 DEF IndexedSpot, Whole!At
 <2>3. cursor' = Whole!At(sequence, p)'  BY <1>2, <2>1
 <2>4. /\ IndexedSpot' \in Nat /\ cursor' = Whole!At(sequence', IndexedSpot')
       /\ phase' # "open" \/ type' = "all_ones" => IndexedSpot' <= n'
  <3>1. Whole!At(sequence', p) = Whole!At(sequence, p)  BY <1>1
  <3> QED BY <1>1, <1>2, <1>5, <2>1, <2>2, <3>1
 <2>5. IndexedInv'  BY <1>1, <1>2, <2>4 DEF IndexedInv
 <2> QED BY <2>2, <2>5
<1>6. CASE Indexed!Move
 <2>1. PICK p \in 0 .. n : /\ call' = <<"move", p>>
                           /\ cursor' = IF type = "all_ones" THEN Indexed!AllOnesAt(p) ELSE Whole!At(sequence, p)
   BY <1>6, IndexedNames DEF Indexed!Move, Indexed!Go
 <2>3. p \in Nat /\ p <= n  BY <1>3
 <2>2. IndexedInv' /\ IndexedSpot' = p  BY <1>5, <2>1, <2>3
 <2> QED BY <1>1, <1>3, <2>1, <2>2 DEF Goes
<1>7. CASE Indexed!NextGeq
 <2>1. PICK bound \in 0 .. universe + Beyond :
           /\ call' = <<"next_geq", bound>>
           /\ \/ type = "all_ones" /\ bound <= universe /\ cursor' = Indexed!AllOnesAt(bound)
              \/ /\ type # "all_ones"
                 /\ cursor' = Whole!At(sequence, IF bound = cursor.value THEN cursor.position
                                                 ELSE Whole!FirstGeq(sequence, bound))
              \/ /\ type # "all_ones" /\ bound > universe /\ n <= cursor.position
                 /\ cursor' = Whole!At(sequence, cursor.position + 1)
   BY <1>7, IndexedNames DEF Indexed!NextGeq, Indexed!Go
 <2>2. bound \in Nat /\ bound \in 0 .. sequence.universe + Beyond /\ Ordered(sequence.values, n)
   BY <1>3, BoundIs, BelowImage DEF universe
 <2>3. cursor.position = q /\ cursor.value = ValueAt(q) /\ Whole!At(sequence, q).value = ValueAt(q)
   BY <1>3, <1>4 DEF Whole!At, ValueAt, universe
 <2>4. PICK g : g = Whole!FirstGeq(sequence, bound)  OBVIOUS
 <2>5. g \in 0 .. n /\ \A i \in 0 .. n - 1 : i < g <=> sequence.values[i] < bound
   BY <1>3, <2>2, <2>4, FirstGeqBelow
 <2>6. CASE type = "all_ones" /\ bound <= universe /\ cursor' = Indexed!AllOnesAt(bound)
  <3>1. universe = n /\ bound \in 0 .. n /\ bound <= n /\ q \in 0 .. n
    BY <1>1, <1>3, <1>4, <2>2, <2>6 DEF IndexedInv
  <3>2. g = bound /\ Indexed!AllOnesAt(q) = Whole!At(sequence, q)  BY <1>3, <2>4, <3>1, AllOnesShows
  <3>3. IndexedInv' /\ IndexedSpot' = bound  BY <1>5, <2>2, <2>6, <3>1
  <3>4. ValueAt(q) = q  BY <2>3, <3>2 DEF Indexed!AllOnesAt
  <3>5. bound = GeqFrom(q, bound)  BY <2>4, <3>2, <3>4 DEF GeqFrom
  <3>6. Goes(sequence, q, bound)  BY <2>1, <3>5, GeqGoes
  <3> QED BY <1>1, <1>4, <3>3, <3>6
 <2>7. CASE /\ type # "all_ones"
            /\ cursor' = Whole!At(sequence, IF bound = cursor.value THEN cursor.position
                                            ELSE Whole!FirstGeq(sequence, bound))
  <3>1. PICK r : r = GeqFrom(q, bound)  OBVIOUS
  <3>2. cursor' = Whole!At(sequence, r)  BY <2>3, <2>7, <3>1 DEF GeqFrom
  <3>3. r \in Nat  BY <1>3, <1>4, <2>4, <2>5, <3>1 DEF GeqFrom
  <3>4. IndexedInv' /\ IndexedSpot' = r  BY <1>5, <2>7, <3>2, <3>3
  <3>5. Goes(sequence, q, r)  BY <2>1, <3>1, GeqGoes
  <3> QED BY <1>1, <1>4, <3>4, <3>5
 <2>8. CASE /\ type # "all_ones" /\ bound > universe /\ n <= cursor.position
            /\ cursor' = Whole!At(sequence, cursor.position + 1)
  <3>1. PICK r : r = q + 1  OBVIOUS
  <3>2. Strays(q, bound) /\ r \in Nat  BY <1>3, <1>4, <2>3, <2>8, <3>1 DEF Strays
  <3>3. IndexedInv' /\ IndexedSpot' = r  BY <1>5, <2>3, <2>8, <3>1, <3>2
  <3>4. Goes(sequence, q, r)  BY <2>1, <3>1, <3>2, GeqGoes
  <3> QED BY <1>1, <1>4, <3>3, <3>4
 <2> QED BY <2>1, <2>6, <2>7, <2>8
<1>8. CASE Indexed!Advance
 <2>1. /\ cursor.position < n /\ call' = <<"next", 0>>
       /\ cursor' = IF type = "all_ones" THEN Indexed!AllOnesAt(q + 1) ELSE Whole!At(sequence, q + 1)
   BY <1>4, <1>8, IndexedNames DEF Indexed!Advance, Indexed!Go, IndexedSpot
 <2>2. q < n /\ q + 1 \in Nat /\ q + 1 <= n  BY <1>3, <1>4, <2>1 DEF IndexedSpot
 <2>3. IndexedInv' /\ IndexedSpot' = q + 1  BY <1>5, <2>1, <2>2
 <2> QED BY <1>1, <1>3, <1>4, <2>1, <2>2, <2>3 DEF Goes
<1> QED BY <1>6, <1>7, <1>8

LEMMA IndexedStays ==
  ASSUME IndexedInv, UNCHANGED <<sequence, strict, params, phase, typeBit, appended, type, cursor>>
  PROVE IndexedInv' /\ IndexedSpot' = IndexedSpot
<1>1. /\ n' = n /\ universe' = universe
      /\ Indexed!BitSize(params, universe, n)' = Indexed!BitSize(params, universe, n)
      /\ \A p : Whole!At(sequence, p)' = Whole!At(sequence, p)
  BY IndexedSame
<1>2. IndexedSpot' = IndexedSpot  BY DEF IndexedSpot
<1> QED BY <1>1, <1>2 DEF IndexedInv

LEMMA IndexedCoded ==
  ASSUME IndexedInv
  PROVE Indexed!SizeAsAnnounced /\ Indexed!StrictUnsampled
<1>1. Indexed!SizeAsAnnounced  BY IndexedNames DEF IndexedInv, Indexed!SizeAsAnnounced
<1>2. ASSUME strict, phase # "write", NEW ps \in Params, ps.ef1 = params.ef1, ps.rb1 = params.rb1
      PROVE appended = Indexed!BitSize(ps, universe, n)
 <2>1. /\ ps \in [ef0 : Nat, ef1 : Nat, rb0 : Nat, rb1 : Nat]
       /\ params \in [ef0 : Nat, ef1 : Nat, rb0 : Nat, rb1 : Nat]
   BY SequencesAssumption DEF Indexed!SizesAssumption, IndexedInv
 <2>2. [ps EXCEPT !.ef0 = NoSampling, !.rb0 = NoSampling] = [params EXCEPT !.ef0 = NoSampling, !.rb0 = NoSampling]
   BY <1>2, <2>1
 <2>3. Indexed!SampledAs(ps) = Indexed!SampledAs(params)  BY <1>2, <2>2 DEF Indexed!SampledAs
 <2>4. Indexed!BitSize(ps, universe, n) = Indexed!BitSize(params, universe, n)
   BY <2>3 DEF Indexed!BitSize, Indexed!Bits
 <2> QED BY <1>2, <2>4 DEF IndexedInv
<1> QED BY <1>1, <1>2, IndexedNames DEF Indexed!StrictUnsampled

------------------------------
(* Bitvectors one behind the other. *)

Bitvectors == INSTANCE BitvectorCollection

\* The sums are of natural numbers, and each is the one before and one number.
LEMMA SumsFacts ==
  ASSUME NEW w \in Seq(Nat)
  PROVE LET s == Bitvectors!Sums(w)
        IN  /\ s \in [0 .. Len(w) -> Nat] /\ s[0] = 0
            /\ \A i \in 0 .. Len(w) - 1 : s[i + 1] = s[i] + w[i + 1]
<1> DEFINE m == Len(w)
           Good(f, k) == /\ f \in [0 .. k -> Nat] /\ f[0] = 0
                         /\ \A i \in 0 .. k - 1 : f[i + 1] = f[i] + w[i + 1]
           S == {k \in 0 .. m : \E f : Good(f, k)}
           Turn(f) == [i \in 0 .. m |-> IF i = 0 THEN 0 ELSE f[i - 1] + w[i]]
<1>1. m \in Nat /\ \A i \in 0 .. m - 1 : w[i + 1] \in Nat  OBVIOUS
<1> HIDE DEF m
<1>2. 0 \in S
 <2> DEFINE g == [i \in 0 .. 0 |-> 0]
 <2>1. Good(g, 0)  OBVIOUS
 <2> HIDE DEF g, Good
 <2>2. 0 \in 0 .. m  BY <1>1
 <2> QED BY <2>1, <2>2
<1>3. ASSUME NEW k \in 0 .. m - 1, k \in S PROVE k + 1 \in S
 <2>1. PICK f : Good(f, k)  BY <1>3
 <2> DEFINE g == [i \in 0 .. k + 1 |-> IF i <= k THEN f[i] ELSE f[k] + w[k + 1]]
 <2>2. k \in Nat /\ f[k] \in Nat /\ w[k + 1] \in Nat  BY <1>1, <2>1
 <2>3. g \in [0 .. k + 1 -> Nat]  BY <2>1, <2>2
 <2>4. g[0] = 0  BY <2>1, <2>2
 <2>5. ASSUME NEW i \in 0 .. (k + 1) - 1 PROVE g[i + 1] = g[i] + w[i + 1]
  <3>1. CASE i = k  BY <2>2, <3>1
  <3>2. CASE i # k
   <4>1. i \in 0 .. k - 1 /\ g[i] = f[i] /\ g[i + 1] = f[i + 1]  BY <2>2, <3>2
   <4> QED BY <2>1, <4>1
  <3> QED BY <3>1, <3>2
 <2>6. k + 1 \in 0 .. m  BY <1>1
 <2> HIDE DEF g
 <2>7. Good(g, k + 1)  BY <2>3, <2>4, <2>5
 <2> QED BY <2>6, <2>7
<1>4. m \in S
 <2> HIDE DEF S
 <2>1. \A i \in 0 .. m - 1 : i \in S => i + 1 \in S  BY <1>3
 <2>2. \A i \in 0 .. m : i \in S  BY <1>1, <1>2, <2>1, Upwards
 <2> QED BY <1>1, <2>2
<1>5. PICK f : Good(f, m)  BY <1>4
<1>6. f = Turn(f)
 <2>1. DOMAIN f = 0 .. m /\ f = [i \in 0 .. m |-> f[i]]  BY <1>5
 <2>2. ASSUME NEW i \in 0 .. m PROVE f[i] = IF i = 0 THEN 0 ELSE f[i - 1] + w[i]
  <3>1. CASE i = 0  BY <1>5, <3>1
  <3>2. CASE i # 0
   <4>1. i - 1 \in 0 .. m - 1 /\ (i - 1) + 1 = i  BY <1>1, <3>2
   <4> QED BY <1>5, <3>2, <4>1
  <3> QED BY <3>1, <3>2
 <2> QED BY <2>1, <2>2
<1> DEFINE s == Bitvectors!Sums(w)
<1>7. s = Turn(s)
 <2>1. s = CHOOSE h : h = Turn(h)  BY Zenon DEF Bitvectors!Sums, m
 <2> HIDE DEF s, Turn
 <2> QED BY <1>6, <2>1, Zenon
<1> HIDE DEF s
<1>8. \A i \in 0 .. m : s[i] = IF i = 0 THEN 0 ELSE s[i - 1] + w[i]  BY <1>7
<1>9. \A i \in 0 .. m - 1 : s[i + 1] = s[i] + w[i + 1]
 <2> TAKE i \in 0 .. m - 1
 <2>1. i + 1 \in 0 .. m /\ i + 1 # 0 /\ (i + 1) - 1 = i  BY <1>1
 <2> QED BY <1>8, <2>1
<1>10. s[0] = 0  BY <1>1, <1>8
<1>11. \A i \in 0 .. m : s[i] \in Nat
 <2> DEFINE T == {i \in 0 .. m : s[i] \in Nat}
 <2>1. 0 \in T  BY <1>1, <1>10
 <2>2. \A i \in 0 .. m - 1 : i \in T => i + 1 \in T  BY <1>1, <1>9
 <2>3. \A i \in 0 .. m : i \in T
  <3> HIDE DEF T
  <3> QED BY <1>1, <2>1, <2>2, Upwards
 <2> QED BY <2>3
<1>12. s \in [0 .. m -> Nat]  BY <1>7, <1>11
<1> QED BY <1>9, <1>10, <1>12 DEF m, s

\* The sums of positive numbers grow, each by one at least.
LEMMA SumsGrow ==
  ASSUME NEW w \in Seq(Nat \ {0})
  PROVE LET s == Bitvectors!Sums(w)
        IN  /\ \A i, j \in 0 .. Len(w) : i < j => s[i] < s[j]
            /\ \A i \in 0 .. Len(w) : i <= s[i]
<1> DEFINE s == Bitvectors!Sums(w)
<1>1. PICK m : m = Len(w)  OBVIOUS
<1>2. /\ s \in [0 .. m -> Nat] /\ s[0] = 0
      /\ \A i \in 0 .. m - 1 : s[i + 1] = s[i] + w[i + 1]
 <2>1. w \in Seq(Nat)  OBVIOUS
 <2> QED BY <1>1, <2>1, SumsFacts
<1>3. m \in Nat /\ \A i \in 0 .. m - 1 : w[i + 1] \in Nat \ {0}  BY <1>1
<1> HIDE DEF s
<1>4. \A i \in 0 .. m - 1 : s[i] < s[i + 1] /\ s[i] \in Nat /\ s[i + 1] \in Nat
 <2> TAKE i \in 0 .. m - 1
 <2>1. i \in 0 .. m /\ i + 1 \in 0 .. m  BY <1>3
 <2>2. s[i] \in Nat /\ s[i + 1] \in Nat  BY <1>2, <2>1
 <2>3. s[i + 1] = s[i] + w[i + 1] /\ w[i + 1] \in Nat \ {0}  BY <1>2, <1>3
 <2> QED BY <2>2, <2>3
<1> DEFINE S == {j \in 0 .. m : j <= s[j] /\ \A i \in 0 .. m : i < j => s[i] < s[j]}
<1>5. 0 \in S  BY <1>2, <1>3
<1>6. ASSUME NEW j \in 0 .. m - 1, j \in S PROVE j + 1 \in S
 <2>1. j \in Nat /\ j + 1 \in 0 .. m /\ s[j] < s[j + 1] /\ s[j] \in Nat /\ s[j + 1] \in Nat /\ j <= s[j]
   BY <1>3, <1>4, <1>6
 <2>2. ASSUME NEW i \in 0 .. m, i < j + 1 PROVE s[i] < s[j + 1]
  <3>1. s[i] \in Nat /\ (i = j \/ s[i] < s[j])  BY <1>2, <1>3, <1>6, <2>2
  <3> QED BY <2>1, <3>1
 <2> QED BY <2>1, <2>2
<1>7. \A j \in 0 .. m : j \in S
 <2> HIDE DEF S
 <2>1. \A i \in 0 .. m - 1 : i \in S => i + 1 \in S  BY <1>6
 <2> QED BY <1>3, <1>5, <2>1, Upwards
<1> QED BY <1>1, <1>7 DEF s

\* Of bitvectors none of which is empty, each is found at its own beginning, and
\* the beginnings can be written.
LEMMA LaidOut ==
  ASSUME NEW R, \A r \in R : r.size \in Nat \ {0}, NEW c \in Seq(R)
  PROVE /\ \A i \in 0 .. Len(c) - 1 : Bitvectors!Get(c, i) = c[i + 1]
        /\ Bitvectors!Encodable(c)
<1> DEFINE w == [i \in 1 .. Len(c) |-> c[i].size]
           s == Bitvectors!Sums(w)
<1>1. PICK m \in Nat : m = Len(c)  OBVIOUS
<1>2. w \in Seq(Nat \ {0}) /\ Len(w) = m
 <2>1. \A i \in 1 .. m : c[i].size \in Nat \ {0}  BY <1>1
 <2> QED BY <1>1, <2>1
<1>3. /\ s \in [0 .. m -> Nat] /\ \A i, j \in 0 .. m : i < j => s[i] < s[j]
 <2>1. w \in Seq(Nat)  BY <1>2
 <2> HIDE DEF w
 <2> QED BY <1>2, <2>1, SumsFacts, SumsGrow
<1>4. \A k : Bitvectors!Bits(c, k) = s[k]  BY DEF Bitvectors!Bits
<1> HIDE DEF w, s
<1>5. \A k \in 1 .. m : Bitvectors!Stored(c)[k] = s[k - 1] /\ Bitvectors!Endpoints(c)[k] = s[k - 1]
 <2> DEFINE e0 == [k \in 1 .. m + 1 |-> s[k - 1]]
 <2>1. Bitvectors!Endpoints(c) = e0  BY <1>1, <1>4 DEF Bitvectors!Endpoints
 <2>2. e0 \in Seq(Nat) /\ Len(e0) = m + 1
  <3>1. \A k \in 1 .. m + 1 : s[k - 1] \in Nat  BY <1>1, <1>3
  <3> QED BY <1>1, <3>1
 <2>3. Bitvectors!Stored(c) = SubSeq(e0, 1, m)  BY <1>1, <2>1 DEF Bitvectors!Stored
 <2>4. \A k \in 1 .. m : e0[k] = s[k - 1]  BY <1>1
 <2> HIDE DEF e0
 <2>5. \A k \in 1 .. m : SubSeq(e0, 1, m)[k] = e0[k]  BY <1>1, <2>2
 <2> QED BY <1>1, <2>1, <2>2, <2>3, <2>4, <2>5
<1>6. ASSUME NEW i \in 0 .. Len(c) - 1 PROVE Bitvectors!Get(c, i) = c[i + 1]
 <2> DEFINE at == {k \in 1 .. Len(c) : Bitvectors!Endpoints(c)[k] = Bitvectors!Stored(c)[i + 1]}
 <2>1. at = {i + 1}
  <3>1. i \in 0 .. m - 1 /\ i + 1 \in 1 .. m /\ (i + 1) - 1 = i  BY <1>1
  <3>2. Bitvectors!Stored(c)[i + 1] = s[i]  BY <1>5, <3>1
  <3>3. ASSUME NEW k \in 1 .. m, s[k - 1] = s[i] PROVE k = i + 1
   <4>1. k - 1 \in 0 .. m /\ i \in 0 .. m  BY <1>1, <3>1
   <4>2. ~(k - 1 < i) /\ ~(i < k - 1)  BY <1>3, <3>3, <4>1
   <4> QED BY <3>1, <4>1, <4>2
  <3> QED BY <1>1, <1>5, <3>1, <3>2, <3>3
 <2>2. Bitvectors!Get(c, i) = IF at = {} THEN [size |-> 0] ELSE c[Bitvectors!Max(at)]
   BY DEF Bitvectors!Get
 <2> HIDE DEF at
 <2>3. Bitvectors!Max(at) = i + 1
  <3>1. i + 1 \in Nat  BY <1>1
  <3> QED BY <2>1, <3>1 DEF Bitvectors!Max
 <2> QED BY <2>1, <2>2, <2>3
<1>7. Bitvectors!Encodable(c)
 <2>1. ASSUME NEW k \in 1 .. m PROVE s[k - 1] < s[m]  BY <1>1, <1>3
 <2>2. ASSUME NEW k \in 2 .. m PROVE s[(k - 1) - 1] <= s[k - 1] /\ k - 1 \in 1 .. m /\ k \in 1 .. m
  <3>1. (k - 1) - 1 \in 0 .. m /\ k - 1 \in 0 .. m /\ (k - 1) - 1 < k - 1 /\ k - 1 \in 1 .. m /\ k \in 1 .. m
    BY <1>1
  <3> QED BY <1>3, <3>1
 <2>3. \A k \in 1 .. m : Bitvectors!Stored(c)[k] < Bitvectors!Bits(c, m)  BY <1>4, <1>5, <2>1
 <2>4. \A k \in 2 .. m : Bitvectors!Stored(c)[k - 1] <= Bitvectors!Stored(c)[k]  BY <1>5, <2>2
 <2> QED BY <1>1, <2>3, <2>4 DEF Bitvectors!Encodable
<1> QED BY <1>6, <1>7

------------------------------
(* FreqIndex. *)

LEMMA IndexNames ==
  /\ \A w : Index!Sums(w) = Bitvectors!Sums(w)
  /\ \A c, i : Index!Get(c, i) = Bitvectors!Get(c, i)
  /\ \A c : Index!Encodable(c) <=> Bitvectors!Encodable(c)
  /\ \A x : Index!CeilLog2(x) = CeilLog2(x) /\ Index!Msb(x) = Msb(x)
<1>1. \A w : Index!Sums(w) = Bitvectors!Sums(w)  BY Zenon DEF Index!Sums, Bitvectors!Sums
<1>2. \A c, k : Index!Bits(c, k) = Bitvectors!Bits(c, k)  BY <1>1 DEF Index!Bits, Bitvectors!Bits
<1>3. \A c : /\ Index!Endpoints(c) = Bitvectors!Endpoints(c) /\ Index!Stored(c) = Bitvectors!Stored(c)
  BY <1>2 DEF Index!Endpoints, Bitvectors!Endpoints, Index!Stored, Bitvectors!Stored
<1>4. ASSUME NEW c, NEW i PROVE Index!Get(c, i) = Bitvectors!Get(c, i)
 <2>1. \A S : Index!Max(S) = Bitvectors!Max(S)  BY DEF Index!Max, Bitvectors!Max
 <2>2. PICK at : at = {k \in 1 .. Len(c) : Bitvectors!Endpoints(c)[k] = Bitvectors!Stored(c)[i + 1]}
   OBVIOUS
 <2>3. Index!Get(c, i) = IF at = {} THEN [size |-> 0] ELSE c[Index!Max(at)]
   BY <1>3, <2>2 DEF Index!Get
 <2>4. Bitvectors!Get(c, i) = IF at = {} THEN [size |-> 0] ELSE c[Bitvectors!Max(at)]
   BY <2>2 DEF Bitvectors!Get
 <2> QED BY <2>1, <2>3, <2>4
<1>5. \A c : Index!Encodable(c) <=> Bitvectors!Encodable(c)
  BY <1>2, <1>3 DEF Index!Encodable, Bitvectors!Encodable
<1>6. \A x : Index!CeilLog2(x) = CeilLog2(x) /\ Index!Msb(x) = Msb(x)
  BY DEF Index!CeilLog2, CeilLog2, Index!Msb, Msb
<1> QED BY <1>1, <1>4, <1>5, <1>6

LEMMA ListIs ==
  ASSUME NEW l \in Lists
  PROVE /\ l.docs \in Seq(0 .. NumDocs - 1) /\ l.docs \in Seq(Nat) /\ Len(l.docs) \in Nat \ {0}
        /\ l.freqs \in Seq(Nat \ {0}) /\ Len(l.freqs) = Len(l.docs)
        /\ Index!Occurrences(l) \in Nat /\ Len(l.docs) <= Index!Occurrences(l)
        /\ SumUp(Index!PartialSums(l), l.freqs, Len(l.docs))
<1>1. /\ l.docs \in Seq(0 .. NumDocs - 1) /\ l.freqs \in Seq(Nat \ {0}) /\ l.docs # <<>>
      /\ Len(l.freqs) = Len(l.docs) /\ NumDocs \in Nat
  BY SequencesAssumption DEF Index!ListsAssumption, Index!FreqIndexAssumption
<1>2. PICK m, f, s : m = Len(l.docs) /\ f = l.freqs /\ s = Bitvectors!Sums(l.freqs)  OBVIOUS
<1>3. l.docs \in Seq(Nat) /\ m \in Nat \ {0}  BY <1>1, <1>2
<1>4. f \in Seq(Nat \ {0}) /\ f \in Seq(Nat) /\ Len(f) = m  BY <1>1, <1>2
<1>5. /\ s \in [0 .. m -> Nat] /\ s[0] = 0 /\ \A i \in 0 .. m - 1 : s[i + 1] = s[i] + f[i + 1]
      /\ \A i \in 0 .. m : i <= s[i]
  BY <1>2, <1>4, SumsFacts, SumsGrow
<1>6. Index!Occurrences(l) = s[m] /\ Index!PartialSums(l) = [i \in 1 .. m |-> s[i]]
  BY <1>1, <1>2, IndexNames DEF Index!Occurrences, Index!PartialSums
<1>7. s[m] \in Nat /\ m <= s[m]  BY <1>3, <1>5
<1>8. SumUp([i \in 1 .. m |-> s[i]], f, m)
 <2> DEFINE p == [i \in 1 .. m |-> s[i]]
 <2>1. p \in Seq(Nat) /\ Len(p) = m  BY <1>3, <1>5
 <2>2. \A i \in 1 .. m : p[i] = s[i]  OBVIOUS
 <2> HIDE DEF p
 <2>3. p[1] = f[1]
  <3>1. 0 \in 0 .. m - 1 /\ 1 \in 1 .. m /\ f[1] \in Nat  BY <1>3, <1>4
  <3>2. s[0 + 1] = s[0] + f[0 + 1]  BY <1>5, <3>1
  <3> QED BY <1>5, <2>2, <3>1, <3>2
 <2>4. ASSUME NEW i \in 1 .. m - 1 PROVE p[i + 1] = p[i] + f[i + 1]
  <3>1. i \in 0 .. m - 1 /\ i \in 1 .. m /\ i + 1 \in 1 .. m  BY <1>3
  <3> QED BY <1>5, <2>2, <3>1
 <2>5. SumUp(p, f, m)  BY <2>1, <2>3, <2>4 DEF SumUp
 <2> QED BY <2>5 DEF p
<1>9. Index!Occurrences(l) \in Nat /\ Len(l.docs) <= Index!Occurrences(l)  BY <1>2, <1>6, <1>7
<1>10. SumUp(Index!PartialSums(l), l.freqs, Len(l.docs))  BY <1>2, <1>6, <1>8
<1> QED BY <1>1, <1>2, <1>3, <1>9, <1>10

\* The length fits in the bits of the occurrences, and no bitvector is empty.
LEMMA BitsOfList ==
  ASSUME NEW l \in Lists
  PROVE LET d == Index!DocsBits(l)
            g == Index!FreqsBits(l)
        IN  /\ d.occurrences = Index!Occurrences(l) /\ d.values = l.docs /\ d.size \in Nat \ {0}
            /\ (IF d.occurrences > 1 THEN d.length ELSE 1) = Len(l.docs)
            /\ g.values = Index!PartialSums(l) /\ g.size \in Nat \ {0}
<1>1. PICK m, o : m = Len(l.docs) /\ o = Index!Occurrences(l)  OBVIOUS
<1>2. m \in Nat \ {0} /\ o \in Nat \ {0} /\ m <= o /\ Len(l.freqs) = m /\ NumDocs \in Nat
  BY <1>1, ListIs, SequencesAssumption DEF Index!FreqIndexAssumption
<1>3. PICK x, wide, gamma : /\ x = m % 2 ^ CeilLog2(o + 1) /\ wide = CeilLog2(o + 1)
                            /\ gamma = Index!GammaBits(o - 1)
  OBVIOUS
<1>4. x = m
 <2>1. o + 1 \in Nat /\ m < o + 1 /\ m \in Nat  BY <1>2
 <2> QED BY <1>3, <2>1, FieldHolds
<1>5. wide \in Nat  BY <1>2, <1>3, CeilIs
<1>6. gamma \in Nat \ {0}
 <2>1. PICK y : y = Msb((o - 1) + 1)  OBVIOUS
 <2>2. y \in Nat
  <3>1. (o - 1) + 1 \in Nat /\ (o - 1) + 1 > 0  BY <1>2
  <3>2. Msb((o - 1) + 1) \in 0 .. (o - 1) + 1  BY <3>1, MsbFacts
  <3> QED BY <2>1, <3>1, <3>2
 <2>3. gamma = 2 * y + 1  BY <1>3, <2>1, IndexNames DEF Index!GammaBits
 <2> QED BY <2>2, <2>3
<1>7. PICK b, c : b = Index!SequenceBits(NumDocs, m) /\ c = Index!SequenceBits(o + 1, m)  OBVIOUS
<1>8. b \in Nat /\ c \in Nat \ {0}  BY <1>2, <1>7 DEF Index!SequenceBits
<1>9. Index!DocsBits(l) = [occurrences |-> o, length |-> IF o > 1 THEN x ELSE 0, values |-> l.docs,
                           size |-> gamma + (IF o > 1 THEN wide ELSE 0) + b]
  BY <1>1, <1>3, <1>7, IndexNames, Zenon DEF Index!DocsBits
<1>10. Index!FreqsBits(l) = [values |-> Index!PartialSums(l), universe |-> o + 1, size |-> c]
  BY <1>1, <1>2, <1>7 DEF Index!FreqsBits
<1>11. gamma + (IF o > 1 THEN wide ELSE 0) + b \in Nat \ {0}  BY <1>5, <1>6, <1>8
<1>12. (IF o > 1 THEN (IF o > 1 THEN x ELSE 0) ELSE 1) = m  BY <1>2, <1>4
<1> QED BY <1>1, <1>8, <1>9, <1>10, <1>11, <1>12

LEMMA IndexBegins ==
  ASSUME Index!Init
  PROVE IndexInv
<1>1. added = <<>> /\ docs = <<>> /\ freqs = <<>> /\ reader.list = 0 /\ freq = 0  BY DEF Index!Init
<1>2. added \in Seq(Lists) /\ docs \in Seq(AllDocsBits) /\ freqs \in Seq(AllFreqsBits)  BY <1>1
<1>3. Len(added) = 0 /\ Len(docs) = 0 /\ Len(freqs) = 0 /\ 1 .. 0 = {} /\ ~(freq > 0)  BY <1>1
<1> QED BY <1>1, <1>2, <1>3 DEF IndexInv

LEMMA IndexAdds ==
  ASSUME IndexInv, NEW l \in Lists, Index!AddPostingList(l)
  PROVE IndexInv'
<1>1. /\ ~built /\ added' = Append(added, l) /\ docs' = Append(docs, Index!DocsBits(l))
      /\ freqs' = Append(freqs, Index!FreqsBits(l)) /\ UNCHANGED <<reader, freq>>
  BY DEF Index!AddPostingList
<1>2. PICK d, g : d = Index!DocsBits(l) /\ g = Index!FreqsBits(l)  OBVIOUS
<1>3. d \in AllDocsBits /\ g \in AllFreqsBits  BY <1>2 DEF AllDocsBits, AllFreqsBits
<1>4. /\ added \in Seq(Lists) /\ docs \in Seq(AllDocsBits) /\ freqs \in Seq(AllFreqsBits)
      /\ Len(docs) = Len(added) /\ Len(freqs) = Len(added)
      /\ \A k \in 1 .. Len(added) : docs[k] = Index!DocsBits(added[k]) /\ freqs[k] = Index!FreqsBits(added[k])
  BY DEF IndexInv
<1>5. PICK m \in Nat : m = Len(added)  BY <1>4
<1>6. /\ added' \in Seq(Lists) /\ Len(added') = m + 1 /\ added'[m + 1] = l
      /\ \A k \in 1 .. m : added'[k] = added[k]
  BY <1>1, <1>4, <1>5
<1>7. /\ docs' \in Seq(AllDocsBits) /\ Len(docs') = m + 1 /\ docs'[m + 1] = d
      /\ \A k \in 1 .. m : docs'[k] = docs[k]
  BY <1>1, <1>2, <1>3, <1>4, <1>5
<1>8. /\ freqs' \in Seq(AllFreqsBits) /\ Len(freqs') = m + 1 /\ freqs'[m + 1] = g
      /\ \A k \in 1 .. m : freqs'[k] = freqs[k]
  BY <1>1, <1>2, <1>3, <1>4, <1>5
<1>9. ASSUME NEW k \in 1 .. m + 1
      PROVE docs'[k] = Index!DocsBits(added'[k]) /\ freqs'[k] = Index!FreqsBits(added'[k])
 <2>1. CASE k = m + 1  BY <1>2, <1>6, <1>7, <1>8, <2>1
 <2>2. CASE k # m + 1
  <3>1. k \in 1 .. m  BY <1>5, <2>2
  <3>2. docs[k] = Index!DocsBits(added[k]) /\ freqs[k] = Index!FreqsBits(added[k])
    BY <1>4, <1>5, <3>1
  <3> QED BY <1>6, <1>7, <1>8, <3>1, <3>2
 <2> QED BY <2>1, <2>2
<1>10. reader.list = 0 /\ freq = 0  BY <1>1 DEF IndexInv
<1>11. AllDocsBits' = AllDocsBits /\ AllFreqsBits' = AllFreqsBits
  BY DEF AllDocsBits, AllFreqsBits, Index!DocsBits, Index!FreqsBits
<1>12. \A k \in 1 .. Len(added') : /\ docs'[k] = Index!DocsBits(added'[k])
                                   /\ freqs'[k] = Index!FreqsBits(added'[k])
  BY <1>6, <1>9
<1>13. reader'.list = 0 /\ freq' = 0  BY <1>1, <1>10
<1>14. added' \in Seq(Lists) /\ docs' \in Seq(AllDocsBits)' /\ freqs' \in Seq(AllFreqsBits)'
  BY <1>6, <1>7, <1>8, <1>11
<1>15. Len(docs') = Len(added') /\ Len(freqs') = Len(added')  BY <1>6, <1>7, <1>8
<1> QED BY <1>12, <1>13, <1>14, <1>15 DEF IndexInv

\* Where the lists are as they were, the invariant is about the reader.
LEMMA IndexKept ==
  ASSUME IndexInv, UNCHANGED <<added, docs, freqs>>,
         (reader'.list = 0 /\ freq' = 0) \/ (built' /\ ReaderIs(reader')),
         freq' > 0 => /\ reader'.list > 0 /\ reader'.pos < reader'.n
                      /\ freq' = added[reader'.list].freqs[reader'.pos + 1]
  PROVE IndexInv'
<1>1. AllDocsBits' = AllDocsBits /\ AllFreqsBits' = AllFreqsBits
  BY DEF AllDocsBits, AllFreqsBits, Index!DocsBits, Index!FreqsBits
<1>2. ReaderIs(reader') => ReaderIs(reader)'  BY DEF ReaderIs
<1>3. /\ added' \in Seq(Lists) /\ docs' \in Seq(AllDocsBits)' /\ freqs' \in Seq(AllFreqsBits)'
      /\ Len(docs') = Len(added') /\ Len(freqs') = Len(added')
      /\ \A k \in 1 .. Len(added') : /\ docs'[k] = Index!DocsBits(added'[k])
                                     /\ freqs'[k] = Index!FreqsBits(added'[k])
  BY <1>1 DEF IndexInv
<1> QED BY <1>2, <1>3 DEF IndexInv

LEMMA IndexBuilds ==
  ASSUME IndexInv, Index!Build
  PROVE IndexInv'
<1>1. built' = TRUE /\ UNCHANGED <<added, docs, freqs, reader, freq>>  BY DEF Index!Build
<1>2. (reader.list = 0 /\ freq = 0) \/ (built' /\ ReaderIs(reader))  BY <1>1 DEF IndexInv
<1>3. freq > 0 => /\ reader.list > 0 /\ reader.pos < reader.n
                  /\ freq = added[reader.list].freqs[reader.pos + 1]
  BY DEF IndexInv
<1> QED BY <1>1, <1>2, <1>3, IndexKept

\* A list is found at its own beginning.
LEMMA IndexFinds ==
  ASSUME IndexInv
  PROVE /\ \A i \in 0 .. Len(added) - 1 : /\ Index!Get(docs, i) = Index!DocsBits(added[i + 1])
                                          /\ Index!Get(freqs, i) = Index!FreqsBits(added[i + 1])
        /\ Index!Encodable(docs) /\ Index!Encodable(freqs)
<1>1. /\ docs \in Seq(AllDocsBits) /\ freqs \in Seq(AllFreqsBits)
      /\ Len(docs) = Len(added) /\ Len(freqs) = Len(added)
  BY DEF IndexInv
<1>2. \A r \in AllDocsBits : r.size \in Nat \ {0}  BY BitsOfList DEF AllDocsBits
<1>3. \A r \in AllFreqsBits : r.size \in Nat \ {0}  BY BitsOfList DEF AllFreqsBits
<1>4. /\ \A i \in 0 .. Len(docs) - 1 : Bitvectors!Get(docs, i) = docs[i + 1]
      /\ Bitvectors!Encodable(docs)
  BY <1>1, <1>2, LaidOut
<1>5. /\ \A i \in 0 .. Len(freqs) - 1 : Bitvectors!Get(freqs, i) = freqs[i + 1]
      /\ Bitvectors!Encodable(freqs)
  BY <1>1, <1>3, LaidOut
<1>6. ASSUME NEW i \in 0 .. Len(added) - 1
      PROVE /\ Index!Get(docs, i) = Index!DocsBits(added[i + 1])
            /\ Index!Get(freqs, i) = Index!FreqsBits(added[i + 1])
 <2>1. i + 1 \in 1 .. Len(added)
  <3>1. added \in Seq(Lists)  BY DEF IndexInv
  <3> QED BY <3>1
 <2>2. docs[i + 1] = Index!DocsBits(added[i + 1]) /\ freqs[i + 1] = Index!FreqsBits(added[i + 1])
   BY <2>1 DEF IndexInv
 <2>3. Bitvectors!Get(docs, i) = docs[i + 1] /\ Bitvectors!Get(freqs, i) = freqs[i + 1]
   BY <1>1, <1>4, <1>5
 <2> QED BY <2>2, <2>3, IndexNames
<1>7. Index!Encodable(docs) /\ Index!Encodable(freqs)  BY <1>4, <1>5, IndexNames
<1> QED BY <1>6, <1>7

LEMMA DocidIs ==
  ASSUME NEW values \in Seq(Nat), NEW p \in Nat, p <= Len(values)
  PROVE Index!Docid(values, Len(values), p) \in Nat
<1>1. NumDocs \in Nat  BY SequencesAssumption DEF Index!FreqIndexAssumption
<1> QED BY <1>1 DEF Index!Docid

LEMMA IndexOpens ==
  ASSUME IndexInv, NEW i \in Nat, i < Len(added), Index!Open(i)
  PROVE IndexInv'
<1>1. /\ added \in Seq(Lists) /\ i \in 0 .. Len(added) - 1 /\ i + 1 \in 1 .. Len(added)
      /\ added[i + 1] \in Lists
 <2>1. added \in Seq(Lists)  BY DEF IndexInv
 <2> QED BY <2>1
<1>2. PICK l \in Lists : l = added[i + 1]  BY <1>1
<1>3. PICK d, g, m : d = Index!DocsBits(l) /\ g = Index!FreqsBits(l) /\ m = Len(l.docs)  OBVIOUS
<1>4. Index!Get(docs, i) = d /\ Index!Get(freqs, i) = g  BY <1>1, <1>2, <1>3, IndexFinds
<1>5. /\ d.occurrences = Index!Occurrences(l) /\ d.values = l.docs
      /\ (IF d.occurrences > 1 THEN d.length ELSE 1) = m /\ g.values = Index!PartialSums(l)
  BY <1>3, BitsOfList
<1>6. /\ built /\ UNCHANGED <<added, docs, freqs, built>> /\ freq' = 0
      /\ reader' = [list |-> i + 1, occurrences |-> d.occurrences, n |-> m,
                    values |-> d.values, sums |-> g.values,
                    pos |-> 0, docid |-> Index!Docid(d.values, m, 0),
                    base |-> m, cachedPos |-> m, cachedSum |-> Garbage]
  BY <1>4, <1>5 DEF Index!Open
<1>7. PICK o, s, x : o = Index!Occurrences(l) /\ s = Index!PartialSums(l) /\ x = Index!Docid(l.docs, m, 0)
  OBVIOUS
<1>8. /\ m \in Nat \ {0} /\ l.docs \in Seq(Nat) /\ o \in Nat /\ s \in Seq(Nat)
  BY <1>3, <1>7, ListIs DEF SumUp
<1>9. x \in Nat
 <2>1. 0 \in Nat /\ 0 <= Len(l.docs)  BY <1>3, <1>8
 <2> QED BY <1>3, <1>7, <1>8, <2>1, DocidIs
<1>10. Garbage \in Nat  BY SequencesAssumption DEF Index!FreqIndexAssumption
<1>11. reader' = [list |-> i + 1, occurrences |-> o, n |-> m, values |-> l.docs, sums |-> s,
                  pos |-> 0, docid |-> x, base |-> m, cachedPos |-> m, cachedSum |-> Garbage]
  BY <1>5, <1>6, <1>7
<1>12. ReaderIs(reader')
 <2>1. PICK r : r = reader'  OBVIOUS
 <2>2. /\ r \in [list : Nat, occurrences : Nat, n : Nat, values : Seq(Nat), sums : Seq(Nat),
                 pos : Nat, docid : Nat, base : Nat, cachedPos : Nat, cachedSum : Nat]
   BY <1>8, <1>9, <1>10, <1>11, <2>1
 <2>3. r.list = i + 1 /\ r.n = m /\ r.values = l.docs /\ r.occurrences = o /\ r.sums = s
   BY <1>11, <2>1
 <2>4. r.pos = 0 /\ r.base = m /\ r.cachedPos = m  BY <1>11, <2>1
 <2>5. r.pos <= r.n /\ r.base = r.cachedPos /\ r.cachedPos <= r.n /\ ~(r.cachedPos < r.n)
   BY <1>8, <2>3, <2>4
 <2>6. ReaderIs(r)  BY <1>1, <1>2, <1>3, <1>7, <2>2, <2>3, <2>5 DEF ReaderIs
 <2> QED BY <2>1, <2>6
<1>13. ~(freq' > 0) /\ built'  BY <1>6
<1>14. UNCHANGED <<added, docs, freqs>>  BY <1>6
<1> QED BY <1>12, <1>13, <1>14, IndexKept

\* The enumerator that is open: the list it is of, and what its fields are.
LEMMA OpenReader ==
  ASSUME IndexInv, reader.list > 0
  PROVE /\ built /\ ReaderIs(reader) /\ added[reader.list] \in Lists
        /\ reader.n \in Nat \ {0} /\ Len(reader.values) = reader.n
        /\ SumUp(reader.sums, added[reader.list].freqs, reader.n)
        /\ \A p \in 0 .. reader.n - 1 : added[reader.list].freqs[p + 1] \in Nat \ {0}
<1>1. built /\ ReaderIs(reader)  BY DEF IndexInv
<1>2. PICK l : l = added[reader.list]  OBVIOUS
<1>3. /\ reader.list \in 1 .. Len(added) /\ reader.n = Len(l.docs)
      /\ reader.values = l.docs /\ reader.sums = Index!PartialSums(l)
  BY <1>1, <1>2 DEF ReaderIs
<1>4. l \in Lists  BY <1>2, <1>3 DEF IndexInv
<1>5. /\ l.docs \in Seq(Nat) /\ Len(l.docs) \in Nat \ {0}
      /\ l.freqs \in Seq(Nat \ {0}) /\ Len(l.freqs) = Len(l.docs)
      /\ SumUp(Index!PartialSums(l), l.freqs, Len(l.docs))
  BY <1>4, ListIs
<1>6. \A p \in 0 .. Len(l.docs) - 1 : l.freqs[p + 1] \in Nat \ {0}
 <2> TAKE p \in 0 .. Len(l.docs) - 1
 <2>1. p + 1 \in 1 .. Len(l.freqs)  BY <1>5
 <2> QED BY <1>5, <2>1
<1> QED BY <1>1, <1>2, <1>3, <1>4, <1>5, <1>6

LEMMA IndexMoves ==
  ASSUME IndexInv, Index!MoveDocs
  PROVE IndexInv'
<1>1. reader.list > 0 /\ freq' = 0 /\ UNCHANGED <<added, docs, freqs, built>>  BY DEF Index!MoveDocs
<1>2. PICK r : r = reader  OBVIOUS
<1>3. /\ built /\ ReaderIs(r) /\ r.n \in Nat \ {0} /\ Len(r.values) = r.n  BY <1>1, <1>2, OpenReader
<1>4. ASSUME NEW p \in 0 .. r.n, reader' = Index!DocsAt(p) PROVE ReaderIs(reader')
 <2>1. PICK x : x = Index!Docid(r.values, r.n, p)  OBVIOUS
 <2>2. x \in Nat
  <3>1. r.values \in Seq(Nat) /\ p \in Nat /\ p <= Len(r.values)  BY <1>3 DEF ReaderIs
  <3>2. Index!Docid(r.values, Len(r.values), p) \in Nat  BY <3>1, DocidIs
  <3> QED BY <1>3, <2>1, <3>2
 <2>3. reader' = [r EXCEPT !.pos = p, !.docid = x]  BY <1>2, <1>4, <2>1 DEF Index!DocsAt
 <2>4. PICK q : q = reader'  OBVIOUS
 <2>5. q = [r EXCEPT !.pos = p, !.docid = x] /\ p \in Nat /\ p <= r.n  BY <1>3, <2>3, <2>4
 <2>6. ReaderIs(q)  BY <1>3, <2>2, <2>5 DEF ReaderIs
 <2> QED BY <2>4, <2>6
<1>5. ReaderIs(reader')
 <2>1. CASE \E p \in 0 .. reader.n : reader' = Index!DocsAt(p)  BY <1>2, <1>4, <2>1
 <2>2. CASE reader.pos < reader.n /\ reader' = Index!DocsAt(reader.pos + 1)
  <3>1. r.pos \in Nat /\ r.pos < r.n  BY <1>2, <1>3, <2>2 DEF ReaderIs
  <3>2. r.pos + 1 \in 0 .. r.n  BY <1>3, <3>1
  <3> QED BY <1>2, <1>4, <2>2, <3>2
 <2>3. CASE \E bound \in 0 .. NumDocs :
                reader' = IF bound = reader.docid THEN reader
                          ELSE Index!DocsAt(Index!Min({reader.n} \cup
                                   {p \in 0 .. reader.n - 1 : reader.values[p + 1] >= bound}))
  <3>1. PICK bound \in 0 .. NumDocs :
               reader' = IF bound = reader.docid THEN reader
                         ELSE Index!DocsAt(Index!Min({reader.n} \cup
                                  {p \in 0 .. reader.n - 1 : reader.values[p + 1] >= bound}))
    BY <2>3
  <3>2. CASE bound = reader.docid  BY <1>2, <1>3, <3>1, <3>2
  <3>3. CASE bound # reader.docid
   <4>1. PICK S : S = {r.n} \cup {p \in 0 .. r.n - 1 : r.values[p + 1] >= bound}  OBVIOUS
   <4>2. S \subseteq 0 .. r.n /\ S \subseteq Nat /\ S # {}  BY <1>3, <4>1
   <4>3. Index!Min(S) = Min(S)  BY DEF Index!Min, Min
   <4>4. Min(S) \in S  BY <4>2, MinFacts
   <4>5. reader' = Index!DocsAt(Index!Min(S))  BY <1>2, <3>1, <3>3, <4>1
   <4> QED BY <1>4, <4>2, <4>3, <4>4, <4>5
  <3> QED BY <3>2, <3>3
 <2> QED BY <2>1, <2>2, <2>3 DEF Index!MoveDocs
<1>6. built' /\ ~(freq' > 0)  BY <1>1, <1>3
<1>7. UNCHANGED <<added, docs, freqs>>  BY <1>1
<1> QED BY <1>5, <1>6, <1>7, IndexKept

\* The sum that is kept, or the one that is read, is that of the position before.
LEMMA IndexSums ==
  ASSUME IndexInv, Index!Freq
  PROVE IndexInv'
<1>1. reader.list > 0 /\ reader.pos < reader.n /\ UNCHANGED <<added, docs, freqs, built>>
  BY DEF Index!Freq
<1>2. PICK r, s, f, p : r = reader /\ s = reader.sums /\ f = added[reader.list].freqs /\ p = reader.pos
  OBVIOUS
<1>3. PICK m \in Nat \ {0} : m = r.n  BY <1>1, <1>2, OpenReader
<1>4. /\ built /\ ReaderIs(r) /\ SumUp(s, f, m) /\ \A q \in 0 .. m - 1 : f[q + 1] \in Nat \ {0}
  BY <1>1, <1>2, <1>3, OpenReader
<1>5. /\ s \in Seq(Nat) /\ Len(s) = m /\ s[1] = f[1]
      /\ \A i \in 1 .. m - 1 : s[i + 1] = s[i] + f[i + 1]
  BY <1>4 DEF SumUp
<1>6. /\ p \in 0 .. m - 1 /\ r.base = r.cachedPos /\ r.cachedPos \in 0 .. m
      /\ r.cachedPos < m => r.cachedSum = s[r.cachedPos + 1]
 <2>1. r.pos \in Nat /\ r.cachedPos \in Nat /\ r.pos < r.n  BY <1>1, <1>2, <1>4 DEF ReaderIs
 <2> QED BY <1>2, <1>3, <1>4, <2>1 DEF ReaderIs
<1>7. \A q \in 0 .. m - 1 : Index!Sum(r, q) = s[q + 1] /\ s[q + 1] \in Nat
 <2> TAKE q \in 0 .. m - 1
 <2>1. q < m /\ q + 1 \in 1 .. m  BY <1>3
 <2> QED BY <1>2, <1>3, <1>5, <2>1 DEF Index!Sum
<1>8. PICK x : x = s[p + 1]  OBVIOUS
<1>9. x \in Nat /\ Index!Sum(r, p) = x  BY <1>6, <1>7, <1>8
<1>10. /\ reader' = [r EXCEPT !.base = p, !.cachedPos = p, !.cachedSum = x]
       /\ freq' = f[p + 1]
 <2>1. CASE p = 0
  <3>1. /\ reader' = [r EXCEPT !.base = 0, !.cachedPos = 0, !.cachedSum = Index!Sum(r, 0)]
        /\ freq' = Index!Sum(r, 0)
    BY <1>2, <2>1 DEF Index!Freq
  <3>2. x = f[p + 1]  BY <1>5, <1>8, <2>1
  <3> QED BY <1>9, <2>1, <3>1, <3>2
 <2>2. CASE p # 0
  <3>1. PICK at : at = IF Index!InStep(r) THEN r.base + 1 ELSE r.pos  OBVIOUS
  <3>2. at = p  BY <1>2, <1>6, <3>1 DEF Index!InStep
  <3>3. /\ reader' = [r EXCEPT !.base = at, !.cachedPos = Index!KeptFor(r), !.cachedSum = Index!Sum(r, at)]
        /\ freq' = Index!Sum(r, at) - Index!Previous(r)
    BY <1>2, <2>2, <3>1 DEF Index!Freq
  <3>4. Index!KeptFor(r) = p  BY <1>2 DEF Index!KeptFor
  <3>5. Index!Previous(r) = s[p]
   <4>1. CASE Index!InStep(r)
    <5>1. r.cachedPos + 1 = p /\ Index!Previous(r) = r.cachedSum
      BY <1>2, <4>1 DEF Index!InStep, Index!Previous
    <5>2. r.cachedPos < m  BY <1>6, <5>1
    <5> QED BY <1>6, <5>1, <5>2
   <4>2. CASE ~Index!InStep(r)
    <5>1. Index!Previous(r) = Index!Sum(r, p - 1)  BY <1>2, <4>2 DEF Index!Previous
    <5>2. p - 1 \in 0 .. m - 1 /\ (p - 1) + 1 = p  BY <1>6, <2>2
    <5> QED BY <1>7, <5>1, <5>2
   <4> QED BY <4>1, <4>2
  <3>6. x - s[p] = f[p + 1]
   <4>1. p \in 1 .. m - 1 /\ p \in 1 .. m /\ p \in 0 .. m - 1  BY <1>6, <2>2
   <4>2. PICK a, b : a = s[p] /\ b = f[p + 1]  OBVIOUS
   <4>3. a \in Nat /\ b \in Nat /\ x = a + b  BY <1>4, <1>5, <1>8, <4>1, <4>2
   <4> QED BY <4>2, <4>3
  <3> QED BY <1>9, <3>2, <3>3, <3>4, <3>5, <3>6
 <2> QED BY <2>1, <2>2
<1>11. PICK q : q = reader'  OBVIOUS
<1>12. ReaderIs(q)
 <2>1. q = [r EXCEPT !.base = p, !.cachedPos = p, !.cachedSum = x] /\ p \in Nat /\ p <= m
   BY <1>6, <1>10, <1>11
 <2>2. q.base = p /\ q.cachedPos = p /\ q.cachedSum = x /\ q.sums = s /\ q.n = m
   BY <1>2, <1>3, <1>4, <2>1 DEF ReaderIs
 <2>3. q \in [list : Nat, occurrences : Nat, n : Nat, values : Seq(Nat), sums : Seq(Nat),
              pos : Nat, docid : Nat, base : Nat, cachedPos : Nat, cachedSum : Nat]
   BY <1>4, <1>9, <2>1 DEF ReaderIs
 <2>4. /\ q.list = r.list /\ q.values = r.values /\ q.occurrences = r.occurrences /\ q.pos = r.pos
       /\ q.sums = r.sums /\ q.n = r.n
   BY <1>4, <2>1 DEF ReaderIs
 <2> QED BY <1>3, <1>4, <1>8, <2>1, <2>2, <2>3, <2>4 DEF ReaderIs
<1>13. q.list = r.list /\ q.pos = p /\ q.n = m  BY <1>2, <1>3, <1>4, <1>10, <1>11 DEF ReaderIs
<1>14. /\ reader'.list > 0 /\ reader'.pos < reader'.n
       /\ freq' = added[reader'.list].freqs[reader'.pos + 1]
 <2>1. q.list > 0 /\ q.pos < q.n  BY <1>1, <1>2, <1>3, <1>13
 <2>2. freq' = added[q.list].freqs[q.pos + 1]  BY <1>2, <1>10, <1>13
 <2> QED BY <1>11, <2>1, <2>2
<1>15. built' /\ ReaderIs(reader') /\ UNCHANGED <<added, docs, freqs>>  BY <1>1, <1>4, <1>11, <1>12
<1> QED BY <1>14, <1>15, IndexKept

LEMMA IndexStays ==
  ASSUME IndexInv, UNCHANGED <<added, docs, freqs, built, reader, freq>>
  PROVE IndexInv'
<1>1. (reader.list = 0 /\ freq = 0) \/ (built' /\ ReaderIs(reader))  BY DEF IndexInv
<1>2. freq > 0 => /\ reader.list > 0 /\ reader.pos < reader.n
                  /\ freq = added[reader.list].freqs[reader.pos + 1]
  BY DEF IndexInv
<1> QED BY <1>1, <1>2, IndexKept

\* What the properties of the part say.
LEMMA IndexRead ==
  ASSUME IndexInv
  PROVE Index!CacheInStep /\ Index!EndpointsEncodable /\ Index!ListRead /\ Index!FreqOfDocument
<1>1. Index!EndpointsEncodable  BY IndexFinds DEF Index!EndpointsEncodable
<1>2. Index!FreqOfDocument  BY DEF IndexInv, Index!FreqOfDocument
<1>3. ASSUME reader.list > 0
      PROVE /\ reader.base = reader.cachedPos
            /\ reader.cachedPos < reader.n => reader.cachedSum = Index!Sum(reader, reader.cachedPos)
 <2>1. ReaderIs(reader)  BY <1>3, OpenReader
 <2> QED BY <2>1 DEF ReaderIs, Index!Sum
<1>4. Index!CacheInStep  BY <1>3 DEF Index!CacheInStep
<1>5. Index!ListRead  BY OpenReader DEF Index!ListRead, ReaderIs
<1> QED BY <1>1, <1>2, <1>4, <1>5

------------------------------
(* SequenceCollection. *)

LEMMA CollectionNames ==
  /\ \A c, i : Collection!Get(c, i) = Bitvectors!Get(c, i)
  /\ \A c : Collection!Encodable(c) <=> Bitvectors!Encodable(c)
  /\ \A x : Collection!CeilLog2(x) = CeilLog2(x) /\ Collection!Msb(x) = Msb(x)
<1>1. \A w : Collection!Sums(w) = Bitvectors!Sums(w)  BY Zenon DEF Collection!Sums, Bitvectors!Sums
<1>2. \A c, k : Collection!Bits(c, k) = Bitvectors!Bits(c, k)
  BY <1>1 DEF Collection!Bits, Bitvectors!Bits
<1>3. \A c : Collection!Endpoints(c) = Bitvectors!Endpoints(c) /\ Collection!Stored(c) = Bitvectors!Stored(c)
  BY <1>2 DEF Collection!Endpoints, Bitvectors!Endpoints, Collection!Stored, Bitvectors!Stored
<1>4. ASSUME NEW c, NEW i PROVE Collection!Get(c, i) = Bitvectors!Get(c, i)
 <2>1. \A S : Collection!Max(S) = Bitvectors!Max(S)  BY DEF Collection!Max, Bitvectors!Max
 <2>2. PICK at : at = {k \in 1 .. Len(c) : Bitvectors!Endpoints(c)[k] = Bitvectors!Stored(c)[i + 1]}
   OBVIOUS
 <2>3. Collection!Get(c, i) = IF at = {} THEN [size |-> 0] ELSE c[Collection!Max(at)]
   BY <1>3, <2>2 DEF Collection!Get
 <2>4. Bitvectors!Get(c, i) = IF at = {} THEN [size |-> 0] ELSE c[Bitvectors!Max(at)]
   BY <2>2 DEF Bitvectors!Get
 <2> QED BY <2>1, <2>3, <2>4
<1>5. \A c : Collection!Encodable(c) <=> Bitvectors!Encodable(c)
  BY <1>2, <1>3 DEF Collection!Encodable, Bitvectors!Encodable
<1>6. \A x : Collection!CeilLog2(x) = CeilLog2(x) /\ Collection!Msb(x) = Msb(x)
  BY DEF Collection!CeilLog2, CeilLog2, Collection!Msb, Msb
<1> QED BY <1>4, <1>5, <1>6

LEMMA GammaIs ==
  ASSUME NEW x \in Nat
  PROVE Collection!GammaBits(x) \in Nat \ {0}
<1>1. PICK y : y = Msb(x + 1)  OBVIOUS
<1>2. y \in Nat
 <2>1. x + 1 \in Nat /\ x + 1 > 0  OBVIOUS
 <2>2. Msb(x + 1) \in 0 .. x + 1  BY <2>1, MsbFacts
 <2> QED BY <1>1, <2>2
<1>3. Collection!GammaBits(x) = 2 * y + 1  BY <1>1, CollectionNames DEF Collection!GammaBits
<1> QED BY <1>2, <1>3

\* The power of two that a logarithm stands for is not smaller than the number.
LEMMA PowerAbove ==
  ASSUME NEW x \in Nat \ {0}
  PROVE x <= Power(CeilLog2(x)) /\ Power(CeilLog2(x)) \in Nat /\ CeilLog2(x) \in Nat
<1>1. CeilLog2(x) \in Nat  BY CeilIs
<1>2. Power(CeilLog2(x)) \in Nat \ {0}  BY <1>1, PowerFacts
<1>3. CASE x > 1
 <2>1. x - 1 \in Nat /\ x - 1 > 0 /\ CeilLog2(x) = Msb(x - 1) + 1  BY <1>3 DEF CeilLog2
 <2>2. x - 1 < Power(CeilLog2(x))  BY <2>1, MsbFacts
 <2> QED BY <1>1, <1>2, <2>2
<1>4. CASE x = 1  BY <1>1, <1>2, <1>4
<1> QED BY <1>3, <1>4

\* What is written of a sequence: its universe is above its last element.
LEMMA PreparedIs ==
  ASSUME NEW values \in CollectionInputs, NEW last \in Nat \ {0}, values[Len(values)] <= last
  PROVE LET p == Collection!Prepared(values, last)
        IN  /\ p.n = Len(values) /\ p.values = values /\ p.size \in Nat \ {0}
            /\ p.universe = 2 ^ p.universeBits + 1
            /\ \A i \in 1 .. Len(values) : values[i] < p.universe
<1>1. /\ values \in Seq(Nat) /\ values # <<>> /\ \A i \in 1 .. Len(values) : values[i] <= values[Len(values)]
  BY SequencesAssumption DEF Collection!InputsAssumption
<1>2. PICK m \in Nat \ {0} : m = Len(values)  BY <1>1
<1>3. PICK k, x : k = CeilLog2(last) /\ x = Power(k)  OBVIOUS
<1>4. k \in Nat /\ x \in Nat /\ last <= x  BY <1>3, PowerAbove
<1>5. Collection!Universe(last) = 2 ^ k + 1 /\ 2 ^ k = x
  BY <1>3, CollectionNames, Zenon DEF Collection!Universe, Power
<1>6. PICK u, size : /\ u = Collection!Universe(last)
                     /\ size = Collection!GammaBits(k) + Collection!GammaBits(m - 1) + (IF u = m THEN 0 ELSE u + 1)
  OBVIOUS
<1>7. u = 2 ^ k + 1 /\ u = x + 1  BY <1>5, <1>6, Zenon
<1>8. size \in Nat \ {0}
 <2>1. PICK a, b : a = Collection!GammaBits(k) /\ b = Collection!GammaBits(m - 1)  OBVIOUS
 <2>2. a \in Nat \ {0} /\ b \in Nat \ {0}  BY <1>2, <1>4, <2>1, GammaIs
 <2>3. size = a + b + (IF u = m THEN 0 ELSE u + 1) /\ u = x + 1  BY <1>6, <1>7, <2>1
 <2> QED BY <1>2, <1>4, <2>2, <2>3
<1>9. Collection!Prepared(values, last) =
          [universeBits |-> k, n |-> m, values |-> values, universe |-> u, size |-> size]
  BY <1>2, <1>3, <1>6, CollectionNames, Zenon DEF Collection!Prepared
<1>10. \A i \in 1 .. m : values[i] < u
 <2> TAKE i \in 1 .. m
 <2>1. values[i] \in Nat /\ values[m] \in Nat /\ values[i] <= values[m] /\ values[m] <= last
   BY <1>1, <1>2
 <2>2. u = x + 1  BY <1>7
 <2> QED BY <1>4, <2>1, <2>2
<1>11. u = 2 ^ k + 1  BY <1>7
<1>12. PICK p : p = Collection!Prepared(values, last)  OBVIOUS
<1>13. p.n = m /\ p.values = values /\ p.size = size /\ p.universe = u /\ p.universeBits = k
  BY <1>9, <1>12
<1>14. p.universe = 2 ^ p.universeBits + 1  BY <1>11, <1>13, Zenon
<1>15. p.n = Len(values) /\ p.values = values /\ p.size \in Nat \ {0}  BY <1>2, <1>8, <1>13
<1>16. \A i \in 1 .. Len(values) : values[i] < p.universe  BY <1>2, <1>10, <1>13
<1> QED BY <1>12, <1>14, <1>15, <1>16, Zenon

LEMMA CollectionBegins ==
  ASSUME Collection!Init
  PROVE CollectionInv
<1>1. added = <<>> /\ stored = <<>> /\ read.list = 0  BY DEF Collection!Init
<1>2. added \in Seq(CollectionInputs) /\ stored \in Seq(AllKept)  BY <1>1
<1>3. Len(added) = 0 /\ Len(stored) = 0 /\ 1 .. 0 = {}  BY <1>1
<1> QED BY <1>1, <1>2, <1>3 DEF CollectionInv

LEMMA CollectionAdds ==
  ASSUME CollectionInv, NEW values \in CollectionInputs,
         NEW last \in {values[Len(values)], values[Len(values)] + 1}, Collection!AddSequence(values, last)
  PROVE CollectionInv'
<1>1. /\ ~built /\ last > 0 /\ added' = Append(added, values) /\ UNCHANGED read
      /\ stored' = Append(stored, Collection!Prepared(values, last))
  BY DEF Collection!AddSequence
<1>2. values \in Seq(Nat) /\ values # <<>>  BY SequencesAssumption DEF Collection!InputsAssumption
<1>3. last \in Nat \ {0} /\ values[Len(values)] <= last
 <2>1. values[Len(values)] \in Nat  BY <1>2
 <2> QED BY <1>1, <2>1
<1>4. PICK p : p = Collection!Prepared(values, last)  OBVIOUS
<1>5. Kept(values, p)
 <2>1. /\ p.n = Len(values) /\ p.values = values /\ p.size \in Nat \ {0}
       /\ p.universe = 2 ^ p.universeBits + 1
       /\ \A i \in 1 .. Len(values) : values[i] < p.universe
   BY <1>3, <1>4, PreparedIs, Zenon
 <2> QED BY <2>1, Zenon DEF Kept
<1>6. p.size \in Nat \ {0}  BY <1>5 DEF Kept
<1>7. p \in AllKept  BY <1>3, <1>4, <1>6 DEF AllKept
<1>8. /\ added \in Seq(CollectionInputs) /\ stored \in Seq(AllKept) /\ Len(stored) = Len(added)
      /\ \A k \in 1 .. Len(added) : Kept(added[k], stored[k])
  BY DEF CollectionInv
<1>9. PICK m \in Nat : m = Len(added)  BY <1>8
<1>10. /\ added' \in Seq(CollectionInputs) /\ Len(added') = m + 1 /\ added'[m + 1] = values
       /\ \A k \in 1 .. m : added'[k] = added[k]
  BY <1>1, <1>8, <1>9
<1>11. /\ stored' \in Seq(AllKept) /\ Len(stored') = m + 1 /\ stored'[m + 1] = p
       /\ \A k \in 1 .. m : stored'[k] = stored[k]
  BY <1>1, <1>4, <1>7, <1>8, <1>9
<1>12. ASSUME NEW k \in 1 .. m + 1 PROVE Kept(added'[k], stored'[k])
 <2>1. CASE k = m + 1  BY <1>5, <1>10, <1>11, <2>1
 <2>2. CASE k # m + 1
  <3>1. k \in 1 .. m  BY <1>9, <2>2
  <3> QED BY <1>8, <1>9, <1>10, <1>11, <3>1
 <2> QED BY <2>1, <2>2
<1>13. AllKept' = AllKept  BY DEF AllKept, Collection!Prepared
<1>14. \A k \in 1 .. Len(added') : Kept(added[k], stored[k])'  BY <1>10, <1>12 DEF Kept
<1>15. read'.list = 0  BY <1>1 DEF CollectionInv
<1>16. added' \in Seq(CollectionInputs) /\ stored' \in Seq(AllKept)' /\ Len(stored') = Len(added')
  BY <1>10, <1>11, <1>13
<1> QED BY <1>14, <1>15, <1>16 DEF CollectionInv

LEMMA CollectionKept ==
  ASSUME CollectionInv, UNCHANGED <<added, stored>>,
         read'.list = 0 \/ (built' /\ read'.list \in 1 .. Len(added) /\ Collection!ReadAsWritten')
  PROVE CollectionInv'
<1>1. AllKept' = AllKept  BY DEF AllKept, Collection!Prepared
<1>2. /\ added' \in Seq(CollectionInputs) /\ stored' \in Seq(AllKept)' /\ Len(stored') = Len(added')
  BY <1>1 DEF CollectionInv
<1>3. \A k \in 1 .. Len(added') : Kept(added'[k], stored'[k])  BY DEF CollectionInv
<1> QED BY <1>2, <1>3 DEF CollectionInv

LEMMA CollectionStays ==
  ASSUME CollectionInv, UNCHANGED <<added, stored, read>>, built => built'
  PROVE CollectionInv'
<1>1. read.list = 0 \/ (built' /\ read.list \in 1 .. Len(added) /\ Collection!ReadAsWritten)
  BY DEF CollectionInv
<1>2. Collection!ReadAsWritten' = Collection!ReadAsWritten  BY DEF Collection!ReadAsWritten
<1> QED BY <1>1, <1>2, CollectionKept

LEMMA CollectionFinds ==
  ASSUME CollectionInv
  PROVE /\ \A i \in 0 .. Len(added) - 1 : Collection!Get(stored, i) = stored[i + 1]
        /\ Collection!Encodable(stored)
<1>1. stored \in Seq(AllKept) /\ Len(stored) = Len(added)  BY DEF CollectionInv
<1>2. \A r \in AllKept : r.size \in Nat \ {0}  BY DEF AllKept
<1>3. /\ \A i \in 0 .. Len(stored) - 1 : Bitvectors!Get(stored, i) = stored[i + 1]
      /\ Bitvectors!Encodable(stored)
  BY <1>1, <1>2, LaidOut
<1> QED BY <1>1, <1>3, CollectionNames

LEMMA CollectionOpens ==
  ASSUME CollectionInv, NEW i \in Nat, i < Len(added), Collection!Open(i)
  PROVE CollectionInv'
<1>1. i \in 0 .. Len(added) - 1 /\ i + 1 \in 1 .. Len(added)
 <2>1. added \in Seq(CollectionInputs)  BY DEF CollectionInv
 <2> QED BY <2>1
<1>2. PICK s : s = stored[i + 1]  OBVIOUS
<1>3. Collection!Get(stored, i) = s  BY <1>1, <1>2, CollectionFinds
<1>4. /\ built /\ UNCHANGED <<added, stored, built>>
      /\ read' = [list |-> i + 1, universe |-> 2 ^ s.universeBits + 1, n |-> s.n, values |-> s.values]
  BY <1>3, Zenon DEF Collection!Open
<1>5. Kept(added[i + 1], s)  BY <1>1, <1>2 DEF CollectionInv
<1>6. s.n = Len(added[i + 1]) /\ s.values = added[i + 1] /\ s.universe = 2 ^ s.universeBits + 1
  BY <1>5, Zenon DEF Kept
<1>7. read' = [list |-> i + 1, universe |-> s.universe, n |-> s.n, values |-> s.values]
  BY <1>4, <1>6, Zenon
<1>8. Collection!ReadAsWritten'  BY <1>2, <1>4, <1>6, <1>7 DEF Collection!ReadAsWritten
<1>9. built' /\ read'.list \in 1 .. Len(added) /\ UNCHANGED <<added, stored>>  BY <1>1, <1>4, <1>7
<1> QED BY <1>8, <1>9, CollectionKept

\* What the properties of the part say.
LEMMA CollectionRead ==
  ASSUME CollectionInv
  PROVE Collection!AllEncodable /\ Collection!ReadAsWritten
<1>1. \A k \in 1 .. Len(stored) : \A i \in 1 .. Len(added[k]) : added[k][i] < stored[k].universe
  BY DEF CollectionInv, Kept
<1>2. Collection!AllEncodable  BY <1>1, CollectionFinds DEF Collection!AllEncodable
<1>3. Collection!ReadAsWritten  BY DEF CollectionInv, Collection!ReadAsWritten
<1> QED BY <1>2, <1>3

------------------------------
(* OptimalPartition. *)

\* A sequence is not empty.
LEMMA SizeType == sequence \in PartitionInputs => Optimal!size \in Nat \ {0}
BY SequencesAssumption DEF Optimal!InputsAssumption, Optimal!size, Optimal!Cardinality

\* The bound of the first window, and those made from it, are numbers.
LEMMA BoundType ==
  /\ Optimal!CostLb \in Nat
  /\ \A b \in Nat : (b * Factor[1]) \div Factor[2] \in Nat
<1>1. Optimal!CostLb = FixCost + 0  BY DEF Optimal!CostLb, Optimal!Cost
<1>2. Optimal!CostLb \in Nat  BY <1>1, SequencesAssumption DEF Optimal!CostsAssumption
<1>3. Factor[1] \in Nat /\ Factor[2] \in Nat \ {0}
  BY SequencesAssumption DEF Optimal!CostsAssumption
<1>4. ASSUME NEW b \in Nat PROVE (b * Factor[1]) \div Factor[2] \in Nat
 <2> DEFINE x == b * Factor[1]
            y == Factor[2]
 <2>1. x \in Nat /\ y \in Nat \ {0}  BY <1>3
 <2> HIDE DEF x, y
 <2>2. x \div y \in Nat  BY <2>1
 <2> QED BY <2>2 DEF x, y
<1> QED BY <1>2, <1>4

\* A window stops at an end that is behind its start, and not before the one it begins to look
\* from.
LEMMA StopFacts ==
  ASSUME LoopInv, phase = "loop", window <= Len(bounds)
  PROVE /\ Optimal!FirstEnd \in start + 1 .. Optimal!size
        /\ Optimal!StopEnd \in Optimal!FirstEnd .. Optimal!size
        /\ Optimal!StopEnd \in start + 1 .. Optimal!size
<1>1. /\ Optimal!size \in Nat \ {0} /\ start \in 0 .. Optimal!size /\ window \in 1 .. Len(windowEnds)
      /\ windowEnds \in Seq(0 .. Optimal!size) /\ lastEnd \in start + 1 .. Optimal!size
  BY SizeType DEF LoopInv
<1>2. windowEnds[window] \in 0 .. Optimal!size  BY <1>1
<1>3. Optimal!FirstEnd \in {windowEnds[window], lastEnd} /\ Optimal!FirstEnd >= lastEnd
 <2> DEFINE a == windowEnds[window]
 <2>1. a \in Nat /\ lastEnd \in Nat  BY <1>1, <1>2
 <2> HIDE DEF a
 <2>2. \E x \in {a, lastEnd} : \A y \in {a, lastEnd} : x >= y  BY <2>1
 <2>3. Optimal!FirstEnd = CHOOSE x \in {a, lastEnd} : \A y \in {a, lastEnd} : x >= y
   BY DEF Optimal!FirstEnd, Optimal!Max, a
 <2> QED BY <2>2, <2>3 DEF a
<1>4. Optimal!FirstEnd \in start + 1 .. Optimal!size  BY <1>1, <1>2, <1>3
<1> DEFINE S == {Optimal!size} \cup {j \in Optimal!FirstEnd .. Optimal!size : Optimal!WindowCost(start, j) >= bounds[window]}
<1>5. S # {} /\ \A j \in S : j \in Optimal!FirstEnd .. Optimal!size  BY <1>1, <1>4
<1>6. Optimal!StopEnd = Min(S)
 <2>1. Optimal!Min(S) = Min(S)  BY DEF Optimal!Min, Min
 <2> QED BY <2>1 DEF Optimal!StopEnd
<1> HIDE DEF S
<1>7. S \subseteq Nat  BY <1>1, <1>4, <1>5
<1>8. Optimal!StopEnd \in Optimal!FirstEnd .. Optimal!size  BY <1>5, <1>6, <1>7, MinFacts
<1> QED BY <1>1, <1>4, <1>8

\* The invariant holds before the first step.
LEMMA LoopInvInit ==
  ASSUME Optimal!Init
  PROVE LoopInv
<1>1. /\ sequence \in PartitionInputs /\ bounds = <<>> /\ windowEnds = <<>> /\ start = 0 /\ window = 1
      /\ lastEnd = 1 /\ path = [j \in 0 .. Optimal!size |-> 0] /\ phase = "bounds"
  BY DEF Optimal!Init
<1>2. Optimal!size \in Nat \ {0}  BY <1>1, SizeType
<1> QED BY <1>1, <1>2 DEF LoopInv

\* Every step keeps the invariant: only an end that is behind the start gets the start as its
\* predecessor.
LEMMA LoopInvStep ==
  ASSUME LoopInv, Optimal!MakeWindow \/ Optimal!Extend \/ Optimal!NextStart
  PROVE LoopInv'
<1>1. Optimal!size \in Nat \ {0} /\ start \in 0 .. Optimal!size  BY SizeType DEF LoopInv
<1>2. CASE Optimal!MakeWindow
 <2> DEFINE bound == IF bounds = <<>> THEN Optimal!CostLb
                     ELSE (bounds[Len(bounds)] * Factor[1]) \div Factor[2]
 <2>1. bound \in Nat
  <3>1. CASE bounds = <<>>  BY <3>1, BoundType
  <3>2. CASE bounds # <<>>
   <4>1. bounds[Len(bounds)] \in Nat  BY <3>2 DEF LoopInv
   <4> QED BY <3>2, <4>1, BoundType
  <3> QED BY <3>1, <3>2
 <2>2. /\ phase = "bounds" /\ phase' \in {"bounds", "loop"}
       /\ \/ bounds' = Append(bounds, bound) /\ windowEnds' = Append(windowEnds, 0)
          \/ bounds' = bounds /\ windowEnds' = windowEnds
       /\ UNCHANGED <<sequence, start, window, lastEnd, minCost, path>>
   BY <1>2 DEF Optimal!MakeWindow
 <2>3. Optimal!size' = Optimal!size  BY <2>2 DEF Optimal!size
 <2> HIDE DEF bound
 <2>4. bounds' \in Seq(Nat) /\ windowEnds' \in Seq(0 .. Optimal!size) /\ Len(bounds') = Len(windowEnds')
  <3>1. bounds \in Seq(Nat) /\ windowEnds \in Seq(0 .. Optimal!size) /\ Len(bounds) = Len(windowEnds)
    BY DEF LoopInv
  <3>2. 0 \in 0 .. Optimal!size  BY <1>1
  <3>3. /\ Append(bounds, bound) \in Seq(Nat) /\ Append(windowEnds, 0) \in Seq(0 .. Optimal!size)
        /\ Len(Append(bounds, bound)) = Len(Append(windowEnds, 0))
    BY <2>1, <3>1, <3>2
  <3> QED BY <2>2, <3>1, <3>3
 <2> QED BY <1>1, <2>2, <2>3, <2>4 DEF LoopInv
<1>3. CASE Optimal!Extend
 <2>1. /\ phase = "loop" /\ window <= Len(bounds)
       /\ path' = [j \in 0 .. Optimal!size |-> Optimal!PathOf(j)]
       /\ windowEnds' = [windowEnds EXCEPT ![window] = Optimal!StopEnd]
       /\ lastEnd' = Optimal!StopEnd /\ window' = window + 1
       /\ UNCHANGED <<sequence, bounds, start, phase>>
   BY <1>3 DEF Optimal!Extend, Optimal!LastEnd
 <2>2. /\ Optimal!FirstEnd \in start + 1 .. Optimal!size /\ Optimal!StopEnd \in Optimal!FirstEnd .. Optimal!size
       /\ Optimal!StopEnd \in start + 1 .. Optimal!size
   BY <2>1, StopFacts
 <2>3. Optimal!size' = Optimal!size  BY <2>1 DEF Optimal!size
 <2>4. windowEnds' \in Seq(0 .. Optimal!size) /\ Len(windowEnds') = Len(windowEnds)
   BY <1>1, <2>1, <2>2 DEF LoopInv
 <2>5. ASSUME NEW j \in 1 .. Optimal!size PROVE Optimal!PathOf(j) \in 0 .. j - 1
  <3>1. CASE Optimal!Better(j)
   <4>1. j \in Optimal!FirstEnd .. Optimal!StopEnd /\ Optimal!PathOf(j) = start
     BY <3>1 DEF Optimal!Better, Optimal!PathOf
   <4> DEFINE f == Optimal!FirstEnd
              z == Optimal!StopEnd
              m == Optimal!size
   <4>2. m \in Nat /\ start \in Nat /\ f \in start + 1 .. m /\ z \in f .. m /\ j \in f .. z
     BY <1>1, <2>2, <4>1
   <4> HIDE DEF f, z, m
   <4>3. start \in 0 .. j - 1  BY <4>2
   <4> QED BY <4>1, <4>3
  <3>2. CASE ~Optimal!Better(j)  BY <3>2 DEF Optimal!PathOf, LoopInv
  <3> QED BY <3>1, <3>2
 <2>6. DOMAIN path' = 0 .. Optimal!size /\ \A j \in 1 .. Optimal!size : path'[j] \in 0 .. j - 1
   BY <1>1, <2>1, <2>5
 <2>7. window' \in Nat \ {0} /\ start < Optimal!size /\ sequence \in PartitionInputs
       /\ bounds \in Seq(Nat) /\ Len(bounds) = Len(windowEnds')
   BY <2>1, <2>4 DEF LoopInv
 <2> DEFINE m == Optimal!size
            z == Optimal!StopEnd
 <2>8. /\ windowEnds' \in Seq(0 .. m) /\ DOMAIN path' = 0 .. m /\ start \in 0 .. m /\ start < m
       /\ \A j \in 1 .. m : path'[j] \in 0 .. j - 1
       /\ lastEnd' \in start + 1 .. m /\ m' = m
   BY <1>1, <2>1, <2>2, <2>3, <2>4, <2>6, <2>7
 <2> HIDE DEF m, z
 <2> QED BY <2>1, <2>7, <2>8 DEF LoopInv, m
<1>4. CASE Optimal!NextStart
 <2>1. /\ phase = "loop" /\ start' = start + 1 /\ window' = 1 /\ lastEnd' = start + 2
       /\ phase' = (IF start + 1 = Optimal!size THEN "done" ELSE "loop")
       /\ UNCHANGED <<sequence, bounds, windowEnds, minCost, path>>
   BY <1>4 DEF Optimal!NextStart
 <2>2. Optimal!size' = Optimal!size  BY <2>1 DEF Optimal!size
 <2>3. start < Optimal!size  BY <2>1 DEF LoopInv
 <2> QED BY <1>1, <2>1, <2>2, <2>3 DEF LoopInv
<1> QED BY <1>2, <1>3, <1>4

LEMMA LoopStays ==
  ASSUME LoopInv, UNCHANGED <<sequence, phase, bounds, windowEnds, start, window, lastEnd, path>>
  PROVE LoopInv'
BY DEF LoopInv, Optimal!size

LEMMA LoopGoesBack ==
  ASSUME LoopInv
  PROVE Optimal!PathGoesBack
<1> SUFFICES ASSUME NEW j \in 1 .. Optimal!size PROVE path[j] < j  BY DEF Optimal!PathGoesBack
<1>1. Optimal!size \in Nat /\ path[j] \in 0 .. j - 1  BY SizeType DEF LoopInv
<1> QED BY <1>1

------------------------------
(* All parts. *)

\* What every step does to what is seen.
ShownStep ==
  /\ part \in Shows /\ part' = part /\ Viewed' = Viewed
  /\ Goes(Viewed, Spot, Spot') \/ (Spot' = Spot /\ call' = call)
PartStep ==
  \/ ShownStep
  \/ part = "partitioned" /\ part' = part /\ AbstractStep
  \/ UNCHANGED <<Viewed, CursorView, call>>

LEMMA ViewerNames ==
  /\ \A s : Viewer!Size(s) = Whole!Size(s)
  /\ \A s, p : Viewer!At(s, p) = Whole!At(s, p)
  /\ \A s, v : Viewer!FirstGeq(s, v) = Whole!FirstGeq(s, v)
<1>1. \A S : Viewer!Cardinality(S) = Whole!Cardinality(S) /\ Viewer!Min(S) = Whole!Min(S)
  BY DEF Viewer!Cardinality, Whole!Cardinality, Viewer!Min, Whole!Min
<1>2. \A s : Viewer!Size(s) = Whole!Size(s)  BY <1>1 DEF Viewer!Size, Whole!Size
<1>3. \A s, p : Viewer!At(s, p) = Whole!At(s, p)  BY <1>2 DEF Viewer!At, Whole!At
<1>4. \A s, v : Viewer!FirstGeq(s, v) = Whole!FirstGeq(s, v)
  BY <1>1, <1>2 DEF Viewer!FirstGeq, Whole!FirstGeq
<1> QED BY <1>2, <1>3, <1>4

LEMMA AllShown ==
  ASSUME PartInv
  PROVE Shown
<1>1. CASE part = "elias_fano"
 <2>1. PlainInv /\ Viewed = sequence /\ CursorView = Plain!View /\ Spot = PlainSpot
   BY <1>1 DEF PartInv, Viewed, CursorView, Spot
 <2> QED BY <2>1, PlainShows DEF Shown
<1>2. CASE part = "strict_elias_fano"
 <2>1. /\ PlainInv /\ OfOriginal /\ PlainSpot <= n /\ Viewed = [original EXCEPT !.universe = @ + 1]
       /\ CursorView = Plain!StrictView(original) /\ Spot = PlainSpot
   BY <1>2 DEF PartInv, Viewed, CursorView, Spot
 <2> QED BY <2>1, StrictShows DEF Shown
<1>3. CASE part = "ranked_bitvector"
 <2>1. RankedInv /\ Viewed = sequence /\ CursorView = Ranked!View /\ Spot = RankedSpot
   BY <1>3 DEF PartInv, Viewed, CursorView, Spot
 <2> QED BY <2>1, RankedShows DEF Shown
<1>4. CASE part = "indexed"
 <2>1. IndexedInv /\ Viewed = sequence /\ CursorView = cursor /\ Spot = IndexedSpot
   BY <1>4 DEF PartInv, Viewed, CursorView, Spot
 <2> QED BY <2>1 DEF Shown, IndexedInv
<1> QED BY <1>1, <1>2, <1>3, <1>4 DEF Shown, Shows

\* A call that goes from a position to another is one of the abstract cursor.
LEMMA ViewerSteps ==
  ASSUME Shown, Shown', PartStep
  PROVE [Viewer!Next \/ Viewer!StrayNext]_<<Viewed, CursorView, call>>
<1>1. CASE ShownStep
 <2>1. PICK s, q, r : s = Viewed /\ q = Spot /\ r = Spot'  OBVIOUS
 <2>2. Viewed' = s /\ CursorView = Whole!At(s, q) /\ CursorView' = Whole!At(s, r)
  <3>1. part \in Shows /\ part' \in Shows /\ Viewed' = Viewed  BY <1>1 DEF ShownStep, Shows
  <3>2. CursorView = Whole!At(Viewed, Spot) /\ CursorView' = Whole!At(Viewed, Spot)'
    BY <3>1 DEF Shown, Shows
  <3>3. Whole!At(Viewed, Spot)' = Whole!At(Viewed', Spot')
    BY DEF Whole!At, Whole!Size, Whole!Cardinality
  <3> QED BY <2>1, <3>1, <3>2, <3>3
 <2>3. CASE Spot' = Spot /\ call' = call  BY <2>1, <2>2, <2>3
 <2>4. CASE Goes(Viewed, Spot, Spot')
  <3>1. Goes(s, q, r)  BY <2>1, <2>4
  <3>2. CASE \E p \in 0 .. Whole!Size(s) : call' = <<"move", p>> /\ r = p
   <4>1. \E p \in 0 .. Viewer!Size(Viewed) : Viewer!Move(p)
     BY <2>1, <2>2, <3>2, ViewerNames DEF Viewer!Move
   <4> QED BY <2>1, <2>2, <4>1 DEF Viewer!Next
  <3>3. CASE \E bound \in 0 .. s.universe + Beyond :
                 /\ call' = <<"next_geq", bound>>
                 /\ r = IF bound = Whole!At(s, q).value THEN q ELSE Whole!FirstGeq(s, bound)
   <4>1. \E bound \in 0 .. Viewed.universe + Beyond : Viewer!NextGeq(bound)
     BY <2>1, <2>2, <3>3, ViewerNames DEF Viewer!NextGeq
   <4> QED BY <2>1, <2>2, <4>1 DEF Viewer!Next
  <3>4. CASE q < Whole!Size(s) /\ call' = <<"next", 0>> /\ r = q + 1
   <4>1. CursorView.position = q  BY <2>2 DEF Whole!At
   <4>2. Viewer!Advance  BY <2>1, <2>2, <3>4, <4>1, ViewerNames DEF Viewer!Advance
   <4> QED BY <2>1, <2>2, <4>2 DEF Viewer!Next
  <3>5. CASE \E bound \in 0 .. s.universe + Beyond :
                 call' = <<"next_geq", bound>> /\ q >= Whole!Size(s) /\ bound > s.universe /\ r = q + 1
   <4>1. CursorView.position = q  BY <2>2 DEF Whole!At
   <4>2. \E bound \in 0 .. Viewed.universe + Beyond : Viewer!Stray(bound)
     BY <2>1, <2>2, <3>5, <4>1, ViewerNames DEF Viewer!Stray
   <4> QED BY <2>1, <2>2, <4>2 DEF Viewer!StrayNext
  <3> QED BY <3>1, <3>2, <3>3, <3>4, <3>5 DEF Goes
 <2> QED BY <1>1, <2>3, <2>4 DEF ShownStep
<1>2. CASE part = "partitioned" /\ part' = part /\ AbstractStep
 <2>1. Viewed = sequence /\ Viewed' = sequence' /\ CursorView = View /\ CursorView' = View'
   BY <1>2 DEF Viewed, CursorView
 <2>2. CASE UNCHANGED <<sequence, View, call>>  BY <2>1, <2>2
 <2>3. CASE Whole!Next
  <3>1. UNCHANGED sequence  BY <2>3 DEF Whole!Next
  <3>2. CASE \E p \in 0 .. Whole!Size(sequence) : Whole!Move(p)
   <4>1. \E p \in 0 .. Viewer!Size(Viewed) : Viewer!Move(p)
     BY <2>1, <3>2, ViewerNames DEF Viewer!Move, Whole!Move
   <4> QED BY <2>1, <3>1, <4>1 DEF Viewer!Next
  <3>3. CASE \E bound \in 0 .. sequence.universe + Beyond : Whole!NextGeq(bound)
   <4>1. \E bound \in 0 .. Viewed.universe + Beyond : Viewer!NextGeq(bound)
     BY <2>1, <3>3, ViewerNames DEF Viewer!NextGeq, Whole!NextGeq
   <4> QED BY <2>1, <3>1, <4>1 DEF Viewer!Next
  <3>4. CASE Whole!Advance
   <4>1. Viewer!Advance  BY <2>1, <3>4, ViewerNames DEF Viewer!Advance, Whole!Advance
   <4> QED BY <2>1, <3>1, <4>1 DEF Viewer!Next
  <3> QED BY <2>3, <3>2, <3>3, <3>4 DEF Whole!Next
 <2> QED BY <1>2, <2>2, <2>3 DEF AbstractStep
<1>3. CASE UNCHANGED <<Viewed, CursorView, call>>  BY <1>3
<1> QED BY <1>1, <1>2, <1>3 DEF PartStep

LEMMA PartsBegin ==
  ASSUME MCInit
  PROVE PartInv /\ Viewer!Init
<1>1. PartInv
 <2>1. CASE OptimalInit  BY <2>1, LoopInvInit DEF OptimalInit, PartInv, Parts
 <2>2. CASE part = "elias_fano" /\ Plain!Init
  <3>1. Abstract!IsSequence(sequence)
   <4>1. Plain!Abstract!IsSequence(sequence)
     BY <2>2, SequencesAssumption DEF Plain!InputsAssumption, Plain!Init
   <4> QED BY <4>1 DEF Plain!Abstract!IsSequence, Abstract!IsSequence, Plain!Abstract!Size,
      Abstract!Size, Plain!Abstract!Cardinality, Abstract!Cardinality
  <3>2. Plain!Empty  BY <2>2 DEF Plain!Init
  <3> QED BY <2>2, <3>1, <3>2, PlainBegins DEF PartInv, Parts
 <2>3. CASE part = "strict_elias_fano" /\ original \in IncreasingInputs /\ Plain!StrictInit(original)
  <3>1. Abstract!IsIncreasing(original) /\ sequence = Plain!Shifted(original) /\ Plain!Empty
    BY <2>3, SequencesAssumption DEF Plain!StrictInit
  <3>2. OfOriginal  BY <3>1 DEF OfOriginal
  <3>3. PlainSpot = n /\ n \in Nat
   <4>1. phase = "write"  BY <3>1 DEF Plain!Empty
   <4>2. n \in Nat  BY <3>2, ShiftedIs, SequenceFacts
   <4> QED BY <4>1, <4>2 DEF PlainSpot
  <3>4. PlainSpot <= n  BY <3>3
  <3> QED BY <2>3, <3>1, <3>2, <3>4, ShiftedIs, PlainBegins DEF PartInv, Parts
 <2>4. CASE part = "ranked_bitvector" /\ Ranked!Init  BY <2>4, RankedBegins DEF PartInv, Parts
 <2>5. CASE part = "indexed" /\ Indexed!Init  BY <2>5, IndexedBegins DEF PartInv, Parts
 <2>6. CASE part = "partitioned" /\ Init
   BY <2>6, SequencesAssumption, InvInit DEF Assumed, PartInv, Parts
 <2>7. CASE part = "freq_index" /\ Index!Init  BY <2>7, IndexBegins DEF PartInv, Parts
 <2>8. CASE part = "sequence_collection" /\ Collection!Init
   BY <2>8, CollectionBegins DEF PartInv, Parts
 <2> QED BY <2>1, <2>2, <2>3, <2>4, <2>5, <2>6, <2>7, <2>8 DEF MCInit, OptimalInit, SampledInit,
    LaidOutInit, CollectionInit
<1>2. call = <<"none", 0>>
  BY DEF MCInit, OptimalInit, SampledInit, LaidOutInit, CollectionInit, NotCalled, Plain!Init,
     Plain!StrictInit, Plain!Empty, Ranked!Init, Indexed!Init, Init
<1>3. Whole!Size(sequence) = n  BY SizeIs DEF n
<1>4. CASE part \in Shows
 <2>1. CursorView = Whole!At(Viewed, Spot)  BY <1>1, <1>4, AllShown DEF Shown
 <2>2. Spot = Whole!Size(Viewed)
  <3>1. CASE part = "elias_fano"
   <4>1. phase = "write" /\ Spot = PlainSpot /\ Viewed = sequence
     BY <3>1 DEF MCInit, OptimalInit, SampledInit, LaidOutInit, CollectionInit, Spot, Viewed,
        Plain!Init, Plain!Empty
   <4> QED BY <1>3, <4>1 DEF PlainSpot
  <3>2. CASE part = "strict_elias_fano"
   <4>1. /\ phase = "write" /\ Spot = PlainSpot /\ Viewed = [original EXCEPT !.universe = @ + 1]
         /\ OfOriginal
     BY <1>1, <3>2 DEF MCInit, OptimalInit, SampledInit, LaidOutInit, CollectionInit, Spot, Viewed,
        Plain!StrictInit, Plain!Empty, PartInv
   <4>2. Viewed.values = original.values  BY <4>1
   <4>3. n = Abstract!Size(original)  BY <4>1, ShiftedIs
   <4>4. Abstract!Size(original) = Whole!Size(Viewed)  BY <4>2, SizeIs
   <4> QED BY <4>1, <4>3, <4>4 DEF PlainSpot
  <3>3. CASE part = "ranked_bitvector"
   <4>1. phase = "write" /\ Spot = RankedSpot /\ Viewed = sequence
     BY <3>3 DEF MCInit, OptimalInit, SampledInit, LaidOutInit, CollectionInit, Spot, Viewed, Ranked!Init
   <4> QED BY <1>3, <4>1 DEF RankedSpot
  <3>4. CASE part = "indexed"
   <4>1. cursor = Whole!At(sequence, n) /\ Spot = IndexedSpot /\ Viewed = sequence
     BY <3>4, IndexedNames
        DEF MCInit, OptimalInit, SampledInit, LaidOutInit, CollectionInit, Spot, Viewed, Indexed!Init
   <4> QED BY <1>3, <4>1 DEF IndexedSpot, Whole!At
  <3> QED BY <1>4, <3>1, <3>2, <3>3, <3>4 DEF Shows
 <2> QED BY <1>1, <1>2, <2>1, <2>2, ViewerNames DEF Viewer!Init
<1>5. CASE part = "partitioned"
 <2>1. Assumed /\ PartitionedInv /\ phase = "write" /\ Viewed = sequence /\ CursorView = View
   BY <1>1, <1>5, SequencesAssumption
      DEF MCInit, OptimalInit, SampledInit, LaidOutInit, CollectionInit, Init, Assumed, PartInv, Viewed, CursorView
 <2>2. View = Whole!At(sequence, n)  BY <2>1, ViewNow
 <2> QED BY <1>1, <1>2, <1>3, <2>1, <2>2, ViewerNames DEF Viewer!Init
<1>6. CASE part \notin Shows /\ part # "partitioned"
 <2>1. Viewed = Nothing /\ CursorView = [position |-> 0, value |-> 0, previous |-> 0]
   BY <1>1, <1>6 DEF Shows, PartInv, Parts, Viewed, CursorView
 <2>2. Viewed.universe = 0 /\ DOMAIN Viewed.values = {}  BY <2>1 DEF Nothing
 <2>3. Whole!Size(Viewed) = 0
  <3>1. Whole!Size(Viewed) = Cardinality({})  BY <2>2, SizeIs
  <3> QED BY <3>1, FS_EmptySet
 <2>4. CursorView = Whole!At(Viewed, 0)  BY <2>1, <2>2, <2>3 DEF Whole!At
 <2> QED BY <1>1, <1>2, <2>3, <2>4, ViewerNames DEF Viewer!Init
<1> QED BY <1>1, <1>4, <1>5, <1>6

\* The steps of each part.
LEMMA OptimalSteps ==
  ASSUME PartInv, OfOptimal, Optimal!MakeWindow \/ Optimal!Extend \/ Optimal!NextStart
  PROVE PartInv' /\ PartStep
<1>1. part = "optimal_partition" /\ part' = part /\ LoopInv /\ call' = call
  BY DEF PartInv, OfOptimal
<1>2. LoopInv'  BY <1>1, LoopInvStep
<1>3. UNCHANGED <<Viewed, CursorView, call>>  BY <1>1 DEF Viewed, CursorView, Nothing
<1> QED BY <1>1, <1>2, <1>3 DEF PartInv, Parts, PartStep

LEMMA PlainSteps ==
  ASSUME PartInv, OfPlain,
         Plain!Write \/ Plain!WriteEnd \/ Plain!Move \/ Plain!NextGeq \/ Plain!Advance
  PROVE PartInv' /\ PartStep
<1>1. part = "elias_fano" /\ part' = part /\ PlainInv  BY DEF PartInv, OfPlain
<1>2. /\ PlainInv' /\ sequence' = sequence
      /\ Goes(sequence, PlainSpot, PlainSpot') \/ (PlainSpot' = PlainSpot /\ call' = call)
 <2>1. CASE Plain!Write  BY <1>1, <2>1, PlainWrites
 <2>2. CASE Plain!WriteEnd  BY <1>1, <2>2, PlainEnds
 <2>3. CASE Plain!Move \/ Plain!NextGeq \/ Plain!Advance  BY <1>1, <2>3, PlainReads
 <2> QED BY <2>1, <2>2, <2>3
<1>3. Viewed = sequence /\ Viewed' = sequence' /\ Spot = PlainSpot /\ Spot' = PlainSpot'
  BY <1>1 DEF Viewed, Spot
<1>4. ShownStep  BY <1>1, <1>2, <1>3 DEF ShownStep, Shows
<1> QED BY <1>1, <1>2, <1>4 DEF PartInv, Parts, PartStep

LEMMA StrictSteps ==
  ASSUME PartInv, OfStrict, Plain!Write \/ Plain!WriteEnd \/ Plain!Move \/ Plain!Advance
  PROVE PartInv' /\ PartStep
<1>1. /\ part = "strict_elias_fano" /\ part' = part /\ PlainInv /\ OfOriginal /\ PlainSpot <= n
      /\ original' = original
  BY DEF PartInv, OfStrict
<1> DEFINE raised == [original EXCEPT !.universe = @ + 1]
<1>2. /\ PlainInv' /\ sequence' = sequence /\ PlainSpot' <= n
      /\ Goes(raised, PlainSpot, PlainSpot') \/ (PlainSpot' = PlainSpot /\ call' = call)
 <2>1. CASE Plain!Write  BY <1>1, <2>1, PlainWrites
 <2>2. CASE Plain!WriteEnd  BY <1>1, <2>2, PlainEnds
 <2>3. CASE Plain!Move \/ Plain!Advance  BY <1>1, <2>3, StrictReads
 <2> QED BY <2>1, <2>2, <2>3
<1>3. Viewed = raised /\ Viewed' = raised /\ Spot = PlainSpot /\ Spot' = PlainSpot'
  BY <1>1 DEF Viewed, Spot
<1>4. ShownStep
 <2> HIDE DEF raised
 <2> QED BY <1>1, <1>2, <1>3 DEF ShownStep, Shows
<1>5. OfOriginal'
  BY <1>1, <1>2 DEF OfOriginal, Abstract!IsIncreasing, Abstract!IsSequence, Abstract!Size,
     Abstract!Cardinality, Plain!Shifted, Plain!Cardinality
<1>6. (PlainSpot <= n)'  BY <1>2, SameSequence
<1> QED BY <1>1, <1>2, <1>4, <1>5, <1>6 DEF PartInv, Parts, PartStep

LEMMA RankedSteps ==
  ASSUME PartInv, OfRanked,
         Ranked!Write \/ Ranked!WriteEnd \/ Ranked!Move \/ Ranked!NextGeq \/ Ranked!Advance
  PROVE PartInv' /\ PartStep
<1>1. part = "ranked_bitvector" /\ part' = part /\ RankedInv  BY DEF PartInv, OfRanked
<1>2. /\ RankedInv' /\ sequence' = sequence
      /\ Goes(sequence, RankedSpot, RankedSpot') \/ (RankedSpot' = RankedSpot /\ call' = call)
 <2>1. CASE Ranked!Write  BY <1>1, <2>1, RankedWrites
 <2>2. CASE Ranked!WriteEnd  BY <1>1, <2>2, RankedEnds
 <2>3. CASE Ranked!Move \/ Ranked!NextGeq \/ Ranked!Advance  BY <1>1, <2>3, RankedReads
 <2> QED BY <2>1, <2>2, <2>3
<1>3. Viewed = sequence /\ Viewed' = sequence' /\ Spot = RankedSpot /\ Spot' = RankedSpot'
  BY <1>1 DEF Viewed, Spot
<1>4. ShownStep  BY <1>1, <1>2, <1>3 DEF ShownStep, Shows
<1> QED BY <1>1, <1>2, <1>4 DEF PartInv, Parts, PartStep

LEMMA IndexedSteps ==
  ASSUME PartInv, OfIndexed,
         Indexed!Write \/ Indexed!Open \/ Indexed!Move \/ Indexed!NextGeq \/ Indexed!Advance
  PROVE PartInv' /\ PartStep
<1>1. part = "indexed" /\ part' = part /\ IndexedInv  BY DEF PartInv, OfIndexed
<1>2. /\ IndexedInv' /\ sequence' = sequence
      /\ Goes(sequence, IndexedSpot, IndexedSpot') \/ (IndexedSpot' = IndexedSpot /\ call' = call)
 <2>1. CASE Indexed!Write  BY <1>1, <2>1, IndexedWrites
 <2>2. CASE Indexed!Open  BY <1>1, <2>2, IndexedOpens
 <2>3. CASE Indexed!Move \/ Indexed!NextGeq \/ Indexed!Advance  BY <1>1, <2>3, IndexedReads
 <2> QED BY <2>1, <2>2, <2>3
<1>3. Viewed = sequence /\ Viewed' = sequence' /\ Spot = IndexedSpot /\ Spot' = IndexedSpot'
  BY <1>1 DEF Viewed, Spot
<1>4. ShownStep  BY <1>1, <1>2, <1>3 DEF ShownStep, Shows
<1> QED BY <1>1, <1>2, <1>4 DEF PartInv, Parts, PartStep

LEMMA PartitionedSteps ==
  ASSUME PartInv, OfPartitioned,
         WriteSingle \/ WritePartition \/ WriteEnd \/ Open \/ Move \/ NextGeq \/ Advance
  PROVE PartInv' /\ PartStep
<1>1. part = "partitioned" /\ part' = part /\ PartitionedInv /\ Assumed
  BY SequencesAssumption DEF PartInv, OfPartitioned, Assumed
<1>2. PartitionedInv' /\ AbstractStep  BY <1>1, WritingStep, ReadingStep
<1> QED BY <1>1, <1>2 DEF PartInv, Parts, PartStep

LEMMA IndexSteps ==
  ASSUME PartInv, OfIndex,
         \/ \E l \in Lists : Index!AddPostingList(l)
         \/ Index!Build \/ Index!MoveDocs \/ Index!Freq
         \/ \E i \in Nat : i < Len(added) /\ Index!Open(i)
  PROVE PartInv' /\ PartStep
<1>1. part = "freq_index" /\ part' = part /\ IndexInv /\ call' = call  BY DEF PartInv, OfIndex
<1>2. IndexInv'  BY <1>1, IndexAdds, IndexBuilds, IndexMoves, IndexSums, IndexOpens
<1>3. UNCHANGED <<Viewed, CursorView, call>>  BY <1>1 DEF Viewed, CursorView, Nothing
<1> QED BY <1>1, <1>2, <1>3 DEF PartInv, Parts, PartStep

LEMMA CollectionSteps ==
  ASSUME PartInv, OfCollection,
         \/ \E values \in CollectionInputs : \E last \in {values[Len(values)], values[Len(values)] + 1} :
                Collection!AddSequence(values, last)
         \/ Collection!Build
         \/ \E i \in Nat : i < Len(added) /\ Collection!Open(i)
  PROVE PartInv' /\ PartStep
<1>1. part = "sequence_collection" /\ part' = part /\ CollectionInv /\ call' = call
  BY DEF PartInv, OfCollection
<1>2. CollectionInv'
 <2>1. CASE \E values \in CollectionInputs : \E last \in {values[Len(values)], values[Len(values)] + 1} :
                Collection!AddSequence(values, last)
   BY <1>1, <2>1, CollectionAdds
 <2>2. CASE Collection!Build
  <3>1. UNCHANGED <<added, stored, read>> /\ built'  BY <2>2 DEF Collection!Build
  <3> QED BY <1>1, <3>1, CollectionStays
 <2>3. CASE \E i \in Nat : i < Len(added) /\ Collection!Open(i)  BY <1>1, <2>3, CollectionOpens
 <2> QED BY <2>1, <2>2, <2>3
<1>3. UNCHANGED <<Viewed, CursorView, call>>  BY <1>1 DEF Viewed, CursorView, Nothing
<1> QED BY <1>1, <1>2, <1>3 DEF PartInv, Parts, PartStep

LEMMA PartsStay ==
  ASSUME PartInv, UNCHANGED mcvars
  PROVE PartInv' /\ PartStep
<1>1. UNCHANGED <<part, sequence, phase, call, original, rank1, bounds, windowEnds, start, window, lastEnd, path>>
  BY DEF mcvars, optimalVars
<1>2. UNCHANGED <<lows, pointers0, written, bits, pointers1, enum>>
  BY DEF mcvars, eliasFanoVars, sampledVars
<1>3. UNCHANGED <<strict, params, typeBit, appended, type, cursor, uniform, cuts, file, e>>
  BY DEF mcvars, indexedVars, partitionedVars
<1>4. UNCHANGED <<added, built, docs, freqs, reader, freq, stored, read>>
  BY DEF mcvars, bothVars, indexVars, collectionVars
<1>5. CASE part = "optimal_partition"
 <2>1. LoopInv' /\ Viewed' = Viewed /\ CursorView' = CursorView
   BY <1>1, <1>5, LoopStays DEF PartInv, Viewed, CursorView, Nothing
 <2> QED BY <1>1, <1>5, <2>1 DEF PartInv, Parts, PartStep
<1>6. CASE part = "elias_fano"
 <2>1. PlainInv' /\ PlainSpot' = PlainSpot  BY <1>1, <1>2, <1>6, PlainStays DEF PartInv
 <2>2. Viewed = sequence /\ Viewed' = sequence' /\ Spot = PlainSpot /\ Spot' = PlainSpot'
   BY <1>1, <1>6 DEF Viewed, Spot
 <2>3. ShownStep  BY <1>1, <1>6, <2>1, <2>2 DEF ShownStep, Shows
 <2> QED BY <1>1, <1>6, <2>1, <2>3 DEF PartInv, Parts, PartStep
<1>7. CASE part = "strict_elias_fano"
 <2>1. PlainInv' /\ PlainSpot' = PlainSpot /\ OfOriginal /\ PlainSpot <= n
   BY <1>1, <1>2, <1>7, PlainStays DEF PartInv
 <2>5. (PlainSpot <= n)'  BY <1>1, <2>1, SameSequence
 <2>2. OfOriginal'
   BY <1>1, <2>1 DEF OfOriginal, Abstract!IsIncreasing, Abstract!IsSequence, Abstract!Size,
      Abstract!Cardinality, Plain!Shifted, Plain!Cardinality
 <2>3. Viewed' = Viewed /\ Spot = PlainSpot /\ Spot' = PlainSpot'  BY <1>1, <1>7 DEF Viewed, Spot
 <2>4. ShownStep  BY <1>1, <1>7, <2>1, <2>3 DEF ShownStep, Shows
 <2> QED BY <1>1, <1>7, <2>1, <2>2, <2>4, <2>5 DEF PartInv, Parts, PartStep
<1>8. CASE part = "ranked_bitvector"
 <2>1. RankedInv' /\ RankedSpot' = RankedSpot  BY <1>1, <1>2, <1>8, RankedStays DEF PartInv
 <2>2. Viewed = sequence /\ Viewed' = sequence' /\ Spot = RankedSpot /\ Spot' = RankedSpot'
   BY <1>1, <1>8 DEF Viewed, Spot
 <2>3. ShownStep  BY <1>1, <1>8, <2>1, <2>2 DEF ShownStep, Shows
 <2> QED BY <1>1, <1>8, <2>1, <2>3 DEF PartInv, Parts, PartStep
<1>9. CASE part = "indexed"
 <2>1. IndexedInv' /\ IndexedSpot' = IndexedSpot  BY <1>1, <1>3, <1>9, IndexedStays DEF PartInv
 <2>2. Viewed = sequence /\ Viewed' = sequence' /\ Spot = IndexedSpot /\ Spot' = IndexedSpot'
   BY <1>1, <1>9 DEF Viewed, Spot
 <2>3. ShownStep  BY <1>1, <1>9, <2>1, <2>2 DEF ShownStep, Shows
 <2> QED BY <1>1, <1>9, <2>1, <2>3 DEF PartInv, Parts, PartStep
<1>10. CASE part = "partitioned"
 <2>1. UNCHANGED vars  BY <1>1, <1>3 DEF vars
 <2>2. PartitionedInv' /\ AbstractStep  BY <1>10, <2>1, PartitionedStutter DEF PartInv
 <2> QED BY <1>1, <1>10, <2>2 DEF PartInv, Parts, PartStep
<1>11. CASE part = "freq_index"
 <2>1. IndexInv' /\ Viewed' = Viewed /\ CursorView' = CursorView
   BY <1>1, <1>4, <1>11, IndexStays DEF PartInv, Viewed, CursorView, Nothing
 <2> QED BY <1>1, <1>11, <2>1 DEF PartInv, Parts, PartStep
<1>12. CASE part = "sequence_collection"
 <2>1. CollectionInv' /\ Viewed' = Viewed /\ CursorView' = CursorView
   BY <1>1, <1>4, <1>12, CollectionStays DEF PartInv, Viewed, CursorView, Nothing
 <2> QED BY <1>1, <1>12, <2>1 DEF PartInv, Parts, PartStep
<1> QED BY <1>5, <1>6, <1>7, <1>8, <1>9, <1>10, <1>11, <1>12 DEF PartInv, Parts

LEMMA PartsNext ==
  ASSUME PartInv, [MCNext]_mcvars
  PROVE PartInv' /\ PartStep
<1>1. CASE OfOptimal /\ (Optimal!MakeWindow \/ Optimal!Extend \/ Optimal!NextStart)
  BY <1>1, OptimalSteps
<1>2. CASE OfPlain /\ (Plain!Write \/ Plain!WriteEnd \/ Plain!Move \/ Plain!NextGeq \/ Plain!Advance)
  BY <1>2, PlainSteps
<1>3. CASE OfStrict /\ (Plain!Write \/ Plain!WriteEnd \/ Plain!Move \/ Plain!Advance)
  BY <1>3, StrictSteps
<1>4. CASE OfRanked /\ (Ranked!Write \/ Ranked!WriteEnd \/ Ranked!Move \/ Ranked!NextGeq \/ Ranked!Advance)
  BY <1>4, RankedSteps
<1>5. CASE OfIndexed /\ (Indexed!Write \/ Indexed!Open \/ Indexed!Move \/ Indexed!NextGeq \/ Indexed!Advance)
  BY <1>5, IndexedSteps
<1>6. CASE OfPartitioned /\ (WriteSingle \/ WritePartition \/ WriteEnd \/ Open \/ Move \/ NextGeq \/ Advance)
  BY <1>6, PartitionedSteps
<1>7. CASE /\ OfIndex
           /\ \/ \E l \in Lists : Index!AddPostingList(l)
              \/ Index!Build \/ Index!MoveDocs \/ Index!Freq
              \/ \E i \in Nat : i < Len(added) /\ Index!Open(i)
  BY <1>7, IndexSteps
<1>8. CASE /\ OfCollection
           /\ \/ \E values \in CollectionInputs : \E last \in {values[Len(values)], values[Len(values)] + 1} :
                     Collection!AddSequence(values, last)
              \/ Collection!Build
              \/ \E i \in Nat : i < Len(added) /\ Collection!Open(i)
  BY <1>8, CollectionSteps
<1>9. CASE UNCHANGED mcvars  BY <1>9, PartsStay
<1>10. ASSUME NEW i \in 0 .. MaxLists - 1 PROVE i \in Nat
  BY SequencesAssumption DEF Index!FreqIndexAssumption
<1>11. ASSUME NEW i \in 0 .. MaxSequences - 1 PROVE i \in Nat
  BY SequencesAssumption DEF Collection!InputsAssumption
<1> QED BY <1>1, <1>2, <1>3, <1>4, <1>5, <1>6, <1>7, <1>8, <1>9, <1>10, <1>11 DEF MCNext

\* Every part keeps its invariant, for all inputs of all parts.
THEOREM PartsInvariant == MCSpec => []PartInv
<1>1. MCInit => PartInv  BY PartsBegin
<1>2. PartInv /\ [MCNext]_mcvars => PartInv'  BY PartsNext
<1> QED BY <1>1, <1>2, PTL DEF MCSpec

\* MCSequences.CursorsInStep: the cursors that an enumerator is made of stand at
\* the same place, whichever way it came there.
THEOREM AllCursorsInStep == MCSpec => []CursorsInStep
<1>1. PartInv => CursorsInStep
 <2> SUFFICES ASSUME PartInv PROVE CursorsInStep  OBVIOUS
 <2>1. CASE part \in {"elias_fano", "strict_elias_fano"}
   BY <2>1, PlainTyped, PlainConsumed DEF PartInv, CursorsInStep
 <2>2. CASE part = "ranked_bitvector"  BY <2>2, RankedTyped DEF PartInv, CursorsInStep
 <2>3. CASE part = "partitioned"
  <3>1. Assumed /\ PartitionedInv  BY <2>3, SequencesAssumption DEF PartInv, Assumed
  <3> QED BY <2>3, <3>1, HitsNow, TogetherNow DEF CursorsInStep
 <2>4. CASE part = "freq_index"  BY <2>4, IndexRead DEF PartInv, CursorsInStep
 <2> QED BY <2>1, <2>2, <2>3, <2>4 DEF CursorsInStep
<1> QED BY <1>1, PartsInvariant, PTL

\* MCSequences.CodedExactly: a sequence is stored or refused as its order
\* demands, every sample in it is exact, and it takes the bits that were
\* announced for it.
THEOREM AllCodedExactly == MCSpec => []CodedExactly
<1>1. PartInv => CodedExactly
 <2> SUFFICES ASSUME PartInv PROVE CodedExactly  OBVIOUS
 <2>1. CASE part = "elias_fano"  BY <2>1, PlainCoded DEF PartInv, CodedExactly
 <2>2. CASE part = "strict_elias_fano"  BY <2>2, PlainCoded, ShiftedIs DEF PartInv, CodedExactly
 <2>3. CASE part = "ranked_bitvector"  BY <2>3, RankedCoded DEF PartInv, CodedExactly
 <2>4. CASE part = "indexed"  BY <2>4, IndexedCoded DEF PartInv, CodedExactly
 <2> QED BY <2>1, <2>2, <2>3, <2>4 DEF CodedExactly
<1> QED BY <1>1, PartsInvariant, PTL

\* MCSequences.ListsRead: what is read of an index or of a collection is what
\* was added to it, whatever positions were asked for before.
THEOREM AllListsRead == MCSpec => []ListsRead
<1>1. PartInv => ListsRead
 <2> SUFFICES ASSUME PartInv PROVE ListsRead  OBVIOUS
 <2>1. CASE part = "freq_index"  BY <2>1, IndexRead DEF PartInv, ListsRead
 <2>2. CASE part = "sequence_collection"  BY <2>2, CollectionRead DEF PartInv, ListsRead
 <2> QED BY <2>1, <2>2 DEF ListsRead
<1> QED BY <1>1, PartsInvariant, PTL

\* MCSequences.PathGoesBack: the loop of optimal_partition that follows the path
\* from its end comes to 0.
THEOREM PathAlwaysGoesBack == MCSpec => []PathGoesBack
<1>1. PartInv => PathGoesBack  BY LoopGoesBack DEF PartInv, PathGoesBack
<1> QED BY <1>1, PartsInvariant, PTL

\* MCSequences.RefinesSequenceCursor: each of the five sequences, with its
\* enumerator, implements the cursor of SequenceCursor, for bounds beyond the
\* universe too, but that Elias-Fano and the ranked bitvector, and the indexed
\* sequence of one of them, may stray past the end.
THEOREM SequencesRefine == MCSpec => RefinesSequenceCursor
<1>1. MCInit => PartInv /\ Viewer!Init  BY PartsBegin
<1>2. PartInv /\ [MCNext]_mcvars => PartInv' /\ PartStep  BY PartsNext
<1>3. PartInv => Shown  BY AllShown
<1>4. Shown /\ Shown' /\ PartStep => [Viewer!Next \/ Viewer!StrayNext]_<<Viewed, CursorView, call>>
  BY ViewerSteps
<1> QED BY <1>1, <1>2, <1>3, <1>4, PTL DEF MCSpec, RefinesSequenceCursor, Viewer!StrayingSpec
=============================================================================
