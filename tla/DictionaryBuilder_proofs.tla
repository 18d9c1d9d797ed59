----------------------- MODULE DictionaryBuilder_proofs -----------------------
(***************************************************************************)
(* Proofs about DictionaryBuilder, for every number of dictionaries, every *)
(* statistics and both policies: whichever entries are merged in whichever *)
(* order, each target remains in the table, the table is no longer than    *)
(* the targets, and lookup finds codewords that stand for what was asked.  *)
(***************************************************************************)
EXTENDS DictionaryBuilder, SequenceTheorems, FunctionTheorems, FiniteSetTheorems, WellFoundedInduction, TLAPS

\* What the module says of its constants.
Assumptions == DictsAssumption /\ RunsAssumption /\ EntriesAssumption /\ StatisticsAssumption

-----------------------------------------------------------------------------
(* The least of some integers, and sets in an order.                       *)

(***************************************************************************)
(* Naturals of which there is one have a least one.                        *)
(***************************************************************************)
LEMMA LeastFacts ==
    ASSUME NEW S, S \subseteq Nat, S # {}
    PROVE  Least(S) \in S /\ \A y \in S : Least(S) <= y
<1>1. PICK x \in S : \A y \in S : ~(<<y, x>> \in OpToRel(<, Nat))
  <2>1. IsWellFoundedOn(OpToRel(<, Nat), Nat)
    BY NatLessThanWellFounded
  <2> HIDE DEF OpToRel
  <2> QED BY <2>1, WFMin, Zenon
<1>2. \A y \in S : ~(y < x)
  BY <1>1 DEF OpToRel
<1>3. \A y \in S : x <= y
  BY <1>2
<1>4. \E z \in S : \A y \in S : z <= y
  BY <1>3
<1> QED BY <1>4, Zenon DEF Least

\* A strict total order of S.
Orders(before, S) ==
    /\ \A x \in S : <<x, x>> \notin before
    /\ \A x, y, z \in S : <<x, y>> \in before /\ <<y, z>> \in before => <<x, z>> \in before
    /\ \A x, y \in S : x # y => <<x, y>> \in before \/ <<y, x>> \in before

(***************************************************************************)
(* How many are before an element tells the element.                       *)
(***************************************************************************)
LEMMA Ranks ==
    ASSUME NEW S, IsFiniteSet(S), NEW before, Orders(before, S),
           NEW rank, rank = [x \in S |-> Cardinality({y \in S : <<y, x>> \in before})]
    PROVE  /\ \A x, y \in S : <<x, y>> \in before => rank[x] < rank[y]
           /\ rank \in Bijection(S, 0..(Cardinality(S) - 1))
<1> DEFINE Below(x) == {y \in S : <<y, x>> \in before}
           n == Cardinality(S)
<1>1. n \in Nat
  BY FS_CardinalityType
<1>2. ASSUME NEW x \in S
      PROVE  IsFiniteSet(Below(x)) /\ rank[x] = Cardinality(Below(x)) /\ rank[x] \in Nat
  <2>1. Below(x) \in SUBSET S
    OBVIOUS
  <2>2. IsFiniteSet(Below(x))
    BY <2>1, FS_Subset
  <2>3. rank[x] = Cardinality(Below(x))
    OBVIOUS
  <2> HIDE DEF Below
  <2> QED BY <2>2, <2>3, FS_CardinalityType
<1>3. ASSUME NEW S1, NEW S2, IsFiniteSet(S2), S1 \subseteq S2, S1 # S2
      PROVE  Cardinality(S1) < Cardinality(S2)
  <2>1. S1 \in SUBSET S2
    BY <1>3
  <2>2. IsFiniteSet(S1) /\ Cardinality(S1) <= Cardinality(S2) /\ Cardinality(S1) # Cardinality(S2)
    BY <1>3, <2>1, FS_Subset
  <2>3. Cardinality(S1) \in Nat /\ Cardinality(S2) \in Nat
    BY <1>3, <2>2, FS_CardinalityType
  <2> QED BY <2>2, <2>3
<1>4. ASSUME NEW x \in S, NEW y \in S, <<x, y>> \in before PROVE rank[x] < rank[y]
  <2>1. Below(x) \subseteq Below(y)
    BY <1>4 DEF Orders
  <2>2. x \in Below(y) /\ x \notin Below(x)
    BY <1>4 DEF Orders
  <2>3. Below(x) # Below(y)
    BY <2>2
  <2> HIDE DEF Below
  <2> QED BY <1>2, <1>3, <2>1, <2>3
<1>5. ASSUME NEW x \in S PROVE rank[x] \in 0..(n - 1)
  <2>1. Below(x) \subseteq S /\ Below(x) # S
    BY DEF Orders
  <2> HIDE DEF Below
  <2>2. Cardinality(Below(x)) < Cardinality(S)
    BY <1>3, <2>1
  <2> QED BY <1>1, <1>2, <2>2
<1> HIDE DEF Below
<1>6. rank \in [S -> 0..(n - 1)]
  BY <1>5
<1>7. \A x, y \in S : rank[x] = rank[y] => x = y
  <2> SUFFICES ASSUME NEW x \in S, NEW y \in S, x # y PROVE rank[x] # rank[y]
    OBVIOUS
  <2>1. rank[x] < rank[y] \/ rank[y] < rank[x]
    BY <1>4 DEF Orders
  <2> QED BY <1>2, <2>1
<1>8. rank \in Injection(S, 0..(n - 1))
  <2>1. IsInjective(rank)
    BY <1>6, <1>7 DEF IsInjective
  <2> QED BY <1>6, <2>1 DEF Injection
<1>9. IsFiniteSet(0..(n - 1)) /\ Cardinality(0..(n - 1)) = n
  BY <1>1, FS_Interval
<1>10. rank \in Surjection(S, 0..(n - 1))
  BY <1>8, <1>9, FS_Injection
<1> QED BY <1>4, <1>8, <1>10 DEF Bijection

(***************************************************************************)
(* A finite set in an order is a sequence of its elements, each once, and  *)
(* in this order.                                                          *)
(***************************************************************************)
LEMMA InOrderFacts ==
    ASSUME NEW S, IsFiniteSet(S), NEW before, Orders(before, S)
    PROVE  /\ Cardinality(S) \in Nat
           /\ InOrder(S, before) \in Seq(S)
           /\ Len(InOrder(S, before)) = Cardinality(S)
           /\ \A x \in S : \E k \in 1..Cardinality(S) : InOrder(S, before)[k] = x
           /\ \A j, k \in 1..Cardinality(S) :
                j < k => <<InOrder(S, before)[j], InOrder(S, before)[k]>> \in before
<1> DEFINE rank == [x \in S |-> Cardinality({y \in S : <<y, x>> \in before})]
           n == Cardinality(S)
           q == InOrder(S, before)
           Below(x) == Cardinality({y \in S : <<y, x>> \in before})
<1>1. n \in Nat
  BY FS_CardinalityType
<1>2. /\ q = [k \in 1..n |-> CHOOSE x \in S : Below(x) = k - 1]
      /\ \A x \in S : rank[x] = Below(x)
  BY DEF InOrder
<1>3. /\ \A x, y \in S : <<x, y>> \in before => rank[x] < rank[y]
      /\ rank \in Bijection(S, 0..(n - 1))
  BY Ranks
<1> HIDE DEF rank, n, q, Below
<1>4. /\ \A x \in S : rank[x] \in 0..(n - 1)
      /\ \A i \in 0..(n - 1) : \E x \in S : rank[x] = i
      /\ \A x, y \in S : rank[x] = rank[y] => x = y
  BY <1>3 DEF Bijection, Injection, Surjection, IsInjective
<1>5. ASSUME NEW k \in 1..n PROVE q[k] \in S /\ rank[q[k]] = k - 1
  <2>1. k - 1 \in 0..(n - 1)
    BY <1>1
  <2>2. \E x \in S : Below(x) = k - 1
    BY <1>2, <1>4, <2>1
  <2>3. q[k] = CHOOSE x \in S : Below(x) = k - 1
    BY <1>2
  <2>4. q[k] \in S /\ Below(q[k]) = k - 1
    BY <2>2, <2>3
  <2> QED BY <1>2, <2>4
<1>6. q \in Seq(S) /\ Len(q) = n
  <2>1. DOMAIN q = 1..n /\ q = [k \in 1..n |-> q[k]]
    BY <1>2
  <2>2. q \in [1..n -> S]
    BY <1>5, <2>1
  <2> QED BY <1>1, <2>2
<1>7. ASSUME NEW x \in S PROVE \E k \in 1..n : q[k] = x
  <2>1. rank[x] \in 0..(n - 1)
    BY <1>4
  <2>2. rank[x] + 1 \in 1..n /\ (rank[x] + 1) - 1 = rank[x]
    BY <1>1, <2>1
  <2> QED BY <1>4, <1>5, <2>2
<1>8. ASSUME NEW j \in 1..n, NEW k \in 1..n, j < k PROVE <<q[j], q[k]>> \in before
  <2>1. rank[q[j]] = j - 1 /\ rank[q[k]] = k - 1
    BY <1>5
  <2>2. q[j] \in S /\ q[k] \in S /\ q[j] # q[k]
    BY <1>5, <1>8, <2>1
  <2>3. ~(rank[q[k]] < rank[q[j]])
    BY <1>8, <2>1
  <2> QED BY <1>3, <2>2, <2>3 DEF Orders
<1> QED BY <1>1, <1>6, <1>7, <1>8 DEF n, q

-----------------------------------------------------------------------------
(* Sequences in sequences.                                                 *)

(***************************************************************************)
(* What it means to occur at a place.                                      *)
(***************************************************************************)
LEMMA OccursIs ==
    ASSUME NEW src \in Seq(Nat), NEW target \in Seq(Nat), NEW o \in Nat, o + Len(src) <= Len(target)
    PROVE  OccursAt(src, target, o) <=> \A k \in 1..Len(src) : target[o + k] = src[k]
<1> DEFINE a == o + 1
           z == o + Len(src)
           part == SubSeq(target, a, z)
<1>1. /\ Len(src) \in Nat /\ Len(target) \in Nat /\ a \in Int /\ z \in Int
      /\ z - a + 1 = Len(src) /\ (a <= z <=> Len(src) # 0)
      /\ \A i \in a..z : i \in 1..Len(target)
  OBVIOUS
<1>2. \A i \in a..z : target[i] \in Nat
  BY <1>1
<1> HIDE DEF a, z
<1>3. /\ part \in Seq(Nat) /\ Len(part) = IF a <= z THEN z - a + 1 ELSE 0
      /\ \A i \in 1..(z - a + 1) : part[i] = target[a + i - 1]
  BY <1>1, <1>2, SubSeqProperties
<1>4. Len(part) = Len(src)
  BY <1>1, <1>3
<1> HIDE DEF part
<1>5. \A i \in 1..Len(src) : part[i] = target[o + i]
  <2> SUFFICES ASSUME NEW i \in 1..Len(src) PROVE part[i] = target[o + i]
    OBVIOUS
  <2>1. a + i - 1 = o + i
    BY DEF a
  <2> QED BY <1>1, <1>3, <2>1
<1>6. OccursAt(src, target, o) <=> part = src
  BY DEF OccursAt, part, a, z
<1>7. part = src <=> \A i \in 1..Len(src) : part[i] = src[i]
  BY <1>3, <1>4, SeqEqual
<1> QED BY <1>5, <1>6, <1>7

(***************************************************************************)
(* What it means to be contained.                                          *)
(***************************************************************************)
LEMMA ContainedIs ==
    ASSUME NEW src \in Seq(Nat), NEW target \in Seq(Nat)
    PROVE  is_contained(src, target) <=>
              \E o \in Nat : /\ o + Len(src) <= Len(target)
                             /\ \A k \in 1..Len(src) : target[o + k] = src[k]
<1>1. Len(src) \in Nat /\ Len(target) \in Nat
  OBVIOUS
<1>2. \A o : o \in 0..(Len(target) - Len(src)) <=> o \in Nat /\ o + Len(src) <= Len(target)
  BY <1>1
<1>3. ASSUME NEW o \in Nat, o + Len(src) <= Len(target)
      PROVE  OccursAt(src, target, o) <=> \A k \in 1..Len(src) : target[o + k] = src[k]
  BY <1>3, OccursIs
<1>4. is_contained(src, target) <=> \E o \in Nat : o + Len(src) <= Len(target) /\ OccursAt(src, target, o)
  BY <1>2 DEF is_contained
<1> QED BY <1>3, <1>4

(***************************************************************************)
(* A sequence is part of itself, and part of what its longer ones are part *)
(* of.                                                                     *)
(***************************************************************************)
LEMMA ContainedSelf ==
    ASSUME NEW s \in Seq(Nat) PROVE is_contained(s, s)
<1>1. 0 \in Nat /\ 0 + Len(s) <= Len(s) /\ \A k \in 1..Len(s) : s[0 + k] = s[k]
  OBVIOUS
<1> QED BY <1>1, ContainedIs

\* A part of a part is a part.
LEMMA ContainedTrans ==
    ASSUME NEW s \in Seq(Nat), NEW t \in Seq(Nat), NEW u \in Seq(Nat),
           is_contained(s, t), is_contained(t, u)
    PROVE  is_contained(s, u)
<1>1. PICK o \in Nat : o + Len(s) <= Len(t) /\ \A k \in 1..Len(s) : t[o + k] = s[k]
  BY ContainedIs
<1>2. PICK p \in Nat : p + Len(t) <= Len(u) /\ \A k \in 1..Len(t) : u[p + k] = t[k]
  BY ContainedIs
<1>3. p + o \in Nat /\ (p + o) + Len(s) <= Len(u)
  BY <1>1, <1>2
<1>4. ASSUME NEW k \in 1..Len(s) PROVE u[(p + o) + k] = s[k]
  <2>1. o + k \in 1..Len(t) /\ p + (o + k) = (p + o) + k
    BY <1>1
  <2> QED BY <1>1, <1>2, <2>1
<1> QED BY <1>3, <1>4, ContainedIs

(***************************************************************************)
(* Both parts are contained in what is joined of them.                     *)
(***************************************************************************)
LEMMA ContainedParts ==
    ASSUME NEW s \in Seq(Nat), NEW t \in Seq(Nat)
    PROVE  /\ s \o t \in Seq(Nat) /\ Len(s \o t) = Len(s) + Len(t)
           /\ is_contained(s, s \o t) /\ is_contained(t, s \o t)
<1> DEFINE j == s \o t
<1>1. /\ j \in Seq(Nat) /\ Len(j) = Len(s) + Len(t)
      /\ \A i \in 1..(Len(s) + Len(t)) : j[i] = IF i <= Len(s) THEN s[i] ELSE t[i - Len(s)]
  BY ConcatProperties
<1>2. Len(s) \in Nat /\ Len(t) \in Nat
  OBVIOUS
<1> HIDE DEF j
<1>3. is_contained(s, j)
  <2>1. ASSUME NEW k \in 1..Len(s) PROVE j[0 + k] = s[k]
    <3>1. 0 + k = k /\ k \in 1..(Len(s) + Len(t)) /\ k <= Len(s)
      BY <1>2
    <3> QED BY <1>1, <3>1
  <2>2. 0 \in Nat /\ 0 + Len(s) <= Len(j)
    BY <1>1, <1>2
  <2>3. \E o \in Nat : o + Len(s) <= Len(j) /\ \A k \in 1..Len(s) : j[o + k] = s[k]
    BY <2>1, <2>2
  <2> QED BY <1>1, <2>3, ContainedIs
<1>4. is_contained(t, j)
  <2>1. ASSUME NEW k \in 1..Len(t) PROVE j[Len(s) + k] = t[k]
    <3>1. Len(s) + k \in 1..(Len(s) + Len(t)) /\ ~(Len(s) + k <= Len(s)) /\ (Len(s) + k) - Len(s) = k
      BY <1>2
    <3> QED BY <1>1, <3>1
  <2>2. Len(s) \in Nat /\ Len(s) + Len(t) <= Len(j)
    BY <1>1, <1>2
  <2>3. \E o \in Nat : o + Len(t) <= Len(j) /\ \A k \in 1..Len(t) : j[o + k] = t[k]
    BY <2>1, <2>2
  <2> QED BY <1>1, <2>3, ContainedIs
<1> QED BY <1>1, <1>3, <1>4 DEF j

(***************************************************************************)
(* The last l of a are the first of b.                                     *)
(***************************************************************************)
Overlaid(a, b, l) ==
    /\ l \in 0..Len(a) /\ l \in 0..Len(b)
    /\ \A k \in 1..l : a[Len(a) - l + k] = b[k]

(***************************************************************************)
(* What two are merged to contains both, and is as much shorter as they    *)
(* overlap.                                                                *)
(***************************************************************************)
LEMMA MergedContains ==
    ASSUME NEW a \in Seq(Nat), NEW b \in Seq(Nat), NEW l, Overlaid(a, b, l)
    PROVE  LET node == a \o SubSeq(b, l + 1, Len(b))
           IN  /\ node \in Seq(Nat) /\ Len(node) = Len(a) + Len(b) - l
               /\ is_contained(a, node) /\ is_contained(b, node)
<1> DEFINE rest == SubSeq(b, l + 1, Len(b))
           node == a \o rest
<1>1. /\ l \in Nat /\ l <= Len(a) /\ l <= Len(b) /\ Len(a) \in Nat /\ Len(b) \in Nat
      /\ \A k \in 1..l : a[Len(a) - l + k] = b[k]
  BY DEF Overlaid
<1>2. /\ rest \in Seq(Nat) /\ Len(rest) = Len(b) - l
      /\ \A k \in 1..(Len(b) - l) : rest[k] = b[l + k]
  <2>1. l + 1 \in Int /\ Len(b) \in Int /\ \A i \in (l + 1)..Len(b) : b[i] \in Nat
    BY <1>1
  <2>2. /\ rest \in Seq(Nat) /\ Len(rest) = IF l + 1 <= Len(b) THEN Len(b) - (l + 1) + 1 ELSE 0
        /\ \A i \in 1..(Len(b) - (l + 1) + 1) : rest[i] = b[(l + 1) + i - 1]
    BY <2>1, SubSeqProperties
  <2>3. Len(b) - (l + 1) + 1 = Len(b) - l /\ \A i \in Int : (l + 1) + i - 1 = l + i
    BY <1>1
  <2> HIDE DEF rest
  <2>4. \A k \in 1..(Len(b) - l) : rest[k] = b[l + k]
    <3> SUFFICES ASSUME NEW k \in 1..(Len(b) - l) PROVE rest[k] = b[l + k]
      OBVIOUS
    <3>1. rest[k] = b[(l + 1) + k - 1]
      BY <2>2, <2>3
    <3>2. (l + 1) + k - 1 = l + k
      BY <1>1
    <3> HIDE DEF rest
    <3> QED BY <3>1, <3>2
  <2>5. Len(rest) = Len(b) - l
    BY <1>1, <2>2
  <2> QED BY <2>2, <2>4, <2>5
<1> HIDE DEF rest
<1>3. /\ node \in Seq(Nat) /\ Len(node) = Len(a) + (Len(b) - l) /\ is_contained(a, node)
      /\ \A i \in 1..(Len(a) + (Len(b) - l)) :
            node[i] = IF i <= Len(a) THEN a[i] ELSE rest[i - Len(a)]
  <2>1. node \in Seq(Nat) /\ Len(node) = Len(a) + Len(rest) /\ is_contained(a, node)
    BY <1>2, ContainedParts
  <2>2. \A i \in 1..(Len(a) + Len(rest)) : node[i] = IF i <= Len(a) THEN a[i] ELSE rest[i - Len(a)]
    BY <1>2, ConcatProperties
  <2> HIDE DEF node
  <2> QED BY <1>2, <2>1, <2>2
<1> HIDE DEF node
<1>4. is_contained(b, node)
  <2> DEFINE o == Len(a) - l
  <2>1. o \in Nat /\ o + Len(b) <= Len(node)
    BY <1>1, <1>3
  <2>2. ASSUME NEW k \in 1..Len(b) PROVE node[o + k] = b[k]
    <3>1. CASE k <= l
      <4>1. o + k \in 1..(Len(a) + (Len(b) - l)) /\ o + k <= Len(a) /\ k \in 1..l
        BY <1>1, <3>1
      <4>2. node[o + k] = a[o + k]
        BY <1>3, <4>1
      <4> QED BY <1>1, <4>1, <4>2
    <3>2. CASE ~(k <= l)
      <4>1. /\ o + k \in 1..(Len(a) + (Len(b) - l)) /\ ~(o + k <= Len(a))
            /\ (o + k) - Len(a) = k - l /\ k - l \in 1..(Len(b) - l) /\ l + (k - l) = k
        BY <1>1, <3>2
      <4>2. node[o + k] = rest[k - l]
        BY <1>3, <4>1
      <4> QED BY <1>2, <4>1, <4>2
    <3> QED BY <3>1, <3>2
  <2> HIDE DEF o
  <2> QED BY <1>3, <2>1, <2>2, ContainedIs
<1>5. Len(node) = Len(a) + Len(b) - l
  BY <1>1, <1>3
<1> QED BY <1>3, <1>4, <1>5 DEF node, rest

(***************************************************************************)
(* The overlap that is computed is one.                                    *)
(***************************************************************************)
LEMMA ComputedOverlaid ==
    ASSUME NEW a \in Seq(Nat), NEW b \in Seq(Nat)
    PROVE  Overlaid(a, b, compute_overlap(a, b))
<1> DEFINE min_len == Least({Len(a), Len(b)})
           equal(l) == SubSeq(a, Len(a) - l + 1, Len(a)) = SubSeq(b, 1, l)
           S == {l - 1 : l \in {k \in 1..min_len : ~equal(k)}} \cup {min_len}
           c == Least(S)
<1>1. compute_overlap(a, b) = c
  BY DEF compute_overlap
<1>2. Len(a) \in Nat /\ Len(b) \in Nat
  OBVIOUS
<1>3. min_len \in Nat /\ min_len <= Len(a) /\ min_len <= Len(b)
  <2>1. {Len(a), Len(b)} \subseteq Nat /\ {Len(a), Len(b)} # {}
    BY <1>2
  <2> QED BY <1>2, <2>1, LeastFacts
<1> HIDE DEF min_len, equal
<1>4. S \subseteq Nat /\ S # {}
  BY <1>3
<1>5. c \in S /\ \A y \in S : c <= y
  <2> HIDE DEF S
  <2> QED BY <1>4, LeastFacts
<1>6. c \in Nat /\ c <= min_len
  BY <1>3, <1>4, <1>5
<1> HIDE DEF c
<1>7. c = 0 \/ equal(c)
  <2> SUFFICES ASSUME c # 0, ~equal(c) PROVE FALSE
    OBVIOUS
  <2>1. c \in 1..min_len
    BY <1>3, <1>6
  <2>2. c - 1 \in S
    BY <2>1
  <2>3. c <= c - 1
    BY <1>5, <2>2, Zenon
  <2> QED BY <1>6, <2>3
<1>8. c \in 0..Len(a) /\ c \in 0..Len(b)
  BY <1>2, <1>3, <1>6
<1>9. ASSUME NEW k \in 1..c PROVE a[Len(a) - c + k] = b[k]
  <2>1. SubSeq(a, Len(a) - c + 1, Len(a)) = SubSeq(b, 1, c)
    BY <1>6, <1>7 DEF equal
  <2>2. /\ Len(a) - c + 1 \in 1..(Len(a) + 1) /\ Len(a) - c + 1 \in Int
        /\ k \in 1..(Len(a) - (Len(a) - c + 1) + 1)
        /\ (Len(a) - c + 1) + k - 1 = Len(a) - c + k
    BY <1>2, <1>8
  <2>3. SubSeq(a, Len(a) - c + 1, Len(a))[k] = a[Len(a) - c + k]
    <3>1. \A i \in (Len(a) - c + 1)..Len(a) : a[i] \in Nat
      BY <1>2, <2>2
    <3> QED BY <1>2, <2>2, <3>1, SubSeqProperties
  <2>4. SubSeq(b, 1, c)[k] = b[k]
    <3>1. \A i \in 1..c : b[i] \in Nat
      BY <1>2, <1>8
    <3>2. c \in Int /\ 1 \in Int /\ k \in 1..(c - 1 + 1) /\ 1 + k - 1 = k
      BY <1>6
    <3> QED BY <3>1, <3>2, SubSeqProperties
  <2> QED BY <2>1, <2>3, <2>4
<1> QED BY <1>1, <1>8, <1>9 DEF Overlaid

-----------------------------------------------------------------------------
(* Orders.                                                                 *)

\* Natural numbers are in the order of their values.
LEMMA IncreasingOrders ==
    ASSUME NEW S, S \subseteq Nat
    PROVE  Orders({p \in S \X S : p[1] < p[2]}, S)
<1> DEFINE before == {p \in S \X S : p[1] < p[2]}
<1>1. ASSUME NEW x \in S, NEW y \in S PROVE <<x, y>> \in before <=> x < y
  OBVIOUS
<1> HIDE DEF before
<1>2. \A x \in S : <<x, x>> \notin before
  BY <1>1
<1>3. ASSUME NEW x \in S, NEW y \in S, NEW z \in S, <<x, y>> \in before, <<y, z>> \in before
      PROVE  <<x, z>> \in before
  <2>1. x < y /\ y < z
    BY <1>1, <1>3
  <2> QED BY <1>1, <2>1
<1>4. ASSUME NEW x \in S, NEW y \in S, x # y PROVE <<x, y>> \in before \/ <<y, x>> \in before
  <2>1. x < y \/ y < x
    BY <1>4
  <2> QED BY <1>1, <2>1
<1>5. Orders(before, S)
  BY <1>2, <1>3, <1>4 DEF Orders
<1> QED BY <1>5 DEF before

(***************************************************************************)
(* target_t::operator< is a strict total order.                            *)
(***************************************************************************)
LEMMA LessOrders ==
    ASSUME NEW S, S \subseteq Seq(Nat)
    PROVE  Orders({p \in S \X S : Less(p[1], p[2])}, S)
<1> DEFINE before == {p \in S \X S : Less(p[1], p[2])}
<1>1. ASSUME NEW x \in S, NEW y \in S PROVE <<x, y>> \in before <=> Less(x, y)
  OBVIOUS
<1> HIDE DEF before
<1>2. ASSUME NEW x \in S PROVE ~Less(x, x)
  <2>1. x \in Seq(Nat) /\ Len(x) \in Nat
    OBVIOUS
  <2> QED BY <2>1 DEF Less
<1>3. ASSUME NEW x \in S, NEW y \in S, NEW z \in S, Less(x, y), Less(y, z)
      PROVE  Less(x, z)
  <2>1. /\ x \in Seq(Nat) /\ Len(x) \in Nat /\ y \in Seq(Nat) /\ Len(y) \in Nat
        /\ z \in Seq(Nat) /\ Len(z) \in Nat
    OBVIOUS
  <2>2. Len(x) <= Len(y) /\ Len(y) <= Len(z)
    BY <1>3, <2>1 DEF Less
  <2>3. CASE Len(x) < Len(y) \/ Len(y) < Len(z)
    <3>1. Len(x) < Len(z)
      BY <2>1, <2>2, <2>3
    <3> QED BY <3>1 DEF Less
  <2>4. CASE Len(x) = Len(y) /\ Len(y) = Len(z)
    <3>1. PICK k \in 1..Len(x) : x[k] < y[k] /\ \A i \in 1..(k - 1) : x[i] = y[i]
      BY <1>3, <2>1, <2>4 DEF Less
    <3>2. PICK m \in 1..Len(y) : y[m] < z[m] /\ \A i \in 1..(m - 1) : y[i] = z[i]
      BY <1>3, <2>1, <2>4 DEF Less
    <3> DEFINE l == IF k < m THEN k ELSE m
    <3>3. l \in 1..Len(x) /\ l <= k /\ l <= m
      BY <2>4
    <3>4. \A i \in 1..(l - 1) : x[i] = z[i]
      <4> SUFFICES ASSUME NEW i \in 1..(l - 1) PROVE x[i] = z[i]
        OBVIOUS
      <4>1. i \in 1..(k - 1) /\ i \in 1..(m - 1)
        BY <3>3
      <4> QED BY <3>1, <3>2, <4>1
    <3>5. x[l] < z[l]
      <4>1. x[l] \in Nat /\ y[l] \in Nat /\ z[l] \in Nat
        BY <2>1, <2>4, <3>3
      <4>2. CASE k < m
        <5>1. k \in 1..(m - 1) /\ l = k
          BY <4>2
        <5> QED BY <3>1, <3>2, <5>1
      <4>3. CASE k = m
        BY <3>1, <3>2, <4>1, <4>3
      <4>4. CASE m < k
        <5>1. m \in 1..(k - 1) /\ l = m
          BY <4>4
        <5> QED BY <3>1, <3>2, <5>1
      <4> QED BY <4>2, <4>3, <4>4
    <3> HIDE DEF l
    <3> QED BY <2>4, <3>3, <3>4, <3>5 DEF Less
  <2> QED BY <2>1, <2>2, <2>3, <2>4
<1>4. ASSUME NEW x \in S, NEW y \in S, x # y PROVE Less(x, y) \/ Less(y, x)
  <2>1. /\ x \in Seq(Nat) /\ Len(x) \in Nat /\ y \in Seq(Nat) /\ Len(y) \in Nat
    OBVIOUS
  <2>2. CASE Len(x) # Len(y)
    BY <2>1, <2>2 DEF Less
  <2>3. CASE Len(x) = Len(y)
    <3> DEFINE Differ == {i \in 1..Len(x) : x[i] # y[i]}
    <3>1. Differ \subseteq Nat /\ Differ # {}
      <4>1. ~\A i \in 1..Len(x) : x[i] = y[i]
        BY <1>4, <2>1, <2>3, SeqEqual
      <4> QED BY <2>1, <4>1
    <3>2. PICK k \in Differ : \A i \in Differ : k <= i
      <4> HIDE DEF Differ
      <4> QED BY <3>1, LeastFacts
    <3>3. k \in 1..Len(x) /\ k \in 1..Len(y) /\ x[k] \in Nat /\ y[k] \in Nat /\ x[k] # y[k]
      BY <2>1, <2>3
    <3>4. \A i \in 1..(k - 1) : x[i] = y[i]
      <4> SUFFICES ASSUME NEW i \in 1..(k - 1), x[i] # y[i] PROVE FALSE
        OBVIOUS
      <4>1. i \in Differ
        BY <3>3
      <4>2. k <= i
        BY <3>2, <4>1
      <4> QED BY <3>3, <4>2
    <3>5. x[k] < y[k] \/ y[k] < x[k]
      BY <3>3
    <3> HIDE DEF Differ
    <3>6. \A i \in 1..(k - 1) : y[i] = x[i]
      BY <3>4
    <3> QED BY <2>3, <3>3, <3>4, <3>5, <3>6 DEF Less
  <2> QED BY <2>2, <2>3
<1>5. Orders(before, S)
  BY <1>1, <1>2, <1>3, <1>4 DEF Orders
<1> QED BY <1>5 DEF before

-----------------------------------------------------------------------------
(* Sequences of sequences, joined together.                                *)

(***************************************************************************)
(* Upwards from 0.                                                         *)
(***************************************************************************)
LEMMA Upward ==
    ASSUME NEW n \in Nat, NEW Good, 0 \in Good, \A k \in 1..n : k - 1 \in Good => k \in Good
    PROVE  \A k \in 0..n : k \in Good
<1> DEFINE Bad == {k \in 0..n : k \notin Good}
<1> SUFFICES ASSUME Bad # {} PROVE FALSE
  OBVIOUS
<1>1. Bad \subseteq Nat
  OBVIOUS
<1>2. PICK k \in Bad : \A i \in Bad : k <= i
  <2> HIDE DEF Bad
  <2> QED BY <1>1, LeastFacts
<1>3. k \in 1..n /\ k - 1 \in 0..n /\ ~(k <= k - 1)
  OBVIOUS
<1>4. k - 1 \in Good
  BY <1>2, <1>3
<1> QED BY <1>3, <1>4

Flattens(h, s) == h = [i \in 1..Len(s) |-> IF i = 1 THEN s[i] ELSE h[i - 1] \o s[i]]

(***************************************************************************)
(* What FlattenSeq computes, one sequence at a time, from the first on.    *)
(***************************************************************************)
LEMMA FlattenExists ==
    ASSUME NEW s \in Seq(Seq(Nat)), s # <<>>
    PROVE  \E h : /\ Flattens(h, s) /\ h \in [1..Len(s) -> Seq(Nat)]
                  /\ FlattenSeq(s) = h[Len(s)]
<1> DEFINE n == Len(s)
           Upto(h, m) == /\ h \in [1..m -> Seq(Nat)]
                         /\ \A i \in 1..m : h[i] = IF i = 1 THEN s[i] ELSE h[i - 1] \o s[i]
           Good == {m \in 0..n : \E h : Upto(h, m)}
<1>1. n \in Nat \ {0} /\ \A i \in 1..n : s[i] \in Seq(Nat)
  OBVIOUS
<1> HIDE DEF n
<1>2. 0 \in Good
  <2>1. Upto([i \in 1..0 |-> <<>>], 0)
    OBVIOUS
  <2> HIDE DEF Upto
  <2> QED BY <1>1, <2>1
<1>3. ASSUME NEW m \in 1..n, m - 1 \in Good PROVE m \in Good
  <2>1. PICK h : Upto(h, m - 1)
    BY <1>3
  <2> DEFINE last == IF m = 1 THEN s[m] ELSE h[m - 1] \o s[m]
             g == [i \in 1..m |-> IF i = m THEN last ELSE h[i]]
  <2>2. last \in Seq(Nat)
    <3>1. CASE m = 1
      BY <1>1, <3>1
    <3>2. CASE m # 1
      <4>1. m - 1 \in 1..(m - 1) /\ s[m] \in Seq(Nat)
        BY <1>1, <3>2
      <4>2. h[m - 1] \in Seq(Nat)
        BY <2>1, <4>1
      <4>3. last = h[m - 1] \o s[m]
        BY <3>2
      <4> QED BY <4>1, <4>2, <4>3, ConcatProperties
    <3> QED BY <3>1, <3>2
  <2>3. \A i \in 1..m : i # m => i \in 1..(m - 1)
    BY <1>1
  <2>4. \A i \in 1..(m - 1) : h[i] \in Seq(Nat)
    BY <2>1
  <2>5. g \in [1..m -> Seq(Nat)]
    <3> HIDE DEF last
    <3> QED BY <2>2, <2>3, <2>4
  <2>6. ASSUME NEW i \in 1..m PROVE g[i] = IF i = 1 THEN s[i] ELSE g[i - 1] \o s[i]
    <3>1. i # 1 => i - 1 \in 1..m /\ i - 1 # m
      BY <1>1
    <3>2. i # 1 => g[i - 1] = h[i - 1]
      BY <3>1
    <3>3. CASE i = m
      <4>1. g[i] = last
        BY <3>3
      <4> HIDE DEF g
      <4> QED BY <3>2, <3>3, <4>1
    <3>4. CASE i # m
      <4>1. g[i] = h[i]
        BY <3>4
      <4>2. h[i] = IF i = 1 THEN s[i] ELSE h[i - 1] \o s[i]
        BY <2>1, <2>3, <3>4
      <4> HIDE DEF g
      <4> QED BY <3>2, <4>1, <4>2
    <3> QED BY <3>3, <3>4
  <2>7. Upto(g, m)
    <3> HIDE DEF g
    <3> QED BY <2>5, <2>6
  <2> HIDE DEF Upto, g
  <2>8. m \in 0..n
    BY <1>1
  <2> QED BY <2>7, <2>8
<1> HIDE DEF Good
<1>4. n \in Good
  <2>1. \A k \in 0..n : k \in Good
    BY <1>1, <1>2, <1>3, Upward
  <2> QED BY <1>1, <2>1
<1>5. PICK h : Upto(h, n)
  BY <1>4 DEF Good
<1>6. \A f : Flattens(f, s) <=> f = [i \in 1..n |-> IF i = 1 THEN s[i] ELSE f[i - 1] \o s[i]]
  BY DEF Flattens, n
<1>7. Flattens(h, s)
  <2>1. h = [i \in 1..n |-> h[i]]
    BY <1>5
  <2> QED BY <1>5, <1>6, <2>1
<1> DEFINE g == CHOOSE f : Flattens(f, s)
<1>8. Flattens(g, s)
  BY <1>7
<1>9. FlattenSeq(s) = g[n]
  BY <1>1 DEF FlattenSeq, Flattens, n
<1> HIDE DEF g
<1>10. g = [i \in 1..n |-> IF i = 1 THEN s[i] ELSE g[i - 1] \o s[i]]
  BY <1>6, <1>8
<1>11. \A i \in 1..n : g[i] = IF i = 1 THEN s[i] ELSE g[i - 1] \o s[i]
  BY <1>10, Zenon
<1> DEFINE Typed == {m \in 0..n : m = 0 \/ g[m] \in Seq(Nat)}
<1>12. ASSUME NEW m \in 1..n, m - 1 \in Typed PROVE m \in Typed
  <2>1. g[m] = IF m = 1 THEN s[m] ELSE g[m - 1] \o s[m]
    BY <1>11
  <2>2. m # 1 => g[m - 1] \in Seq(Nat)
    BY <1>1, <1>12
  <2>3. g[m] \in Seq(Nat)
    BY <1>1, <2>1, <2>2, ConcatProperties
  <2> QED BY <1>1, <2>3
<1>13. 0 \in Typed
  BY <1>1
<1> HIDE DEF Typed
<1>14. \A m \in 0..n : m \in Typed
  BY <1>1, <1>12, <1>13, Upward
<1>15. \A m \in 1..n : g[m] \in Seq(Nat)
  <2> SUFFICES ASSUME NEW m \in 1..n PROVE g[m] \in Seq(Nat)
    OBVIOUS
  <2>1. m \in 0..n /\ m # 0
    BY <1>1
  <2> QED BY <1>14, <2>1 DEF Typed
<1>16. g \in [1..n -> Seq(Nat)]
  <2>1. DOMAIN g = 1..n /\ g = [i \in 1..n |-> g[i]]
    BY <1>10
  <2> QED BY <1>15, <2>1
<1> QED BY <1>8, <1>9, <1>16 DEF n

\* How long the first k sequences of s are.
Lengths(s, w) ==
    /\ w \in [0..Len(s) -> Nat] /\ w[0] = 0
    /\ \A k \in 1..Len(s) : w[k] = w[k - 1] + Len(s[k])

(***************************************************************************)
(* Joined together, each is contained, and the lengths add up.             *)
(***************************************************************************)
LEMMA FlattenFacts ==
    ASSUME NEW s \in Seq(Seq(Nat))
    PROVE  /\ FlattenSeq(s) \in Seq(Nat)
           /\ \A k \in 1..Len(s) : is_contained(s[k], FlattenSeq(s))
           /\ \E w : Lengths(s, w) /\ w[Len(s)] = Len(FlattenSeq(s))
<1>1. CASE s = <<>>
  <2>1. FlattenSeq(s) = <<>> /\ Len(s) = 0 /\ Len(<<>>) = 0
    BY <1>1 DEF FlattenSeq
  <2> DEFINE w == [k \in 0..0 |-> 0]
  <2>2. Lengths(s, w) /\ w[Len(s)] = Len(FlattenSeq(s))
    BY <2>1 DEF Lengths
  <2>3. \E v : Lengths(s, v) /\ v[Len(s)] = Len(FlattenSeq(s))
    BY <2>2
  <2> HIDE DEF w
  <2>4. FlattenSeq(s) \in Seq(Nat) /\ 1..Len(s) = {}
    BY <2>1
  <2> QED BY <2>3, <2>4
<1>2. CASE s # <<>>
  <2> DEFINE n == Len(s)
  <2>1. n \in Nat \ {0} /\ \A i \in 1..n : s[i] \in Seq(Nat)
    BY <1>2
  <2>2. PICK h : /\ Flattens(h, s) /\ h \in [1..n -> Seq(Nat)] /\ FlattenSeq(s) = h[n]
    BY <1>2, FlattenExists
  <2>3. \A i \in 1..n : h[i] = IF i = 1 THEN s[i] ELSE h[i - 1] \o s[i]
    <3>1. h = [i \in 1..n |-> IF i = 1 THEN s[i] ELSE h[i - 1] \o s[i]]
      BY <2>2 DEF Flattens
    <3> HIDE DEF n
    <3> QED BY <3>1, Zenon
  <2>4. \A i \in 1..n : h[i] \in Seq(Nat)
    BY <2>2
  <2>5. ASSUME NEW i \in 1..n, i # 1
        PROVE  /\ i - 1 \in 1..n /\ Len(h[i]) = Len(h[i - 1]) + Len(s[i])
               /\ is_contained(h[i - 1], h[i]) /\ is_contained(s[i], h[i])
    <3> HIDE DEF n
    <3>1. i - 1 \in 1..n
      BY <2>1, <2>5
    <3>2. h[i - 1] \in Seq(Nat) /\ s[i] \in Seq(Nat) /\ h[i] = h[i - 1] \o s[i]
      BY <2>1, <2>3, <2>4, <2>5, <3>1
    <3> QED BY <3>1, <3>2, ContainedParts
  <2>6. h[1] = s[1] /\ 1 \in 1..n
    BY <2>1, <2>3
  <2> HIDE DEF n
  <2> DEFINE w == [k \in 0..n |-> IF k = 0 THEN 0 ELSE Len(h[k])]
  <2>7. Lengths(s, w) /\ w[n] = Len(h[n])
    <3>1. \A k \in 1..n : w[k] = Len(h[k]) /\ Len(h[k]) \in Nat /\ Len(s[k]) \in Nat
      BY <2>1, <2>4
    <3>2. w[0] = 0 /\ w \in [0..n -> Nat]
      <4>1. \A k \in 0..n : k # 0 => k \in 1..n
        BY <2>1
      <4>2. \A k \in 0..n : (IF k = 0 THEN 0 ELSE Len(h[k])) \in Nat
        BY <3>1, <4>1
      <4>3. 0 \in 0..n
        BY <2>1
      <4> QED BY <4>2, <4>3
    <3>3. ASSUME NEW k \in 1..n PROVE w[k] = w[k - 1] + Len(s[k])
      <4>1. CASE k = 1
        <5>1. k - 1 = 0 /\ w[k] = Len(s[1])
          BY <2>6, <3>1, <4>1
        <5> HIDE DEF w
        <5> QED BY <3>1, <3>2, <4>1, <5>1
      <4>2. CASE k # 1
        <5>1. k - 1 \in 1..n
          BY <2>5, <4>2
        <5> HIDE DEF w
        <5> QED BY <2>5, <3>1, <4>2, <5>1
      <4> QED BY <4>1, <4>2
    <3>4. w[n] = Len(h[n])
      <4>1. n \in 1..n
        BY <2>1
      <4> QED BY <3>1, <4>1
    <3> HIDE DEF w
    <3> QED BY <3>2, <3>3, <3>4 DEF Lengths, n
  <2>8. ASSUME NEW k \in 1..n PROVE is_contained(s[k], h[n])
    <3> DEFINE Good == {m \in 0..n : m >= k => is_contained(s[k], h[m])}
    <3>1. 0 \in Good
      BY <2>1
    <3>2. ASSUME NEW m \in 1..n, m - 1 \in Good PROVE m \in Good
      <4>1. m \in 0..n /\ m \in Nat
        BY <2>1
      <4>2. CASE m < k
        BY <4>1, <4>2
      <4>3. CASE m = k
        <5>1. is_contained(s[k], h[k])
          <6>1. CASE k = 1
            <7>1. s[1] \in Seq(Nat) /\ h[k] = s[1]
              BY <2>1, <2>6, <6>1
            <7> QED BY <6>1, <7>1, ContainedSelf
          <6>2. CASE k # 1
            BY <2>5, <6>2
          <6> QED BY <6>1, <6>2
        <5> QED BY <4>1, <4>3, <5>1
      <4>4. CASE m > k
        <5>1. m # 1 /\ m - 1 >= k /\ m - 1 \in 0..n
          BY <2>1, <4>4
        <5>2. is_contained(s[k], h[m - 1])
          BY <3>2, <5>1
        <5>3. is_contained(h[m - 1], h[m]) /\ m - 1 \in 1..n
          BY <2>5, <5>1
        <5>4. s[k] \in Seq(Nat) /\ h[m - 1] \in Seq(Nat) /\ h[m] \in Seq(Nat)
          BY <2>1, <2>4, <5>3
        <5>5. is_contained(s[k], h[m])
          BY <5>2, <5>3, <5>4, ContainedTrans
        <5> QED BY <4>1, <5>5
      <4> QED BY <2>1, <4>2, <4>3, <4>4
    <3> HIDE DEF Good
    <3>3. \A m \in 0..n : m \in Good
      BY <2>1, <3>1, <3>2, Upward
    <3>4. n \in Good /\ n >= k
      BY <2>1, <3>3
    <3> QED BY <3>4 DEF Good
  <2>9. \E v : Lengths(s, v) /\ v[n] = Len(h[n])
    <3> HIDE DEF w
    <3> QED BY <2>7
  <2>10. n \in 1..n
    BY <2>1
  <2> QED BY <2>2, <2>4, <2>8, <2>9, <2>10 DEF n
<1> QED BY <1>1, <1>2

\* The sums of lengths are natural numbers and never decrease.
LEMMA LengthsFacts ==
    ASSUME NEW T, NEW s \in Seq(Seq(T)), NEW w, Lengths(s, w)
    PROVE  /\ Len(s) \in Nat /\ w[0] = 0
           /\ \A k \in 0..Len(s) : w[k] \in Nat
           /\ \A k \in 1..Len(s) : /\ k \in 0..Len(s) /\ k - 1 \in 0..Len(s) /\ Len(s[k]) \in Nat
                                   /\ w[k] = w[k - 1] + Len(s[k])
           /\ \A i, j \in 0..Len(s) : i <= j => w[i] <= w[j]
<1> DEFINE n == Len(s)
<1>1. n \in Nat /\ \A k \in 1..n : s[k] \in Seq(T)
  OBVIOUS
<1>2. \A k \in 1..n : Len(s[k]) \in Nat
  BY <1>1
<1>3. /\ w[0] = 0 /\ \A k \in 0..n : w[k] \in Nat
      /\ \A k \in 1..n : w[k] = w[k - 1] + Len(s[k])
  BY DEF Lengths
<1> HIDE DEF n
<1>4. \A k \in 1..n : k \in 0..n /\ k - 1 \in 0..n
  BY <1>1
<1>5. ASSUME NEW i \in 0..n, NEW j \in 0..n, i <= j PROVE w[i] <= w[j]
  <2> DEFINE Good == {k \in 0..n : k >= i => w[i] <= w[k]}
  <2>1. 0 \in Good
    <3>1. 0 >= i => i = 0
      BY <1>1
    <3> QED BY <1>1, <1>3, <3>1
  <2>2. ASSUME NEW k \in 1..n, k - 1 \in Good PROVE k \in Good
    <3>1. k \in 0..n /\ w[k] \in Nat /\ w[k - 1] \in Nat /\ w[i] \in Nat /\ Len(s[k]) \in Nat
          /\ w[k] = w[k - 1] + Len(s[k])
      BY <1>2, <1>3, <1>4
    <3>2. CASE k - 1 >= i
      <4>1. w[i] <= w[k - 1]
        BY <2>2, <3>2
      <4>2. w[i] <= w[k]
        BY <3>1, <4>1
      <4> QED BY <3>1, <4>2
    <3>3. CASE ~(k - 1 >= i)
      <4>1. k >= i => k = i
        BY <1>1, <3>3
      <4> QED BY <3>1, <4>1
    <3> QED BY <3>2, <3>3
  <2> HIDE DEF Good
  <2>3. j \in Good
    BY <1>1, <2>1, <2>2, Upward
  <2> QED BY <1>5, <2>3 DEF Good
<1> QED BY <1>1, <1>2, <1>3, <1>4, <1>5 DEF n

(***************************************************************************)
(* Sequences that are, in their order, no longer than some of others are   *)
(* no longer together.                                                     *)
(***************************************************************************)
LEMMA SomeNotLonger ==
    ASSUME NEW s \in Seq(Seq(Nat)), NEW t \in Seq(Seq(Nat)),
           NEW p \in [1..Len(t) -> 1..Len(s)],
           \A j, k \in 1..Len(t) : j < k => p[j] < p[k],
           \A k \in 1..Len(t) : Len(t[k]) <= Len(s[p[k]])
    PROVE  Len(FlattenSeq(t)) <= Len(FlattenSeq(s))
<1>1. PICK w : Lengths(s, w) /\ w[Len(s)] = Len(FlattenSeq(s))
  BY FlattenFacts
<1>2. PICK v : Lengths(t, v) /\ v[Len(t)] = Len(FlattenSeq(t))
  BY FlattenFacts
<1> DEFINE n == Len(s)
           m == Len(t)
<1>3. /\ n \in Nat /\ w[0] = 0 /\ \A k \in 0..n : w[k] \in Nat
      /\ \A k \in 1..n : /\ k \in 0..n /\ k - 1 \in 0..n /\ Len(s[k]) \in Nat
                         /\ w[k] = w[k - 1] + Len(s[k])
      /\ \A i, j \in 0..n : i <= j => w[i] <= w[j]
  BY <1>1, LengthsFacts
<1>4. /\ m \in Nat /\ v[0] = 0 /\ \A k \in 0..m : v[k] \in Nat
      /\ \A k \in 1..m : /\ k \in 0..m /\ k - 1 \in 0..m /\ Len(t[k]) \in Nat
                         /\ v[k] = v[k - 1] + Len(t[k])
  BY <1>2, LengthsFacts
<1>5. /\ \A k \in 1..m : p[k] \in 1..n /\ Len(t[k]) <= Len(s[p[k]])
      /\ \A j, k \in 1..m : j < k => p[j] < p[k]
  OBVIOUS
<1> HIDE DEF n, m
<1> DEFINE at(k) == IF k = 0 THEN 0 ELSE p[k]
           Good == {k \in 0..m : v[k] <= w[at(k)]}
<1>6. 0 \in Good
  BY <1>3, <1>4
<1>7. ASSUME NEW k \in 1..m, k - 1 \in Good PROVE k \in Good
  <2>0. p[k] \in 1..n
    BY <1>5
  <2>1. /\ w[p[k]] = w[p[k] - 1] + Len(s[p[k]])
        /\ p[k] - 1 \in 0..n /\ w[p[k] - 1] \in Nat /\ Len(s[p[k]]) \in Nat
    BY <1>3, <2>0
  <2>7. at(k) = p[k]
    BY <1>4
  <2>2. at(k - 1) \in 0..n /\ at(k - 1) <= p[k] - 1
    <3>1. CASE k = 1
      <4>1. at(k - 1) = 0
        BY <3>1
      <4>2. 0 \in 0..n /\ 0 <= p[k] - 1
        BY <1>3, <2>0
      <4> HIDE DEF at
      <4> QED BY <4>1, <4>2
    <3>2. CASE k # 1
      <4>1. k - 1 \in 1..m /\ k - 1 < k
        BY <1>4, <3>2
      <4>2. p[k - 1] < p[k] /\ p[k - 1] \in 1..n
        BY <1>5, <4>1
      <4>3. at(k - 1) = p[k - 1]
        BY <4>1
      <4>4. p[k - 1] \in 0..n /\ p[k - 1] <= p[k] - 1
        BY <1>3, <2>0, <4>2
      <4> HIDE DEF at
      <4> QED BY <4>3, <4>4
    <3> QED BY <3>1, <3>2
  <2>3. v[k - 1] <= w[at(k - 1)]
    BY <1>7
  <2> HIDE DEF at, Good
  <2>4. w[at(k - 1)] <= w[p[k] - 1] /\ w[at(k - 1)] \in Nat
    BY <1>3, <2>1, <2>2
  <2>5. v[k] = v[k - 1] + Len(t[k]) /\ Len(t[k]) <= Len(s[p[k]]) /\ v[k - 1] \in Nat /\ Len(t[k]) \in Nat
    BY <1>4, <1>5
  <2>6. v[k] <= w[at(k)]
    <3>a. \A a, b, c, d, e \in Nat : a <= b /\ b <= c /\ d <= e => a + d <= c + e
      OBVIOUS
    <3>1. v[k] <= w[p[k]]
      <4> DEFINE a == v[k - 1]  b == w[at(k - 1)]  c == w[p[k] - 1]  d == Len(t[k])  e == Len(s[p[k]])
      <4>1. a \in Nat /\ b \in Nat /\ c \in Nat /\ d \in Nat /\ e \in Nat
        BY <2>1, <2>4, <2>5
      <4>2. a <= b /\ b <= c /\ d <= e
        BY <2>3, <2>4, <2>5
      <4>3. v[k] = a + d /\ w[p[k]] = c + e
        BY <2>1, <2>5
      <4> HIDE DEF a, b, c, d, e
      <4> QED BY <3>a, <4>1, <4>2, <4>3
    <3> QED BY <3>1, <2>7, Zenon
  <2>8. k \in 0..m
    BY <1>4
  <2> QED BY <2>6, <2>8 DEF Good
<1> HIDE DEF Good
<1>8. m \in Good
  <2>1. \A k \in 0..m : k \in Good
    BY <1>4, <1>6, <1>7, Upward
  <2> QED BY <1>4, <2>1
<1>9. v[m] <= w[at(m)]
  BY <1>8 DEF Good
<1>10. at(m) \in 0..n /\ at(m) <= n
  BY <1>3, <1>4, <1>5
<1> HIDE DEF at
<1>11. w[at(m)] <= w[n] /\ w[at(m)] \in Nat /\ w[n] \in Nat /\ v[m] \in Nat
  BY <1>3, <1>4, <1>10
<1>12. v[m] <= w[n]
  BY <1>9, <1>11
<1> QED BY <1>1, <1>2, <1>12 DEF n, m

(***************************************************************************)
(* Two of some sequences are exchanged for others.                         *)
(***************************************************************************)
LEMMA ExchangeLength ==
    ASSUME NEW s \in Seq(Seq(Nat)), NEW t \in Seq(Seq(Nat)), Len(t) = Len(s),
           NEW i \in 1..Len(s), NEW j \in 1..Len(s), i # j,
           \A k \in 1..Len(s) : k \notin {i, j} => t[k] = s[k]
    PROVE  Len(FlattenSeq(t)) + Len(s[i]) + Len(s[j]) = Len(FlattenSeq(s)) + Len(t[i]) + Len(t[j])
<1>1. PICK w : Lengths(s, w) /\ w[Len(s)] = Len(FlattenSeq(s))
  BY FlattenFacts
<1>2. PICK v : Lengths(t, v) /\ v[Len(t)] = Len(FlattenSeq(t))
  BY FlattenFacts
<1> DEFINE n == Len(s)
           a == Len(s[i])
           b == Len(s[j])
           c == Len(t[i])
           d == Len(t[j])
<1>3. /\ n \in Nat /\ w[0] = 0 /\ \A k \in 0..n : w[k] \in Nat
      /\ \A k \in 1..n : /\ k \in 0..n /\ k - 1 \in 0..n /\ Len(s[k]) \in Nat
                         /\ w[k] = w[k - 1] + Len(s[k])
  BY <1>1, LengthsFacts
<1>4. /\ v[0] = 0 /\ \A k \in 0..n : v[k] \in Nat
      /\ \A k \in 1..n : Len(t[k]) \in Nat /\ v[k] = v[k - 1] + Len(t[k])
  BY <1>2, LengthsFacts
<1>5. /\ i \in 1..n /\ j \in 1..n /\ \A k \in 1..n : k \notin {i, j} => t[k] = s[k]
      /\ a \in Nat /\ b \in Nat /\ c \in Nat /\ d \in Nat
  BY <1>3, <1>4
<1> DEFINE A(k) == IF k >= i THEN a ELSE 0
           B(k) == IF k >= j THEN b ELSE 0
           C(k) == IF k >= i THEN c ELSE 0
           D(k) == IF k >= j THEN d ELSE 0
           Same(k) == v[k] + A(k) + B(k) = w[k] + C(k) + D(k)
           Good == {k \in 0..n : Same(k)}
<1> HIDE DEF n
<1>6. 0 \in Good
  <2>1. 0 \in 0..n /\ ~(0 >= i) /\ ~(0 >= j)
    BY <1>3, <1>5
  <2> QED BY <1>3, <1>4, <2>1
<1>7. ASSUME NEW k \in 1..n, k - 1 \in Good PROVE k \in Good
  <2>1. Same(k - 1) /\ k \in 0..n
    BY <1>3, <1>7
  <2>2. /\ v[k - 1] \in Nat /\ w[k - 1] \in Nat /\ Len(s[k]) \in Nat /\ Len(t[k]) \in Nat
        /\ w[k] = w[k - 1] + Len(s[k]) /\ v[k] = v[k - 1] + Len(t[k])
    BY <1>3, <1>4
  <2>3. /\ A(k - 1) \in Nat /\ B(k - 1) \in Nat /\ C(k - 1) \in Nat /\ D(k - 1) \in Nat
    BY <1>5
  <2>4. Len(t[k]) + (A(k) - A(k - 1)) + (B(k) - B(k - 1)) = Len(s[k]) + (C(k) - C(k - 1)) + (D(k) - D(k - 1))
        /\ A(k) \in Nat /\ B(k) \in Nat /\ C(k) \in Nat /\ D(k) \in Nat
    <3>1. CASE k = i
      <4>1. Len(s[k]) = a /\ Len(t[k]) = c /\ (k >= j <=> k - 1 >= j) /\ k >= i /\ ~(k - 1 >= i)
        BY <1>5, <3>1
      <4>2. A(k) = a /\ A(k - 1) = 0 /\ C(k) = c /\ C(k - 1) = 0 /\ B(k) = B(k - 1) /\ D(k) = D(k - 1)
        BY <4>1
      <4> HIDE DEF a, b, c, d, A, B, C, D
      <4> QED BY <1>5, <2>3, <4>1, <4>2
    <3>2. CASE k = j
      <4>1. Len(s[k]) = b /\ Len(t[k]) = d /\ (k >= i <=> k - 1 >= i) /\ k >= j /\ ~(k - 1 >= j)
        BY <1>5, <3>2
      <4>2. B(k) = b /\ B(k - 1) = 0 /\ D(k) = d /\ D(k - 1) = 0 /\ A(k) = A(k - 1) /\ C(k) = C(k - 1)
        BY <4>1
      <4> HIDE DEF a, b, c, d, A, B, C, D
      <4> QED BY <1>5, <2>3, <4>1, <4>2
    <3>3. CASE k \notin {i, j}
      <4>1. Len(s[k]) = Len(t[k]) /\ (k >= i <=> k - 1 >= i) /\ (k >= j <=> k - 1 >= j)
        BY <1>5, <3>3
      <4>2. A(k) = A(k - 1) /\ C(k) = C(k - 1) /\ B(k) = B(k - 1) /\ D(k) = D(k - 1)
        BY <4>1
      <4> HIDE DEF a, b, c, d, A, B, C, D
      <4> QED BY <2>2, <2>3, <4>1, <4>2
    <3> QED BY <3>1, <3>2, <3>3
  <2>5. Same(k)
    <3>1. v[k - 1] + A(k - 1) + B(k - 1) = w[k - 1] + C(k - 1) + D(k - 1)
      BY <2>1
    <3>2. v[k] + A(k) + B(k) = w[k] + C(k) + D(k)
      <4> DEFINE v0 == v[k - 1]
                 w0 == w[k - 1]
                 t0 == Len(t[k])
                 s0 == Len(s[k])
                 a0 == A(k - 1)
                 b0 == B(k - 1)
                 c0 == C(k - 1)
                 d0 == D(k - 1)
                 a1 == A(k)
                 b1 == B(k)
                 c1 == C(k)
                 d1 == D(k)
      <4>1. v0 \in Nat /\ w0 \in Nat /\ t0 \in Nat /\ s0 \in Nat
        BY <2>2
      <4>2. a0 \in Nat /\ b0 \in Nat /\ c0 \in Nat /\ d0 \in Nat
        BY <2>3, Zenon
      <4>3. a1 \in Nat /\ b1 \in Nat /\ c1 \in Nat /\ d1 \in Nat
        BY <2>4, Zenon
      <4>4. t0 + (a1 - a0) + (b1 - b0) = s0 + (c1 - c0) + (d1 - d0)
        BY <2>4, Zenon
      <4>5. v0 + a0 + b0 = w0 + c0 + d0
        BY <3>1, Zenon
      <4>6. w[k] = w0 + s0 /\ v[k] = v0 + t0
        BY <2>2, Zenon
      <4>7. v0 + t0 + a1 + b1 = w0 + s0 + c1 + d1
        <5> HIDE DEF v0, w0, t0, s0, a0, b0, c0, d0, a1, b1, c1, d1
        <5> QED BY <4>1, <4>2, <4>3, <4>4, <4>5
      <4> QED BY <4>6, <4>7
    <3> QED BY <3>2
  <2> HIDE DEF Same
  <2> QED BY <2>1, <2>5
<1> HIDE DEF Good
<1>8. n \in Good
  <2>1. \A k \in 0..n : k \in Good
    BY <1>3, <1>6, <1>7, Upward
  <2> QED BY <1>3, <2>1
<1>9. Same(n)
  BY <1>8 DEF Good
<1>10. n >= i /\ n >= j
  BY <1>3, <1>5
<1>11. v[n] + a + b = w[n] + c + d
  BY <1>9, <1>10
<1> QED BY <1>1, <1>2, <1>11 DEF n

(***************************************************************************)
(* One more.                                                               *)
(***************************************************************************)
LEMMA AppendLength ==
    ASSUME NEW s \in Seq(Seq(Nat)), NEW x \in Seq(Nat)
    PROVE  Len(FlattenSeq(Append(s, x))) = Len(FlattenSeq(s)) + Len(x)
<1> DEFINE t == Append(s, x)
           n == Len(s)
<1>1. PICK w : Lengths(s, w) /\ w[Len(s)] = Len(FlattenSeq(s))
  BY FlattenFacts
<1>2. t \in Seq(Seq(Nat)) /\ Len(t) = n + 1 /\ n \in Nat /\ t[n + 1] = x /\ \A k \in 1..n : t[k] = s[k]
  BY AppendProperties
<1> HIDE DEF t
<1>3. PICK v : Lengths(t, v) /\ v[Len(t)] = Len(FlattenSeq(t))
  BY <1>2, FlattenFacts
<1>4. /\ w[0] = 0 /\ \A k \in 0..n : w[k] \in Nat
      /\ \A k \in 1..n : /\ k \in 0..n /\ k - 1 \in 0..n /\ w[k] = w[k - 1] + Len(s[k])
  BY <1>1, LengthsFacts
<1>5. /\ v[0] = 0 /\ \A k \in 0..(n + 1) : v[k] \in Nat
      /\ \A k \in 1..(n + 1) : v[k] = v[k - 1] + Len(t[k])
  <2>1. /\ v[0] = 0 /\ \A k \in 0..Len(t) : v[k] \in Nat
        /\ \A k \in 1..Len(t) : v[k] = v[k - 1] + Len(t[k])
    BY <1>2, <1>3, LengthsFacts
  <2> QED BY <1>2, <2>1
<1> DEFINE Good == {k \in 0..n : v[k] = w[k]}
<1>6. w[n] = Len(FlattenSeq(s)) /\ v[n + 1] = Len(FlattenSeq(t))
  BY <1>1, <1>2, <1>3
<1> HIDE DEF n
<1>7. 0 \in Good
  BY <1>2, <1>4, <1>5
<1>8. ASSUME NEW k \in 1..n, k - 1 \in Good PROVE k \in Good
  <2>1. v[k - 1] = w[k - 1] /\ k \in 1..(n + 1) /\ t[k] = s[k] /\ k \in 0..n
    BY <1>2, <1>8
  <2>2. v[k] = w[k]
    BY <1>4, <1>5, <2>1
  <2> QED BY <2>1, <2>2
<1> HIDE DEF Good
<1>9. n \in Good
  <2>1. \A k \in 0..n : k \in Good
    BY <1>2, <1>7, <1>8, Upward
  <2> QED BY <1>2, <2>1
<1>10. v[n] = w[n]
  BY <1>9 DEF Good
<1>11. n + 1 \in 1..(n + 1) /\ (n + 1) - 1 = n
  BY <1>2
<1>12. v[n + 1] = w[n] + Len(x)
  BY <1>2, <1>5, <1>10, <1>11
<1> QED BY <1>6, <1>12 DEF t

-----------------------------------------------------------------------------
(* Targets, in their order.                                                *)

Target == {t \in Seq(Nat) : Len(t) \in 1..MaxEntrySize}

(***************************************************************************)
(* The targets of all dictionaries are finitely many.                      *)
(***************************************************************************)
LEMMA AllTargetsFacts ==
    ASSUME DictsAssumption, m_targets \in [1..NumDicts -> Seq(Target)]
    PROVE  /\ IsFiniteSet(AllTargets) /\ AllTargets \subseteq Target
           /\ \A d \in 1..NumDicts : \A k \in 1..Len(m_targets[d]) : m_targets[d][k] \in AllTargets
<1> DEFINE ranges == [d \in 1..NumDicts |-> Range(m_targets[d])]
<1>1. ASSUME NEW d \in 1..NumDicts
      PROVE  /\ IsFiniteSet(ranges[d]) /\ ranges[d] \subseteq Target
             /\ \A k \in 1..Len(m_targets[d]) : m_targets[d][k] \in ranges[d]
  <2>1. m_targets[d] \in Seq(Target)
    OBVIOUS
  <2>2. Len(m_targets[d]) \in Nat /\ m_targets[d] \in [1..Len(m_targets[d]) -> Target]
    BY <2>1, LenProperties
  <2>3. /\ Range(m_targets[d]) \subseteq Target
        /\ m_targets[d] \in Surjection(1..Len(m_targets[d]), Range(m_targets[d]))
    BY <2>2, Fun_RangeProperties
  <2>4. IsFiniteSet(1..Len(m_targets[d]))
    BY <2>2, FS_Interval
  <2>5. IsFiniteSet(Range(m_targets[d]))
    BY <2>3, <2>4, FS_Surjection
  <2>6. \A k \in 1..Len(m_targets[d]) : m_targets[d][k] \in Range(m_targets[d])
    BY <2>2 DEF Range
  <2> QED BY <2>3, <2>5, <2>6
<1>2. ranges \in [1..NumDicts -> SUBSET Target]
  BY <1>1
<1>3. AllTargets = UNION Range(ranges)
  BY DEF AllTargets, Range
<1> HIDE DEF ranges
<1>4. ranges \in Surjection(1..NumDicts, Range(ranges)) /\ \A y \in Range(ranges) : \E x \in 1..NumDicts : ranges[x] = y
  <2>1. ranges \in Surjection(1..NumDicts, Range(ranges))
    BY <1>2, Fun_RangeProperties
  <2>2. \A y \in Range(ranges) : \E x \in 1..NumDicts : ranges[x] = y
    BY <1>2 DEF Range
  <2> QED BY <2>1, <2>2
<1>5. IsFiniteSet(1..NumDicts)
  BY FS_Interval DEF DictsAssumption
<1>6. IsFiniteSet(Range(ranges))
  BY <1>4, <1>5, FS_Surjection
<1>7. \A T \in Range(ranges) : IsFiniteSet(T) /\ T \subseteq Target
  BY <1>1, <1>4
<1>8. IsFiniteSet(UNION Range(ranges))
  BY <1>6, <1>7, FS_UNION
<1>9. \A d \in 1..NumDicts : ranges[d] \in Range(ranges)
  BY <1>2 DEF Range
<1> QED BY <1>1, <1>3, <1>7, <1>8, <1>9

(***************************************************************************)
(* Sorted are the same, and each is Less than the next.                    *)
(***************************************************************************)
LEMMA SortedFacts ==
    ASSUME NEW S, S \subseteq Seq(Nat), IsFiniteSet(S)
    PROVE  /\ Sorted(S) \in Seq(S) /\ Len(Sorted(S)) \in Nat
           /\ \A x \in S : \E k \in 1..Len(Sorted(S)) : Sorted(S)[k] = x
           /\ \A k \in 1..Len(Sorted(S)) : Sorted(S)[k] \in S
           /\ \A j, k \in 1..Len(Sorted(S)) : j < k => Less(Sorted(S)[j], Sorted(S)[k])
<1> DEFINE before == {p \in S \X S : Less(p[1], p[2])}
           sorted == InOrder(S, before)
<1>1. Orders(before, S)
  BY LessOrders
<1>2. sorted = Sorted(S)
  BY DEF Sorted
<1>3. \A p \in before : Less(p[1], p[2])
  OBVIOUS
<1> HIDE DEF before
<1>4. /\ Cardinality(S) \in Nat /\ sorted \in Seq(S) /\ Len(sorted) = Cardinality(S)
      /\ \A x \in S : \E k \in 1..Cardinality(S) : sorted[k] = x
      /\ \A j, k \in 1..Cardinality(S) : j < k => <<sorted[j], sorted[k]>> \in before
  BY <1>1, InOrderFacts
<1> HIDE DEF sorted
<1>5. \A k \in 1..Len(sorted) : sorted[k] \in S
  BY <1>4, ElementOfSeq
<1>6. ASSUME NEW j \in 1..Len(sorted), NEW k \in 1..Len(sorted), j < k PROVE Less(sorted[j], sorted[k])
  <2>1. <<sorted[j], sorted[k]>> \in before
    BY <1>4, <1>6
  <2> QED BY <1>3, <2>1
<1> QED BY <1>2, <1>4, <1>5, <1>6

(***************************************************************************)
(* Some targets one after the other are not longer than all of them.       *)
(***************************************************************************)
LEMMA SortedNotLonger ==
    ASSUME NEW S, S \subseteq Seq(Nat), IsFiniteSet(S), NEW K, K \subseteq S
    PROVE  /\ Sorted(K) \in Seq(Seq(Nat)) /\ Sorted(S) \in Seq(Seq(Nat))
           /\ Len(FlattenSeq(Sorted(K))) <= Len(FlattenSeq(Sorted(S)))
<1> DEFINE s == Sorted(S)
           t == Sorted(K)
<1>1. K \subseteq Seq(Nat) /\ IsFiniteSet(K)
  BY FS_Subset
<1>2. /\ s \in Seq(S) /\ Len(s) \in Nat
      /\ \A x \in S : \E k \in 1..Len(s) : s[k] = x
      /\ \A k \in 1..Len(s) : s[k] \in S
      /\ \A j, k \in 1..Len(s) : j < k => Less(s[j], s[k])
  BY SortedFacts
<1>3. /\ t \in Seq(K) /\ Len(t) \in Nat
      /\ \A k \in 1..Len(t) : t[k] \in K
      /\ \A j, k \in 1..Len(t) : j < k => Less(t[j], t[k])
  BY <1>1, SortedFacts
<1>4. s \in Seq(Seq(Nat)) /\ t \in Seq(Seq(Nat))
  BY <1>1, <1>2, <1>3, SeqMonotonic
<1> HIDE DEF s, t
<1>5. Orders({p \in S \X S : Less(p[1], p[2])}, S)
  BY LessOrders
<1>6. \A x, y \in S : Less(x, y) => ~Less(y, x)
  BY <1>5 DEF Orders
<1> DEFINE p == [k \in 1..Len(t) |-> CHOOSE j \in 1..Len(s) : s[j] = t[k]]
<1>7. ASSUME NEW k \in 1..Len(t) PROVE p[k] \in 1..Len(s) /\ s[p[k]] = t[k]
  <2>1. \E j \in 1..Len(s) : s[j] = t[k]
    BY <1>2, <1>3
  <2> QED BY <2>1
<1>8. p \in [1..Len(t) -> 1..Len(s)]
  BY <1>7
<1> HIDE DEF p
<1>9. ASSUME NEW j \in 1..Len(t), NEW k \in 1..Len(t), j < k PROVE p[j] < p[k]
  <2>1. Less(s[p[j]], s[p[k]]) /\ s[p[j]] \in S /\ s[p[k]] \in S
    BY <1>2, <1>3, <1>7, <1>9
  <2>2. ~Less(s[p[k]], s[p[j]])
    BY <1>6, <2>1
  <2>3. p[j] # p[k]
    BY <2>1, <2>2
  <2>4. ~(p[k] < p[j])
    BY <1>2, <1>7, <2>2
  <2> QED BY <1>7, <2>3, <2>4
<1>10. \A k \in 1..Len(t) : Len(t[k]) <= Len(s[p[k]])
  <2>1. \A k \in 1..Len(t) : t[k] \in Seq(Nat)
    BY <1>1, <1>3
  <2>2. \A k \in 1..Len(t) : Len(t[k]) \in Nat
    BY <2>1, LenProperties
  <2> QED BY <1>7, <2>2
<1>11. Len(FlattenSeq(t)) <= Len(FlattenSeq(s))
  BY <1>4, <1>8, <1>9, <1>10, SomeNotLonger
<1> QED BY <1>4, <1>11 DEF s, t

(***************************************************************************)
(* Of the targets that are not part of another, one contains t: a longest  *)
(* one of those that do.                                                   *)
(***************************************************************************)
LEMMA LongestContains ==
    ASSUME DictsAssumption, NEW S, S \subseteq Target, NEW t \in S
    PROVE  \E x \in S : is_contained(t, x) /\ ~\E other \in S : Covers(other, x)
<1>1. \A x \in S : x \in Seq(Nat) /\ Len(x) \in 1..MaxEntrySize /\ MaxEntrySize - Len(x) \in Nat
  BY DEF Target, DictsAssumption
<1> DEFINE C == {x \in S : is_contained(t, x)}
           L == {MaxEntrySize - Len(x) : x \in C}
<1>2. t \in C
  BY <1>1, ContainedSelf
<1>3. L \subseteq Nat /\ L # {}
  BY <1>1, <1>2
<1>4. Least(L) \in L /\ \A y \in L : Least(L) <= y
  BY <1>3, LeastFacts
<1>5. PICK x \in C : Least(L) = MaxEntrySize - Len(x)
  BY <1>4
<1>6. \A y \in C : MaxEntrySize - Len(x) <= MaxEntrySize - Len(y)
  BY <1>4, <1>5
<1>7. \A y \in C : Len(y) <= Len(x)
  BY <1>1, <1>6 DEF DictsAssumption
<1>8. ASSUME NEW other \in S, Covers(other, x) PROVE FALSE
  <2>1. Len(x) < Len(other)
    BY <1>8 DEF Covers
  <2>2. is_contained(x, other)
    <3>1. CASE Overlapping
      BY <1>8, <3>1 DEF Covers
    <3>2. CASE ~Overlapping
      <4>1. OccursAt(x, other, 0)
        BY <1>8, <3>2 DEF Covers, prefix_overlap
      <4>2. 0 \in 0..(Len(other) - Len(x))
        BY <1>1, <2>1
      <4> QED BY <4>1, <4>2 DEF is_contained
    <3> QED BY <3>1, <3>2
  <2>3. is_contained(t, x) /\ t \in Seq(Nat) /\ x \in Seq(Nat) /\ other \in Seq(Nat)
    BY <1>1
  <2>4. is_contained(t, other)
    BY <2>2, <2>3, ContainedTrans
  <2>5. Len(other) <= Len(x)
    BY <1>7, <2>4
  <2>6. Len(x) \in Nat /\ Len(other) \in Nat
    BY <1>1
  <2> QED BY <2>1, <2>5, <2>6
<1> QED BY <1>5, <1>8

-----------------------------------------------------------------------------
(* Entries that are merged and erased.                                     *)

EntryType == [entry : Seq(Nat) \ {<<>>}, valid : BOOLEAN]

\* What will be in the table of each entry, and how long it is.
Shown(es) == [k \in DOMAIN es |-> IF es[k].valid THEN es[k].entry ELSE <<>>]

Room(es) == Len(FlattenSeq(Shown(es)))

Budget(targets) == Len(FlattenSeq(Sorted(targets)))

AllValid(es) == \A k \in DOMAIN es : es[k].valid

\* What is valid in es is part of what is valid in fs.
Kept(es, fs) ==
    \A k \in DOMAIN es : es[k].valid =>
        \E j \in DOMAIN fs : fs[j].valid /\ is_contained(es[k].entry, fs[j].entry)

Reaches(targets, es) ==
    \A t \in targets : \E k \in DOMAIN es : es[k].valid /\ is_contained(t, es[k].entry)

\* What the entries being compacted are.
LEMMA EntryFacts ==
    ASSUME NEW es \in Seq(EntryType)
    PROVE  /\ Len(es) \in Nat /\ DOMAIN es = 1..Len(es)
           /\ \A k \in 1..Len(es) : /\ es[k] \in EntryType /\ es[k].valid \in BOOLEAN
                                    /\ es[k].entry \in Seq(Nat) /\ es[k].entry # <<>>
                                    /\ Len(es[k].entry) \in Nat \ {0}
<1>1. Len(es) \in Nat /\ DOMAIN es = 1..Len(es)
  BY LenProperties
<1>2. ASSUME NEW k \in 1..Len(es)
      PROVE  /\ es[k] \in EntryType /\ es[k].valid \in BOOLEAN
             /\ es[k].entry \in Seq(Nat) /\ es[k].entry # <<>>
  <2>1. es[k] \in EntryType
    BY ElementOfSeq
  <2> QED BY <2>1 DEF EntryType
<1>3. ASSUME NEW k \in 1..Len(es) PROVE Len(es[k].entry) \in Nat \ {0}
  BY <1>2, EmptySeq
<1> QED BY <1>1, <1>2, <1>3

\* An entry that is not valid takes no room.
LEMMA ShownFacts ==
    ASSUME NEW es \in Seq(EntryType)
    PROVE  /\ Shown(es) \in Seq(Seq(Nat)) /\ Len(Shown(es)) = Len(es)
           /\ \A k \in 1..Len(es) :
                Shown(es)[k] = (IF es[k].valid THEN es[k].entry ELSE <<>>)
<1>1. /\ Len(es) \in Nat /\ DOMAIN es = 1..Len(es)
      /\ \A k \in 1..Len(es) : es[k].entry \in Seq(Nat)
  BY EntryFacts
<1>2. Shown(es) = [k \in 1..Len(es) |-> IF es[k].valid THEN es[k].entry ELSE <<>>]
  BY <1>1 DEF Shown
<1>3. \A k \in 1..Len(es) : (IF es[k].valid THEN es[k].entry ELSE <<>>) \in Seq(Nat)
  BY <1>1, EmptySeq
<1> DEFINE T == Seq(Nat)
<1>4. \A k \in 1..Len(es) : Shown(es)[k] \in T
  BY <1>2, <1>3
<1> HIDE DEF T
<1>5. Shown(es) \in Seq(T) /\ Len(Shown(es)) = Len(es)
  BY <1>1, <1>2, <1>4
<1> QED BY <1>2, <1>5 DEF T

(***************************************************************************)
(* Targets that were part of an entry are part of one still.               *)
(***************************************************************************)
LEMMA KeptReaches ==
    ASSUME NEW es \in Seq(EntryType), NEW fs \in Seq(EntryType), Kept(es, fs),
           NEW targets, targets \subseteq Seq(Nat), Reaches(targets, es)
    PROVE  Reaches(targets, fs)
<1> SUFFICES ASSUME NEW t \in targets
             PROVE  \E k \in DOMAIN fs : fs[k].valid /\ is_contained(t, fs[k].entry)
  BY DEF Reaches
<1>1. PICK k \in DOMAIN es : es[k].valid /\ is_contained(t, es[k].entry)
  BY DEF Reaches
<1>2. PICK j \in DOMAIN fs : fs[j].valid /\ is_contained(es[k].entry, fs[j].entry)
  BY <1>1 DEF Kept
<1>3. t \in Seq(Nat) /\ es[k].entry \in Seq(Nat) /\ fs[j].entry \in Seq(Nat)
  BY EntryFacts
<1>4. is_contained(t, fs[j].entry)
  BY <1>1, <1>2, <1>3, ContainedTrans
<1> QED BY <1>2, <1>4

(***************************************************************************)
(* What is erased was not valid.                                           *)
(***************************************************************************)
LEMMA ErasedFacts ==
    ASSUME NEW es \in Seq(EntryType)
    PROVE  /\ Erased(es) \in Seq(EntryType) /\ AllValid(Erased(es))
           /\ Kept(es, Erased(es)) /\ Room(Erased(es)) <= Room(es)
<1>1. /\ Len(es) \in Nat /\ DOMAIN es = 1..Len(es)
      /\ \A k \in 1..Len(es) : es[k] \in EntryType /\ es[k].entry \in Seq(Nat)
  BY EntryFacts
<1> DEFINE kept == {i \in DOMAIN es : es[i].valid}
           before == {p \in kept \X kept : p[1] < p[2]}
           places == InOrder(kept, before)
           fs == [k \in DOMAIN places |-> es[places[k]]]
<1>2. Erased(es) = fs
  BY DEF Erased
<1>3. kept \subseteq 1..Len(es) /\ kept \subseteq Nat
  BY <1>1
<1>4. IsFiniteSet(kept)
  <2>1. IsFiniteSet(1..Len(es))
    BY <1>1, FS_Interval
  <2> QED BY <1>3, <2>1, FS_Subset
<1>5. Orders(before, kept)
  BY <1>3, IncreasingOrders
<1>6. \A p \in before : p[1] < p[2]
  OBVIOUS
<1>7. \A k \in 1..Len(es) : k \in kept <=> es[k].valid
  BY <1>1
<1> HIDE DEF before, kept
<1>8. /\ Cardinality(kept) \in Nat /\ places \in Seq(kept) /\ Len(places) = Cardinality(kept)
      /\ \A x \in kept : \E k \in 1..Cardinality(kept) : places[k] = x
      /\ \A j, k \in 1..Cardinality(kept) : j < k => <<places[j], places[k]>> \in before
  BY <1>4, <1>5, InOrderFacts
<1> DEFINE n == Cardinality(kept)
<1> HIDE DEF n
<1>9. n \in Nat /\ DOMAIN places = 1..n /\ \A k \in 1..n : places[k] \in kept
  BY <1>8, ElementOfSeq, LenProperties DEF n
<1>10. \A j, k \in 1..n : j < k => places[j] < places[k]
  BY <1>6, <1>8 DEF n
<1> HIDE DEF places
<1>11. fs = [k \in 1..n |-> es[places[k]]]
  BY <1>9
<1>12. \A k \in 1..n : /\ places[k] \in 1..Len(es) /\ es[places[k]].valid
                       /\ fs[k] = es[places[k]] /\ fs[k] \in EntryType
  BY <1>1, <1>3, <1>7, <1>9, <1>11
<1>13. fs \in Seq(EntryType) /\ Len(fs) = n /\ DOMAIN fs = 1..n
  BY <1>9, <1>11, <1>12
<1> HIDE DEF fs
<1>14. AllValid(fs)
  BY <1>12, <1>13 DEF AllValid
<1>15. Kept(es, fs)
  <2> SUFFICES ASSUME NEW k \in DOMAIN es, es[k].valid
               PROVE  \E j \in DOMAIN fs : fs[j].valid /\ is_contained(es[k].entry, fs[j].entry)
    BY DEF Kept
  <2>1. k \in kept
    BY <1>1, <1>7
  <2>2. PICK j \in 1..n : places[j] = k
    BY <1>8, <2>1 DEF n
  <2>3. fs[j] = es[k] /\ j \in DOMAIN fs
    BY <1>12, <1>13, <2>2
  <2>4. is_contained(es[k].entry, es[k].entry)
    BY <1>1, ContainedSelf
  <2> QED BY <2>3, <2>4
<1>16. Room(fs) <= Room(es)
  <2> DEFINE s == Shown(es)
             t == Shown(fs)
  <2>1. /\ s \in Seq(Seq(Nat)) /\ Len(s) = Len(es)
        /\ \A k \in 1..Len(es) : s[k] = (IF es[k].valid THEN es[k].entry ELSE <<>>)
    BY ShownFacts
  <2>2. /\ t \in Seq(Seq(Nat)) /\ Len(t) = n
        /\ \A k \in 1..n : t[k] = (IF fs[k].valid THEN fs[k].entry ELSE <<>>)
    BY <1>13, ShownFacts
  <2>3. ASSUME NEW k \in 1..n PROVE t[k] = s[places[k]]
    <3>1. places[k] \in 1..Len(es) /\ es[places[k]].valid /\ fs[k] = es[places[k]]
      BY <1>12
    <3>2. t[k] = fs[k].entry
      BY <2>2, <3>1
    <3>3. s[places[k]] = es[places[k]].entry
      BY <2>1, <3>1
    <3> QED BY <3>1, <3>2, <3>3
  <2>4. \A k \in 1..n : Len(t[k]) <= Len(s[places[k]])
    <3>1. \A k \in 1..n : t[k] \in Seq(Nat)
      BY <2>2, ElementOfSeq
    <3>2. \A k \in 1..n : Len(t[k]) \in Nat
      BY <3>1, LenProperties
    <3> QED BY <2>3, <3>2
  <2> HIDE DEF s, t
  <2> DEFINE p == [k \in 1..n |-> places[k]]
  <2>5. p \in [1..Len(t) -> 1..Len(s)] /\ \A k \in 1..Len(t) : p[k] = places[k]
    BY <1>12, <2>1, <2>2
  <2> HIDE DEF p
  <2>6. \A j, k \in 1..Len(t) : j < k => p[j] < p[k]
    BY <1>10, <2>2, <2>5
  <2>7. \A k \in 1..Len(t) : Len(t[k]) <= Len(s[p[k]])
    BY <2>2, <2>4, <2>5
  <2>8. Len(FlattenSeq(t)) <= Len(FlattenSeq(s))
    BY <2>1, <2>2, <2>5, <2>6, <2>7, SomeNotLonger
  <2> QED BY <2>8 DEF s, t, Room
<1> QED BY <1>2, <1>13, <1>14, <1>15, <1>16

\* Append by its elements.
LEMMA AppendIs ==
    ASSUME NEW T, NEW s \in Seq(T), NEW x \in T, NEW t \in Seq(T),
           Len(t) = Len(s) + 1, t[Len(s) + 1] = x, \A k \in 1..Len(s) : t[k] = s[k]
    PROVE  t = Append(s, x)
<1> DEFINE w == Append(s, x)
<1>1. w \in Seq(T) /\ Len(w) = Len(s) + 1
  BY AppendProperties
<1>2. w[Len(s) + 1] = x
  BY AppendProperties
<1>3. \A k \in 1..Len(s) : w[k] = s[k]
  BY AppendProperties
<1> HIDE DEF w
<1>4. \A n \in Nat : \A q \in 1..(n + 1) : q # n + 1 => q \in 1..n
  OBVIOUS
<1>5. Len(s) \in Nat
  BY LenProperties
<1>6. \A k \in 1..Len(t) : t[k] = w[k]
  BY <1>2, <1>3, <1>4, <1>5
<1>7. t = w
  BY <1>1, <1>6, SeqEqual
<1> QED BY <1>7 DEF w

(***************************************************************************)
(* The right one of two overlapping entries is appended to the left one.   *)
(***************************************************************************)
LEMMA AppendedFacts ==
    ASSUME NEW es \in Seq(EntryType), NEW i \in 1..Len(es), NEW j \in 1..Len(es), i # j,
           es[i].valid, es[j].valid, NEW l, Overlaid(es[i].entry, es[j].entry, l),
           NEW node, node = es[i].entry \o SubSeq(es[j].entry, l + 1, Len(es[j].entry)),
           NEW fs \in Seq(EntryType), Len(fs) = Len(es),
           \A k \in 1..Len(es) : k \notin {i, j} => fs[k] = es[k],
           fs[i].valid, fs[i].entry = node, ~fs[j].valid
    PROVE  Kept(es, fs) /\ Room(fs) <= Room(es)
<1>1. /\ Len(es) \in Nat /\ DOMAIN es = 1..Len(es)
      /\ \A k \in 1..Len(es) : es[k].entry \in Seq(Nat) /\ Len(es[k].entry) \in Nat
  BY EntryFacts
<1>2. DOMAIN fs = 1..Len(es)
  BY LenProperties
<1> DEFINE a == es[i].entry
           b == es[j].entry
<1>3. a \in Seq(Nat) /\ b \in Seq(Nat) /\ Len(a) \in Nat /\ Len(b) \in Nat
  BY <1>1
<1>4. Overlaid(a, b, l) /\ node = a \o SubSeq(b, l + 1, Len(b))
  OBVIOUS
<1> HIDE DEF a, b
<1>5. /\ node \in Seq(Nat) /\ Len(node) = Len(a) + Len(b) - l
      /\ is_contained(a, node) /\ is_contained(b, node)
  <2> DEFINE m == a \o SubSeq(b, l + 1, Len(b))
  <2>1. /\ m \in Seq(Nat) /\ Len(m) = Len(a) + Len(b) - l
        /\ is_contained(a, m) /\ is_contained(b, m)
    BY <1>3, <1>4, MergedContains
  <2>2. node = m
    BY <1>4
  <2> HIDE DEF m
  <2> QED BY <2>1, <2>2
<1>6. l \in Nat
  BY <1>3, <1>4 DEF Overlaid
<1>7. Kept(es, fs)
  <2> SUFFICES ASSUME NEW k \in 1..Len(es), es[k].valid
               PROVE  \E m \in 1..Len(es) : fs[m].valid /\ is_contained(es[k].entry, fs[m].entry)
    BY <1>1, <1>2 DEF Kept
  <2>1. CASE k = i
    BY <1>5, <2>1 DEF a
  <2>2. CASE k = j
    BY <1>5, <2>2 DEF b
  <2>3. CASE k \notin {i, j}
    <3>1. fs[k] = es[k]
      BY <2>3
    <3>2. is_contained(es[k].entry, es[k].entry)
      BY <1>1, ContainedSelf
    <3> QED BY <3>1, <3>2
  <2> QED BY <2>1, <2>2, <2>3
<1>8. Room(fs) <= Room(es)
  <2> DEFINE s == Shown(es)
             t == Shown(fs)
  <2>1. /\ s \in Seq(Seq(Nat)) /\ Len(s) = Len(es)
        /\ \A k \in 1..Len(es) : s[k] = (IF es[k].valid THEN es[k].entry ELSE <<>>)
    BY ShownFacts
  <2>2. /\ t \in Seq(Seq(Nat)) /\ Len(t) = Len(es)
        /\ \A k \in 1..Len(es) : t[k] = (IF fs[k].valid THEN fs[k].entry ELSE <<>>)
    BY ShownFacts
  <2>3. s[i] = a /\ s[j] = b
    BY <2>1 DEF a, b
  <2>4. t[i] = node /\ t[j] = <<>>
    BY <2>2
  <2> HIDE DEF s, t
  <2>5. \A k \in 1..Len(s) : k \notin {i, j} => t[k] = s[k]
    BY <2>1, <2>2
  <2>6. Len(t) = Len(s) /\ i \in 1..Len(s) /\ j \in 1..Len(s)
    BY <2>1, <2>2
  <2>7. Len(FlattenSeq(t)) + Len(s[i]) + Len(s[j]) = Len(FlattenSeq(s)) + Len(t[i]) + Len(t[j])
    BY <2>1, <2>2, <2>5, <2>6, ExchangeLength
  <2>8. FlattenSeq(s) \in Seq(Nat) /\ FlattenSeq(t) \in Seq(Nat)
    BY <2>1, <2>2, FlattenFacts
  <2>9. Len(FlattenSeq(s)) \in Nat /\ Len(FlattenSeq(t)) \in Nat /\ Len(<<>>) = 0
    BY <2>8, LenProperties
  <2>10. Len(FlattenSeq(t)) + Len(a) + Len(b) = Len(FlattenSeq(s)) + Len(node) + 0
    BY <2>3, <2>4, <2>7, <2>9
  <2> DEFINE x == Len(FlattenSeq(s))
             y == Len(FlattenSeq(t))
  <2>11. x \in Nat /\ y \in Nat /\ y + Len(a) + Len(b) = x + (Len(a) + Len(b) - l)
    BY <1>5, <2>9, <2>10
  <2> HIDE DEF x, y
  <2>12. y <= x
    BY <1>3, <1>6, <2>11
  <2> QED BY <2>12 DEF x, y, s, t, Room
<1> QED BY <1>7, <1>8

(***************************************************************************)
(* Two overlapping entries are given up for a new one.                     *)
(***************************************************************************)
LEMMA ReplacedFacts ==
    ASSUME NEW es \in Seq(EntryType), NEW i \in 1..Len(es), NEW j \in 1..Len(es), i # j,
           es[i].valid, es[j].valid, NEW l, Overlaid(es[i].entry, es[j].entry, l),
           NEW node, node = es[i].entry \o SubSeq(es[j].entry, l + 1, Len(es[j].entry)),
           NEW fs \in Seq(EntryType), Len(fs) = Len(es) + 1,
           \A k \in 1..Len(es) : k \notin {i, j} => fs[k] = es[k],
           ~fs[i].valid, ~fs[j].valid, fs[Len(es) + 1].valid, fs[Len(es) + 1].entry = node
    PROVE  Kept(es, fs) /\ Room(fs) <= Room(es)
<1>1. /\ Len(es) \in Nat /\ DOMAIN es = 1..Len(es)
      /\ \A k \in 1..Len(es) : es[k].entry \in Seq(Nat) /\ Len(es[k].entry) \in Nat
  BY EntryFacts
<1>2. DOMAIN fs = 1..(Len(es) + 1)
  BY LenProperties
<1> DEFINE a == es[i].entry
           b == es[j].entry
<1>3. a \in Seq(Nat) /\ b \in Seq(Nat) /\ Len(a) \in Nat /\ Len(b) \in Nat
  BY <1>1
<1>4. Overlaid(a, b, l) /\ node = a \o SubSeq(b, l + 1, Len(b))
  OBVIOUS
<1> HIDE DEF a, b
<1>5. /\ node \in Seq(Nat) /\ Len(node) = Len(a) + Len(b) - l
      /\ is_contained(a, node) /\ is_contained(b, node)
  <2> DEFINE m == a \o SubSeq(b, l + 1, Len(b))
  <2>1. /\ m \in Seq(Nat) /\ Len(m) = Len(a) + Len(b) - l
        /\ is_contained(a, m) /\ is_contained(b, m)
    BY <1>3, <1>4, MergedContains
  <2>2. node = m
    BY <1>4
  <2> HIDE DEF m
  <2> QED BY <2>1, <2>2
<1>6. l \in Nat
  BY <1>3, <1>4 DEF Overlaid
<1>7. Kept(es, fs)
  <2> SUFFICES ASSUME NEW k \in 1..Len(es), es[k].valid
               PROVE  \E m \in 1..(Len(es) + 1) : fs[m].valid /\ is_contained(es[k].entry, fs[m].entry)
    BY <1>1, <1>2 DEF Kept
  <2>0. Len(es) + 1 \in 1..(Len(es) + 1) /\ k \in 1..(Len(es) + 1)
    BY <1>1
  <2>1. CASE k = i
    BY <1>5, <2>0, <2>1 DEF a
  <2>2. CASE k = j
    BY <1>5, <2>0, <2>2 DEF b
  <2>3. CASE k \notin {i, j}
    <3>1. fs[k] = es[k]
      BY <2>3
    <3>2. is_contained(es[k].entry, es[k].entry)
      BY <1>1, ContainedSelf
    <3> QED BY <2>0, <3>1, <3>2
  <2> QED BY <2>1, <2>2, <2>3
<1>8. Room(fs) <= Room(es)
  <2> DEFINE s == Shown(es)
             u == [s EXCEPT ![i] = <<>>, ![j] = <<>>]
             t == Shown(fs)
  <2>1. /\ s \in Seq(Seq(Nat)) /\ Len(s) = Len(es)
        /\ \A k \in 1..Len(es) : s[k] = (IF es[k].valid THEN es[k].entry ELSE <<>>)
    BY ShownFacts
  <2>2. /\ t \in Seq(Seq(Nat)) /\ Len(t) = Len(es) + 1
        /\ \A k \in 1..(Len(es) + 1) : t[k] = (IF fs[k].valid THEN fs[k].entry ELSE <<>>)
    BY ShownFacts
  <2>3. s[i] = a /\ s[j] = b
    BY <2>1 DEF a, b
  <2> HIDE DEF s, t
  <2>4. /\ u \in Seq(Seq(Nat)) /\ Len(u) = Len(s)
        /\ u[i] = <<>> /\ u[j] = <<>> /\ \A k \in 1..Len(s) : k \notin {i, j} => u[k] = s[k]
    <3> DEFINE T == Seq(Nat)
               v == [s EXCEPT ![i] = <<>>]
    <3>1. <<>> \in T /\ s \in Seq(T)
      BY <2>1, EmptySeq
    <3> HIDE DEF T
    <3>2. v \in Seq(T) /\ Len(v) = Len(s) /\ \A k \in 1..Len(s) : v[k] = IF k = i THEN <<>> ELSE s[k]
      BY <2>1, <3>1, ExceptSeq
    <3>3. u = [v EXCEPT ![j] = <<>>]
      OBVIOUS
    <3> HIDE DEF u, v
    <3>4. u \in Seq(T) /\ Len(u) = Len(v) /\ \A k \in 1..Len(v) : u[k] = IF k = j THEN <<>> ELSE v[k]
      BY <2>1, <3>1, <3>2, <3>3, ExceptSeq
    <3> QED BY <2>1, <3>2, <3>4 DEF T
  <2> HIDE DEF u
  <2>5. Len(FlattenSeq(u)) + Len(s[i]) + Len(s[j]) = Len(FlattenSeq(s)) + Len(u[i]) + Len(u[j])
    <3>1. i \in 1..Len(s) /\ j \in 1..Len(s)
      BY <2>1
    <3>2. /\ s \in Seq(Seq(Nat)) /\ u \in Seq(Seq(Nat)) /\ Len(u) = Len(s)
          /\ \A k \in 1..Len(s) : k \notin {i, j} => u[k] = s[k]
      BY <2>1, <2>4
    <3> QED BY <3>1, <3>2, ExchangeLength
  <2>6. t = Append(u, node)
    <3> DEFINE T == Seq(Nat)
    <3>1. u \in Seq(T) /\ node \in T /\ t \in Seq(T)
      BY <1>5, <2>2, <2>4
    <3> HIDE DEF T
    <3>2. Len(u) = Len(es) /\ Len(t) = Len(u) + 1
      BY <2>1, <2>2, <2>4
    <3>3. t[Len(u) + 1] = node
      <4>1. Len(es) + 1 \in 1..(Len(es) + 1)
        BY <1>1
      <4> QED BY <2>2, <3>2, <4>1
    <3>4. ASSUME NEW k \in 1..Len(u) PROVE t[k] = u[k]
      <4>1. k \in 1..Len(es) /\ k \in 1..(Len(es) + 1)
        BY <1>1, <3>2
      <4>2. CASE k \in {i, j}
        <5>1. ~fs[k].valid /\ u[k] = <<>>
          BY <2>4, <4>2
        <5> QED BY <2>2, <4>1, <5>1
      <4>3. CASE k \notin {i, j}
        <5>1. fs[k] = es[k] /\ u[k] = s[k]
          BY <2>1, <2>4, <4>1, <4>3
        <5> QED BY <2>1, <2>2, <4>1, <5>1
      <4> QED BY <4>2, <4>3
    <3> QED BY <3>1, <3>2, <3>3, <3>4, AppendIs
  <2>7. Len(FlattenSeq(t)) = Len(FlattenSeq(u)) + Len(node)
    BY <1>5, <2>4, <2>6, AppendLength
  <2>8. FlattenSeq(s) \in Seq(Nat) /\ FlattenSeq(t) \in Seq(Nat) /\ FlattenSeq(u) \in Seq(Nat)
    BY <2>1, <2>2, <2>4, FlattenFacts
  <2>9. Len(FlattenSeq(s)) \in Nat /\ Len(FlattenSeq(u)) \in Nat /\ Len(<<>>) = 0
    BY <2>8, LenProperties
  <2>10. Len(FlattenSeq(u)) + Len(a) + Len(b) = Len(FlattenSeq(s))
    <3>1. Len(u[i]) = 0 /\ Len(u[j]) = 0
      BY <2>4, <2>9
    <3> QED BY <2>3, <2>5, <2>9, <3>1
  <2> DEFINE x == Len(FlattenSeq(s))
             y == Len(FlattenSeq(u))
             z == Len(FlattenSeq(t))
  <2>11. x \in Nat /\ y \in Nat /\ y + Len(a) + Len(b) = x /\ z = y + (Len(a) + Len(b) - l)
    BY <1>5, <2>7, <2>9, <2>10
  <2> HIDE DEF x, y, z
  <2>12. z <= x
    BY <1>3, <1>6, <2>11
  <2> QED BY <2>12 DEF x, z, s, t, Room
<1> QED BY <1>7, <1>8

\* A step that takes no more room stays within the budget.
LEMMA BudgetFacts ==
    ASSUME NEW es \in Seq(EntryType), NEW fs \in Seq(EntryType), Room(fs) <= Room(es),
           NEW targets, targets \subseteq Seq(Nat), IsFiniteSet(targets), Room(es) <= Budget(targets)
    PROVE  Room(fs) <= Budget(targets)
<1>1. Shown(es) \in Seq(Seq(Nat)) /\ Shown(fs) \in Seq(Seq(Nat)) /\ Sorted(targets) \in Seq(Seq(Nat))
  BY ShownFacts, SortedNotLonger
<1>2. /\ FlattenSeq(Shown(es)) \in Seq(Nat) /\ FlattenSeq(Shown(fs)) \in Seq(Nat)
      /\ FlattenSeq(Sorted(targets)) \in Seq(Nat)
  BY <1>1, FlattenFacts
<1>3. Room(es) \in Nat /\ Room(fs) \in Nat /\ Budget(targets) \in Nat
  BY <1>2, LenProperties DEF Room, Budget
<1> QED BY <1>3

-----------------------------------------------------------------------------
(* The inductive invariant.                                                *)

Types ==
    /\ pc \in {"append", "overlaps", "merge", "single", "table", "offsets", "ready"}
    /\ stats \in Statistics
    /\ dict \in 1..(NumDicts + 1) /\ next \in Nat \ {0} /\ cur \in Nat \ {0}
    /\ m_size \in Nat /\ padded \in BOOLEAN
    /\ m_targets \in [1..NumDicts -> Seq(Target)]
    /\ entries \in Seq(EntryType)
    /\ overlaps \subseteq [left : DOMAIN entries, right : DOMAIN entries, overlap : Nat]
    /\ m_table \in Seq(Nat)
    /\ m_offsets \in Seq([size : Nat, offset : Nat]) /\ m_start_offsets \in Seq(Nat)

\* A dictionary has no more targets than blocks were looked at.
Appended ==
    /\ \A d \in 1..NumDicts : Len(m_targets[d]) <= NumEntries
    /\ pc = "append" =>
        /\ \A d \in 1..NumDicts : d > dict => m_targets[d] = <<>>
        /\ dict <= NumDicts => Len(m_targets[dict]) < next

\* c[d] targets are in the first d dictionaries.
Sized(c) == m_size = reserved + c[NumDicts] /\ m_size <= NumDicts * NumEntries

\* The first dict - 1 dictionaries have their offsets.
Started(c) ==
    IF pc \in {"offsets", "ready"}
    THEN /\ Len(m_start_offsets) = dict - 1
         /\ Len(m_offsets) = (dict - 1) * reserved + c[dict - 1]
         /\ \A d \in 1..(dict - 1) : m_start_offsets[d] = (d - 1) * reserved + c[d - 1]
    ELSE m_offsets = <<>> /\ m_start_offsets = <<>>

Counted == \E c : Lengths(m_targets, c) /\ Sized(c) /\ Started(c)

\* A queued overlap of two entries that are valid is one of their overlaps.
Queued(es, queue) ==
    \A o \in queue :
        /\ o.left # o.right
        /\ es[o.left].valid /\ es[o.right].valid =>
              Overlaid(es[o.left].entry, es[o.right].entry, o.overlap)

Compacted ==
    /\ pc \in {"overlaps", "merge", "single", "table"} => 
            Reaches(AllTargets, entries) /\ Room(entries) <= Budget(AllTargets)
    /\ pc \in {"overlaps", "table"} => AllValid(entries)
    /\ pc # "merge" => overlaps = {}
    /\ Queued(entries, overlaps)

Tabled ==
    IF pc \in {"offsets", "ready"}
    THEN /\ Len(m_table) >= MaxEntrySize /\ \A i \in 1..MaxEntrySize : m_table[i] = 0
         /\ \A t \in AllTargets : is_contained(t, m_table)
         /\ Len(m_table) <= (IF padded THEN 2 ELSE 1) * MaxEntrySize + Budget(AllTargets)
    ELSE m_table = Zeros(MaxEntrySize) /\ ~padded

\* An entry e says where t is in a table.
LaidAt(table, e, t) ==
    /\ e.size = Len(t) /\ e.offset \in Nat /\ e.offset + Len(t) <= Len(table)
    /\ \A x \in 1..Len(t) : table[e.offset + x] = t[x]

Laid ==
    pc \in {"offsets", "ready"} => \A d \in 1..(dict - 1) :
        /\ \A i \in EXCEPTIONS..(reserved - 1) : OffsetAt(d, i) = [size |-> Runs[i - EXCEPTIONS + 1], offset |-> 0]
        /\ \A k \in 1..Len(m_targets[d]) : LaidAt(m_table, OffsetAt(d, reserved + k - 1), m_targets[d][k])

MapsMade ==
    pc = "ready" =>
        /\ dict = NumDicts + 1
        /\ m_maps = [d \in 1..NumDicts |->
                        [wide |-> MapOf(d, Mapped(d)),
                         narrow |-> MapOf(d, {i \in Mapped(d) : i < reserved \/ i < SmallEntries})]]

IInv == Types /\ Appended /\ Counted /\ Compacted /\ Tabled /\ Laid /\ MapsMade

-----------------------------------------------------------------------------
(* Constants.                                                              *)

\* What a run of zeros is.
LEMMA ZerosFacts ==
    ASSUME NEW n \in Nat
    PROVE  /\ Zeros(n) \in Seq(Nat) /\ Len(Zeros(n)) = n
           /\ \A i \in 1..n : Zeros(n)[i] = 0
BY DEF Zeros

\* Multiples, as the positions of the reserved entries need them.
LEMMA Products ==
    ASSUME NEW a \in Nat, NEW b \in Nat, NEW r \in Nat
    PROVE  /\ a * r \in Nat /\ (a + 1) * r = a * r + r
           /\ 0 * r = 0 /\ 1 * r = r
           /\ a <= b => a * r <= b * r
<1>1. a * r \in Nat /\ (a + 1) * r = a * r + r /\ 0 * r = 0 /\ 1 * r = r
  OBVIOUS
<1>2. ASSUME a <= b PROVE a * r <= b * r
  <2> DEFINE c == b - a
  <2>1. c \in Nat /\ b = a + c
    BY <1>2
  <2> HIDE DEF c
  <2>2. (a + c) * r = a * r + c * r /\ c * r \in Nat
    BY <2>1
  <2> QED BY <1>1, <2>1, <2>2
<1> QED BY <1>1, <1>2

(***************************************************************************)
(* The reserved codewords are some of the narrow ones.                     *)
(***************************************************************************)
LEMMA ConstantsFacts ==
    ASSUME Assumptions
    PROVE  /\ NumDicts \in Nat \ {0} /\ MaxEntrySize \in Nat \ {0}
           /\ Runs \in Seq(Nat \ {0}) /\ Len(Runs) \in Nat
           /\ NumEntries \in Nat /\ SmallEntries \in Nat /\ SmallEntries <= NumEntries
           /\ EXCEPTIONS = 2 /\ reserved = Len(Runs) + 2 /\ reserved \in Nat /\ reserved < SmallEntries
           /\ reserved <= NumEntries /\ NumEntries <= NumDicts * NumEntries /\ NumDicts * NumEntries \in Nat
           /\ \A r \in 1..Len(Runs) : Runs[r] \in Nat \ {0}
<1>1. /\ NumDicts \in Nat \ {0} /\ MaxEntrySize \in Nat \ {0}
      /\ Runs \in Seq(Nat \ {0})
      /\ NumEntries \in Nat /\ SmallEntries \in Nat /\ SmallEntries <= NumEntries
      /\ Len(Runs) + 2 < SmallEntries
  BY DEF Assumptions, DictsAssumption, RunsAssumption, EntriesAssumption
<1>2. Len(Runs) \in Nat /\ \A r \in 1..Len(Runs) : Runs[r] \in Nat \ {0}
  BY <1>1, LenProperties, ElementOfSeq
<1>3. EXCEPTIONS = 2 /\ reserved = Len(Runs) + 2 /\ reserved \in Nat
  BY <1>2 DEF reserved, EXCEPTIONS
<1>4. reserved < SmallEntries /\ reserved <= NumEntries
  BY <1>1, <1>2, <1>3
<1>5. 1 * NumEntries = NumEntries /\ 1 * NumEntries <= NumDicts * NumEntries /\ NumDicts * NumEntries \in Nat
  <2>1. 1 <= NumDicts /\ 1 \in Nat /\ NumDicts \in Nat
    BY <1>1
  <2> QED BY <1>1, <2>1, Products
<1> QED BY <1>1, <1>2, <1>3, <1>4, <1>5

\* What the targets of the dictionaries are.
LEMMA TargetsFacts ==
    ASSUME Assumptions, NEW targets \in [1..NumDicts -> Seq(Target)]
    PROVE  /\ targets \in Seq(Seq(Target)) /\ Len(targets) = NumDicts
           /\ \A d \in 1..NumDicts : targets[d] \in Seq(Target) /\ Len(targets[d]) \in Nat
           /\ \A d \in 1..NumDicts : \A k \in 1..Len(targets[d]) :
                /\ targets[d][k] \in Target /\ targets[d][k] \in Seq(Nat)
                /\ Len(targets[d][k]) \in 1..MaxEntrySize /\ Len(targets[d][k]) \in Nat
<1>1. NumDicts \in Nat
  BY ConstantsFacts
<1> DEFINE T == Seq(Target)
<1>2. targets \in [1..NumDicts -> T]
  OBVIOUS
<1> HIDE DEF T
<1>3. targets \in Seq(T) /\ Len(targets) = NumDicts
  BY <1>1, <1>2
<1>4. \A d \in 1..NumDicts : targets[d] \in T
  BY <1>2
<1> USE DEF T
<1>5. \A d \in 1..NumDicts : targets[d] \in Seq(Target) /\ Len(targets[d]) \in Nat
  BY <1>4, LenProperties
<1>6. \A d \in 1..NumDicts : \A k \in 1..Len(targets[d]) : targets[d][k] \in Target
  BY <1>5, ElementOfSeq
<1>7. \A t \in Target : t \in Seq(Nat) /\ Len(t) \in 1..MaxEntrySize /\ Len(t) \in Nat
  BY LenProperties DEF Target
<1> QED BY <1>3, <1>5, <1>6, <1>7

-----------------------------------------------------------------------------
(* It is inductive.                                                        *)

\* An empty dictionary, with zeros at the beginning of its table.
LEMMA InitHolds ==
    ASSUME Assumptions, Init PROVE IInv
<1>1. /\ pc = "append" /\ stats \in Statistics /\ dict = 1 /\ next = 1 /\ m_size = reserved
      /\ m_targets = [d \in 1..NumDicts |-> <<>>] /\ entries = <<>> /\ overlaps = {} /\ cur = 1
      /\ m_table = Zeros(MaxEntrySize) /\ m_offsets = <<>> /\ m_start_offsets = <<>> /\ padded = FALSE
  BY DEF Init
<1>2. /\ NumDicts \in Nat \ {0} /\ MaxEntrySize \in Nat \ {0} /\ NumEntries \in Nat
      /\ reserved \in Nat /\ reserved <= NumEntries /\ NumEntries <= NumDicts * NumEntries
      /\ NumDicts * NumEntries \in Nat
  BY ConstantsFacts
<1>3. \A d \in 1..NumDicts : m_targets[d] = <<>> /\ Len(m_targets[d]) = 0
  BY <1>1
<1>4. Types
  <2>1. m_targets \in [1..NumDicts -> Seq(Target)]
    BY <1>1, EmptySeq
  <2>2. entries \in Seq(EntryType) /\ m_offsets \in Seq([size : Nat, offset : Nat]) /\ m_start_offsets \in Seq(Nat)
    BY <1>1, EmptySeq
  <2>3. m_table \in Seq(Nat)
    BY <1>1, <1>2, ZerosFacts
  <2>4. dict \in 1..(NumDicts + 1) /\ next \in Nat \ {0} /\ cur \in Nat \ {0} /\ m_size \in Nat
    BY <1>1, <1>2
  <2>5. overlaps \subseteq [left : DOMAIN entries, right : DOMAIN entries, overlap : Nat]
    BY <1>1
  <2> QED BY <1>1, <2>1, <2>2, <2>3, <2>4, <2>5, Zenon DEF Types
<1>5. Appended
  BY <1>1, <1>2, <1>3 DEF Appended
<1>6. Counted
  <2> DEFINE c == [d \in 0..NumDicts |-> 0]
  <2>1. Lengths(m_targets, c)
    <3>1. Len(m_targets) = NumDicts
      BY <1>4, TargetsFacts DEF Types
    <3> QED BY <1>2, <1>3, <3>1 DEF Lengths
  <2>2. Sized(c)
    <3>1. c[NumDicts] = 0
      BY <1>2
    <3> HIDE DEF c
    <3> QED BY <1>1, <1>2, <3>1 DEF Sized
  <2>3. Started(c)
    BY <1>1 DEF Started
  <2> QED BY <2>1, <2>2, <2>3 DEF Counted
<1>7. Compacted
  BY <1>1 DEF Compacted, Queued
<1>8. Tabled
  BY <1>1 DEF Tabled
<1>9. Laid /\ MapsMade
  BY <1>1 DEF Laid, MapsMade
<1> QED BY <1>4, <1>5, <1>6, <1>7, <1>8, <1>9 DEF IInv

(***************************************************************************)
(* What an action leaves alone stays as it is.                             *)
(***************************************************************************)
LEMMA SameCounted ==
    ASSUME Counted, UNCHANGED <<m_targets, m_size, m_offsets, m_start_offsets>>,
           pc \in {"offsets", "ready"} <=> pc' \in {"offsets", "ready"},
           pc \in {"offsets", "ready"} => dict' = dict
    PROVE  Counted'
<1>1. PICK c : Lengths(m_targets, c) /\ Sized(c) /\ Started(c)
  BY DEF Counted
<1>2. Lengths(m_targets', c)
  BY <1>1
<1>3. Sized(c)'
  BY <1>1 DEF Sized
<1>4. Started(c)'
  BY <1>1 DEF Started
<1> QED BY <1>2, <1>3, <1>4 DEF Counted

\* The table and the targets are as they were.
LEMMA SameTabled ==
    ASSUME Tabled, UNCHANGED <<m_targets, m_table, padded>>,
           pc \in {"offsets", "ready"} <=> pc' \in {"offsets", "ready"}
    PROVE  Tabled'
<1>1. AllTargets' = AllTargets
  BY DEF AllTargets
<1> QED BY <1>1 DEF Tabled

\* The variables that append() writes, and the offsets, are as they were.
LEMMA SameTypes ==
    ASSUME Types, UNCHANGED <<stats, m_targets, m_offsets, m_start_offsets, m_size>>,
           pc' \in {"append", "overlaps", "merge", "single", "table", "offsets", "ready"},
           dict' \in 1..(NumDicts + 1), next' \in Nat \ {0}, cur' \in Nat \ {0}, padded' \in BOOLEAN,
           entries' \in Seq(EntryType), m_table' \in Seq(Nat),
           overlaps' \subseteq [left : DOMAIN entries', right : DOMAIN entries', overlap : Nat]
    PROVE  Types'
BY Zenon DEF Types

\* append(): the dictionary that is looked at gets a target, or is full.
LEMMA Append1Holds ==
    ASSUME Assumptions, IInv, Append1 PROVE IInv'
<1>1. /\ pc = "append" /\ dict <= NumDicts /\ next <= Offered(dict) /\ next' = next + 1
      /\ UNCHANGED <<pc, stats, dict, entries, overlaps, cur, m_table, m_offsets, m_start_offsets, m_maps, padded>>
      /\ IF full THEN UNCHANGED <<m_targets, m_size>>
         ELSE /\ m_targets' = [m_targets EXCEPT ![dict] = Append(@, stats[dict][next])]
              /\ m_size' = m_size + 1
  BY DEF Append1
<1>2. Types /\ Appended /\ Counted /\ Compacted /\ Tabled
  BY DEF IInv
<1>3. /\ stats \in Statistics /\ dict \in 1..(NumDicts + 1) /\ next \in Nat \ {0} /\ cur \in Nat \ {0}
      /\ m_size \in Nat /\ padded \in BOOLEAN /\ m_targets \in [1..NumDicts -> Seq(Target)]
  BY <1>2 DEF Types
<1>4. /\ NumDicts \in Nat \ {0} /\ MaxEntrySize \in Nat \ {0} /\ NumEntries \in Nat
      /\ reserved \in Nat /\ NumDicts * NumEntries \in Nat
  BY ConstantsFacts
<1>5. dict \in 1..NumDicts /\ next' \in Nat \ {0}
  BY <1>1, <1>3, <1>4
<1>6. /\ \A d \in 1..NumDicts : m_targets[d] \in Seq(Target) /\ Len(m_targets[d]) \in Nat
      /\ m_targets \in Seq(Seq(Target)) /\ Len(m_targets) = NumDicts
  BY <1>3, TargetsFacts
<1>7. /\ next <= NumEntries /\ next \in 1..Len(stats[dict])
      /\ stats[dict][next] \in Target
  <2>1. /\ stats[dict] \in Seq(Seq(Nat))
        /\ \A b \in DOMAIN stats[dict] : Len(stats[dict][b]) \in 1..MaxEntrySize
    BY <1>3, <1>5 DEF Assumptions, StatisticsAssumption
  <2>2. Len(stats[dict]) \in Nat /\ DOMAIN stats[dict] = 1..Len(stats[dict])
    BY <2>1, LenProperties
  <2> DEFINE L == {NumEntries, Len(stats[dict])}
  <2>3. L \subseteq Nat /\ L # {}
    BY <1>4, <2>2
  <2>4. Least(L) \in L /\ \A y \in L : Least(L) <= y
    BY <2>3, LeastFacts
  <2>5. Offered(dict) = Least(L)
    BY DEF Offered
  <2>6. NumEntries \in L /\ Len(stats[dict]) \in L
    OBVIOUS
  <2> HIDE DEF L
  <2>7. next <= NumEntries /\ next <= Len(stats[dict])
    <3>1. Least(L) <= NumEntries /\ Least(L) <= Len(stats[dict]) /\ Least(L) \in Nat
      BY <2>3, <2>4, <2>6
    <3>2. next <= Least(L)
      BY <1>1, <2>5
    <3> QED BY <1>3, <1>4, <2>2, <3>1, <3>2
  <2>8. next \in 1..Len(stats[dict])
    BY <1>3, <2>2, <2>7
  <2>9. stats[dict][next] \in Seq(Nat)
    BY <2>1, <2>8, ElementOfSeq
  <2>10. Len(stats[dict][next]) \in 1..MaxEntrySize
    BY <2>1, <2>2, <2>8
  <2> QED BY <2>7, <2>8, <2>9, <2>10 DEF Target
<1>8. m_targets' \in [1..NumDicts -> Seq(Target)] /\ m_size' \in Nat
  <2>1. CASE full
    BY <1>1, <1>3, <2>1
  <2>2. CASE ~full
    <3>1. Append(m_targets[dict], stats[dict][next]) \in Seq(Target)
      BY <1>5, <1>6, <1>7, AppendProperties
    <3>2. m_targets' = [m_targets EXCEPT ![dict] = Append(m_targets[dict], stats[dict][next])]
      BY <1>1, <2>2
    <3> QED BY <1>1, <1>3, <2>2, <3>1, <3>2
  <2> QED BY <2>1, <2>2
<1>9. \A d \in 1..NumDicts :
        Len(m_targets'[d]) = IF d = dict /\ ~full THEN Len(m_targets[d]) + 1 ELSE Len(m_targets[d])
  <2>1. CASE full
    BY <1>1, <2>1
  <2>2. CASE ~full
    <3>1. Len(Append(m_targets[dict], stats[dict][next])) = Len(m_targets[dict]) + 1
      BY <1>5, <1>6, <1>7, AppendProperties
    <3>2. m_targets' = [m_targets EXCEPT ![dict] = Append(m_targets[dict], stats[dict][next])]
      BY <1>1, <2>2
    <3>3. \A d \in 1..NumDicts : d # dict => m_targets'[d] = m_targets[d]
      BY <1>3, <3>2
    <3>4. m_targets'[dict] = Append(m_targets[dict], stats[dict][next])
      BY <1>3, <1>5, <3>2
    <3> QED BY <2>2, <3>1, <3>3, <3>4
  <2> QED BY <2>1, <2>2
<1>10. \A d \in 1..NumDicts : d # dict => m_targets'[d] = m_targets[d]
  <2>1. CASE full
    BY <1>1, <2>1
  <2>2. CASE ~full
    BY <1>1, <1>3, <2>2
  <2> QED BY <2>1, <2>2
<1>11. Types'
  BY <1>1, <1>2, <1>5, <1>8 DEF Types
<1>12. Appended'
  <2>1. Len(m_targets[dict]) < next /\ \A d \in 1..NumDicts : Len(m_targets[d]) <= NumEntries
    BY <1>1, <1>2 DEF Appended
  <2>2. Len(m_targets'[dict]) < next' /\ Len(m_targets'[dict]) <= NumEntries
    <3>1. Len(m_targets'[dict]) \in {Len(m_targets[dict]), Len(m_targets[dict]) + 1}
      BY <1>5, <1>9
    <3>2. Len(m_targets[dict]) \in Nat
      BY <1>5, <1>6
    <3> DEFINE x == Len(m_targets[dict])
               y == Len(m_targets'[dict])
    <3>3. x \in Nat /\ y \in {x, x + 1} /\ x < next
      BY <2>1, <3>1, <3>2
    <3> HIDE DEF x, y
    <3>4. y < next' /\ y <= NumEntries
      BY <1>1, <1>3, <1>4, <1>7, <3>3
    <3> QED BY <3>4 DEF y
  <2>3. \A d \in 1..NumDicts : Len(m_targets'[d]) <= NumEntries
    BY <1>10, <2>1, <2>2
  <2>4. \A d \in 1..NumDicts : d > dict => m_targets'[d] = <<>>
    <3>1. \A d \in 1..NumDicts : d > dict => m_targets[d] = <<>> /\ d # dict
      BY <1>1, <1>2, <1>3 DEF Appended
    <3> QED BY <1>10, <3>1
  <2> QED BY <1>1, <2>2, <2>3, <2>4 DEF Appended
<1>13. Counted'
  <2>1. PICK c : Lengths(m_targets, c) /\ Sized(c) /\ Started(c)
    BY <1>2 DEF Counted
  <2>2. CASE full
    <3>1. UNCHANGED <<m_targets, m_size, m_offsets, m_start_offsets>> /\ pc' = pc /\ dict' = dict
      BY <1>1, <2>2
    <3> QED BY <1>2, <3>1, SameCounted
  <2>3. CASE ~full
    <3>0. PICK e : e = [d \in 0..NumDicts |-> IF d >= dict THEN c[d] + 1 ELSE c[d]]
      OBVIOUS
    <3>1. /\ c \in [0..NumDicts -> Nat] /\ c[0] = 0
          /\ \A d \in 1..NumDicts : c[d] = c[d - 1] + Len(m_targets[d])
      BY <1>6, <2>1 DEF Lengths
    <3>2. Len(m_targets') = NumDicts
      BY <1>8, TargetsFacts
    <3>3. e \in [0..NumDicts -> Nat] /\ e[0] = 0
      BY <1>3, <1>4, <3>0, <3>1
    <3>4. ASSUME NEW d \in 1..NumDicts PROVE e[d] = e[d - 1] + Len(m_targets'[d])
      <4>1. /\ d \in 0..NumDicts /\ d - 1 \in 0..NumDicts /\ c[d] \in Nat /\ c[d - 1] \in Nat
            /\ Len(m_targets[d]) \in Nat /\ c[d] = c[d - 1] + Len(m_targets[d])
        BY <1>4, <1>6, <3>1
      <4>2. e[d] = (IF d >= dict THEN c[d] + 1 ELSE c[d])
            /\ e[d - 1] = (IF d - 1 >= dict THEN c[d - 1] + 1 ELSE c[d - 1])
        BY <3>0, <4>1
      <4>3. Len(m_targets'[d]) = IF d = dict THEN Len(m_targets[d]) + 1 ELSE Len(m_targets[d])
        BY <1>9, <2>3
      <4> DEFINE u == c[d]  v == c[d - 1]  x == Len(m_targets[d])  y == Len(m_targets'[d])
                 a == e[d]  b == e[d - 1]
      <4>4. /\ u \in Nat /\ v \in Nat /\ x \in Nat /\ u = v + x
            /\ a = (IF d >= dict THEN u + 1 ELSE u) /\ b = (IF d - 1 >= dict THEN v + 1 ELSE v)
            /\ y = IF d = dict THEN x + 1 ELSE x
        BY <4>1, <4>2, <4>3
      <4> HIDE DEF u, v, x, y, a, b
      <4>5. a = b + y
        BY <1>5, <4>4
      <4> QED BY <4>5 DEF a, b, y
    <3>5. e[NumDicts] = c[NumDicts] + 1
      BY <1>4, <1>5, <3>0
    <3>6. Lengths(m_targets', e)
      BY <3>2, <3>3, <3>4 DEF Lengths
    <3>7. Sized(e)'
      <4>1. c[NumDicts] \in Nat
        BY <1>4, <3>1
      <4>2. m_size' = m_size + 1 /\ m_size = reserved + c[NumDicts] /\ m_size <= NumDicts * NumEntries
        BY <1>1, <2>1, <2>3 DEF Sized
      <4>3. m_size # NumDicts * NumEntries
        BY <2>3 DEF full
      <4> DEFINE p == NumDicts * NumEntries
      <4>4. p \in Nat /\ m_size <= p /\ m_size # p
        BY <1>4, <4>2, <4>3
      <4> HIDE DEF p
      <4>5. m_size' <= p
        BY <1>3, <4>2, <4>4
      <4>6. m_size' = reserved + e[NumDicts]
        BY <1>4, <3>5, <4>1, <4>2
      <4> QED BY <4>5, <4>6 DEF Sized, p, reserved
    <3>8. Started(e)'
      BY <1>1, <2>1 DEF Started
    <3> QED BY <3>6, <3>7, <3>8 DEF Counted
  <2> QED BY <2>2, <2>3
<1>14. Compacted'
  <2>1. overlaps = {}
    BY <1>1, <1>2 DEF Compacted
  <2> QED BY <1>1, <2>1 DEF Compacted, Queued
<1>15. Tabled' /\ Laid' /\ MapsMade'
  BY <1>1, <1>2 DEF Tabled, Laid, MapsMade
<1> QED BY <1>11, <1>12, <1>13, <1>14, <1>15 DEF IInv

\* The loop goes on with the next dictionary, which is empty.
LEMMA NextDictionaryHolds ==
    ASSUME Assumptions, IInv, NextDictionary PROVE IInv'
<1>1. /\ pc = "append" /\ dict <= NumDicts /\ dict' = dict + 1 /\ next' = 1
      /\ UNCHANGED <<pc, stats, m_size, m_targets, entries, overlaps, cur, m_table, m_offsets,
                     m_start_offsets, m_maps, padded>>
  BY DEF NextDictionary
<1>2. Types /\ Appended /\ Counted /\ Compacted /\ Tabled
  BY DEF IInv
<1>3. dict \in 1..(NumDicts + 1) /\ m_targets \in [1..NumDicts -> Seq(Target)]
  BY <1>2 DEF Types
<1>4. NumDicts \in Nat
  BY ConstantsFacts
<1>5. dict' \in 1..(NumDicts + 1) /\ next' \in Nat \ {0}
  BY <1>1, <1>3, <1>4
<1>6. Types'
  BY <1>1, <1>2, <1>5 DEF Types
<1>7. Appended'
  <2>1. \A d \in 1..NumDicts : d > dict => m_targets[d] = <<>>
    BY <1>1, <1>2 DEF Appended
  <2>2. \A d \in 1..NumDicts : d > dict' => d > dict
    BY <1>1, <1>3
  <2>3. dict' <= NumDicts => dict' \in 1..NumDicts /\ dict' > dict
    BY <1>1, <1>3, <1>4
  <2>4. dict' <= NumDicts => Len(m_targets[dict']) = 0
    BY <2>1, <2>3
  <2>5. \A d \in 1..NumDicts : Len(m_targets[d]) <= NumEntries
    BY <1>2 DEF Appended
  <2>6. dict' <= NumDicts => Len(m_targets'[dict']) < next'
    BY <1>1, <2>4
  <2> QED BY <1>1, <2>1, <2>2, <2>5, <2>6 DEF Appended
<1>8. Counted'
  BY <1>1, <1>2, SameCounted
<1>9. Compacted'
  <2>1. overlaps = {}
    BY <1>1, <1>2 DEF Compacted
  <2> QED BY <1>1, <2>1 DEF Compacted, Queued
<1>10. Tabled' /\ Laid' /\ MapsMade'
  BY <1>1, <1>2 DEF Tabled, Laid, MapsMade
<1> QED BY <1>6, <1>7, <1>8, <1>9, <1>10 DEF IInv

(***************************************************************************)
(* While entries are merged, only entries and overlaps change.             *)
(***************************************************************************)
LEMMA MergingHolds ==
    ASSUME Assumptions, IInv, pc \in {"append", "overlaps", "merge", "single"},
           pc' \in {"overlaps", "merge", "single", "table"},
           UNCHANGED <<stats, dict, next, m_size, m_targets, m_table, m_offsets, m_start_offsets, padded>>,
           cur' \in Nat \ {0}, entries' \in Seq(EntryType),
           overlaps' \subseteq [left : DOMAIN entries', right : DOMAIN entries', overlap : Nat],
           Reaches(AllTargets, entries'), Room(entries') <= Budget(AllTargets),
           pc' \in {"overlaps", "table"} => AllValid(entries'),
           pc' # "merge" => overlaps' = {}, Queued(entries', overlaps')
    PROVE  IInv'
<1>1. Types /\ Appended /\ Counted /\ Tabled
  BY DEF IInv
<1>2. dict \in 1..(NumDicts + 1) /\ next \in Nat \ {0} /\ padded \in BOOLEAN /\ m_table \in Seq(Nat)
  BY <1>1 DEF Types
<1>3. Types'
  BY <1>1, <1>2, SameTypes
<1>4. Appended'
  BY <1>1 DEF Appended
<1>5. ~(pc \in {"offsets", "ready"}) /\ ~(pc' \in {"offsets", "ready"})
  OBVIOUS
<1>6. Counted'
  BY <1>1, <1>5, SameCounted
<1>7. Tabled'
  BY <1>1, <1>5, SameTabled
<1>8. AllTargets' = AllTargets
  BY DEF AllTargets
<1>9. Compacted'
  BY <1>8 DEF Compacted
<1>10. Laid' /\ MapsMade'
  BY DEF Laid, MapsMade
<1> QED BY <1>3, <1>4, <1>6, <1>7, <1>9, <1>10 DEF IInv

(***************************************************************************)
(* Overlaps that are queued are overlaps of two different entries.         *)
(***************************************************************************)
LEMMA OverlapsFacts ==
    ASSUME NEW es \in Seq(EntryType), NEW pairs, pairs \subseteq (1..Len(es)) \X (1..Len(es)),
           \A p \in pairs : p[1] # p[2]
    PROVE  /\ OverlapsOf(es, pairs) \subseteq [left : 1..Len(es), right : 1..Len(es), overlap : Nat]
           /\ \A o \in OverlapsOf(es, pairs) :
                o.left # o.right /\ Overlaid(es[o.left].entry, es[o.right].entry, o.overlap)
<1> SUFFICES ASSUME NEW o \in OverlapsOf(es, pairs)
             PROVE  /\ o \in [left : 1..Len(es), right : 1..Len(es), overlap : Nat]
                    /\ o.left # o.right /\ Overlaid(es[o.left].entry, es[o.right].entry, o.overlap)
  OBVIOUS
<1>1. PICK p \in pairs :
        o = [left |-> p[1], right |-> p[2], overlap |-> compute_overlap(es[p[1]].entry, es[p[2]].entry)]
  BY DEF OverlapsOf
<1>2. p[1] \in 1..Len(es) /\ p[2] \in 1..Len(es) /\ p[1] # p[2]
  OBVIOUS
<1>3. /\ es[p[1]].entry \in Seq(Nat) /\ es[p[2]].entry \in Seq(Nat)
      /\ Len(es[p[1]].entry) \in Nat /\ Len(es[p[2]].entry) \in Nat
  BY <1>2, EntryFacts
<1>4. Overlaid(es[p[1]].entry, es[p[2]].entry, compute_overlap(es[p[1]].entry, es[p[2]].entry))
  BY <1>3, ComputedOverlaid
<1>5. compute_overlap(es[p[1]].entry, es[p[2]].entry) \in Nat
  BY <1>3, <1>4 DEF Overlaid
<1>6. /\ o.left = p[1] /\ o.right = p[2]
      /\ o.overlap = compute_overlap(es[p[1]].entry, es[p[2]].entry)
  BY <1>1
<1> HIDE DEF OverlapsOf
<1> QED BY <1>1, <1>2, <1>4, <1>5, <1>6

\* A target that is removed is part of a longer one that is not, and what is
\* left takes no more room.
LEMMA CompactHolds ==
    ASSUME Assumptions, IInv, Compact PROVE IInv'
<1> DEFINE K == {e \in AllTargets : ~\E other \in AllTargets : Covers(other, e)}
           kept == Sorted(K)
<1>1. /\ pc = "append" /\ entries' = [k \in DOMAIN kept |-> [entry |-> kept[k], valid |-> TRUE]]
      /\ pc' \in {"overlaps", "table"}
      /\ UNCHANGED <<stats, dict, next, m_size, m_targets, overlaps, cur, m_table, m_offsets,
                     m_start_offsets, m_maps, padded>>
  BY DEF Compact
<1>2. m_targets \in [1..NumDicts -> Seq(Target)] /\ cur \in Nat \ {0} /\ overlaps = {}
  BY <1>1 DEF IInv, Types, Compacted
<1>3. IsFiniteSet(AllTargets) /\ AllTargets \subseteq Target
  BY <1>2, AllTargetsFacts DEF Assumptions
<1>4. AllTargets \subseteq Seq(Nat) /\ \A t \in Target : t \in Seq(Nat) /\ t # <<>>
  <2>1. \A t \in Target : t \in Seq(Nat) /\ Len(t) \in 1..MaxEntrySize
    BY DEF Target
  <2>2. ASSUME NEW t \in Target PROVE t # <<>>
    <3>1. Len(<<>>) = 0
      BY EmptySeq
    <3> QED BY <2>1, <3>1
  <2> QED BY <1>3, <2>1, <2>2
<1>5. K \subseteq AllTargets /\ K \subseteq Seq(Nat) /\ IsFiniteSet(K)
  <2>1. K \subseteq AllTargets
    OBVIOUS
  <2> HIDE DEF K
  <2>2. IsFiniteSet(K)
    BY <1>3, <2>1, FS_Subset
  <2> QED BY <1>4, <2>1, <2>2
<1>6. \A t \in AllTargets : \E x \in K : is_contained(t, x)
  BY <1>3, LongestContains DEF Assumptions
<1> HIDE DEF K
<1>7. /\ kept \in Seq(K) /\ Len(kept) \in Nat
      /\ \A x \in K : \E k \in 1..Len(kept) : kept[k] = x
      /\ \A k \in 1..Len(kept) : kept[k] \in K
  BY <1>5, SortedFacts
<1>8. /\ kept \in Seq(Seq(Nat))
      /\ Len(FlattenSeq(kept)) <= Len(FlattenSeq(Sorted(AllTargets)))
  BY <1>3, <1>4, <1>5, SortedNotLonger
<1> HIDE DEF kept
<1>9. entries' = [k \in 1..Len(kept) |-> [entry |-> kept[k], valid |-> TRUE]]
  BY <1>1, <1>7, LenProperties
<1>10. \A k \in 1..Len(kept) : kept[k] \in Seq(Nat) \ {<<>>}
  BY <1>3, <1>4, <1>5, <1>7
<1>11. /\ entries' \in Seq(EntryType) /\ Len(entries') = Len(kept) /\ DOMAIN entries' = 1..Len(kept)
       /\ \A k \in 1..Len(kept) : entries'[k].valid /\ entries'[k].entry = kept[k]
  <2>1. \A k \in 1..Len(kept) : [entry |-> kept[k], valid |-> TRUE] \in EntryType
    BY <1>10 DEF EntryType
  <2> QED BY <1>7, <1>9, <2>1
<1>12. AllValid(entries')
  BY <1>11 DEF AllValid
<1>13. Reaches(AllTargets, entries')
  <2> SUFFICES ASSUME NEW t \in AllTargets
               PROVE  \E k \in DOMAIN entries' : entries'[k].valid /\ is_contained(t, entries'[k].entry)
    BY DEF Reaches
  <2>1. PICK x \in K : is_contained(t, x)
    BY <1>6
  <2>2. PICK k \in 1..Len(kept) : kept[k] = x
    BY <1>7
  <2> QED BY <1>11, <2>1, <2>2
<1>14. Room(entries') <= Budget(AllTargets)
  <2>1. /\ Shown(entries') \in Seq(Seq(Nat)) /\ Len(Shown(entries')) = Len(kept)
        /\ \A k \in 1..Len(kept) : Shown(entries')[k] = kept[k]
    BY <1>11, ShownFacts
  <2> DEFINE s == Shown(entries')
             T == Seq(Nat)
  <2>2. s \in Seq(T) /\ kept \in Seq(T) /\ Len(s) = Len(kept) /\ \A k \in 1..Len(s) : s[k] = kept[k]
    BY <1>8, <2>1
  <2> HIDE DEF s, T
  <2>3. s = kept
    BY <2>2, SeqEqual
  <2> QED BY <1>8, <2>3 DEF s, Room, Budget
<1>15. Queued(entries', overlaps') /\ overlaps' = {} /\ cur' \in Nat \ {0}
  BY <1>1, <1>2 DEF Queued
<1>16. overlaps' \subseteq [left : DOMAIN entries', right : DOMAIN entries', overlap : Nat]
  BY <1>15
<1> QED BY <1>1, <1>11, <1>12, <1>13, <1>14, <1>15, <1>16, MergingHolds

\* What is queued at first are overlaps.
LEMMA compute_all_overlapsHolds ==
    ASSUME Assumptions, IInv, compute_all_overlaps PROVE IInv'
<1> DEFINE pairs == {p \in (DOMAIN entries) \X (DOMAIN entries) : p[1] # p[2]}
<1>1. /\ pc = "overlaps" /\ pc' = "merge" /\ overlaps' = OverlapsOf(entries, pairs)
      /\ UNCHANGED <<stats, dict, next, m_size, m_targets, entries, cur, m_table, m_offsets,
                     m_start_offsets, m_maps, padded>>
  BY DEF compute_all_overlaps
<1>2. entries \in Seq(EntryType) /\ cur \in Nat \ {0}
  BY DEF IInv, Types
<1>3. Reaches(AllTargets, entries) /\ Room(entries) <= Budget(AllTargets)
  BY <1>1 DEF IInv, Compacted
<1>4. DOMAIN entries = 1..Len(entries)
  BY <1>2, EntryFacts
<1>5. pairs \subseteq (1..Len(entries)) \X (1..Len(entries)) /\ \A p \in pairs : p[1] # p[2]
  BY <1>4
<1> HIDE DEF pairs
<1>6. /\ overlaps' \subseteq [left : 1..Len(entries), right : 1..Len(entries), overlap : Nat]
      /\ \A o \in overlaps' :
            o.left # o.right /\ Overlaid(entries[o.left].entry, entries[o.right].entry, o.overlap)
  BY <1>1, <1>2, <1>5, OverlapsFacts
<1>7. Queued(entries', overlaps')
  BY <1>1, <1>6 DEF Queued
<1>8. overlaps' \subseteq [left : DOMAIN entries', right : DOMAIN entries', overlap : Nat]
  BY <1>1, <1>4, <1>6
<1>9. entries' \in Seq(EntryType) /\ cur' \in Nat \ {0} /\ Reaches(AllTargets, entries')
      /\ Room(entries') <= Budget(AllTargets)
  BY <1>1, <1>2, <1>3
<1> QED BY <1>1, <1>7, <1>8, <1>9, MergingHolds

\* An overlap that is dropped loses nothing.
LEMMA SkipOverlapHolds ==
    ASSUME Assumptions, IInv, SkipOverlap PROVE IInv'
<1>1. PICK o \in Top :
        /\ pc = "merge" /\ overlaps' = overlaps \ {o}
        /\ UNCHANGED <<pc, stats, dict, next, m_size, m_targets, entries, cur, m_table, m_offsets,
                       m_start_offsets, m_maps, padded>>
  BY DEF SkipOverlap
<1>2. /\ entries \in Seq(EntryType) /\ cur \in Nat \ {0}
      /\ overlaps \subseteq [left : DOMAIN entries, right : DOMAIN entries, overlap : Nat]
  BY DEF IInv, Types
<1>3. Reaches(AllTargets, entries) /\ Room(entries) <= Budget(AllTargets) /\ Queued(entries, overlaps)
  BY <1>1 DEF IInv, Compacted
<1>4. Queued(entries', overlaps')
  BY <1>1, <1>3 DEF Queued
<1>5. /\ entries' \in Seq(EntryType) /\ cur' \in Nat \ {0} /\ Reaches(AllTargets, entries')
      /\ Room(entries') <= Budget(AllTargets)
      /\ overlaps' \subseteq [left : DOMAIN entries', right : DOMAIN entries', overlap : Nat]
  BY <1>1, <1>2, <1>3
<1> QED BY <1>1, <1>4, <1>5, MergingHolds

\* The entries merged by overlaps go, and what they were merged into stays.
LEMMA EraseMergedHolds ==
    ASSUME Assumptions, IInv, EraseMerged PROVE IInv'
<1>1. /\ pc = "merge" /\ overlaps = {} /\ entries' = Erased(entries) /\ pc' = "single" /\ cur' = 1
      /\ UNCHANGED <<stats, dict, next, m_size, m_targets, overlaps, m_table, m_offsets,
                     m_start_offsets, m_maps, padded>>
  BY DEF EraseMerged
<1>2. entries \in Seq(EntryType) /\ m_targets \in [1..NumDicts -> Seq(Target)]
  BY DEF IInv, Types
<1>3. Reaches(AllTargets, entries) /\ Room(entries) <= Budget(AllTargets)
  BY <1>1 DEF IInv, Compacted
<1> DEFINE es == Erased(entries)
<1>4. es \in Seq(EntryType) /\ AllValid(es) /\ Kept(entries, es) /\ Room(es) <= Room(entries)
  BY <1>2, ErasedFacts
<1> HIDE DEF es
<1>5. AllTargets \subseteq Seq(Nat) /\ IsFiniteSet(AllTargets)
  BY <1>2, AllTargetsFacts DEF Assumptions, Target
<1>6. Reaches(AllTargets, es)
  BY <1>2, <1>3, <1>4, <1>5, KeptReaches
<1>7. Room(es) <= Budget(AllTargets)
  BY <1>2, <1>3, <1>4, <1>5, BudgetFacts
<1>8. entries' = es
  BY <1>1 DEF es
<1>9. overlaps' = {} /\ overlaps' \subseteq [left : DOMAIN entries', right : DOMAIN entries', overlap : Nat]
      /\ Queued(entries', overlaps') /\ cur' \in Nat \ {0}
  BY <1>1 DEF Queued
<1> QED BY <1>1, <1>4, <1>6, <1>7, <1>8, <1>9, MergingHolds

\* The same for the entries merged by their single symbols.
LEMMA EraseSingleHolds ==
    ASSUME Assumptions, IInv, EraseSingle PROVE IInv'
<1>1. /\ pc = "single" /\ entries' = Erased(entries) /\ pc' = "table"
      /\ UNCHANGED <<stats, dict, next, m_size, m_targets, overlaps, cur, m_table, m_offsets,
                     m_start_offsets, m_maps, padded>>
  BY DEF EraseSingle
<1>2. entries \in Seq(EntryType) /\ m_targets \in [1..NumDicts -> Seq(Target)] /\ cur \in Nat \ {0}
  BY DEF IInv, Types
<1>3. Reaches(AllTargets, entries) /\ Room(entries) <= Budget(AllTargets) /\ overlaps = {}
  BY <1>1 DEF IInv, Compacted
<1> DEFINE es == Erased(entries)
<1>4. es \in Seq(EntryType) /\ AllValid(es) /\ Kept(entries, es) /\ Room(es) <= Room(entries)
  BY <1>2, ErasedFacts
<1> HIDE DEF es
<1>5. AllTargets \subseteq Seq(Nat) /\ IsFiniteSet(AllTargets)
  BY <1>2, AllTargetsFacts DEF Assumptions, Target
<1>6. Reaches(AllTargets, es)
  BY <1>2, <1>3, <1>4, <1>5, KeptReaches
<1>7. Room(es) <= Budget(AllTargets)
  BY <1>2, <1>3, <1>4, <1>5, BudgetFacts
<1>8. entries' = es
  BY <1>1 DEF es
<1>9. overlaps' = {} /\ overlaps' \subseteq [left : DOMAIN entries', right : DOMAIN entries', overlap : Nat]
      /\ Queued(entries', overlaps') /\ cur' \in Nat \ {0}
  BY <1>1, <1>2, <1>3 DEF Queued
<1> QED BY <1>1, <1>4, <1>6, <1>7, <1>8, <1>9, MergingHolds

\* The merged entry contains both, and takes the overlap less of room.
LEMMA MergeOverlapHolds ==
    ASSUME Assumptions, IInv, MergeOverlap PROVE IInv'
<1>1. /\ pc = "merge"
      /\ UNCHANGED <<pc, stats, dict, next, m_size, m_targets, cur, m_table, m_offsets,
                     m_start_offsets, m_maps, padded>>
  BY DEF MergeOverlap
<1>2. PICK o \in Top :
        /\ entries[o.left].valid /\ entries[o.right].valid
        /\ LET node == entries[o.left].entry \o
                         SubSeq(entries[o.right].entry, o.overlap + 1, Len(entries[o.right].entry))
               new == Len(entries) + 1
               es == Append([entries EXCEPT ![o.left] = [entry |-> node, valid |-> FALSE],
                                            ![o.right].valid = FALSE],
                            [entry |-> node, valid |-> TRUE])
               others == {j \in 1..(new - 1) : es[j].valid}
           IN  /\ entries' = es
               /\ overlaps' = (overlaps \ {o}) \cup OverlapsOf(es, (others \X {new}) \cup ({new} \X others))
  BY DEF MergeOverlap
<1>3. /\ entries \in Seq(EntryType) /\ m_targets \in [1..NumDicts -> Seq(Target)] /\ cur \in Nat \ {0}
      /\ overlaps \subseteq [left : DOMAIN entries, right : DOMAIN entries, overlap : Nat]
  BY DEF IInv, Types
<1>4. Reaches(AllTargets, entries) /\ Room(entries) <= Budget(AllTargets) /\ Queued(entries, overlaps)
  BY <1>1 DEF IInv, Compacted
<1> DEFINE i == o.left
           j == o.right
           l == o.overlap
           node == entries[i].entry \o SubSeq(entries[j].entry, l + 1, Len(entries[j].entry))
           new == Len(entries) + 1
           base == [entries EXCEPT ![i] = [entry |-> node, valid |-> FALSE], ![j].valid = FALSE]
           last == [entry |-> node, valid |-> TRUE]
           es == Append(base, last)
           others == {k \in 1..(new - 1) : es[k].valid}
           pairs == (others \X {new}) \cup ({new} \X others)
<1>5. entries' = es /\ overlaps' = (overlaps \ {o}) \cup OverlapsOf(es, pairs)
  BY <1>2
<1>6. /\ Len(entries) \in Nat /\ DOMAIN entries = 1..Len(entries)
      /\ \A k \in 1..Len(entries) : /\ entries[k] \in EntryType /\ entries[k].entry \in Seq(Nat)
                                    /\ Len(entries[k].entry) \in Nat \ {0}
  BY <1>3, EntryFacts
<1>7. o \in overlaps /\ i \in 1..Len(entries) /\ j \in 1..Len(entries) /\ l \in Nat
  BY <1>3, <1>6 DEF Top
<1>8. i # j /\ entries[i].valid /\ entries[j].valid /\ Overlaid(entries[i].entry, entries[j].entry, l)
  BY <1>2, <1>4, <1>7 DEF Queued
<1>9. node \in Seq(Nat) \ {<<>>}
  <2> DEFINE a == entries[i].entry
             b == entries[j].entry
             m == a \o SubSeq(b, l + 1, Len(b))
  <2>1. a \in Seq(Nat) /\ b \in Seq(Nat) /\ Len(a) \in Nat \ {0} /\ Len(b) \in Nat /\ Overlaid(a, b, l)
    BY <1>6, <1>7, <1>8
  <2> HIDE DEF a, b
  <2>2. m \in Seq(Nat) /\ Len(m) = Len(a) + Len(b) - l
    BY <2>1, MergedContains
  <2> HIDE DEF m
  <2>3. l \in Nat /\ l <= Len(b)
    BY <2>1 DEF Overlaid
  <2>4. Len(m) > 0
    BY <2>1, <2>2, <2>3
  <2>5. m # <<>>
    BY <2>4, EmptySeq
  <2> QED BY <2>2, <2>5 DEF m, a, b
<1> HIDE DEF node
<1>10. /\ base \in Seq(EntryType) /\ Len(base) = Len(entries) /\ ~base[i].valid /\ ~base[j].valid
       /\ \A k \in 1..Len(entries) : k \notin {i, j} => base[k] = entries[k]
  <2> DEFINE x == [entry |-> node, valid |-> FALSE]
             y == [entries[j] EXCEPT !.valid = FALSE]
             first == [entries EXCEPT ![i] = x]
  <2>1. x \in EntryType /\ ~x.valid
    BY <1>9 DEF EntryType
  <2>2. y \in EntryType /\ ~y.valid
    BY <1>6, <1>7 DEF EntryType
  <2>3. base = [first EXCEPT ![j] = [first[j] EXCEPT !.valid = FALSE]]
    OBVIOUS
  <2> HIDE DEF base, x
  <2>4. /\ first \in Seq(EntryType) /\ Len(first) = Len(entries)
        /\ \A k \in 1..Len(entries) : first[k] = IF k = i THEN x ELSE entries[k]
    BY <1>3, <1>7, <2>1, ExceptSeq
  <2> HIDE DEF first
  <2>5. base = [first EXCEPT ![j] = y]
    BY <1>7, <1>8, <2>3, <2>4
  <2> HIDE DEF y
  <2>6. /\ base \in Seq(EntryType) /\ Len(base) = Len(first)
        /\ \A k \in 1..Len(first) : base[k] = IF k = j THEN y ELSE first[k]
    BY <1>7, <2>2, <2>4, <2>5, ExceptSeq
  <2> QED BY <1>7, <1>8, <2>1, <2>2, <2>4, <2>6
<1>11. last \in EntryType /\ last.valid /\ last.entry = node
  BY <1>9 DEF EntryType
<1> HIDE DEF base, last
<1>12. es \in Seq(EntryType) /\ Len(es) = Len(entries) + 1
  BY <1>10, <1>11, AppendProperties
<1>13. es[Len(entries) + 1] = last
  BY <1>10, <1>11, AppendProperties
<1>14. \A k \in 1..Len(entries) : es[k] = base[k]
  BY <1>10, <1>11, AppendProperties
<1> HIDE DEF es
<1>15. \A k \in 1..Len(entries) : k \notin {i, j} => es[k] = entries[k]
  BY <1>10, <1>14
<1>16. ~es[i].valid /\ ~es[j].valid /\ es[Len(entries) + 1].valid /\ es[Len(entries) + 1].entry = node
  BY <1>7, <1>10, <1>11, <1>13, <1>14
<1>17. Kept(entries, es) /\ Room(es) <= Room(entries)
  <2>1. node = entries[i].entry \o SubSeq(entries[j].entry, l + 1, Len(entries[j].entry))
    BY DEF node
  <2> HIDE DEF i, j, l
  <2> QED BY <1>3, <1>7, <1>8, <1>12, <1>15, <1>16, <2>1, ReplacedFacts
<1>18. AllTargets \subseteq Seq(Nat) /\ IsFiniteSet(AllTargets)
  BY <1>3, AllTargetsFacts DEF Assumptions, Target
<1>19. Reaches(AllTargets, es) /\ Room(es) <= Budget(AllTargets)
  BY <1>3, <1>4, <1>12, <1>17, <1>18, KeptReaches, BudgetFacts
<1>20. /\ DOMAIN es = 1..new /\ new \in 1..new /\ Len(es) = new /\ new \in Nat
       /\ 1..Len(entries) \subseteq 1..new /\ others \subseteq 1..Len(entries) /\ new \notin others
  BY <1>6, <1>12, LenProperties
<1>21. pairs \subseteq (1..Len(es)) \X (1..Len(es)) /\ \A p \in pairs : p[1] # p[2]
  BY <1>20
<1> HIDE DEF new, others, pairs
<1>22. /\ OverlapsOf(es, pairs) \subseteq [left : 1..Len(es), right : 1..Len(es), overlap : Nat]
       /\ \A q \in OverlapsOf(es, pairs) :
            q.left # q.right /\ Overlaid(es[q.left].entry, es[q.right].entry, q.overlap)
  BY <1>12, <1>21, OverlapsFacts
<1>23. overlaps' \subseteq [left : DOMAIN es, right : DOMAIN es, overlap : Nat]
  BY <1>3, <1>5, <1>6, <1>20, <1>22
<1>24. Queued(es, overlaps')
  <2> SUFFICES ASSUME NEW q \in overlaps'
               PROVE  /\ q.left # q.right
                      /\ es[q.left].valid /\ es[q.right].valid =>
                            Overlaid(es[q.left].entry, es[q.right].entry, q.overlap)
    BY DEF Queued
  <2>1. CASE q \in OverlapsOf(es, pairs)
    BY <1>22, <2>1
  <2>2. CASE q \in overlaps
    <3>1. q.left \in 1..Len(entries) /\ q.right \in 1..Len(entries)
      BY <1>3, <1>6, <2>2
    <3>2. /\ q.left # q.right
          /\ entries[q.left].valid /\ entries[q.right].valid =>
                Overlaid(entries[q.left].entry, entries[q.right].entry, q.overlap)
      BY <1>4, <2>2 DEF Queued
    <3>3. es[q.left].valid => es[q.left] = entries[q.left]
      BY <1>15, <1>16, <3>1
    <3>4. es[q.right].valid => es[q.right] = entries[q.right]
      BY <1>15, <1>16, <3>1
    <3> QED BY <3>2, <3>3, <3>4
  <2> QED BY <1>5, <2>1, <2>2
<1>25. /\ entries' \in Seq(EntryType) /\ Queued(entries', overlaps')
       /\ overlaps' \subseteq [left : DOMAIN entries', right : DOMAIN entries', overlap : Nat]
       /\ Reaches(AllTargets, entries') /\ Room(entries') <= Budget(AllTargets)
  BY <1>5, <1>12, <1>19, <1>23, <1>24
<1> QED BY <1>1, <1>3, <1>25, MergingHolds

\* An entry extended by a partner contains it, as one symbol is their
\* overlap.
LEMMA MergeSingleHolds ==
    ASSUME Assumptions, IInv, MergeSingle PROVE IInv'
<1>1. /\ pc = "single" /\ cur <= Len(entries) /\ cur' = cur + 1
      /\ UNCHANGED <<pc, stats, dict, next, m_size, m_targets, overlaps, m_table, m_offsets,
                     m_start_offsets, m_maps, padded>>
      /\ entries' = IF ~entries[cur].valid \/ Partners(cur) = {} THEN entries
                    ELSE LET j == Least(Partners(cur))
                         IN  [entries EXCEPT ![cur].entry = @ \o Tail(entries[j].entry), ![j].valid = FALSE]
  BY DEF MergeSingle
<1>2. entries \in Seq(EntryType) /\ m_targets \in [1..NumDicts -> Seq(Target)] /\ cur \in Nat \ {0}
  BY DEF IInv, Types
<1>3. Reaches(AllTargets, entries) /\ Room(entries) <= Budget(AllTargets) /\ overlaps = {}
  BY <1>1 DEF IInv, Compacted
<1>4. /\ overlaps' = {} /\ overlaps' \subseteq [left : DOMAIN entries', right : DOMAIN entries', overlap : Nat]
      /\ Queued(entries', overlaps') /\ cur' \in Nat \ {0}
  BY <1>1, <1>2, <1>3 DEF Queued
<1>5. CASE ~entries[cur].valid \/ Partners(cur) = {}
  <2>1. entries' = entries
    BY <1>1, <1>5
  <2>2. entries' \in Seq(EntryType) /\ Reaches(AllTargets, entries') /\ Room(entries') <= Budget(AllTargets)
    BY <1>2, <1>3, <2>1
  <2> QED BY <1>1, <1>4, <2>2, MergingHolds
<1>6. CASE ~(~entries[cur].valid \/ Partners(cur) = {})
  <2>1. /\ Len(entries) \in Nat /\ DOMAIN entries = 1..Len(entries)
        /\ \A k \in 1..Len(entries) : /\ entries[k] \in EntryType /\ entries[k].entry \in Seq(Nat)
                                      /\ entries[k].entry # <<>> /\ Len(entries[k].entry) \in Nat \ {0}
    BY <1>2, EntryFacts
  <2>2. cur \in 1..Len(entries)
    BY <1>1, <1>2, <2>1
  <2>3. PICK j : j = Least(Partners(cur))
    OBVIOUS
  <2>4. j \in Partners(cur)
    <3>1. Partners(cur) \subseteq Nat /\ Partners(cur) # {}
      BY <1>6, <2>1 DEF Partners
    <3> QED BY <2>3, <3>1, LeastFacts
  <2>5. /\ j \in 1..Len(entries) /\ j # cur /\ entries[j].valid /\ entries[cur].valid
        /\ entries[j].entry[1] = Last(entries[cur].entry)
    BY <1>6, <2>1, <2>4 DEF Partners
  <2> DEFINE a == entries[cur].entry
             b == entries[j].entry
             node == a \o SubSeq(b, 1 + 1, Len(b))
  <2>6. /\ a \in Seq(Nat) /\ a # <<>> /\ Len(a) \in Nat \ {0}
        /\ b \in Seq(Nat) /\ b # <<>> /\ Len(b) \in Nat \ {0} /\ b[1] = Last(a)
    BY <2>1, <2>2, <2>5
  <2>7. entries' = [entries EXCEPT ![cur].entry = a \o Tail(b), ![j].valid = FALSE]
    BY <1>1, <1>6, <2>3, <2>2
  <2> HIDE DEF a, b
  <2>8. Overlaid(a, b, 1)
    <3>1. 1 \in 0..Len(a) /\ 1 \in 0..Len(b)
      BY <2>6
    <3>2. a[Len(a) - 1 + 1] = a[Len(a)]
      BY <2>6
    <3>3. a[Len(a)] = b[1]
      BY <2>6 DEF Last
    <3>4. \A k \in 1..1 : k = 1
      OBVIOUS
    <3>5. \A k \in 1..1 : a[Len(a) - 1 + k] = b[k]
      BY <3>2, <3>3, <3>4
    <3> QED BY <3>1, <3>5 DEF Overlaid
  <2>9. Tail(b) = SubSeq(b, 1 + 1, Len(b))
    <3>1. Tail(b) = SubSeq(b, 2, Len(b))
      BY <2>6, TailIsSubSeq
    <3> QED BY <3>1
  <2>10. node \in Seq(Nat) /\ Len(node) = Len(a) + Len(b) - 1
    BY <2>6, <2>8, MergedContains
  <2>11. entries' = [entries EXCEPT ![cur].entry = node, ![j].valid = FALSE]
    BY <2>7, <2>9
  <2> HIDE DEF node
  <2>12. node # <<>>
    <3>1. Len(node) > 0
      BY <2>6, <2>10
    <3> QED BY <3>1, EmptySeq
  <2> DEFINE x == [entries[cur] EXCEPT !.entry = node]
             y == [entries[j] EXCEPT !.valid = FALSE]
             first == [entries EXCEPT ![cur] = x]
             fs == [first EXCEPT ![j] = y]
  <2>13. x \in EntryType /\ x.valid /\ x.entry = node
    BY <2>1, <2>2, <2>5, <2>10, <2>12 DEF EntryType
  <2>14. y \in EntryType /\ ~y.valid
    BY <2>1, <2>5 DEF EntryType
  <2>15. entries' = [first EXCEPT ![j] = [first[j] EXCEPT !.valid = FALSE]]
    BY <2>11
  <2> HIDE DEF x
  <2>16. /\ first \in Seq(EntryType) /\ Len(first) = Len(entries)
         /\ \A k \in 1..Len(entries) : first[k] = IF k = cur THEN x ELSE entries[k]
    BY <1>2, <2>2, <2>13, ExceptSeq
  <2> HIDE DEF first
  <2>17. entries' = fs
    BY <2>5, <2>15, <2>16
  <2> HIDE DEF y
  <2>18. /\ fs \in Seq(EntryType) /\ Len(fs) = Len(first)
         /\ \A k \in 1..Len(first) : fs[k] = IF k = j THEN y ELSE first[k]
    BY <2>5, <2>14, <2>16, ExceptSeq
  <2> HIDE DEF fs
  <2>19. \A k \in 1..Len(entries) : k \notin {cur, j} => fs[k] = entries[k]
    BY <2>16, <2>18
  <2>20. fs[cur].valid /\ fs[cur].entry = node /\ ~fs[j].valid
    BY <2>2, <2>5, <2>13, <2>14, <2>16, <2>18
  <2>21. Kept(entries, fs) /\ Room(fs) <= Room(entries)
    <3>0. PICK l : l = 1
      OBVIOUS
    <3>1. /\ node = entries[cur].entry \o SubSeq(entries[j].entry, l + 1, Len(entries[j].entry))
          /\ Overlaid(entries[cur].entry, entries[j].entry, l)
      BY <2>8, <3>0 DEF node, a, b
    <3>2. fs \in Seq(EntryType) /\ Len(fs) = Len(entries)
      BY <2>16, <2>18
    <3>3. PICK i : i = cur
      OBVIOUS
    <3>4. /\ entries \in Seq(EntryType) /\ i \in 1..Len(entries) /\ j \in 1..Len(entries) /\ i # j
          /\ entries[i].valid /\ entries[j].valid
      BY <1>2, <2>2, <2>5, <3>3
    <3>5. /\ Overlaid(entries[i].entry, entries[j].entry, l)
          /\ node = entries[i].entry \o SubSeq(entries[j].entry, l + 1, Len(entries[j].entry))
      BY <3>1, <3>3
    <3>6. /\ \A k \in 1..Len(entries) : k \notin {i, j} => fs[k] = entries[k]
          /\ fs[i].valid /\ fs[i].entry = node /\ ~fs[j].valid
      BY <2>19, <2>20, <3>3
    <3> QED BY <3>2, <3>4, <3>5, <3>6, AppendedFacts
  <2>22. AllTargets \subseteq Seq(Nat) /\ IsFiniteSet(AllTargets)
    BY <1>2, AllTargetsFacts DEF Assumptions, Target
  <2>23. Reaches(AllTargets, fs) /\ Room(fs) <= Budget(AllTargets)
    BY <1>2, <1>3, <2>18, <2>21, <2>22, KeptReaches, BudgetFacts
  <2>24. entries' \in Seq(EntryType) /\ Reaches(AllTargets, entries') /\ Room(entries') <= Budget(AllTargets)
    BY <2>17, <2>18, <2>23
  <2> QED BY <1>1, <1>4, <2>24, MergingHolds
<1> QED BY <1>5, <1>6

-----------------------------------------------------------------------------
(* The table and the offsets.                                              *)

(***************************************************************************)
(* What is contained is found.                                             *)
(***************************************************************************)
LEMMA SearchFacts ==
    ASSUME NEW t \in Seq(Nat), NEW table \in Seq(Nat), is_contained(t, table)
    PROVE  LaidAt(table, [size |-> Len(t), offset |-> search(table, t)], t)
<1>1. Len(t) \in Nat /\ Len(table) \in Nat
  BY LenProperties
<1> DEFINE starts == {o \in 0..(Len(table) - Len(t)) : OccursAt(t, table, o)}
<1>2. starts \subseteq Nat /\ starts # {}
  <2>1. \A o \in 0..(Len(table) - Len(t)) : o \in Nat
    BY <1>1
  <2>2. starts # {}
    BY DEF is_contained
  <2> QED BY <2>1, <2>2
<1>3. Least(starts) \in starts
  BY <1>2, LeastFacts
<1>4. search(table, t) = Least(starts)
  BY DEF search
<1> DEFINE o == search(table, t)
<1>5. o \in 0..(Len(table) - Len(t)) /\ OccursAt(t, table, o)
  BY <1>3, <1>4
<1> HIDE DEF o
<1>6. o \in Nat /\ o + Len(t) <= Len(table)
  BY <1>1, <1>5
<1>7. \A x \in 1..Len(t) : table[o + x] = t[x]
  BY <1>5, <1>6, OccursIs
<1>8. LaidAt(table, [size |-> Len(t), offset |-> o], t)
  BY <1>6, <1>7 DEF LaidAt
<1> QED BY <1>8 DEF o

(***************************************************************************)
(* What is in a table is in a longer one.                                  *)
(***************************************************************************)
LEMMA LaidLonger ==
    ASSUME NEW t \in Seq(Nat), NEW table \in Seq(Nat), NEW more \in Seq(Nat), NEW e, LaidAt(table, e, t)
    PROVE  LaidAt(table \o more, e, t)
<1> DEFINE longer == table \o more
<1>1. /\ Len(longer) = Len(table) + Len(more)
      /\ \A i \in 1..(Len(table) + Len(more)) :
            longer[i] = IF i <= Len(table) THEN table[i] ELSE more[i - Len(table)]
  BY ConcatProperties
<1> HIDE DEF longer
<1>2. Len(t) \in Nat /\ Len(table) \in Nat /\ Len(more) \in Nat
  BY LenProperties
<1>3. e.size = Len(t) /\ e.offset \in Nat /\ e.offset + Len(t) <= Len(table)
  BY DEF LaidAt
<1>4. ASSUME NEW x \in 1..Len(t) PROVE longer[e.offset + x] = t[x]
  <2>a. \A p, l, n, m \in Nat : \A q \in 1..l :
            p + l <= n => p + q \in 1..(n + m) /\ p + q <= n
    OBVIOUS
  <2>1. e.offset + x \in 1..(Len(table) + Len(more)) /\ e.offset + x <= Len(table)
    BY <1>2, <1>3, <2>a
  <2>2. longer[e.offset + x] = table[e.offset + x]
    BY <1>1, <2>1
  <2> QED BY <2>2 DEF LaidAt
<1>5. e.offset + Len(t) <= Len(longer)
  BY <1>1, <1>2, <1>3
<1>6. LaidAt(longer, e, t)
  BY <1>3, <1>4, <1>5 DEF LaidAt
<1> QED BY <1>6 DEF longer

(***************************************************************************)
(* Where the offsets of one dictionary are behind those of others.         *)
(***************************************************************************)
LEMMA OffsetsBehind ==
    ASSUME NEW T, NEW s \in Seq(T), NEW a \in Seq(T), NEW b \in Seq(T), NEW c \in Seq(T),
           NEW all, all = s \o a \o b \o c
    PROVE  /\ all \in Seq(T) /\ Len(all) = Len(s) + Len(a) + Len(b) + Len(c)
           /\ \A i \in 1..Len(s) : all[i] = s[i]
           /\ \A i \in 1..Len(b) : all[Len(s) + Len(a) + i] = b[i]
           /\ \A i \in 1..Len(c) : all[Len(s) + Len(a) + Len(b) + i] = c[i]
<1> DEFINE x == s \o a
           y == x \o b
<1>1. Len(s) \in Nat /\ Len(a) \in Nat /\ Len(b) \in Nat /\ Len(c) \in Nat
  BY LenProperties
<1>2. /\ x \in Seq(T) /\ Len(x) = Len(s) + Len(a)
      /\ \A i \in 1..(Len(s) + Len(a)) : x[i] = IF i <= Len(s) THEN s[i] ELSE a[i - Len(s)]
  BY ConcatProperties
<1> HIDE DEF x
<1>3. /\ y \in Seq(T) /\ Len(y) = Len(x) + Len(b)
      /\ \A i \in 1..(Len(x) + Len(b)) : y[i] = IF i <= Len(x) THEN x[i] ELSE b[i - Len(x)]
  BY <1>2, ConcatProperties
<1>4. all = y \o c
  BY DEF x
<1> HIDE DEF y
<1>5. /\ all \in Seq(T) /\ Len(all) = Len(y) + Len(c)
      /\ \A i \in 1..(Len(y) + Len(c)) : all[i] = IF i <= Len(y) THEN y[i] ELSE c[i - Len(y)]
  <2> DEFINE z == y \o c
  <2>1. /\ z \in Seq(T) /\ Len(z) = Len(y) + Len(c)
        /\ \A i \in 1..(Len(y) + Len(c)) : z[i] = IF i <= Len(y) THEN y[i] ELSE c[i - Len(y)]
    BY <1>3, ConcatProperties
  <2>2. all = z
    BY <1>4
  <2> HIDE DEF z
  <2> QED BY <2>1, <2>2
<1> DEFINE n == Len(s)  ka == Len(a)  kb == Len(b)  kc == Len(c)
<1>6. n \in Nat /\ ka \in Nat /\ kb \in Nat /\ kc \in Nat
  BY <1>1
<1>7. /\ Len(all) = n + ka + kb + kc
      /\ \A i \in 1..(n + ka) : x[i] = IF i <= n THEN s[i] ELSE a[i - n]
      /\ \A i \in 1..(n + ka + kb) : y[i] = IF i <= n + ka THEN x[i] ELSE b[i - (n + ka)]
      /\ \A i \in 1..(n + ka + kb + kc) : all[i] = IF i <= n + ka + kb THEN y[i] ELSE c[i - (n + ka + kb)]
  BY <1>1, <1>2, <1>3, <1>5
<1> HIDE DEF n, ka, kb, kc
<1>8. ASSUME NEW i \in 1..n PROVE all[i] = s[i]
  <2>1. i \in 1..(n + ka) /\ i \in 1..(n + ka + kb) /\ i \in 1..(n + ka + kb + kc) /\ i <= n + ka /\ i <= n + ka + kb
        /\ i <= n
    BY <1>6
  <2> QED BY <1>7, <2>1
<1>9. ASSUME NEW i \in 1..kb PROVE all[n + ka + i] = b[i]
  <2>1. /\ n + ka + i \in 1..(n + ka + kb) /\ n + ka + i \in 1..(n + ka + kb + kc)
        /\ n + ka + i <= n + ka + kb /\ ~(n + ka + i <= n + ka) /\ (n + ka + i) - (n + ka) = i
    BY <1>6
  <2> QED BY <1>7, <2>1
<1>10. ASSUME NEW i \in 1..kc PROVE all[n + ka + kb + i] = c[i]
  <2>1. /\ n + ka + kb + i \in 1..(n + ka + kb + kc)
        /\ ~(n + ka + kb + i <= n + ka + kb) /\ (n + ka + kb + i) - (n + ka + kb) = i
    BY <1>6
  <2> QED BY <1>7, <2>1
<1> QED BY <1>5, <1>7, <1>8, <1>9, <1>10 DEF n, ka, kb, kc

\* The entries are parts of the table, which begins with the zeros.
LEMMA CreateTableHolds ==
    ASSUME Assumptions, IInv, CreateTable PROVE IInv'
<1>1. /\ pc = "table" /\ pc' = "offsets" /\ dict' = 1
      /\ m_table' = m_table \o FlattenSeq([k \in DOMAIN entries |-> entries[k].entry])
      /\ UNCHANGED <<stats, next, m_size, m_targets, entries, overlaps, cur, m_offsets,
                     m_start_offsets, m_maps, padded>>
  BY DEF CreateTable
<1>2. Types /\ Appended /\ Counted /\ Compacted /\ Tabled
  BY DEF IInv
<1>3. /\ entries \in Seq(EntryType) /\ m_targets \in [1..NumDicts -> Seq(Target)]
      /\ next \in Nat \ {0} /\ cur \in Nat \ {0} /\ overlaps = {} /\ m_table \in Seq(Nat)
      /\ padded \in BOOLEAN
  BY <1>1, <1>2 DEF Types, Compacted
<1>4. AllValid(entries) /\ Reaches(AllTargets, entries) /\ Room(entries) <= Budget(AllTargets)
  BY <1>1, <1>2 DEF Compacted
<1>5. m_table = Zeros(MaxEntrySize) /\ ~padded
  BY <1>1, <1>2 DEF Tabled
<1>6. NumDicts \in Nat \ {0} /\ MaxEntrySize \in Nat \ {0} /\ reserved \in Nat
  BY ConstantsFacts
<1>7. /\ Len(entries) \in Nat /\ DOMAIN entries = 1..Len(entries)
      /\ \A k \in 1..Len(entries) : entries[k].entry \in Seq(Nat)
  BY <1>3, EntryFacts
<1> DEFINE shown == Shown(entries)
           flat == FlattenSeq(shown)
<1>8. [k \in DOMAIN entries |-> entries[k].entry] = shown
  BY <1>4 DEF AllValid, Shown
<1>9. /\ shown \in Seq(Seq(Nat)) /\ Len(shown) = Len(entries)
      /\ \A k \in 1..Len(entries) : shown[k] = entries[k].entry
  BY <1>3, <1>4, <1>7, ShownFacts DEF AllValid
<1> HIDE DEF shown
<1>10. flat \in Seq(Nat) /\ \A k \in 1..Len(shown) : is_contained(shown[k], flat)
  BY <1>9, FlattenFacts
<1>11. m_table' = m_table \o flat
  BY <1>1, <1>8
<1>12. Len(flat) = Room(entries) /\ Len(flat) \in Nat
  BY <1>10, LenProperties DEF Room, shown
<1> HIDE DEF flat
<1>13. /\ m_table' \in Seq(Nat) /\ Len(m_table') = Len(m_table) + Len(flat)
       /\ is_contained(flat, m_table')
  BY <1>3, <1>10, <1>11, ContainedParts
<1>14. \A i \in 1..(Len(m_table) + Len(flat)) :
            m_table'[i] = IF i <= Len(m_table) THEN m_table[i] ELSE flat[i - Len(m_table)]
  BY <1>3, <1>10, <1>11, ConcatProperties
<1>15. Len(m_table) = MaxEntrySize /\ \A i \in 1..MaxEntrySize : m_table[i] = 0
  BY <1>5, <1>6, ZerosFacts
<1>16. AllTargets \subseteq Seq(Nat) /\ AllTargets' = AllTargets
  BY <1>1, <1>3, AllTargetsFacts DEF Assumptions, Target, AllTargets
<1>17. ASSUME NEW t \in AllTargets PROVE is_contained(t, m_table')
  <2>1. PICK k \in DOMAIN entries : is_contained(t, entries[k].entry)
    BY <1>4 DEF Reaches
  <2>2. is_contained(entries[k].entry, flat) /\ entries[k].entry \in Seq(Nat) /\ t \in Seq(Nat)
    BY <1>7, <1>9, <1>10, <1>16
  <2>3. is_contained(t, flat)
    BY <1>10, <2>1, <2>2, ContainedTrans
  <2> QED BY <1>10, <1>13, <2>2, <2>3, ContainedTrans
<1>18. Types'
  <2>1. dict' \in 1..(NumDicts + 1)
    BY <1>1, <1>6
  <2>2. next' \in Nat \ {0} /\ cur' \in Nat \ {0} /\ padded' \in BOOLEAN /\ entries' \in Seq(EntryType)
    BY <1>1, <1>3, <1>5
  <2>3. overlaps' \subseteq [left : DOMAIN entries', right : DOMAIN entries', overlap : Nat]
    BY <1>1, <1>3
  <2> QED BY <1>1, <1>2, <1>13, <2>1, <2>2, <2>3, SameTypes
<1>19. Appended'
  BY <1>1, <1>2 DEF Appended
<1>20. Counted'
  <2>1. PICK c : Lengths(m_targets, c) /\ Sized(c) /\ Started(c)
    BY <1>2 DEF Counted
  <2>2. c[0] = 0 /\ m_offsets = <<>> /\ m_start_offsets = <<>>
    BY <1>1, <2>1 DEF Lengths, Started
  <2>3. dict' - 1 = 0 /\ Len(<<>>) = 0 /\ 0 * reserved = 0 /\ 1..(dict' - 1) = {}
    BY <1>1, <1>6
  <2>4. Len(m_offsets') = (dict' - 1) * reserved + c[dict' - 1]
    BY <1>1, <2>2, <2>3
  <2>5. Started(c)'
    BY <1>1, <2>2, <2>3, <2>4 DEF Started
  <2>6. Sized(c)' /\ Lengths(m_targets', c)
    BY <1>1, <2>1 DEF Sized
  <2> QED BY <2>5, <2>6 DEF Counted
<1>21. Compacted'
  BY <1>1, <1>3 DEF Compacted, Queued
<1>22. Tabled'
  <2> DEFINE budget == Budget(AllTargets)
  <2>1. Len(flat) <= budget
    BY <1>4, <1>12
  <2>2. budget \in Nat
    <3>1. IsFiniteSet(AllTargets)
      BY <1>3, AllTargetsFacts DEF Assumptions
    <3>2. Sorted(AllTargets) \in Seq(Seq(Nat))
      BY <1>16, <3>1, SortedNotLonger
    <3>3. FlattenSeq(Sorted(AllTargets)) \in Seq(Nat)
      BY <3>2, FlattenFacts
    <3> QED BY <3>3, LenProperties DEF Budget
  <2> HIDE DEF budget
  <2>3. Len(m_table') >= MaxEntrySize /\ Len(m_table') <= 1 * MaxEntrySize + budget
    BY <1>6, <1>12, <1>13, <1>15, <2>1, <2>2
  <2>4. \A i \in 1..MaxEntrySize : i \in 1..(Len(m_table) + Len(flat)) /\ i <= Len(m_table)
    BY <1>6, <1>12, <1>15
  <2>5. \A i \in 1..MaxEntrySize : m_table'[i] = 0
    BY <1>14, <1>15, <2>4
  <2>6. budget = Budget(AllTargets') /\ padded' = FALSE
    BY <1>1, <1>5, <1>16 DEF budget
  <2> QED BY <1>1, <1>16, <1>17, <2>3, <2>5, <2>6 DEF Tabled
<1>23. Laid' /\ MapsMade'
  BY <1>1 DEF Laid, MapsMade
<1> QED BY <1>18, <1>19, <1>20, <1>21, <1>22, <1>23 DEF IInv

\* Each target is where the search finds it first; one more dictionary has
\* offsets.
LEMMA CreateOffsetsHolds ==
    ASSUME Assumptions, IInv, CreateOffsets PROVE IInv'
<1> DEFINE Pair == [size : Nat, offset : Nat]
           a == [i \in 1..EXCEPTIONS |-> [size |-> 1, offset |-> 0]]
           b == [r \in DOMAIN Runs |-> [size |-> Runs[r], offset |-> 0]]
           m == m_targets[dict]
           c == [t \in DOMAIN m |-> [size |-> Len(m[t]), offset |-> search(m_table, m[t])]]
           all == m_offsets \o a \o b \o c
<1>1. /\ pc = "offsets" /\ dict <= NumDicts /\ dict' = dict + 1
      /\ m_start_offsets' = Append(m_start_offsets, Len(m_offsets))
      /\ m_offsets' = all
      /\ UNCHANGED <<pc, stats, next, m_size, m_targets, entries, overlaps, cur, m_table, m_maps, padded>>
  BY DEF CreateOffsets
<1>2. Types /\ Appended /\ Counted /\ Compacted /\ Tabled /\ Laid
  BY DEF IInv
<1>3. /\ m_targets \in [1..NumDicts -> Seq(Target)] /\ m_table \in Seq(Nat) /\ overlaps = {}
      /\ dict \in 1..(NumDicts + 1) /\ m_offsets \in Seq(Pair) /\ m_start_offsets \in Seq(Nat)
  BY <1>1, <1>2 DEF Types, Compacted
<1>4. /\ NumDicts \in Nat \ {0} /\ MaxEntrySize \in Nat \ {0} /\ reserved \in Nat /\ Len(Runs) \in Nat
      /\ EXCEPTIONS = 2 /\ reserved = Len(Runs) + 2 /\ Runs \in Seq(Nat \ {0})
      /\ \A r \in 1..Len(Runs) : Runs[r] \in Nat \ {0}
  BY ConstantsFacts
<1>5. dict \in 1..NumDicts /\ dict' \in 1..(NumDicts + 1) /\ dict' - 1 = dict
  BY <1>1, <1>3, <1>4
<1>6. /\ m \in Seq(Target) /\ Len(m) \in Nat
      /\ \A k \in 1..Len(m) : m[k] \in Seq(Nat) /\ Len(m[k]) \in Nat
      /\ m_targets \in Seq(Seq(Target)) /\ Len(m_targets) = NumDicts
  BY <1>3, <1>5, TargetsFacts
<1>7. ASSUME NEW k \in 1..Len(m)
      PROVE  LaidAt(m_table, [size |-> Len(m[k]), offset |-> search(m_table, m[k])], m[k])
  <2>1. m[k] \in AllTargets
    BY <1>3, <1>5, AllTargetsFacts DEF Assumptions
  <2>2. is_contained(m[k], m_table)
    BY <1>1, <1>2, <2>1 DEF Tabled
  <2> HIDE DEF m
  <2> QED BY <1>3, <1>6, <2>2, SearchFacts
<1> HIDE DEF m
<1>8. a \in Seq(Pair) /\ Len(a) = 2
  BY <1>4
<1>9. /\ b \in Seq(Pair) /\ Len(b) = Len(Runs)
      /\ \A r \in 1..Len(Runs) : b[r] = [size |-> Runs[r], offset |-> 0]
  <2>1. DOMAIN Runs = 1..Len(Runs)
    BY <1>4, LenProperties
  <2> QED BY <1>4, <2>1
<1>10. /\ c \in Seq(Pair) /\ Len(c) = Len(m)
       /\ \A k \in 1..Len(m) : LaidAt(m_table, c[k], m[k])
  <2>1. DOMAIN m = 1..Len(m)
    BY <1>6, LenProperties
  <2>2. \A k \in 1..Len(m) : c[k] = [size |-> Len(m[k]), offset |-> search(m_table, m[k])]
    BY <2>1
  <2>3. \A k \in 1..Len(m) : search(m_table, m[k]) \in Nat
    BY <1>7 DEF LaidAt
  <2>4. \A k \in 1..Len(m) : c[k] \in Pair
    BY <1>6, <2>2, <2>3
  <2>5. c = [k \in 1..Len(m) |-> c[k]]
    BY <2>1
  <2> HIDE DEF c, Pair
  <2>6. c \in Seq(Pair) /\ Len(c) = Len(m)
    BY <1>6, <2>4, <2>5
  <2> QED BY <1>7, <2>2, <2>6
<1> HIDE DEF Pair, a, b, c
<1>0. all = m_offsets \o a \o b \o c
  OBVIOUS
<1> HIDE DEF all
<1>11. /\ all \in Seq(Pair) /\ Len(all) = Len(m_offsets) + Len(a) + Len(b) + Len(c)
       /\ \A i \in 1..Len(m_offsets) : all[i] = m_offsets[i]
       /\ \A i \in 1..Len(b) : all[Len(m_offsets) + Len(a) + i] = b[i]
       /\ \A i \in 1..Len(c) : all[Len(m_offsets) + Len(a) + Len(b) + i] = c[i]
  <2>1. /\ m_offsets \in Seq(Pair) /\ a \in Seq(Pair) /\ b \in Seq(Pair) /\ c \in Seq(Pair)
        /\ all = m_offsets \o a \o b \o c
    BY <1>0, <1>3, <1>8, <1>9, <1>10
  <2>2. all \in Seq(Pair) /\ Len(all) = Len(m_offsets) + Len(a) + Len(b) + Len(c)
    BY <2>1, OffsetsBehind
  <2>3. \A i \in 1..Len(m_offsets) : all[i] = m_offsets[i]
    BY <2>1, OffsetsBehind
  <2>4. \A i \in 1..Len(b) : all[Len(m_offsets) + Len(a) + i] = b[i]
    BY <2>1, OffsetsBehind
  <2>5. \A i \in 1..Len(c) : all[Len(m_offsets) + Len(a) + Len(b) + i] = c[i]
    BY <2>1, OffsetsBehind
  <2> QED BY <2>2, <2>3, <2>4, <2>5
<1> DEFINE n == Len(m_offsets)
<1>12. n \in Nat /\ Len(m_start_offsets) \in Nat
  BY <1>3, LenProperties
<1>13. /\ m_offsets' \in Seq(Pair) /\ Len(m_offsets') = n + reserved + Len(m)
       /\ \A i \in 1..n : m_offsets'[i] = m_offsets[i]
       /\ \A r \in 1..Len(Runs) : m_offsets'[n + 2 + r] = [size |-> Runs[r], offset |-> 0]
       /\ \A k \in 1..Len(m) : LaidAt(m_table, m_offsets'[n + reserved + k], m[k])
  <2>1. Len(a) = 2 /\ Len(b) = Len(Runs) /\ Len(c) = Len(m) /\ n + 2 + Len(Runs) = n + reserved
    BY <1>4, <1>8, <1>9, <1>10, <1>12
  <2>2. n + Len(a) = n + 2 /\ n + Len(a) + Len(b) = n + reserved
    BY <2>1
  <2>3. Len(all) = n + reserved + Len(m)
    BY <1>11, <2>1, <2>2
  <2>4. ASSUME NEW r \in 1..Len(Runs) PROVE all[n + 2 + r] = [size |-> Runs[r], offset |-> 0]
    <3>1. all[n + Len(a) + r] = b[r]
      BY <1>11, <2>1
    <3> QED BY <1>9, <2>2, <3>1
  <2>5. ASSUME NEW k \in 1..Len(m) PROVE LaidAt(m_table, all[n + reserved + k], m[k])
    <3>1. all[n + Len(a) + Len(b) + k] = c[k]
      BY <1>11, <2>1
    <3> QED BY <1>10, <2>2, <3>1
  <2> QED BY <1>1, <1>11, <2>3, <2>4, <2>5
<1> HIDE DEF n
<1>14. PICK w : Lengths(m_targets, w) /\ Sized(w) /\ Started(w)
  BY <1>2 DEF Counted
<1>15. /\ Len(m_start_offsets) = dict - 1 /\ n = (dict - 1) * reserved + w[dict - 1]
       /\ \A d \in 1..(dict - 1) : m_start_offsets[d] = (d - 1) * reserved + w[d - 1]
  BY <1>1, <1>14 DEF Started, n
<1>16. /\ \A d \in 0..NumDicts : w[d] \in Nat
       /\ \A d \in 1..NumDicts : d - 1 \in 0..NumDicts /\ w[d] = w[d - 1] + Len(m_targets[d])
       /\ \A d, e \in 0..NumDicts : d <= e => w[d] <= w[e]
  BY <1>6, <1>14, LengthsFacts
<1>17. m_start_offsets' \in Seq(Nat) /\ Len(m_start_offsets') = dict
  <2>1. m_start_offsets' = Append(m_start_offsets, n)
    BY <1>1 DEF n
  <2>2. m_start_offsets' \in Seq(Nat) /\ Len(m_start_offsets') = Len(m_start_offsets) + 1
    BY <1>3, <1>12, <2>1, AppendProperties
  <2> QED BY <1>3, <1>15, <2>2
<1>18. m_start_offsets'[dict] = n /\ \A d \in 1..(dict - 1) : m_start_offsets'[d] = m_start_offsets[d]
  <2>1. m_start_offsets' = Append(m_start_offsets, n)
    BY <1>1 DEF n
  <2> DEFINE last == m_start_offsets'[Len(m_start_offsets) + 1]
  <2>2. last = n
    BY <1>3, <1>12, <2>1, AppendProperties
  <2>3. \A d \in 1..Len(m_start_offsets) : m_start_offsets'[d] = m_start_offsets[d]
    BY <1>3, <1>12, <2>1, AppendProperties
  <2>4. Len(m_start_offsets) + 1 = dict
    BY <1>3, <1>15
  <2> QED BY <1>15, <2>2, <2>3, <2>4
<1>19. Types'
  <2>1. /\ dict' \in 1..(NumDicts + 1) /\ m_offsets' \in Seq(Pair) /\ m_start_offsets' \in Seq(Nat)
        /\ UNCHANGED <<pc, stats, next, m_size, m_targets, entries, overlaps, cur, m_table, padded>>
    BY <1>1, <1>5, <1>13, <1>17
  <2> QED BY <1>2, <2>1 DEF Types, Pair
<1>20. Appended'
  BY <1>1, <1>2 DEF Appended
<1>21. Counted'
  <2>1. Lengths(m_targets', w) /\ Sized(w)'
    BY <1>1, <1>14 DEF Sized
  <2>2. Len(m_offsets') = dict * reserved + w[dict]
    <3>1. w[dict] = w[dict - 1] + Len(m) /\ w[dict - 1] \in Nat
      BY <1>5, <1>16 DEF m
    <3>2. (dict - 1 + 1) * reserved = (dict - 1) * reserved + reserved /\ (dict - 1) * reserved \in Nat
      <4>1. dict - 1 \in Nat
        BY <1>5
      <4> QED BY <1>4, <4>1, Products
    <3>3. dict - 1 + 1 = dict
      BY <1>5
    <3> DEFINE x == (dict - 1) * reserved  y == dict * reserved  u == w[dict - 1]  v == w[dict]
    <3>4. x \in Nat /\ y = x + reserved /\ n = x + u /\ u \in Nat /\ v = u + Len(m)
      BY <1>15, <3>1, <3>2, <3>3
    <3> HIDE DEF x, y, u, v
    <3>5. n + reserved + Len(m) = y + v
      BY <1>4, <1>6, <3>4
    <3> QED BY <1>13, <3>5 DEF y, v
  <2>3. ASSUME NEW d \in 1..dict PROVE m_start_offsets'[d] = (d - 1) * reserved + w[d - 1]
    <3>1. CASE d = dict
      BY <1>15, <1>18, <3>1
    <3>2. CASE d # dict
      <4>1. d \in 1..(dict - 1)
        BY <1>5, <3>2
      <4> QED BY <1>15, <1>18, <4>1
    <3> QED BY <3>1, <3>2
  <2>4. Started(w)'
    BY <1>1, <1>5, <1>17, <2>2, <2>3 DEF Started
  <2> QED BY <2>1, <2>4 DEF Counted
<1>22. Compacted'
  BY <1>1, <1>3 DEF Compacted, Queued
<1>23. Tabled'
  BY <1>1, <1>2, SameTabled
<1>24. Laid'
  <2> SUFFICES ASSUME NEW d \in 1..dict
               PROVE  /\ \A i \in EXCEPTIONS..(reserved - 1) :
                            m_offsets'[m_start_offsets'[d] + i + 1] = [size |-> Runs[i - EXCEPTIONS + 1], offset |-> 0]
                      /\ \A k \in 1..Len(m_targets[d]) :
                            LaidAt(m_table, m_offsets'[m_start_offsets'[d] + (reserved + k - 1) + 1], m_targets[d][k])
    BY <1>1, <1>5 DEF Laid, OffsetAt
  <2>1. CASE d = dict
    <3>1. m_start_offsets'[d] = n /\ m_targets[d] = m
      BY <1>18, <2>1 DEF m
    <3>2. ASSUME NEW i \in EXCEPTIONS..(reserved - 1)
          PROVE  m_offsets'[n + i + 1] = [size |-> Runs[i - EXCEPTIONS + 1], offset |-> 0]
      <4>1. i - 1 \in 1..Len(Runs) /\ i - EXCEPTIONS + 1 = i - 1 /\ n + i + 1 = n + 2 + (i - 1)
        BY <1>4, <1>12
      <4> QED BY <1>13, <4>1
    <3>3. ASSUME NEW k \in 1..Len(m)
          PROVE  LaidAt(m_table, m_offsets'[n + (reserved + k - 1) + 1], m[k])
      <4>1. n + (reserved + k - 1) + 1 = n + reserved + k
        BY <1>4, <1>12
      <4> QED BY <1>13, <4>1
    <3> QED BY <3>1, <3>2, <3>3
  <2>2. CASE d # dict
    <3>0. \A p, q \in Nat : \A r \in 1..p : p <= q /\ r # p =>
            r \in 1..(p - 1) /\ r \in 1..q /\ r - 1 \in 0..q /\ r \in 0..q /\ p - 1 \in 0..q
      OBVIOUS
    <3>1. /\ d \in 1..(dict - 1) /\ d \in 1..NumDicts
          /\ d - 1 \in 0..NumDicts /\ d \in 0..NumDicts /\ dict - 1 \in 0..NumDicts
      <4>1. dict \in Nat /\ NumDicts \in Nat /\ dict <= NumDicts
        BY <1>4, <1>5
      <4> QED BY <2>2, <3>0, <4>1
    <3>2. m_start_offsets'[d] = m_start_offsets[d] /\ m_start_offsets[d] = (d - 1) * reserved + w[d - 1]
      BY <1>15, <1>18, <3>1
    <3> DEFINE f == m_start_offsets[d]
               l == Len(m_targets[d])
    <3>3. f \in Nat /\ l \in Nat /\ f + reserved + l <= n
      <4>1. d - 1 \in Nat /\ d \in Nat /\ dict - 1 \in Nat /\ d <= dict - 1 /\ d - 1 + 1 = d
        BY <1>5, <3>1
      <4>2. /\ (d - 1) * reserved \in Nat /\ d * reserved = (d - 1) * reserved + reserved
        <5>1. (d - 1) * reserved \in Nat /\ (d - 1 + 1) * reserved = (d - 1) * reserved + reserved
          BY <1>4, <4>1, Products
        <5> QED BY <4>1, <5>1
      <4>3. d * reserved <= (dict - 1) * reserved /\ (dict - 1) * reserved \in Nat
        BY <1>4, <4>1, Products
      <4>4. /\ w[d - 1] \in Nat /\ w[d] = w[d - 1] + l /\ w[d] <= w[dict - 1] /\ w[dict - 1] \in Nat
        BY <1>16, <3>1, <4>1
      <4>5. l \in Nat
        BY <1>3, <3>1, TargetsFacts
      <4> DEFINE x == (d - 1) * reserved  y == d * reserved  z == (dict - 1) * reserved
                 u == w[d - 1]  v == w[d]  q == w[dict - 1]
      <4>6. /\ x \in Nat /\ y = x + reserved /\ y <= z /\ z \in Nat /\ u \in Nat /\ v = u + l /\ v <= q
            /\ q \in Nat /\ f = x + u /\ n = z + q
        BY <1>15, <3>2, <4>2, <4>3, <4>4
      <4> HIDE DEF x, y, z, u, v, q, f, l
      <4> QED BY <1>4, <1>12, <4>5, <4>6
    <3>4. /\ \A i \in EXCEPTIONS..(reserved - 1) : OffsetAt(d, i) = [size |-> Runs[i - EXCEPTIONS + 1], offset |-> 0]
          /\ \A k \in 1..l : LaidAt(m_table, OffsetAt(d, reserved + k - 1), m_targets[d][k])
      BY <1>1, <1>2, <3>1 DEF Laid
    <3> HIDE DEF f, l
    <3>5. ASSUME NEW i \in EXCEPTIONS..(reserved - 1)
          PROVE  m_offsets'[f + i + 1] = [size |-> Runs[i - EXCEPTIONS + 1], offset |-> 0]
      <4>1. f + i + 1 \in 1..n
        BY <1>4, <1>12, <3>3
      <4>2. m_offsets[f + i + 1] = [size |-> Runs[i - EXCEPTIONS + 1], offset |-> 0]
        BY <3>4 DEF OffsetAt, f
      <4> QED BY <1>13, <4>1, <4>2
    <3>6. ASSUME NEW k \in 1..l
          PROVE  LaidAt(m_table, m_offsets'[f + (reserved + k - 1) + 1], m_targets[d][k])
      <4>1. f + (reserved + k - 1) + 1 \in 1..n
        BY <1>4, <1>12, <3>3
      <4>2. LaidAt(m_table, m_offsets[f + (reserved + k - 1) + 1], m_targets[d][k])
        BY <3>4 DEF OffsetAt, f
      <4>3. m_offsets'[f + (reserved + k - 1) + 1] = m_offsets[f + (reserved + k - 1) + 1]
        BY <1>13, <4>1
      <4> QED BY <4>2, <4>3
    <3> QED BY <3>2, <3>5, <3>6 DEF f, l
  <2> QED BY <2>1, <2>2
<1>25. MapsMade'
  BY <1>1 DEF MapsMade
<1> QED BY <1>19, <1>20, <1>21, <1>22, <1>23, <1>24, <1>25 DEF IInv

\* A table that is loaded ends with more zeros; what it contains it still
\* contains.
LEMMA ReloadHolds ==
    ASSUME Assumptions, IInv, Reload PROVE IInv'
<1>1. /\ pc = "offsets" /\ ~padded /\ padded' = TRUE
      /\ m_table' = IF NumDicts = 1 THEN m_table ELSE m_table \o Zeros(MaxEntrySize)
      /\ UNCHANGED <<pc, stats, dict, next, m_size, m_targets, entries, overlaps, cur, m_offsets,
                     m_start_offsets, m_maps>>
  BY DEF Reload
<1>2. Types /\ Appended /\ Counted /\ Compacted /\ Tabled /\ Laid
  BY DEF IInv
<1>3. /\ m_targets \in [1..NumDicts -> Seq(Target)] /\ m_table \in Seq(Nat) /\ overlaps = {}
      /\ dict \in 1..(NumDicts + 1)
  BY <1>1, <1>2 DEF Types, Compacted
<1>4. NumDicts \in Nat \ {0} /\ MaxEntrySize \in Nat \ {0}
  BY ConstantsFacts
<1>5. /\ Len(m_table) >= MaxEntrySize /\ \A i \in 1..MaxEntrySize : m_table[i] = 0
      /\ \A t \in AllTargets : is_contained(t, m_table)
      /\ Len(m_table) <= 1 * MaxEntrySize + Budget(AllTargets)
  BY <1>1, <1>2 DEF Tabled
<1>6. IsFiniteSet(AllTargets) /\ AllTargets \subseteq Seq(Nat) /\ AllTargets' = AllTargets
  BY <1>1, <1>3, AllTargetsFacts DEF Assumptions, Target, AllTargets
<1> DEFINE budget == Budget(AllTargets)
<1>7. budget \in Nat
  <2>1. Sorted(AllTargets) \in Seq(Seq(Nat))
    BY <1>6, SortedNotLonger
  <2>2. FlattenSeq(Sorted(AllTargets)) \in Seq(Nat)
    BY <2>1, FlattenFacts
  <2> QED BY <2>2, LenProperties DEF Budget
<1>8. Len(m_table) \in Nat
  BY <1>3, LenProperties
<1> DEFINE zeros == Zeros(MaxEntrySize)
           longer == m_table \o zeros
<1>9. zeros \in Seq(Nat) /\ Len(zeros) = MaxEntrySize
  BY <1>4, ZerosFacts
<1> HIDE DEF zeros
<1>10. longer \in Seq(Nat) /\ Len(longer) = Len(m_table) + MaxEntrySize /\ is_contained(m_table, longer)
  BY <1>3, <1>9, ContainedParts
<1>11. \A i \in 1..(Len(m_table) + MaxEntrySize) :
            longer[i] = IF i <= Len(m_table) THEN m_table[i] ELSE zeros[i - Len(m_table)]
  BY <1>3, <1>9, ConcatProperties
<1>12. ASSUME NEW t \in Seq(Nat), NEW e, LaidAt(m_table, e, t) PROVE LaidAt(longer, e, t)
  BY <1>3, <1>9, <1>12, LaidLonger
<1> HIDE DEF longer
<1>13. m_table' \in {m_table, longer}
  BY <1>1 DEF longer, zeros
<1>14. m_table' \in Seq(Nat) /\ Len(m_table') >= MaxEntrySize /\ Len(m_table') <= 2 * MaxEntrySize + budget
  <2>1. Len(m_table) <= 1 * MaxEntrySize + budget
    BY <1>5
  <2> HIDE DEF budget
  <2>2. CASE m_table' = m_table
    BY <1>3, <1>4, <1>5, <1>7, <1>8, <2>1, <2>2
  <2>3. CASE m_table' = longer
    <3>1. Len(m_table') = Len(m_table) + MaxEntrySize /\ m_table' \in Seq(Nat)
      BY <1>10, <2>3
    <3>2. Len(m_table) + MaxEntrySize >= MaxEntrySize
          /\ Len(m_table) + MaxEntrySize <= 2 * MaxEntrySize + budget
      BY <1>4, <1>7, <1>8, <2>1
    <3> QED BY <3>1, <3>2
  <2> QED BY <1>13, <2>2, <2>3
<1>15. \A i \in 1..MaxEntrySize : m_table'[i] = 0
  <2>1. CASE m_table' = m_table
    BY <1>5, <2>1
  <2>2. CASE m_table' = longer
    <3>1. \A i \in 1..MaxEntrySize : i \in 1..(Len(m_table) + MaxEntrySize) /\ i <= Len(m_table)
      BY <1>4, <1>5, <1>8
    <3>2. \A i \in 1..MaxEntrySize : longer[i] = m_table[i]
      BY <1>11, <3>1
    <3> QED BY <1>5, <2>2, <3>2
  <2> QED BY <1>13, <2>1, <2>2
<1>16. ASSUME NEW t \in AllTargets PROVE is_contained(t, m_table')
  <2>1. is_contained(t, m_table) /\ t \in Seq(Nat)
    BY <1>5, <1>6
  <2>2. is_contained(t, longer)
    BY <1>3, <1>10, <2>1, ContainedTrans
  <2> QED BY <1>13, <2>1, <2>2
<1>17. Types'
  <2>1. /\ m_table' \in Seq(Nat) /\ padded' \in BOOLEAN
        /\ UNCHANGED <<pc, stats, dict, next, m_size, m_targets, entries, overlaps, cur, m_offsets,
                       m_start_offsets>>
    BY <1>1, <1>14
  <2> QED BY <1>2, <2>1 DEF Types
<1>18. Appended'
  BY <1>1, <1>2 DEF Appended
<1>19. Counted'
  BY <1>1, <1>2, SameCounted
<1>20. Compacted'
  BY <1>1, <1>3 DEF Compacted, Queued
<1>21. Tabled'
  BY <1>1, <1>6, <1>14, <1>15, <1>16 DEF Tabled
<1>22. Laid'
  <2> SUFFICES ASSUME NEW d \in 1..(dict - 1)
               PROVE  /\ \A i \in EXCEPTIONS..(reserved - 1) :
                            OffsetAt(d, i) = [size |-> Runs[i - EXCEPTIONS + 1], offset |-> 0]
                      /\ \A k \in 1..Len(m_targets[d]) :
                            LaidAt(m_table', OffsetAt(d, reserved + k - 1), m_targets[d][k])
    BY <1>1 DEF Laid, OffsetAt
  <2>1. /\ \A i \in EXCEPTIONS..(reserved - 1) :
                OffsetAt(d, i) = [size |-> Runs[i - EXCEPTIONS + 1], offset |-> 0]
        /\ \A k \in 1..Len(m_targets[d]) : LaidAt(m_table, OffsetAt(d, reserved + k - 1), m_targets[d][k])
    BY <1>1, <1>2 DEF Laid
  <2>2. ASSUME NEW k \in 1..Len(m_targets[d])
        PROVE  LaidAt(m_table', OffsetAt(d, reserved + k - 1), m_targets[d][k])
    <3>1. d \in 1..NumDicts
      BY <1>3, <1>4
    <3>2. m_targets[d][k] \in Seq(Nat)
      BY <1>3, <3>1, TargetsFacts
    <3>3. LaidAt(m_table, OffsetAt(d, reserved + k - 1), m_targets[d][k])
      BY <2>1
    <3>4. LaidAt(longer, OffsetAt(d, reserved + k - 1), m_targets[d][k])
      BY <1>12, <3>2, <3>3
    <3> QED BY <1>13, <3>3, <3>4
  <2> QED BY <2>1, <2>2
<1>23. MapsMade'
  BY <1>1 DEF MapsMade
<1> QED BY <1>17, <1>18, <1>19, <1>20, <1>21, <1>22, <1>23 DEF IInv

\* The maps are those of the mapped codewords.
LEMMA prepare_for_encodingHolds ==
    ASSUME Assumptions, IInv, prepare_for_encoding PROVE IInv'
<1>1. /\ pc = "offsets" /\ dict > NumDicts /\ pc' = "ready"
      /\ m_maps' = [d \in 1..NumDicts |->
                        [wide |-> MapOf(d, Mapped(d)),
                         narrow |-> MapOf(d, {i \in Mapped(d) : i < reserved \/ i < SmallEntries})]]
      /\ UNCHANGED <<stats, dict, next, m_size, m_targets, entries, overlaps, cur, m_table, m_offsets,
                     m_start_offsets, padded>>
  BY DEF prepare_for_encoding
<1>2. Types /\ Appended /\ Counted /\ Compacted /\ Tabled /\ Laid
  BY DEF IInv
<1>3. overlaps = {} /\ dict \in 1..(NumDicts + 1)
  BY <1>1, <1>2 DEF Types, Compacted
<1>4. NumDicts \in Nat
  BY ConstantsFacts
<1>5. Types'
  BY <1>1, <1>2 DEF Types
<1>6. Appended'
  BY <1>1, <1>2 DEF Appended
<1>7. Counted'
  BY <1>1, <1>2, SameCounted
<1>8. Compacted'
  BY <1>1, <1>3 DEF Compacted, Queued
<1>9. Tabled'
  BY <1>1, <1>2, SameTabled
<1>10. Laid'
  BY <1>1, <1>2 DEF Laid, OffsetAt
<1>11. MapsMade'
  <2>1. dict = NumDicts + 1
    BY <1>1, <1>3, <1>4
  <2> QED BY <1>1, <2>1 DEF MapsMade, MapOf, Mapped, EntryAt, OffsetAt, EntriesOf
<1> QED BY <1>5, <1>6, <1>7, <1>8, <1>9, <1>10, <1>11 DEF IInv

\* Nothing changes.
LEMMA StutterHolds ==
    ASSUME IInv, UNCHANGED vars PROVE IInv'
<1>1. UNCHANGED <<pc, stats, dict, next, m_size, m_targets, entries, overlaps, cur,
                  m_table, m_offsets, m_start_offsets, m_maps, padded>>
  BY DEF vars
<1>2. Types /\ Appended /\ Counted /\ Compacted /\ Tabled /\ Laid /\ MapsMade
  BY DEF IInv
<1>3. Types' /\ Appended'
  BY <1>1, <1>2 DEF Types, Appended
<1>4. Counted' /\ Tabled'
  BY <1>1, <1>2, SameCounted, SameTabled
<1>5. Compacted'
  BY <1>1, <1>2 DEF Compacted, Queued, Reaches, AllTargets
<1>6. Laid'
  BY <1>1, <1>2 DEF Laid, OffsetAt
<1>7. MapsMade'
  <2>1. CASE pc = "ready"
    <3>1. /\ UNCHANGED <<dict, m_size, m_table, m_offsets, m_start_offsets>>
          /\ pc' = "ready" /\ dict = NumDicts + 1
          /\ m_maps' = [d \in 1..NumDicts |->
                            [wide |-> MapOf(d, Mapped(d)),
                             narrow |-> MapOf(d, {i \in Mapped(d) : i < reserved \/ i < SmallEntries})]]
      BY <1>1, <1>2, <2>1 DEF MapsMade
    <3> QED BY <3>1 DEF MapsMade, MapOf, Mapped, EntryAt, OffsetAt, EntriesOf
  <2>2. CASE pc # "ready"
    BY <1>1, <2>2 DEF MapsMade
  <2> QED BY <2>1, <2>2
<1> QED BY <1>3, <1>4, <1>5, <1>6, <1>7 DEF IInv

\* Every step keeps the invariant.
LEMMA NextHolds ==
    ASSUME Assumptions, IInv, [Next]_vars PROVE IInv'
<1>1. CASE Append1
  BY <1>1, Append1Holds
<1>2. CASE NextDictionary
  BY <1>2, NextDictionaryHolds
<1>3. CASE Compact
  BY <1>3, CompactHolds
<1>4. CASE compute_all_overlaps
  BY <1>4, compute_all_overlapsHolds
<1>5. CASE SkipOverlap
  BY <1>5, SkipOverlapHolds
<1>6. CASE MergeOverlap
  BY <1>6, MergeOverlapHolds
<1>7. CASE EraseMerged
  BY <1>7, EraseMergedHolds
<1>8. CASE MergeSingle
  BY <1>8, MergeSingleHolds
<1>9. CASE EraseSingle
  BY <1>9, EraseSingleHolds
<1>10. CASE CreateTable
  BY <1>10, CreateTableHolds
<1>11. CASE CreateOffsets
  BY <1>11, CreateOffsetsHolds
<1>12. CASE prepare_for_encoding
  BY <1>12, prepare_for_encodingHolds
<1>13. CASE Reload
  BY <1>13, ReloadHolds
<1>14. CASE Terminated \/ UNCHANGED vars
  BY <1>14, StutterHolds DEF Terminated
<1> QED BY <1>1, <1>2, <1>3, <1>4, <1>5, <1>6, <1>7, <1>8, <1>9, <1>10, <1>11, <1>12, <1>13, <1>14
        DEF Next, BuildStep

-----------------------------------------------------------------------------
(* What it says of lookups.                                                *)

(***************************************************************************)
(* A map gives for a sequence an index of an entry with its integers, if   *)
(* there is one.                                                           *)
(***************************************************************************)
LEMMA MapFacts ==
    ASSUME NEW d, NEW indexes, NEW bound \in Nat, indexes \subseteq 0..bound
    PROVE  LET map == MapOf(d, indexes)
           IN  /\ \A s : lookup(map, s) # invalid_index =>
                            lookup(map, s) \in indexes /\ EntryAt(d, lookup(map, s)) = s
               /\ \A i \in indexes : lookup(map, EntryAt(d, i)) # invalid_index
<1>0. PICK map : map = MapOf(d, indexes)
  OBVIOUS
<1> DEFINE image == {EntryAt(d, i) : i \in indexes}
           Last1(s, i) == EntryAt(d, i) = s /\ \A j \in indexes : EntryAt(d, j) = s => j <= i
<1>1. map = [s \in image |-> CHOOSE i \in indexes : Last1(s, i)]
  BY <1>0 DEF MapOf
<1>2. ASSUME NEW s \in image PROVE \E i \in indexes : Last1(s, i)
  <2> DEFINE same == {i \in indexes : EntryAt(d, i) = s}
             gaps == {bound - i : i \in same}
  <2>1. \A i \in indexes : i \in Nat /\ bound - i \in Nat
    OBVIOUS
  <2>2. gaps \subseteq Nat /\ gaps # {}
    BY <2>1
  <2>3. Least(gaps) \in gaps /\ \A y \in gaps : Least(gaps) <= y
    BY <2>2, LeastFacts
  <2>4. PICK i \in same : Least(gaps) = bound - i
    BY <2>3
  <2>5. ASSUME NEW j \in same PROVE j <= i
    <3>1. bound - i <= bound - j
      BY <2>3, <2>4
    <3>2. i \in Nat /\ j \in Nat
      BY <2>1
    <3> QED BY <3>1, <3>2
  <2> QED BY <2>5
<1>3. ASSUME NEW s \in image PROVE map[s] \in indexes /\ Last1(s, map[s])
  <2>1. map[s] = CHOOSE i \in indexes : Last1(s, i)
    BY <1>1
  <2>2. \E i \in indexes : Last1(s, i)
    BY <1>2
  <2> HIDE DEF Last1, image
  <2> QED BY <2>1, <2>2
<1>4. DOMAIN map = image
  BY <1>1
<1>5. ASSUME NEW s \in image
      PROVE  lookup(map, s) \in indexes /\ EntryAt(d, lookup(map, s)) = s /\ lookup(map, s) # invalid_index
  <2>1. lookup(map, s) = map[s]
    BY <1>4 DEF lookup
  <2>2. \A i \in indexes : i # invalid_index
    BY DEF invalid_index
  <2> QED BY <1>3, <2>1, <2>2
<1>6. ASSUME NEW s, lookup(map, s) # invalid_index PROVE s \in image
  BY <1>4, <1>6 DEF lookup
<1>7. \A i \in indexes : EntryAt(d, i) \in image
  OBVIOUS
<1> HIDE DEF image
<1> QED BY <1>0, <1>5, <1>6, <1>7

(***************************************************************************)
(* A table has size integers s at offset, as far as copy() copies them.    *)
(***************************************************************************)
Yields(e, s) ==
    /\ e.size = Len(s)
    /\ \A k \in 1..Least({Len(s), MaxEntrySize}) :
            e.offset + k <= Len(m_table) /\ m_table[e.offset + k] = s[k]

\* The lesser of two numbers is not above either.
LEMMA LeastOfTwo ==
    ASSUME NEW a \in Nat, NEW b \in Nat
    PROVE  /\ Least({a, b}) \in Nat
           /\ \A k \in 1..Least({a, b}) : k \in 1..a /\ k \in 1..b
<1> DEFINE S == {a, b}
<1>1. S \subseteq Nat /\ S # {} /\ a \in S /\ b \in S
  OBVIOUS
<1> HIDE DEF S
<1>2. Least(S) \in S /\ \A y \in S : Least(S) <= y
  BY <1>1, LeastFacts
<1>3. Least(S) \in Nat /\ Least(S) <= a /\ Least(S) <= b
  BY <1>1, <1>2
<1>4. \A k \in 1..Least(S) : k \in 1..a /\ k \in 1..b
  BY <1>3
<1> QED BY <1>3, <1>4 DEF S

(***************************************************************************)
(* The mapped entries of a dictionary that is ready are its runs and its   *)
(* targets, but for the last of several dictionaries.                      *)
(***************************************************************************)
LEMMA MappedFacts ==
    ASSUME Assumptions, IInv, pc = "ready", NEW d \in 1..NumDicts
    PROVE  /\ Len(m_targets[d]) \in Nat /\ Len(m_targets[d]) <= NumEntries
           /\ Mapped(d) \subseteq 0..(reserved + NumEntries)
           /\ \A i \in Mapped(d) : i \in EXCEPTIONS..(NumEntries - 1)
           /\ \A i \in Mapped(d) : EntryAt(d, i) \in Seq(Nat) /\ Yields(OffsetAt(d, i), EntryAt(d, i))
           /\ \A k \in 1..Len(m_targets[d]) : EntryAt(d, reserved + k - 1) = m_targets[d][k]
           /\ \A k \in 1..Len(m_targets[d]) :
                k + (IF NumDicts = 1 THEN 0 ELSE reserved) <= Len(m_targets[d]) => reserved + k - 1 \in Mapped(d)
<1>1. Types /\ Appended /\ Counted /\ Tabled /\ Laid /\ MapsMade
  BY DEF IInv
<1>2. m_targets \in [1..NumDicts -> Seq(Target)] /\ m_table \in Seq(Nat) /\ dict = NumDicts + 1
  BY <1>1 DEF Types, MapsMade
<1>3. /\ NumDicts \in Nat \ {0} /\ MaxEntrySize \in Nat \ {0} /\ NumEntries \in Nat
      /\ reserved \in Nat /\ EXCEPTIONS = 2 /\ reserved = Len(Runs) + 2 /\ Len(Runs) \in Nat
      /\ reserved <= NumEntries /\ NumDicts * NumEntries \in Nat
      /\ \A r \in 1..Len(Runs) : Runs[r] \in Nat \ {0}
  BY ConstantsFacts
<1> DEFINE l == Len(m_targets[d])
<1>4. /\ l \in Nat /\ l <= NumEntries /\ m_targets \in Seq(Seq(Target)) /\ Len(m_targets) = NumDicts
      /\ \A k \in 1..l : m_targets[d][k] \in Seq(Nat) /\ Len(m_targets[d][k]) \in Nat
                         /\ Len(m_targets[d][k]) \in 1..MaxEntrySize
  BY <1>1, <1>2, TargetsFacts DEF Appended
<1>5. d \in 1..(dict - 1) /\ dict - 1 = NumDicts
  BY <1>2, <1>3
<1>6. /\ \A i \in EXCEPTIONS..(reserved - 1) : OffsetAt(d, i) = [size |-> Runs[i - EXCEPTIONS + 1], offset |-> 0]
      /\ \A k \in 1..l : LaidAt(m_table, OffsetAt(d, reserved + k - 1), m_targets[d][k])
  BY <1>1, <1>5 DEF Laid
<1>7. PICK c : Lengths(m_targets, c) /\ Sized(c) /\ Started(c)
  BY <1>1 DEF Counted
<1>8. /\ c[0] = 0 /\ \A e \in 0..NumDicts : c[e] \in Nat
      /\ \A e \in 1..NumDicts : e - 1 \in 0..NumDicts /\ c[e] = c[e - 1] + Len(m_targets[e])
  BY <1>4, <1>7, LengthsFacts
<1>9. /\ Len(m_offsets) = NumDicts * reserved + c[NumDicts]
      /\ \A e \in 1..NumDicts : m_start_offsets[e] = (e - 1) * reserved + c[e - 1]
  BY <1>5, <1>7 DEF Started
<1>10. EntriesOf(d) = reserved + l
  <2>1. /\ d - 1 \in Nat /\ d - 1 + 1 = d /\ d \in Nat
    OBVIOUS
  <2>2. (d - 1) * reserved \in Nat /\ d * reserved = (d - 1) * reserved + reserved
    <3>1. (d - 1 + 1) * reserved = (d - 1) * reserved + reserved /\ (d - 1) * reserved \in Nat
      BY <1>3, <2>1, Products
    <3> QED BY <2>1, <3>1
  <2>3. c[d] = c[d - 1] + l /\ c[d - 1] \in Nat
    BY <1>8
  <2>4. (IF d = NumDicts THEN Len(m_offsets) ELSE m_start_offsets[d + 1]) = d * reserved + c[d]
    <3>1. CASE d = NumDicts
      BY <1>9, <3>1
    <3>2. CASE d # NumDicts
      <4>1. d + 1 \in 1..NumDicts /\ d + 1 - 1 = d
        BY <1>3, <3>2
      <4>2. m_start_offsets[d + 1] = (d + 1 - 1) * reserved + c[d + 1 - 1]
        BY <1>9, <4>1
      <4> QED BY <3>2, <4>1, <4>2
    <3> QED BY <3>1, <3>2
  <2>5. m_start_offsets[d] = (d - 1) * reserved + c[d - 1]
    BY <1>9
  <2>6. EntriesOf(d) = (d * reserved + c[d]) - ((d - 1) * reserved + c[d - 1])
    BY <2>4, <2>5 DEF EntriesOf
  <2> DEFINE x == (d - 1) * reserved  y == d * reserved  u == c[d - 1]  v == c[d]
  <2>7. x \in Nat /\ y = x + reserved /\ u \in Nat /\ v = u + l /\ EntriesOf(d) = (y + v) - (x + u)
    BY <2>2, <2>3, <2>6
  <2> HIDE DEF x, y, u, v, l
  <2> QED BY <1>3, <1>4, <2>7
<1>11. NumDicts = 1 => m_size = reserved + l
  <2> SUFFICES ASSUME NumDicts = 1 PROVE m_size = reserved + l
    OBVIOUS
  <2>1. d = 1 /\ 1 - 1 = 0
    OBVIOUS
  <2>2. c[1] = l
    BY <1>4, <1>8, <2>1
  <2> QED BY <1>7, <2>2 DEF Sized
<1> HIDE DEF l
<1>12. ASSUME NEW i \in Mapped(d)
       PROVE  i \in EXCEPTIONS..(reserved - 1) \/ \E k \in 1..l : i = reserved + k - 1
  <2>1. CASE i \in EXCEPTIONS..(reserved - 1)
    BY <2>1
  <2>2. CASE i \in reserved..((IF NumDicts = 1 THEN m_size ELSE EntriesOf(d) - reserved) - 1)
    <3>1. i \in Nat /\ i >= reserved /\ i <= reserved + l - 1
      BY <1>3, <1>4, <1>10, <1>11, <2>2
    <3>2. i - reserved + 1 \in 1..l /\ i = reserved + (i - reserved + 1) - 1
      BY <1>3, <1>4, <3>1
    <3> QED BY <3>2
  <2> QED BY <2>1, <2>2 DEF Mapped
<1>13. ASSUME NEW i \in Mapped(d) PROVE i \in EXCEPTIONS..(NumEntries - 1) /\ i \in 0..(reserved + NumEntries)
  <2>1. CASE i \in EXCEPTIONS..(reserved - 1)
    BY <1>3, <2>1
  <2>2. CASE i \in reserved..((IF NumDicts = 1 THEN m_size ELSE EntriesOf(d) - reserved) - 1)
    <3>1. NumDicts = 1 => m_size <= NumEntries
      <4>1. m_size <= NumDicts * NumEntries
        BY <1>7 DEF Sized
      <4>2. NumDicts = 1 => NumDicts * NumEntries = NumEntries
        BY <1>3
      <4> QED BY <4>1, <4>2
    <3>2. NumDicts # 1 => EntriesOf(d) - reserved = l
      BY <1>3, <1>4, <1>10
    <3>3. m_size \in Nat
      BY <1>1 DEF Types
    <3> QED BY <1>3, <1>4, <2>2, <3>1, <3>2, <3>3
  <2> QED BY <2>1, <2>2 DEF Mapped
<1>14. ASSUME NEW k \in 1..l PROVE EntryAt(d, reserved + k - 1) = m_targets[d][k]
  <2> DEFINE i == reserved + k - 1
             e == OffsetAt(d, i)
             t == m_targets[d][k]
  <2>1. i \notin EXCEPTIONS..(reserved - 1)
    BY <1>3, <1>4
  <2>2. LaidAt(m_table, e, t) /\ t \in Seq(Nat) /\ Len(t) \in Nat
    BY <1>4, <1>6
  <2>3. EntryAt(d, i) = SubSeq(m_table, e.offset + 1, e.offset + e.size)
    BY <2>1 DEF EntryAt
  <2> HIDE DEF e, t, i
  <2>4. /\ e.size = Len(t) /\ e.offset \in Nat /\ e.offset + Len(t) <= Len(m_table)
        /\ \A x \in 1..Len(t) : m_table[e.offset + x] = t[x]
    BY <2>2 DEF LaidAt
  <2>5. OccursAt(t, m_table, e.offset)
    BY <1>2, <2>2, <2>4, OccursIs
  <2> QED BY <2>3, <2>4, <2>5 DEF OccursAt, i, t
<1>15. ASSUME NEW i \in Mapped(d) PROVE EntryAt(d, i) \in Seq(Nat) /\ Yields(OffsetAt(d, i), EntryAt(d, i))
  <2>1. CASE i \in EXCEPTIONS..(reserved - 1)
    <3> DEFINE n == Runs[i - EXCEPTIONS + 1]
               z == Zeros(n)
    <3>1. EntryAt(d, i) = z
      BY <2>1 DEF EntryAt
    <3>2. OffsetAt(d, i) = [size |-> n, offset |-> 0]
      BY <1>6, <2>1
    <3>3. n \in Nat
      <4>1. i - EXCEPTIONS + 1 \in 1..Len(Runs)
        BY <1>3, <2>1
      <4> QED BY <1>3, <4>1
    <3> HIDE DEF n
    <3>4. z \in Seq(Nat) /\ Len(z) = n /\ \A x \in 1..n : z[x] = 0
      BY <3>3, ZerosFacts
    <3> HIDE DEF z
    <3>5. \A k \in 1..Least({n, MaxEntrySize}) : k \in 1..n /\ k \in 1..MaxEntrySize
      BY <1>3, <3>3, LeastOfTwo
    <3>6. Len(m_table) >= MaxEntrySize /\ \A x \in 1..MaxEntrySize : m_table[x] = 0
      BY <1>1 DEF Tabled
    <3>7. Len(m_table) \in Nat
      BY <1>2, LenProperties
    <3>8. ASSUME NEW k \in 1..Least({n, MaxEntrySize})
          PROVE  0 + k <= Len(m_table) /\ m_table[0 + k] = z[k]
      <4>1. k \in 1..n /\ k \in 1..MaxEntrySize
        BY <3>5
      <4>2. k <= Len(m_table) /\ 0 + k = k
        BY <1>3, <3>6, <3>7, <4>1
      <4> QED BY <3>4, <3>6, <4>1, <4>2
    <3> DEFINE e == OffsetAt(d, i)
    <3>9. e.size = n /\ e.offset = 0
      BY <3>2
    <3> HIDE DEF e
    <3>10. Yields(e, z)
      BY <3>4, <3>8, <3>9 DEF Yields
    <3> QED BY <3>1, <3>4, <3>10 DEF e
  <2>2. CASE \E k \in 1..l : i = reserved + k - 1
    <3>1. PICK k \in 1..l : i = reserved + k - 1
      BY <2>2
    <3> DEFINE e == OffsetAt(d, i)
               t == m_targets[d][k]
    <3>2. EntryAt(d, i) = t /\ LaidAt(m_table, e, t) /\ t \in Seq(Nat) /\ Len(t) \in Nat
      BY <1>4, <1>6, <1>14, <3>1
    <3> HIDE DEF e, t
    <3>3. /\ e.size = Len(t) /\ e.offset \in Nat /\ e.offset + Len(t) <= Len(m_table)
          /\ \A x \in 1..Len(t) : m_table[e.offset + x] = t[x]
      BY <3>2 DEF LaidAt
    <3>4. \A x \in 1..Least({Len(t), MaxEntrySize}) : x \in 1..Len(t)
      BY <1>3, <3>2, LeastOfTwo
    <3>5. Len(m_table) \in Nat
      BY <1>2, LenProperties
    <3>6. \A x \in 1..Len(t) : e.offset + x <= Len(m_table)
      <4> DEFINE p == e.offset  q == Len(t)  r == Len(m_table)
      <4>1. p \in Nat /\ q \in Nat /\ r \in Nat /\ p + q <= r
        BY <3>2, <3>3, <3>5
      <4> HIDE DEF p, q, r
      <4>2. \A x \in 1..q : p + x <= r
        BY <4>1
      <4> QED BY <4>2 DEF p, q, r
    <3>7. Yields(e, t)
      BY <3>3, <3>4, <3>6 DEF Yields
    <3> QED BY <3>2, <3>7 DEF e
  <2> QED BY <1>12, <2>1, <2>2
<1>16. ASSUME NEW k \in 1..l, k + (IF NumDicts = 1 THEN 0 ELSE reserved) <= l
       PROVE  reserved + k - 1 \in Mapped(d)
  <2>1. CASE NumDicts = 1
    <3>1. reserved + k - 1 \in reserved..(m_size - 1)
      BY <1>3, <1>4, <1>11, <2>1
    <3> QED BY <2>1, <3>1 DEF Mapped
  <2>2. CASE NumDicts # 1
    <3>1. k + reserved <= l
      BY <1>16, <2>2
    <3>2. reserved + k - 1 \in reserved..(EntriesOf(d) - reserved - 1)
      BY <1>3, <1>4, <1>10, <3>1
    <3> QED BY <2>2, <3>2 DEF Mapped
  <2> QED BY <2>1, <2>2
<1> QED BY <1>4, <1>13, <1>14, <1>15, <1>16 DEF l


-----------------------------------------------------------------------------
(* What it says of the properties.                                         *)

(***************************************************************************)
(* The types, with as many offsets as targets and reserved codewords.      *)
(***************************************************************************)
LEMMA TypesCorrect ==
    ASSUME Assumptions, IInv PROVE TypeOK
<1>1. Types /\ Counted
  BY DEF IInv
<1>2. /\ pc \in {"append", "overlaps", "merge", "single", "table", "offsets", "ready"}
      /\ dict \in 1..(NumDicts + 1) /\ padded \in BOOLEAN /\ m_size \in Nat
      /\ m_targets \in [1..NumDicts -> Seq(Target)]
      /\ overlaps \subseteq [left : DOMAIN entries, right : DOMAIN entries, overlap : Nat]
  BY <1>1 DEF Types
<1>3. /\ NumDicts \in Nat \ {0} /\ reserved \in Nat /\ NumDicts * NumEntries \in Nat
  BY ConstantsFacts
<1>4. PICK c : Lengths(m_targets, c) /\ Sized(c) /\ Started(c)
  BY <1>1 DEF Counted
<1>5. /\ \A d \in 0..NumDicts : c[d] \in Nat
      /\ \A i, j \in 0..NumDicts : i <= j => c[i] <= c[j]
  <2>1. m_targets \in Seq(Seq(Target)) /\ Len(m_targets) = NumDicts
    BY <1>2, TargetsFacts
  <2> QED BY <1>4, <2>1, LengthsFacts
<1>6. /\ dict - 1 \in 0..NumDicts /\ NumDicts \in 0..NumDicts /\ dict - 1 <= NumDicts
      /\ dict - 1 \in Nat /\ NumDicts \in Nat /\ NumDicts - 1 \in Nat
  BY <1>2, <1>3
<1>7. /\ c[dict - 1] \in Nat /\ c[NumDicts] \in Nat /\ c[dict - 1] <= c[NumDicts]
  BY <1>5, <1>6
<1>8. m_size = reserved + c[NumDicts] /\ m_size <= NumDicts * NumEntries
  BY <1>4 DEF Sized
<1> DEFINE p == NumDicts * NumEntries
           m == (NumDicts - 1) * reserved
           n == NumDicts * reserved
           x == (dict - 1) * reserved
           a == c[dict - 1]
           b == c[NumDicts]
<1>9. m \in Nat /\ n = m + reserved /\ x \in Nat /\ x <= n
  <2>1. (NumDicts - 1) * reserved \in Nat /\ (NumDicts - 1 + 1) * reserved = (NumDicts - 1) * reserved + reserved
    BY <1>3, <1>6, Products
  <2>2. NumDicts - 1 + 1 = NumDicts
    BY <1>3
  <2>3. (dict - 1) * reserved \in Nat /\ (dict - 1) * reserved <= NumDicts * reserved
    BY <1>3, <1>6, Products
  <2> QED BY <2>1, <2>2, <2>3
<1>10. p \in Nat /\ a \in Nat /\ b \in Nat /\ a <= b /\ m_size = reserved + b /\ m_size <= p
  BY <1>3, <1>7, <1>8
<1>11. Len(m_offsets) \in {0, x + a}
  <2>1. CASE pc \in {"offsets", "ready"}
    BY <1>4, <2>1 DEF Started
  <2>2. CASE pc \notin {"offsets", "ready"}
    BY <1>4, <2>2 DEF Started
  <2> QED BY <2>1, <2>2
<1> DEFINE l == Len(m_offsets)
<1>12. l \in {0, x + a}
  BY <1>11
<1> HIDE DEF p, m, n, x, a, b, l
<1>13. m_size \in reserved..p
  BY <1>2, <1>3, <1>10
<1>14. l <= m_size + m
  <2>1. CASE l = 0
    BY <1>2, <1>9, <2>1
  <2>2. CASE l = x + a
    BY <1>3, <1>9, <1>10, <2>2
  <2> QED BY <1>12, <2>1, <2>2
<1>15. \A o \in overlaps : {o.left, o.right} \subseteq DOMAIN entries
  <2> SUFFICES ASSUME NEW o \in overlaps PROVE o.left \in DOMAIN entries /\ o.right \in DOMAIN entries
    OBVIOUS
  <2> QED BY <1>2
<1> QED BY <1>2, <1>13, <1>14, <1>15 DEF TypeOK, p, m, l

(***************************************************************************)
(* The targets are reachable, at no more room than they take themselves.   *)
(***************************************************************************)
LEMMA CompactingCorrect ==
    ASSUME Assumptions, IInv PROVE TargetsStayReachable /\ CompactingSaves
<1>1. Types /\ Compacted /\ Tabled
  BY DEF IInv
<1>2. DOMAIN entries = 1..Len(entries)
  BY <1>1, EntryFacts DEF Types
<1>3. TargetsStayReachable
  BY <1>1, <1>2 DEF Compacted, Tabled, Reaches, TargetsStayReachable
<1>4. CompactingSaves
  BY <1>1 DEF Tabled, Budget, CompactingSaves
<1> QED BY <1>3, <1>4

(***************************************************************************)
(* A codeword found in a map stands for the sequence, and the targets      *)
(* mapped are found.                                                       *)
(***************************************************************************)
LEMMA LookupsCorrect ==
    ASSUME Assumptions, IInv, pc = "ready", NEW d \in 1..NumDicts
    PROVE  /\ \A s : lookup(m_maps[d].wide, s) # invalid_index =>
                        /\ lookup(m_maps[d].wide, s) \in EXCEPTIONS..(NumEntries - 1)
                        /\ Yields(OffsetAt(d, lookup(m_maps[d].wide, s)), s)
           /\ \A s : lookup(m_maps[d].narrow, s) # invalid_index =>
                        /\ lookup(m_maps[d].narrow, s) \in EXCEPTIONS..(SmallEntries - 1)
                        /\ Yields(OffsetAt(d, lookup(m_maps[d].narrow, s)), s)
           /\ \A k \in 1..Len(m_targets[d]) :
                k + (IF NumDicts = 1 THEN 0 ELSE reserved) <= Len(m_targets[d])
                    => lookup(m_maps[d].wide, m_targets[d][k]) # invalid_index
<1> DEFINE wide == Mapped(d)
           narrow == {i \in Mapped(d) : i < reserved \/ i < SmallEntries}
           bound == reserved + NumEntries
<1>1. m_maps[d].wide = MapOf(d, wide) /\ m_maps[d].narrow = MapOf(d, narrow)
  BY DEF IInv, MapsMade
<1>2. /\ reserved \in Nat /\ NumEntries \in Nat /\ SmallEntries \in Nat /\ reserved < SmallEntries
      /\ EXCEPTIONS = 2 /\ bound \in Nat
  BY ConstantsFacts
<1>3. /\ wide \subseteq 0..bound
      /\ \A i \in wide : i \in EXCEPTIONS..(NumEntries - 1)
      /\ \A i \in wide : EntryAt(d, i) \in Seq(Nat) /\ Yields(OffsetAt(d, i), EntryAt(d, i))
      /\ \A k \in 1..Len(m_targets[d]) : EntryAt(d, reserved + k - 1) = m_targets[d][k]
      /\ \A k \in 1..Len(m_targets[d]) :
           k + (IF NumDicts = 1 THEN 0 ELSE reserved) <= Len(m_targets[d]) => reserved + k - 1 \in wide
  BY MappedFacts
<1>4. narrow \subseteq wide /\ \A i \in narrow : i < SmallEntries
  <2>1. \A i \in narrow : i \in EXCEPTIONS..(NumEntries - 1) /\ (i < reserved \/ i < SmallEntries)
    BY <1>3
  <2> HIDE DEF bound
  <2> QED BY <1>2, <2>1
<1>5. \A i \in narrow : i \in EXCEPTIONS..(SmallEntries - 1)
  <2>1. \A i \in narrow : i \in EXCEPTIONS..(NumEntries - 1) /\ i < SmallEntries
    BY <1>3, <1>4
  <2> HIDE DEF narrow, wide, bound
  <2> QED BY <1>2, <2>1
<1> HIDE DEF wide, narrow, bound
<1>6. narrow \subseteq 0..bound
  BY <1>3, <1>4
<1>7. PICK w : w = MapOf(d, wide)
  OBVIOUS
<1>8. PICK b : b = MapOf(d, narrow)
  OBVIOUS
<1>9. /\ \A s : lookup(w, s) # invalid_index => lookup(w, s) \in wide /\ EntryAt(d, lookup(w, s)) = s
      /\ \A i \in wide : lookup(w, EntryAt(d, i)) # invalid_index
  <2>1. PICK m, n : m = wide /\ n = bound
    OBVIOUS
  <2>2. n \in Nat /\ m \subseteq 0..n /\ w = MapOf(d, m)
    BY <1>2, <1>3, <1>7, <2>1
  <2>3. \A s : lookup(w, s) # invalid_index => lookup(w, s) \in m /\ EntryAt(d, lookup(w, s)) = s
    <3>1. \A s : lookup(MapOf(d, m), s) # invalid_index =>
                     lookup(MapOf(d, m), s) \in m /\ EntryAt(d, lookup(MapOf(d, m), s)) = s
      BY <2>2, MapFacts, Zenon
    <3> QED BY <2>2, <3>1
  <2>4. \A i \in m : lookup(w, EntryAt(d, i)) # invalid_index
    BY <2>2, MapFacts
  <2> QED BY <2>1, <2>3, <2>4
<1>10. \A s : lookup(b, s) # invalid_index => lookup(b, s) \in narrow /\ EntryAt(d, lookup(b, s)) = s
  <2>1. PICK m, n : m = narrow /\ n = bound
    OBVIOUS
  <2>2. n \in Nat /\ m \subseteq 0..n /\ b = MapOf(d, m)
    BY <1>2, <1>6, <1>8, <2>1
  <2>3. \A s : lookup(b, s) # invalid_index => lookup(b, s) \in m /\ EntryAt(d, lookup(b, s)) = s
    <3>1. \A s : lookup(MapOf(d, m), s) # invalid_index =>
                     lookup(MapOf(d, m), s) \in m /\ EntryAt(d, lookup(MapOf(d, m), s)) = s
      BY <2>2, MapFacts, Zenon
    <3> QED BY <2>2, <3>1
  <2> QED BY <2>1, <2>3
<1>11. ASSUME NEW s, lookup(w, s) # invalid_index
       PROVE  lookup(w, s) \in EXCEPTIONS..(NumEntries - 1) /\ Yields(OffsetAt(d, lookup(w, s)), s)
  <2>1. lookup(w, s) \in wide /\ EntryAt(d, lookup(w, s)) = s
    BY <1>9, <1>11
  <2> QED BY <1>3, <2>1
<1>12. ASSUME NEW s, lookup(b, s) # invalid_index
       PROVE  lookup(b, s) \in EXCEPTIONS..(SmallEntries - 1) /\ Yields(OffsetAt(d, lookup(b, s)), s)
  <2>1. lookup(b, s) \in narrow /\ EntryAt(d, lookup(b, s)) = s
    BY <1>10, <1>12
  <2> QED BY <1>3, <1>4, <1>5, <2>1
<1>13. ASSUME NEW k \in 1..Len(m_targets[d]),
              k + (IF NumDicts = 1 THEN 0 ELSE reserved) <= Len(m_targets[d])
       PROVE  lookup(w, m_targets[d][k]) # invalid_index
  BY <1>3, <1>9, <1>13
<1> QED BY <1>1, <1>7, <1>8, <1>11, <1>12, <1>13

\* The same as the properties that the runs check.
LEMMA LookupCorrect ==
    ASSUME Assumptions, IInv PROVE LookupFaithful /\ TargetsFound
<1>1. ASSUME pc = "ready", NEW d \in 1..NumDicts
      PROVE  DOMAIN m_targets[d] = 1..Len(m_targets[d])
  <2>1. m_targets[d] \in Seq(Target)
    BY DEF IInv, Types
  <2> QED BY <2>1, LenProperties
<1>2. TargetsFound
  BY <1>1, LookupsCorrect DEF TargetsFound
<1>3. LookupFaithful
  <2>1. ASSUME pc = "ready", NEW d \in 1..NumDicts
        PROVE  /\ \A s : lookup(m_maps[d].wide, s) # invalid_index =>
                        /\ lookup(m_maps[d].wide, s) \in EXCEPTIONS..(NumEntries - 1)
                        /\ Yields(OffsetAt(d, lookup(m_maps[d].wide, s)), s)
               /\ \A s : lookup(m_maps[d].narrow, s) # invalid_index =>
                        /\ lookup(m_maps[d].narrow, s) \in EXCEPTIONS..(SmallEntries - 1)
                        /\ Yields(OffsetAt(d, lookup(m_maps[d].narrow, s)), s)
    BY <2>1, LookupsCorrect
  <2> QED BY <2>1 DEF LookupFaithful, Yields
<1> QED BY <1>2, <1>3

-----------------------------------------------------------------------------

(***************************************************************************)
(* In every state each target is part of an entry that is still valid, or  *)
(* of the table: merging in whatever order, of whatever overlaps, loses    *)
(* none, and search() always finds what CreateOffsets looks for.           *)
(***************************************************************************)
THEOREM TargetsAlwaysReachable ==
    ASSUME Assumptions PROVE Spec => []TargetsStayReachable
<1>1. Init => IInv
  BY InitHolds
<1>2. IInv /\ [Next]_vars => IInv'
  BY NextHolds
<1>3. IInv => TargetsStayReachable
  BY CompactingCorrect
<1> QED BY <1>1, <1>2, <1>3, PTL DEF Spec

(***************************************************************************)
(* A dictionary is as its users take it to be: besides, the table is no    *)
(* longer than the targets one after the other, lookup() returns only      *)
(* codewords of the encoding asked for, at which copy() finds exactly the  *)
(* integers that were looked up, and of one dictionary every target, of    *)
(* several all but the last `reserved' targets of each are found.          *)
(***************************************************************************)
THEOREM DictionaryAlwaysFaithful ==
    ASSUME Assumptions PROVE Spec => []DictionaryFaithful
<1>1. Init => IInv
  BY InitHolds
<1>2. IInv /\ [Next]_vars => IInv'
  BY NextHolds
<1>3. IInv => DictionaryFaithful
  BY TypesCorrect, CompactingCorrect, LookupCorrect DEF DictionaryFaithful
<1> QED BY <1>1, <1>2, <1>3, PTL DEF Spec
=============================================================================
