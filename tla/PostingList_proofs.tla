------------------------- MODULE PostingList_proofs -------------------------
(***************************************************************************)
(* Proofs about PostingList, for every block size, universe and list, and  *)
(* every order the blocks may be stored in: the enumerator implements the  *)
(* cursor of PostingCursor.                                                *)
(***************************************************************************)
EXTENDS PostingList, FiniteSetTheorems, SequenceTheorems, WellFoundedInduction, TLAPS

-----------------------------------------------------------------------------
(* Blocks and positions.                                                   *)

(***************************************************************************)
(* Naturals of which there is one have a least one.                        *)
(***************************************************************************)
LEMMA LeastNat ==
    ASSUME NEW S, S \subseteq Nat, S # {}
    PROVE  \E x \in S : \A y \in S : x <= y
<1>1. PICK x \in S : \A y \in S : ~(<<y, x>> \in OpToRel(<, Nat))
  BY NatLessThanWellFounded, WFMin
<1>2. \A y \in S : ~(y < x)
  BY <1>1 DEF OpToRel
<1> QED BY <1>2

(***************************************************************************)
(* Multiplication is monotonic.                                            *)
(***************************************************************************)
LEMMA TimesMonotonic ==
    ASSUME NEW a \in Nat, NEW b \in Nat, NEW c \in Nat, a <= b
    PROVE  a * c \in Nat /\ b * c \in Nat /\ a * c <= b * c /\ (a + 1) * c = a * c + c
<1>1. PICK d \in Nat : b = a + d
  <2>1. b - a \in Nat /\ b = a + (b - a)
    OBVIOUS
  <2> QED BY <2>1
<1>2. d * c \in Nat /\ a * c \in Nat
  OBVIOUS
<1>3. b * c = a * c + d * c
  BY <1>1
<1> QED BY <1>2, <1>3

(***************************************************************************)
(* A number lies between two multiples of a positive one.                  *)
(***************************************************************************)
LEMMA Division ==
    ASSUME NEW x \in Nat, NEW m \in Nat, m > 0
    PROVE  /\ x \div m \in Nat
           /\ (x \div m) * m <= x /\ x < (x \div m) * m + m
           /\ x % m = x - (x \div m) * m
  OBVIOUS

(***************************************************************************)
(* How the blocks divide the n postings of a list.                         *)
(***************************************************************************)
LEMMA BlocksDivide ==
    ASSUME NEW n \in Nat, n > 0
    PROVE  /\ Blocks(n) \in Nat /\ Blocks(n) > 0
           /\ \A b \in 0..(Blocks(n) - 1) :
                /\ b * BlockSize \in Nat
                /\ BlockLen(n, b) \in 1..BlockSize
                /\ b * BlockSize + BlockLen(n, b) <= n
                /\ b < Blocks(n) - 1 => BlockLen(n, b) = BlockSize
                /\ b = Blocks(n) - 1 => b * BlockSize + BlockLen(n, b) = n
                /\ (b + 1) * BlockSize = b * BlockSize + BlockSize
<1> DEFINE B == BlockSize
           q == Blocks(n)
<1>0. B \in Nat /\ B > 0
  BY BlockSizeAssumption
<1>1. q \in Nat /\ q * B <= n + B - 1 /\ n + B - 1 < q * B + B
  BY <1>0, Division, n + B - 1 \in Nat DEF Blocks
<1>2. q > 0
  <2>1. q = 0 => q * B = 0
    BY <1>0
  <2> QED BY <1>0, <1>1, <2>1
<1>3. ASSUME NEW b \in 0..(q - 1)
      PROVE  /\ b * B \in Nat
             /\ BlockLen(n, b) \in 1..B
             /\ b * B + BlockLen(n, b) <= n
             /\ b < q - 1 => BlockLen(n, b) = B
             /\ b = q - 1 => b * B + BlockLen(n, b) = n
             /\ (b + 1) * B = b * B + B
  <2>0. b \in Nat /\ b <= q - 1 /\ q - 1 \in Nat
    BY <1>1, <1>2
  <2>1. b * B \in Nat /\ b * B <= (q - 1) * B /\ (b + 1) * B = b * B + B /\ (q - 1) * B \in Nat
    BY <2>0, <1>0, TimesMonotonic
  <2>2. q * B = (q - 1) * B + B
    <3>1. (q - 1) + 1 = q
      BY <2>0, <1>1
    <3> QED BY <2>0, <1>0, <3>1, TimesMonotonic
  <2>3. (q - 1) * B < n /\ n <= (q - 1) * B + B
    BY <2>1, <2>2, <1>0, <1>1
  <2>4. b < q - 1 => (b + 1) * B <= (q - 1) * B
    <3>1. b + 1 \in Nat
      BY <2>0
    <3> QED BY <2>0, <3>1, <1>0, TimesMonotonic
  <2>5. CASE b < q - 1
    BY <2>0, <2>1, <2>3, <2>4, <2>5, <1>0 DEF BlockLen
  <2>6. CASE b = q - 1
    <3>1. CASE (b + 1) * B <= n
      BY <3>1, <2>1, <2>3, <2>6, <1>0 DEF BlockLen
    <3>2. CASE ~((b + 1) * B <= n)
      <4>1. n < b * B + B /\ b * B < n
        BY <3>2, <2>1, <2>3, <2>6, <1>0
      <4> DEFINE p == n \div B
      <4>2. p \in Nat /\ p * B <= n /\ n < p * B + B /\ n % B = n - p * B
        BY <1>0, Division
      <4>3. p = b
        <5>1. p < b => p * B + B <= b * B
          <6>1. p < b => p + 1 \in Nat /\ p + 1 <= b
            BY <4>2, <2>0
          <6>2. (p + 1) * B = p * B + B
            BY <4>2, <1>0, TimesMonotonic
          <6> QED BY <6>1, <6>2, <2>0, <1>0, TimesMonotonic
        <5>2. b < p => b * B + B <= p * B
          <6>1. b < p => b + 1 \in Nat /\ b + 1 <= p
            BY <4>2, <2>0
          <6> QED BY <6>1, <2>1, <4>2, <1>0, TimesMonotonic
        <5>3. p * B \in Nat
          BY <4>2, <1>0, TimesMonotonic
        <5> HIDE DEF p
        <5> QED BY <5>1, <5>2, <5>3, <4>1, <4>2, <2>0, <2>1, <1>0
      <4>4. BlockLen(n, b) = n - b * B
        BY <4>2, <4>3, <3>2 DEF BlockLen
      <4> QED BY <4>4, <4>1, <2>1, <2>6, <1>0
    <3> QED BY <3>1, <3>2
  <2> QED BY <2>0, <2>5, <2>6, <1>1
<1> QED BY <1>1, <1>2, <1>3

(***************************************************************************)
(* The block a posting is in, as move finds it.                            *)
(***************************************************************************)
LEMMA BlockOfPosition ==
    ASSUME NEW n \in Nat, n > 0, NEW pos \in 0..(n - 1)
    PROVE  LET b == pos \div BlockSize
           IN  /\ b \in 0..(Blocks(n) - 1)
               /\ b * BlockSize <= pos /\ pos < b * BlockSize + BlockLen(n, b)
<1> DEFINE B == BlockSize
           q == Blocks(n)
           b == pos \div B
<1>0. B \in Nat /\ B > 0
  BY BlockSizeAssumption
<1>1. q \in Nat /\ q * B <= n + B - 1 /\ n + B - 1 < q * B + B
  BY <1>0, Division, n + B - 1 \in Nat DEF Blocks
<1>2. b \in Nat /\ b * B <= pos /\ pos < b * B + B /\ b * B \in Nat
  BY <1>0, Division, TimesMonotonic
<1>3. b < q
  <2>1. q <= b => q * B <= b * B /\ b * B \in Nat /\ q * B \in Nat
    BY <1>0, <1>1, <1>2, TimesMonotonic
  <2> HIDE DEF q, b
  <2> QED BY <2>1, <1>0, <1>1, <1>2
<1>4. b \in 0..(q - 1)
  BY <1>1, <1>2, <1>3
<1>5. /\ b < q - 1 => BlockLen(n, b) = B
      /\ b = q - 1 => b * B + BlockLen(n, b) = n
  BY <1>4, BlocksDivide
<1> HIDE DEF q, b
<1> QED BY <1>0, <1>1, <1>2, <1>3, <1>4, <1>5 DEF q, b

-----------------------------------------------------------------------------
(* Posting lists.                                                          *)

(***************************************************************************)
(* What ListsAssumption and UniverseAssumption say of one list.            *)
(***************************************************************************)
LEMMA ListType ==
    ASSUME NEW l \in Lists
    PROVE  /\ Len(l.docs) \in Nat /\ Len(l.docs) > 0
           /\ \A p \in 1..Len(l.docs) : l.docs[p] \in Nat /\ l.docs[p] < Universe
           /\ \A p \in 1..Len(l.docs) : l.freqs[p] \in 1..(Word - 1)
           /\ \A p \in 2..Len(l.docs) : l.docs[p - 1] < l.docs[p]
           /\ Universe \in Nat /\ Word \in Nat /\ Universe < Word /\ Universe > 0
<1>1. /\ l.docs \in Seq(0..(Universe - 1)) /\ l.docs # <<>>
      /\ \A i \in 2..Len(l.docs) : l.docs[i - 1] < l.docs[i]
      /\ l.freqs \in [1..Len(l.docs) -> 1..(Word - 1)]
  BY ListsAssumption
<1>2. Len(l.docs) \in Nat /\ Len(l.docs) > 0
  BY <1>1, EmptySeq, LenProperties
<1>3. \A p \in 1..Len(l.docs) : l.docs[p] \in 0..(Universe - 1)
  BY <1>1, ElementOfSeq
<1>4. \A p \in 1..Len(l.docs) : l.freqs[p] \in 1..(Word - 1)
  BY <1>1
<1>5. Universe \in Nat /\ Word \in Nat /\ Universe < Word
  BY UniverseAssumption
<1>6. Universe > 0
  BY <1>2, <1>3, <1>5
<1>7. \A p \in 1..Len(l.docs) : l.docs[p] \in Nat /\ l.docs[p] < Universe
  BY <1>3, <1>5
<1>8. \A p \in 2..Len(l.docs) : l.docs[p - 1] < l.docs[p]
  BY <1>1
<1> QED BY <1>2, <1>4, <1>5, <1>6, <1>7, <1>8

(***************************************************************************)
(* The docids of a list increase from any posting to any later one.        *)
(***************************************************************************)
LEMMA Increasing ==
    ASSUME NEW l \in Lists, NEW i \in 1..Len(l.docs), NEW j \in 1..Len(l.docs), i <= j
    PROVE  l.docs[i] <= l.docs[j] /\ (i < j => l.docs[i] < l.docs[j])
<1> DEFINE n == Len(l.docs)
           S == {m \in 1..n : i < m /\ ~(l.docs[i] < l.docs[m])}
<1>1. /\ n \in Nat
      /\ \A p \in 1..n : l.docs[p] \in Nat
      /\ \A p \in 2..n : l.docs[p - 1] < l.docs[p]
  BY ListType
<1>2. S = {}
  <2> SUFFICES ASSUME S # {} PROVE FALSE
    OBVIOUS
  <2>1. S \subseteq Nat
    BY <1>1
  <2>2. PICK m \in S : \A y \in S : m <= y
    BY <2>1, LeastNat
  <2>3. m \in 2..n /\ i \in 1..n /\ i < m /\ m - 1 \in 1..n
    BY <1>1, <2>2
  <2>4. l.docs[m - 1] < l.docs[m] /\ l.docs[m] \in Nat /\ l.docs[m - 1] \in Nat /\ l.docs[i] \in Nat
    BY <1>1, <2>3
  <2>5. l.docs[i] <= l.docs[m - 1]
    <3>1. CASE i = m - 1
      BY <2>4, <3>1
    <3>2. CASE i # m - 1
      <4>1. i < m - 1 /\ m - 1 \notin S
        BY <2>2, <2>3, <3>2
      <4> QED BY <4>1, <2>3, <2>4
    <3> QED BY <3>1, <3>2
  <2> HIDE DEF S
  <2>6. l.docs[i] < l.docs[m]
    BY <2>4, <2>5
  <2> QED BY <2>2, <2>6 DEF S
<1>3. i < j => l.docs[i] < l.docs[j]
  BY <1>2
<1>4. l.docs[i] \in Nat /\ l.docs[j] \in Nat
  BY <1>1
<1>5. CASE i < j
  BY <1>3, <1>4, <1>5
<1>6. CASE i = j
  BY <1>4, <1>6
<1> QED BY <1>1, <1>5, <1>6

(***************************************************************************)
(* Words: nothing wraps where a result is one.                             *)
(***************************************************************************)
LEMMA UInt32InRange ==
    ASSUME NEW x \in 0..(Word - 1)
    PROVE  UInt32(x) = x
  BY UniverseAssumption DEF UInt32

(***************************************************************************)
(* Where the docids of a block may begin, and its maximum.                 *)
(***************************************************************************)
LEMMA BlockBounds ==
    ASSUME NEW l \in Lists, NEW b \in 0..(Blocks(Len(l.docs)) - 1)
    PROVE  /\ BlockBase(l, b) = IF b = 0 THEN 0 ELSE l.docs[b * BlockSize] + 1
           /\ BlockMax(l, b) = l.docs[b * BlockSize + BlockLen(Len(l.docs), b)]
           /\ BlockMax(l, b) \in Nat /\ BlockMax(l, b) < Universe
           /\ b > 0 => /\ b * BlockSize \in 1..Len(l.docs)
                       /\ b - 1 \in 0..(Blocks(Len(l.docs)) - 1)
                       /\ BlockMax(l, b - 1) = l.docs[b * BlockSize]
           /\ b * BlockSize + BlockLen(Len(l.docs), b) \in 1..Len(l.docs)
<1> DEFINE n == Len(l.docs)
           B == BlockSize
<1>1. /\ n \in Nat /\ n > 0
      /\ \A p \in 1..n : l.docs[p] \in Nat /\ l.docs[p] < Universe
      /\ Universe \in Nat /\ Word \in Nat /\ Universe < Word
  BY ListType
<1>2. /\ Blocks(n) \in Nat
      /\ b * B \in Nat /\ BlockLen(n, b) \in 1..B /\ b * B + BlockLen(n, b) <= n
      /\ (b + 1) * B = b * B + B
      /\ B \in Nat /\ B > 0
  BY <1>1, BlocksDivide, BlockSizeAssumption
<1>3. b * B + BlockLen(n, b) \in 1..n
  BY <1>1, <1>2
<1>4. ASSUME b > 0
      PROVE  /\ b * B \in 1..n /\ b - 1 \in 0..(Blocks(n) - 1)
             /\ BlockMax(l, b - 1) = l.docs[b * B]
  <2>1. b - 1 \in 0..(Blocks(n) - 1) /\ b - 1 < Blocks(n) - 1 /\ (b - 1) + 1 = b
    BY <1>2, <1>4
  <2>2. BlockLen(n, b - 1) = B /\ b * B = (b - 1) * B + B /\ (b - 1) * B \in Nat
    BY <2>1, <1>1, BlocksDivide
  <2>3. b * B \in 1..n
    BY <2>2, <1>1, <1>2
  <2>4. BlockMax(l, b - 1) = l.docs[b * B]
    BY <2>2 DEF BlockMax
  <2> QED BY <2>1, <2>3, <2>4
<1>5. BlockBase(l, b) = IF b = 0 THEN 0 ELSE l.docs[b * B] + 1
  <2>1. CASE b = 0
    BY <2>1 DEF BlockBase
  <2>2. CASE b # 0
    <3>1. b * B \in 1..n /\ b * B # 0
      BY <2>2, <1>2, <1>4
    <3>2. l.docs[b * B] + 1 \in 0..(Word - 1)
      BY <3>1, <1>1
    <3> QED BY <2>2, <3>1, <3>2, UInt32InRange DEF BlockBase, LastDoc
  <2> QED BY <2>1, <2>2
<1>6. BlockMax(l, b) = l.docs[b * B + BlockLen(n, b)]
  BY DEF BlockMax
<1> QED BY <1>1, <1>3, <1>4, <1>5, <1>6

(***************************************************************************)
(* What is subtracted from a docid to give its gap: the docid after the    *)
(* one before it.                                                          *)
(***************************************************************************)
After(l, p) == IF p = 1 THEN 0 ELSE l.docs[p - 1] + 1

(***************************************************************************)
(* A gap is what the docid exceeds that by, though it is computed modulo   *)
(* 2^32 from uint32_t(-1).                                                 *)
(***************************************************************************)
LEMMA GapValue ==
    ASSUME NEW l \in Lists, NEW p \in 1..Len(l.docs)
    PROVE  /\ UInt32(UInt32(l.docs[p] - LastDoc(l, p - 1)) - 1) = l.docs[p] - After(l, p)
           /\ l.docs[p] - After(l, p) \in 0..(Word - 1) /\ After(l, p) \in Nat
<1>1. /\ l.docs[p] \in Nat /\ l.docs[p] < Universe
      /\ Universe \in Nat /\ Word \in Nat /\ Universe < Word
  BY ListType
<1>2. CASE p = 1
  <2>1. LastDoc(l, p - 1) = Word - 1 /\ After(l, p) = 0
    BY <1>2 DEF LastDoc, NoSum, After
  <2>2. UInt32(l.docs[p] - (Word - 1)) = l.docs[p] + 1
    BY <1>1 DEF UInt32
  <2>3. UInt32((l.docs[p] + 1) - 1) = l.docs[p]
    BY <1>1 DEF UInt32
  <2> QED BY <1>1, <2>1, <2>2, <2>3
<1>3. CASE p # 1
  <2>1. p \in 2..Len(l.docs) /\ p - 1 \in 1..Len(l.docs) /\ p - 1 # 0
    BY <1>3
  <2>2. l.docs[p - 1] \in Nat /\ l.docs[p - 1] < l.docs[p]
    BY <2>1, ListType
  <2>3. LastDoc(l, p - 1) = l.docs[p - 1] /\ After(l, p) = l.docs[p - 1] + 1
    BY <2>1, <1>3 DEF LastDoc, After
  <2>4. UInt32(l.docs[p] - l.docs[p - 1]) = l.docs[p] - l.docs[p - 1]
    BY <1>1, <2>2 DEF UInt32
  <2>5. UInt32((l.docs[p] - l.docs[p - 1]) - 1) = l.docs[p] - l.docs[p - 1] - 1
    BY <1>1, <2>2 DEF UInt32
  <2>6. l.docs[p] - After(l, p) = l.docs[p] - l.docs[p - 1] - 1
    BY <1>1, <2>2, <2>3
  <2>7. l.docs[p] - l.docs[p - 1] - 1 \in 0..(Word - 1) /\ l.docs[p - 1] + 1 \in Nat
    BY <1>1, <2>2
  <2> QED BY <2>3, <2>4, <2>5, <2>6, <2>7
<1> QED BY <1>2, <1>3

(***************************************************************************)
(* The gaps and the freqs of a block, and what the readers make of them.   *)
(***************************************************************************)
LEMMA BlockValues ==
    ASSUME NEW l \in Lists, NEW b \in 0..(Blocks(Len(l.docs)) - 1)
    PROVE  LET size == BlockLen(Len(l.docs), b)
           IN  /\ size \in Nat /\ size > 0
               /\ DocGaps(l, b) \in Seq(Nat) /\ Len(DocGaps(l, b)) = size
               /\ Freqs(l, b) \in Seq(Nat) /\ Len(Freqs(l, b)) = size
               /\ \A i \in 1..size :
                    /\ b * BlockSize + i \in 1..Len(l.docs)
                    /\ DocGaps(l, b)[i] = l.docs[b * BlockSize + i] - After(l, b * BlockSize + i)
                    /\ UInt32(Freqs(l, b)[i] + 1) = l.freqs[b * BlockSize + i]
<1> DEFINE n == Len(l.docs)
           B == BlockSize
           size == BlockLen(n, b)
<1>1. n \in Nat /\ n > 0 /\ Word \in Nat
  BY ListType
<1>2. /\ b * B \in Nat /\ size \in 1..B /\ b * B + size <= n /\ B \in Nat
  BY <1>1, BlocksDivide, BlockSizeAssumption
<1>3. \A i \in 1..size : b * B + i \in 1..n
  BY <1>1, <1>2
<1>4. ASSUME NEW i \in 1..size
      PROVE  /\ DocGaps(l, b)[i] = l.docs[b * B + i] - After(l, b * B + i)
             /\ DocGaps(l, b)[i] \in Nat
  <2>1. b * B + i \in 1..n
    BY <1>3
  <2>2. DocGaps(l, b)[i] = UInt32(UInt32(l.docs[b * B + i] - LastDoc(l, (b * B + i) - 1)) - 1)
    BY DEF DocGaps
  <2> QED BY <2>1, <2>2, GapValue, <1>1
<1>5. ASSUME NEW i \in 1..size
      PROVE  Freqs(l, b)[i] \in Nat /\ UInt32(Freqs(l, b)[i] + 1) = l.freqs[b * B + i]
  <2>1. l.freqs[b * B + i] \in 1..(Word - 1)
    BY <1>3, ListType
  <2>2. Freqs(l, b)[i] = UInt32(l.freqs[b * B + i] - 1)
    BY DEF Freqs
  <2>3. Freqs(l, b)[i] = l.freqs[b * B + i] - 1
    BY <2>1, <2>2, <1>1, UInt32InRange
  <2>4. UInt32((l.freqs[b * B + i] - 1) + 1) = l.freqs[b * B + i]
    BY <2>1, <1>1 DEF UInt32
  <2> QED BY <2>1, <2>3, <2>4, <1>1
<1>6. DocGaps(l, b) \in Seq(Nat) /\ Len(DocGaps(l, b)) = size
  <2>1. DocGaps(l, b) \in [1..size -> Nat]
    BY <1>4 DEF DocGaps
  <2> QED BY <2>1, <1>2
<1>7. Freqs(l, b) \in Seq(Nat) /\ Len(Freqs(l, b)) = size
  <2>1. Freqs(l, b) \in [1..size -> Nat]
    BY <1>5 DEF Freqs
  <2> QED BY <2>1, <1>2
<1>8. size \in Nat /\ size > 0
  BY <1>2
<1> HIDE DEF size
<1> QED BY <1>3, <1>4, <1>5, <1>6, <1>7, <1>8, Zenon DEF size

-----------------------------------------------------------------------------
(* What is stored of a list.                                               *)

(***************************************************************************)
(* Where the parts of block b are: block 0 has no endpoint.                *)
(***************************************************************************)
Endpoint(s, b) == IF b > 0 THEN s.endpoints[b] ELSE 0

\* The sum the gaps of block b are encoded with.
GapsSumOf(l, b) == GapsSum(BlockMax(l, b), BlockBase(l, b), BlockLen(Len(l.docs), b))

(***************************************************************************)
(* s holds the list l: by whatever way the tables lead there, the endpoint *)
(* of a block is followed by its gaps and its freqs.                       *)
(***************************************************************************)
Holds(s, l) ==
    /\ s.n = Len(l.docs)
    /\ \A b \in 0..(Blocks(Len(l.docs)) - 1) :
        /\ s.maxs[b + 1] = BlockMax(l, b)
        /\ Endpoint(s, b) \in Nat
        /\ s.data[Endpoint(s, b) + 1] = Encode(DocGaps(l, b), GapsSumOf(l, b))
        /\ s.data[Endpoint(s, b) + 2] = Encode(Freqs(l, b), NoSum)

(***************************************************************************)
(* The two parts of the block behind b others.                             *)
(***************************************************************************)
LEMMA PairOfParts ==
    ASSUME NEW b \in Nat
    PROVE  /\ (2 * b + 1) % 2 = 1 /\ (2 * b + 1) \div 2 = b
           /\ (2 * b + 2) % 2 = 0 /\ (2 * b + 2) \div 2 = b + 1
  OBVIOUS

(***************************************************************************)
(* What write() puts in the tables and behind them, block by block.        *)
(***************************************************************************)
LEMMA WrittenParts ==
    ASSUME NEW l \in Lists, NEW b \in 0..(Blocks(Len(l.docs)) - 1)
    PROVE  /\ Write(l).n = Len(l.docs)
           /\ Write(l).maxs[b + 1] = BlockMax(l, b)
           /\ Endpoint(Write(l), b) = 2 * b
           /\ Write(l).data[2 * b + 1] = Encode(DocGaps(l, b), GapsSumOf(l, b))
           /\ Write(l).data[2 * b + 2] = Encode(Freqs(l, b), NoSum)
<1> DEFINE n == Len(l.docs)
           q == Blocks(n)
           docs(c) == Encode(DocGaps(l, c), GapsSum(BlockMax(l, c), BlockBase(l, c), BlockLen(n, c)))
           freqs(c) == Encode(Freqs(l, c), NoSum)
           data == [p \in 1..(2 * q) |-> IF p % 2 = 1 THEN docs(p \div 2) ELSE freqs(p \div 2 - 1)]
<1>1. n \in Nat /\ n > 0
  BY ListType
<1>2. q \in Nat /\ b \in Nat /\ b < q
  BY <1>1, BlocksDivide
<1>3. /\ Write(l).n = n /\ Write(l).data = data
      /\ Write(l).maxs = [i \in 1..q |-> BlockMax(l, i - 1)]
      /\ Write(l).endpoints = [i \in 1..(q - 1) |-> 2 * i]
  BY DEF Write
<1>4. Write(l).maxs[b + 1] = BlockMax(l, b)
  <2>1. b + 1 \in 1..q /\ (b + 1) - 1 = b
    BY <1>2
  <2> HIDE DEF q
  <2> QED BY <2>1, <1>3
<1>5. Endpoint(Write(l), b) = 2 * b
  <2> HIDE DEF q
  <2> QED BY <1>2, <1>3 DEF Endpoint
<1>6. data[2 * b + 1] = docs(b) /\ data[2 * b + 2] = freqs(b)
  <2>1. /\ 2 * b + 1 \in 1..(2 * q) /\ (2 * b + 1) % 2 = 1 /\ (2 * b + 1) \div 2 = b
        /\ 2 * b + 2 \in 1..(2 * q) /\ (2 * b + 2) % 2 = 0 /\ (2 * b + 2) \div 2 = b + 1
        /\ (b + 1) - 1 = b
    <3> HIDE DEF q
    <3> QED BY <1>2, PairOfParts
  <2> HIDE DEF q, docs, freqs
  <2> QED BY <2>1
<1> QED BY <1>3, <1>4, <1>5, <1>6 DEF GapsSumOf

(***************************************************************************)
(* A list that was written is held.                                        *)
(***************************************************************************)
LEMMA WriteHolds ==
    ASSUME NEW l \in Lists
    PROVE  Holds(Write(l), l)
<1> DEFINE q == Blocks(Len(l.docs))
<1>1. q \in Nat /\ q > 0
  BY ListType, BlocksDivide
<1>2. Write(l).n = Len(l.docs)
  BY DEF Write
<1>3. ASSUME NEW b \in 0..(q - 1)
      PROVE  /\ Write(l).maxs[b + 1] = BlockMax(l, b)
             /\ Endpoint(Write(l), b) \in Nat
             /\ Write(l).data[Endpoint(Write(l), b) + 1] = Encode(DocGaps(l, b), GapsSumOf(l, b))
             /\ Write(l).data[Endpoint(Write(l), b) + 2] = Encode(Freqs(l, b), NoSum)
  BY WrittenParts, <1>1
<1> QED BY <1>2, <1>3 DEF Holds

(***************************************************************************)
(* The base of a block, read back from the maximum of the block before.    *)
(***************************************************************************)
LEMMA BaseReadBack ==
    ASSUME NEW l \in Lists, NEW s, Holds(s, l), NEW b \in 0..(Blocks(Len(l.docs)) - 1)
    PROVE  CurBase(s, b) = BlockBase(l, b)
<1>1. Word \in Nat /\ Universe \in Nat /\ Universe < Word
  BY UniverseAssumption
<1>2. CASE b = 0
  <2>1. UInt32((Word - 1) + 1) = 0
    BY <1>1 DEF UInt32
  <2> QED BY <2>1, <1>2 DEF CurBase, BlockBase, NoSum
<1>3. CASE b > 0
  <2>1. /\ b - 1 \in 0..(Blocks(Len(l.docs)) - 1)
        /\ BlockMax(l, b - 1) = l.docs[b * BlockSize]
        /\ b * BlockSize \in 1..Len(l.docs)
    BY <1>3, BlockBounds
  <2>2. s.maxs[b] = BlockMax(l, b - 1)
    <3>1. (b - 1) + 1 = b
      OBVIOUS
    <3> QED BY <2>1, <3>1 DEF Holds
  <2>3. l.docs[b * BlockSize] + 1 \in 0..(Word - 1)
    BY <2>1, <1>1, ListType
  <2>4. CurBase(s, b) = l.docs[b * BlockSize] + 1
    BY <2>1, <2>2, <2>3, <1>3, UInt32InRange DEF CurBase
  <2> QED BY <2>4, <1>3, BlockBounds
<1> QED BY <1>2, <1>3

(***************************************************************************)
(* What get_blocks() returns of a list that was written.                   *)
(***************************************************************************)
LEMMA BlocksOfWritten ==
    ASSUME NEW l \in Lists, NEW b \in 0..(Blocks(Len(l.docs)) - 1)
    PROVE  LET block == GetBlocks(Write(l))[b + 1]
           IN  /\ block.index = b
               /\ block.max = BlockMax(l, b)
               /\ block.size = BlockLen(Len(l.docs), b)
               /\ block.doc_gaps_universe = GapsSumOf(l, b)
               /\ block.docs = Encode(DocGaps(l, b), GapsSumOf(l, b))
               /\ block.freqs = Encode(Freqs(l, b), NoSum)
<1> DEFINE n == Len(l.docs)
           q == Blocks(n)
           w == Write(l)
<1>1. n \in Nat /\ n > 0
  BY ListType
<1>2. q \in Nat /\ b \in Nat /\ b < q /\ b + 1 \in 1..q /\ (b + 1) - 1 = b
  <2>1. q \in Nat /\ b \in 0..(q - 1)
    BY <1>1, BlocksDivide
  <2> HIDE DEF q
  <2> QED BY <2>1
<1>3. /\ w.n = n /\ w.maxs[b + 1] = BlockMax(l, b)
      /\ w.data[2 * b + 1] = Encode(DocGaps(l, b), GapsSumOf(l, b))
      /\ w.data[2 * b + 2] = Encode(Freqs(l, b), NoSum)
      /\ 2 * (b + 1) - 1 = 2 * b + 1 /\ 2 * (b + 1) = 2 * b + 2
  BY WrittenParts, <1>2
<1>4. CurBase(w, b) = BlockBase(l, b)
  BY WriteHolds, BaseReadBack
<1>5. GetBlocks(w)[b + 1] =
        [index |-> b, max |-> w.maxs[b + 1], size |-> BlockLen(n, b),
         doc_gaps_universe |-> GapsSum(w.maxs[b + 1], CurBase(w, b), BlockLen(n, b)),
         docs |-> w.data[2 * (b + 1) - 1], freqs |-> w.data[2 * (b + 1)]]
  <2> HIDE DEF q, w, n
  <2> QED BY <1>2, <1>3 DEF GetBlocks, q
<1>6. GetBlocks(w)[b + 1] =
        [index |-> b, max |-> BlockMax(l, b), size |-> BlockLen(n, b),
         doc_gaps_universe |-> GapsSumOf(l, b),
         docs |-> Encode(DocGaps(l, b), GapsSumOf(l, b)), freqs |-> Encode(Freqs(l, b), NoSum)]
  BY <1>3, <1>4, <1>5, Zenon DEF GapsSumOf
<1> HIDE DEF n, q
<1> QED BY <1>6 DEF n

(***************************************************************************)
(* An order of blocks has each of them in it.                              *)
(***************************************************************************)
LEMMA OrderHasAll ==
    ASSUME NEW m \in Nat, NEW order \in Orders(m), NEW b \in 0..(m - 1)
    PROVE  \E i \in 1..m : order[i] = b
<1>1. /\ order \in [1..m -> 0..(m - 1)]
      /\ \A i, j \in 1..m : order[i] = order[j] => i = j
  BY DEF Orders
<1>2. order \in Injection(1..m, 0..(m - 1))
  BY <1>1 DEF Injection, IsInjective
<1>3. /\ IsFiniteSet(1..m) /\ Cardinality(1..m) = m
      /\ IsFiniteSet(0..(m - 1)) /\ Cardinality(0..(m - 1)) = m
  BY FS_Interval
<1>4. order \in Surjection(1..m, 0..(m - 1))
  BY <1>2, <1>3, FS_Injection
<1> QED BY <1>4 DEF Surjection

(***************************************************************************)
(* s leads to block b of the list l at the address e.                      *)
(***************************************************************************)
PartsAt(s, l, b, e) ==
    /\ s.maxs[b + 1] = BlockMax(l, b)
    /\ Endpoint(s, b) = e
    /\ s.data[e + 1] = Encode(DocGaps(l, b), GapsSumOf(l, b))
    /\ s.data[e + 2] = Encode(Freqs(l, b), NoSum)

(***************************************************************************)
(* The blocks input are those of the list l as it was written, in order.   *)
(***************************************************************************)
InOrder(input, order, l) ==
    /\ Len(input) = Blocks(Len(l.docs))
    /\ \A i \in 1..Len(input) : input[i] = GetBlocks(Write(l))[order[i] + 1]

(***************************************************************************)
(* What write_blocks() makes of blocks that get_blocks() returned, given   *)
(* in some order: the endpoint of a block is where it was copied to.       *)
(***************************************************************************)
LEMMA WriteBlocksParts ==
    ASSUME NEW l \in Lists, NEW order \in Orders(Blocks(Len(l.docs))),
           NEW input, InOrder(input, order, l),
           NEW b \in 0..(Blocks(Len(l.docs)) - 1), NEW n
    PROVE  /\ WriteBlocks(n, input).n = n
           /\ \E i \in 1..Blocks(Len(l.docs)) :
                order[i] = b /\ PartsAt(WriteBlocks(n, input), l, b, 2 * (i - 1))
<1> DEFINE m == Blocks(Len(l.docs))
           place(c) == CHOOSE i \in 1..Len(input) : input[i].index = c
           s == WriteBlocks(n, input)
           k == place(b)
<1>0. /\ Len(input) = m /\ m \in Nat /\ order \in Orders(m) /\ b \in 0..(m - 1)
      /\ \A i \in 1..m : input[i] = GetBlocks(Write(l))[order[i] + 1]
  BY ListType, BlocksDivide DEF InOrder
<1>1. /\ order \in [1..m -> 0..(m - 1)] /\ order[1] = 0
      /\ \A i, j \in 1..m : order[i] = order[j] => i = j
  BY DEF Orders
<1>2. ASSUME NEW i \in 1..m
      PROVE  /\ input[i].index = order[i]
             /\ input[i].max = BlockMax(l, order[i])
             /\ input[i].docs = Encode(DocGaps(l, order[i]), GapsSumOf(l, order[i]))
             /\ input[i].freqs = Encode(Freqs(l, order[i]), NoSum)
  <2>1. order[i] \in 0..(Blocks(Len(l.docs)) - 1)
    BY <1>1
  <2> QED BY <1>0, <2>1, BlocksOfWritten
<1> HIDE DEF m
<1>3. k \in 1..m /\ order[k] = b
  <2>1. PICK i \in 1..m : order[i] = b
    BY <1>0, OrderHasAll
  <2>2. i \in 1..Len(input) /\ input[i].index = b
    BY <1>0, <2>1, <1>2
  <2>3. k \in 1..Len(input) /\ input[k].index = b
    BY <2>2
  <2> HIDE DEF k
  <2> QED BY <1>0, <2>3, <1>2
<1>4. /\ s.n = n
      /\ s.maxs = [i \in 1..m |-> input[place(i - 1)].max]
      /\ s.endpoints = [i \in 1..(m - 1) |-> 2 * (place(i) - 1)]
      /\ s.data = [p \in 1..(2 * m) |->
                    IF p % 2 = 1 THEN input[p \div 2 + 1].docs ELSE input[p \div 2].freqs]
  BY <1>0 DEF WriteBlocks
<1>5. s.maxs[b + 1] = BlockMax(l, b)
  <2>1. b + 1 \in 1..m /\ (b + 1) - 1 = b
    BY <1>0
  <2>2. s.maxs[b + 1] = input[k].max
    <3> HIDE DEF s, place
    <3> QED BY <2>1, <1>4
  <2> HIDE DEF s, k
  <2> QED BY <2>2, <1>2, <1>3
<1>6. Endpoint(s, b) = 2 * (k - 1)
  <2>1. CASE b = 0
    <3>1. k = 1
      <4> HIDE DEF k
      <4> QED BY <1>0, <1>1, <1>3, <2>1
    <3> HIDE DEF s, k
    <3> QED BY <2>1, <3>1 DEF Endpoint
  <2>2. CASE b > 0
    <3>1. b \in 1..(m - 1)
      BY <1>0, <2>2
    <3>2. s.endpoints[b] = 2 * (place(b) - 1)
      <4> HIDE DEF s, place
      <4> QED BY <3>1, <1>4
    <3> HIDE DEF s, place
    <3> QED BY <2>2, <3>2 DEF Endpoint
  <2> QED BY <1>0, <2>1, <2>2
<1> HIDE DEF s, place
<1>7. /\ s.data[2 * (k - 1) + 1] = input[k].docs
      /\ s.data[2 * (k - 1) + 2] = input[k].freqs
  <2> DEFINE p == 2 * (k - 1) + 1
             r == 2 * (k - 1) + 2
  <2> HIDE DEF k
  <2>0. k - 1 \in Nat /\ (k - 1) + 1 = k
    BY <1>0, <1>3
  <2>1. p \in 1..(2 * m) /\ p % 2 = 1 /\ p \div 2 + 1 = k
    BY <1>0, <1>3, <2>0, PairOfParts
  <2>2. r \in 1..(2 * m) /\ r % 2 = 0 /\ r \div 2 = k
    BY <1>0, <1>3, <2>0, PairOfParts
  <2> HIDE DEF p, r
  <2>3. s.data[p] = input[k].docs /\ s.data[r] = input[k].freqs
    BY <2>1, <2>2, <1>4
  <2> QED BY <2>3 DEF p, r
<1>8. /\ s.data[2 * (k - 1) + 1] = Encode(DocGaps(l, b), GapsSumOf(l, b))
      /\ s.data[2 * (k - 1) + 2] = Encode(Freqs(l, b), NoSum)
  <2> HIDE DEF k
  <2> QED BY <1>2, <1>3, <1>7
<1> HIDE DEF k
<1> QED BY <1>3, <1>4, <1>5, <1>6, <1>8 DEF s, m, PartsAt

(***************************************************************************)
(* A list whose blocks were written in another order is held too.          *)
(***************************************************************************)
LEMMA RewriteHolds ==
    ASSUME NEW l \in Lists, NEW order \in Orders(Blocks(Len(l.docs)))
    PROVE  Holds(Rewrite(Write(l), order), l)
<1> DEFINE m == Blocks(Len(l.docs))
           w == Write(l)
           input == [i \in DOMAIN order |-> GetBlocks(w)[order[i] + 1]]
           s == WriteBlocks(w.n, input)
<1>1. m \in Nat /\ m > 0
  BY ListType, BlocksDivide
<1>2. DOMAIN order = 1..m
  BY DEF Orders
<1>3. InOrder(input, order, l)
  BY <1>1, <1>2 DEF InOrder
<1>4. w.n = Len(l.docs)
  BY DEF Write
<1>5. ASSUME NEW b \in 0..(m - 1)
      PROVE  /\ s.n = Len(l.docs)
             /\ s.maxs[b + 1] = BlockMax(l, b)
             /\ Endpoint(s, b) \in Nat
             /\ s.data[Endpoint(s, b) + 1] = Encode(DocGaps(l, b), GapsSumOf(l, b))
             /\ s.data[Endpoint(s, b) + 2] = Encode(Freqs(l, b), NoSum)
  <2>1. /\ s.n = w.n
        /\ \E i \in 1..m : order[i] = b /\ PartsAt(s, l, b, 2 * (i - 1))
    <3> HIDE DEF input
    <3> QED BY <1>3, WriteBlocksParts
  <2>2. PICK i \in 1..m : PartsAt(s, l, b, 2 * (i - 1))
    BY <2>1
  <2>3. 2 * (i - 1) \in Nat
    BY <1>1
  <2> HIDE DEF s
  <2> QED BY <1>4, <2>1, <2>2, <2>3 DEF PartsAt
<1>6. 0 \in 0..(m - 1)
  BY <1>1
<1>7. Holds(s, l)
  <2> HIDE DEF s
  <2> QED BY <1>5, <1>6 DEF Holds
<1> QED BY <1>7 DEF Rewrite

-----------------------------------------------------------------------------
(* The enumerator.                                                         *)

CurType ==
    [block : Nat, pos : Nat, max : Nat, size : Nat, docid : Nat, docs : Seq(Nat),
     freqs_data : Nat, freqs_decoded : BOOLEAN, freqs : Seq(Nat)]

(***************************************************************************)
(* What the enumerator c has cached is of the block it is in.              *)
(***************************************************************************)
InBlock(c, s, l) ==
    /\ c.block \in 0..(Blocks(Len(l.docs)) - 1)
    /\ c.max = BlockMax(l, c.block)
    /\ c.size = BlockLen(Len(l.docs), c.block)
    /\ \A i \in 2..c.size : c.docs[i] = DocGaps(l, c.block)[i]
    /\ c.freqs_data = Endpoint(s, c.block) + 2
    /\ c.freqs_decoded => c.freqs = Freqs(l, c.block)

(***************************************************************************)
(* It is at a posting of that block.                                       *)
(***************************************************************************)
AtPosting(c, l) ==
    /\ c.pos < c.size
    /\ c.docid = l.docs[c.block * BlockSize + c.pos + 1]

(***************************************************************************)
(* The parts of a block decode to its gaps and its freqs.                  *)
(***************************************************************************)
LEMMA PartsDecode ==
    ASSUME NEW l \in Lists, NEW s, Holds(s, l), NEW b \in 0..(Blocks(Len(l.docs)) - 1)
    PROVE  LET size == BlockLen(s.n, b)
           IN  /\ Decode(s.data[Endpoint(s, b) + 1],
                         GapsSum(s.maxs[b + 1], CurBase(s, b), size), size) = DocGaps(l, b)
               /\ Decode(s.data[Endpoint(s, b) + 2], NoSum, size) = Freqs(l, b)
               /\ size = BlockLen(Len(l.docs), b)
<1> DEFINE size == BlockLen(Len(l.docs), b)
           e == Endpoint(s, b)
<1>1. /\ s.n = Len(l.docs) /\ s.maxs[b + 1] = BlockMax(l, b)
      /\ s.data[e + 1] = Encode(DocGaps(l, b), GapsSumOf(l, b))
      /\ s.data[e + 2] = Encode(Freqs(l, b), NoSum)
  BY DEF Holds
<1>2. GapsSum(s.maxs[b + 1], CurBase(s, b), size) = GapsSumOf(l, b)
  <2>1. CurBase(s, b) = BlockBase(l, b)
    BY BaseReadBack
  <2> QED BY <1>1, <2>1 DEF GapsSumOf
<1>3. Len(DocGaps(l, b)) = size /\ Len(Freqs(l, b)) = size
  BY BlockValues
<1>4. Decode(Encode(DocGaps(l, b), GapsSumOf(l, b)), GapsSumOf(l, b), size) = DocGaps(l, b)
  BY <1>3 DEF Decode, Encode
<1>5. Decode(Encode(Freqs(l, b), NoSum), NoSum, size) = Freqs(l, b)
  BY <1>3 DEF Decode, Encode
<1> HIDE DEF e, size
<1> QED BY <1>1, <1>2, <1>4, <1>5 DEF e, size

(***************************************************************************)
(* After decode_docs_block the enumerator is at the first posting of the   *)
(* block.                                                                  *)
(***************************************************************************)
LEMMA DecodedBlock ==
    ASSUME list \in Lists, Holds(stored, list), cur \in CurType,
           NEW b \in 0..(Blocks(Len(list.docs)) - 1)
    PROVE  /\ DecodeDocsBlock(b) \in CurType
           /\ InBlock(DecodeDocsBlock(b), stored, list)
           /\ AtPosting(DecodeDocsBlock(b), list)
           /\ DecodeDocsBlock(b).block = b /\ DecodeDocsBlock(b).pos = 0
<1> DEFINE l == list
           s == stored
           n == Len(l.docs)
           B == BlockSize
           size == BlockLen(n, b)
           gaps == DocGaps(l, b)
           base == BlockBase(l, b)
           docs == [gaps EXCEPT ![1] = UInt32(@ + base)]
           c == DecodeDocsBlock(b)
<1>1. c = [cur EXCEPT !.block = b, !.pos = 0, !.max = BlockMax(l, b), !.size = size,
                      !.docid = docs[1], !.docs = docs, !.freqs_data = Endpoint(s, b) + 2,
                      !.freqs_decoded = FALSE]
  <2>1. block_max(b) = BlockMax(l, b) /\ CurBase(s, b) = base /\ BlockLen(s.n, b) = size
    BY BaseReadBack DEF block_max, Holds
  <2>2. Decode(s.data[Endpoint(s, b) + 1],
               GapsSum(s.maxs[b + 1], CurBase(s, b), BlockLen(s.n, b)), BlockLen(s.n, b)) = gaps
    BY PartsDecode
  <2>3. Decode(s.data[Endpoint(s, b) + 1], GapsSum(block_max(b), base, size), size) = gaps
    BY <2>1, <2>2 DEF block_max
  <2> HIDE DEF gaps, base, size
  <2> QED BY <2>1, <2>3 DEF DecodeDocsBlock, Endpoint
<1>2. /\ gaps \in Seq(Nat) /\ Len(gaps) = size /\ size \in Nat /\ size > 0
      /\ b * B + 1 \in 1..n
      /\ gaps[1] = l.docs[b * B + 1] - After(l, b * B + 1)
  <2>1. 1 \in 1..size
    BY BlockValues
  <2> QED BY <2>1, BlockValues
<1>3. base = After(l, b * B + 1)
  <2>0. b \in Nat /\ B \in Nat /\ n \in Nat /\ n > 0
    BY BlockSizeAssumption, ListType
  <2>1. CASE b = 0
    <3>1. b * B + 1 = 1
      BY <2>0, <2>1
    <3> QED BY <2>1, <3>1, BlockBounds DEF After
  <2>2. CASE b > 0
    <3>1. b * B \in 1..n /\ base = l.docs[b * B] + 1
      BY <2>2, BlockBounds
    <3>2. b * B + 1 # 1 /\ (b * B + 1) - 1 = b * B
      BY <3>1
    <3> QED BY <3>1, <3>2 DEF After
  <2> QED BY <2>0, <2>1, <2>2
<1>4. l.docs[b * B + 1] \in Nat /\ l.docs[b * B + 1] \in 0..(Word - 1)
  BY <1>2, ListType
<1>5. UInt32(gaps[1] + base) = l.docs[b * B + 1]
  <2>1. gaps[1] + base = l.docs[b * B + 1]
    <3>1. After(l, b * B + 1) \in Nat
      BY <1>2, GapValue
    <3> HIDE DEF gaps, base
    <3> QED BY <1>2, <1>3, <1>4, <3>1
  <2> QED BY <2>1, <1>4, UInt32InRange
<1>6. /\ docs \in Seq(Nat) /\ docs[1] = l.docs[b * B + 1]
      /\ \A i \in 2..size : docs[i] = gaps[i]
  <2> HIDE DEF gaps, base, size
  <2> QED BY <1>2, <1>4, <1>5
<1>7. BlockMax(l, b) \in Nat /\ Endpoint(s, b) \in Nat /\ b \in Nat
  BY BlockBounds DEF Holds
<1> HIDE DEF docs
<1>8. /\ c \in CurType /\ c.block = b /\ c.pos = 0 /\ c.max = BlockMax(l, b) /\ c.size = size
      /\ c.docid = docs[1] /\ c.docs = docs /\ c.freqs_data = Endpoint(s, b) + 2
      /\ c.freqs_decoded = FALSE
  <2> HIDE DEF c, size
  <2>1. docs[1] \in Nat
    BY <1>4, <1>6
  <2>2. c = [block |-> b, pos |-> 0, max |-> BlockMax(l, b), size |-> size, docid |-> docs[1],
             docs |-> docs, freqs_data |-> Endpoint(s, b) + 2, freqs_decoded |-> FALSE,
             freqs |-> cur.freqs]
    BY <1>1 DEF CurType
  <2>3. cur.freqs \in Seq(Nat)
    BY DEF CurType
  <2>4. Endpoint(s, b) + 2 \in Nat
    BY <1>7
  <2>5. c \in CurType
    BY <1>2, <1>6, <1>7, <2>1, <2>2, <2>3, <2>4 DEF CurType
  <2> QED BY <2>2, <2>5, Zenon
<1>9. b * B + 0 + 1 = b * B + 1
  BY BlockSizeAssumption
<1> HIDE DEF c
<1>10. InBlock(c, s, l)
  BY <1>6, <1>8 DEF InBlock
<1>11. AtPosting(c, l)
  BY <1>2, <1>6, <1>8, <1>9 DEF AtPosting
<1> QED BY <1>8, <1>10, <1>11 DEF c

(***************************************************************************)
(* The postings of the block the enumerator is in.                         *)
(***************************************************************************)
LEMMA CurBounds ==
    ASSUME NEW l \in Lists, NEW s, NEW c \in CurType, InBlock(c, s, l)
    PROVE  /\ c.block \in Nat /\ c.block * BlockSize \in Nat /\ c.pos \in Nat
           /\ c.size \in 1..BlockSize
           /\ c.block * BlockSize + c.size <= Len(l.docs)
           /\ c.max = l.docs[c.block * BlockSize + c.size]
           /\ c.max \in Nat /\ c.max < Universe
           /\ c.block + 1 = Blocks(Len(l.docs)) => c.block * BlockSize + c.size = Len(l.docs)
           /\ c.block + 1 # Blocks(Len(l.docs)) =>
                /\ c.block + 1 \in 0..(Blocks(Len(l.docs)) - 1)
                /\ (c.block + 1) * BlockSize = c.block * BlockSize + c.size
<1> DEFINE n == Len(l.docs)
           q == Blocks(n)
           b == c.block
<1>1. n \in Nat /\ n > 0
  BY ListType
<1>2. q \in Nat /\ b \in 0..(q - 1) /\ c.pos \in Nat
  BY <1>1, BlocksDivide DEF InBlock, CurType
<1>3. /\ b * BlockSize \in Nat /\ BlockLen(n, b) \in 1..BlockSize
      /\ b * BlockSize + BlockLen(n, b) <= n
      /\ b < q - 1 => BlockLen(n, b) = BlockSize
      /\ b = q - 1 => b * BlockSize + BlockLen(n, b) = n
      /\ (b + 1) * BlockSize = b * BlockSize + BlockSize
  BY <1>1, <1>2, BlocksDivide
<1>4. /\ BlockMax(l, b) = l.docs[b * BlockSize + BlockLen(n, b)]
      /\ BlockMax(l, b) \in Nat /\ BlockMax(l, b) < Universe
  BY <1>2, BlockBounds
<1>5. c.size = BlockLen(n, b) /\ c.max = BlockMax(l, b)
  BY DEF InBlock
<1> HIDE DEF q, b, n
<1>6. /\ b + 1 = q => b = q - 1
      /\ b + 1 # q => b < q - 1 /\ b + 1 \in 0..(q - 1)
  BY <1>2
<1> QED BY <1>1, <1>2, <1>3, <1>4, <1>5, <1>6 DEF q, b, n

(***************************************************************************)
(* One posting further in the block.                                       *)
(***************************************************************************)
LEMMA AdvancedAt ==
    ASSUME list \in Lists, cur \in CurType, InBlock(cur, stored, list), AtPosting(cur, list),
           cur.pos + 1 < cur.size
    PROVE  /\ Advanced \in CurType /\ InBlock(Advanced, stored, list)
           /\ AtPosting(Advanced, list)
           /\ Advanced.block = cur.block /\ Advanced.pos = cur.pos + 1
           /\ Advanced.max = cur.max
<1> DEFINE l == list
           n == Len(l.docs)
           b == cur.block
           p == b * BlockSize + cur.pos + 1
           d == UInt32(cur.docid + UInt32(cur.docs[cur.pos + 2] + 1))
<1>1. /\ b * BlockSize \in Nat /\ cur.pos \in Nat /\ cur.size \in Nat
      /\ b * BlockSize + cur.size <= n /\ n \in Nat /\ b \in Nat
  BY CurBounds, ListType, BlockSizeAssumption
<1>2. p \in 1..n /\ p + 1 \in 1..n /\ cur.pos + 2 \in 2..cur.size
      /\ p + 1 = b * BlockSize + (cur.pos + 2)
  <2> DEFINE x == b * BlockSize
  <2>1. x \in Nat /\ x + cur.size <= n
    BY <1>1
  <2> HIDE DEF x, n
  <2>2. /\ x + cur.pos + 1 \in 1..n /\ x + cur.pos + 1 + 1 \in 1..n
        /\ cur.pos + 2 \in 2..cur.size /\ x + cur.pos + 1 + 1 = x + (cur.pos + 2)
    BY <1>1, <2>1
  <2> QED BY <2>2 DEF x
<1>3. cur.docid = l.docs[p]
  BY DEF AtPosting
<1>4. cur.docs[cur.pos + 2] = l.docs[p + 1] - After(l, p + 1)
  <2>1. cur.docs[cur.pos + 2] = DocGaps(l, b)[cur.pos + 2]
    BY <1>2 DEF InBlock
  <2>2. b \in 0..(Blocks(n) - 1) /\ cur.size = BlockLen(n, b)
    BY DEF InBlock
  <2>3. cur.pos + 2 \in 1..BlockLen(n, b)
    BY <1>1, <1>2, <2>2
  <2>4. DocGaps(l, b)[cur.pos + 2] = l.docs[b * BlockSize + (cur.pos + 2)]
                                      - After(l, b * BlockSize + (cur.pos + 2))
    BY <2>2, <2>3, BlockValues
  <2> HIDE DEF p
  <2> QED BY <1>2, <2>1, <2>4
<1>5. After(l, p + 1) = l.docs[p] + 1
  <2>1. p + 1 # 1 /\ (p + 1) - 1 = p
    BY <1>1, <1>2
  <2> QED BY <2>1 DEF After
<1>6. /\ l.docs[p] \in Nat /\ l.docs[p + 1] \in Nat /\ l.docs[p] < l.docs[p + 1]
      /\ l.docs[p + 1] < Universe
      /\ Universe \in Nat /\ Word \in Nat /\ Universe < Word
  <2>1. p + 1 \in 2..n /\ (p + 1) - 1 = p
    BY <1>1, <1>2
  <2> QED BY <1>2, <2>1, ListType
<1> HIDE DEF p
<1>7. d = l.docs[p + 1]
  <2>1. cur.docs[cur.pos + 2] + 1 = l.docs[p + 1] - l.docs[p]
    BY <1>4, <1>5, <1>6
  <2>2. UInt32(l.docs[p + 1] - l.docs[p]) = l.docs[p + 1] - l.docs[p]
    BY <1>6, UInt32InRange
  <2>3. l.docs[p] + (l.docs[p + 1] - l.docs[p]) = l.docs[p + 1]
    BY <1>6
  <2>4. UInt32(l.docs[p + 1]) = l.docs[p + 1]
    BY <1>6, UInt32InRange
  <2> QED BY <1>3, <2>1, <2>2, <2>3, <2>4
<1>8. Advanced = [cur EXCEPT !.pos = cur.pos + 1, !.docid = d]
  BY DEF Advanced, CurType
<1> HIDE DEF d
<1> DEFINE c == Advanced
<1>9. /\ c \in CurType /\ c.block = b /\ c.pos = cur.pos + 1 /\ c.max = cur.max
      /\ c.size = cur.size /\ c.docid = d /\ c.docs = cur.docs
      /\ c.freqs_data = cur.freqs_data /\ c.freqs_decoded = cur.freqs_decoded
      /\ c.freqs = cur.freqs
  <2>1. c = [block |-> b, pos |-> cur.pos + 1, max |-> cur.max, size |-> cur.size, docid |-> d,
             docs |-> cur.docs, freqs_data |-> cur.freqs_data,
             freqs_decoded |-> cur.freqs_decoded, freqs |-> cur.freqs]
    BY <1>8 DEF CurType
  <2> HIDE DEF c
  <2>2. /\ cur.max \in Nat /\ cur.docs \in Seq(Nat) /\ cur.freqs_data \in Nat
        /\ cur.freqs_decoded \in BOOLEAN /\ cur.freqs \in Seq(Nat) /\ cur.pos + 1 \in Nat
        /\ d \in Nat
    BY <1>1, <1>6, <1>7 DEF CurType
  <2>3. c \in CurType
    BY <1>1, <2>1, <2>2 DEF CurType
  <2> QED BY <2>1, <2>3, Zenon
<1> HIDE DEF c
<1>10. InBlock(c, stored, l)
  BY <1>9 DEF InBlock
<1>11. AtPosting(c, l)
  <2>1. b * BlockSize + (cur.pos + 1) + 1 = p + 1
    BY <1>1 DEF p
  <2> QED BY <1>7, <1>9, <2>1 DEF AtPosting
<1> QED BY <1>9, <1>10, <1>11 DEF c

-----------------------------------------------------------------------------
(* The invariant.                                                          *)

\* The posting the enumerator c is at, counted from 0.
Place(c) == c.block * BlockSize + c.pos

(***************************************************************************)
(* The enumerator c of the list l that s holds is at a posting, or past    *)
(* the last one.                                                           *)
(***************************************************************************)
EnumeratorOK(c, s, l) ==
    /\ l \in Lists /\ Holds(s, l)
    /\ c \in CurType /\ InBlock(c, s, l)
    /\ c.pos <= c.size
    /\ c.docid = Universe \/ AtPosting(c, l)

(***************************************************************************)
(* Calls in progress.  An exhausted enumerator has been asked past the     *)
(* last posting; next_geq has left only postings below its bound behind,   *)
(* and stays where the block holds one that is not; move is in the block   *)
(* of the position it goes to.                                             *)
(***************************************************************************)
CallOK(c, l, bound, made) ==
    /\ bound \in 0..Universe
    /\ c.docid = Universe => bound > l.docs[Len(l.docs)]
    /\ made \in [op : {"none", "next_geq", "move"}, bound : 0..Universe, from : 0..Len(l.docs)]
    /\ made.op = "none" => made = NoCall
    /\ made.op = "next_geq" =>
        /\ bound = made.bound
        /\ c.docid # Universe =>
            /\ made.from <= Place(c)
            /\ \A j \in (made.from + 1)..Place(c) : l.docs[j] < made.bound
            /\ c.docid < made.bound => made.bound <= c.max
    /\ made.op = "move" =>
        /\ c.docid # Universe
        /\ made.from <= Place(c) /\ Place(c) <= made.bound
        /\ made.bound < c.block * BlockSize + c.size

IInv ==
    /\ EnumeratorOK(cur, stored, list)
    /\ answer \in 0..(Word - 1)
    /\ CallOK(cur, list, asked, call)

(***************************************************************************)
(* What the invariant says of the place of an enumerator.                  *)
(***************************************************************************)
LEMMA WhereItIs ==
    ASSUME NEW c, NEW s, NEW l, EnumeratorOK(c, s, l)
    PROVE  /\ c.docid \in 0..Universe
           /\ Universe \in Nat /\ Len(l.docs) \in Nat /\ Len(l.docs) > 0
           /\ c.docid < Universe <=> c.docid # Universe
           /\ c.docid < Universe =>
                /\ AtPosting(c, l) /\ Place(c) \in 0..(Len(l.docs) - 1)
                /\ c.docid = l.docs[Place(c) + 1]
                /\ c.docid <= c.max
<1>1. l \in Lists /\ c \in CurType /\ InBlock(c, s, l) /\ (c.docid = Universe \/ AtPosting(c, l))
  BY DEF EnumeratorOK
<1> DEFINE n == Len(l.docs)
           x == c.block * BlockSize
<1>2. /\ x \in Nat /\ c.pos \in Nat /\ c.size \in 1..BlockSize /\ x + c.size <= n
      /\ c.max = l.docs[x + c.size] /\ BlockSize \in Nat /\ n \in Nat /\ n > 0
      /\ Universe \in Nat
  BY <1>1, CurBounds, BlockSizeAssumption, ListType
<1>3. ASSUME AtPosting(c, l)
      PROVE  /\ c.docid \in Nat /\ c.docid < Universe
             /\ Place(c) \in 0..(n - 1) /\ c.docid = l.docs[Place(c) + 1]
             /\ c.docid <= c.max
  <2>1. Place(c) = x + c.pos /\ c.pos < c.size /\ c.docid = l.docs[x + c.pos + 1]
    BY <1>3 DEF Place, AtPosting
  <2> HIDE DEF x, n
  <2>2. x + c.pos + 1 \in 1..n /\ x + c.size \in 1..n /\ x + c.pos + 1 <= x + c.size
    BY <1>2, <2>1
  <2>3. Place(c) \in 0..(n - 1)
    BY <1>2, <2>1
  <2>4. c.docid \in Nat /\ c.docid < Universe
    BY <1>1, <2>1, <2>2, ListType DEF n
  <2>5. c.docid <= c.max
    BY <1>1, <1>2, <2>1, <2>2, Increasing DEF n
  <2> QED BY <2>1, <2>3, <2>4, <2>5
<1> QED BY <1>1, <1>2, <1>3

(***************************************************************************)
(* An enumerator that has just decoded a block is at a posting.            *)
(***************************************************************************)
LEMMA DecodedOK ==
    ASSUME EnumeratorOK(cur, stored, list), NEW b \in 0..(Blocks(Len(list.docs)) - 1)
    PROVE  /\ EnumeratorOK(DecodeDocsBlock(b), stored, list)
           /\ DecodeDocsBlock(b).docid < Universe
           /\ DecodeDocsBlock(b).block = b /\ Place(DecodeDocsBlock(b)) = b * BlockSize
<1>1. list \in Lists /\ Holds(stored, list) /\ cur \in CurType
  BY DEF EnumeratorOK
<1> DEFINE c == DecodeDocsBlock(b)
<1>2. /\ c \in CurType /\ InBlock(c, stored, list) /\ AtPosting(c, list)
      /\ c.block = b /\ c.pos = 0
  BY <1>1, DecodedBlock
<1> HIDE DEF c
<1>3. EnumeratorOK(c, stored, list)
  <2>1. c.size \in 1..BlockSize /\ BlockSize \in Nat
    BY <1>1, <1>2, CurBounds, BlockSizeAssumption
  <2> QED BY <1>1, <1>2, <2>1 DEF EnumeratorOK
<1>4. c.docid < Universe
  <2>1. c.block * BlockSize \in Nat /\ c.block * BlockSize + c.size <= Len(list.docs)
        /\ c.size \in 1..BlockSize /\ BlockSize \in Nat /\ Len(list.docs) \in Nat
    BY <1>1, <1>2, CurBounds, BlockSizeAssumption, ListType
  <2>2. c.block * BlockSize + c.pos + 1 \in 1..Len(list.docs)
    BY <1>2, <2>1
  <2>3. c.docid = list.docs[c.block * BlockSize + c.pos + 1]
    BY <1>2 DEF AtPosting
  <2> QED BY <1>1, <2>2, <2>3, ListType
<1>5. Place(c) = b * BlockSize
  <2>1. c.block * BlockSize \in Nat
    BY <1>1, <1>2, CurBounds
  <2> QED BY <1>2, <2>1 DEF Place
<1> QED BY <1>2, <1>3, <1>4, <1>5 DEF c

(***************************************************************************)
(* An enumerator advanced in its block is at the next posting.             *)
(***************************************************************************)
LEMMA AdvancedOK ==
    ASSUME EnumeratorOK(cur, stored, list), cur.docid < Universe, cur.pos + 1 < cur.size
    PROVE  /\ EnumeratorOK(Advanced, stored, list)
           /\ Advanced.docid < Universe
           /\ Place(Advanced) = Place(cur) + 1
           /\ Advanced.block = cur.block /\ Advanced.size = cur.size /\ Advanced.max = cur.max
<1>1. list \in Lists /\ Holds(stored, list) /\ cur \in CurType /\ InBlock(cur, stored, list)
  BY DEF EnumeratorOK
<1>2. AtPosting(cur, list)
  BY WhereItIs
<1> DEFINE c == Advanced
<1>3. /\ c \in CurType /\ InBlock(c, stored, list) /\ AtPosting(c, list)
      /\ c.block = cur.block /\ c.pos = cur.pos + 1 /\ c.max = cur.max
  BY <1>1, <1>2, AdvancedAt
<1> HIDE DEF c
<1>4. c.size = cur.size
  BY <1>1, <1>3 DEF InBlock
<1>5. /\ cur.block * BlockSize \in Nat /\ cur.pos \in Nat
      /\ c.size \in 1..BlockSize /\ BlockSize \in Nat
      /\ c.block * BlockSize + c.size <= Len(list.docs) /\ Len(list.docs) \in Nat
  BY <1>1, <1>3, CurBounds, BlockSizeAssumption, ListType
<1>6. EnumeratorOK(c, stored, list)
  BY <1>1, <1>3, <1>4, <1>5 DEF EnumeratorOK
<1>7. Place(c) = Place(cur) + 1
  <2> DEFINE x == cur.block * BlockSize
  <2>1. Place(c) = x + (cur.pos + 1) /\ Place(cur) = x + cur.pos /\ x \in Nat
    BY <1>3, <1>5 DEF Place
  <2> HIDE DEF x
  <2> QED BY <2>1, <1>5
<1>8. c.docid < Universe
  <2> DEFINE x == c.block * BlockSize
  <2>1. c.docid = list.docs[x + c.pos + 1] /\ c.pos < c.size
    BY <1>3 DEF AtPosting
  <2>2. x \in Nat
    BY <1>3, <1>5
  <2>3. x + c.size <= Len(list.docs)
    BY <1>5
  <2> HIDE DEF x
  <2>4. x + c.pos + 1 \in 1..Len(list.docs)
    BY <1>3, <1>5, <2>1, <2>2, <2>3
  <2> QED BY <1>1, <2>1, <2>4, ListType
<1> QED BY <1>3, <1>4, <1>6, <1>7, <1>8 DEF c

(***************************************************************************)
(* An enumerator past the last posting, wherever it stays.                 *)
(***************************************************************************)
LEMMA MovedPast ==
    ASSUME EnumeratorOK(cur, stored, list), NEW pos \in Nat, pos <= cur.size, NEW c,
           c = [cur EXCEPT !.pos = pos, !.docid = Universe]
    PROVE  EnumeratorOK(c, stored, list) /\ c.docid = Universe
<1>1. list \in Lists /\ Holds(stored, list) /\ cur \in CurType /\ InBlock(cur, stored, list)
  BY DEF EnumeratorOK
<1>2. Universe \in Nat
  BY UniverseAssumption
<1>3. c = [block |-> cur.block, pos |-> pos, max |-> cur.max, size |-> cur.size,
           docid |-> Universe, docs |-> cur.docs, freqs_data |-> cur.freqs_data,
           freqs_decoded |-> cur.freqs_decoded, freqs |-> cur.freqs]
  BY <1>1 DEF CurType
<1>4. /\ cur.block \in Nat /\ cur.max \in Nat /\ cur.size \in Nat /\ cur.docs \in Seq(Nat)
      /\ cur.freqs_data \in Nat /\ cur.freqs_decoded \in BOOLEAN /\ cur.freqs \in Seq(Nat)
  BY <1>1 DEF CurType
<1>5. c \in CurType
  BY <1>2, <1>3, <1>4 DEF CurType
<1>6. /\ c.block = cur.block /\ c.pos = pos /\ c.max = cur.max /\ c.size = cur.size
      /\ c.docid = Universe /\ c.docs = cur.docs /\ c.freqs_data = cur.freqs_data
      /\ c.freqs_decoded = cur.freqs_decoded /\ c.freqs = cur.freqs
  BY <1>3, Zenon
<1>7. InBlock(c, stored, list)
  BY <1>1, <1>6 DEF InBlock
<1> QED BY <1>1, <1>5, <1>6, <1>7 DEF EnumeratorOK

(***************************************************************************)
(* The enumerator is constructed at the first posting.                     *)
(***************************************************************************)
LEMMA InitIInv ==
    Init => IInv /\ cur.docid = list.docs[1] /\ Place(cur) = 0 /\ cur.docid < Universe
<1> SUFFICES ASSUME Init
             PROVE  IInv /\ cur.docid = list.docs[1] /\ Place(cur) = 0 /\ cur.docid < Universe
  OBVIOUS
<1> DEFINE n == Len(list.docs)
           size == BlockLen(n, 0)
<1>1. list \in Lists
  BY DEF Init
<1>2. Holds(stored, list)
  <2>1. CASE stored = Write(list)
    BY <1>1, <2>1, WriteHolds
  <2>2. CASE \E order \in Orders(Blocks(n)) : stored = Rewrite(Write(list), order)
    BY <1>1, <2>2, RewriteHolds
  <2> QED BY <2>1, <2>2 DEF Init
<1>3. /\ n \in Nat /\ n > 0 /\ Universe \in Nat /\ Word \in Nat /\ Universe < Word
      /\ list.docs[1] \in Nat /\ list.docs[1] < Universe
      /\ Blocks(n) \in Nat /\ 0 \in 0..(Blocks(n) - 1)
      /\ size \in Nat /\ size > 0
  <2>1. n \in Nat /\ n > 0 /\ 1 \in 1..n
    BY <1>1, ListType
  <2>2. 0 \in 0..(Blocks(n) - 1) /\ Blocks(n) \in Nat
    BY <2>1, BlocksDivide
  <2>3. size \in Nat /\ size > 0
    BY <1>1, <2>2, BlockValues
  <2> QED BY <1>1, <2>1, <2>2, <2>3, ListType
<1>4. DocGaps(list, 0) \in Seq(Nat)
  BY <1>1, <1>3, BlockValues
<1>5. /\ block_max(0) = BlockMax(list, 0) /\ BlockLen(stored.n, 0) = size
      /\ BlockMax(list, 0) \in Nat
  BY <1>1, <1>2, <1>3, BlockBounds DEF block_max, Holds
<1>6. Decode(stored.data[1], GapsSum(block_max(0), 0, BlockLen(stored.n, 0)),
             BlockLen(stored.n, 0)) = DocGaps(list, 0)
  <2>1. CurBase(stored, 0) = 0
    BY <1>1, <1>2, <1>3, BaseReadBack, BlockBounds
  <2>2. Decode(stored.data[Endpoint(stored, 0) + 1],
               GapsSum(stored.maxs[0 + 1], CurBase(stored, 0), BlockLen(stored.n, 0)),
               BlockLen(stored.n, 0)) = DocGaps(list, 0)
    BY <1>1, <1>2, <1>3, PartsDecode
  <2>3. Endpoint(stored, 0) + 1 = 1 /\ stored.maxs[0 + 1] = block_max(0)
    BY DEF Endpoint, block_max
  <2> QED BY <2>1, <2>2, <2>3
<1>7. cur = [block |-> 0, pos |-> 0, max |-> BlockMax(list, 0), size |-> size,
             docid |-> list.docs[1], docs |-> DocGaps(list, 0), freqs_data |-> 2,
             freqs_decoded |-> FALSE, freqs |-> <<>>]
  BY <1>5, <1>6 DEF Init
<1> HIDE DEF size
<1>8. cur \in CurType
  <2>1. <<>> \in Seq(Nat)
    OBVIOUS
  <2> QED BY <1>3, <1>4, <1>5, <1>7, <2>1 DEF CurType
<1>9. /\ cur.block = 0 /\ cur.pos = 0 /\ cur.max = BlockMax(list, 0) /\ cur.size = size
      /\ cur.docid = list.docs[1] /\ cur.docs = DocGaps(list, 0) /\ cur.freqs_data = 2
      /\ cur.freqs_decoded = FALSE
  BY <1>7
<1>10. 0 * BlockSize = 0
  BY BlockSizeAssumption
<1>11. InBlock(cur, stored, list) /\ AtPosting(cur, list)
  <2>1. Endpoint(stored, 0) + 2 = 2
    BY DEF Endpoint
  <2>2. InBlock(cur, stored, list)
    BY <1>3, <1>9, <2>1 DEF InBlock, size
  <2>3. 0 * BlockSize + 0 + 1 = 1
    BY <1>10
  <2>4. AtPosting(cur, list)
    BY <1>3, <1>9, <2>3 DEF AtPosting
  <2> QED BY <2>2, <2>4
<1>12. EnumeratorOK(cur, stored, list)
  BY <1>1, <1>2, <1>3, <1>8, <1>9, <1>11 DEF EnumeratorOK
<1>13. Place(cur) = 0
  BY <1>9, <1>10 DEF Place
<1>14. answer = 0 /\ asked = 0 /\ call = NoCall
  BY DEF Init
<1>15. CallOK(cur, list, asked, call)
  BY <1>3, <1>9, <1>14 DEF CallOK, NoCall
<1> QED BY <1>3, <1>9, <1>12, <1>13, <1>14, <1>15 DEF IInv

(***************************************************************************)
(* Reset: the first block is decoded again.                                *)
(***************************************************************************)
LEMMA ResetIInv ==
    ASSUME IInv, Reset
    PROVE  /\ IInv' /\ call' = NoCall
           /\ Place(cur') = 0 /\ cur'.docid < Universe
<1>1. EnumeratorOK(cur, stored, list)
  BY DEF IInv
<1>2. 0 \in 0..(Blocks(Len(list.docs)) - 1) /\ 0 * BlockSize = 0
      /\ Universe \in Nat /\ Word \in Nat /\ Universe < Word /\ Universe > 0
      /\ Len(list.docs) \in Nat
  <2>1. list \in Lists
    BY <1>1 DEF EnumeratorOK
  <2>2. /\ Len(list.docs) \in Nat /\ Len(list.docs) > 0
        /\ Universe \in Nat /\ Word \in Nat /\ Universe < Word /\ Universe > 0
    BY <2>1, ListType
  <2>3. Blocks(Len(list.docs)) \in Nat /\ Blocks(Len(list.docs)) > 0
    BY <2>2, BlocksDivide
  <2>4. 0 * BlockSize = 0
    BY BlockSizeAssumption
  <2> QED BY <2>2, <2>3, <2>4
<1>3. /\ EnumeratorOK(cur', stored, list) /\ cur'.docid < Universe
      /\ Place(cur') = 0
  BY <1>1, <1>2, DecodedOK DEF Reset
<1>4. answer' = 0 /\ asked' = 0 /\ call' = NoCall /\ list' = list /\ stored' = stored
  BY DEF Reset, Idle
<1>5. CallOK(cur', list, asked', call')
  BY <1>2, <1>3, <1>4 DEF CallOK, NoCall
<1> QED BY <1>2, <1>3, <1>4, <1>5 DEF IInv

(***************************************************************************)
(* next(): within the block, to the next block, or past the last posting.  *)
(***************************************************************************)
LEMMA NextDocIInv ==
    ASSUME IInv, NextDoc
    PROVE  /\ IInv' /\ call' = NoCall
           /\ IF Place(cur) + 1 = Len(list.docs)
              THEN cur'.docid = Universe
              ELSE cur'.docid < Universe /\ Place(cur') = Place(cur) + 1
<1> DEFINE n == Len(list.docs)
           x == cur.block * BlockSize
<1>1. /\ EnumeratorOK(cur, stored, list) /\ CallOK(cur, list, asked, call)
      /\ list \in Lists /\ cur \in CurType /\ InBlock(cur, stored, list) /\ Holds(stored, list)
  BY DEF IInv, EnumeratorOK
<1>2. /\ answer' = 0 /\ asked' = cur.docid + 1 /\ call' = call /\ call = NoCall
      /\ list' = list /\ stored' = stored /\ cur.docid < Universe
  BY DEF NextDoc, Idle, Valid
<1>3. /\ Universe \in Nat /\ Word \in Nat /\ Universe < Word /\ n \in Nat
      /\ cur.docid \in 0..Universe /\ AtPosting(cur, list) /\ cur.docid = list.docs[Place(cur) + 1]
  BY <1>1, <1>2, WhereItIs, UniverseAssumption
<1>4. /\ cur.block \in Nat /\ x \in Nat /\ cur.pos \in Nat /\ cur.size \in 1..BlockSize
      /\ x + cur.size <= n
      /\ cur.block + 1 = Blocks(n) => x + cur.size = n
      /\ cur.block + 1 # Blocks(n) => /\ cur.block + 1 \in 0..(Blocks(n) - 1)
                                      /\ (cur.block + 1) * BlockSize = x + cur.size
      /\ BlockSize \in Nat /\ cur.pos < cur.size /\ Place(cur) = x + cur.pos
      /\ NumBlocks = Blocks(n)
  BY <1>1, <1>3, CurBounds, BlockSizeAssumption DEF AtPosting, Place, NumBlocks, Holds
<1> HIDE DEF x
<1>5. CASE cur.pos + 1 # cur.size
  <2>1. cur' = Advanced
    BY <1>5 DEF NextDoc
  <2>2. cur.pos + 1 < cur.size
    BY <1>4, <1>5
  <2>3. /\ EnumeratorOK(cur', stored, list) /\ cur'.docid < Universe
        /\ Place(cur') = Place(cur) + 1
    BY <1>1, <1>2, <2>1, <2>2, AdvancedOK
  <2>4. CallOK(cur', list, asked', call')
    BY <1>2, <1>3, <2>3 DEF CallOK, NoCall
  <2>5. Place(cur) + 1 # n
    BY <1>4, <2>2
  <2> QED BY <1>2, <1>3, <2>3, <2>4, <2>5 DEF IInv
<1>6. CASE cur.pos + 1 = cur.size /\ cur.block + 1 # Blocks(n)
  <2>1. cur' = DecodeDocsBlock(cur.block + 1)
    BY <1>4, <1>6 DEF NextDoc
  <2>2. /\ EnumeratorOK(cur', stored, list) /\ cur'.docid < Universe
        /\ Place(cur') = x + cur.size
    BY <1>1, <1>4, <1>6, <2>1, DecodedOK
  <2>3. Place(cur') = Place(cur) + 1
    BY <1>4, <1>6, <2>2
  <2>4. CallOK(cur', list, asked', call')
    BY <1>2, <1>3, <2>2 DEF CallOK, NoCall
  <2>5. Place(cur) + 1 # n
    <3>1. Place(cur') \in 0..(n - 1)
      BY <2>2, WhereItIs
    <3> QED BY <1>3, <2>3, <3>1
  <2> QED BY <1>2, <1>3, <2>2, <2>3, <2>4, <2>5 DEF IInv
<1>7. CASE cur.pos + 1 = cur.size /\ cur.block + 1 = Blocks(n)
  <2>1. cur' = [cur EXCEPT !.pos = cur.pos + 1, !.docid = Universe]
    BY <1>4, <1>7 DEF NextDoc, CurType
  <2>2. Place(cur) + 1 = n
    BY <1>4, <1>7
  <2>3. EnumeratorOK(cur', stored, list) /\ cur'.docid = Universe
    <3>1. cur.pos + 1 \in Nat /\ cur.pos + 1 <= cur.size
      BY <1>4, <1>7
    <3> QED BY <1>1, <2>1, <3>1, MovedPast
  <2>4. asked' > list.docs[n] /\ asked' \in 0..Universe
    BY <1>2, <1>3, <2>2
  <2>5. CallOK(cur', list, asked', call')
    BY <1>2, <1>3, <2>3, <2>4 DEF CallOK, NoCall
  <2> QED BY <1>2, <1>3, <2>2, <2>3, <2>5 DEF IInv
<1> QED BY <1>5, <1>6, <1>7

(***************************************************************************)
(* freq(): the freqs of the block, decoded now or before, give that of the *)
(* posting.                                                                *)
(***************************************************************************)
LEMMA FreqIInv ==
    ASSUME IInv, Freq
    PROVE  /\ IInv' /\ call' = NoCall
           /\ Place(cur') = Place(cur) /\ cur'.docid = cur.docid
           /\ answer' = list.freqs[Place(cur) + 1]
<1> DEFINE n == Len(list.docs)
           b == cur.block
           x == b * BlockSize
<1>1. /\ EnumeratorOK(cur, stored, list) /\ CallOK(cur, list, asked, call)
      /\ list \in Lists /\ cur \in CurType /\ InBlock(cur, stored, list) /\ Holds(stored, list)
  BY DEF IInv, EnumeratorOK
<1>2. /\ asked' = asked /\ call' = call /\ call = NoCall
      /\ list' = list /\ stored' = stored /\ cur.docid < Universe
      /\ answer' = UInt32(cur'.freqs[cur.pos + 1] + 1)
  BY DEF Freq, Idle, Valid
<1>3. b \in 0..(Blocks(n) - 1) /\ cur.size = BlockLen(n, b)
      /\ cur.freqs_data = Endpoint(stored, b) + 2
  BY <1>1 DEF InBlock
<1>4. Decode(stored.data[cur.freqs_data], NoSum, cur.size) = Freqs(list, b)
  <2>1. stored.n = n
    BY <1>1 DEF Holds
  <2> QED BY <1>1, <1>3, <2>1, PartsDecode
<1>5. Freqs(list, b) \in Seq(Nat)
  BY <1>1, <1>3, BlockValues
<1>6. /\ cur'.freqs = Freqs(list, b) /\ cur' \in CurType
      /\ cur'.block = b /\ cur'.pos = cur.pos /\ cur'.max = cur.max /\ cur'.size = cur.size
      /\ cur'.docid = cur.docid /\ cur'.docs = cur.docs /\ cur'.freqs_data = cur.freqs_data
  <2>1. CASE cur.freqs_decoded
    <3>1. cur' = cur /\ cur.freqs = Freqs(list, b)
      BY <1>1, <2>1 DEF Freq, InBlock
    <3> QED BY <1>1, <3>1
  <2>2. CASE ~cur.freqs_decoded
    <3>1. cur' = [cur EXCEPT !.freqs = Freqs(list, b), !.freqs_decoded = TRUE]
      BY <1>4, <2>2 DEF Freq
    <3>2. cur' = [block |-> b, pos |-> cur.pos, max |-> cur.max, size |-> cur.size,
                  docid |-> cur.docid, docs |-> cur.docs, freqs_data |-> cur.freqs_data,
                  freqs_decoded |-> TRUE, freqs |-> Freqs(list, b)]
      BY <1>1, <3>1 DEF CurType
    <3>3. /\ cur.block \in Nat /\ cur.pos \in Nat /\ cur.max \in Nat /\ cur.size \in Nat
          /\ cur.docid \in Nat /\ cur.docs \in Seq(Nat) /\ cur.freqs_data \in Nat
      BY <1>1 DEF CurType
    <3>4. cur' \in CurType
      BY <1>5, <3>2, <3>3 DEF CurType
    <3> QED BY <3>2, <3>4, Zenon
  <2> QED BY <2>1, <2>2
<1>7. InBlock(cur', stored, list)
  BY <1>1, <1>6 DEF InBlock
<1>8. EnumeratorOK(cur', stored, list)
  <2>1. AtPosting(cur, list) => AtPosting(cur', list)
    BY <1>6 DEF AtPosting
  <2>2. /\ cur.pos <= cur.size
        /\ cur.docid = Universe \/ AtPosting(cur, list)
    BY <1>1 DEF EnumeratorOK
  <2> QED BY <1>1, <1>6, <1>7, <2>1, <2>2 DEF EnumeratorOK
<1>9. Place(cur') = Place(cur)
  BY <1>6 DEF Place
<1>10. answer' = list.freqs[Place(cur) + 1] /\ answer' \in 0..(Word - 1)
  <2>1. AtPosting(cur, list) /\ Place(cur) \in 0..(n - 1) /\ n \in Nat
    BY <1>1, <1>2, WhereItIs
  <2>2. /\ x \in Nat /\ cur.pos \in Nat /\ cur.size \in Nat /\ cur.pos < cur.size
        /\ Place(cur) = x + cur.pos
    BY <1>1, <2>1, CurBounds, BlockSizeAssumption DEF AtPosting, Place
  <2>3. cur.pos + 1 \in 1..BlockLen(n, b) /\ x + (cur.pos + 1) = Place(cur) + 1
    <3> HIDE DEF x
    <3> QED BY <2>2, <1>3
  <2>4. UInt32(Freqs(list, b)[cur.pos + 1] + 1) = list.freqs[x + (cur.pos + 1)]
    BY <1>1, <1>3, <2>3, BlockValues
  <2>5. Place(cur) + 1 \in 1..n
    BY <2>1
  <2>6. list.freqs[Place(cur) + 1] \in 1..(Word - 1) /\ Word \in Nat
    BY <1>1, <2>5, ListType
  <2>7. answer' = list.freqs[Place(cur) + 1]
    BY <1>2, <1>6, <2>3, <2>4
  <2> QED BY <2>6, <2>7
<1>11. CallOK(cur', list, asked', call')
  BY <1>1, <1>2, <1>6 DEF CallOK, NoCall
<1> QED BY <1>2, <1>6, <1>8, <1>9, <1>10, <1>11 DEF IInv

(***************************************************************************)
(* The block next_geq skips to exists, and every posting before it has a   *)
(* docid below the bound.                                                  *)
(***************************************************************************)
LEMMA SkipToFinds ==
    ASSUME EnumeratorOK(cur, stored, list), NEW bound \in 0..Universe,
           bound > cur.max, ~(bound > block_max(NumBlocks - 1))
    PROVE  /\ SkipTo(bound) \in (cur.block + 1)..(Blocks(Len(list.docs)) - 1)
           /\ bound <= BlockMax(list, SkipTo(bound))
           /\ \A j \in 1..(SkipTo(bound) * BlockSize) : list.docs[j] < bound
<1> DEFINE n == Len(list.docs)
           q == Blocks(n)
           S == {b \in (cur.block + 1)..(q - 1) : block_max(b) >= bound}
           t == SkipTo(bound)
<1>1. list \in Lists /\ cur \in CurType /\ InBlock(cur, stored, list) /\ Holds(stored, list)
  BY DEF EnumeratorOK
<1>2. /\ n \in Nat /\ n > 0 /\ q \in Nat /\ q > 0 /\ cur.block \in 0..(q - 1)
      /\ cur.max = BlockMax(list, cur.block) /\ NumBlocks = q
      /\ Universe \in Nat
  BY <1>1, ListType, BlocksDivide DEF InBlock, Holds, NumBlocks
<1>3. \A b \in 0..(q - 1) : block_max(b) = BlockMax(list, b) /\ block_max(b) \in Nat
  BY <1>1, BlockBounds DEF Holds, block_max
<1> HIDE DEF q, n
<1>4. S \subseteq Nat /\ S # {}
  <2>1. q - 1 \in 0..(q - 1) /\ cur.block # q - 1
    BY <1>2, <1>3
  <2>2. q - 1 \in S
    BY <1>2, <1>3, <2>1
  <2> QED BY <1>2, <2>2
<1>5. PICK m \in S : \A y \in S : m <= y
  BY <1>4, LeastNat
<1>6. /\ m \in (cur.block + 1)..(q - 1) /\ block_max(m) >= bound
      /\ \A c \in (cur.block + 1)..(m - 1) : block_max(c) < bound
  <2>1. m \in (cur.block + 1)..(q - 1) /\ block_max(m) >= bound
    BY <1>5
  <2>2. ASSUME NEW c \in (cur.block + 1)..(m - 1)
        PROVE  block_max(c) < bound
    <3>1. c \in (cur.block + 1)..(q - 1) /\ c < m /\ c \in 0..(q - 1)
      BY <1>2, <2>1
    <3>2. c \notin S
      BY <1>2, <1>5, <3>1
    <3> QED BY <1>3, <3>1, <3>2
  <2> QED BY <2>1, <2>2
<1>7. /\ t \in (cur.block + 1)..(q - 1) /\ block_max(t) >= bound
      /\ \A c \in (cur.block + 1)..(t - 1) : block_max(c) < bound
  <2>1. \E b \in (cur.block + 1)..(NumBlocks - 1) :
            /\ block_max(b) >= bound
            /\ \A c \in (cur.block + 1)..(b - 1) : block_max(c) < bound
    BY <1>2, <1>6
  <2>2. /\ t \in (cur.block + 1)..(NumBlocks - 1) /\ block_max(t) >= bound
        /\ \A c \in (cur.block + 1)..(t - 1) : block_max(c) < bound
    BY <2>1 DEF SkipTo
  <2> QED BY <1>2, <2>2
<1> HIDE DEF t
<1>8. /\ t \in 0..(q - 1) /\ t - 1 \in 0..(q - 1) /\ t > 0
  BY <1>2, <1>7
<1>9. BlockMax(list, t - 1) < bound
  <2>1. CASE t - 1 = cur.block
    BY <1>2, <1>3, <1>8, <2>1
  <2>2. CASE t - 1 # cur.block
    <3>1. t - 1 \in (cur.block + 1)..(t - 1)
      BY <1>2, <1>7, <2>2
    <3> QED BY <1>3, <1>7, <1>8, <3>1
  <2> QED BY <2>1, <2>2
<1>10. t * BlockSize \in 1..n /\ BlockMax(list, t - 1) = list.docs[t * BlockSize]
  BY <1>1, <1>8, BlockBounds DEF q, n
<1>11. ASSUME NEW j \in 1..(t * BlockSize)
       PROVE  list.docs[j] < bound
  <2>1. j \in 1..n /\ j <= t * BlockSize
    BY <1>2, <1>10
  <2>2. list.docs[j] <= list.docs[t * BlockSize]
    BY <1>1, <1>10, <2>1, Increasing DEF n
  <2>3. list.docs[j] \in Nat /\ list.docs[t * BlockSize] \in Nat
    BY <1>1, <1>10, <2>1, ListType DEF n
  <2> QED BY <1>9, <1>10, <2>2, <2>3
<1> QED BY <1>3, <1>7, <1>8, <1>11 DEF t, q, n

(***************************************************************************)
(* How many postings are behind an enumerator.                             *)
(***************************************************************************)
LEMMA StartValue ==
    ASSUME EnumeratorOK(cur, stored, list)
    PROVE  /\ Start = IF cur.docid < Universe THEN Place(cur) ELSE Len(list.docs)
           /\ Start \in 0..Len(list.docs)
<1>1. /\ Len(list.docs) \in Nat
      /\ cur.docid < Universe => Place(cur) \in 0..(Len(list.docs) - 1)
  BY WhereItIs
<1>2. stored.n = Len(list.docs)
  BY DEF EnumeratorOK, Holds
<1>3. position = Place(cur)
  BY DEF position, Place
<1> QED BY <1>1, <1>2, <1>3 DEF Start, Valid

(***************************************************************************)
(* next_geq() is called.                                                   *)
(***************************************************************************)
LEMMA NextGeqIInv ==
    ASSUME IInv, NEW bound \in 0..Universe, NextGeq(bound)
    PROVE  IInv'
<1> DEFINE n == Len(list.docs)
           q == Blocks(n)
<1>1. /\ EnumeratorOK(cur, stored, list) /\ CallOK(cur, list, asked, call)
      /\ list \in Lists /\ cur \in CurType /\ InBlock(cur, stored, list) /\ Holds(stored, list)
  BY DEF IInv, EnumeratorOK
<1>2. /\ asked' = bound /\ bound >= asked /\ answer' = answer
      /\ call' = [op |-> "next_geq", bound |-> bound, from |-> Start]
      /\ list' = list /\ stored' = stored
  BY DEF NextGeq
<1>3. /\ Universe \in Nat /\ n \in Nat /\ n > 0 /\ cur.docid \in 0..Universe
      /\ cur.docid < Universe => /\ Place(cur) \in 0..(n - 1) /\ cur.docid <= cur.max
                                 /\ cur.docid = list.docs[Place(cur) + 1]
      /\ Start = IF cur.docid < Universe THEN Place(cur) ELSE n
      /\ Start \in 0..n
  BY <1>1, WhereItIs, StartValue
<1>4. /\ q \in Nat /\ q > 0 /\ NumBlocks = q /\ q - 1 \in 0..(q - 1)
      /\ block_max(q - 1) = list.docs[n] /\ list.docs[n] \in Nat
      /\ cur.max \in Nat /\ cur.max < Universe
  <2>1. q \in Nat /\ q > 0 /\ q - 1 \in 0..(q - 1)
    <3>1. n \in Nat /\ n > 0
      BY <1>3
    <3>2. q \in Nat /\ q > 0
      BY <3>1, BlocksDivide
    <3> HIDE DEF q
    <3> QED BY <3>2
  <2>2. NumBlocks = q
    BY <1>1 DEF Holds, NumBlocks
  <2>3. (q - 1) * BlockSize + BlockLen(n, q - 1) = n
    BY <1>3, <2>1, BlocksDivide
  <2>4. BlockMax(list, q - 1) = list.docs[n] /\ BlockMax(list, q - 1) \in Nat
    BY <1>1, <2>1, <2>3, BlockBounds
  <2>5. block_max(q - 1) = BlockMax(list, q - 1)
    BY <1>1, <2>1 DEF Holds, block_max
  <2> QED BY <1>1, <2>1, <2>2, <2>4, <2>5, CurBounds
<1>5. /\ asked \in 0..Universe
      /\ cur.docid = Universe => asked > list.docs[n]
  BY <1>1 DEF CallOK
<1>6. /\ call' \in [op : {"none", "next_geq", "move"}, bound : 0..Universe, from : 0..n]
      /\ call'.op = "next_geq" /\ call'.bound = bound /\ call'.from = Start
  BY <1>2, <1>3
<1> HIDE DEF q, n
<1>7. CASE bound <= cur.max
  <2>1. cur' = cur
    BY <1>7 DEF NextGeq
  <2>2. cur.docid = Universe => bound > list.docs[n]
    BY <1>2, <1>4, <1>5
  <2>3. cur.docid # Universe =>
            /\ Start <= Place(cur)
            /\ \A j \in (Start + 1)..Place(cur) : list.docs[j] < bound
            /\ cur.docid < bound => bound <= cur.max
    BY <1>3, <1>7
  <2>4. CallOK(cur', list, asked', call')
    BY <1>2, <1>6, <2>1, <2>2, <2>3 DEF CallOK, n
  <2> QED BY <1>1, <1>2, <2>1, <2>4 DEF IInv
<1>8. CASE ~(bound <= cur.max) /\ bound > block_max(NumBlocks - 1)
  <2>1. cur' = [cur EXCEPT !.docid = Universe]
    BY <1>8 DEF NextGeq
  <2>2. cur' = [cur EXCEPT !.pos = cur.pos, !.docid = Universe]
    BY <1>1, <2>1 DEF CurType
  <2>3. EnumeratorOK(cur', stored, list) /\ cur'.docid = Universe
    <3>1. cur.pos \in Nat /\ cur.pos <= cur.size
      BY <1>1 DEF EnumeratorOK, CurType
    <3> QED BY <1>1, <2>2, <3>1, MovedPast
  <2>4. bound > list.docs[n]
    BY <1>4, <1>8
  <2>5. CallOK(cur', list, asked', call')
    BY <1>2, <1>6, <2>3, <2>4 DEF CallOK, n
  <2> QED BY <1>2, <2>3, <2>5 DEF IInv
<1>9. CASE ~(bound <= cur.max) /\ ~(bound > block_max(NumBlocks - 1))
  <2> DEFINE t == SkipTo(bound)
  <2>1. cur' = DecodeDocsBlock(t)
    BY <1>9 DEF NextGeq
  <2>2. bound > cur.max
    BY <1>4, <1>9
  <2>3. /\ t \in (cur.block + 1)..(q - 1) /\ bound <= BlockMax(list, t)
        /\ \A j \in 1..(t * BlockSize) : list.docs[j] < bound
    BY <1>1, <1>9, <2>2, SkipToFinds DEF q, n
  <2>4. /\ cur.block \in Nat /\ cur.block * BlockSize \in Nat /\ cur.pos \in Nat
        /\ cur.size \in 1..BlockSize /\ BlockSize \in Nat
    BY <1>1, CurBounds, BlockSizeAssumption
  <2> HIDE DEF t
  <2>5. t \in Nat /\ t \in 0..(q - 1) /\ cur.block + 1 <= t /\ cur.block + 1 \in Nat
    BY <1>4, <2>3, <2>4
  <2>6. /\ EnumeratorOK(cur', stored, list) /\ cur'.docid < Universe
        /\ Place(cur') = t * BlockSize /\ cur'.block = t
    BY <1>1, <2>1, <2>5, DecodedOK DEF q, n
  <2>7. cur.docid < Universe
    <3>1. asked <= list.docs[n]
      BY <1>2, <1>4, <1>5, <1>9
    <3> QED BY <1>3, <1>4, <1>5, <3>1
  <2>8. Place(cur) < t * BlockSize /\ t * BlockSize \in Nat
    <3>1. (cur.block + 1) * BlockSize = cur.block * BlockSize + BlockSize
          /\ (cur.block + 1) * BlockSize <= t * BlockSize /\ t * BlockSize \in Nat
      BY <2>4, <2>5, TimesMonotonic
    <3>2. AtPosting(cur, list)
      BY <1>1, <2>7, WhereItIs
    <3>3. cur.pos < cur.size /\ Place(cur) = cur.block * BlockSize + cur.pos
      BY <3>2 DEF AtPosting, Place
    <3> QED BY <2>4, <3>1, <3>3
  <2>9. bound <= cur'.max
    <3>1. InBlock(cur', stored, list)
      BY <2>6 DEF EnumeratorOK
    <3> QED BY <2>3, <2>6, <3>1 DEF InBlock
  <2>10. /\ Start <= Place(cur')
         /\ \A j \in (Start + 1)..Place(cur') : list.docs[j] < bound
    BY <1>3, <2>3, <2>6, <2>7, <2>8
  <2>11. CallOK(cur', list, asked', call')
    <3>1. cur'.docid # Universe
      BY <1>3, <2>6
    <3> QED BY <1>2, <1>6, <2>9, <2>10, <3>1 DEF CallOK, n
  <2> QED BY <1>2, <2>6, <2>11 DEF IInv
<1> QED BY <1>7, <1>8, <1>9

(***************************************************************************)
(* move() is called.                                                       *)
(***************************************************************************)
LEMMA MoveIInv ==
    ASSUME IInv, NEW pos \in 0..(Universe - 1), Move(pos)
    PROVE  IInv'
<1> DEFINE n == Len(list.docs)
           b == pos \div BlockSize
<1>1. /\ EnumeratorOK(cur, stored, list) /\ CallOK(cur, list, asked, call)
      /\ list \in Lists /\ cur \in CurType /\ InBlock(cur, stored, list) /\ Holds(stored, list)
  BY DEF IInv, EnumeratorOK
<1>2. /\ asked' = (IF cur.docid > asked THEN cur.docid ELSE asked) /\ answer' = answer
      /\ call' = [op |-> "move", bound |-> pos, from |-> Start]
      /\ list' = list /\ stored' = stored
      /\ cur.docid < Universe /\ pos >= Place(cur) /\ pos < n
      /\ cur' = IF b # cur.block THEN DecodeDocsBlock(b) ELSE cur
  BY <1>1 DEF Move, Valid, position, Place, Holds
<1>3. /\ Universe \in Nat /\ n \in Nat /\ n > 0 /\ cur.docid \in 0..Universe
      /\ Place(cur) \in 0..(n - 1) /\ AtPosting(cur, list)
      /\ Start = Place(cur) /\ asked \in 0..Universe
  BY <1>1, <1>2, WhereItIs, StartValue DEF CallOK
<1>4. /\ b \in 0..(Blocks(n) - 1)
      /\ b * BlockSize <= pos /\ pos < b * BlockSize + BlockLen(n, b)
  <2>1. pos \in 0..(n - 1)
    BY <1>2, <1>3
  <2> QED BY <1>3, <2>1, BlockOfPosition
<1>5. /\ call' \in [op : {"none", "next_geq", "move"}, bound : 0..Universe, from : 0..n]
      /\ call'.op = "move" /\ call'.bound = pos /\ call'.from = Start
      /\ asked' \in 0..Universe
  BY <1>2, <1>3
<1> HIDE DEF b
<1>6. /\ EnumeratorOK(cur', stored, list) /\ cur'.docid < Universe /\ cur'.block = b
      /\ Place(cur) <= Place(cur') /\ Place(cur') <= pos
  <2>1. CASE b = cur.block
    BY <1>1, <1>2, <1>3, <2>1
  <2>2. CASE b # cur.block
    <3>1. /\ EnumeratorOK(cur', stored, list) /\ cur'.docid < Universe /\ cur'.block = b
          /\ Place(cur') = b * BlockSize
      BY <1>1, <1>2, <1>4, <2>2, DecodedOK
    <3>2. /\ cur.block \in Nat /\ cur.block * BlockSize \in Nat /\ cur.pos \in Nat
          /\ cur.size \in 1..BlockSize /\ BlockSize \in Nat
          /\ cur.pos < cur.size /\ Place(cur) = cur.block * BlockSize + cur.pos
      BY <1>1, <1>3, CurBounds, BlockSizeAssumption DEF AtPosting, Place
    <3>3. b \in Nat /\ BlockLen(n, b) \in 1..BlockSize /\ b * BlockSize \in Nat
      BY <1>3, <1>4, BlocksDivide
    <3>4. b < cur.block => (b + 1) * BlockSize <= cur.block * BlockSize
                           /\ (b + 1) * BlockSize = b * BlockSize + BlockSize
      <4>1. b < cur.block => b + 1 \in Nat /\ b + 1 <= cur.block
        BY <3>2, <3>3
      <4>2. b < cur.block => (b + 1) * BlockSize <= cur.block * BlockSize
        BY <4>1, <3>2, TimesMonotonic
      <4>3. (b + 1) * BlockSize = b * BlockSize + BlockSize
        BY <3>2, <3>3, TimesMonotonic
      <4> QED BY <4>2, <4>3
    <3>5. ~(b < cur.block)
      BY <1>2, <1>4, <3>2, <3>3, <3>4
    <3>6. /\ cur.block + 1 \in Nat /\ cur.block + 1 <= b
      BY <2>2, <3>2, <3>3, <3>5
    <3>7. /\ (cur.block + 1) * BlockSize <= b * BlockSize
          /\ (cur.block + 1) * BlockSize = cur.block * BlockSize + BlockSize
      <4>1. (cur.block + 1) * BlockSize <= b * BlockSize
        BY <3>2, <3>3, <3>6, TimesMonotonic
      <4>2. (cur.block + 1) * BlockSize = cur.block * BlockSize + BlockSize
        BY <3>2, TimesMonotonic
      <4> QED BY <4>1, <4>2
    <3>8. Place(cur) <= b * BlockSize
      <4> DEFINE x == cur.block * BlockSize
                 y == b * BlockSize
      <4>1. x + BlockSize <= y /\ Place(cur) = x + cur.pos /\ x \in Nat /\ y \in Nat
        BY <3>2, <3>3, <3>7
      <4>2. cur.pos \in Nat /\ cur.pos <= BlockSize /\ BlockSize \in Nat
        BY <3>2
      <4> HIDE DEF x, y
      <4>3. Place(cur) <= y
        BY <4>1, <4>2
      <4> QED BY <4>3 DEF y
    <3> QED BY <1>4, <3>1, <3>8
  <2> QED BY <2>1, <2>2
<1>7. CallOK(cur', list, asked', call')
  <2>1. cur'.size = BlockLen(n, b)
    BY <1>6 DEF EnumeratorOK, InBlock
  <2>2. pos < cur'.block * BlockSize + cur'.size
    BY <1>4, <1>6, <2>1
  <2>3. cur'.docid # Universe
    BY <1>3, <1>6
  <2> QED BY <1>3, <1>5, <1>6, <2>2, <2>3 DEF CallOK
<1> QED BY <1>1, <1>2, <1>6, <1>7 DEF IInv

(***************************************************************************)
(* A step of the loop that ends next_geq, or move, stays in the block.     *)
(***************************************************************************)
LEMMA ScanStepIInv ==
    ASSUME IInv, ScanStep
    PROVE  IInv' /\ call.op # "none"
<1> DEFINE n == Len(list.docs)
           x == cur.block * BlockSize
<1>1. /\ EnumeratorOK(cur, stored, list) /\ CallOK(cur, list, asked, call)
      /\ list \in Lists /\ cur \in CurType /\ InBlock(cur, stored, list)
  BY DEF IInv, EnumeratorOK
<1>2. /\ asked' = asked /\ call' = call /\ answer' = answer /\ list' = list /\ stored' = stored
      /\ cur' = Advanced
      /\ \/ call.op = "next_geq" /\ cur.docid < call.bound
         \/ call.op = "move" /\ Place(cur) < call.bound
  BY DEF ScanStep, Scanning, position, Place
<1>3. /\ Universe \in Nat /\ n \in Nat /\ cur.docid \in 0..Universe
      /\ cur.docid < Universe <=> cur.docid # Universe
      /\ cur.docid < Universe =>
            /\ AtPosting(cur, list) /\ cur.docid = list.docs[Place(cur) + 1]
            /\ Place(cur) \in 0..(n - 1)
      /\ call.bound \in 0..Universe /\ call.from \in 0..n
  BY <1>1, WhereItIs DEF CallOK
<1>4. cur.docid < Universe
  BY <1>1, <1>2, <1>3 DEF CallOK
<1>5. /\ x \in Nat /\ cur.pos \in Nat /\ cur.size \in 1..BlockSize /\ BlockSize \in Nat
      /\ cur.max = list.docs[x + cur.size] /\ cur.max \in Nat
      /\ cur.pos < cur.size /\ Place(cur) = x + cur.pos
      /\ cur.docid = list.docs[x + cur.pos + 1]
  BY <1>1, <1>3, <1>4, CurBounds, BlockSizeAssumption DEF AtPosting, Place
<1> HIDE DEF x
<1>6. cur.pos + 1 < cur.size
  <2>1. CASE call.op = "next_geq" /\ cur.docid < call.bound
    <3>1. call.bound <= cur.max
      BY <1>1, <1>3, <1>4, <2>1 DEF CallOK
    <3>2. cur.pos + 1 = cur.size => cur.docid = cur.max
      BY <1>5
    <3>3. cur.docid # cur.max
      BY <1>3, <1>5, <2>1, <3>1
    <3>4. cur.pos + 1 # cur.size
      BY <3>2, <3>3
    <3>5. cur.pos \in Nat /\ cur.size \in Nat /\ cur.pos < cur.size
      BY <1>5
    <3> QED BY <3>4, <3>5
  <2>2. CASE call.op = "move" /\ Place(cur) < call.bound
    <3>1. call.bound < x + cur.size
      BY <1>1, <2>2 DEF CallOK, x
    <3> QED BY <1>3, <1>5, <2>2, <3>1
  <2> QED BY <1>2, <2>1, <2>2
<1>7. /\ EnumeratorOK(cur', stored, list) /\ cur'.docid < Universe
      /\ Place(cur') = Place(cur) + 1
      /\ cur'.block = cur.block /\ cur'.size = cur.size /\ cur'.max = cur.max
  BY <1>1, <1>2, <1>4, <1>6, AdvancedOK
<1>8. CallOK(cur', list, asked', call')
  <2>0. cur'.docid # Universe
    BY <1>3, <1>7
  <2>1. CASE call.op = "next_geq" /\ cur.docid < call.bound
    <3>1. /\ call.bound <= cur.max /\ call.from <= Place(cur) /\ asked = call.bound
          /\ \A j \in (call.from + 1)..Place(cur) : list.docs[j] < call.bound
      BY <1>1, <1>3, <1>4, <2>1 DEF CallOK
    <3>2. \A j \in (call.from + 1)..Place(cur') : list.docs[j] < call.bound
      BY <1>3, <1>4, <1>7, <2>1, <3>1
    <3>3. call.from <= Place(cur')
      BY <1>3, <1>4, <1>7, <3>1
    <3> QED BY <1>1, <1>2, <1>7, <2>0, <2>1, <3>1, <3>2, <3>3 DEF CallOK
  <2>2. CASE call.op = "move" /\ Place(cur) < call.bound
    <3>1. /\ call.from <= Place(cur) /\ Place(cur) <= call.bound
          /\ call.bound < cur.block * BlockSize + cur.size
      BY <1>1, <2>2 DEF CallOK
    <3>2. call.from <= Place(cur') /\ Place(cur') <= call.bound
      BY <1>3, <1>4, <1>7, <2>2, <3>1
    <3> QED BY <1>1, <1>2, <1>7, <2>0, <2>2, <3>1, <3>2 DEF CallOK
  <2> QED BY <1>2, <2>1, <2>2
<1>9. call.op # "none"
  BY <1>2
<1> QED BY <1>2, <1>7, <1>8, <1>9 DEF IInv

(***************************************************************************)
(* A call returns where it was to: next_geq at the first posting that      *)
(* reaches its bound, of those it began before, move at its position.      *)
(***************************************************************************)
LEMMA ReturnIInv ==
    ASSUME IInv, Return
    PROVE  /\ IInv' /\ call' = NoCall
           /\ call.op \in {"next_geq", "move"} /\ call.from \in 0..Len(list.docs)
           /\ call.op = "move" => cur.docid < Universe /\ Place(cur) = call.bound
           /\ call.op = "next_geq" =>
                /\ cur.docid >= call.bound
                /\ call.from <= Start
                /\ \A j \in (call.from + 1)..Start : list.docs[j] < call.bound
<1> DEFINE n == Len(list.docs)
<1>1. /\ EnumeratorOK(cur, stored, list) /\ CallOK(cur, list, asked, call)
      /\ list \in Lists
  BY DEF IInv, EnumeratorOK
<1>2. /\ answer' = 0 /\ call' = NoCall /\ cur' = cur /\ asked' = asked
      /\ list' = list /\ stored' = stored
      /\ call # NoCall
      /\ ~(call.op = "next_geq" /\ cur.docid < call.bound)
      /\ ~(call.op = "move" /\ Place(cur) < call.bound)
  BY DEF Return, Idle, Scanning, position, Place
<1>3. /\ Universe \in Nat /\ n \in Nat /\ n > 0 /\ cur.docid \in 0..Universe
      /\ cur.docid < Universe <=> cur.docid # Universe
      /\ cur.docid < Universe => Place(cur) \in 0..(n - 1)
      /\ Start = IF cur.docid < Universe THEN Place(cur) ELSE n
      /\ Start \in 0..n
  BY <1>1, WhereItIs, StartValue
<1>4. /\ call.op \in {"next_geq", "move"} /\ call.from \in 0..n /\ call.bound \in 0..Universe
      /\ asked \in 0..Universe
  BY <1>1, <1>2 DEF CallOK
<1>5. call.op = "move" => cur.docid < Universe /\ Place(cur) = call.bound
  <2> SUFFICES ASSUME call.op = "move"
               PROVE  cur.docid < Universe /\ Place(cur) = call.bound
    OBVIOUS
  <2>1. cur.docid # Universe /\ Place(cur) <= call.bound
    BY <1>1 DEF CallOK
  <2> QED BY <1>2, <1>3, <1>4, <2>1
<1>6. ASSUME call.op = "next_geq"
      PROVE  /\ cur.docid >= call.bound /\ call.from <= Start
             /\ \A j \in (call.from + 1)..Start : list.docs[j] < call.bound
  <2>1. cur.docid >= call.bound
    BY <1>2, <1>3, <1>4, <1>6
  <2>2. CASE cur.docid < Universe
    BY <1>1, <1>3, <1>6, <2>1, <2>2 DEF CallOK
  <2>3. CASE ~(cur.docid < Universe)
    <3>1. call.bound > list.docs[n]
      BY <1>1, <1>3, <1>6, <2>3 DEF CallOK
    <3>2. ASSUME NEW j \in (call.from + 1)..n
          PROVE  list.docs[j] < call.bound
      <4>1. j \in 1..n /\ n \in 1..n /\ j <= n
        BY <1>3, <1>4
      <4>2. list.docs[j] <= list.docs[n] /\ list.docs[j] \in Nat /\ list.docs[n] \in Nat
        BY <1>1, <4>1, Increasing, ListType
      <4> QED BY <1>4, <3>1, <4>2
    <3> QED BY <1>3, <1>4, <2>1, <2>3, <3>2
  <2> QED BY <2>2, <2>3
<1>7. IInv'
  <2>1. CallOK(cur', list, asked', call')
    BY <1>1, <1>2, <1>3 DEF CallOK, NoCall
  <2>2. 0 \in 0..(Word - 1)
    BY UniverseAssumption
  <2> QED BY <1>1, <1>2, <2>1, <2>2 DEF IInv
<1> QED BY <1>2, <1>4, <1>5, <1>6, <1>7

-----------------------------------------------------------------------------
(* The enumerator implements the cursor of PostingCursor.                  *)

\* Which posting the enumerator c of the list l shows, counted from 0.
Shown(c, l) == IF c.docid < Universe THEN Place(c) ELSE Len(l.docs)

(***************************************************************************)
(* The docid an enumerator has is that of the posting it shows.            *)
(***************************************************************************)
LEMMA ShownDocid ==
    ASSUME NEW c, NEW s, NEW l, EnumeratorOK(c, s, l)
    PROVE  /\ Shown(c, l) \in 0..Len(l.docs) /\ Len(l.docs) \in Nat
           /\ c.docid = IF Shown(c, l) + 1 <= Len(l.docs) THEN l.docs[Shown(c, l) + 1] ELSE Universe
           /\ c.docid < Universe <=> Shown(c, l) < Len(l.docs)
<1>1. /\ c.docid \in 0..Universe /\ Universe \in Nat /\ Len(l.docs) \in Nat /\ Len(l.docs) > 0
      /\ c.docid < Universe <=> c.docid # Universe
      /\ c.docid < Universe =>
            Place(c) \in 0..(Len(l.docs) - 1) /\ c.docid = l.docs[Place(c) + 1]
  BY WhereItIs
<1> QED BY <1>1 DEF Shown

\* The posting and the docid of the cursor, as the refinement maps them.
KBar == (IF call.op # "none" THEN call.from ELSE Start) + 1

DocidBar == IF call.op # "none" THEN
                IF call.from < Len(list.docs) THEN list.docs[call.from + 1] ELSE Universe
            ELSE cur.docid

(***************************************************************************)
(* The cursor is at the posting shown, or while a call is in progress at   *)
(* the one that was shown when it was made.                                *)
(***************************************************************************)
LEMMA Bars ==
    ASSUME EnumeratorOK(cur, stored, list)
    PROVE  /\ KBar = (IF call.op # "none" THEN call.from ELSE Shown(cur, list)) + 1
           /\ Start = Shown(cur, list)
  BY StartValue DEF KBar, Shown

(***************************************************************************)
(* The same after a step.                                                  *)
(***************************************************************************)
LEMMA BarsPrimed ==
    ASSUME EnumeratorOK(cur', stored', list')
    PROVE  KBar' = (IF call'.op # "none" THEN call'.from ELSE Shown(cur', list')) + 1
<1>1. stored'.n = Len(list'.docs)
  BY DEF EnumeratorOK, Holds
<1> QED BY <1>1 DEF KBar, Start, Valid, position, Shown, Place

(***************************************************************************)
(* The initial states are initial states of the cursor.                    *)
(***************************************************************************)
LEMMA InitRefines == Init => Cursor!CInit
<1> SUFFICES ASSUME Init PROVE Cursor!CInit
  OBVIOUS
<1>1. IInv /\ cur.docid = list.docs[1] /\ Place(cur) = 0 /\ cur.docid < Universe
  BY InitIInv
<1>2. EnumeratorOK(cur, stored, list)
  BY <1>1 DEF IInv
<1>3. answer = 0 /\ asked = 0 /\ call = NoCall
  BY DEF Init
<1>4. KBar = 1 /\ DocidBar = list.docs[1]
  BY <1>1, <1>2, <1>3, Bars DEF DocidBar, NoCall, Shown
<1>5. Len(list.docs) > 0 /\ Len(list.docs) \in Nat
  BY <1>2, WhereItIs
<1> QED BY <1>3, <1>4, <1>5
        DEF Cursor!CInit, Cursor!DocAt, Cursor!Size, Cursor!NoCall, KBar, DocidBar, NoCall

(***************************************************************************)
(* reset() is the cursor's: at the first posting.                          *)
(***************************************************************************)
LEMMA ResetRefines ==
    ASSUME IInv, Reset
    PROVE  Cursor!CReset
<1>1. IInv' /\ call' = NoCall /\ Place(cur') = 0 /\ cur'.docid < Universe
  BY ResetIInv
<1>2. EnumeratorOK(cur, stored, list) /\ EnumeratorOK(cur', stored', list')
  BY <1>1 DEF IInv
<1>3. call = NoCall /\ answer' = 0 /\ asked' = 0 /\ list' = list
  BY DEF Reset, Idle
<1>4. KBar' = 1 /\ DocidBar' = cur'.docid
  BY <1>1, <1>2, BarsPrimed DEF DocidBar, NoCall, Shown
<1>5. cur'.docid = IF 1 <= Len(list.docs) THEN list.docs[1] ELSE Universe
  <2>1. Shown(cur', list') = 0
    BY <1>1 DEF Shown
  <2> QED BY <1>2, <1>3, <2>1, ShownDocid
<1> QED BY <1>1, <1>3, <1>4, <1>5
        DEF Cursor!CReset, Cursor!At, Cursor!DocAt, Cursor!Size, Cursor!NoCall, KBar, DocidBar, NoCall

(***************************************************************************)
(* next() is the cursor's: one posting further, or past the last one.      *)
(***************************************************************************)
LEMMA NextDocRefines ==
    ASSUME IInv, NextDoc
    PROVE  Cursor!CNext
<1> DEFINE n == Len(list.docs)
<1>1. /\ IInv' /\ call' = NoCall
      /\ IF Place(cur) + 1 = n
         THEN cur'.docid = Universe
         ELSE cur'.docid < Universe /\ Place(cur') = Place(cur) + 1
  BY NextDocIInv
<1>2. EnumeratorOK(cur, stored, list) /\ EnumeratorOK(cur', stored', list')
  BY <1>1 DEF IInv
<1>3. /\ call = NoCall /\ answer' = 0 /\ asked' = cur.docid + 1 /\ list' = list
      /\ cur.docid < Universe
  BY DEF NextDoc, Idle, Valid
<1>4. /\ Shown(cur, list) = Place(cur) /\ Place(cur) < n /\ Place(cur) \in Nat /\ n \in Nat
      /\ Universe \in Nat
  BY <1>2, <1>3, WhereItIs DEF Shown
<1>5. Shown(cur', list') = Place(cur) + 1
  BY <1>1, <1>3, <1>4 DEF Shown
<1>6. /\ KBar = Place(cur) + 1 /\ KBar' = Place(cur) + 1 + 1
      /\ DocidBar = cur.docid /\ DocidBar' = cur'.docid
  <2>1. KBar = Shown(cur, list) + 1 /\ DocidBar = cur.docid
    BY <1>2, <1>3, Bars DEF DocidBar, NoCall
  <2>2. KBar' = Shown(cur', list') + 1 /\ DocidBar' = cur'.docid
    BY <1>1, <1>2, BarsPrimed DEF DocidBar, NoCall
  <2> QED BY <2>1, <2>2, <1>4, <1>5
<1>7. cur'.docid = IF Place(cur) + 1 + 1 <= n THEN list.docs[Place(cur) + 1 + 1] ELSE Universe
  BY <1>2, <1>3, <1>5, ShownDocid
<1>8. KBar <= n /\ KBar' = KBar + 1
  BY <1>4, <1>6
<1>9. DocidBar' = IF KBar + 1 <= n THEN list.docs[KBar + 1] ELSE Universe
  BY <1>6, <1>7
<1> QED BY <1>1, <1>3, <1>6, <1>8, <1>9
        DEF Cursor!CNext, Cursor!At, Cursor!DocAt, Cursor!Size, Cursor!NoCall, KBar, DocidBar, NoCall

(***************************************************************************)
(* freq() answers with the frequency of the posting that is shown, whether *)
(* it decodes the block's freqs or finds them decoded.                     *)
(***************************************************************************)
LEMMA FreqRefines ==
    ASSUME IInv, Freq
    PROVE  Cursor!CFreq
<1>1. /\ IInv' /\ call' = NoCall
      /\ Place(cur') = Place(cur) /\ cur'.docid = cur.docid
      /\ answer' = list.freqs[Place(cur) + 1]
  BY FreqIInv
<1>2. EnumeratorOK(cur, stored, list) /\ EnumeratorOK(cur', stored', list')
  BY <1>1 DEF IInv
<1>3. call = NoCall /\ asked' = asked /\ list' = list /\ cur.docid < Universe
  BY DEF Freq, Idle, Valid
<1>4. /\ Shown(cur, list) = Place(cur) /\ Place(cur) < Len(list.docs)
      /\ Place(cur) \in Nat /\ Len(list.docs) \in Nat
  BY <1>2, <1>3, WhereItIs DEF Shown
<1>5. Shown(cur', list') = Place(cur)
  BY <1>1, <1>3 DEF Shown
<1>6. /\ KBar = Place(cur) + 1 /\ KBar' = Place(cur) + 1
      /\ DocidBar = cur.docid /\ DocidBar' = cur.docid
  <2>1. KBar = Shown(cur, list) + 1 /\ DocidBar = cur.docid
    BY <1>2, <1>3, Bars DEF DocidBar, NoCall
  <2>2. KBar' = Shown(cur', list') + 1 /\ DocidBar' = cur'.docid
    BY <1>1, <1>2, BarsPrimed DEF DocidBar, NoCall
  <2> QED BY <1>1, <2>1, <2>2, <1>4, <1>5
<1>7. KBar <= Len(list.docs) /\ answer' = list.freqs[KBar]
  BY <1>1, <1>4, <1>6
<1> QED BY <1>1, <1>3, <1>6, <1>7
        DEF Cursor!CFreq, Cursor!Size, Cursor!NoCall, KBar, DocidBar, NoCall

(***************************************************************************)
(* A call of next_geq: the blocks it skips are not seen before it returns. *)
(***************************************************************************)
LEMMA NextGeqRefines ==
    ASSUME IInv, NEW bound \in 0..Universe, NextGeq(bound)
    PROVE  Cursor!CNextGeq(bound)
<1>1. EnumeratorOK(cur, stored, list) /\ EnumeratorOK(cur', stored', list')
  BY NextGeqIInv DEF IInv
<1>2. /\ call = NoCall /\ answer' = answer /\ asked' = bound /\ bound >= asked /\ list' = list
      /\ call' = [op |-> "next_geq", bound |-> bound, from |-> Start]
  BY DEF NextGeq, Idle
<1>3. /\ Start = Shown(cur, list) /\ KBar = Shown(cur, list) + 1 /\ DocidBar = cur.docid
  BY <1>1, <1>2, Bars DEF DocidBar, NoCall
<1>4. KBar' = Start + 1
  BY <1>1, <1>2, BarsPrimed
<1>5. DocidBar' = IF Start < Len(list.docs) THEN list.docs[Start + 1] ELSE Universe
  BY <1>2 DEF DocidBar
<1>6. DocidBar' = DocidBar /\ KBar' = KBar
  BY <1>1, <1>3, <1>4, <1>5, ShownDocid
<1> QED BY <1>2, <1>6
        DEF Cursor!CNextGeq, Cursor!NoCall, KBar, DocidBar, NoCall

(***************************************************************************)
(* A call of move: the block it decodes is not seen before it returns.     *)
(***************************************************************************)
LEMMA MoveRefines ==
    ASSUME IInv, NEW pos \in 0..(Universe - 1), Move(pos)
    PROVE  pos \in 0..(Len(list.docs) - 1) /\ Cursor!CMove(pos)
<1>1. EnumeratorOK(cur, stored, list) /\ EnumeratorOK(cur', stored', list')
  BY MoveIInv DEF IInv
<1>2. /\ call = NoCall /\ answer' = answer /\ list' = list /\ cur.docid < Universe
      /\ asked' = (IF cur.docid > asked THEN cur.docid ELSE asked)
      /\ call' = [op |-> "move", bound |-> pos, from |-> Start]
      /\ pos >= Place(cur) /\ pos < Len(list.docs)
  BY <1>1 DEF Move, Idle, Valid, position, Place, EnumeratorOK, Holds
<1>3. /\ Start = Shown(cur, list) /\ KBar = Shown(cur, list) + 1 /\ DocidBar = cur.docid
  BY <1>1, <1>2, Bars DEF DocidBar, NoCall
<1>4. KBar' = Start + 1
  BY <1>1, <1>2, BarsPrimed
<1>5. DocidBar' = IF Start < Len(list.docs) THEN list.docs[Start + 1] ELSE Universe
  BY <1>2 DEF DocidBar
<1>6. DocidBar' = DocidBar /\ KBar' = KBar
  BY <1>1, <1>3, <1>4, <1>5, ShownDocid
<1>7. /\ Len(list.docs) \in Nat /\ Place(cur) \in Nat /\ Shown(cur, list) = Place(cur)
  BY <1>1, <1>2, WhereItIs DEF Shown
<1>8. KBar <= Len(list.docs) /\ pos + 1 \in KBar..Len(list.docs)
  BY <1>2, <1>3, <1>7
<1> QED BY <1>2, <1>3, <1>6, <1>7, <1>8
        DEF Cursor!CMove, Cursor!Size, Cursor!NoCall, KBar, DocidBar, NoCall

(***************************************************************************)
(* The loop that ends either call is not seen.                             *)
(***************************************************************************)
LEMMA ScanStepRefines ==
    ASSUME IInv, ScanStep
    PROVE  UNCHANGED Cursor!cvars
<1>1. call.op # "none" /\ EnumeratorOK(cur, stored, list) /\ EnumeratorOK(cur', stored', list')
  BY ScanStepIInv DEF IInv
<1>2. call' = call /\ list' = list /\ answer' = answer /\ asked' = asked
  BY DEF ScanStep
<1>3. KBar' = KBar /\ DocidBar' = DocidBar
  BY <1>1, <1>2, Bars, BarsPrimed DEF DocidBar
<1> QED BY <1>2, <1>3 DEF Cursor!cvars, KBar, DocidBar

(***************************************************************************)
(* A call returns at the posting the cursor's returns at.                  *)
(***************************************************************************)
LEMMA ReturnRefines ==
    ASSUME IInv, Return
    PROVE  Cursor!CReturn
<1> DEFINE n == Len(list.docs)
           i == Shown(cur, list) + 1
<1>1. /\ IInv' /\ call' = NoCall
      /\ call.op \in {"next_geq", "move"} /\ call.from \in 0..n
      /\ call.op = "move" => cur.docid < Universe /\ Place(cur) = call.bound
      /\ call.op = "next_geq" =>
            /\ cur.docid >= call.bound
            /\ call.from <= Start
            /\ \A j \in (call.from + 1)..Start : list.docs[j] < call.bound
  BY ReturnIInv
<1>2. EnumeratorOK(cur, stored, list) /\ EnumeratorOK(cur', stored', list')
  BY <1>1 DEF IInv
<1>3. list' = list /\ cur' = cur /\ answer' = 0 /\ asked' = asked
  BY DEF Return
<1>4. /\ KBar = call.from + 1 /\ Start = Shown(cur, list)
      /\ KBar' = i /\ DocidBar' = cur.docid
  <2>1. KBar = call.from + 1 /\ Start = Shown(cur, list)
    BY <1>1, <1>2, Bars
  <2>2. KBar' = i /\ DocidBar' = cur.docid
    BY <1>1, <1>2, <1>3, BarsPrimed DEF DocidBar, NoCall
  <2> QED BY <2>1, <2>2
<1>5. /\ Shown(cur, list) \in 0..n /\ n \in Nat
      /\ cur.docid = Cursor!DocAt(i)
  BY <1>2, ShownDocid DEF Cursor!DocAt, Cursor!Size
<1>6. Cursor!At(i)
  BY <1>3, <1>4, <1>5 DEF Cursor!At, KBar, DocidBar
<1>7. CASE call.op = "move"
  <2>1. i = call.bound + 1
    BY <1>1, <1>7 DEF Shown
  <2> QED BY <1>1, <1>3, <1>6, <1>7, <2>1 DEF Cursor!CReturn, Cursor!NoCall, NoCall
<1>8. CASE call.op = "next_geq"
  <2>1. i \in KBar..(n + 1)
    BY <1>1, <1>4, <1>5, <1>8
  <2>2. Cursor!DocAt(i) >= call.bound
    BY <1>1, <1>5, <1>8
  <2>3. ASSUME NEW j \in KBar..(i - 1)
        PROVE  Cursor!DocAt(j) < call.bound
    <3>1. j \in (call.from + 1)..Start /\ j <= n
      BY <1>1, <1>4, <1>5
    <3>2. list.docs[j] < call.bound
      BY <1>1, <1>8, <3>1
    <3> QED BY <3>1, <3>2 DEF Cursor!DocAt, Cursor!Size
  <2> HIDE DEF i
  <2>4. /\ call.op = "next_geq"
        /\ \E m \in KBar..(n + 1) :
                /\ Cursor!DocAt(m) >= call.bound
                /\ \A j \in KBar..(m - 1) : Cursor!DocAt(j) < call.bound
                /\ Cursor!At(m)
    BY <1>6, <1>8, <2>1, <2>2, <2>3
  <2> QED BY <1>1, <1>3, <2>4 DEF Cursor!CReturn, Cursor!NoCall, Cursor!Size, KBar, NoCall
<1> QED BY <1>1, <1>7, <1>8

-----------------------------------------------------------------------------
(* The theorems.                                                           *)

(***************************************************************************)
(* Every step keeps the invariant and is a step of the cursor, or one the  *)
(* cursor does not see.                                                    *)
(***************************************************************************)
LEMMA StepOK == IInv /\ [Next]_vars => IInv' /\ [Cursor!CStep]_Cursor!cvars
<1> SUFFICES ASSUME IInv, [Next]_vars PROVE IInv' /\ [Cursor!CStep]_Cursor!cvars
  OBVIOUS
<1>1. CASE Reset
  BY <1>1, ResetIInv, ResetRefines DEF Cursor!CStep
<1>2. CASE NextDoc
  BY <1>2, NextDocIInv, NextDocRefines DEF Cursor!CStep
<1>3. CASE Freq
  BY <1>3, FreqIInv, FreqRefines DEF Cursor!CStep
<1>4. CASE \E lower_bound \in 0..Universe : NextGeq(lower_bound)
  <2>1. PICK bound \in 0..Universe : NextGeq(bound)
    BY <1>4
  <2> QED BY <2>1, NextGeqIInv, NextGeqRefines DEF Cursor!CStep
<1>5. CASE \E pos \in 0..(Universe - 1) : Move(pos)
  <2>1. PICK pos \in 0..(Universe - 1) : Move(pos)
    BY <1>5
  <2>2. pos \in 0..(Len(list.docs) - 1) /\ Cursor!CMove(pos)
    BY <2>1, MoveRefines
  <2> QED BY <2>1, <2>2, MoveIInv DEF Cursor!CStep, Cursor!Size
<1>6. CASE ScanStep
  BY <1>6, ScanStepIInv, ScanStepRefines
<1>7. CASE Return
  BY <1>7, ReturnIInv, ReturnRefines DEF Cursor!CStep
<1>8. CASE UNCHANGED vars
  <2>1. list' = list /\ stored' = stored /\ cur' = cur /\ answer' = answer /\ asked' = asked
        /\ call' = call
    BY <1>8 DEF vars
  <2>2. IInv'
    BY <2>1 DEF IInv
  <2>3. UNCHANGED Cursor!cvars
    BY <2>1 DEF Cursor!cvars, Start, Valid, position
  <2> QED BY <2>2, <2>3
<1> QED BY <1>1, <1>2, <1>3, <1>4, <1>5, <1>6, <1>7, <1>8 DEF Next

(***************************************************************************)
(* The enumerator is always in a block of the list that is stored, with    *)
(* that block's data, and its calls keep to what they promised so far.     *)
(***************************************************************************)
THEOREM Invariance == Spec => []IInv
<1>1. Init => IInv
  BY InitIInv
<1>2. IInv /\ [Next]_vars => IInv'
  BY StepOK
<1> QED BY <1>1, <1>2, PTL DEF Spec

(***************************************************************************)
(* document_enumerator is a forward cursor on the postings that were       *)
(* written: for every block size, every list, and every order in which     *)
(* write_blocks may have stored the blocks, next, next_geq, move, freq and *)
(* reset show what PostingCursor shows.                                    *)
(***************************************************************************)
THEOREM CursorRefined == Spec => RefinesPostingCursor
<1>1. Init => Cursor!CInit
  BY InitRefines
<1>2. IInv /\ [Next]_vars => [Cursor!CStep]_Cursor!cvars
  BY StepOK
<1> QED BY <1>1, <1>2, Invariance, PTL DEF Spec, RefinesPostingCursor, Cursor!CSpec

(***************************************************************************)
(* The members of the enumerator keep their types: no position past the    *)
(* block, no docid past the universe.                                      *)
(***************************************************************************)
THEOREM TypeCorrect == Spec => []TypeOK
<1>1. ASSUME IInv PROVE TypeOK
  <2>1. EnumeratorOK(cur, stored, list) /\ CallOK(cur, list, asked, call)
        /\ answer \in 0..(Word - 1)
    BY <1>1 DEF IInv
  <2>2. /\ list \in Lists /\ stored.n = Len(list.docs) /\ cur \in CurType
        /\ InBlock(cur, stored, list) /\ cur.pos <= cur.size
    BY <2>1 DEF EnumeratorOK, Holds
  <2>3. cur.block \in 0..(NumBlocks - 1)
    BY <2>2 DEF InBlock, NumBlocks
  <2>4. cur.size \in 1..BlockSize /\ cur.pos \in Nat /\ cur.freqs_decoded \in BOOLEAN
        /\ BlockSize \in Nat
    BY <2>2, CurBounds, BlockSizeAssumption DEF CurType
  <2>5. cur.docid \in 0..Universe
    BY <2>1, WhereItIs
  <2>6. asked \in 0..Universe /\ call.op \in {"none", "next_geq", "move"}
    BY <2>1 DEF CallOK
  <2> QED BY <2>1, <2>2, <2>3, <2>4, <2>5, <2>6 DEF TypeOK
<1> QED BY <1>1, Invariance, PTL

(***************************************************************************)
(* The maximum, the size, the gaps and, once decoded, the freqs that the   *)
(* enumerator has cached are those of the block it is in.                  *)
(***************************************************************************)
THEOREM CachedIsCurrent == Spec => []CacheCurrent
<1>1. ASSUME IInv PROVE CacheCurrent
  <2>1. Holds(stored, list) /\ InBlock(cur, stored, list)
    BY <1>1 DEF IInv, EnumeratorOK
  <2>2. cur.block \in 0..(Blocks(Len(list.docs)) - 1) /\ cur.max = BlockMax(list, cur.block)
        /\ stored.n = Len(list.docs)
    BY <2>1 DEF InBlock, Holds
  <2>3. block_max(cur.block) = BlockMax(list, cur.block)
    BY <2>1, <2>2 DEF Holds, block_max
  <2> QED BY <2>1, <2>2, <2>3 DEF InBlock, CacheCurrent
<1> QED BY <1>1, Invariance, PTL

(***************************************************************************)
(* Written blocks that are got and written again in the order of the list  *)
(* are the list as it was written.                                         *)
(***************************************************************************)
LEMMA BlocksWrittenBack ==
    ASSUME NEW l \in Lists
    PROVE  WriteBlocks(Write(l).n, GetBlocks(Write(l))) = Write(l)
<1> DEFINE n == Len(l.docs)
           q == Blocks(n)
           w == Write(l)
           s == WriteBlocks(n, GetBlocks(w))
<1>1. n \in Nat /\ n > 0 /\ q \in Nat /\ q > 0 /\ w.n = n
  BY ListType, BlocksDivide DEF Write
<1>2. Len(GetBlocks(w)) = q
  BY <1>1 DEF GetBlocks
<1>3. PICK order \in Orders(q) : \A i \in 1..q : order[i] = i - 1
  <2> DEFINE inOrder == [i \in 1..q |-> i - 1]
  <2>1. inOrder \in Orders(q) /\ \A i \in 1..q : inOrder[i] = i - 1
    <3> HIDE DEF q
    <3> QED BY <1>1 DEF Orders
  <2> HIDE DEF inOrder
  <2> QED BY <2>1
<1>4. InOrder(GetBlocks(w), order, l)
  <2>1. ASSUME NEW i \in 1..q PROVE order[i] + 1 = i
    <3> HIDE DEF q
    <3> QED BY <1>1, <1>3
  <2> QED BY <1>2, <2>1 DEF InOrder
<1>5. ASSUME NEW b \in 0..(q - 1)
      PROVE  /\ s.n = n
             /\ s.maxs[b + 1] = BlockMax(l, b)
             /\ Endpoint(s, b) = 2 * b
             /\ s.data[2 * b + 1] = Encode(DocGaps(l, b), GapsSumOf(l, b))
             /\ s.data[2 * b + 2] = Encode(Freqs(l, b), NoSum)
  <2>1. /\ s.n = n
        /\ \E i \in 1..q : order[i] = b /\ PartsAt(s, l, b, 2 * (i - 1))
    BY <1>4, WriteBlocksParts
  <2>2. PICK i \in 1..q : order[i] = b /\ PartsAt(s, l, b, 2 * (i - 1))
    BY <2>1
  <2>3. i - 1 = b
    <3> HIDE DEF q
    <3> QED BY <1>1, <1>3, <2>2
  <2>4. PartsAt(s, l, b, 2 * b)
    BY <2>2, <2>3
  <2> HIDE DEF s
  <2> QED BY <2>1, <2>4 DEF PartsAt
<1>6. /\ s = [n |-> n, maxs |-> s.maxs, endpoints |-> s.endpoints, data |-> s.data]
      /\ w = [n |-> n, maxs |-> w.maxs, endpoints |-> w.endpoints, data |-> w.data]
      /\ s.maxs = [i \in 1..q |-> s.maxs[i]] /\ w.maxs = [i \in 1..q |-> w.maxs[i]]
      /\ s.endpoints = [i \in 1..(q - 1) |-> s.endpoints[i]]
      /\ w.endpoints = [i \in 1..(q - 1) |-> w.endpoints[i]]
      /\ s.data = [p \in 1..(2 * q) |-> s.data[p]] /\ w.data = [p \in 1..(2 * q) |-> w.data[p]]
  <2>0. s = [n |-> n, maxs |-> s.maxs, endpoints |-> s.endpoints, data |-> s.data]
    BY DEF WriteBlocks
  <2>1. s.maxs = [i \in 1..q |-> s.maxs[i]]
    BY <1>2 DEF WriteBlocks
  <2>2. /\ s.endpoints = [i \in 1..(q - 1) |-> s.endpoints[i]]
        /\ s.data = [p \in 1..(2 * q) |-> s.data[p]]
    BY <1>2 DEF WriteBlocks
  <2>3. /\ w = [n |-> n, maxs |-> w.maxs, endpoints |-> w.endpoints, data |-> w.data]
        /\ w.maxs = [i \in 1..q |-> w.maxs[i]]
    BY DEF Write
  <2>4. /\ w.endpoints = [i \in 1..(q - 1) |-> w.endpoints[i]]
        /\ w.data = [p \in 1..(2 * q) |-> w.data[p]]
    BY DEF Write
  <2> HIDE DEF s, w, q
  <2> QED BY <2>0, <2>1, <2>2, <2>3, <2>4, Zenon
<1>7. ASSUME NEW b \in 0..(q - 1)
      PROVE  /\ w.maxs[b + 1] = BlockMax(l, b)
             /\ Endpoint(w, b) = 2 * b
             /\ w.data[2 * b + 1] = Encode(DocGaps(l, b), GapsSumOf(l, b))
             /\ w.data[2 * b + 2] = Encode(Freqs(l, b), NoSum)
  BY WrittenParts
<1> HIDE DEF s, w, q
<1>8. s.maxs = w.maxs
  <2>1. ASSUME NEW i \in 1..q PROVE s.maxs[i] = w.maxs[i]
    <3>1. i - 1 \in 0..(q - 1) /\ (i - 1) + 1 = i
      BY <1>1
    <3> QED BY <1>5, <1>7, <3>1
  <2> QED BY <1>6, <2>1
<1>9. s.endpoints = w.endpoints
  <2>1. ASSUME NEW i \in 1..(q - 1) PROVE s.endpoints[i] = w.endpoints[i]
    <3>1. i \in 0..(q - 1) /\ i > 0
      BY <1>1
    <3>2. Endpoint(s, i) = Endpoint(w, i)
      BY <1>5, <1>7, <3>1
    <3> QED BY <3>1, <3>2 DEF Endpoint
  <2> QED BY <1>6, <2>1
<1>10. s.data = w.data
  <2>1. ASSUME NEW p \in 1..(2 * q) PROVE s.data[p] = w.data[p]
    <3>1. \E b \in 0..(q - 1) : p = 2 * b + 1 \/ p = 2 * b + 2
      <4> DEFINE b == (p - 1) \div 2
      <4>1. b \in 0..(q - 1) /\ (p = 2 * b + 1 \/ p = 2 * b + 2)
        BY <1>1
      <4> QED BY <4>1
    <3>2. PICK b \in 0..(q - 1) : p = 2 * b + 1 \/ p = 2 * b + 2
      BY <3>1
    <3> QED BY <1>5, <1>7, <3>2
  <2> QED BY <1>6, <2>1
<1>11. s = w
  BY <1>6, <1>8, <1>9, <1>10
<1> QED BY <1>1, <1>11 DEF s, w

(***************************************************************************)
(* get_blocks and write_blocks lose nothing: the list comes back as it was *)
(* written, and each block decodes to its gaps and its freqs, which the    *)
(* time model and the codec comparison rely on.                            *)
(***************************************************************************)
THEOREM BlocksKept == Spec => []BlocksSurvive
<1>1. ASSUME IInv PROVE BlocksSurvive
  <2> DEFINE w == Write(list)
             blocks == GetBlocks(w)
             q == Blocks(Len(list.docs))
  <2>1. list \in Lists
    BY <1>1 DEF IInv, EnumeratorOK
  <2>2. WriteBlocks(w.n, blocks) = w
    BY <2>1, BlocksWrittenBack
  <2>3. Len(blocks) = q
    BY <2>1, ListType, BlocksDivide DEF GetBlocks, Write
  <2>4. ASSUME NEW b \in 0..(q - 1)
        PROVE  /\ DecodeDocGaps(blocks[b + 1]) = DocGaps(list, b)
               /\ DecodeFreqs(blocks[b + 1]) = Freqs(list, b)
    <3> DEFINE size == BlockLen(Len(list.docs), b)
               sum == GapsSumOf(list, b)
    <3>1. /\ blocks[b + 1].size = size /\ blocks[b + 1].doc_gaps_universe = sum
          /\ blocks[b + 1].docs = Encode(DocGaps(list, b), sum)
          /\ blocks[b + 1].freqs = Encode(Freqs(list, b), NoSum)
      BY <2>1, BlocksOfWritten
    <3>2. Len(DocGaps(list, b)) = size /\ Len(Freqs(list, b)) = size
      BY <2>1, BlockValues
    <3> HIDE DEF blocks, size, sum
    <3>3. Decode(Encode(DocGaps(list, b), sum), sum, size) = DocGaps(list, b)
      BY <3>2 DEF Decode, Encode
    <3>4. Decode(Encode(Freqs(list, b), NoSum), NoSum, size) = Freqs(list, b)
      BY <3>2 DEF Decode, Encode
    <3> QED BY <3>1, <3>3, <3>4 DEF DecodeDocGaps, DecodeFreqs
  <2> HIDE DEF w, blocks, q
  <2> QED BY <2>2, <2>3, <2>4 DEF BlocksSurvive, w, blocks
<1> QED BY <1>1, Invariance, PTL
=============================================================================
