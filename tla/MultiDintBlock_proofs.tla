----------------------- MODULE MultiDintBlock_proofs -----------------------
(***************************************************************************)
(* Proofs about MultiDintBlock, for every number of dictionaries, every    *)
(* table, block and base of the bytes: whichever dictionary and width is   *)
(* chosen, the decoder gives back the block and stops where its bytes end, *)
(* and no other choice has fewer bytes.                                    *)
(*                                                                         *)
(* The lemmas about dictionaries are those of DintBlock_proofs.            *)
(***************************************************************************)
EXTENDS MultiDintBlock, SequenceTheorems, WellFoundedInduction, TLAPS

-----------------------------------------------------------------------------
(* The least and the greatest of some integers.                            *)

(***************************************************************************)
(* Naturals of which there is one have a least one.                        *)
(***************************************************************************)
LEMMA LeastNat ==
    ASSUME NEW S, S \subseteq Nat, S # {}
    PROVE  \E x \in S : \A y \in S : x <= y
<1>1. PICK x \in S : \A y \in S : ~(<<y, x>> \in OpToRel(<, Nat))
  BY NatLessThanWellFounded, WFMin
<1>2. \A y \in S : ~(y < x)
  BY <1>1 DEF OpToRel
<1> QED BY <1>2

(***************************************************************************)
(* Naturals that have a bound, and of which there is one, have a greatest. *)
(***************************************************************************)
LEMMA GreatestNat ==
    ASSUME NEW S, S \subseteq Nat, S # {}, NEW top \in Nat, \A x \in S : x <= top
    PROVE  \E x \in S : \A y \in S : y <= x
<1> DEFINE D == {top - x : x \in S}
<1>1. D \subseteq Nat /\ D # {}
  <2>1. ASSUME NEW d \in D PROVE d \in Nat
    <3>1. PICK x \in S : d = top - x
      OBVIOUS
    <3>2. x \in Nat /\ x <= top
      OBVIOUS
    <3> QED BY <3>1, <3>2
  <2>2. D # {}
    OBVIOUS
  <2> QED BY <2>1, <2>2
<1>2. PICK d \in D : \A e \in D : d <= e
  BY <1>1, LeastNat
<1>3. PICK x \in S : d = top - x
  OBVIOUS
<1>4. \A y \in S : top - x <= top - y
  BY <1>2, <1>3
<1> QED BY <1>4

-----------------------------------------------------------------------------
(* Dictionaries.                                                           *)

(***************************************************************************)
(* What it means that a sequence is found in another at some place.        *)
(***************************************************************************)
LEMMA FoundAt ==
    ASSUME NEW S, NEW tab \in Seq(S), NEW t \in Seq(S), NEW off \in Nat,
           off + Len(t) <= Len(tab), SubSeq(tab, off + 1, off + Len(t)) = t
    PROVE  \A p \in 1..Len(t) : t[p] = tab[off + p]
<1> DEFINE a == off + 1
           z == off + Len(t)
<1>1. Len(t) \in Nat /\ Len(tab) \in Nat
  OBVIOUS
<1>2. a \in Int /\ z \in Int /\ \A i \in a..z : i \in 1..Len(tab)
  BY <1>1
<1>3. \A i \in a..z : tab[i] \in S
  BY <1>2
<1>4. z - a + 1 = Len(t) /\ \A p \in 1..Len(t) : a + p - 1 = off + p
  BY <1>1
<1>5. SubSeq(tab, a, z) = t
  OBVIOUS
<1> HIDE DEF a, z
<1>6. \A p \in 1..(z - a + 1) : SubSeq(tab, a, z)[p] = tab[a + p - 1]
  BY <1>2, <1>3, SubSeqProperties
<1> QED BY <1>4, <1>5, <1>6

(***************************************************************************)
(* A codeword that is not of a run names a target of the dictionary.       *)
(***************************************************************************)
LEMMA TargetIndex ==
    ASSUME NEW d, IsDictionary(d), NEW w \in EXCEPTIONS..(DictSize(d) - 1), ~IsRun(w)
    PROVE  w - reserved + 1 \in 1..Len(d.targets)
<1> DEFINE k == Len(d.targets)
<1>1. Len(Runs) \in Nat /\ k \in Nat
  BY RunsAssumption DEF IsDictionary
<1>2. DictSize(d) = reserved + k
  BY <1>1 DEF DictSize
<1>3. reserved = 2 + Len(Runs)
  BY <1>1 DEF reserved, EXCEPTIONS
<1> HIDE DEF k
<1>4. w \in Int /\ w >= 2 /\ w <= reserved + k - 1
  BY <1>1, <1>2, <1>3 DEF EXCEPTIONS
<1>5. w >= reserved
  BY <1>1, <1>3, <1>4 DEF IsRun, EXCEPTIONS
<1>6. w - reserved + 1 \in 1..k
  BY <1>1, <1>3, <1>4, <1>5
<1> QED BY <1>6 DEF k

(***************************************************************************)
(* What is known of the codewords of a dictionary: the run or the target   *)
(* they stand for, and its length.                                         *)
(***************************************************************************)
LEMMA EntryFacts ==
    ASSUME NEW d, IsDictionary(d), NEW w \in EXCEPTIONS..(DictSize(d) - 1)
    PROVE  /\ EntrySize(d, w) \in Nat \ {0}
           /\ Entry(d, w) \in Seq(Nat)
           /\ Len(Entry(d, w)) = EntrySize(d, w)
           /\ IsRun(w) => \A p \in 1..EntrySize(d, w) : Entry(d, w)[p] = 0
           /\ ~IsRun(w) => EntrySize(d, w) <= MaxEntrySize
<1>1. Len(Runs) \in Nat /\ Len(d.targets) \in Nat
  BY RunsAssumption DEF IsDictionary
<1>2. CASE IsRun(w)
  <2>1. w - EXCEPTIONS + 1 \in 1..Len(Runs)
    BY <1>1, <1>2 DEF IsRun, reserved, EXCEPTIONS
  <2>2. EntrySize(d, w) \in Nat \ {0}
    BY <1>2, <2>1, RunsAssumption DEF EntrySize
  <2>3. Entry(d, w) = [p \in 1..EntrySize(d, w) |-> 0]
    BY <1>2 DEF Entry, Zeros
  <2> QED BY <1>2, <2>2, <2>3
<1>3. CASE ~IsRun(w)
  <2>1. w - reserved + 1 \in 1..Len(d.targets)
    BY <1>3, TargetIndex
  <2>2. /\ Target(d, w) \in Seq(Nat)
        /\ Len(Target(d, w)) \in 1..MaxEntrySize
    BY <2>1 DEF IsDictionary, Target
  <2> QED BY <1>3, <2>2, MaxEntrySizeAssumption DEF EntrySize, Entry
<1> QED BY <1>2, <1>3

(***************************************************************************)
(* Where an entry is in the table: its first max_entry_size integers are   *)
(* there, of a run the zeros in front.                                     *)
(***************************************************************************)
LEMMA OffsetFacts ==
    ASSUME NEW d, IsDictionary(d), NEW w \in EXCEPTIONS..(DictSize(d) - 1)
    PROVE  /\ EntryOffset(d, w) \in Nat
           /\ \A p \in 1..MaxEntrySize : p <= EntrySize(d, w) =>
                /\ EntryOffset(d, w) + p <= Len(d.table)
                /\ d.table[EntryOffset(d, w) + p] = Entry(d, w)[p]
<1>1. /\ Len(Runs) \in Nat /\ Len(d.targets) \in Nat /\ Len(d.table) \in Nat
      /\ d.table \in Seq(Nat) /\ MaxEntrySize <= Len(d.table)
      /\ MaxEntrySize \in Nat \ {0}
  BY RunsAssumption, MaxEntrySizeAssumption DEF IsDictionary
<1>2. CASE IsRun(w)
  <2>1. EntryOffset(d, w) = 0
    BY <1>2 DEF EntryOffset
  <2>2. SubSeq(d.table, 1, MaxEntrySize) = Zeros(MaxEntrySize)
    BY DEF IsDictionary
  <2>3. \A p \in 1..MaxEntrySize : SubSeq(d.table, 1, MaxEntrySize)[p] = d.table[p]
    BY <1>1, SubSeqProperties
  <2>4. \A p \in 1..MaxEntrySize : d.table[p] = 0
    BY <2>2, <2>3 DEF Zeros
  <2>5. EntrySize(d, w) \in Nat \ {0} /\ \A p \in 1..EntrySize(d, w) : Entry(d, w)[p] = 0
    BY <1>2, EntryFacts
  <2>6. \A p \in 1..MaxEntrySize : p <= EntrySize(d, w) => p \in 1..EntrySize(d, w)
    BY <1>1, <2>5
  <2> QED BY <1>1, <2>1, <2>4, <2>5, <2>6
<1>3. CASE ~IsRun(w)
  <2> DEFINE t == Target(d, w)
             tab == d.table
             starts == {o \in 0..(Len(tab) - Len(t)) : SubSeq(tab, o + 1, o + Len(t)) = t}
             off == EntryOffset(d, w)
  <2>1. w - reserved + 1 \in 1..Len(d.targets)
    BY <1>3, TargetIndex
  <2>2. t \in Seq(Nat) /\ Len(t) \in 1..MaxEntrySize /\ starts # {}
    <3>1. /\ Len(t) \in 1..MaxEntrySize
          /\ \E o \in 0..(Len(tab) - Len(t)) : SubSeq(tab, o + 1, o + Len(t)) = t
      BY <2>1 DEF IsDictionary, Target
    <3>2. t \in Seq(Nat)
      BY <2>1 DEF IsDictionary, Target
    <3> QED BY <3>1, <3>2
  <2>3. \E o \in starts : \A p \in starts : o <= p
    <3>1. starts \subseteq Nat
      OBVIOUS
    <3> HIDE DEF starts
    <3> QED BY <2>2, <3>1, LeastNat
  <2>4. off = CHOOSE o \in starts : \A p \in starts : o <= p
    BY <1>3 DEF EntryOffset
  <2>5. EntrySize(d, w) = Len(t) /\ Entry(d, w) = t
    BY <1>3 DEF EntrySize, Entry
  <2>6. tab \in Seq(Nat) /\ Len(tab) \in Nat
    BY <1>1
  <2>7. off \in starts
    <3> HIDE DEF starts, off
    <3> QED BY <2>3, <2>4
  <2> HIDE DEF t, tab, off
  <2>8. /\ off \in Nat /\ off <= Len(tab) - Len(t)
        /\ SubSeq(tab, off + 1, off + Len(t)) = t
    <3> DEFINE k == Len(t)
               m == Len(tab)
    <3>1. off \in 0..(m - k)
      BY <2>7
    <3>4. SubSeq(tab, off + 1, off + Len(t)) = t
      BY <2>7
    <3>2. k \in Nat /\ m \in Nat
      BY <2>2, <2>6
    <3> HIDE DEF k, m
    <3>3. off \in Nat /\ off <= m - k
      BY <3>1, <3>2
    <3>5. off \in Nat /\ off <= Len(tab) - Len(t)
      BY <3>3 DEF k, m
    <3> HIDE DEF starts
    <3> QED BY <3>4, <3>5
  <2>9. off + Len(t) <= Len(tab) /\ Len(t) \in Nat
    <3> DEFINE k == Len(t)
               m == Len(tab)
    <3>1. k \in Nat /\ m \in Nat /\ off <= m - k
      BY <2>2, <2>6, <2>8
    <3> HIDE DEF k, m
    <3>2. off + k <= m
      BY <2>8, <3>1
    <3> QED BY <3>1, <3>2 DEF k, m
  <2>10. \A p \in 1..Len(t) : t[p] = tab[off + p]
    <3> HIDE DEF starts
    <3>1. /\ t \in Seq(Nat) /\ tab \in Seq(Nat) /\ off \in Nat
          /\ off + Len(t) <= Len(tab) /\ SubSeq(tab, off + 1, off + Len(t)) = t
      BY <2>2, <2>6, <2>8, <2>9
    <3> QED BY <3>1, FoundAt, Zenon
  <2>11. ASSUME NEW p \in 1..MaxEntrySize, p <= Len(t)
         PROVE  off + p <= Len(tab) /\ tab[off + p] = t[p]
    <3>1. p \in 1..Len(t)
      BY <1>1, <2>9, <2>11
    <3> QED BY <2>8, <2>6, <2>9, <2>10, <3>1
  <2>12. /\ off \in Nat
         /\ \A p \in 1..MaxEntrySize : p <= Len(t) => off + p <= Len(tab) /\ tab[off + p] = t[p]
    BY <2>8, <2>11
  <2> QED BY <2>5, <2>12 DEF off, tab
<1> QED BY <1>2, <1>3

(***************************************************************************)
(* copy() changes max_entry_size integers and none besides; of those the   *)
(* entry has, these are the entry's.                                       *)
(***************************************************************************)
LEMMA CopyFacts ==
    ASSUME NEW d, IsDictionary(d), NEW w \in EXCEPTIONS..(DictSize(d) - 1),
           NEW m \in Nat, NEW o, DOMAIN o = 1..m, NEW at \in Nat
    PROVE  /\ DOMAIN Copy(d, w, o, at) = 1..m
           /\ \A p \in 1..m : p < at \/ p >= at + MaxEntrySize => Copy(d, w, o, at)[p] = o[p]
           /\ \A p \in 1..m : (p >= at /\ p < at + MaxEntrySize /\ p < at + EntrySize(d, w))
                                => Copy(d, w, o, at)[p] = Entry(d, w)[p - at + 1]
<1> DEFINE off == EntryOffset(d, w)
           size == EntrySize(d, w)
           tab == d.table
           top == Len(tab)
           e == Entry(d, w)
           c == Copy(d, w, o, at)
<1>1. MaxEntrySize \in Nat \ {0} /\ size \in Nat /\ off \in Nat
  BY MaxEntrySizeAssumption, EntryFacts, OffsetFacts
<1>2. \A q \in 1..MaxEntrySize : q <= size => off + q <= top /\ tab[off + q] = e[q]
  BY OffsetFacts
<1>3. c = [p \in 1..m |-> IF p \in at..(at + MaxEntrySize - 1)
                           THEN IF off + p - at + 1 <= top THEN tab[off + p - at + 1] ELSE Junk
                           ELSE o[p]]
  BY DEF Copy
<1> HIDE DEF off, size, tab, top, e, c
<1>4. DOMAIN c = 1..m
  BY <1>3
<1>5. ASSUME NEW p \in 1..m, p < at \/ p >= at + MaxEntrySize
      PROVE  c[p] = o[p]
  BY <1>1, <1>3, <1>5
<1>6. ASSUME NEW p \in 1..m, p >= at, p < at + MaxEntrySize, p < at + size
      PROVE  c[p] = e[p - at + 1]
  <2>1. /\ p - at + 1 \in 1..MaxEntrySize /\ p - at + 1 <= size
        /\ off + (p - at + 1) = off + p - at + 1
    BY <1>1, <1>6
  <2>2. off + p - at + 1 <= top /\ tab[off + p - at + 1] = e[p - at + 1]
    BY <1>2, <2>1
  <2> QED BY <1>1, <1>3, <1>6, <2>2
<1> QED BY <1>4, <1>5, <1>6 DEF c, e, size

-----------------------------------------------------------------------------
(* Numbers and their bytes.                                                *)

(***************************************************************************)
(* Dividing by a product is dividing by its factors one after the other.   *)
(***************************************************************************)
LEMMA DivTwice ==
    ASSUME NEW x \in Nat, NEW a \in Nat \ {0}, NEW c \in Nat \ {0}
    PROVE  x \div (c * a) = (x \div a) \div c
<1> DEFINE q == x \div a
           r == x - a * q
           p == q \div c
           t == q - c * p
           u == c * a
<1>1. q \in Nat /\ a * q <= x /\ x < a * q + a
  OBVIOUS
<1> HIDE DEF q
<1>2. p \in Nat /\ c * p <= q /\ q < c * p + c
  BY <1>1
<1> HIDE DEF p
<1>3. r \in Nat /\ r < a /\ x = a * q + r
  BY <1>1
<1>4. t \in Nat /\ t <= c - 1 /\ q = c * p + t
  BY <1>1, <1>2
<1> HIDE DEF r, t
<1>5. a * t \in Nat /\ a * t <= a * (c - 1)
  <2>1. \A y, z \in Nat : y <= z => a * y <= a * z
    OBVIOUS
  <2> QED BY <1>4, <2>1
<1>6. a * (c - 1) + a = u /\ u \in Nat \ {0}
  OBVIOUS
<1>7. a * q = u * p + a * t
  BY <1>2, <1>4
<1>8. u * p \in Nat
  BY <1>2
<1> DEFINE v == a * t + r
<1>9. x = u * p + v /\ v \in 0..(u - 1)
  <2> DEFINE y == a * t
             z == a * (c - 1)
             g == u * p
             h == a * q
  <2>1. y \in Nat /\ y <= z /\ z + a = u /\ z \in Int /\ h = g + y /\ x = h + r /\ g \in Nat /\ u \in Nat
    BY <1>3, <1>5, <1>6, <1>7, <1>8
  <2> HIDE DEF y, z, g, h, u
  <2>2. x = g + (y + r) /\ y + r \in 0..(u - 1)
    BY <1>3, <2>1
  <2> QED BY <2>2 DEF g, y
<1> HIDE DEF u, v
<1>10. x \div u = p
  BY <1>2, <1>6, <1>9
<1> QED BY <1>10 DEF u, p, q

(***************************************************************************)
(* What the assumptions say of bytes.                                      *)
(***************************************************************************)
LEMMA ByteFacts ==
    ASSUME SizesAssumption
    PROVE  /\ Byte \in Nat \ {0, 1} /\ LargeLimit \in Nat \ {0} /\ NoLimit \in Nat \ {0}
           /\ Byte <= LargeLimit /\ LargeLimit <= NoLimit
           /\ reserved \in Nat /\ 2 < reserved /\ reserved <= Byte
<1>1. Len(Runs) \in Nat \ {0}
  BY RunsAssumption
<1>2. reserved \in Nat /\ 2 < reserved /\ reserved <= Byte /\ Byte \in Nat
  BY <1>1 DEF SizesAssumption, reserved, EXCEPTIONS
<1>3. Byte \in Nat /\ Byte > 2
  BY <1>2
<1>4. \A x \in Nat : x > 2 => x * x \in Nat /\ x * x > 2 /\ x <= x * x
  OBVIOUS
<1>5. LargeLimit \in Nat /\ LargeLimit > 2 /\ Byte <= LargeLimit
  BY <1>3, <1>4 DEF LargeLimit
<1>6. NoLimit \in Nat /\ NoLimit > 2 /\ LargeLimit <= NoLimit
  BY <1>4, <1>5 DEF NoLimit
<1> QED BY <1>2, <1>3, <1>5, <1>6

(***************************************************************************)
(* A number is made of its bytes, if it has no more than are written.      *)
(***************************************************************************)
LEMMA BytesMakeNumber ==
    ASSUME NEW B \in Nat, B > 1, NEW x \in Nat
    PROVE  /\ x = (x % B) + (x \div B) * B
           /\ x < B => x % B = x /\ x \div B = 0
<1>1. x \div B \in Nat /\ x % B = x - B * (x \div B)
  OBVIOUS
<1>2. x = (x % B) + (x \div B) * B
  <2> DEFINE q == x \div B
             r == x % B
  <2>1. q \in Nat /\ r = x - B * q
    BY <1>1
  <2> HIDE DEF q, r
  <2>2. B * q = q * B /\ B * q \in Nat
    BY <2>1
  <2>3. x = r + q * B
    BY <2>1, <2>2
  <2> QED BY <2>3 DEF q, r
<1>3. x < B => x % B = x /\ x \div B = 0
  <2>1. x = B * 0 + x
    OBVIOUS
  <2> QED BY <2>1
<1> QED BY <1>2, <1>3

LEMMA QuotientBelow ==
    ASSUME NEW x \in Nat, NEW a \in Nat \ {0}, NEW c \in Nat, x < a * c
    PROVE  x \div a \in Nat /\ x \div a < c
<1> DEFINE q == x \div a
<1>1. q \in Nat /\ a * q <= x
  OBVIOUS
<1> HIDE DEF q
<1>2. \A y, z \in Nat : y <= z => a * y <= a * z
  OBVIOUS
<1>3. ASSUME c <= q PROVE FALSE
  <2> DEFINE y == a * c
             z == a * q
  <2>1. y <= z /\ z <= x /\ x < y /\ y \in Nat /\ z \in Nat
    BY <1>1, <1>2, <1>3
  <2> HIDE DEF y, z
  <2> QED BY <2>1
<1>4. q < c
  BY <1>1, <1>3
<1> QED BY <1>1, <1>4 DEF q

\* What a number of bytes has room for.
Room(count) == IF count = 1 THEN Byte ELSE IF count = 2 THEN LargeLimit ELSE NoLimit

(***************************************************************************)
(* The bytes of a number are bytes.                                        *)
(***************************************************************************)
LEMMA BytesType ==
    ASSUME SizesAssumption, NEW count \in {1, 2, 4}, NEW x \in Nat
    PROVE  /\ BytesOf(x, count) \in Seq(0..(Byte - 1))
           /\ Len(BytesOf(x, count)) = count
           /\ \A k \in 1..count : BytesOf(x, count)[k] = (x \div Weights[k]) % Byte
<1>1. Byte \in Nat \ {0} /\ LargeLimit \in Nat \ {0}
  BY ByteFacts
<1>2. ASSUME NEW k \in 1..count PROVE (x \div Weights[k]) % Byte \in 0..(Byte - 1)
  <2>1. Weights[1] = 1 /\ Weights[2] = Byte /\ Weights[3] = LargeLimit /\ Weights[4] = Byte * LargeLimit
    BY DEF Weights
  <2>2. \A y, z \in Nat \ {0} : y * z \in Nat \ {0}
    OBVIOUS
  <2>3. k \in {1, 2, 3, 4}
    OBVIOUS
  <2>4. Weights[k] \in Nat \ {0}
    BY <1>1, <2>1, <2>2, <2>3
  <2> DEFINE w == Weights[k]
             q == x \div w
  <2> HIDE DEF w
  <2>5. q \in Nat
    BY <2>4 DEF w
  <2> HIDE DEF q
  <2>6. q % Byte \in 0..(Byte - 1)
    BY <1>1, <2>5
  <2> QED BY <2>6 DEF q, w
<1>3. count \in Nat
  OBVIOUS
<1> DEFINE c(k) == (x \div Weights[k]) % Byte
<1>4. BytesOf(x, count) = [k \in 1..count |-> c(k)]
  BY DEF BytesOf
<1>5. \A k \in 1..count : c(k) \in 0..(Byte - 1)
  BY <1>2
<1> HIDE DEF c
<1>6. /\ [k \in 1..count |-> c(k)] \in Seq(0..(Byte - 1))
      /\ Len([k \in 1..count |-> c(k)]) = count
      /\ \A k \in 1..count : [j \in 1..count |-> c(j)][k] = c(k)
  BY <1>3, <1>5
<1> QED BY <1>4, <1>6 DEF c

(***************************************************************************)
(* Reading the bytes of a number gives the number.                         *)
(***************************************************************************)
LEMMA NumberRead ==
    ASSUME SizesAssumption, NEW count \in {1, 2, 4}, NEW x \in Nat, x < Room(count), NEW from \in Nat,
           \A k \in 1..count : out[from + k] = BytesOf(x, count)[k]
    PROVE  Number(from, count) = x
<1> DEFINE B == Byte
           q1 == x \div B
           q2 == q1 \div B
           q3 == q2 \div B
           o1 == out[from + 1]
           o2 == out[from + 2]
           o3 == out[from + 3]
           o4 == out[from + 4]
<1>1. B \in Nat /\ B > 1 /\ B \in Nat \ {0}
  BY ByteFacts
<1>2. Weights[1] = 1 /\ Weights[2] = B /\ Weights[3] = B * B /\ Weights[4] = B * (B * B)
  BY DEF Weights, LargeLimit
<1>3. \A k \in 1..count : out[from + k] = (x \div Weights[k]) % B
  BY BytesType
<1>4. B * B \in Nat \ {0}
  <2>1. \A y \in Nat : y > 1 => y * y \in Nat \ {0}
    OBVIOUS
  <2> QED BY <1>1, <2>1
<1>5. q1 \in Nat /\ x \div 1 = x
  BY <1>1
<1>6. q2 \in Nat
  <2> HIDE DEF q1
  <2> QED BY <1>1, <1>5
<1>7. q3 \in Nat
  <2> HIDE DEF q2
  <2> QED BY <1>1, <1>6
<1>8. x \div (B * B) = q2
  <2> HIDE DEF B
  <2> QED BY <1>1, DivTwice
<1>9. x \div (B * (B * B)) = q3
  <2> DEFINE a == B * B
  <2>1. x \div a = q2
    BY <1>8
  <2>2. a \in Nat \ {0}
    BY <1>4
  <2> HIDE DEF a, B
  <2>3. x \div (B * a) = (x \div a) \div B
    BY <1>1, <2>2, DivTwice
  <2> QED BY <2>1, <2>3 DEF a
<1>10. o1 = x % B
  BY <1>2, <1>3, <1>5
<1>11. count > 1 => o2 = q1 % B
  BY <1>2, <1>3
<1>12. count > 2 => o3 = q2 % B /\ o4 = q3 % B
  BY <1>2, <1>3, <1>8, <1>9
<1>13. x = (x % B) + q1 * B /\ (x < B => x % B = x)
  BY <1>1, BytesMakeNumber
<1>14. q1 = (q1 % B) + q2 * B /\ (q1 < B => q1 % B = q1)
  <2> HIDE DEF q1
  <2> QED BY <1>1, <1>5, BytesMakeNumber
<1>15. q2 = (q2 % B) + q3 * B
  <2> HIDE DEF q2
  <2> QED BY <1>1, <1>6, BytesMakeNumber
<1>16. q3 < B => q3 % B = q3
  <2> HIDE DEF q3
  <2> QED BY <1>1, <1>7, BytesMakeNumber
<1>17. x % B \in Nat
  BY <1>1
<1>18. q1 % B \in Nat
  <2> HIDE DEF q1
  <2> QED BY <1>1, <1>5
<1>19. q2 % B \in Nat
  <2> HIDE DEF q2
  <2> QED BY <1>1, <1>6
<1>20. Number(from, count) = o1 * Weights[1] + (IF 2 <= count THEN o2 * Weights[2] ELSE 0)
                             + (IF 3 <= count THEN o3 * Weights[3] ELSE 0)
                             + (IF 4 <= count THEN o4 * Weights[4] ELSE 0)
  BY DEF Number
<1>21. CASE count = 1
  <2>1. x < B
    BY <1>21 DEF Room
  <2>2. o1 = x
    BY <1>10, <1>13, <2>1
  <2> HIDE DEF o1, o2, o3, o4
  <2> QED BY <1>2, <1>20, <1>21, <2>2
<1>22. CASE count = 2
  <2>1. x < B * B
    BY <1>22 DEF Room, LargeLimit
  <2>2. q1 < B
    BY <1>1, <2>1, QuotientBelow
  <2>3. o2 = q1
    BY <1>11, <1>14, <1>22, <2>2
  <2> DEFINE y == q1 * B
  <2>4. y \in Nat
    BY <1>1, <1>5
  <2>5. Number(from, count) = o1 * 1 + o2 * B + 0 + 0
    <3> HIDE DEF o1, o2, o3, o4, B
    <3> QED BY <1>2, <1>20, <1>22
  <2>6. x = o1 + y /\ o1 \in Nat
    BY <1>10, <1>13, <1>17
  <2>7. o2 * B = y
    BY <2>3
  <2> HIDE DEF y, o1, o2, q1
  <2> QED BY <2>4, <2>5, <2>6, <2>7
<1>23. CASE count = 4
  <2>1. x < (B * B) * (B * B)
    BY <1>23 DEF Room, NoLimit, LargeLimit
  <2>2. q2 < B * B
    <3>1. x \div (B * B) < B * B
      <4> DEFINE a == B * B
      <4>1. a \in Nat \ {0} /\ x < a * a
        BY <1>4, <2>1
      <4> HIDE DEF a
      <4>2. x \div a < a
        BY <4>1, QuotientBelow
      <4> QED BY <4>2 DEF a
    <3> QED BY <1>8, <3>1
  <2>3. q3 < B
    <3> HIDE DEF q2
    <3> QED BY <1>1, <1>6, <2>2, QuotientBelow
  <2>4. o1 = x % B /\ o2 = q1 % B /\ o3 = q2 % B /\ o4 = q3
    BY <1>10, <1>11, <1>12, <1>16, <1>23, <2>3
  <2>5. x = o1 + q1 * B /\ q1 = o2 + q2 * B /\ q2 = o3 + o4 * B
    BY <1>13, <1>14, <1>15, <2>4
  <2>6. o1 \in Nat /\ o2 \in Nat /\ o3 \in Nat /\ o4 \in Nat
    BY <1>7, <1>17, <1>18, <1>19, <2>4
  <2>7. Number(from, count) = o1 * 1 + o2 * B + o3 * (B * B) + o4 * (B * (B * B))
    <3> HIDE DEF o1, o2, o3, o4, B
    <3> QED BY <1>2, <1>20, <1>23
  <2> HIDE DEF o1, o2, o3, o4, q1, q2, q3, B
  <2>8. q2 * B = o3 * B + o4 * (B * B)
    BY <1>1, <2>5, <2>6
  <2>9. q1 * B = o2 * B + (q2 * B) * B
    BY <1>1, <1>6, <2>5, <2>6
  <2>10. (q2 * B) * B = o3 * (B * B) + o4 * (B * (B * B))
    BY <1>1, <2>6, <2>8
  <2> DEFINE z1 == o2 * B
             z2 == (q2 * B) * B
             z3 == o3 * (B * B)
             z4 == o4 * (B * (B * B))
             z5 == q1 * B
  <2>11. z1 \in Nat /\ z3 \in Nat /\ z4 \in Nat
    BY <1>1, <2>6
  <2>12. /\ Number(from, count) = o1 * 1 + z1 + z3 + z4 /\ x = o1 + z5
         /\ z5 = z1 + z2 /\ z2 = z3 + z4
    BY <2>5, <2>7, <2>9, <2>10
  <2> HIDE DEF z1, z2, z3, z4, z5
  <2> QED BY <2>6, <2>11, <2>12
<1> QED BY <1>21, <1>22, <1>23

-----------------------------------------------------------------------------
(* What the encoder takes stands for the integers at the position.         *)

\* The integers a codeword stands for.
Spans(d, x) == IF x > 1 THEN EntrySize(d, x) ELSE 1

\* A codeword has room in the width and stands for the integers between two
\* positions; an exception has room in the bytes of its escape.
Leads(d, width, x, i, j) ==
    /\ x \in Nat /\ x < Room(width)
    /\ Spans(d, x) \in Nat \ {0} /\ i + Spans(d, x) = j /\ j <= n
    /\ x > 1 => /\ x \in EXCEPTIONS..(DictSize(d) - 1)
                /\ \A p \in 1..Spans(d, x) : Entry(d, x)[p] = in[i + p]
    /\ x = 0 => in[i + 1] < LargeLimit

\* A dictionary whose codewords have room in two bytes.
Usable(d) == IsDictionary(d) /\ DictSize(d) <= LargeLimit

(***************************************************************************)
(* What lookup() finds stands for the sequence that was looked up, and has *)
(* room in the width.                                                      *)
(***************************************************************************)
LEMMA LookupFacts ==
    ASSUME SizesAssumption, NEW d, Usable(d), NEW integers, NEW width \in {1, 2},
           LookupIn(d, integers, width) # invalid_index
    PROVE  /\ LookupIn(d, integers, width) \in EXCEPTIONS..(DictSize(d) - 1)
           /\ Entry(d, LookupIn(d, integers, width)) = integers
           /\ LookupIn(d, integers, width) < Room(width)
<1> DEFINE top == DictSize(d) - 1
           x == LookupIn(d, integers, width)
           hits == {i \in EXCEPTIONS..top :
                        (IsRun(i) \/ i < MapSize(d, width)) /\ Entry(d, i) = integers}
<1>1. top \in Nat /\ top < LargeLimit /\ top + 1 - reserved \in Nat /\ DictSize(d) = top + 1
  <2> DEFINE k == Len(d.targets)
  <2>1. Len(Runs) \in Nat /\ k \in Nat
    BY RunsAssumption DEF IsDictionary, Usable
  <2>2. DictSize(d) = 2 + Len(Runs) + k /\ reserved = 2 + Len(Runs)
    BY <2>1 DEF DictSize, reserved, EXCEPTIONS
  <2>3. DictSize(d) <= LargeLimit /\ LargeLimit \in Nat
    BY ByteFacts DEF Usable
  <2> HIDE DEF k
  <2> QED BY <2>1, <2>2, <2>3
<1>2. hits # {} /\ x = CHOOSE i \in hits : \A j \in hits : j <= i
  BY DEF LookupIn
<1> HIDE DEF top, x
<1>3. hits \subseteq Nat /\ \A i \in hits : i <= top
  BY <1>1 DEF EXCEPTIONS
<1>4. \A i \in hits : i \in EXCEPTIONS..top /\ Entry(d, i) = integers /\ (IsRun(i) \/ i < MapSize(d, width))
  OBVIOUS
<1> HIDE DEF hits
<1>5. \E i \in hits : \A j \in hits : j <= i
  BY <1>1, <1>2, <1>3, GreatestNat
<1>6. x \in hits
  BY <1>2, <1>5
<1>7. x \in Nat /\ x <= top
  BY <1>3, <1>6
<1>8. reserved \in Nat /\ reserved <= Byte /\ Byte \in Nat /\ Byte <= LargeLimit /\ LargeLimit \in Nat
  BY ByteFacts
<1>9. IsRun(x) => x < Byte
  BY <1>7, <1>8 DEF IsRun, EXCEPTIONS
<1>10. MapSize(d, 1) <= Byte
  BY <1>1, <1>8 DEF MapSize, Lesser
<1>11. MapSize(d, 1) \in Int
  BY <1>1, <1>8 DEF MapSize, Lesser
<1>12. x < Room(width)
  <2>1. CASE width = 1
    <3>1. x < Byte
      BY <1>4, <1>6, <1>7, <1>8, <1>9, <1>10, <1>11, <2>1
    <3> QED BY <2>1, <3>1 DEF Room
  <2>2. CASE width = 2
    <3>1. x < LargeLimit
      BY <1>1, <1>7, <1>8
    <3> QED BY <2>2, <3>1 DEF Room
  <2> QED BY <2>1, <2>2
<1> QED BY <1>4, <1>6, <1>12 DEF x, top

(***************************************************************************)
(* The run found at a position is inside the block and consists of zeros.  *)
(***************************************************************************)
LEMMA RunFacts ==
    ASSUME SizesAssumption, in \in [1..n -> Nat], NEW i \in 0..n
    PROVE  /\ RunLen(i) \in Nat /\ i + RunLen(i) <= n
           /\ \A j \in 1..RunLen(i) : in[i + j] = 0
           /\ RunLen(i) = Lesser(Runs[1], n - i) \/ in[i + RunLen(i) + 1] # 0
<1> DEFINE limit == Lesser(Runs[1], n - i)
           Zero(z) == \A j \in 1..z : in[i + j] = 0
           S == {z \in 0..limit : Zero(z)}
           Found(z) == Zero(z) /\ (z = limit \/ in[i + z + 1] # 0)
<1>1. n \in Nat /\ i \in Nat /\ i <= n /\ Runs[1] \in Nat
  BY RunsAssumption DEF n, SizesAssumption
<1>2. limit \in Nat /\ i + limit <= n
  BY <1>1 DEF Lesser
<1>3. RunLen(i) = CHOOSE z \in 0..limit : Found(z)
  BY DEF RunLen
<1> HIDE DEF limit
<1>4. \E z \in 0..limit : Found(z)
  <2>1. S \subseteq Nat /\ S # {} /\ \A z \in S : z <= limit
    <3>1. 0 \in S
      BY <1>2
    <3>2. S \subseteq 0..limit
      OBVIOUS
    <3> HIDE DEF S
    <3> QED BY <1>2, <3>1, <3>2
  <2>2. PICK z \in S : \A y \in S : y <= z
    <3> HIDE DEF S
    <3> QED BY <1>2, <2>1, GreatestNat
  <2>3. z \in 0..limit /\ Zero(z)
    OBVIOUS
  <2>4. ASSUME z # limit, in[i + z + 1] = 0
        PROVE  FALSE
    <3>1. z + 1 \in 0..limit /\ i + z + 1 = i + (z + 1)
      BY <1>1, <1>2, <2>3, <2>4
    <3>2. \A j \in 1..(z + 1) : j \in 1..z \/ j = z + 1
      BY <1>2, <2>3
    <3>3. Zero(z + 1)
      BY <2>3, <2>4, <3>1, <3>2
    <3>4. z + 1 \in S
      BY <3>1, <3>3
    <3>5. z + 1 <= z
      BY <2>2, <3>4
    <3> QED BY <1>2, <2>3, <3>5
  <2> QED BY <2>3, <2>4
<1>5. RunLen(i) \in 0..limit /\ Found(RunLen(i))
  <2> HIDE DEF Found
  <2> QED BY <1>3, <1>4
<1> QED BY <1>1, <1>2, <1>5 DEF limit

(***************************************************************************)
(* A codeword of a run that is not longer than the zeros stands for them.  *)
(***************************************************************************)
LEMMA RunLeads ==
    ASSUME SizesAssumption, NEW d, Usable(d), in \in [1..n -> Nat], NEW i \in 0..n, NEW width \in {1, 2},
           NEW r \in 1..Len(Runs), Runs[r] <= RunLen(i)
    PROVE  Leads(d, width, EXCEPTIONS + r - 1, i, i + Runs[r])
<1> DEFINE x == EXCEPTIONS + r - 1
           k == Len(d.targets)
<1>0. IsDictionary(d)
  BY DEF Usable
<1>1. Len(Runs) \in Nat /\ k \in Nat /\ Runs[r] \in Nat \ {0} /\ i \in Nat /\ n \in Nat
  BY <1>0, RunsAssumption DEF IsDictionary, n, SizesAssumption
<1>2. DictSize(d) = 2 + Len(Runs) + k
  BY <1>1 DEF DictSize, reserved, EXCEPTIONS
<1> HIDE DEF k
<1>3. x \in EXCEPTIONS..(DictSize(d) - 1) /\ IsRun(x) /\ x \in Nat /\ x > 1
      /\ x - EXCEPTIONS + 1 = r /\ x < reserved
  BY <1>1, <1>2 DEF IsRun, reserved, EXCEPTIONS
<1> HIDE DEF x
<1>4. reserved \in Nat /\ reserved <= Byte /\ Byte \in Nat /\ Byte <= LargeLimit /\ LargeLimit \in Nat
  BY ByteFacts
<1>5. x < Byte /\ x < LargeLimit
  BY <1>3, <1>4
<1>6. x < Room(width)
  BY <1>5 DEF Room
<1>7. EntrySize(d, x) = Runs[r] /\ Spans(d, x) = Runs[r]
  BY <1>3 DEF EntrySize, Spans
<1>8. \A p \in 1..Runs[r] : Entry(d, x)[p] = 0
  BY <1>0, <1>3, <1>7, EntryFacts
<1>9. RunLen(i) \in Nat /\ i + RunLen(i) <= n /\ \A j \in 1..RunLen(i) : in[i + j] = 0
  BY RunFacts
<1>10. /\ i + Runs[r] <= n
       /\ \A p \in 1..Runs[r] : in[i + p] = 0
  BY <1>1, <1>9
<1>11. \A p \in 1..Runs[r] : Entry(d, x)[p] = in[i + p]
  BY <1>8, <1>10
<1>12. x # 0
  BY <1>3
<1>13. Leads(d, width, x, i, i + Runs[r])
  BY <1>1, <1>3, <1>6, <1>7, <1>10, <1>11, <1>12 DEF Leads
<1> QED BY <1>13 DEF x

(***************************************************************************)
(* A codeword that was looked up for the integers at a position stands for *)
(* them.                                                                   *)
(***************************************************************************)
LEMMA TargetLeads ==
    ASSUME SizesAssumption, NEW d, Usable(d), in \in [1..n -> Nat], NEW i \in 0..n, NEW width \in {1, 2},
           NEW k \in Nat \ {0}, i + k <= n,
           LookupIn(d, SubSeq(in, i + 1, i + k), width) # invalid_index
    PROVE  Leads(d, width, LookupIn(d, SubSeq(in, i + 1, i + k), width), i, i + k)
<1> DEFINE a == i + 1
           z == i + k
           sub == SubSeq(in, a, z)
           x == LookupIn(d, sub, width)
<1>1. n \in Nat /\ i \in Nat
  BY DEF n, SizesAssumption
<1>2. a \in Int /\ z \in Int /\ \A j \in a..z : j \in 1..n /\ in[j] \in Nat
  BY <1>1
<1>3. z - a + 1 = k /\ \A p \in 1..k : a + p - 1 = i + p
  BY <1>1
<1>4. x \in EXCEPTIONS..(DictSize(d) - 1) /\ Entry(d, x) = sub /\ x < Room(width)
  BY LookupFacts
<1>5. Len(sub) = k /\ \A p \in 1..k : sub[p] = in[i + p]
  <2> HIDE DEF a, z
  <2>1. a <= z + 1
    BY <1>2, <1>3
  <2>2. /\ Len(sub) = z - a + 1
        /\ \A p \in 1..(z - a + 1) : sub[p] = in[a + p - 1]
    BY <1>2, <2>1, SubSeqProperties
  <2> HIDE DEF sub
  <2> QED BY <1>3, <2>2
<1> HIDE DEF x, sub
<1>6. EntrySize(d, x) = k
  BY <1>4, <1>5, EntryFacts DEF Usable
<1>7. x \in Nat /\ x > 1 /\ x # 0
  <2> DEFINE top == DictSize(d) - 1
  <2>1. x \in 2..top
    BY <1>4 DEF EXCEPTIONS
  <2> HIDE DEF top
  <2> QED BY <2>1
<1>8. Spans(d, x) = k
  BY <1>6, <1>7 DEF Spans
<1>9. Leads(d, width, x, i, i + k)
  BY <1>4, <1>5, <1>7, <1>8 DEF Leads
<1> QED BY <1>9 DEF x, sub, a, z

(***************************************************************************)
(* An exception stands for the integer that is next.                       *)
(***************************************************************************)
LEMMA ExceptionLeads ==
    ASSUME SizesAssumption, NEW d, NEW i \in 0..n, i < n, NEW width \in {1, 2},
           NEW x \in {0, 1}, x = 0 => in[i + 1] < LargeLimit
    PROVE  Leads(d, width, x, i, i + 1)
<1>1. n \in Nat /\ i \in Nat
  BY DEF n, SizesAssumption
<1>2. Byte \in Nat /\ Byte > 1 /\ LargeLimit \in Nat /\ LargeLimit > 1
  BY ByteFacts
<1>3. x < Room(width)
  BY <1>2 DEF Room
<1>4. Spans(d, x) = 1 /\ ~(x > 1) /\ x \in Nat
  BY DEF Spans
<1>5. i + 1 <= n
  BY <1>1
<1> QED BY <1>3, <1>4, <1>5 DEF Leads

\* The cost an offer has: words of two bytes.
Cost(x) == IF x > 1 THEN 1 ELSE 2 + x

(***************************************************************************)
(* Every offer of an iteration leads to the end of what it covers, at the  *)
(* cost of its codeword.                                                   *)
(***************************************************************************)
LEMMA OfferLeads ==
    ASSUME SizesAssumption, TargetSizesAssumption, NEW d, Usable(d), in \in [1..n -> Nat],
           NEW i \in 0..n, i < n, NEW width \in {1, 2}, NEW o \in Offers(d, width, i)
    PROVE  /\ o.len \in Nat \ {0} /\ Leads(d, width, o.codeword, i, i + o.len)
           /\ o.cost = Cost(o.codeword) /\ o.cost \in 1..3
<1>1. n \in Nat /\ i \in Nat /\ Len(Runs) \in Nat
  BY RunsAssumption DEF n, SizesAssumption
<1> DEFINE code(t) == LookupIn(d, SubSeq(in, i + 1, i + Lesser(TargetSizes[t], n - i)), width)
           RunOffers == {[len |-> Runs[r], codeword |-> EXCEPTIONS + r - 1, cost |-> 1] :
                            r \in {q \in DOMAIN Runs : Runs[q] <= RunLen(i)}}
           TargetOffers == {[len |-> Lesser(TargetSizes[t], n - i), codeword |-> code(t), cost |-> 1] :
                               t \in {q \in DOMAIN TargetSizes : code(q) # invalid_index}}
           Small == [len |-> 1, codeword |-> 0, cost |-> 2]
           Large == [len |-> 1, codeword |-> 1, cost |-> 3]
<1>2. \/ o \in RunOffers
      \/ o \in TargetOffers
      \/ o = Small /\ in[i + 1] < LargeLimit
      \/ o = Large
  BY DEF Offers
<1>3. CASE o \in RunOffers
  <2>1. PICK r \in DOMAIN Runs : /\ Runs[r] <= RunLen(i)
                                 /\ o.len = Runs[r] /\ o.codeword = EXCEPTIONS + r - 1 /\ o.cost = 1
    BY <1>3
  <2>2. r \in 1..Len(Runs) /\ Runs[r] \in Nat \ {0}
    BY RunsAssumption
  <2>3. o.codeword > 1
    BY <1>1, <2>1, <2>2 DEF EXCEPTIONS
  <2>4. Leads(d, width, EXCEPTIONS + r - 1, i, i + Runs[r])
    BY <2>1, <2>2, RunLeads
  <2> QED BY <2>1, <2>2, <2>3, <2>4 DEF Cost
<1>4. CASE o \in TargetOffers
  <2>1. PICK t \in DOMAIN TargetSizes :
            /\ code(t) # invalid_index
            /\ o.len = Lesser(TargetSizes[t], n - i) /\ o.codeword = code(t) /\ o.cost = 1
    BY <1>4
  <2> DEFINE k == Lesser(TargetSizes[t], n - i)
  <2>2. TargetSizes[t] \in Nat \ {0}
    BY MaxEntrySizeAssumption DEF TargetSizesAssumption
  <2>3. k \in Nat \ {0} /\ i + k <= n
    BY <1>1, <2>2 DEF Lesser
  <2>4. LookupIn(d, SubSeq(in, i + 1, i + k), width) # invalid_index /\ o.len = k
        /\ o.codeword = LookupIn(d, SubSeq(in, i + 1, i + k), width)
    BY <2>1
  <2> HIDE DEF k, code
  <2>5. Leads(d, width, o.codeword, i, i + k)
    BY <2>3, <2>4, TargetLeads
  <2>6. o.codeword \in EXCEPTIONS..(DictSize(d) - 1)
    BY <2>4, LookupFacts
  <2>7. o.codeword > 1
    <3> DEFINE top == DictSize(d) - 1
    <3>1. o.codeword \in EXCEPTIONS..top
      BY <2>6
    <3> HIDE DEF top
    <3> QED BY <3>1 DEF EXCEPTIONS
  <2> QED BY <2>1, <2>3, <2>4, <2>5, <2>7 DEF Cost
<1>5. CASE o = Small /\ in[i + 1] < LargeLimit
  <2>1. o.len = 1 /\ o.codeword = 0 /\ o.cost = 2
    BY <1>5
  <2>2. Leads(d, width, 0, i, i + 1)
    BY <1>5, ExceptionLeads
  <2> QED BY <2>1, <2>2 DEF Cost
<1>6. CASE o = Large
  <2>1. o.len = 1 /\ o.codeword = 1 /\ o.cost = 3
    BY <1>6
  <2>2. Leads(d, width, 1, i, i + 1)
    BY <1>6, ExceptionLeads
  <2> QED BY <2>1, <2>2 DEF Cost
<1> QED BY <1>2, <1>3, <1>4, <1>5, <1>6

-----------------------------------------------------------------------------
(* The way the encoder keeps to each position.                             *)

Dict == dicts[s + 1]

PathOK(d, width) ==
    \A j \in 1..n : path[j].parent \in 0..(j - 1)
                    /\ Leads(d, width, path[j].codeword, path[j].parent, j)

\* The costs of the nodes are numbers.
Priced == \A j \in 0..n : path[j].cost \in Nat

(***************************************************************************)
(* Before the first iteration every node is a large exception.             *)
(***************************************************************************)
LEMMA InitialPathOK ==
    ASSUME SizesAssumption, NEW d, NEW width \in {1, 2}, NEW j \in 1..n
    PROVE  /\ InitialPath[j].parent \in 0..(j - 1)
           /\ Leads(d, width, InitialPath[j].codeword, InitialPath[j].parent, j)
           /\ InitialPath[j].cost \in Nat
<1>1. n \in Nat
  BY DEF n, SizesAssumption
<1> DEFINE i == j - 1
           node == InitialPath[j]
<1>2. i \in 0..n /\ i < n /\ i + 1 = j /\ i \in 0..(j - 1) /\ j # 0
  BY <1>1
<1>3. node.parent = i /\ node.codeword = 1 /\ node.cost \in Nat
  BY <1>1, <1>2 DEF InitialPath
<1> HIDE DEF i, node
<1>4. Leads(d, width, 1, i, i + 1)
  BY <1>2, ExceptionLeads
<1>5. Leads(d, width, node.codeword, node.parent, j)
  BY <1>2, <1>3, <1>4
<1> QED BY <1>2, <1>3, <1>5 DEF node

(***************************************************************************)
(* What an iteration does to the node of a position: nothing, if no offer  *)
(* that ends there is cheaper, or it puts in one of those.                 *)
(***************************************************************************)
LEMMA RelaxEffect ==
    ASSUME SizesAssumption, TargetSizesAssumption, Usable(Dict), in \in [1..n -> Nat],
           pos \in 0..n, b \in {1, 2}, Priced, RelaxStep, NEW j \in 0..n
    PROVE  /\ \/ path'[j] = path[j] /\ Better(Offers(Dict, b, pos), pos, j) = {}
              \/ \E o \in Better(Offers(Dict, b, pos), pos, j) :
                    path'[j] = [parent |-> pos, codeword |-> o.codeword, cost |-> path[pos].cost + o.cost]
           /\ path'[j].cost \in Nat
<1>1. n \in Nat /\ pos \in Nat /\ pos < n /\ pos \in 0..n
  BY DEF n, SizesAssumption, RelaxStep
<1> DEFINE offers == Offers(Dict, b, pos)
           better == Better(offers, pos, j)
           Best(o) == \A q \in better : o.codeword <= q.codeword
           best == CHOOSE o \in better : Best(o)
<1>2. path'[j] = IF better = {} THEN path[j]
                 ELSE [parent |-> pos, codeword |-> best.codeword, cost |-> path[pos].cost + best.cost]
  BY DEF RelaxStep, Dict
<1>3. path[j].cost \in Nat /\ path[pos].cost \in Nat
  BY <1>1 DEF Priced
<1>4. \A o \in offers : o.cost \in 1..3 /\ o.codeword \in Nat
  <2> TAKE o \in offers
  <2> HIDE DEF offers
  <2>1. o.cost \in 1..3 /\ Leads(Dict, b, o.codeword, pos, pos + o.len)
    BY <1>1, OfferLeads DEF offers
  <2> QED BY <2>1 DEF Leads
<1>5. \A o \in better : o \in offers
  BY DEF Better
<1> HIDE DEF offers, better
<1>6. CASE better = {}
  BY <1>2, <1>3, <1>6 DEF better, offers
<1>7. CASE better # {}
  <2> DEFINE T == {o.codeword : o \in better}
  <2>1. T \subseteq Nat /\ T # {}
    BY <1>4, <1>5, <1>7
  <2>2. PICK d \in T : \A q \in T : d <= q
    <3> HIDE DEF T
    <3> QED BY <2>1, LeastNat
  <2>3. PICK o \in better : o.codeword = d
    OBVIOUS
  <2>4. Best(o)
    BY <2>2, <2>3
  <2>5. best \in better
    <3> HIDE DEF Best
    <3> QED BY <2>4
  <2> HIDE DEF best
  <2>6. path'[j] = [parent |-> pos, codeword |-> best.codeword, cost |-> path[pos].cost + best.cost]
    BY <1>2, <1>7
  <2>7. best.cost \in Nat
    BY <1>4, <1>5, <2>5
  <2>8. path'[j].cost \in Nat
    BY <1>3, <2>6, <2>7
  <2> QED BY <2>5, <2>6, <2>8 DEF better, offers
<1> QED BY <1>6, <1>7

(***************************************************************************)
(* An iteration replaces nodes by offers of its position.                  *)
(***************************************************************************)
LEMMA RelaxKeepsPath ==
    ASSUME SizesAssumption, TargetSizesAssumption, Usable(Dict), in \in [1..n -> Nat],
           pos \in 0..n, b \in {1, 2}, PathOK(Dict, b), Priced, RelaxStep
    PROVE  PathOK(Dict, b)' /\ Priced'
<1>1. n \in Nat /\ pos \in Nat /\ pos < n
  BY DEF n, SizesAssumption, RelaxStep
<1>2. in' = in /\ Dict' = Dict /\ b' = b
  BY DEF RelaxStep, Dict
<1>3. ASSUME NEW j \in 1..n
      PROVE  path'[j].parent \in 0..(j - 1) /\ Leads(Dict, b, path'[j].codeword, path'[j].parent, j)
  <2>1. j \in 0..n
    BY <1>1
  <2>2. CASE path'[j] = path[j]
    BY <2>2 DEF PathOK
  <2>3. ASSUME NEW o \in Better(Offers(Dict, b, pos), pos, j),
               path'[j] = [parent |-> pos, codeword |-> o.codeword, cost |-> path[pos].cost + o.cost]
        PROVE  path'[j].parent \in 0..(j - 1) /\ Leads(Dict, b, path'[j].codeword, path'[j].parent, j)
    <3>1. o \in Offers(Dict, b, pos) /\ pos + o.len = j
      BY DEF Better
    <3>2. o.len \in Nat \ {0} /\ Leads(Dict, b, o.codeword, pos, pos + o.len)
      BY <1>1, <3>1, OfferLeads
    <3>3. pos \in 0..(j - 1)
      BY <1>1, <3>1, <3>2
    <3>4. path'[j].parent = pos /\ path'[j].codeword = o.codeword
      BY <2>3
    <3> QED BY <3>1, <3>2, <3>3, <3>4
  <2> QED BY <2>1, <2>2, <2>3, RelaxEffect
<1>4. \A j \in 0..n : path'[j].cost \in Nat
  BY RelaxEffect
<1>5. Priced'
  BY <1>4 DEF Priced, n
<1>6. PathOK(Dict, b)'
  BY <1>2, <1>3 DEF PathOK, Leads, n, Spans, Room, LargeLimit
<1> QED BY <1>5, <1>6

-----------------------------------------------------------------------------
(* Sequences of bytes.                                                     *)

Bytes == 0..(Byte - 1)

\* Between two places of the bytes c a codeword is written that stands for the
\* integers between two positions.
Wrote(d, width, c, i, j, from, to) ==
    \E x \in Nat, w \in Seq(Bytes) :
        /\ Leads(d, width, x, i, j) /\ w = Written(x, in[i + 1], width)
        /\ to = from + Len(w) /\ \A k \in 1..Len(w) : c[from + k] = w[k]

\* The bytes c are m codewords that stand for the integers up to a position:
\* the k-th begins behind P[k] integers and Q[k] bytes.
IsCut(d, width, c, m, P, Q, to) ==
    /\ P \in [1..(m + 1) -> 0..n] /\ Q \in [1..(m + 1) -> 0..Len(c)]
    /\ P[1] = 0 /\ Q[1] = 0
    /\ P[m + 1] = to /\ Q[m + 1] = Len(c)
    /\ \A k \in 1..m : Wrote(d, width, c, P[k], P[k + 1], Q[k], Q[k + 1])

Covers(d, width, c, to) ==
    c \in Seq(Bytes) /\ \E m \in Nat : \E P, Q : IsCut(d, width, c, m, P, Q, to)

(***************************************************************************)
(* What is written for a codeword are bytes: those of the index, and       *)
(* behind an escape those of the exception.                                *)
(***************************************************************************)
LEMMA WrittenFacts ==
    ASSUME SizesAssumption, NEW x \in Nat, NEW value \in Nat, NEW width \in {1, 2}
    PROVE  /\ Written(x, value, width) \in Seq(Bytes)
           /\ x > 1 => /\ Len(Written(x, value, width)) = width
                       /\ \A k \in 1..width : Written(x, value, width)[k] = BytesOf(x, width)[k]
           /\ \A count \in {2, 4} : x <= 1 /\ count = (IF x = 0 THEN 2 ELSE 4) =>
                /\ Len(Written(x, value, width)) = width + count
                /\ \A k \in 1..width : Written(x, value, width)[k] = BytesOf(x, width)[k]
                /\ \A k \in 1..count : Written(x, value, width)[width + k] = BytesOf(value, count)[k]
<1> DEFINE u == BytesOf(x, width)
           w == Written(x, value, width)
<1>0. width \in {1, 2, 4} /\ width \in Nat
  OBVIOUS
<1>1. u \in Seq(Bytes) /\ Len(u) = width
  BY <1>0, BytesType DEF Bytes
<1>2. CASE x > 1
  <2>0. x >= EXCEPTIONS
    BY <1>2 DEF EXCEPTIONS
  <2>1. w = u \o <<>>
    BY <2>0 DEF Written
  <2> HIDE DEF u, w
  <2>2. w = u
    BY <1>1, <2>1
  <2>3. ~(x <= 1)
    BY <1>2
  <2> QED BY <1>1, <2>2, <2>3 DEF w, u
<1>3. CASE ~(x > 1)
  <2> DEFINE count == IF x = 0 THEN 2 ELSE 4
             v == BytesOf(value, count)
  <2>1. count \in {2, 4} /\ count \in Nat /\ count \in {1, 2, 4}
    OBVIOUS
  <2>2. w = u \o v
    BY <1>3 DEF Written, EXCEPTIONS
  <2>3. v \in Seq(Bytes) /\ Len(v) = count
    <3> HIDE DEF count
    <3> QED BY <2>1, BytesType DEF Bytes
  <2> HIDE DEF u, v, w, count
  <2>4. /\ w \in Seq(Bytes) /\ Len(w) = width + count
        /\ \A k \in 1..(width + count) : w[k] = IF k <= width THEN u[k] ELSE v[k - width]
    BY <1>0, <1>1, <2>1, <2>2, <2>3, ConcatProperties
  <2>5. \A k \in 1..width : w[k] = u[k]
    BY <1>0, <1>1, <2>1, <2>4
  <2>6. ASSUME NEW k \in 1..count PROVE w[width + k] = v[k]
    <3>1. width + k \in 1..(width + count) /\ ~(width + k <= width) /\ (width + k) - width = k
      BY <1>0, <1>1, <2>1
    <3> QED BY <2>4, <3>1
  <2>7. ASSUME NEW m \in {2, 4}, m = (IF x = 0 THEN 2 ELSE 4)
        PROVE  /\ Len(w) = width + m
               /\ \A k \in 1..width : w[k] = BytesOf(x, width)[k]
               /\ \A k \in 1..m : w[width + k] = BytesOf(value, m)[k]
    <3>1. m = count
      BY <2>7 DEF count
    <3> QED BY <2>4, <2>5, <2>6, <3>1 DEF u, v
  <2> QED BY <1>3, <2>4, <2>7 DEF w
<1> QED BY <1>2, <1>3

(***************************************************************************)
(* No bytes stand for nothing.                                             *)
(***************************************************************************)
LEMMA EmptyCovers ==
    ASSUME SizesAssumption, NEW d, NEW width
    PROVE  Covers(d, width, <<>>, 0)
<1> DEFINE P == [k \in 1..1 |-> 0]
           c == <<>>
<1>1. n \in Nat
  BY DEF n, SizesAssumption
<1>2. c \in Seq(Bytes) /\ Len(c) = 0
  OBVIOUS
<1>3. P \in [1..1 -> 0..n] /\ P \in [1..1 -> 0..0] /\ P[1] = 0 /\ 0 + 1 = 1 /\ 1..0 = {}
  BY <1>1
<1> HIDE DEF P, c
<1>4. IsCut(d, width, c, 0, P, P, 0)
  BY <1>2, <1>3 DEF IsCut
<1> QED BY <1>2, <1>4 DEF Covers, c

(***************************************************************************)
(* One codeword more.                                                      *)
(***************************************************************************)
LEMMA AppendCovers ==
    ASSUME SizesAssumption, NEW d, NEW width \in {1, 2}, NEW c, NEW i \in 0..n, NEW j \in 0..n,
           in[i + 1] \in Nat, Covers(d, width, c, i), NEW x, Leads(d, width, x, i, j)
    PROVE  Covers(d, width, c \o Written(x, in[i + 1], width), j)
<1>0. PICK m \in Nat : \E P, Q : IsCut(d, width, c, m, P, Q, i)
  BY DEF Covers
<1>1. PICK P, Q : IsCut(d, width, c, m, P, Q, i)
  BY <1>0
<1> DEFINE w == Written(x, in[i + 1], width)
           e == c \o w
           l == Len(c)
           P2 == [k \in 1..(m + 2) |-> IF k <= m + 1 THEN P[k] ELSE j]
           Q2 == [k \in 1..(m + 2) |-> IF k <= m + 1 THEN Q[k] ELSE Len(e)]
<1>2. n \in Nat /\ c \in Seq(Bytes) /\ x \in Nat
  BY DEF n, SizesAssumption, Covers, Leads
<1>3. w \in Seq(Bytes)
  BY <1>2, WrittenFacts
<1>4. l \in Nat /\ Len(w) \in Nat
  BY <1>2, <1>3
<1>5. /\ e \in Seq(Bytes) /\ Len(e) = l + Len(w)
      /\ \A k \in 1..(l + Len(w)) : e[k] = IF k <= l THEN c[k] ELSE w[k - l]
  <2> HIDE DEF w
  <2> QED BY <1>2, <1>3, ConcatProperties
<1>6. /\ \A k \in 1..(m + 1) : P[k] \in 0..n /\ Q[k] \in 0..l
      /\ P[1] = 0 /\ Q[1] = 0 /\ P[m + 1] = i /\ Q[m + 1] = l
      /\ \A k \in 1..m : Wrote(d, width, c, P[k], P[k + 1], Q[k], Q[k + 1])
  BY <1>1 DEF IsCut
<1> HIDE DEF e, l
<1>7. /\ P2 \in [1..(m + 2) -> 0..n] /\ P2[m + 2] = j
      /\ \A k \in 1..(m + 1) : P2[k] = P[k]
  BY <1>2, <1>6
<1>8. /\ Q2 \in [1..(m + 2) -> 0..Len(e)] /\ Q2[m + 2] = Len(e)
      /\ \A k \in 1..(m + 1) : Q2[k] = Q[k]
  <2> HIDE DEF w
  <2> QED BY <1>4, <1>5, <1>6
<1> HIDE DEF P2, Q2
<1>9. ASSUME NEW k \in 1..m
      PROVE  Wrote(d, width, e, P2[k], P2[k + 1], Q2[k], Q2[k + 1])
  <2>1. k \in 1..(m + 1) /\ k + 1 \in 1..(m + 1)
    OBVIOUS
  <2>2. P2[k] = P[k] /\ P2[k + 1] = P[k + 1] /\ Q2[k] = Q[k] /\ Q2[k + 1] = Q[k + 1]
        /\ Q[k] \in 0..l /\ Q[k + 1] \in 0..l
    BY <1>6, <1>7, <1>8, <2>1
  <2>3. PICK y \in Nat, v \in Seq(Bytes) :
          /\ Leads(d, width, y, P[k], P[k + 1]) /\ v = Written(y, in[P[k] + 1], width)
          /\ Q[k + 1] = Q[k] + Len(v) /\ \A t \in 1..Len(v) : c[Q[k] + t] = v[t]
    BY <1>6 DEF Wrote
  <2>4. \A t \in 1..Len(v) : e[Q[k] + t] = v[t]
    <3> DEFINE a == Q[k]
               h == Len(v)
    <3>1. h \in Nat /\ a \in Nat /\ a + h <= l
      BY <2>2, <2>3
    <3> HIDE DEF a, h, w
    <3>2. \A t \in 1..h : a + t \in 1..(l + Len(w)) /\ a + t <= l
      BY <1>4, <3>1
    <3>3. \A t \in 1..h : e[a + t] = c[a + t]
      BY <1>5, <3>2
    <3>4. \A t \in 1..h : c[a + t] = v[t]
      BY <2>3 DEF a, h
    <3> QED BY <3>3, <3>4 DEF a, h
  <2> QED BY <2>2, <2>3, <2>4 DEF Wrote
<1>10. Wrote(d, width, e, P2[m + 1], P2[m + 2], Q2[m + 1], Q2[m + 2])
  <2>1. m + 1 \in 1..(m + 1)
    OBVIOUS
  <2>2. P2[m + 1] = i /\ P2[m + 2] = j /\ Q2[m + 1] = l /\ Q2[m + 2] = Len(e)
    BY <1>6, <1>7, <1>8, <2>1
  <2>3. \A t \in 1..Len(w) : e[l + t] = w[t]
    <3> DEFINE h == Len(w)
    <3>1. h \in Nat
      BY <1>4
    <3> HIDE DEF h
    <3>2. \A t \in 1..h : l + t \in 1..(l + h) /\ ~(l + t <= l) /\ (l + t) - l = t
      BY <1>4, <3>1
    <3>3. \A t \in 1..(l + h) : e[t] = IF t <= l THEN c[t] ELSE w[t - l]
      BY <1>5 DEF h
    <3> HIDE DEF w
    <3> QED BY <3>2, <3>3 DEF h
  <2>4. Len(e) = l + Len(w)
    BY <1>5
  <2>5. Wrote(d, width, e, i, j, l, Len(e))
    BY <1>2, <1>3, <2>3, <2>4 DEF Wrote
  <2> QED BY <2>2, <2>5
<1>11. \A k \in 1..(m + 1) : Wrote(d, width, e, P2[k], P2[k + 1], Q2[k], Q2[k + 1])
  <2> TAKE k \in 1..(m + 1)
  <2>1. CASE k = m + 1
    <3>1. k + 1 = m + 2
      BY <2>1
    <3> QED BY <1>10, <2>1, <3>1
  <2>2. CASE k # m + 1
    <3>1. k \in 1..m
      BY <2>2
    <3> QED BY <1>9, <3>1
  <2> QED BY <2>1, <2>2
<1>12. P2[1] = 0 /\ Q2[1] = 0 /\ (m + 1) + 1 = m + 2 /\ m + 1 \in Nat
  BY <1>6, <1>7, <1>8
<1>13. IsCut(d, width, e, m + 1, P2, Q2, j)
  BY <1>7, <1>8, <1>11, <1>12 DEF IsCut
<1>14. Covers(d, width, e, j)
  BY <1>5, <1>12, <1>13 DEF Covers
<1> QED BY <1>14 DEF e

-----------------------------------------------------------------------------
(* The code of one dictionary and width.                                   *)

(***************************************************************************)
(* What holds of a position whenever it holds of all before it, holds of   *)
(* all of them.                                                            *)
(***************************************************************************)
LEMMA Forward ==
    ASSUME NEW S, n \in Nat,
           \A i \in 0..n : (\A j \in 0..n : j < i => j \in S) => i \in S
    PROVE  0..n \subseteq S
<1> DEFINE T == (0..n) \ S
<1> SUFFICES ASSUME T # {} PROVE FALSE
  OBVIOUS
<1>1. T \subseteq Nat
  OBVIOUS
<1>2. PICK i \in T : \A y \in T : i <= y
  <2> HIDE DEF T
  <2> QED BY <1>1, LeastNat
<1>3. \A j \in 0..n : j < i => j \in S
  BY <1>2
<1> QED BY <1>2, <1>3

\* What is written for the way to position j, given the bytes for those before.
Extended(to, j) ==
    IF j = 0 THEN <<>>
    ELSE to[path[j].parent] \o Written(path[j].codeword, in[path[j].parent + 1], b)

\* The bytes of the ways to the positions up to k.
Traces(to, k) == to = [j \in 0..k |-> Extended(to, j)]

Ways == CHOOSE to : Traces(to, n)

LEMMA CodeIsWay == Code = Ways[n]
BY DEF Code, Ways, Traces, Extended

(***************************************************************************)
(* There are bytes for the ways to all positions.                          *)
(***************************************************************************)
LEMMA WaysTrace ==
    ASSUME n \in Nat, \A j \in 1..n : path[j].parent \in 0..(j - 1)
    PROVE  Traces(Ways, n)
<1> DEFINE S == {k \in 0..n : \E to : Traces(to, k)}
<1>1. ASSUME NEW k \in 0..n, \A j \in 0..n : j < k => j \in S
      PROVE  k \in S
  <2>1. CASE k = 0
    <3> DEFINE to == [j \in 0..0 |-> <<>>]
    <3>1. to = [j \in 0..0 |-> Extended(to, j)]
      BY DEF Extended
    <3> HIDE DEF to
    <3>2. Traces(to, k)
      BY <2>1, <3>1 DEF Traces
    <3> QED BY <3>2
  <2>2. CASE k # 0
    <3>1. k - 1 \in 0..n /\ k - 1 < k
      BY <2>2
    <3>2. PICK g : Traces(g, k - 1)
      BY <1>1, <3>1
    <3> DEFINE to == [j \in 0..k |-> IF j = k THEN Extended(g, k) ELSE g[j]]
    <3>3. \A j \in 0..(k - 1) : g[j] = Extended(g, j)
      BY <3>2 DEF Traces
    <3>4. \A j \in 0..k : j < k => to[j] = g[j] /\ j \in 0..(k - 1)
      OBVIOUS
    <3>5. to[k] = Extended(g, k) /\ DOMAIN to = 0..k /\ to = [j \in 0..k |-> to[j]]
      OBVIOUS
    <3> HIDE DEF to
    <3>6. ASSUME NEW j \in 0..k PROVE to[j] = Extended(to, j)
      <4>1. Extended(to, j) = Extended(g, j)
        <5>1. CASE j = 0
          BY <5>1 DEF Extended
        <5>2. CASE j # 0
          <6>1. j \in 1..n
            BY <5>2
          <6>2. path[j].parent \in 0..(j - 1)
            BY <6>1
          <6>3. path[j].parent \in 0..k /\ path[j].parent < k
            BY <5>2, <6>2
          <6>4. to[path[j].parent] = g[path[j].parent]
            BY <3>4, <6>3
          <6> QED BY <6>4 DEF Extended
        <5> QED BY <5>1, <5>2
      <4>2. CASE j = k
        BY <3>5, <4>1, <4>2
      <4>3. CASE j # k
        <5>1. j < k
          BY <4>3
        <5> QED BY <3>3, <3>4, <4>1, <5>1
      <4> QED BY <4>2, <4>3
    <3>7. to = [j \in 0..k |-> Extended(to, j)]
      BY <3>5, <3>6
    <3>8. Traces(to, k)
      BY <3>7 DEF Traces
    <3> QED BY <3>8
  <2> QED BY <2>1, <2>2
<1>2. n \in S
  <2> HIDE DEF S
  <2>1. 0..n \subseteq S
    BY <1>1, Forward
  <2> QED BY <2>1
<1>3. \E to : Traces(to, n)
  BY <1>2
<1> QED BY <1>3 DEF Ways

(***************************************************************************)
(* The code stands for the whole block.                                    *)
(***************************************************************************)
LEMMA CodeCovers ==
    ASSUME SizesAssumption, NEW d, b \in {1, 2}, in \in [1..n -> Nat], PathOK(d, b)
    PROVE  Covers(d, b, Code, n)
<1>1. n \in Nat /\ n > 0
  BY DEF n, SizesAssumption
<1>2. \A j \in 1..n : path[j].parent \in 0..(j - 1)
                      /\ Leads(d, b, path[j].codeword, path[j].parent, j)
  BY DEF PathOK
<1>3. Traces(Ways, n)
  BY <1>1, <1>2, WaysTrace
<1>4. \A j \in 0..n : Ways[j] = Extended(Ways, j)
  BY <1>3 DEF Traces
<1> DEFINE S == {j \in 0..n : Covers(d, b, Ways[j], j)}
<1>5. ASSUME NEW j \in 0..n, \A i \in 0..n : i < j => i \in S
      PROVE  j \in S
  <2>1. CASE j = 0
    <3>1. Ways[j] = <<>>
      BY <1>4, <2>1 DEF Extended
    <3>2. Covers(d, b, Ways[j], j)
      BY <2>1, <3>1, EmptyCovers
    <3> QED BY <3>2
  <2>2. CASE j # 0
    <3> DEFINE i == path[j].parent
               x == path[j].codeword
    <3>1. j \in 1..n
      BY <2>2
    <3>2. i \in 0..(j - 1) /\ Leads(d, b, x, i, j)
      BY <1>2, <3>1
    <3>3. i \in 0..n /\ i < j /\ i + 1 \in 1..n
      BY <1>1, <3>1, <3>2
    <3>4. Covers(d, b, Ways[i], i) /\ in[i + 1] \in Nat
      BY <1>5, <3>3
    <3>5. Ways[j] = Ways[i] \o Written(x, in[i + 1], b)
      BY <1>4, <2>2 DEF Extended
    <3> HIDE DEF i, x
    <3>6. Covers(d, b, Ways[j], j)
      BY <3>2, <3>3, <3>4, <3>5, AppendCovers
    <3> QED BY <3>6
  <2> QED BY <2>1, <2>2
<1>6. n \in S
  <2> HIDE DEF S
  <2>1. 0..n \subseteq S
    BY <1>1, <1>5, Forward
  <2> QED BY <1>1, <2>1
<1>7. Covers(d, b, Ways[n], n)
  BY <1>6
<1> QED BY <1>7, CodeIsWay

-----------------------------------------------------------------------------
(* Decoding.                                                               *)

\* The block is decoded up to `at', and behind what a copy may have reached the
\* zeros are there that long runs rely on.
DecodedTo(o, at) ==
    /\ DOMAIN o = 1..(n + Overflow)
    /\ \A p \in 1..at : o[p] = in[p]
    /\ \A p \in (at + MaxEntrySize)..(n + Overflow) : o[p] = 0

(***************************************************************************)
(* Decoding a codeword that stands at the position reached leads to the    *)
(* end of what it stands for: a target is copied whole, and of a run the   *)
(* part behind max_entry_size is there already.                            *)
(***************************************************************************)
LEMMA DecodeEffect ==
    ASSUME SizesAssumption, NEW d, IsDictionary(d), NEW width, NEW x, NEW at \in 0..n, NEW to,
           Leads(d, width, x, at, to), NEW o, DecodedTo(o, at)
    PROVE  DecodedTo(IF x > 1 THEN Copy(d, x, o, at + 1) ELSE [o EXCEPT ![at + 1] = in[at + 1]], to)
<1> DEFINE size == Spans(d, x)
           top == n + Overflow
<1>1. /\ n \in Nat /\ Overflow \in Nat /\ at \in Nat /\ MaxEntrySize \in Nat \ {0}
      /\ size \in Nat \ {0} /\ at + size <= n /\ top \in Nat /\ n <= top /\ to = at + size
  BY MaxEntrySizeAssumption DEF n, SizesAssumption, Leads
<1>2. /\ DOMAIN o = 1..top
      /\ \A p \in 1..at : o[p] = in[p]
      /\ \A p \in (at + MaxEntrySize)..top : o[p] = 0
  BY DEF DecodedTo
<1>3. CASE x > 1
  <2> DEFINE c == Copy(d, x, o, at + 1)
             e == Entry(d, x)
             isRun == IsRun(x)
  <2>1. /\ x \in EXCEPTIONS..(DictSize(d) - 1) /\ size = EntrySize(d, x)
        /\ \A p \in 1..size : e[p] = in[at + p]
    BY <1>3 DEF Leads, Spans
  <2>2. at + 1 \in Nat
    BY <1>1
  <2>3. /\ DOMAIN c = 1..top
        /\ \A p \in 1..top : p < at + 1 \/ p >= at + 1 + MaxEntrySize => c[p] = o[p]
        /\ \A p \in 1..top : (p >= at + 1 /\ p < at + 1 + MaxEntrySize /\ p < at + 1 + size)
                                => c[p] = e[p - (at + 1) + 1]
    <3> DEFINE u == x
               a == at + 1
    <3>1. /\ u \in EXCEPTIONS..(DictSize(d) - 1) /\ top \in Nat
          /\ DOMAIN o = 1..top /\ a \in Nat /\ size = EntrySize(d, u)
      BY <1>1, <1>2, <2>1, <2>2
    <3> HIDE DEF u, a, top, size
    <3>2. /\ DOMAIN Copy(d, u, o, a) = 1..top
          /\ \A p \in 1..top : p < a \/ p >= a + MaxEntrySize => Copy(d, u, o, a)[p] = o[p]
          /\ \A p \in 1..top : (p >= a /\ p < a + MaxEntrySize /\ p < a + EntrySize(d, u))
                                => Copy(d, u, o, a)[p] = Entry(d, u)[p - a + 1]
      BY <3>1, CopyFacts
    <3> QED BY <3>1, <3>2 DEF u, a
  <2>4. /\ isRun => \A p \in 1..size : e[p] = 0
        /\ ~isRun => size <= MaxEntrySize
        /\ isRun \in BOOLEAN
    BY <2>1, EntryFacts DEF IsRun
  <2> HIDE DEF size, c, e, top, isRun
  <2>5. ASSUME NEW p \in 1..(at + size)
        PROVE  c[p] = in[p]
    <3>1. p \in 1..top
      BY <1>1
    <3>2. CASE p <= at
      BY <1>1, <1>2, <2>3, <3>1, <3>2
    <3>3. CASE p > at /\ p <= at + MaxEntrySize
      <4>1. p - (at + 1) + 1 = p - at /\ p - at \in 1..size /\ at + (p - at) = p
        BY <1>1, <3>3
      <4>2. c[p] = e[p - at]
        BY <1>1, <2>3, <3>1, <3>3, <4>1
      <4> QED BY <2>1, <4>1, <4>2
    <3>4. CASE p > at + MaxEntrySize
      <4>1. p - at \in 1..size /\ at + (p - at) = p /\ size > MaxEntrySize
        BY <1>1, <3>4
      <4>2. isRun
        BY <1>1, <2>4, <4>1
      <4>3. in[p] = 0
        BY <2>1, <2>4, <4>1, <4>2
      <4>4. c[p] = o[p] /\ o[p] = 0
        BY <1>1, <1>2, <2>3, <3>1, <3>4
      <4> QED BY <4>3, <4>4
    <3> QED BY <1>1, <3>2, <3>3, <3>4
  <2>6. ASSUME NEW p \in (at + size + MaxEntrySize)..top
        PROVE  c[p] = 0
    <3>1. p \in 1..top /\ p >= at + 1 + MaxEntrySize /\ p \in (at + MaxEntrySize)..top
      BY <1>1
    <3> QED BY <1>2, <2>3, <3>1
  <2> QED BY <1>1, <1>3, <2>3, <2>5, <2>6 DEF DecodedTo, c, size, top
<1>4. CASE ~(x > 1)
  <2> DEFINE c == [o EXCEPT ![at + 1] = in[at + 1]]
  <2>1. x \in Nat /\ size = 1
    BY <1>4 DEF Leads, Spans
  <2>2. /\ DOMAIN c = 1..top /\ c[at + 1] = in[at + 1]
        /\ \A p \in 1..top : p # at + 1 => c[p] = o[p]
    BY <1>1, <1>2, <2>1
  <2> HIDE DEF c
  <2>3. \A p \in 1..(at + size) : c[p] = in[p]
    BY <1>1, <1>2, <2>1, <2>2
  <2>4. \A p \in (at + size + MaxEntrySize)..top : c[p] = 0
    BY <1>1, <1>2, <2>1, <2>2
  <2> QED BY <1>1, <1>4, <2>2, <2>3, <2>4 DEF DecodedTo, c
<1> QED BY <1>3, <1>4

\* While the code is read, the next codeword begins where the decoder is.
Reading ==
    \E m \in Nat : \E P, Q :
        /\ IsCut(Selected, Width, Tail(out), m, P, Q, n)
        /\ \E k \in 1..(m + 1) : pos = P[k] /\ ptr = Q[k] + 1

(***************************************************************************)
(* The decoder reads the codeword that begins where it is, with the        *)
(* exception behind an escape, and decodes what it stands for.             *)
(***************************************************************************)
LEMMA DecodeReads ==
    ASSUME SizesAssumption, in \in [1..n -> 0..(NoLimit - 1)], Usable(Selected), Width \in {1, 2},
           out \in Seq(Nat), out # <<>>, Reading, DecodedTo(buf, pos), DecodeStep
    PROVE  Reading' /\ DecodedTo(buf', pos') /\ pos' \in 0..n
<1> DEFINE c == Tail(out)
<1>1. n \in Nat /\ NoLimit \in Nat /\ pos # n
  BY ByteFacts DEF n, SizesAssumption, DecodeStep
<1>2. Len(c) \in Nat /\ \A q \in 1..Len(c) : c[q] = out[q + 1]
  BY HeadTailProperties
<1>0. PICK m \in Nat : \E P, Q :
        /\ IsCut(Selected, Width, c, m, P, Q, n)
        /\ \E k \in 1..(m + 1) : pos = P[k] /\ ptr = Q[k] + 1
  BY DEF Reading
<1>3. PICK P, Q :
        /\ IsCut(Selected, Width, c, m, P, Q, n)
        /\ \E k \in 1..(m + 1) : pos = P[k] /\ ptr = Q[k] + 1
  BY <1>0
<1>4. PICK k \in 1..(m + 1) : pos = P[k] /\ ptr = Q[k] + 1
  BY <1>3
<1>5. /\ \A j \in 1..(m + 1) : P[j] \in 0..n /\ Q[j] \in 0..Len(c)
      /\ P[m + 1] = n
      /\ \A j \in 1..m : Wrote(Selected, Width, c, P[j], P[j + 1], Q[j], Q[j + 1])
  BY <1>3 DEF IsCut
<1>6. k \in 1..m /\ k + 1 \in 1..(m + 1)
  <2>1. k # m + 1
    BY <1>1, <1>4, <1>5
  <2> QED BY <2>1
<1>7. PICK x \in Nat, w \in Seq(Bytes) :
        /\ Leads(Selected, Width, x, pos, P[k + 1]) /\ w = Written(x, in[pos + 1], Width)
        /\ Q[k + 1] = Q[k] + Len(w) /\ \A t \in 1..Len(w) : c[Q[k] + t] = w[t]
  BY <1>4, <1>5, <1>6 DEF Wrote
<1>8. pos \in 0..n /\ P[k + 1] \in 0..n /\ Q[k] \in 0..Len(c) /\ Q[k + 1] \in 0..Len(c)
  BY <1>4, <1>5, <1>6
<1> DEFINE value == in[pos + 1]
           count == IF x = 0 THEN 2 ELSE 4
<1>9. pos + 1 \in 1..n /\ value \in Nat /\ value < NoLimit
  <2>1. pos + 1 \in 1..n
    BY <1>1, <1>8
  <2>2. value \in 0..(NoLimit - 1)
    BY <2>1
  <2> HIDE DEF value
  <2> QED BY <1>1, <2>1, <2>2
<1>10. \A t \in 1..Len(w) : out[ptr + t] = w[t]
  <2> DEFINE a == Q[k]
             h == Len(w)
             l == Len(c)
  <2>1. a \in Nat /\ h \in Nat /\ l \in Nat /\ a + h <= l /\ ptr = a + 1
    BY <1>2, <1>4, <1>7, <1>8
  <2>2. \A q \in 1..l : c[q] = out[q + 1]
    BY <1>2
  <2>3. \A t \in 1..h : c[a + t] = w[t]
    BY <1>7
  <2> HIDE DEF a, h, l, c
  <2>4. \A t \in 1..h : a + t \in 1..l /\ (a + t) + 1 = ptr + t
    BY <2>1
  <2>5. \A t \in 1..h : out[ptr + t] = w[t]
    BY <2>2, <2>3, <2>4
  <2> QED BY <2>5 DEF h
<1>11. ptr \in Nat
  BY <1>4, <1>8
<1>12. Width \in {1, 2, 4} /\ count \in {2, 4} /\ count \in {1, 2, 4}
  OBVIOUS
<1> HIDE DEF value, count, c
<1>13. /\ x > 1 => /\ Len(w) = Width
                   /\ \A t \in 1..Width : w[t] = BytesOf(x, Width)[t]
       /\ x <= 1 => /\ Len(w) = Width + count
                    /\ \A t \in 1..Width : w[t] = BytesOf(x, Width)[t]
                    /\ \A t \in 1..count : w[Width + t] = BytesOf(value, count)[t]
  <2>1. PICK v, u : v = Width /\ u = value
    OBVIOUS
  <2>2. v \in {1, 2} /\ u \in Nat /\ w = Written(x, u, v)
    BY <1>7, <1>9, <2>1 DEF value
  <2>3. x > 1 => /\ Len(Written(x, u, v)) = v
                 /\ \A t \in 1..v : Written(x, u, v)[t] = BytesOf(x, v)[t]
    BY <2>2, WrittenFacts
  <2>4. \A y \in {2, 4} : x <= 1 /\ y = (IF x = 0 THEN 2 ELSE 4) =>
                /\ Len(Written(x, u, v)) = v + y
                /\ \A t \in 1..v : Written(x, u, v)[t] = BytesOf(x, v)[t]
                /\ \A t \in 1..y : Written(x, u, v)[v + t] = BytesOf(u, y)[t]
    BY <2>2, WrittenFacts
  <2>5. count = IF x = 0 THEN 2 ELSE 4
    BY DEF count
  <2> QED BY <1>12, <2>1, <2>2, <2>3, <2>4, <2>5
<1>14. Number(ptr, Width) = x
  <2>1. \A t \in 1..Width : t \in 1..Len(w)
    BY <1>12, <1>13
  <2>2. \A t \in 1..Width : out[ptr + t] = BytesOf(x, Width)[t]
    BY <1>10, <1>13, <2>1
  <2>3. x < Room(Width)
    BY <1>7 DEF Leads
  <2> DEFINE v == Width
  <2>4. v \in {1, 2, 4} /\ x < Room(v) /\ \A t \in 1..v : out[ptr + t] = BytesOf(x, v)[t]
    BY <1>12, <2>2, <2>3
  <2> HIDE DEF v
  <2>5. Number(ptr, v) = x
    BY <1>11, <2>4, NumberRead
  <2> QED BY <2>5 DEF v
<1>15. x <= 1 => Number(ptr + Width, count) = value
  <2> SUFFICES ASSUME x <= 1 PROVE Number(ptr + Width, count) = value
    OBVIOUS
  <2> DEFINE v == Width
             f == ptr + v
  <2>1. v \in Nat /\ count \in Nat /\ f \in Nat
    BY <1>11, <1>12
  <2>2. Len(w) = v + count /\ \A t \in 1..count : w[v + t] = BytesOf(value, count)[t]
    BY <1>13
  <2> HIDE DEF v
  <2>3. \A t \in 1..count : v + t \in 1..Len(w) /\ ptr + (v + t) = f + t
    BY <1>11, <2>1, <2>2
  <2>4. \A t \in 1..count : out[f + t] = BytesOf(value, count)[t]
    BY <1>10, <2>2, <2>3
  <2>5. value < Room(count)
    <3>1. x = 0 => value < LargeLimit
      BY <1>7 DEF Leads, value
    <3> QED BY <1>9, <1>12, <3>1 DEF Room, count
  <2> HIDE DEF f
  <2>6. Number(f, count) = value
    BY <1>9, <1>12, <2>1, <2>4, <2>5, NumberRead
  <2> QED BY <2>6 DEF f, v
<1>16. /\ x > 1 => /\ buf' = Copy(Selected, x, buf, pos + 1)
                   /\ pos' = pos + EntrySize(Selected, x) /\ ptr' = ptr + Width
       /\ x <= 1 => /\ buf' = [buf EXCEPT ![pos + 1] = value]
                    /\ pos' = pos + 1 /\ ptr' = ptr + Width + count
  <2>1. x > EXCEPTIONS - 1 <=> x > 1
    BY DEF EXCEPTIONS
  <2>2. CASE x > 1
    <3>1. Number(ptr, Width) > EXCEPTIONS - 1 /\ ~(x <= 1)
      BY <1>14, <2>1, <2>2
    <3> QED BY <1>14, <2>2, <3>1 DEF DecodeStep
  <2>3. CASE x <= 1
    <3>1. ~(Number(ptr, Width) > EXCEPTIONS - 1) /\ ~(x > 1)
      BY <1>14, <2>1, <2>3
    <3>2. count = IF Number(ptr, Width) = 1 THEN 4 ELSE 2
      BY <1>14, <2>3 DEF count
    <3> QED BY <1>15, <2>3, <3>1, <3>2 DEF DecodeStep
  <2> QED BY <2>2, <2>3
<1>17. pos' = P[k + 1]
  <2>1. pos + Spans(Selected, x) = P[k + 1]
    BY <1>7 DEF Leads
  <2> QED BY <1>16, <2>1 DEF Spans
<1>18. ptr' = Q[k + 1] + 1
  <2> DEFINE v == Width
             h == Len(w)
  <2>1. v \in Nat /\ count \in Nat /\ h \in Nat
    BY <1>12
  <2>2. x > 1 => h = v /\ ptr' = ptr + v
    BY <1>13, <1>16
  <2>3. x <= 1 => h = v + count /\ ptr' = ptr + v + count
    BY <1>13, <1>16
  <2> DEFINE y == Q[k]
             z == Q[k + 1]
  <2>4. z = y + h /\ ptr = y + 1 /\ y \in Int /\ z \in Int
    BY <1>4, <1>7, <1>8
  <2> HIDE DEF v, h, y, z
  <2>5. ptr' = z + 1
    BY <2>1, <2>2, <2>3, <2>4
  <2> QED BY <2>5 DEF z
<1>19. DecodedTo(buf', pos')
  <2> DEFINE o == IF x > 1 THEN Copy(Selected, x, buf, pos + 1) ELSE [buf EXCEPT ![pos + 1] = value]
  <2>1. buf' = o
    BY <1>16
  <2>2. IsDictionary(Selected)
    BY DEF Usable
  <2>3. DecodedTo(o, P[k + 1])
    BY <1>7, <1>8, <2>2, DecodeEffect DEF value
  <2> QED BY <1>17, <2>1, <2>3
<1>20. Reading'
  <2>1. UNCHANGED <<in, dicts, out>>
    BY DEF DecodeStep
  <2>2. UNCHANGED <<Selected, Width>> /\ c' = c
    BY <2>1 DEF Selected, Width, num_selectors, c
  <2>3. IsCut(Selected, Width, c, m, P, Q, n)'
    BY <1>3, <2>1, <2>2 DEF IsCut, Wrote, Leads
  <2>4. IsCut(Selected, Width, Tail(out), m, P, Q, n)'
    BY <2>3 DEF c
  <2>5. \E j \in 1..(m + 1) : pos' = P[j] /\ ptr' = Q[j] + 1
    BY <1>6, <1>17, <1>18
  <2> QED BY <2>4, <2>5 DEF Reading
<1> QED BY <1>8, <1>17, <1>19, <1>20

-----------------------------------------------------------------------------
(* The choice.                                                             *)

\* What the program's constants are.
Assumed == SizesAssumption /\ TargetSizesAssumption /\ InputsAssumption /\ MultiDictionariesAssumption

(***************************************************************************)
(* What the assumptions say of a block and its dictionaries.               *)
(***************************************************************************)
LEMMA InputFacts ==
    ASSUME Assumed, in \in Inputs, dicts \in MultiDictionaries
    PROVE  /\ SizesAssumption /\ TargetSizesAssumption /\ n \in Nat \ {0}
           /\ in \in [1..n -> 0..(NoLimit - 1)] /\ in \in [1..n -> Nat]
           /\ num_selectors \in Nat \ {0}
           /\ \A t \in 0..(num_selectors - 1) : Usable(dicts[t + 1])
<1>1. SizesAssumption /\ TargetSizesAssumption /\ n \in Nat \ {0}
  BY DEF Assumed, SizesAssumption, n
<1>2. in \in [1..n -> 0..(NoLimit - 1)]
  BY DEF Assumed, InputsAssumption, n
<1>3. NoLimit \in Nat
  BY <1>1, ByteFacts
<1>4. 0..(NoLimit - 1) \subseteq Nat
  BY <1>3
<1>5. in \in [1..n -> Nat]
  BY <1>2, <1>4
<1>6. /\ dicts \in Seq(Range(dicts)) /\ dicts # <<>>
      /\ \A t \in 1..Len(dicts) : IsDictionary(dicts[t]) /\ DictSize(dicts[t]) <= LargeLimit
  BY DEF Assumed, MultiDictionariesAssumption
<1>7. num_selectors \in Nat \ {0}
  BY <1>6 DEF num_selectors
<1>8. ASSUME NEW t \in 0..(num_selectors - 1) PROVE Usable(dicts[t + 1])
  <2>1. t + 1 \in 1..Len(dicts)
    BY <1>7 DEF num_selectors
  <2> QED BY <1>6, <2>1 DEF Usable
<1> QED BY <1>1, <1>2, <1>5, <1>7, <1>8

(***************************************************************************)
(* The remainder of a number of a dictionary, or of one counted on.        *)
(***************************************************************************)
LEMMA SelectorRemainder ==
    ASSUME NEW N \in Nat \ {0}, NEW i \in 0..(N - 1)
    PROVE  i % N = i /\ (i + N) % N = i
<1>1. i = N * 0 + i /\ i + N = N * 1 + i /\ i \in Nat /\ i + N \in Nat
  OBVIOUS
<1> QED BY <1>1

\* The dictionary whose code is written.
Best == CHOOSE i \in 0..(num_selectors - 1) :
            /\ \A j \in 0..(num_selectors - 1) : Size(i) <= Size(j)
            /\ \A j \in 0..(i - 1) : Size(i) < Size(j)

(***************************************************************************)
(* There is a first dictionary among those of the smallest code.           *)
(***************************************************************************)
LEMMA BestFacts ==
    ASSUME num_selectors \in Nat \ {0}, \A i \in 0..(num_selectors - 1) : Size(i) \in Nat
    PROVE  Best \in 0..(num_selectors - 1) /\ \A j \in 0..(num_selectors - 1) : Size(Best) <= Size(j)
<1> DEFINE ids == 0..(num_selectors - 1)
           S == {Size(i) : i \in ids}
           First(i) == /\ \A j \in ids : Size(i) <= Size(j)
                       /\ \A j \in 0..(i - 1) : Size(i) < Size(j)
<1>1. S \subseteq Nat /\ S # {}
  <2>1. 0 \in ids
    OBVIOUS
  <2> QED BY <2>1
<1>2. PICK z \in S : \A y \in S : z <= y
  <2> HIDE DEF S
  <2> QED BY <1>1, LeastNat
<1> DEFINE T == {i \in ids : Size(i) = z}
<1>3. T \subseteq Nat /\ T # {}
  OBVIOUS
<1>4. PICK i \in T : \A j \in T : i <= j
  <2> HIDE DEF T
  <2> QED BY <1>3, LeastNat
<1>5. i \in ids /\ Size(i) = z
  OBVIOUS
<1>6. \A j \in ids : Size(i) <= Size(j)
  BY <1>2, <1>5
<1>7. ASSUME NEW j \in 0..(i - 1) PROVE Size(i) < Size(j)
  <2>1. j \in ids /\ j < i
    BY <1>5
  <2>2. j \notin T
    BY <1>3, <1>4, <2>1
  <2>3. Size(j) # z
    BY <2>1, <2>2
  <2>4. Size(i) <= Size(j) /\ Size(j) \in Nat /\ Size(i) \in Nat
    BY <1>5, <1>6, <2>1
  <2> QED BY <1>5, <2>3, <2>4
<1>8. First(i)
  BY <1>6, <1>7
<1>9. Best = CHOOSE k \in ids : First(k)
  BY DEF Best
<1>10. Best \in ids /\ First(Best)
  <2> HIDE DEF First, ids
  <2> QED BY <1>5, <1>8, <1>9
<1> QED BY <1>10

\* The codes found so far, every one of which stands for the whole block.
Tried == {k \in (0..(num_selectors - 1)) \X {1, 2} : k[1] < s \/ (k[1] = s /\ b = 1 /\ k[2] = 2)}

AllCovered ==
    \A k \in DOMAIN encoded : Covers(dicts[k[1] + 1], k[2], encoded[k], n)

\* The bytes written are a control byte and the smallest of the codes.
Chosen ==
    /\ out \in Seq(Nat) /\ out # <<>>
    /\ out[1] < 2 * num_selectors
    /\ <<out[1] % num_selectors, Width>> \in DOMAIN encoded
    /\ Tail(out) = encoded[<<out[1] % num_selectors, Width>>]
    /\ \A k \in DOMAIN encoded : Len(out) - 1 <= Len(encoded[k])

(***************************************************************************)
(* Once all codes are found the smallest one is written, and the decoder   *)
(* finds it: its dictionary and width from the control byte.               *)
(***************************************************************************)
LEMMA WriteBestChooses ==
    ASSUME Assumed, in \in Inputs, dicts \in MultiDictionaries, pos = 0,
           DOMAIN encoded = (0..(num_selectors - 1)) \X {1, 2}, AllCovered, WriteBest
    PROVE  Chosen' /\ Reading'
<1> DEFINE N == num_selectors
           w == IF Narrow(Best) THEN 1 ELSE 2
           ctl == IF Narrow(Best) THEN Best + N ELSE Best
           c == encoded[<<Best, w>>]
<1>1. N \in Nat \ {0} /\ SizesAssumption
  BY InputFacts
<1>2. ASSUME NEW t \in 0..(N - 1), NEW v \in {1, 2}
      PROVE  /\ <<t, v>> \in DOMAIN encoded /\ Covers(dicts[t + 1], v, encoded[<<t, v>>], n)
             /\ encoded[<<t, v>>] \in Seq(Bytes) /\ Len(encoded[<<t, v>>]) \in Nat
  <2>1. <<t, v>> \in DOMAIN encoded
    OBVIOUS
  <2>2. Covers(dicts[t + 1], v, encoded[<<t, v>>], n)
    BY <2>1 DEF AllCovered
  <2>3. encoded[<<t, v>>] \in Seq(Bytes)
    BY <2>2 DEF Covers
  <2>4. Len(encoded[<<t, v>>]) \in Nat
    BY <2>3
  <2> QED BY <2>1, <2>2, <2>3, <2>4
<1>3. ASSUME NEW t \in 0..(N - 1)
      PROVE  /\ Size(t) \in Nat
             /\ Size(t) <= Len(encoded[<<t, 1>>]) /\ Size(t) <= Len(encoded[<<t, 2>>])
  <2>1. Len(encoded[<<t, 1>>]) \in Nat /\ Len(encoded[<<t, 2>>]) \in Nat
    BY <1>2
  <2> QED BY <2>1 DEF Size, Narrow
<1>4. Best \in 0..(N - 1) /\ \A t \in 0..(N - 1) : Size(Best) <= Size(t)
  BY <1>1, <1>3, BestFacts
<1>5. out' = <<ctl>> \o c /\ UNCHANGED <<in, dicts, encoded, pos>> /\ ptr' = 1
  <2>1. UNCHANGED <<in, dicts, encoded, pos>> /\ ptr' = 1
    BY DEF WriteBest
  <2>2. out' = IF Narrow(Best) THEN <<Best + num_selectors>> \o encoded[<<Best, 1>>]
               ELSE <<Best>> \o encoded[<<Best, 2>>]
    BY Zenon DEF WriteBest, Best
  <2>3. CASE Narrow(Best)
    BY <2>1, <2>2, <2>3
  <2>4. CASE ~Narrow(Best)
    BY <2>1, <2>2, <2>4
  <2> QED BY <2>3, <2>4
<1>6. N' = N
  BY <1>5 DEF num_selectors
<1>7. Len(c) = Size(Best)
  BY DEF Size
<1>8. PICK i, v, u, e, M : i = Best /\ v = w /\ u = ctl /\ e = c /\ M = N
  OBVIOUS
<1>9. /\ v \in {1, 2} /\ i \in 0..(M - 1) /\ M \in Nat \ {0}
      /\ v = 1 => u = i + M
      /\ v = 2 => u = i
  BY <1>1, <1>4, <1>8
<1>10. /\ <<i, v>> \in DOMAIN encoded /\ Covers(dicts[i + 1], v, e, n) /\ e \in Seq(Bytes)
       /\ e = encoded[<<i, v>>]
  BY <1>2, <1>4, <1>8, <1>9
<1>11. out' = <<u>> \o e /\ Len(e) = Size(Best)
  BY <1>5, <1>7, <1>8
<1> HIDE DEF N, w, ctl, c
<1>12. u \in Nat /\ u < 2 * M /\ (u < M <=> v = 2) /\ u % M = i
  <2>1. i % M = i /\ (i + M) % M = i
    BY <1>9, SelectorRemainder
  <2> QED BY <1>9, <2>1
<1>13. /\ out' \in Seq(Nat) /\ out' # <<>> /\ out'[1] = u /\ Len(out') = Len(e) + 1
       /\ Tail(out') = e
  <2>1. Byte \in Nat
    BY <1>1, ByteFacts
  <2>2. Bytes \subseteq Nat
    BY <2>1 DEF Bytes
  <2>3. e \in Seq(Nat) /\ <<u>> \in Seq(Nat) /\ Len(<<u>>) = 1 /\ <<u>>[1] = u /\ Len(e) \in Nat
    <3>1. e \in Seq(Bytes)
      BY <1>10
    <3>2. \A k \in 1..Len(e) : e[k] \in Nat
      BY <2>2, <3>1, ElementOfSeq
    <3>3. Len(e) \in Nat /\ DOMAIN e = 1..Len(e) /\ e = [k \in 1..Len(e) |-> e[k]]
      BY <3>1
    <3>4. e \in Seq(Nat)
      BY <3>2, <3>3
    <3>5. <<u>> \in Seq(Nat) /\ Len(<<u>>) = 1 /\ <<u>>[1] = u
      BY <1>12
    <3> QED BY <3>3, <3>4, <3>5
  <2>4. /\ out' \in Seq(Nat) /\ Len(out') = 1 + Len(e)
        /\ \A k \in 1..(1 + Len(e)) : out'[k] = IF k <= 1 THEN <<u>>[k] ELSE e[k - 1]
    BY <1>11, <2>3, ConcatProperties
  <2>5. out' # <<>> /\ out'[1] = u /\ Len(out') = Len(e) + 1
    BY <2>3, <2>4
  <2>6. /\ Tail(out') \in Seq(Nat) /\ Len(Tail(out')) = Len(e)
        /\ \A k \in 1..Len(Tail(out')) : Tail(out')[k] = out'[k + 1]
    BY <2>3, <2>4, <2>5, HeadTailProperties
  <2>7. \A k \in 1..Len(e) : k + 1 \in 1..(1 + Len(e)) /\ ~(k + 1 <= 1) /\ (k + 1) - 1 = k
    BY <2>3
  <2>8. \A k \in 1..Len(e) : Tail(out')[k] = e[k]
    BY <2>4, <2>6, <2>7
  <2>9. Tail(out') = e
    <3> DEFINE r == Tail(out')
    <3>1. r \in Seq(Nat) /\ Len(r) = Len(e) /\ \A k \in 1..Len(r) : r[k] = e[k]
      BY <2>6, <2>8
    <3> HIDE DEF r
    <3>2. r = e
      BY <2>3, <3>1, SeqEqual
    <3> QED BY <3>2 DEF r
  <2>10. out' \in Seq(Nat)
    BY <2>4
  <2> QED BY <2>5, <2>9, <2>10
<1>14. num_selectors' = M
  BY <1>6, <1>8 DEF N
<1>15. Width' = v
  BY <1>9, <1>12, <1>13, <1>14 DEF Width
<1>16. Selected' = dicts[i + 1]
  BY <1>5, <1>12, <1>13, <1>14 DEF Selected
<1>17. ASSUME NEW k \in DOMAIN encoded PROVE Len(out') - 1 <= Len(encoded[k])
  <2>1. PICK t \in 0..(num_selectors - 1), y \in {1, 2} : k = <<t, y>>
    OBVIOUS
  <2>2. /\ Size(t) \in Nat /\ Size(t) <= Len(encoded[<<t, 1>>]) /\ Size(t) <= Len(encoded[<<t, 2>>])
        /\ Size(Best) \in Nat /\ Size(Best) <= Size(t)
        /\ Len(encoded[<<t, 1>>]) \in Nat /\ Len(encoded[<<t, 2>>]) \in Nat
    BY <1>2, <1>3, <1>4, <2>1 DEF N
  <2>3. Len(out') - 1 = Size(Best)
    BY <1>11, <1>13, <2>2
  <2>4. Len(encoded[k]) = Len(encoded[<<t, 1>>]) \/ Len(encoded[k]) = Len(encoded[<<t, 2>>])
    BY <2>1
  <2> QED BY <2>2, <2>3, <2>4
<1>18. Chosen'
  BY <1>5, <1>10, <1>12, <1>13, <1>14, <1>15, <1>17 DEF Chosen
<1>0. PICK m \in Nat : \E P, Q : IsCut(dicts[i + 1], v, e, m, P, Q, n)
  BY <1>10 DEF Covers
<1>19. PICK P, Q : IsCut(dicts[i + 1], v, e, m, P, Q, n)
  BY <1>0
<1>20. IsCut(Selected, Width, Tail(out), m, P, Q, n)'
  <2>1. in' = in /\ Selected' = dicts[i + 1] /\ Width' = v /\ Tail(out') = e
    BY <1>5, <1>13, <1>15, <1>16
  <2>2. PICK d : d = dicts[i + 1]
    OBVIOUS
  <2> DEFINE g == Tail(out)
  <2>3. IsCut(d, v, e, m, P, Q, n) /\ Selected' = d /\ Width' = v /\ g' = e /\ in' = in
    BY <1>19, <2>1, <2>2
  <2> HIDE DEF g
  <2>4. ASSUME NEW k \in 1..m
        PROVE  Wrote(Selected, Width, g, P[k], P[k + 1], Q[k], Q[k + 1])'
    <3>1. PICK x \in Nat, y \in Seq(Bytes) :
            /\ Leads(d, v, x, P[k], P[k + 1]) /\ y = Written(x, in[P[k] + 1], v)
            /\ Q[k + 1] = Q[k] + Len(y) /\ \A t \in 1..Len(y) : e[Q[k] + t] = y[t]
      BY <2>3 DEF IsCut, Wrote
    <3>2. Leads(Selected, Width, x, P[k], P[k + 1])'
      BY <2>3, <3>1 DEF Leads
    <3>3. /\ y = Written(x, in'[P[k] + 1], Width')
          /\ Q[k + 1] = Q[k] + Len(y) /\ \A t \in 1..Len(y) : g'[Q[k] + t] = y[t]
      BY <2>3, <3>1
    <3> QED BY <3>2, <3>3 DEF Wrote
  <2>5. /\ P \in [1..(m + 1) -> 0..n] /\ Q \in [1..(m + 1) -> 0..Len(g')]
        /\ P[1] = 0 /\ Q[1] = 0
        /\ P[m + 1] = n /\ Q[m + 1] = Len(g')
    BY <2>3 DEF IsCut
  <2>6. IsCut(Selected, Width, g, m, P, Q, n)'
    BY <2>4, <2>5 DEF IsCut
  <2> QED BY <2>6 DEF g
<1>21. \E k \in 1..(m + 1) : pos' = P[k] /\ ptr' = Q[k] + 1
  <2>1. P[1] = 0 /\ Q[1] = 0 /\ 1 \in 1..(m + 1)
    BY <1>19 DEF IsCut
  <2> QED BY <1>5, <2>1
<1>22. Reading'
  BY <1>20, <1>21 DEF Reading
<1> QED BY <1>18, <1>22

-----------------------------------------------------------------------------
(* The invariant.                                                          *)

\* While codes are looked for: the codes of the dictionaries and widths tried
\* are there, and every node of the way is a codeword of the one tried.
Encoding ==
    /\ DOMAIN encoded = Tried
    /\ Priced /\ DecodedTo(buf, 0)
    /\ s < num_selectors => PathOK(Dict, b)
    /\ s = num_selectors => b = 2 /\ pos = 0

\* Once one is chosen it is read codeword by codeword.
Decoding ==
    /\ Chosen /\ Reading /\ DecodedTo(buf, pos)
    /\ pc = "done" => pos = n

Inv ==
    /\ in \in Inputs /\ dicts \in MultiDictionaries
    /\ pc \in {"encode", "decode", "done"}
    /\ pos \in 0..n /\ s \in 0..num_selectors /\ b \in {1, 2}
    /\ AllCovered
    /\ pc = "encode" => Encoding
    /\ pc # "encode" => Decoding

(***************************************************************************)
(* The codes stand for the block whatever else is done to the state.       *)
(***************************************************************************)
LEMMA CoveredNext ==
    ASSUME in' = in, dicts' = dicts,
           \A k \in DOMAIN encoded' : Covers(dicts[k[1] + 1], k[2], encoded'[k], n)
    PROVE  AllCovered'
<1> SUFFICES ASSUME NEW k \in DOMAIN encoded'
             PROVE  Covers(dicts[k[1] + 1], k[2], encoded[k], n)'
  BY DEF AllCovered
<1> DEFINE d == dicts[k[1] + 1]
           c == encoded[k]
           w == k[2]
<1>1. PICK e, g : e = d /\ g = c'
  OBVIOUS
<1>2. d' = e /\ c' = g /\ in' = in
  BY <1>1
<1>3. g \in Seq(Bytes) /\ \E m \in Nat : \E P, Q : IsCut(e, w, g, m, P, Q, n)
  BY <1>1 DEF Covers
<1>0. PICK m \in Nat : \E P, Q : IsCut(e, w, g, m, P, Q, n)
  BY <1>3
<1>4. PICK P, Q : IsCut(e, w, g, m, P, Q, n)
  BY <1>0
<1> HIDE DEF d, c, w
<1>5. IsCut(d, w, c, m, P, Q, n)'
  <2>1. /\ P \in [1..(m + 1) -> 0..n] /\ Q \in [1..(m + 1) -> 0..Len(g)]
        /\ P[1] = 0 /\ Q[1] = 0 /\ P[m + 1] = n /\ Q[m + 1] = Len(g)
        /\ \A j \in 1..m : Wrote(e, w, g, P[j], P[j + 1], Q[j], Q[j + 1])
    BY <1>4 DEF IsCut
  <2>2. \A i, j, f, t : Wrote(e, w, g, i, j, f, t) => Wrote(d, w, c, i, j, f, t)'
    BY <1>2 DEF Wrote, Leads
  <2>3. \A j \in 1..m : Wrote(d, w, c, P[j], P[j + 1], Q[j], Q[j + 1])'
    BY <2>1, <2>2
  <2> QED BY <1>2, <2>1, <2>3 DEF IsCut
<1>6. Covers(d, w, c, n)'
  BY <1>2, <1>3, <1>5 DEF Covers
<1> QED BY <1>6 DEF d, c, w

(***************************************************************************)
(* What is read does not change while the code and the place in it do not. *)
(***************************************************************************)
LEMMA DecodingKept ==
    ASSUME UNCHANGED <<in, dicts, encoded, out, ptr, pos, buf>>, Chosen, Reading, DecodedTo(buf, pos)
    PROVE  Chosen' /\ Reading' /\ DecodedTo(buf, pos)'
<1> DEFINE c == Tail(out)
<1>1. UNCHANGED <<in, Selected, Width, num_selectors, c>>
  BY DEF Selected, Width, num_selectors
<1>2. Chosen'
  BY <1>1 DEF Chosen
<1>3. DecodedTo(buf, pos)'
  BY <1>1 DEF DecodedTo
<1>0. PICK m \in Nat : \E P, Q :
        /\ IsCut(Selected, Width, c, m, P, Q, n)
        /\ \E k \in 1..(m + 1) : pos = P[k] /\ ptr = Q[k] + 1
  BY DEF Reading
<1>4. PICK P, Q :
        /\ IsCut(Selected, Width, c, m, P, Q, n)
        /\ \E k \in 1..(m + 1) : pos = P[k] /\ ptr = Q[k] + 1
  BY <1>0
<1> HIDE DEF c
<1>5. IsCut(Selected, Width, c, m, P, Q, n)'
  BY <1>1, <1>4 DEF IsCut, Wrote, Leads
<1>6. IsCut(Selected, Width, Tail(out), m, P, Q, n)'
  BY <1>5 DEF c
<1>7. \E k \in 1..(m + 1) : pos' = P[k] /\ ptr' = Q[k] + 1
  BY <1>4
<1>8. Reading'
  BY <1>6, <1>7 DEF Reading
<1> QED BY <1>2, <1>3, <1>8

(***************************************************************************)
(* The codes of the dictionaries and widths tried, with one more.          *)
(***************************************************************************)
LEMMA TriedNext ==
    ASSUME num_selectors \in Nat, s \in Nat, s < num_selectors, b \in {1, 2},
           num_selectors' = num_selectors,
           IF b = 2 THEN b' = 1 /\ s' = s ELSE b' = 2 /\ s' = s + 1
    PROVE  Tried' = Tried \cup {<<s, b>>}
<1>1. ASSUME NEW t \in 0..(num_selectors - 1), NEW v \in {1, 2}
      PROVE  (t < s' \/ (t = s' /\ b' = 1 /\ v = 2))
                <=> (t < s \/ (t = s /\ b = 1 /\ v = 2)) \/ (t = s /\ v = b)
  <2>1. CASE b = 2
    BY <2>1
  <2>2. CASE b = 1
    BY <2>2
  <2> QED BY <2>1, <2>2
<1>2. <<s, b>> \in (0..(num_selectors - 1)) \X {1, 2}
  OBVIOUS
<1>3. ASSUME NEW k \in (0..(num_selectors - 1)) \X {1, 2}
      PROVE  k \in Tried' <=> k \in Tried \/ k = <<s, b>>
  <2>1. PICK t \in 0..(num_selectors - 1), v \in {1, 2} : k = <<t, v>>
    OBVIOUS
  <2>2. k \in Tried' <=> t < s' \/ (t = s' /\ b' = 1 /\ v = 2)
    BY <2>1 DEF Tried
  <2>3. k \in Tried <=> t < s \/ (t = s /\ b = 1 /\ v = 2)
    BY <2>1 DEF Tried
  <2>4. k = <<s, b>> <=> t = s /\ v = b
    BY <2>1
  <2> QED BY <1>1, <2>2, <2>3, <2>4
<1>4. Tried' \subseteq (0..(num_selectors - 1)) \X {1, 2} /\ Tried \subseteq (0..(num_selectors - 1)) \X {1, 2}
  BY DEF Tried
<1> QED BY <1>2, <1>3, <1>4

(***************************************************************************)
(* It holds before the first iteration.                                    *)
(***************************************************************************)
LEMMA InvInit ==
    ASSUME Assumed, Init
    PROVE  Inv
<1>1. in \in Inputs /\ dicts \in MultiDictionaries
  BY DEF Init
<1>2. /\ SizesAssumption /\ TargetSizesAssumption /\ n \in Nat \ {0}
      /\ num_selectors \in Nat \ {0}
  BY <1>1, InputFacts
<1>3. pc = "encode" /\ s = 0 /\ b = 2 /\ pos = 0 /\ encoded = <<>> /\ path = InitialPath
      /\ buf = [p \in 1..(n + Overflow) |-> 0]
  BY DEF Init
<1>4. DOMAIN encoded = {} /\ Tried = {}
  BY <1>3 DEF Tried
<1>5. ASSUME NEW j \in 1..n
      PROVE  /\ path[j].parent \in 0..(j - 1) /\ path[j].cost \in Nat
             /\ \A d : Leads(d, 2, path[j].codeword, path[j].parent, j)
  BY <1>2, <1>3, InitialPathOK
<1>6. path[0].cost \in Nat
  BY <1>2, <1>3 DEF InitialPath
<1>7. Priced
  <2>1. \A j \in 0..n : j = 0 \/ j \in 1..n
    BY <1>2
  <2> QED BY <1>5, <1>6, <2>1 DEF Priced
<1>8. PathOK(Dict, b)
  BY <1>3, <1>5 DEF PathOK
<1>9. DecodedTo(buf, 0)
  BY <1>2, <1>3, MaxEntrySizeAssumption DEF DecodedTo, SizesAssumption
<1>10. AllCovered
  BY <1>4 DEF AllCovered
<1>11. Encoding
  BY <1>2, <1>3, <1>4, <1>7, <1>8, <1>9 DEF Encoding
<1> QED BY <1>1, <1>2, <1>3, <1>10, <1>11 DEF Inv

(***************************************************************************)
(* The end of the encoding with one dictionary and width: its code is one  *)
(* more of those that stand for the block.                                 *)
(***************************************************************************)
LEMMA EncodeEndKeeps ==
    ASSUME Assumed, Inv, EncodeEnd
    PROVE  Inv'
<1>1. /\ pc = "encode" /\ s < num_selectors /\ pos = n /\ pos' = 0 /\ path' = InitialPath
      /\ UNCHANGED <<in, dicts, pc, buf>>
      /\ IF b = 2 THEN b' = 1 /\ s' = s ELSE b' = 2 /\ s' = s + 1
      /\ encoded' = [k \in DOMAIN encoded \cup {<<s, b>>} |-> IF k = <<s, b>> THEN Code ELSE encoded[k]]
  BY DEF EncodeEnd
<1>2. /\ in \in Inputs /\ dicts \in MultiDictionaries
      /\ pos \in 0..n /\ s \in 0..num_selectors /\ b \in {1, 2}
      /\ AllCovered /\ DOMAIN encoded = Tried /\ Priced /\ DecodedTo(buf, 0) /\ PathOK(Dict, b)
  BY <1>1 DEF Inv, Encoding
<1>3. /\ SizesAssumption /\ n \in Nat \ {0} /\ in \in [1..n -> Nat] /\ num_selectors \in Nat \ {0}
  BY <1>2, InputFacts
<1>4. num_selectors' = num_selectors
  BY <1>1 DEF num_selectors
<1>5. Covers(Dict, b, Code, n)
  <2>1. PICK d : d = Dict
    OBVIOUS
  <2>2. Covers(d, b, Code, n)
    BY <1>2, <1>3, <2>1, CodeCovers
  <2> QED BY <2>1, <2>2
<1>6. DOMAIN encoded' = DOMAIN encoded \cup {<<s, b>>}
  BY <1>1
<1>7. ASSUME NEW k \in DOMAIN encoded'
      PROVE  Covers(dicts[k[1] + 1], k[2], encoded'[k], n)
  <2>1. CASE k = <<s, b>>
    <3>1. encoded'[k] = Code /\ dicts[k[1] + 1] = Dict /\ k[2] = b
      BY <1>1, <2>1 DEF Dict
    <3> QED BY <1>5, <3>1
  <2>2. CASE k # <<s, b>>
    <3>1. k \in DOMAIN encoded /\ encoded'[k] = encoded[k]
      BY <1>1, <1>6, <2>2
    <3> QED BY <1>2, <3>1 DEF AllCovered
  <2> QED BY <2>1, <2>2
<1>8. AllCovered'
  BY <1>1, <1>7, CoveredNext
<1>9. Tried' = Tried \cup {<<s, b>>}
  BY <1>1, <1>2, <1>3, <1>4, TriedNext
<1>10. (DOMAIN encoded)' = Tried'
  BY <1>2, <1>6, <1>9
<1>11. b' \in {1, 2} /\ s' \in 0..num_selectors /\ (s' = num_selectors => b' = 2)
  BY <1>1, <1>2, <1>3
<1>12. ASSUME NEW d, NEW j \in 1..n
       PROVE  /\ InitialPath[j].parent \in 0..(j - 1) /\ InitialPath[j].cost \in Nat
              /\ \A w \in {1, 2} : Leads(d, w, InitialPath[j].codeword, InitialPath[j].parent, j)
  BY <1>3, InitialPathOK
<1>13. Priced'
  <2>1. \A j \in 0..n : j = 0 \/ j \in 1..n
    BY <1>3
  <2>2. InitialPath[0].cost \in Nat
    BY <1>3 DEF InitialPath
  <2> QED BY <1>1, <1>12, <2>1, <2>2 DEF Priced
<1>14. PathOK(Dict, b)'
  <2>1. PICK d, w : d = Dict' /\ w = b'
    OBVIOUS
  <2>2. w \in {1, 2}
    BY <1>11, <2>1
  <2>3. \A j \in 1..n : InitialPath[j].parent \in 0..(j - 1)
                        /\ Leads(d, w, InitialPath[j].codeword, InitialPath[j].parent, j)
    BY <1>12, <2>2
  <2> QED BY <1>1, <2>1, <2>3 DEF PathOK, Leads
<1>15. DecodedTo(buf, 0)'
  BY <1>1, <1>2 DEF DecodedTo
<1>16. Encoding'
  BY <1>1, <1>4, <1>10, <1>11, <1>13, <1>14, <1>15 DEF Encoding
<1>17. pos' \in 0..n
  BY <1>1, <1>3
<1> QED BY <1>1, <1>2, <1>4, <1>8, <1>11, <1>16, <1>17 DEF Inv

(***************************************************************************)
(* Every step keeps the invariant.                                         *)
(***************************************************************************)
LEMMA InvStep ==
    ASSUME Assumed, Inv, [Next]_vars
    PROVE  Inv'
<1>1. /\ in \in Inputs /\ dicts \in MultiDictionaries
      /\ pc \in {"encode", "decode", "done"}
      /\ pos \in 0..n /\ s \in 0..num_selectors /\ b \in {1, 2} /\ AllCovered
  BY DEF Inv
<1>2. /\ SizesAssumption /\ TargetSizesAssumption /\ n \in Nat \ {0}
      /\ in \in [1..n -> 0..(NoLimit - 1)] /\ in \in [1..n -> Nat]
      /\ num_selectors \in Nat \ {0}
      /\ \A t \in 0..(num_selectors - 1) : Usable(dicts[t + 1])
  BY <1>1, InputFacts
<1>3. ASSUME UNCHANGED <<in, dicts, encoded>> PROVE AllCovered' /\ num_selectors' = num_selectors
  <2>1. \A k \in DOMAIN encoded' : Covers(dicts[k[1] + 1], k[2], encoded'[k], n)
    BY <1>1, <1>3 DEF AllCovered
  <2>2. AllCovered'
    BY <1>3, <2>1, CoveredNext
  <2> QED BY <1>3, <2>2 DEF num_selectors
<1>4. CASE RelaxStep
  <2>1. /\ pc = "encode" /\ s < num_selectors /\ pos < n /\ pos' = pos + 1
        /\ UNCHANGED <<in, dicts, pc, s, b, encoded, out, ptr, buf>>
    BY <1>4 DEF RelaxStep
  <2>2. DOMAIN encoded = Tried /\ Priced /\ DecodedTo(buf, 0) /\ PathOK(Dict, b)
    BY <2>1 DEF Inv, Encoding
  <2>3. Usable(Dict)
    BY <1>1, <1>2, <2>1 DEF Dict
  <2>4. PathOK(Dict, b)' /\ Priced'
    BY <1>1, <1>2, <1>4, <2>2, <2>3, RelaxKeepsPath
  <2>5. AllCovered' /\ num_selectors' = num_selectors
    BY <1>3, <2>1
  <2>6. (DOMAIN encoded)' = Tried'
    BY <2>1, <2>2, <2>5 DEF Tried
  <2>7. DecodedTo(buf, 0)'
    BY <2>1, <2>2 DEF DecodedTo
  <2>8. s' # num_selectors'
    BY <1>1, <1>2, <2>1, <2>5
  <2>9. Encoding'
    BY <2>4, <2>6, <2>7, <2>8 DEF Encoding
  <2>10. pos' \in 0..n
    BY <1>1, <1>2, <2>1
  <2> QED BY <1>1, <2>1, <2>5, <2>9, <2>10 DEF Inv
<1>5. CASE EncodeEnd
  BY <1>5, EncodeEndKeeps
<1>6. CASE WriteBest
  <2>1. /\ pc = "encode" /\ s = num_selectors /\ pc' = "decode"
        /\ UNCHANGED <<in, dicts, s, b, encoded, pos, buf>>
    BY <1>6 DEF WriteBest
  <2>2. DOMAIN encoded = Tried /\ DecodedTo(buf, 0) /\ b = 2 /\ pos = 0
    BY <2>1 DEF Inv, Encoding
  <2>3. DOMAIN encoded = (0..(num_selectors - 1)) \X {1, 2}
    <3>1. \A k \in (0..(num_selectors - 1)) \X {1, 2} : k[1] < s
      BY <1>2, <2>1
    <3> QED BY <2>2, <3>1 DEF Tried
  <2>4. Chosen' /\ Reading'
    BY <1>1, <1>6, <2>2, <2>3, WriteBestChooses
  <2>5. DecodedTo(buf, pos)'
    BY <2>1, <2>2 DEF DecodedTo
  <2>6. AllCovered' /\ num_selectors' = num_selectors
    BY <1>3, <2>1
  <2>7. Decoding'
    BY <2>1, <2>4, <2>5 DEF Decoding
  <2> QED BY <1>1, <2>1, <2>6, <2>7 DEF Inv
<1>7. CASE DecodeStep
  <2>1. pc = "decode" /\ UNCHANGED <<in, dicts, pc, s, b, encoded, out>>
    BY <1>7 DEF DecodeStep
  <2>2. Chosen /\ Reading /\ DecodedTo(buf, pos)
    BY <2>1 DEF Inv, Decoding
  <2>3. out \in Seq(Nat) /\ out # <<>> /\ out[1] < 2 * num_selectors
    BY <2>2 DEF Chosen
  <2>4. Width \in {1, 2}
    BY DEF Width
  <2>5. Usable(Selected)
    <3>1. out[1] \in Nat
      BY <2>3
    <3>2. out[1] % num_selectors \in 0..(num_selectors - 1)
      BY <1>2, <3>1
    <3> QED BY <1>2, <3>2 DEF Selected
  <2>6. Reading' /\ DecodedTo(buf', pos') /\ pos' \in 0..n
    BY <1>2, <1>7, <2>2, <2>3, <2>4, <2>5, DecodeReads
  <2>7. DecodedTo(buf, pos)'
    BY <2>1, <2>6 DEF DecodedTo
  <2>8. AllCovered' /\ num_selectors' = num_selectors
    BY <1>3, <2>1
  <2>9. Chosen'
    <3>1. Width' = Width
      BY <2>1, <2>8 DEF Width
    <3> QED BY <2>1, <2>2, <2>8, <3>1 DEF Chosen
  <2>10. Decoding'
    BY <2>1, <2>6, <2>7, <2>9 DEF Decoding
  <2> QED BY <1>1, <2>1, <2>6, <2>8, <2>10 DEF Inv
<1>8. CASE DecodeEnd
  <2>1. /\ pc = "decode" /\ pos = n /\ pc' = "done"
        /\ UNCHANGED <<in, dicts, s, b, encoded, out, ptr, pos, buf>>
    BY <1>8 DEF DecodeEnd
  <2>2. Chosen /\ Reading /\ DecodedTo(buf, pos)
    BY <2>1 DEF Inv, Decoding
  <2>3. Chosen' /\ Reading' /\ DecodedTo(buf, pos)'
    BY <2>1, <2>2, DecodingKept
  <2>4. AllCovered' /\ num_selectors' = num_selectors
    BY <1>3, <2>1
  <2>5. Decoding'
    BY <2>1, <2>3 DEF Decoding
  <2> QED BY <1>1, <2>1, <2>4, <2>5 DEF Inv
<1>9. CASE UNCHANGED vars
  <2>1. UNCHANGED <<in, dicts, pc, s, b, path, encoded, out, ptr, pos, buf>>
    BY <1>9 DEF vars
  <2>2. AllCovered' /\ num_selectors' = num_selectors
    BY <1>3, <2>1
  <2>3. pc = "encode" => Encoding'
    <3> SUFFICES ASSUME pc = "encode" PROVE Encoding'
      OBVIOUS
    <3>1. Encoding
      BY DEF Inv
    <3>2. Dict' = Dict /\ Tried' = Tried
      BY <2>1, <2>2 DEF Dict, Tried
    <3>3. DecodedTo(buf, 0)' /\ Priced'
      BY <2>1, <3>1 DEF Encoding, DecodedTo, Priced
    <3>4. s < num_selectors => PathOK(Dict, b)'
      BY <2>1, <3>1, <3>2 DEF Encoding, PathOK, Leads
    <3> QED BY <2>1, <2>2, <3>1, <3>2, <3>3, <3>4 DEF Encoding
  <2>4. pc # "encode" => Decoding'
    <3> SUFFICES ASSUME pc # "encode" PROVE Decoding'
      OBVIOUS
    <3>1. Decoding
      BY DEF Inv
    <3>2. Chosen' /\ Reading' /\ DecodedTo(buf, pos)'
      BY <2>1, <3>1, DecodingKept DEF Decoding
    <3> QED BY <2>1, <3>1, <3>2 DEF Decoding
  <2> QED BY <1>1, <2>1, <2>2, <2>3, <2>4 DEF Inv
<1> QED BY <1>4, <1>5, <1>6, <1>7, <1>8, <1>9 DEF Next, Step, Terminated

LEMMA Invariance ==
    ASSUME Assumed
    PROVE  Spec => []Inv
<1>1. Init => Inv
  BY InvInit
<1>2. Inv /\ [Next]_vars => Inv'
  BY InvStep
<1> QED BY <1>1, <1>2, PTL DEF Spec

-----------------------------------------------------------------------------
(* The wide code is the shortest.                                          *)

\* The targets of a dictionary have the sizes that are looked for.
Sized(d) ==
    \A t \in 1..Len(d.targets) : \E q \in 1..Len(TargetSizes) : Len(d.targets[t]) = TargetSizes[q]

\* A codeword of the map stands for the integers from position i on.
Serves(d, width, i, x) ==
    /\ x \in EXCEPTIONS..(DictSize(d) - 1)
    /\ IsRun(x) \/ x < MapSize(d, width)
    /\ i + EntrySize(d, x) <= n
    /\ SubSeq(in, i + 1, i + EntrySize(d, x)) = Entry(d, x)

ExceptionCost(i) == IF in[i + 1] < LargeLimit THEN 2 ELSE 3

\* What is found for the next integer alone.
SingleCode(d, width, i) == LookupIn(d, SubSeq(in, i + 1, i + 1), width)

(***************************************************************************)
(* No run is longer than the first.                                        *)
(***************************************************************************)
LEMMA FirstRunIsLongest == \A r \in 1..Len(Runs) : Runs[r] <= Runs[1]
<1> DEFINE k == Len(Runs)
           S == {r \in 1..k : Runs[r] > Runs[1]}
<1>1. k \in Nat \ {0} /\ \A r \in 1..k : Runs[r] \in Nat
  BY RunsAssumption
<1>2. \A r \in 2..k : Runs[r] < Runs[r - 1]
  BY RunsAssumption
<1>3. ASSUME S # {} PROVE FALSE
  <2>1. S \subseteq Nat
    OBVIOUS
  <2>2. PICK r \in S : \A q \in S : r <= q
    <3> HIDE DEF S
    <3> QED BY <1>3, <2>1, LeastNat
  <2> HIDE DEF k
  <2>3. r \in 2..k /\ r - 1 \in 1..k /\ r - 1 < r
    BY <1>1
  <2>4. r - 1 \notin S
    BY <2>2, <2>3
  <2>5. Runs[r - 1] <= Runs[1]
    BY <1>1, <2>3, <2>4
  <2> QED BY <1>1, <1>2, <2>3, <2>5
<1> QED BY <1>1, <1>3

(***************************************************************************)
(* The run found at a position is the longest one that is there.           *)
(***************************************************************************)
LEMMA RunIsLongest ==
    ASSUME SizesAssumption, in \in [1..n -> Nat], NEW i \in 0..n, NEW m \in Nat,
           m <= Runs[1], i + m <= n, \A j \in 1..m : in[i + j] = 0
    PROVE  m <= RunLen(i)
<1> DEFINE limit == Lesser(Runs[1], n - i)
           z == RunLen(i)
<1>1. n \in Nat /\ i \in Nat /\ i <= n /\ Runs[1] \in Nat
  BY RunsAssumption DEF n, SizesAssumption
<1>2. limit \in Nat /\ m <= limit
  BY <1>1 DEF Lesser
<1>3. z \in Nat /\ (z = limit \/ in[i + z + 1] # 0)
  BY RunFacts
<1> HIDE DEF z, limit
<1>4. ASSUME z < m PROVE FALSE
  <2>1. z # limit /\ z + 1 \in 1..m /\ i + z + 1 = i + (z + 1)
    BY <1>1, <1>2, <1>3, <1>4
  <2> QED BY <1>3, <2>1
<1>5. m <= z
  BY <1>3, <1>4
<1> QED BY <1>5 DEF z

(***************************************************************************)
(* A sequence for which the map has a codeword is found.                   *)
(***************************************************************************)
LEMMA LookupFinds ==
    ASSUME NEW d, Usable(d), NEW width \in {1, 2}, NEW x \in EXCEPTIONS..(DictSize(d) - 1),
           IsRun(x) \/ x < MapSize(d, width)
    PROVE  LookupIn(d, Entry(d, x), width) # invalid_index
<1> DEFINE top == DictSize(d) - 1
           e == Entry(d, x)
           hits == {i \in EXCEPTIONS..top : (IsRun(i) \/ i < MapSize(d, width)) /\ Entry(d, i) = e}
<1>1. x \in hits
  OBVIOUS
<1>2. LookupIn(d, e, width) = CHOOSE i \in hits : \A j \in hits : j <= i
  <2>1. LookupIn(d, e, width) = IF hits = {} THEN invalid_index ELSE CHOOSE i \in hits : \A j \in hits : j <= i
    BY DEF LookupIn
  <2> QED BY <1>1, <2>1
<1>3. top \in Nat
  <2> DEFINE l == Len(d.targets)
  <2>1. Len(Runs) \in Nat /\ l \in Nat
    BY RunsAssumption DEF Usable, IsDictionary
  <2>2. DictSize(d) = 2 + Len(Runs) + l
    BY <2>1 DEF DictSize, reserved, EXCEPTIONS
  <2> HIDE DEF l
  <2> QED BY <2>1, <2>2
<1> HIDE DEF top
<1>4. hits \subseteq Nat /\ \A j \in hits : j <= top
  BY <1>3 DEF EXCEPTIONS
<1> HIDE DEF hits
<1>5. \E j \in hits : \A m \in hits : m <= j
  BY <1>1, <1>3, <1>4, GreatestNat
<1>6. LookupIn(d, e, width) \in Nat
  BY <1>2, <1>4, <1>5
<1> QED BY <1>6 DEF invalid_index

(***************************************************************************)
(* The integers at a position, as a sequence.                              *)
(***************************************************************************)
LEMMA Ahead ==
    ASSUME n \in Nat, in \in [1..n -> Nat], NEW i \in Nat, NEW k \in Nat \ {0}, i + k <= n
    PROVE  \A p \in 1..k : SubSeq(in, i + 1, i + k)[p] = in[i + p]
<1> DEFINE a == i + 1
           z == i + k
<1>1. a \in Int /\ z \in Int /\ \A j \in a..z : j \in 1..n /\ in[j] \in Nat
  OBVIOUS
<1>2. z - a + 1 = k /\ \A p \in 1..k : a + p - 1 = i + p
  OBVIOUS
<1> HIDE DEF a, z
<1>3. \A p \in 1..(z - a + 1) : SubSeq(in, a, z)[p] = in[a + p - 1]
  BY <1>1, SubSeqProperties
<1>4. \A p \in 1..k : SubSeq(in, a, z)[p] = in[i + p]
  BY <1>2, <1>3
<1> QED BY <1>4 DEF a, z

(***************************************************************************)
(* Every codeword of the map that stands for what follows is offered, or   *)
(* one that stands for the same integers.                                  *)
(***************************************************************************)
LEMMA ServesIsOffered ==
    ASSUME SizesAssumption, TargetSizesAssumption, NEW d, Usable(d), Sized(d), in \in [1..n -> Nat],
           NEW i \in 0..n, i < n, NEW width \in {1, 2}, NEW x, Serves(d, width, i, x)
    PROVE  \E o \in Offers(d, width, i) : o.len = EntrySize(d, x) /\ o.cost = 1
<1> DEFINE k == EntrySize(d, x)
           e == Entry(d, x)
<1>1. n \in Nat /\ i \in Nat /\ IsDictionary(d)
  BY DEF n, SizesAssumption, Usable
<1>2. x \in EXCEPTIONS..(DictSize(d) - 1) /\ i + k <= n /\ e = SubSeq(in, i + 1, i + k)
      /\ (IsRun(x) \/ x < MapSize(d, width))
  BY DEF Serves
<1>3. k \in Nat \ {0} /\ (IsRun(x) => \A p \in 1..k : e[p] = 0)
  BY <1>1, <1>2, EntryFacts
<1>4. CASE IsRun(x)
  <2> DEFINE r == x - EXCEPTIONS + 1
  <2>1. r \in 1..Len(Runs) /\ k = Runs[r]
    <3>1. Len(Runs) \in Nat
      BY RunsAssumption
    <3> QED BY <1>4, <3>1 DEF IsRun, EntrySize, reserved, EXCEPTIONS
  <2>2. \A p \in 1..k : e[p] = in[i + p]
    <3> HIDE DEF k, e
    <3>1. \A p \in 1..k : SubSeq(in, i + 1, i + k)[p] = in[i + p]
      BY <1>1, <1>2, <1>3, Ahead
    <3> QED BY <1>2, <3>1
  <2>3. \A p \in 1..k : in[i + p] = 0
    BY <1>3, <1>4, <2>2
  <2>4. k <= Runs[1]
    BY <2>1, FirstRunIsLongest
  <2>5. k <= RunLen(i)
    <3> HIDE DEF k
    <3> QED BY <1>1, <1>2, <1>3, <2>3, <2>4, RunIsLongest
  <2>6. r \in DOMAIN Runs
    BY <2>1, RunsAssumption
  <2> HIDE DEF k, r
  <2> DEFINE o == [len |-> Runs[r], codeword |-> EXCEPTIONS + r - 1, cost |-> 1]
  <2>7. o \in Offers(d, width, i)
    BY <2>1, <2>5, <2>6 DEF Offers
  <2>8. o.len = k /\ o.cost = 1
    BY <2>1
  <2> QED BY <2>7, <2>8 DEF k
<1>5. CASE ~IsRun(x)
  <2>1. x - reserved + 1 \in 1..Len(d.targets)
    BY <1>1, <1>2, <1>5, TargetIndex
  <2>2. PICK t \in 1..Len(TargetSizes) : k = TargetSizes[t]
    BY <1>5, <2>1 DEF Sized, EntrySize, Target
  <2>3. Lesser(TargetSizes[t], n - i) = k
    <3> HIDE DEF k
    <3>1. k <= n - i /\ k \in Nat /\ n - i \in Int
      BY <1>1, <1>2, <1>3
    <3> QED BY <2>2, <3>1 DEF Lesser
  <2>4. LookupIn(d, e, width) # invalid_index
    BY <1>2, LookupFinds
  <2> DEFINE code == LookupIn(d, SubSeq(in, i + 1, i + Lesser(TargetSizes[t], n - i)), width)
             o == [len |-> Lesser(TargetSizes[t], n - i), codeword |-> code, cost |-> 1]
  <2>5. code # invalid_index
    BY <1>2, <2>3, <2>4
  <2>6. t \in DOMAIN TargetSizes
    BY <2>2 DEF TargetSizesAssumption
  <2>7. o \in Offers(d, width, i)
    BY <2>5, <2>6 DEF Offers
  <2>8. o.len = k /\ o.cost = 1
    BY <2>3
  <2> QED BY <2>7, <2>8
<1> QED BY <1>4, <1>5

(***************************************************************************)
(* An exception is offered exactly if the next integer alone has no        *)
(* codeword; every other offer costs one word.                             *)
(***************************************************************************)
LEMMA OfferKinds ==
    ASSUME SizesAssumption, TargetSizesAssumption, NEW d, Usable(d), in \in [1..n -> Nat],
           NEW i \in 0..n, i < n, NEW width \in {1, 2}
    PROVE  /\ \A o \in Offers(d, width, i) :
                \/ o.cost = 1 /\ (o.len = 1 => SingleCode(d, width, i) # invalid_index)
                \/ o.len = 1 /\ o.cost = ExceptionCost(i) /\ SingleCode(d, width, i) = invalid_index
           /\ \E o \in Offers(d, width, i) : o.len = 1
<1> DEFINE code(t) == LookupIn(d, SubSeq(in, i + 1, i + Lesser(TargetSizes[t], n - i)), width)
           RunOffers == {[len |-> Runs[r], codeword |-> EXCEPTIONS + r - 1, cost |-> 1] :
                            r \in {q \in DOMAIN Runs : Runs[q] <= RunLen(i)}}
           TargetOffers == {[len |-> Lesser(TargetSizes[t], n - i), codeword |-> code(t), cost |-> 1] :
                               t \in {q \in DOMAIN TargetSizes : code(q) # invalid_index}}
           Exceptions == IF code(Len(TargetSizes)) # invalid_index THEN {}
                         ELSE IF in[i + 1] < LargeLimit THEN {[len |-> 1, codeword |-> 0, cost |-> 2]}
                         ELSE {[len |-> 1, codeword |-> 1, cost |-> 3]}
           last == Len(TargetSizes)
           single == SingleCode(d, width, i)
<1>1. n \in Nat /\ i \in Nat /\ IsDictionary(d)
  BY DEF n, SizesAssumption, Usable
<1>2. last \in DOMAIN TargetSizes /\ TargetSizes[last] = 1
  BY DEF TargetSizesAssumption
<1>3. \A t \in DOMAIN TargetSizes : Lesser(TargetSizes[t], n - i) = 1 => code(t) = single
  BY DEF SingleCode
<1>4. Lesser(1, n - i) = 1
  BY <1>1 DEF Lesser
<1>5. code(last) = single /\ Lesser(TargetSizes[last], n - i) = 1
  BY <1>2, <1>3, <1>4
<1>6. Offers(d, width, i) = RunOffers \cup TargetOffers \cup Exceptions
  BY DEF Offers
<1>7. ASSUME NEW o \in RunOffers
      PROVE  o.cost = 1 /\ (o.len = 1 => single # invalid_index)
  <2>1. PICK r \in DOMAIN Runs :
            Runs[r] <= RunLen(i) /\ o = [len |-> Runs[r], codeword |-> EXCEPTIONS + r - 1, cost |-> 1]
    BY <1>7
  <2>2. o.cost = 1 /\ o.len = Runs[r]
    BY <2>1
  <2>3. ASSUME Runs[r] = 1 PROVE single # invalid_index
    <3> DEFINE x == EXCEPTIONS + r - 1
               u == <<in[i + 1]>>
    <3>1. r \in 1..Len(Runs) /\ Len(Runs) \in Nat /\ Len(d.targets) \in Nat
      BY <1>1, RunsAssumption DEF IsDictionary
    <3>2. x \in EXCEPTIONS..(DictSize(d) - 1) /\ IsRun(x) /\ x - EXCEPTIONS + 1 = r
      <4> DEFINE k == Len(d.targets)
      <4>1. k \in Nat /\ DictSize(d) = 2 + Len(Runs) + k
        BY <3>1 DEF DictSize, reserved, EXCEPTIONS
      <4> HIDE DEF k
      <4> QED BY <3>1, <4>1 DEF IsRun, reserved, EXCEPTIONS
    <3>3. Entry(d, x) = [p \in 1..1 |-> 0]
      BY <2>3, <3>2 DEF Entry, EntrySize, Zeros
    <3>4. in[i + 1] = 0
      <4>1. RunLen(i) \in Nat /\ \A j \in 1..RunLen(i) : in[i + j] = 0
        BY RunFacts
      <4>2. 1 \in 1..RunLen(i)
        BY <2>1, <2>3, <4>1
      <4> QED BY <4>1, <4>2
    <3>5. SubSeq(in, i + 1, i + 1) = [p \in 1..1 |-> 0]
      <4> DEFINE a == i + 1
                 t == SubSeq(in, a, a)
      <4>1. a \in Int /\ a \in 1..n /\ \A j \in a..a : in[j] \in Nat
        BY <1>1
      <4>2. in[a] = 0
        BY <3>4
      <4> HIDE DEF a
      <4>3. a - a + 1 = 1 /\ a + 1 - 1 = a /\ a <= a
        BY <4>1
      <4>4. /\ t \in Seq(Nat) /\ Len(t) = 1
            /\ \A p \in 1..(a - a + 1) : t[p] = in[a + p - 1]
        BY <4>1, <4>3, SubSeqProperties
      <4> HIDE DEF t
      <4>5. t[1] = 0
        BY <4>2, <4>3, <4>4
      <4>6. t = [p \in 1..1 |-> 0]
        BY <4>4, <4>5
      <4> QED BY <4>6 DEF t, a
    <3> HIDE DEF x
    <3>6. LookupIn(d, Entry(d, x), width) # invalid_index
      BY <3>2, LookupFinds
    <3> QED BY <3>3, <3>5, <3>6 DEF SingleCode
  <2> QED BY <2>2, <2>3
<1>8. ASSUME NEW o \in TargetOffers
      PROVE  o.cost = 1 /\ (o.len = 1 => single # invalid_index)
  <2>1. PICK t \in DOMAIN TargetSizes :
            /\ code(t) # invalid_index
            /\ o.len = Lesser(TargetSizes[t], n - i) /\ o.cost = 1
    BY <1>8
  <2> HIDE DEF code, single
  <2> QED BY <1>3, <2>1
<1>9. ASSUME NEW o \in Exceptions
      PROVE  o.len = 1 /\ o.cost = ExceptionCost(i) /\ single = invalid_index
  <2> HIDE DEF code, single
  <2> QED BY <1>5, <1>9 DEF ExceptionCost
<1>10. \E o \in Offers(d, width, i) : o.len = 1
  <2> HIDE DEF code, single
  <2>1. CASE single = invalid_index
    <3>1. \E o \in Exceptions : o.len = 1
      BY <1>5, <2>1
    <3> QED BY <1>6, <3>1
  <2>2. CASE single # invalid_index
    <3> DEFINE o == [len |-> Lesser(TargetSizes[last], n - i), codeword |-> code(last), cost |-> 1]
    <3>1. o \in TargetOffers
      BY <1>2, <1>5, <2>2
    <3>2. o.len = 1
      BY <1>5
    <3> QED BY <1>6, <3>1, <3>2
  <2> QED BY <2>1, <2>2
<1> HIDE DEF RunOffers, TargetOffers, Exceptions
<1>11. \A o \in Offers(d, width, i) : o \in RunOffers \/ o \in TargetOffers \/ o \in Exceptions
  BY <1>6
<1> QED BY <1>7, <1>8, <1>9, <1>10, <1>11

\* A node continues the way to an earlier position, or nobody has come to it.
Continues(j, p) ==
    \/ path[j].parent < p /\ path[j].cost = path[path[j].parent].cost + Cost(path[j].codeword)
    \/ j > p /\ path[j] = InitialPath[j]

\* No way that goes on from position i is cheaper than the node it leads to.
Taken(i) ==
    /\ \A x : Serves(Dict, b, i, x) => path[i + EntrySize(Dict, x)].cost <= path[i].cost + 1
    /\ path[i + 1].cost <= path[i].cost + ExceptionCost(i)

\* The positions before p were passed.
PathShort(p) ==
    /\ path[0].cost = 0
    /\ \A j \in 0..n : path[j].cost <= 3 * j
    /\ \A j \in 1..n : Continues(j, p)
    /\ \A i \in 0..n : i < p => Taken(i)

(***************************************************************************)
(* Before the first iteration nobody has come to any node.                 *)
(***************************************************************************)
LEMMA InitialNodes ==
    ASSUME n \in Nat
    PROVE  /\ InitialPath[0].cost = 0
           /\ \A j \in 0..n : InitialPath[j].cost = 3 * j
BY DEF InitialPath

(***************************************************************************)
(* An iteration does not change the nodes up to its position, those it     *)
(* does change continue the way to its position, and no node becomes       *)
(* dearer, or is left dearer than an offer.                                *)
(***************************************************************************)
LEMMA RelaxAhead ==
    ASSUME SizesAssumption, TargetSizesAssumption, Usable(Dict), in \in [1..n -> Nat],
           pos \in 0..n, b \in {1, 2}, Priced, RelaxStep, NEW j \in 0..n
    PROVE  /\ \/ path'[j] = path[j]
              \/ /\ j > pos /\ path'[j].parent = pos
                 /\ path'[j].cost = path[pos].cost + Cost(path'[j].codeword)
           /\ path'[j].cost \in Nat /\ path[j].cost \in Nat /\ path'[j].cost <= path[j].cost
           /\ \A q \in Offers(Dict, b, pos) : pos + q.len = j => path'[j].cost <= path[pos].cost + q.cost
<1> DEFINE offers == Offers(Dict, b, pos)
           better == Better(offers, pos, j)
           known == path[pos].cost
<1>1. n \in Nat /\ pos \in Nat /\ pos < n /\ path[j].cost \in Nat /\ known \in Nat
  BY DEF n, SizesAssumption, RelaxStep, Priced
<1>2. /\ \/ path'[j] = path[j] /\ better = {}
         \/ \E o \in better : path'[j] = [parent |-> pos, codeword |-> o.codeword, cost |-> known + o.cost]
      /\ path'[j].cost \in Nat
  BY RelaxEffect
<1>3. \A o \in offers : /\ o.len \in Nat \ {0} /\ o.cost = Cost(o.codeword) /\ o.cost \in 1..3
                        /\ \/ o.cost = 1 /\ (o.len = 1 => SingleCode(Dict, b, pos) # invalid_index)
                           \/ o.len = 1 /\ o.cost = ExceptionCost(pos) /\ SingleCode(Dict, b, pos) = invalid_index
  <2> TAKE o \in offers
  <2> HIDE DEF offers
  <2>1. o.len \in Nat \ {0} /\ o.cost = Cost(o.codeword) /\ o.cost \in 1..3
    BY <1>1, OfferLeads DEF offers
  <2>2. \/ o.cost = 1 /\ (o.len = 1 => SingleCode(Dict, b, pos) # invalid_index)
        \/ o.len = 1 /\ o.cost = ExceptionCost(pos) /\ SingleCode(Dict, b, pos) = invalid_index
    BY <1>1, OfferKinds DEF offers
  <2> QED BY <2>1, <2>2
<1>4. \A o \in better : o \in offers /\ pos + o.len = j /\ known + o.cost < path[j].cost
  BY DEF Better
<1>5. \A q \in offers : pos + q.len = j /\ q \notin better => ~(known + q.cost < path[j].cost)
  BY DEF Better
<1> HIDE DEF offers, better, known
<1>6. CASE path'[j] = path[j] /\ better = {}
  <2>1. ASSUME NEW q \in offers, pos + q.len = j PROVE path'[j].cost <= known + q.cost
    <3>1. ~(known + q.cost < path[j].cost) /\ q.cost \in 1..3
      BY <1>3, <1>5, <1>6, <2>1
    <3> QED BY <1>1, <1>6, <3>1
  <2> QED BY <1>1, <1>2, <1>6, <2>1 DEF offers, known
<1>7. ASSUME NEW o \in better,
             path'[j] = [parent |-> pos, codeword |-> o.codeword, cost |-> known + o.cost]
      PROVE  /\ j > pos /\ path'[j].parent = pos
             /\ path'[j].cost = path[pos].cost + Cost(path'[j].codeword)
             /\ path'[j].cost <= path[j].cost
             /\ \A q \in offers : pos + q.len = j => path'[j].cost <= known + q.cost
  <2>1. /\ o \in offers /\ pos + o.len = j /\ known + o.cost < path[j].cost
        /\ path'[j].parent = pos /\ path'[j].codeword = o.codeword /\ path'[j].cost = known + o.cost
    BY <1>4, <1>7
  <2>2. o.len \in Nat \ {0} /\ o.cost = Cost(o.codeword) /\ o.cost \in 1..3
    BY <1>3, <2>1
  <2>3. ASSUME NEW q \in offers, pos + q.len = j PROVE path'[j].cost <= known + q.cost
    <3>1. q.len \in Nat \ {0} /\ q.cost \in 1..3
      BY <1>3
    <3>2. q.len = o.len
      BY <1>1, <2>1, <2>2, <2>3, <3>1
    <3>3. q.cost = o.cost
      BY <1>3, <2>1, <3>2
    <3> QED BY <1>1, <2>1, <2>2, <3>3
  <2>4. j > pos
    BY <1>1, <2>1, <2>2
  <2>5. path'[j].cost <= path[j].cost
    BY <1>1, <2>1, <2>2
  <2>6. path'[j].cost = path[pos].cost + Cost(path'[j].codeword)
    BY <2>1, <2>2 DEF known
  <2> QED BY <2>1, <2>3, <2>4, <2>5, <2>6
<1> QED BY <1>1, <1>2, <1>6, <1>7 DEF offers, known

(***************************************************************************)
(* With every iteration one more position is passed.                       *)
(***************************************************************************)
LEMMA RelaxKeepsShort ==
    ASSUME SizesAssumption, TargetSizesAssumption, Usable(Dict), Sized(Dict), in \in [1..n -> Nat],
           pos \in 0..n, b \in {1, 2}, PathOK(Dict, b), Priced, PathShort(pos), RelaxStep
    PROVE  PathShort(pos)'
<1> DEFINE p == pos
           offers == Offers(Dict, b, p)
<1>1. /\ n \in Nat /\ p \in Nat /\ p < n /\ p \in 0..n /\ p + 1 \in 0..n /\ pos' = p + 1
      /\ in' = in /\ Dict' = Dict /\ b' = b
  BY DEF n, SizesAssumption, RelaxStep, Dict
<1>2. \A j \in 0..n :
        /\ \/ path'[j] = path[j]
           \/ /\ j > p /\ path'[j].parent = p
              /\ path'[j].cost = path[p].cost + Cost(path'[j].codeword)
        /\ path'[j].cost \in Nat /\ path[j].cost \in Nat /\ path'[j].cost <= path[j].cost
        /\ \A q \in offers : p + q.len = j => path'[j].cost <= path[p].cost + q.cost
  BY RelaxAhead
<1>3. \A j \in 0..n : j <= p => path'[j] = path[j]
  BY <1>1, <1>2
<1>4. /\ path[0].cost = 0
      /\ \A j \in 0..n : path[j].cost <= 3 * j
      /\ \A j \in 1..n : Continues(j, p)
      /\ \A i \in 0..n : i < p => Taken(i)
  BY DEF PathShort
<1>5. \A i : ExceptionCost(i) \in {2, 3}
  BY DEF ExceptionCost
<1>6. path'[p] = path[p] /\ path[p].cost \in Nat /\ path[p].cost <= 3 * p
  BY <1>1, <1>2, <1>3, <1>4
<1>7. path'[p + 1].cost <= path[p].cost + ExceptionCost(p)
  <2>1. PICK o \in offers : o.len = 1 /\ (o.cost = 1 \/ o.cost = ExceptionCost(p))
    BY <1>1, OfferKinds
  <2>2. path'[p + 1].cost <= path[p].cost + o.cost
    BY <1>1, <1>2, <2>1
  <2>3. path'[p + 1].cost \in Nat
    BY <1>1, <1>2
  <2> HIDE DEF offers
  <2> QED BY <1>5, <1>6, <2>1, <2>2, <2>3
<1>8. \A j \in 0..n : path'[j].cost <= 3 * j
  <2> TAKE j \in 0..n
  <2>1. path[j].cost \in Nat /\ path'[j].cost \in Nat /\ path'[j].cost <= path[j].cost
        /\ path[j].cost <= 3 * j
    BY <1>2, <1>4
  <2>2. 3 * j \in Nat
    BY <1>1
  <2> QED BY <2>1, <2>2
<1>9. path'[0].cost = 0
  BY <1>1, <1>3, <1>4
<1>10. ASSUME NEW j \in 1..n PROVE Continues(j, pos)'
  <2>1. j \in 0..n
    BY <1>1
  <2>2. CASE path'[j] = path[j] /\ path[j].parent < p
                /\ path[j].cost = path[path[j].parent].cost + Cost(path[j].codeword)
    <3>1. path[j].parent \in 0..(j - 1)
      BY DEF PathOK
    <3>2. path[j].parent \in 0..n
      BY <1>1, <3>1
    <3>3. path'[path[j].parent] = path[path[j].parent]
      BY <1>1, <1>3, <2>2, <3>2
    <3>4. path'[j].parent < p + 1
      BY <1>1, <2>2, <3>2
    <3> QED BY <1>1, <2>2, <3>3, <3>4 DEF Continues, Cost
  <2>3. CASE path'[j] = path[j] /\ j > p /\ path[j] = InitialPath[j]
    <3>1. path[j].parent = j - 1 /\ path[j].codeword = 1 /\ path[j].cost = 3 * j
      BY <1>1, <2>1, <2>3 DEF InitialPath
    <3>2. CASE j = p + 1
      <4>1. ExceptionCost(p) \in {2, 3}
        BY <1>5
      <4>2. path'[j].cost = 3 * j
        BY <2>3, <3>1
      <4>3. 3 * (p + 1) <= path[p].cost + ExceptionCost(p)
        BY <1>7, <3>2, <4>2
      <4>4. path[p].cost = 3 * p
        BY <1>1, <1>6, <4>1, <4>3
      <4>5. path'[j].parent = p
        BY <1>1, <2>3, <3>1, <3>2
      <4>6. path'[path'[j].parent].cost = 3 * p
        BY <1>6, <4>4, <4>5
      <4>7. path'[j].cost = path'[path'[j].parent].cost + 3 /\ path'[j].parent < p + 1
        BY <1>1, <3>2, <4>2, <4>5, <4>6
      <4>8. Cost(1) = 3 /\ path'[j].codeword = 1
        BY <2>3, <3>1 DEF Cost
      <4> QED BY <1>1, <4>7, <4>8 DEF Continues, Cost
    <3>3. CASE j # p + 1
      <4>1. j > p + 1
        BY <1>1, <2>3, <3>3
      <4>2. InitialPath' = InitialPath
        BY DEF InitialPath
      <4> QED BY <1>1, <2>3, <4>1, <4>2 DEF Continues
    <3> QED BY <3>2, <3>3
  <2>4. CASE j > p /\ path'[j].parent = p /\ path'[j].cost = path[p].cost + Cost(path'[j].codeword)
    <3>1. path'[j].parent < p + 1
      BY <1>1, <2>4
    <3>2. path'[j].cost = path'[path'[j].parent].cost + Cost(path'[j].codeword)
      BY <1>6, <2>4
    <3> QED BY <1>1, <3>1, <3>2 DEF Continues, Cost
  <2>5. Continues(j, p)
    BY <1>4
  <2> QED BY <1>2, <2>1, <2>2, <2>3, <2>4, <2>5 DEF Continues
<1>11. ASSUME NEW i \in 0..n, i < p + 1 PROVE Taken(i)'
  <2>1. path'[i] = path[i] /\ i < n /\ i + 1 \in 0..n /\ i \in Nat
    BY <1>1, <1>3, <1>11
  <2>2. path[i].cost \in Nat /\ ExceptionCost(i) \in {2, 3}
    BY <1>2, <1>5
  <2>3. \A x : Serves(Dict, b, i, x) => i + EntrySize(Dict, x) \in 0..n
    <3> TAKE x
    <3> HAVE Serves(Dict, b, i, x)
    <3>1. x \in EXCEPTIONS..(DictSize(Dict) - 1) /\ i + EntrySize(Dict, x) <= n
      BY DEF Serves
    <3>2. EntrySize(Dict, x) \in Nat \ {0}
      BY <3>1, EntryFacts DEF Usable
    <3> QED BY <2>1, <3>1, <3>2
  <2>4. CASE i < p
    <3>1. Taken(i)
      BY <1>4, <2>4
    <3>2. ASSUME NEW x, Serves(Dict, b, i, x)
          PROVE  path'[i + EntrySize(Dict, x)].cost <= path'[i].cost + 1
      <4> DEFINE j == i + EntrySize(Dict, x)
      <4>1. j \in 0..n
        BY <2>3, <3>2
      <4>2. path[j].cost <= path[i].cost + 1
        BY <3>1, <3>2 DEF Taken
      <4> HIDE DEF j
      <4>3. path'[j].cost <= path[j].cost /\ path'[j].cost \in Nat /\ path[j].cost \in Nat
        BY <1>2, <4>1
      <4>4. path'[j].cost <= path[i].cost + 1
        BY <2>2, <4>2, <4>3
      <4> QED BY <2>1, <4>4 DEF j
    <3>3. path'[i + 1].cost <= path'[i].cost + ExceptionCost(i)
      <4>1. path[i + 1].cost <= path[i].cost + ExceptionCost(i)
        BY <3>1 DEF Taken
      <4>2. path'[i + 1].cost <= path[i + 1].cost /\ path'[i + 1].cost \in Nat
            /\ path[i + 1].cost \in Nat
        BY <1>2, <2>1
      <4>3. path'[i + 1].cost <= path[i].cost + ExceptionCost(i)
        <5>1. \A u, v, w, e \in Nat : u <= v /\ v <= w + e => u <= w + e
          OBVIOUS
        <5>2. ExceptionCost(i) \in Nat
          BY <2>2
        <5> QED BY <2>2, <4>1, <4>2, <5>1, <5>2
      <4> QED BY <2>1, <4>3
    <3> QED BY <1>1, <3>2, <3>3 DEF Taken, Serves, ExceptionCost
  <2>5. CASE ~(i < p)
    <3>1. i = p
      BY <1>1, <1>11, <2>5
    <3>2. ASSUME NEW x, Serves(Dict, b, i, x)
          PROVE  path'[i + EntrySize(Dict, x)].cost <= path'[i].cost + 1
      <4>1. PICK o \in Offers(Dict, b, i) : o.len = EntrySize(Dict, x) /\ o.cost = 1
        BY <2>1, <3>2, ServesIsOffered
      <4>2. i + EntrySize(Dict, x) \in 0..n
        BY <2>3, <3>2
      <4> QED BY <1>2, <2>1, <3>1, <4>1, <4>2
    <3>3. path'[i + 1].cost <= path'[i].cost + ExceptionCost(i)
      BY <1>7, <2>1, <3>1
    <3> QED BY <1>1, <3>2, <3>3 DEF Taken, Serves, ExceptionCost
  <2> QED BY <2>4, <2>5
<1>12. \A i \in 0..n : i < pos' => Taken(i)'
  BY <1>1, <1>11
<1> QED BY <1>8, <1>9, <1>10, <1>12 DEF PathShort

(***************************************************************************)
(* The wide code has two bytes for each word of its cost.                  *)
(***************************************************************************)
LEMMA CodeLength ==
    ASSUME SizesAssumption, NEW d, b = 2, in \in [1..n -> Nat], PathOK(d, b), Priced, PathShort(n)
    PROVE  Len(Code) = 2 * path[n].cost
<1>1. n \in Nat /\ n > 0
  BY DEF SizesAssumption, n
<1>2. \A j \in 1..n : path[j].parent \in 0..(j - 1)
                      /\ Leads(d, b, path[j].codeword, path[j].parent, j)
  BY DEF PathOK
<1>3. Traces(Ways, n)
  BY <1>1, <1>2, WaysTrace
<1>4. \A j \in 0..n : Ways[j] = Extended(Ways, j)
  BY <1>3 DEF Traces
<1>5. path[0].cost = 0 /\ \A j \in 1..n : path[j].cost = path[path[j].parent].cost + Cost(path[j].codeword)
  <2>1. path[0].cost = 0 /\ \A j \in 1..n : Continues(j, n)
    BY DEF PathShort
  <2>2. \A j \in 1..n : ~(j > n)
    BY <1>1
  <2> QED BY <2>1, <2>2 DEF Continues
<1> DEFINE S == {j \in 0..n : Ways[j] \in Seq(Bytes) /\ Len(Ways[j]) = 2 * path[j].cost}
<1>6. ASSUME NEW j \in 0..n, \A i \in 0..n : i < j => i \in S
      PROVE  j \in S
  <2>1. CASE j = 0
    <3>1. Ways[j] = <<>>
      BY <1>4, <2>1 DEF Extended
    <3>2. Ways[j] \in Seq(Bytes) /\ Len(Ways[j]) = 0 /\ 2 * path[j].cost = 0
      BY <1>5, <2>1, <3>1
    <3> QED BY <3>2
  <2>2. CASE j # 0
    <3> DEFINE i == path[j].parent
               x == path[j].codeword
               w == Written(x, in[i + 1], b)
    <3>1. j \in 1..n
      BY <1>1, <2>2
    <3>2. i \in 0..(j - 1) /\ Leads(d, b, x, i, j)
      BY <1>2, <3>1
    <3>3. i \in 0..n /\ i < j /\ i + 1 \in 1..n
      BY <1>1, <3>1, <3>2
    <3>4. Ways[i] \in Seq(Bytes) /\ Len(Ways[i]) = 2 * path[i].cost /\ in[i + 1] \in Nat
          /\ path[i].cost \in Nat
      BY <1>6, <3>3 DEF Priced
    <3>5. Ways[j] = Ways[i] \o w
      BY <1>4, <2>2 DEF Extended
    <3>6. path[j].cost = path[i].cost + Cost(x)
      BY <1>5, <3>1
    <3> HIDE DEF i, x
    <3>7. w \in Seq(Bytes) /\ Len(w) = 2 * Cost(x) /\ Cost(x) \in Nat
      <4>1. PICK v : v = in[i + 1]
        OBVIOUS
      <4>2. v \in Nat /\ x \in Nat /\ w = Written(x, v, 2)
        BY <3>2, <3>4, <4>1 DEF Leads
      <4>3. 2 \in {1, 2}
        OBVIOUS
      <4>4. Written(x, v, 2) \in Seq(Bytes)
        BY <4>2, <4>3, WrittenFacts
      <4>5. x > 1 => Len(Written(x, v, 2)) = 2
        BY <4>2, <4>3, WrittenFacts
      <4>6. x = 0 => Len(Written(x, v, 2)) = 4
        <5>1. \A count \in {2, 4} : x <= 1 /\ count = (IF x = 0 THEN 2 ELSE 4) => Len(Written(x, v, 2)) = 2 + count
          BY <4>2, <4>3, WrittenFacts
        <5> QED BY <5>1
      <4>7. x = 1 => Len(Written(x, v, 2)) = 6
        <5>1. \A count \in {2, 4} : x <= 1 /\ count = (IF x = 0 THEN 2 ELSE 4) => Len(Written(x, v, 2)) = 2 + count
          BY <4>2, <4>3, WrittenFacts
        <5> QED BY <5>1
      <4>8. x > 1 \/ x = 0 \/ x = 1
        BY <4>2
      <4> HIDE DEF w
      <4>9. Len(Written(x, v, 2)) = 2 * Cost(x) /\ Cost(x) \in Nat
        <5> DEFINE l == Len(Written(x, v, 2))
        <5>1. (x > 1 => l = 2) /\ (x = 0 => l = 4) /\ (x = 1 => l = 6)
          BY <4>5, <4>6, <4>7
        <5>2. x \in Nat
          BY <4>2
        <5> HIDE DEF l
        <5>3. l = 2 * Cost(x) /\ Cost(x) \in Nat
          <6>1. CASE x > 1
            BY <5>1, <6>1 DEF Cost
          <6>2. CASE x = 0
            BY <5>1, <6>2 DEF Cost
          <6>3. CASE x = 1
            BY <5>1, <6>3 DEF Cost
          <6> QED BY <4>8, <6>1, <6>2, <6>3
        <5> QED BY <5>3 DEF l
      <4>10. w = Written(x, v, 2)
        BY <4>2
      <4> QED BY <4>4, <4>9, <4>10, Zenon
    <3> HIDE DEF w
    <3>8. Ways[j] \in Seq(Bytes) /\ Len(Ways[j]) = Len(Ways[i]) + Len(w)
      BY <3>4, <3>5, <3>7, ConcatProperties
    <3>9. Len(Ways[j]) = 2 * path[j].cost
      <4>1. \A y, z \in Nat : 2 * y + 2 * z = 2 * (y + z)
        OBVIOUS
      <4> QED BY <3>4, <3>6, <3>7, <3>8, <4>1
    <3> QED BY <3>8, <3>9
  <2> QED BY <2>1, <2>2
<1>7. n \in S
  <2> HIDE DEF S
  <2>1. 0..n \subseteq S
    BY <1>1, <1>6, Forward
  <2> QED BY <1>1, <2>1
<1>8. Len(Ways[n]) = 2 * path[n].cost
  BY <1>7
<1> QED BY <1>8, CodeIsWay

\* What holds of the nodes while the codes are looked for.
ShortInv == Inv /\ (pc = "encode" /\ s < num_selectors => PathShort(pos))

LEMMA InitialPathShort ==
    ASSUME n \in Nat, path = InitialPath
    PROVE  PathShort(0)
<1>1. path[0].cost = 0 /\ \A j \in 0..n : path[j].cost = 3 * j
  BY InitialNodes
<1>2. \A j \in 0..n : path[j].cost <= 3 * j
  BY <1>1
<1>3. \A j \in 1..n : Continues(j, 0)
  BY DEF Continues
<1>4. \A i \in 0..n : ~(i < 0)
  OBVIOUS
<1> QED BY <1>1, <1>2, <1>3, <1>4 DEF PathShort

LEMMA ShortInvInit ==
    ASSUME Assumed, Init
    PROVE  ShortInv
<1>1. Inv
  BY InvInit
<1>2. path = InitialPath /\ pos = 0 /\ n \in Nat
  BY DEF Init, Assumed, SizesAssumption, n
<1>3. PathShort(0)
  BY <1>2, InitialPathShort
<1> QED BY <1>1, <1>2, <1>3 DEF ShortInv

LEMMA ShortInvStep ==
    ASSUME Assumed, ShortInv, [Next]_vars
    PROVE  ShortInv'
<1>1. Inv /\ Inv'
  BY InvStep DEF ShortInv
<1>2. /\ in \in Inputs /\ dicts \in MultiDictionaries
      /\ pos \in 0..n /\ s \in 0..num_selectors /\ b \in {1, 2}
  BY <1>1 DEF Inv
<1>3. /\ SizesAssumption /\ TargetSizesAssumption /\ n \in Nat /\ in \in [1..n -> Nat]
      /\ num_selectors \in Nat \ {0}
      /\ \A t \in 0..(num_selectors - 1) : Usable(dicts[t + 1])
  BY <1>2, InputFacts
<1>4. CASE RelaxStep
  <2>1. pc = "encode" /\ s < num_selectors
    BY <1>4 DEF RelaxStep
  <2>2. Priced /\ PathOK(Dict, b) /\ PathShort(pos)
    BY <1>1, <2>1 DEF Inv, Encoding, ShortInv
  <2>3. s \in 0..(num_selectors - 1)
    BY <1>2, <1>3, <2>1
  <2>4. Usable(Dict)
    BY <1>3, <2>3 DEF Dict
  <2>5. Sized(Dict)
    <3>1. s + 1 \in 1..Len(dicts)
      BY <1>3, <2>3 DEF num_selectors
    <3> QED BY <1>2, <3>1 DEF Dict, Sized, Assumed, MultiDictionariesAssumption
  <2>6. PathShort(pos)'
    BY <1>2, <1>3, <1>4, <2>2, <2>4, <2>5, RelaxKeepsShort
  <2> QED BY <1>1, <2>6 DEF ShortInv
<1>5. CASE EncodeEnd
  <2>1. path' = InitialPath /\ pos' = 0
    BY <1>5 DEF EncodeEnd
  <2>2. path'[0].cost = 0 /\ \A j \in 0..n : path'[j].cost = 3 * j
    BY <1>3, <2>1, InitialNodes
  <2>3. \A j \in 0..n : path'[j].cost <= 3 * j
    BY <2>2
  <2>4. \A j \in 1..n : Continues(j, pos)'
    <3>1. InitialPath' = InitialPath
      BY DEF InitialPath
    <3> QED BY <2>1, <3>1 DEF Continues
  <2>5. \A i \in 0..n : ~(i < pos')
    BY <2>1
  <2>6. PathShort(pos)'
    BY <2>2, <2>3, <2>4, <2>5 DEF PathShort
  <2> QED BY <1>1, <2>6 DEF ShortInv
<1>6. CASE pc' # "encode"
  BY <1>1, <1>6 DEF ShortInv
<1>7. CASE UNCHANGED vars
  <2>1. UNCHANGED <<in, dicts, pc, s, b, path, pos>>
    BY <1>7 DEF vars
  <2>2. UNCHANGED num_selectors /\ UNCHANGED Dict
    BY <2>1 DEF num_selectors, Dict
  <2>3. PathShort(pos) => PathShort(pos)'
    BY <2>1, <2>2 DEF PathShort, Continues, Taken, Serves, ExceptionCost
  <2> QED BY <1>1, <2>1, <2>2, <2>3 DEF ShortInv
<1>8. ASSUME WriteBest \/ DecodeStep \/ DecodeEnd PROVE pc' # "encode"
  BY <1>8 DEF WriteBest, DecodeStep, DecodeEnd
<1> QED BY <1>4, <1>5, <1>6, <1>7, <1>8 DEF Next, Step, Terminated

-----------------------------------------------------------------------------
(* The properties.                                                         *)

(***************************************************************************)
(* The decoder is always inside the bytes written, and at their end when   *)
(* the block is complete.                                                  *)
(***************************************************************************)
LEMMA ReadingInside ==
    ASSUME Assumed, Inv, pc # "encode"
    PROVE  /\ ptr \in Nat /\ ptr <= Len(out) /\ out[1] < 2 * num_selectors
           /\ Tail(out) = encoded[<<out[1] % num_selectors, Width>>]
           /\ pos = n => ptr = Len(out)
<1>1. Chosen /\ Reading
  BY DEF Inv, Decoding
<1> DEFINE c == Tail(out)
<1>2. n \in Nat
  BY DEF Assumed, SizesAssumption, n
<1>3. Len(c) \in Nat /\ Len(out) = Len(c) + 1
  BY <1>1, HeadTailProperties DEF Chosen
<1>0. PICK m \in Nat : \E P, Q :
        /\ IsCut(Selected, Width, c, m, P, Q, n)
        /\ \E k \in 1..(m + 1) : pos = P[k] /\ ptr = Q[k] + 1
  BY <1>1 DEF Reading
<1>4. PICK P, Q :
        /\ IsCut(Selected, Width, c, m, P, Q, n)
        /\ \E k \in 1..(m + 1) : pos = P[k] /\ ptr = Q[k] + 1
  BY <1>0
<1>5. PICK k \in 1..(m + 1) : pos = P[k] /\ ptr = Q[k] + 1
  BY <1>4
<1>6. /\ \A j \in 1..(m + 1) : P[j] \in 0..n /\ Q[j] \in 0..Len(c)
      /\ P[m + 1] = n /\ Q[m + 1] = Len(c)
      /\ \A j \in 1..m : Wrote(Selected, Width, c, P[j], P[j + 1], Q[j], Q[j + 1])
  BY <1>4 DEF IsCut
<1> HIDE DEF c
<1>7. ptr \in Nat /\ ptr <= Len(out)
  BY <1>3, <1>5, <1>6
<1>8. pos = n => k = m + 1
  <2> SUFFICES ASSUME pos = n, k # m + 1 PROVE FALSE
    OBVIOUS
  <2>1. k \in 1..m /\ k + 1 \in 1..(m + 1)
    OBVIOUS
  <2>2. PICK x \in Nat : Leads(Selected, Width, x, P[k], P[k + 1])
    BY <1>6, <2>1 DEF Wrote
  <2>3. \E h \in Nat \ {0} : P[k] + h = P[k + 1]
    BY <2>2 DEF Leads
  <2>4. P[k] \in 0..n /\ P[k + 1] \in 0..n
    BY <1>6, <2>1
  <2> QED BY <1>2, <1>5, <2>3, <2>4
<1>9. pos = n => ptr = Len(out)
  BY <1>3, <1>5, <1>6, <1>8
<1> QED BY <1>1, <1>7, <1>9 DEF Chosen

(***************************************************************************)
(* Whatever the block, the dictionaries and the sizes of targets are, the  *)
(* decoder gets the block back from the bytes of the dictionary and width  *)
(* that was chosen, and stops exactly where they end: what                 *)
(* multi_opt_dint::decode of dint_codecs.hpp promises its caller, who      *)
(* finds the next block there.                                             *)
(***************************************************************************)
THEOREM RoundTripAlways ==
    ASSUME Assumed
    PROVE  Spec => []RoundTrip
<1>1. Inv => RoundTrip
  <2> SUFFICES ASSUME Inv PROVE RoundTrip
    OBVIOUS
  <2>1. ASSUME pc # "encode" PROVE \A p \in 1..pos : buf[p] = in[p]
    BY <2>1 DEF Inv, Decoding, DecodedTo
  <2>2. ASSUME pc = "done" PROVE ptr = Len(out)
    <3>1. pos = n /\ pc # "encode"
      BY <2>2 DEF Inv, Decoding
    <3> QED BY <3>1, ReadingInside
  <2> QED BY <2>1, <2>2 DEF RoundTrip
<1> QED BY <1>1, Invariance, PTL

(***************************************************************************)
(* Every code is a sequence of bytes, the control byte names one of them,  *)
(* the decoder never reads behind it, and the copies of max_entry_size     *)
(* integers stay within the overflow of the buffer.                        *)
(***************************************************************************)
THEOREM TypeCorrect ==
    ASSUME Assumed
    PROVE  Spec => []TypeOK
<1>1. Inv => TypeOK
  <2> SUFFICES ASSUME Inv PROVE TypeOK
    OBVIOUS
  <2>1. pc \in {"encode", "decode", "done"} /\ pos \in 0..n /\ AllCovered
    BY DEF Inv
  <2>2. \A k \in DOMAIN encoded : encoded[k] \in Seq(0..(Byte - 1))
    BY <2>1 DEF AllCovered, Covers, Bytes
  <2>3. ASSUME pc # "encode"
        PROVE  /\ out[1] < 2 * num_selectors /\ ptr <= Len(out)
               /\ Tail(out) = encoded[<<out[1] % num_selectors, Width>>]
    BY <2>3, ReadingInside
  <2>4. pos < n => pos + MaxEntrySize <= n + Overflow
    BY <2>1, MaxEntrySizeAssumption DEF Assumed, SizesAssumption, n
  <2> QED BY <2>1, <2>2, <2>3, <2>4 DEF TypeOK
<1> QED BY <1>1, Invariance, PTL

(***************************************************************************)
(* What copy() leaves behind a short entry ends max_entry_size behind the  *)
(* position reached, so that the zeros a run needs are there.              *)
(***************************************************************************)
THEOREM DirtAlwaysBounded ==
    ASSUME Assumed
    PROVE  Spec => []DirtBounded
<1>1. Inv => DirtBounded
  BY DEF Inv, Decoding, DecodedTo, DirtBounded
<1> QED BY <1>1, Invariance, PTL

(***************************************************************************)
(* No dictionary and no width gives a smaller code than the one written.   *)
(***************************************************************************)
THEOREM SmallestAlwaysChosen ==
    ASSUME Assumed
    PROVE  Spec => []SmallestChosen
<1>1. Inv => SmallestChosen
  BY DEF Inv, Decoding, Chosen, SmallestChosen
<1> QED BY <1>1, Invariance, PTL

(***************************************************************************)
(* The wide code is two bytes for each word the way costs, and neither a   *)
(* codeword of the map nor an exception would make the way to any position *)
(* cheaper: there is no shorter code in words of two bytes.                *)
(***************************************************************************)
THEOREM WideAlwaysShortest ==
    ASSUME Assumed
    PROVE  Spec => []WideIsShortest
<1>1. Init => ShortInv
  BY ShortInvInit
<1>2. ShortInv /\ [Next]_vars => ShortInv'
  BY ShortInvStep
<1>3. ShortInv => WideIsShortest
  <2> SUFFICES ASSUME ShortInv, pc = "encode", s < num_selectors, pos = n, b = 2
               PROVE  /\ 2 * path[n].cost = Len(Code)
                      /\ \A i \in 0..(n - 1) :
                            /\ path[i + 1].cost <= path[i].cost + (IF in[i + 1] < LargeLimit THEN 2 ELSE 3)
                            /\ \A index \in EXCEPTIONS..(DictSize(Dict) - 1) :
                                  (IsRun(index) \/ index < MapSize(Dict, 2))
                                    /\ i + EntrySize(Dict, index) <= n
                                    /\ SubSeq(in, i + 1, i + EntrySize(Dict, index)) = Entry(Dict, index)
                                  => path[i + EntrySize(Dict, index)].cost <= path[i].cost + 1
    BY DEF WideIsShortest, Dict
  <2>1. /\ in \in Inputs /\ dicts \in MultiDictionaries /\ Priced /\ PathOK(Dict, b) /\ PathShort(n)
    BY DEF ShortInv, Inv, Encoding
  <2>2. SizesAssumption /\ n \in Nat /\ in \in [1..n -> Nat]
    BY <2>1, InputFacts
  <2>3. 2 * path[n].cost = Len(Code)
    <3>1. PICK d : d = Dict
      OBVIOUS
    <3>2. Len(Code) = 2 * path[n].cost
      BY <2>1, <2>2, <3>1, CodeLength
    <3> QED BY <3>2
  <2>4. ASSUME NEW i \in 0..(n - 1)
        PROVE  Taken(i)
    <3>1. i \in 0..n /\ i < n
      BY <2>2
    <3> QED BY <2>1, <3>1 DEF PathShort
  <2> QED BY <2>3, <2>4 DEF Taken, Serves, ExceptionCost
<1> QED BY <1>1, <1>2, <1>3, PTL DEF Spec
=============================================================================
