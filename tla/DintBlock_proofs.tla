--------------------------- MODULE DintBlock_proofs ---------------------------
(***************************************************************************)
(* Proofs about DintBlock, for every dictionary, every block and every     *)
(* number and length of runs and targets: whichever encoder is used, the   *)
(* decoder gives back the block and stops where the code ends.             *)
(***************************************************************************)
EXTENDS DintBlock, SequenceTheorems, WellFoundedInduction, TLAPS

-----------------------------------------------------------------------------
(* The least and the greatest of some integers.                            *)

(***************************************************************************)
(* Naturals of which there is one have a least one.                        *)
(***************************************************************************)
LEMMA LeastNat ==
    ASSUME NEW S, S \subseteq Nat, S # {}
    PROVE  \E x \in S : \A y \in S : x <= y
<1>1. PICK x \in S : \A y \in S : ~(<<y, x>> \in OpToRel(<, Nat))
  BY NatLessThanWellFounded, WFMin
<1>2. \A y \in S : ~(y < x)
  BY <1>1 DEF OpToRel
<1> QED BY <1>2

(***************************************************************************)
(* Naturals that have a bound, and of which there is one, have a greatest. *)
(***************************************************************************)
LEMMA GreatestNat ==
    ASSUME NEW S, S \subseteq Nat, S # {}, NEW b \in Nat, \A x \in S : x <= b
    PROVE  \E x \in S : \A y \in S : y <= x
<1> DEFINE D == {b - x : x \in S}
<1>1. D \subseteq Nat /\ D # {}
  <2>1. ASSUME NEW d \in D PROVE d \in Nat
    <3>1. PICK x \in S : d = b - x
      OBVIOUS
    <3>2. x \in Nat /\ x <= b
      OBVIOUS
    <3> QED BY <3>1, <3>2
  <2>2. D # {}
    OBVIOUS
  <2> QED BY <2>1, <2>2
<1>2. PICK d \in D : \A e \in D : d <= e
  BY <1>1, LeastNat
<1>3. PICK x \in S : d = b - x
  OBVIOUS
<1>4. \A y \in S : b - x <= b - y
  BY <1>2, <1>3
<1> QED BY <1>4

-----------------------------------------------------------------------------
(* Dictionaries.                                                           *)

(***************************************************************************)
(* What it means that a sequence is found in another at some place.        *)
(***************************************************************************)
LEMMA FoundAt ==
    ASSUME NEW S, NEW tab \in Seq(S), NEW t \in Seq(S), NEW off \in Nat,
           off + Len(t) <= Len(tab), SubSeq(tab, off + 1, off + Len(t)) = t
    PROVE  \A p \in 1..Len(t) : t[p] = tab[off + p]
<1> DEFINE a == off + 1
           z == off + Len(t)
<1>1. Len(t) \in Nat /\ Len(tab) \in Nat
  OBVIOUS
<1>2. a \in Int /\ z \in Int /\ \A i \in a..z : i \in 1..Len(tab)
  BY <1>1
<1>3. \A i \in a..z : tab[i] \in S
  BY <1>2
<1>4. z - a + 1 = Len(t) /\ \A p \in 1..Len(t) : a + p - 1 = off + p
  BY <1>1
<1>5. SubSeq(tab, a, z) = t
  OBVIOUS
<1> HIDE DEF a, z
<1>6. \A p \in 1..(z - a + 1) : SubSeq(tab, a, z)[p] = tab[a + p - 1]
  BY <1>2, <1>3, SubSeqProperties
<1> QED BY <1>4, <1>5, <1>6

(***************************************************************************)
(* A codeword that is not of a run names a target of the dictionary.       *)
(***************************************************************************)
LEMMA TargetIndex ==
    ASSUME NEW d, IsDictionary(d), NEW w \in EXCEPTIONS..(DictSize(d) - 1), ~IsRun(w)
    PROVE  w - reserved + 1 \in 1..Len(d.targets)
<1> DEFINE k == Len(d.targets)
<1>1. Len(Runs) \in Nat /\ k \in Nat
  BY RunsAssumption DEF IsDictionary
<1>2. DictSize(d) = reserved + k
  BY <1>1 DEF DictSize
<1>3. reserved = 2 + Len(Runs)
  BY <1>1 DEF reserved, EXCEPTIONS
<1> HIDE DEF k
<1>4. w \in Int /\ w >= 2 /\ w <= reserved + k - 1
  BY <1>1, <1>2, <1>3 DEF EXCEPTIONS
<1>5. w >= reserved
  BY <1>1, <1>3, <1>4 DEF IsRun, EXCEPTIONS
<1>6. w - reserved + 1 \in 1..k
  BY <1>1, <1>3, <1>4, <1>5
<1> QED BY <1>6 DEF k

(***************************************************************************)
(* What is known of the codewords of a dictionary: the run or the target   *)
(* they stand for, and its length.                                         *)
(***************************************************************************)
LEMMA EntryFacts ==
    ASSUME NEW d, IsDictionary(d), NEW w \in EXCEPTIONS..(DictSize(d) - 1)
    PROVE  /\ EntrySize(d, w) \in Nat \ {0}
           /\ Entry(d, w) \in Seq(Nat)
           /\ Len(Entry(d, w)) = EntrySize(d, w)
           /\ IsRun(w) => \A p \in 1..EntrySize(d, w) : Entry(d, w)[p] = 0
           /\ ~IsRun(w) => EntrySize(d, w) <= MaxEntrySize
<1>1. Len(Runs) \in Nat /\ Len(d.targets) \in Nat
  BY RunsAssumption DEF IsDictionary
<1>2. CASE IsRun(w)
  <2>1. w - EXCEPTIONS + 1 \in 1..Len(Runs)
    BY <1>1, <1>2 DEF IsRun, reserved, EXCEPTIONS
  <2>2. EntrySize(d, w) \in Nat \ {0}
    BY <1>2, <2>1, RunsAssumption DEF EntrySize
  <2>3. Entry(d, w) = [p \in 1..EntrySize(d, w) |-> 0]
    BY <1>2 DEF Entry, Zeros
  <2> QED BY <1>2, <2>2, <2>3
<1>3. CASE ~IsRun(w)
  <2>1. w - reserved + 1 \in 1..Len(d.targets)
    BY <1>3, TargetIndex
  <2>2. /\ Target(d, w) \in Seq(Nat)
        /\ Len(Target(d, w)) \in 1..MaxEntrySize
    BY <2>1 DEF IsDictionary, Target
  <2> QED BY <1>3, <2>2, MaxEntrySizeAssumption DEF EntrySize, Entry
<1> QED BY <1>2, <1>3

(***************************************************************************)
(* Where an entry is in the table: its first max_entry_size integers are   *)
(* there, of a run the zeros in front.                                     *)
(***************************************************************************)
LEMMA OffsetFacts ==
    ASSUME NEW d, IsDictionary(d), NEW w \in EXCEPTIONS..(DictSize(d) - 1)
    PROVE  /\ EntryOffset(d, w) \in Nat
           /\ \A p \in 1..MaxEntrySize : p <= EntrySize(d, w) =>
                /\ EntryOffset(d, w) + p <= Len(d.table)
                /\ d.table[EntryOffset(d, w) + p] = Entry(d, w)[p]
<1>1. /\ Len(Runs) \in Nat /\ Len(d.targets) \in Nat /\ Len(d.table) \in Nat
      /\ d.table \in Seq(Nat) /\ MaxEntrySize <= Len(d.table)
      /\ MaxEntrySize \in Nat \ {0}
  BY RunsAssumption, MaxEntrySizeAssumption DEF IsDictionary
<1>2. CASE IsRun(w)
  <2>1. EntryOffset(d, w) = 0
    BY <1>2 DEF EntryOffset
  <2>2. SubSeq(d.table, 1, MaxEntrySize) = Zeros(MaxEntrySize)
    BY DEF IsDictionary
  <2>3. \A p \in 1..MaxEntrySize : SubSeq(d.table, 1, MaxEntrySize)[p] = d.table[p]
    BY <1>1, SubSeqProperties
  <2>4. \A p \in 1..MaxEntrySize : d.table[p] = 0
    BY <2>2, <2>3 DEF Zeros
  <2>5. EntrySize(d, w) \in Nat \ {0} /\ \A p \in 1..EntrySize(d, w) : Entry(d, w)[p] = 0
    BY <1>2, EntryFacts
  <2>6. \A p \in 1..MaxEntrySize : p <= EntrySize(d, w) => p \in 1..EntrySize(d, w)
    BY <1>1, <2>5
  <2> QED BY <1>1, <2>1, <2>4, <2>5, <2>6
<1>3. CASE ~IsRun(w)
  <2> DEFINE t == Target(d, w)
             tab == d.table
             starts == {o \in 0..(Len(tab) - Len(t)) : SubSeq(tab, o + 1, o + Len(t)) = t}
             off == EntryOffset(d, w)
  <2>1. w - reserved + 1 \in 1..Len(d.targets)
    BY <1>3, TargetIndex
  <2>2. t \in Seq(Nat) /\ Len(t) \in 1..MaxEntrySize /\ starts # {}
    <3>1. /\ Len(t) \in 1..MaxEntrySize
          /\ \E o \in 0..(Len(tab) - Len(t)) : SubSeq(tab, o + 1, o + Len(t)) = t
      BY <2>1 DEF IsDictionary, Target
    <3>2. t \in Seq(Nat)
      BY <2>1 DEF IsDictionary, Target
    <3> QED BY <3>1, <3>2
  <2>3. \E o \in starts : \A p \in starts : o <= p
    <3>1. starts \subseteq Nat
      OBVIOUS
    <3> HIDE DEF starts
    <3> QED BY <2>2, <3>1, LeastNat
  <2>4. off = CHOOSE o \in starts : \A p \in starts : o <= p
    BY <1>3 DEF EntryOffset
  <2>5. EntrySize(d, w) = Len(t) /\ Entry(d, w) = t
    BY <1>3 DEF EntrySize, Entry
  <2>6. tab \in Seq(Nat) /\ Len(tab) \in Nat
    BY <1>1
  <2>7. off \in starts
    <3> HIDE DEF starts, off
    <3> QED BY <2>3, <2>4
  <2> HIDE DEF t, tab, off
  <2>8. /\ off \in Nat /\ off <= Len(tab) - Len(t)
        /\ SubSeq(tab, off + 1, off + Len(t)) = t
    <3> DEFINE k == Len(t)
               m == Len(tab)
    <3>1. off \in 0..(m - k)
      BY <2>7
    <3>4. SubSeq(tab, off + 1, off + Len(t)) = t
      BY <2>7
    <3>2. k \in Nat /\ m \in Nat
      BY <2>2, <2>6
    <3> HIDE DEF k, m
    <3>3. off \in Nat /\ off <= m - k
      BY <3>1, <3>2
    <3>5. off \in Nat /\ off <= Len(tab) - Len(t)
      BY <3>3 DEF k, m
    <3> HIDE DEF starts
    <3> QED BY <3>4, <3>5
  <2>9. off + Len(t) <= Len(tab) /\ Len(t) \in Nat
    <3> DEFINE k == Len(t)
               m == Len(tab)
    <3>1. k \in Nat /\ m \in Nat /\ off <= m - k
      BY <2>2, <2>6, <2>8
    <3> HIDE DEF k, m
    <3>2. off + k <= m
      BY <2>8, <3>1
    <3> QED BY <3>1, <3>2 DEF k, m
  <2>10. \A p \in 1..Len(t) : t[p] = tab[off + p]
    <3> HIDE DEF starts
    <3>1. /\ t \in Seq(Nat) /\ tab \in Seq(Nat) /\ off \in Nat
          /\ off + Len(t) <= Len(tab) /\ SubSeq(tab, off + 1, off + Len(t)) = t
      BY <2>2, <2>6, <2>8, <2>9
    <3> QED BY <3>1, FoundAt, Zenon
  <2>11. ASSUME NEW p \in 1..MaxEntrySize, p <= Len(t)
         PROVE  off + p <= Len(tab) /\ tab[off + p] = t[p]
    <3>1. p \in 1..Len(t)
      BY <1>1, <2>9, <2>11
    <3> QED BY <2>8, <2>6, <2>9, <2>10, <3>1
  <2>12. /\ off \in Nat
         /\ \A p \in 1..MaxEntrySize : p <= Len(t) => off + p <= Len(tab) /\ tab[off + p] = t[p]
    BY <2>8, <2>11
  <2> QED BY <2>5, <2>12 DEF off, tab
<1> QED BY <1>2, <1>3

(***************************************************************************)
(* What lookup() finds stands for the sequence that was looked up.         *)
(***************************************************************************)
LEMMA LookupFacts ==
    ASSUME NEW d, IsDictionary(d), NEW s, Lookup(d, s) # invalid_index
    PROVE  /\ Lookup(d, s) \in EXCEPTIONS..(DictSize(d) - 1)
           /\ Entry(d, Lookup(d, s)) = s
<1> DEFINE top == DictSize(d) - 1
           hits == {index \in EXCEPTIONS..top : Entry(d, index) = s}
<1>1. top \in Nat
  <2> DEFINE k == Len(d.targets)
  <2>1. Len(Runs) \in Nat /\ k \in Nat
    BY RunsAssumption DEF IsDictionary
  <2>2. DictSize(d) = 2 + Len(Runs) + k
    BY <2>1 DEF DictSize, reserved, EXCEPTIONS
  <2> HIDE DEF k
  <2> QED BY <2>1, <2>2
<1>2. hits # {} /\ Lookup(d, s) = CHOOSE i \in hits : \A j \in hits : j <= i
  BY DEF Lookup
<1> HIDE DEF top
<1>3. hits \subseteq Nat /\ \A i \in hits : i <= top
  BY <1>1 DEF EXCEPTIONS
<1>4. \A i \in hits : i \in EXCEPTIONS..top /\ Entry(d, i) = s
  OBVIOUS
<1> HIDE DEF hits
<1>5. \E i \in hits : \A j \in hits : j <= i
  BY <1>1, <1>2, <1>3, GreatestNat
<1>6. Lookup(d, s) \in hits
  BY <1>2, <1>5
<1> QED BY <1>4, <1>6 DEF top

(***************************************************************************)
(* copy() changes max_entry_size integers and none besides; of those the   *)
(* entry has, these are the entry's.                                       *)
(***************************************************************************)
LEMMA CopyFacts ==
    ASSUME NEW d, IsDictionary(d), NEW w \in EXCEPTIONS..(DictSize(d) - 1),
           NEW m \in Nat, NEW o, DOMAIN o = 1..m, NEW at \in Nat
    PROVE  /\ DOMAIN Copy(d, w, o, at) = 1..m
           /\ \A p \in 1..m : p < at \/ p >= at + MaxEntrySize => Copy(d, w, o, at)[p] = o[p]
           /\ \A p \in 1..m : (p >= at /\ p < at + MaxEntrySize /\ p < at + EntrySize(d, w))
                                => Copy(d, w, o, at)[p] = Entry(d, w)[p - at + 1]
<1> DEFINE off == EntryOffset(d, w)
           size == EntrySize(d, w)
           tab == d.table
           top == Len(tab)
           e == Entry(d, w)
           c == Copy(d, w, o, at)
<1>1. MaxEntrySize \in Nat \ {0} /\ size \in Nat /\ off \in Nat
  BY MaxEntrySizeAssumption, EntryFacts, OffsetFacts
<1>2. \A q \in 1..MaxEntrySize : q <= size => off + q <= top /\ tab[off + q] = e[q]
  BY OffsetFacts
<1>3. c = [p \in 1..m |-> IF p \in at..(at + MaxEntrySize - 1)
                           THEN IF off + p - at + 1 <= top THEN tab[off + p - at + 1] ELSE Junk
                           ELSE o[p]]
  BY DEF Copy
<1> HIDE DEF off, size, tab, top, e, c
<1>4. DOMAIN c = 1..m
  BY <1>3
<1>5. ASSUME NEW p \in 1..m, p < at \/ p >= at + MaxEntrySize
      PROVE  c[p] = o[p]
  BY <1>1, <1>3, <1>5
<1>6. ASSUME NEW p \in 1..m, p >= at, p < at + MaxEntrySize, p < at + size
      PROVE  c[p] = e[p - at + 1]
  <2>1. /\ p - at + 1 \in 1..MaxEntrySize /\ p - at + 1 <= size
        /\ off + (p - at + 1) = off + p - at + 1
    BY <1>1, <1>6
  <2>2. off + p - at + 1 <= top /\ tab[off + p - at + 1] = e[p - at + 1]
    BY <1>2, <2>1
  <2> QED BY <1>1, <1>3, <1>6, <2>2
<1> QED BY <1>4, <1>5, <1>6 DEF c, e, size

-----------------------------------------------------------------------------
(* Words of the output and what they stand for in a block b.               *)

Word == [index : Nat, value : Nat]

\* The integers a word stands for.
Width(d, w) == IF w.index > 1 THEN EntrySize(d, w.index) ELSE 1

\* The word decodes to the integers of the block behind position `at'.
Stands(d, b, w, at) ==
    /\ w \in Word
    /\ Width(d, w) \in Nat \ {0} /\ at + Width(d, w) <= n
    /\ w.index > 1 => /\ w.index \in EXCEPTIONS..(DictSize(d) - 1)
                      /\ \A p \in 1..Width(d, w) : Entry(d, w.index)[p] = b[at + p]
    /\ w.index <= 1 => w.value = b[at + 1]

\* The block is decoded up to `at', and behind what a copy may have reached the
\* zeros are there that long runs rely on.
DecodedTo(b, o, at) ==
    /\ DOMAIN o = 1..(n + Overflow)
    /\ \A p \in 1..at : o[p] = b[p]
    /\ \A p \in (at + MaxEntrySize)..(n + Overflow) : o[p] = 0

(***************************************************************************)
(* Decoding a word that stands at the position reached leads to the end of *)
(* what it stands for: a target is copied whole, and of a run the part     *)
(* behind max_entry_size is there already.                                 *)
(***************************************************************************)
LEMMA DecodeEffect ==
    ASSUME NEW d, IsDictionary(d), NEW b, NEW w, NEW at \in 0..n, Stands(d, b, w, at),
           NEW o, DecodedTo(b, o, at)
    PROVE  DecodedTo(b, IF w.index > 1 THEN Copy(d, w.index, o, at + 1)
                                       ELSE [o EXCEPT ![at + 1] = w.value], at + Width(d, w))
<1> DEFINE size == Width(d, w)
           top == n + Overflow
<1>1. /\ n \in Nat /\ Overflow \in Nat /\ at \in Nat /\ MaxEntrySize \in Nat \ {0}
      /\ size \in Nat \ {0} /\ at + size <= n /\ top \in Nat /\ n <= top
  BY BlockSizeAssumption, MaxEntrySizeAssumption DEF n, Stands
<1>2. /\ DOMAIN o = 1..top
      /\ \A p \in 1..at : o[p] = b[p]
      /\ \A p \in (at + MaxEntrySize)..top : o[p] = 0
  BY DEF DecodedTo
<1>3. CASE w.index > 1
  <2> DEFINE c == Copy(d, w.index, o, at + 1)
             e == Entry(d, w.index)
             isRun == IsRun(w.index)
  <2>1. /\ w.index \in EXCEPTIONS..(DictSize(d) - 1) /\ size = EntrySize(d, w.index)
        /\ \A p \in 1..size : e[p] = b[at + p]
    BY <1>3 DEF Stands, Width
  <2>2. at + 1 \in Nat
    BY <1>1
  <2>3. /\ DOMAIN c = 1..top
        /\ \A p \in 1..top : p < at + 1 \/ p >= at + 1 + MaxEntrySize => c[p] = o[p]
        /\ \A p \in 1..top : (p >= at + 1 /\ p < at + 1 + MaxEntrySize /\ p < at + 1 + size)
                                => c[p] = e[p - (at + 1) + 1]
    <3> DEFINE u == w.index
               a == at + 1
    <3>1. /\ u \in EXCEPTIONS..(DictSize(d) - 1) /\ top \in Nat
          /\ DOMAIN o = 1..top /\ a \in Nat /\ size = EntrySize(d, u)
      BY <1>1, <1>2, <2>1, <2>2
    <3> HIDE DEF u, a, top, size
    <3>2. /\ DOMAIN Copy(d, u, o, a) = 1..top
          /\ \A p \in 1..top : p < a \/ p >= a + MaxEntrySize => Copy(d, u, o, a)[p] = o[p]
          /\ \A p \in 1..top : (p >= a /\ p < a + MaxEntrySize /\ p < a + EntrySize(d, u))
                                => Copy(d, u, o, a)[p] = Entry(d, u)[p - a + 1]
      BY <3>1, CopyFacts
    <3> QED BY <3>1, <3>2 DEF u, a
  <2>4. /\ isRun => \A p \in 1..size : e[p] = 0
        /\ ~isRun => size <= MaxEntrySize
        /\ isRun \in BOOLEAN
    BY <2>1, EntryFacts DEF IsRun
  <2> HIDE DEF size, c, e, top, isRun
  <2>5. ASSUME NEW p \in 1..(at + size)
        PROVE  c[p] = b[p]
    <3>1. p \in 1..top
      BY <1>1
    <3>2. CASE p <= at
      BY <1>1, <1>2, <2>3, <3>1, <3>2
    <3>3. CASE p > at /\ p <= at + MaxEntrySize
      <4>1. p - (at + 1) + 1 = p - at /\ p - at \in 1..size /\ at + (p - at) = p
        BY <1>1, <3>3
      <4>2. c[p] = e[p - at]
        BY <1>1, <2>3, <3>1, <3>3, <4>1
      <4> QED BY <2>1, <4>1, <4>2
    <3>4. CASE p > at + MaxEntrySize
      <4>1. p - at \in 1..size /\ at + (p - at) = p /\ size > MaxEntrySize
        BY <1>1, <3>4
      <4>2. isRun
        BY <1>1, <2>4, <4>1
      <4>3. b[p] = 0
        BY <2>1, <2>4, <4>1, <4>2
      <4>4. c[p] = o[p] /\ o[p] = 0
        BY <1>1, <1>2, <2>3, <3>1, <3>4
      <4> QED BY <4>3, <4>4
    <3> QED BY <1>1, <3>2, <3>3, <3>4
  <2>6. ASSUME NEW p \in (at + size + MaxEntrySize)..top
        PROVE  c[p] = 0
    <3>1. p \in 1..top /\ p >= at + 1 + MaxEntrySize /\ p \in (at + MaxEntrySize)..top
      BY <1>1
    <3> QED BY <1>2, <2>3, <3>1
  <2> QED BY <1>3, <2>3, <2>5, <2>6 DEF DecodedTo, c, size, top
<1>4. CASE ~(w.index > 1)
  <2> DEFINE c == [o EXCEPT ![at + 1] = w.value]
  <2>1. w.index \in Nat /\ w.value = b[at + 1] /\ size = 1
    BY <1>4 DEF Stands, Word, Width
  <2>2. /\ DOMAIN c = 1..top /\ c[at + 1] = b[at + 1]
        /\ \A p \in 1..top : p # at + 1 => c[p] = o[p]
    BY <1>1, <1>2, <2>1
  <2> HIDE DEF c
  <2>3. \A p \in 1..(at + size) : c[p] = b[p]
    BY <1>1, <1>2, <2>1, <2>2
  <2>4. \A p \in (at + size + MaxEntrySize)..top : c[p] = 0
    BY <1>1, <1>2, <2>1, <2>2
  <2> QED BY <1>4, <2>2, <2>3, <2>4 DEF DecodedTo, c
<1> QED BY <1>3, <1>4

-----------------------------------------------------------------------------
(* What the encoders take stands for the integers at the position.         *)

(***************************************************************************)
(* The run found at a position is inside the block and consists of zeros,  *)
(* as many as there are or as the longest run has.                         *)
(***************************************************************************)
LEMMA RunFacts ==
    ASSUME in \in [1..n -> Nat], NEW i \in 0..n
    PROVE  /\ RunSize(i) \in Nat /\ i + RunSize(i) <= n
           /\ \A j \in 1..RunSize(i) : in[i + j] = 0
           /\ RunSize(i) = Minimum(Runs[1], n - i) \/ in[i + RunSize(i) + 1] # 0
<1> DEFINE limit == Minimum(Runs[1], n - i)
           Zero(z) == \A j \in 1..z : in[i + j] = 0
           S == {z \in 0..limit : Zero(z)}
           Found(z) == Zero(z) /\ (z = limit \/ in[i + z + 1] # 0)
<1>1. n \in Nat /\ i \in Nat /\ i <= n /\ Runs[1] \in Nat
  BY BlockSizeAssumption, RunsAssumption DEF n
<1>2. limit \in Nat /\ i + limit <= n
  BY <1>1 DEF Minimum
<1>3. RunSize(i) = CHOOSE z \in 0..limit : Found(z)
  BY DEF RunSize
<1> HIDE DEF limit
<1>4. \E z \in 0..limit : Found(z)
  <2>1. S \subseteq Nat /\ S # {} /\ \A z \in S : z <= limit
    <3>1. 0 \in S
      BY <1>2
    <3> QED BY <1>2, <3>1
  <2>2. PICK z \in S : \A y \in S : y <= z
    <3> HIDE DEF S
    <3> QED BY <1>2, <2>1, GreatestNat
  <2>3. z \in 0..limit /\ Zero(z)
    OBVIOUS
  <2>4. ASSUME z # limit, in[i + z + 1] = 0
        PROVE  FALSE
    <3>1. z + 1 \in 0..limit /\ i + z + 1 = i + (z + 1)
      BY <1>1, <1>2, <2>3, <2>4
    <3>2. \A j \in 1..(z + 1) : j \in 1..z \/ j = z + 1
      BY <1>2, <2>3
    <3>3. Zero(z + 1)
      BY <2>3, <2>4, <3>1, <3>2
    <3>4. z + 1 \in S
      BY <3>1, <3>3
    <3>5. z + 1 <= z
      BY <2>2, <3>4
    <3> QED BY <1>2, <2>3, <3>5
  <2> QED BY <2>3, <2>4
<1>5. RunSize(i) \in 0..limit /\ Found(RunSize(i))
  <2> HIDE DEF Found
  <2> QED BY <1>3, <1>4
<1> QED BY <1>1, <1>2, <1>5 DEF limit

(***************************************************************************)
(* The greedy encoder finds a run that is not longer than the zeros.       *)
(***************************************************************************)
LEMMA GreedyRunFacts ==
    ASSUME NEW z \in Nat, z >= Runs[Len(Runs)]
    PROVE  GreedyRun(z) \in 1..Len(Runs) /\ Runs[GreedyRun(z)] <= z
<1> DEFINE k == Len(Runs)
           S == {r \in 1..k : Runs[r] <= z}
           First(r) == Runs[r] <= z /\ \A q \in 1..(r - 1) : Runs[q] > z
<1>1. k \in Nat \ {0} /\ \A r \in 1..k : Runs[r] \in Nat
  BY RunsAssumption
<1>2. GreedyRun(z) = CHOOSE r \in 1..k : First(r)
  BY DEF GreedyRun
<1>3. k \in S
  BY <1>1
<1> HIDE DEF k
<1>4. S \subseteq Nat
  BY <1>1
<1>5. PICK r \in S : \A q \in S : r <= q
  <2> HIDE DEF S
  <2> QED BY <1>3, <1>4, LeastNat
<1>6. r \in 1..k /\ Runs[r] <= z
  OBVIOUS
<1>7. ASSUME NEW q \in 1..(r - 1)
      PROVE  Runs[q] > z
  <2>1. q \in 1..k /\ q < r
    BY <1>1, <1>6
  <2>2. q \notin S
    BY <1>1, <1>5, <1>6, <2>1
  <2> QED BY <1>1, <2>1, <2>2
<1>8. GreedyRun(z) \in 1..k /\ First(GreedyRun(z))
  <2>1. First(r)
    BY <1>6, <1>7
  <2> HIDE DEF First
  <2> QED BY <1>2, <1>6, <2>1
<1> QED BY <1>8 DEF k

(***************************************************************************)
(* A codeword of a run that is not longer than the zeros stands for them.  *)
(***************************************************************************)
LEMMA RunStands ==
    ASSUME IsDictionary(dict), in \in [1..n -> Nat], NEW i \in 0..n,
           NEW r \in 1..Len(Runs), Runs[r] <= RunSize(i)
    PROVE  /\ Stands(dict, in, Codeword(EXCEPTIONS + r - 1), i)
           /\ Width(dict, Codeword(EXCEPTIONS + r - 1)) = Runs[r]
<1> DEFINE w == EXCEPTIONS + r - 1
           d == dict
           k == Len(d.targets)
<1>1. Len(Runs) \in Nat /\ k \in Nat /\ Runs[r] \in Nat \ {0} /\ i \in Nat /\ n \in Nat
  BY RunsAssumption, BlockSizeAssumption DEF IsDictionary, n
<1>2. DictSize(d) = 2 + Len(Runs) + k
  BY <1>1 DEF DictSize, reserved, EXCEPTIONS
<1> HIDE DEF k
<1>3. w \in EXCEPTIONS..(DictSize(d) - 1) /\ IsRun(w) /\ w \in Nat /\ w > 1
      /\ w - EXCEPTIONS + 1 = r
  BY <1>1, <1>2 DEF IsRun, reserved, EXCEPTIONS
<1>4. Codeword(w) = [index |-> w, value |-> 0]
  BY DEF Codeword
<1> HIDE DEF w
<1>5. EntrySize(d, w) = Runs[r]
  BY <1>3 DEF EntrySize
<1>6. Width(d, Codeword(w)) = Runs[r]
  BY <1>3, <1>4, <1>5 DEF Width
<1>7. \A p \in 1..Runs[r] : Entry(d, w)[p] = 0
  BY <1>3, <1>5, EntryFacts
<1>8. RunSize(i) \in Nat /\ i + RunSize(i) <= n /\ \A j \in 1..RunSize(i) : in[i + j] = 0
  BY RunFacts
<1>9. /\ i + Runs[r] <= n
      /\ \A p \in 1..Runs[r] : in[i + p] = 0
  BY <1>1, <1>8
<1>10. Stands(d, in, Codeword(w), i)
  BY <1>1, <1>3, <1>4, <1>6, <1>7, <1>9 DEF Stands, Word
<1> QED BY <1>6, <1>10 DEF w

(***************************************************************************)
(* A codeword that was looked up for a sub-block stands for it.            *)
(***************************************************************************)
LEMMA TargetStands ==
    ASSUME IsDictionary(dict), in \in [1..n -> Nat], NEW i \in 0..n, i < n,
           NEW s \in 1..Len(TargetSizes), SubBlockCode(i, s) # invalid_index
    PROVE  /\ Stands(dict, in, Codeword(SubBlockCode(i, s)), i)
           /\ Width(dict, Codeword(SubBlockCode(i, s))) = Minimum(TargetSizes[s], n - i)
<1> DEFINE w == SubBlockCode(i, s)
           d == dict
           k == Minimum(TargetSizes[s], n - i)
           a == i + 1
           z == i + k
           sub == SubBlock(i, TargetSizes[s])
<1>1. n \in Nat /\ i \in Nat /\ TargetSizes[s] \in Nat \ {0}
  BY BlockSizeAssumption, TargetSizesAssumption, MaxEntrySizeAssumption DEF n
<1>2. k \in Nat \ {0} /\ i + k <= n
  BY <1>1 DEF Minimum
<1>3. sub = SubSeq(in, a, z)
  BY DEF SubBlock
<1> HIDE DEF k
<1>4. a \in Int /\ z \in Int /\ \A j \in a..z : j \in 1..n /\ in[j] \in Nat
  BY <1>1, <1>2
<1>5. z - a + 1 = k /\ \A p \in 1..k : a + p - 1 = i + p
  BY <1>1, <1>2
<1>6. Len(SubSeq(in, a, z)) = k /\ \A p \in 1..k : SubSeq(in, a, z)[p] = in[i + p]
  <2> HIDE DEF a, z
  <2>1. a <= z + 1
    BY <1>2, <1>4, <1>5
  <2>2. /\ Len(SubSeq(in, a, z)) = z - a + 1
        /\ \A p \in 1..(z - a + 1) : SubSeq(in, a, z)[p] = in[a + p - 1]
    BY <1>4, <2>1, SubSeqProperties
  <2> QED BY <1>5, <2>2
<1>7. w = Lookup(d, sub)
  BY DEF SubBlockCode
<1> HIDE DEF sub
<1>8. w \in EXCEPTIONS..(DictSize(d) - 1) /\ Entry(d, w) = sub
  BY <1>7, LookupFacts
<1> HIDE DEF w
<1>9. EntrySize(d, w) = k /\ \A p \in 1..k : Entry(d, w)[p] = in[i + p]
  BY <1>3, <1>6, <1>8, EntryFacts
<1>10. w \in Nat /\ w > 1
  <2> DEFINE top == DictSize(d) - 1
  <2>1. w \in 2..top
    BY <1>8 DEF EXCEPTIONS
  <2> HIDE DEF top
  <2> QED BY <2>1
<1>11. Codeword(w) = [index |-> w, value |-> 0]
  BY DEF Codeword
<1>12. Width(d, Codeword(w)) = k
  BY <1>9, <1>10, <1>11 DEF Width
<1>13. Stands(d, in, Codeword(w), i)
  BY <1>2, <1>8, <1>9, <1>10, <1>11, <1>12 DEF Stands, Word
<1> QED BY <1>12, <1>13 DEF w, k

(***************************************************************************)
(* An exception stands for the integer that is next.                       *)
(***************************************************************************)
LEMMA ExceptionStands ==
    ASSUME IsDictionary(dict), in \in [1..n -> Nat], NEW i \in 0..n, i < n,
           NEW x \in {0, 1}, x = 0 => IsSmall(in[i + 1])
    PROVE  /\ Stands(dict, in, ExceptionCode(x, in[i + 1]), i)
           /\ Width(dict, ExceptionCode(x, in[i + 1])) = 1
<1> DEFINE v == in[i + 1]
           w == ExceptionCode(x, v)
<1>1. n \in Nat /\ i \in Nat /\ SmallLimit \in Nat \ {0}
  BY BlockSizeAssumption, SmallLimitAssumption DEF n
<1>2. i + 1 \in 1..n
  BY <1>1
<1>3. v \in Nat
  BY <1>2
<1>4. x = 0 => v < SmallLimit
  BY DEF IsSmall
<1>5. w = [index |-> x, value |-> IF x = 0 THEN v % SmallLimit ELSE v]
  BY DEF ExceptionCode
<1>6. w.index = x /\ w.value = IF x = 0 THEN v % SmallLimit ELSE v
  BY <1>5
<1>7. ASSUME x = 0 PROVE v % SmallLimit = v
  <2> DEFINE u == v
  <2>1. u \in Nat /\ u < SmallLimit
    BY <1>3, <1>4, <1>7
  <2> HIDE DEF u
  <2>2. u % SmallLimit = u
    BY <1>1, <2>1
  <2> QED BY <2>2 DEF u
<1>8. w.value = v
  BY <1>6, <1>7
<1>9. w \in Word
  BY <1>3, <1>5, <1>6, <1>8 DEF Word
<1>10. Width(dict, w) = 1
  BY <1>6 DEF Width
<1> QED BY <1>1, <1>6, <1>8, <1>9, <1>10 DEF Stands

-----------------------------------------------------------------------------
(* The way the optimal encoder keeps to each position.                     *)

\* The word that is written for a node of the path.
NodeWord(codeword, parent) ==
    IF codeword > 1 THEN Codeword(codeword) ELSE ExceptionCode(codeword, in[parent + 1])

\* A codeword, taken behind a position, stands for what is between the two.
Leads(codeword, parent, to) ==
    /\ codeword \in Nat
    /\ Stands(dict, in, NodeWord(codeword, parent), parent)
    /\ parent + Width(dict, NodeWord(codeword, parent)) = to

PathOK ==
    \A j \in 1..n : path[j].parent \in 0..(j - 1) /\ Leads(path[j].codeword, path[j].parent, j)

(***************************************************************************)
(* Every offer of an iteration leads to the end of what it covers.         *)
(***************************************************************************)
LEMMA OfferLeads ==
    ASSUME IsDictionary(dict), in \in [1..n -> Nat], NEW i \in 0..n, i < n,
           NEW o \in Offers(i)
    PROVE  o.len \in Nat \ {0} /\ Leads(o.codeword, i, i + o.len)
<1>1. n \in Nat /\ i \in Nat /\ Len(Runs) \in Nat
  BY BlockSizeAssumption, RunsAssumption DEF n
<1>2. CASE o \in RunOffers(i)
  <2>1. PICK r \in 1..Len(Runs) : /\ Runs[r] <= RunSize(i)
                                  /\ o.len = Runs[r] /\ o.codeword = EXCEPTIONS + r - 1
    BY <1>2 DEF RunOffers
  <2>2. EXCEPTIONS + r - 1 \in Nat /\ EXCEPTIONS + r - 1 > 1 /\ Runs[r] \in Nat \ {0}
    BY <1>1, RunsAssumption DEF EXCEPTIONS
  <2>3. NodeWord(o.codeword, i) = Codeword(EXCEPTIONS + r - 1)
    BY <2>1, <2>2 DEF NodeWord
  <2>4. /\ Stands(dict, in, Codeword(EXCEPTIONS + r - 1), i)
        /\ Width(dict, Codeword(EXCEPTIONS + r - 1)) = Runs[r]
    BY <2>1, RunStands
  <2> QED BY <2>1, <2>2, <2>3, <2>4 DEF Leads
<1>3. CASE o \in TargetOffers(i)
  <2>1. PICK s \in 1..Len(TargetSizes) :
            /\ SubBlockCode(i, s) # invalid_index
            /\ o.len = Minimum(TargetSizes[s], n - i) /\ o.codeword = SubBlockCode(i, s)
    BY <1>3 DEF TargetOffers
  <2>2. /\ Stands(dict, in, Codeword(SubBlockCode(i, s)), i)
        /\ Width(dict, Codeword(SubBlockCode(i, s))) = Minimum(TargetSizes[s], n - i)
    BY <2>1, TargetStands
  <2>3. SubBlockCode(i, s) \in Nat /\ SubBlockCode(i, s) > 1
    <3> DEFINE w == SubBlockCode(i, s)
               top == DictSize(dict) - 1
    <3>1. w \in EXCEPTIONS..top
      BY <2>1, LookupFacts DEF SubBlockCode
    <3> HIDE DEF w, top
    <3>2. w \in Nat /\ w > 1
      BY <3>1 DEF EXCEPTIONS
    <3> QED BY <3>2 DEF w
  <2>4. NodeWord(o.codeword, i) = Codeword(SubBlockCode(i, s))
    BY <2>1, <2>3 DEF NodeWord
  <2>5. Minimum(TargetSizes[s], n - i) \in Nat \ {0}
    BY <1>1, TargetSizesAssumption, MaxEntrySizeAssumption DEF Minimum
  <2> QED BY <2>1, <2>2, <2>3, <2>4, <2>5 DEF Leads
<1>4. CASE o \in ExceptionOffers(i)
  <2>1. /\ o.len = 1 /\ o.codeword \in {0, 1}
        /\ o.codeword = 0 => IsSmall(in[i + 1])
    BY <1>4 DEF ExceptionOffers
  <2>2. NodeWord(o.codeword, i) = ExceptionCode(o.codeword, in[i + 1])
    BY <2>1 DEF NodeWord
  <2>3. /\ Stands(dict, in, ExceptionCode(o.codeword, in[i + 1]), i)
        /\ Width(dict, ExceptionCode(o.codeword, in[i + 1])) = 1
    BY <2>1, ExceptionStands
  <2> QED BY <2>1, <2>2, <2>3 DEF Leads
<1> QED BY <1>2, <1>3, <1>4 DEF Offers

(***************************************************************************)
(* Before the first iteration every node is a large exception.             *)
(***************************************************************************)
LEMMA InitialPathOK ==
    ASSUME IsDictionary(dict), in \in [1..n -> Nat], path = InitialPath
    PROVE  PathOK
<1>1. n \in Nat
  BY BlockSizeAssumption DEF n
<1>2. ASSUME NEW j \in 1..n
      PROVE  path[j].parent \in 0..(j - 1) /\ Leads(path[j].codeword, path[j].parent, j)
  <2>1. path[j].parent = j - 1 /\ path[j].codeword = 1
    BY <1>1 DEF InitialPath
  <2>2. j - 1 \in 0..n /\ j - 1 < n /\ (j - 1) + 1 = j /\ j - 1 \in 0..(j - 1)
    BY <1>1
  <2>3. /\ Stands(dict, in, ExceptionCode(1, in[(j - 1) + 1]), j - 1)
        /\ Width(dict, ExceptionCode(1, in[(j - 1) + 1])) = 1
    <3> DEFINE i == j - 1
    <3>1. i \in 0..n /\ i < n
      BY <2>2
    <3> HIDE DEF i
    <3>2. /\ Stands(dict, in, ExceptionCode(1, in[i + 1]), i)
          /\ Width(dict, ExceptionCode(1, in[i + 1])) = 1
      BY <3>1, ExceptionStands
    <3> QED BY <3>2 DEF i
  <2>4. NodeWord(1, j - 1) = ExceptionCode(1, in[(j - 1) + 1])
    BY DEF NodeWord
  <2> QED BY <2>1, <2>2, <2>3, <2>4 DEF Leads
<1> QED BY <1>2 DEF PathOK

(***************************************************************************)
(* What an offer costs.                                                    *)
(***************************************************************************)
LEMMA OfferCosts ==
    ASSUME NEW i \in 0..n, i < n, IsDictionary(dict), NEW o \in Offers(i)
    PROVE  /\ o.cost = path[i].cost + Cost(o.codeword)
           /\ Cost(o.codeword) \in 1..3
<1>1. CASE o \in RunOffers(i)
  <2>1. PICK r \in 1..Len(Runs) : o.cost = path[i].cost + 1 /\ o.codeword = EXCEPTIONS + r - 1
    BY <1>1 DEF RunOffers
  <2>2. o.codeword > EXCEPTIONS - 1
    BY <2>1, RunsAssumption DEF EXCEPTIONS
  <2> QED BY <2>1, <2>2 DEF Cost
<1>2. CASE o \in TargetOffers(i)
  <2>1. PICK s \in 1..Len(TargetSizes) :
            /\ SubBlockCode(i, s) # invalid_index
            /\ o.codeword = SubBlockCode(i, s) /\ o.cost = path[i].cost + 1
    BY <1>2 DEF TargetOffers
  <2>2. o.codeword \in EXCEPTIONS..(DictSize(dict) - 1)
    BY <2>1, LookupFacts DEF SubBlockCode
  <2>3. o.codeword > EXCEPTIONS - 1
    <3> DEFINE top == DictSize(dict) - 1
    <3>1. o.codeword \in EXCEPTIONS..top
      BY <2>2
    <3> HIDE DEF top
    <3> QED BY <3>1 DEF EXCEPTIONS
  <2> QED BY <2>1, <2>3 DEF Cost
<1>3. CASE o \in ExceptionOffers(i)
  <2>1. \/ o.codeword = 0 /\ o.cost = path[i].cost + 2
        \/ o.codeword = 1 /\ o.cost = path[i].cost + 3
    BY <1>3 DEF ExceptionOffers
  <2> QED BY <2>1 DEF Cost, EXCEPTIONS
<1> QED BY <1>1, <1>2, <1>3 DEF Offers

\* The costs of the nodes are numbers.
Priced == \A j \in 0..n : path[j].cost \in Nat

(***************************************************************************)
(* What an iteration does to the node of a position: nothing, or it puts   *)
(* in the cheapest offer that ends there.                                  *)
(***************************************************************************)
LEMMA RelaxEffect ==
    ASSUME IsDictionary(dict), in \in [1..n -> Nat], pos \in 0..n, Priced, RelaxStep,
           NEW j \in 0..n
    PROVE  /\ \/ path'[j] = path[j]
              \/ \E o \in Better(j) : path'[j] = [parent |-> pos, codeword |-> o.codeword, cost |-> o.cost]
           /\ path'[j].cost \in Nat /\ path'[j].cost <= path[j].cost
           /\ \A o \in Offers(pos) : pos + o.len = j => path'[j].cost <= o.cost
<1>1. n \in Nat /\ pos \in Nat /\ pos < n /\ pos \in 0..n
  BY BlockSizeAssumption DEF n, RelaxStep
<1> DEFINE better == Better(j)
           Best(o) == \A q \in better : Preferred(o, q)
           best == CHOOSE o \in better : Best(o)
<1>2. path'[j] = IF better = {} THEN path[j]
                 ELSE [parent |-> pos, codeword |-> best.codeword, cost |-> best.cost]
  BY DEF RelaxStep, Relaxed
<1>3. path[j].cost \in Nat /\ path[pos].cost \in Nat
  BY <1>1 DEF Priced
<1>4. \A o \in Offers(pos) : o.cost \in Nat /\ o.codeword \in Nat
  <2> TAKE o \in Offers(pos)
  <2>1. o.cost = path[pos].cost + Cost(o.codeword) /\ Cost(o.codeword) \in 1..3
    BY <1>1, OfferCosts
  <2>2. o.codeword \in Nat
    BY <1>1, OfferLeads DEF Leads
  <2> QED BY <1>3, <2>1, <2>2
<1>5. \A o \in better : o \in Offers(pos) /\ pos + o.len = j /\ o.cost < path[j].cost
  BY DEF Better
<1>6. \A o \in Offers(pos) : pos + o.len = j /\ o.cost < path[j].cost => o \in better
  BY DEF Better
<1> HIDE DEF better
<1>7. CASE better = {}
  <2>1. path'[j] = path[j]
    BY <1>2, <1>7
  <2>2. \A o \in Offers(pos) : pos + o.len = j => path[j].cost <= o.cost
    BY <1>3, <1>4, <1>6, <1>7
  <2> QED BY <1>3, <2>1, <2>2
<1>8. CASE better # {}
  <2>1. \E o \in better : Best(o)
    <3> DEFINE S == {o.cost : o \in better}
    <3>1. S \subseteq Nat /\ S # {}
      BY <1>4, <1>5, <1>8
    <3>2. PICK c \in S : \A q \in S : c <= q
      <4> HIDE DEF S
      <4> QED BY <3>1, LeastNat
    <3> DEFINE T == {o.codeword : o \in {q \in better : q.cost = c}}
    <3>3. T \subseteq Nat /\ T # {}
      BY <1>4, <1>5, <3>2
    <3>4. PICK d \in T : \A q \in T : d <= q
      <4> HIDE DEF T
      <4> QED BY <3>3, LeastNat
    <3>5. PICK o \in better : o.cost = c /\ o.codeword = d
      BY <3>4
    <3>6. ASSUME NEW q \in better PROVE Preferred(o, q)
      <4>1. q.cost \in S /\ c <= q.cost /\ q.cost \in Nat /\ c \in Nat
        BY <1>4, <1>5, <3>1, <3>2
      <4>2. q.cost = c => d <= q.codeword
        BY <3>4
      <4> QED BY <3>5, <4>1, <4>2 DEF Preferred
    <3> QED BY <3>6
  <2>2. best \in better /\ Best(best)
    <3> HIDE DEF Best
    <3> QED BY <2>1
  <2> HIDE DEF best
  <2>3. path'[j] = [parent |-> pos, codeword |-> best.codeword, cost |-> best.cost]
    BY <1>2, <1>8
  <2>4. best.cost \in Nat /\ best.cost < path[j].cost /\ path'[j].cost = best.cost
    BY <1>4, <1>5, <2>2, <2>3
  <2>5. ASSUME NEW o \in Offers(pos), pos + o.len = j
        PROVE  best.cost <= o.cost
    <3>1. o.cost \in Nat
      BY <1>4
    <3>2. CASE o.cost < path[j].cost
      <4>1. Preferred(best, o)
        BY <1>6, <2>2, <2>5, <3>2
      <4> QED BY <2>4, <3>1, <4>1 DEF Preferred
    <3>3. CASE ~(o.cost < path[j].cost)
      BY <1>3, <2>4, <3>1, <3>3
    <3> QED BY <3>2, <3>3
  <2>6. \E o \in Better(j) : path'[j] = [parent |-> pos, codeword |-> o.codeword, cost |-> o.cost]
    BY <2>2, <2>3 DEF better
  <2>7. path'[j].cost \in Nat /\ path'[j].cost <= path[j].cost
    BY <1>3, <2>4
  <2> QED BY <2>4, <2>5, <2>6, <2>7
<1> QED BY <1>7, <1>8

(***************************************************************************)
(* An iteration replaces nodes by offers of its position.                  *)
(***************************************************************************)
LEMMA RelaxKeepsPath ==
    ASSUME IsDictionary(dict), in \in [1..n -> Nat], pos \in 0..n, PathOK, Priced, RelaxStep
    PROVE  PathOK' /\ Priced'
<1>1. n \in Nat /\ pos \in Nat /\ pos < n
  BY BlockSizeAssumption DEF n, RelaxStep
<1>2. in' = in /\ dict' = dict
  BY DEF RelaxStep
<1>3. ASSUME NEW j \in 1..n
      PROVE  path'[j].parent \in 0..(j - 1) /\ Leads(path'[j].codeword, path'[j].parent, j)
  <2>1. j \in 0..n
    BY <1>1
  <2>2. CASE path'[j] = path[j]
    BY <2>2 DEF PathOK
  <2>3. ASSUME NEW o \in Better(j),
               path'[j] = [parent |-> pos, codeword |-> o.codeword, cost |-> o.cost]
        PROVE  path'[j].parent \in 0..(j - 1) /\ Leads(path'[j].codeword, path'[j].parent, j)
    <3>1. o \in Offers(pos) /\ pos + o.len = j
      BY DEF Better
    <3>2. o.len \in Nat \ {0} /\ Leads(o.codeword, pos, pos + o.len)
      BY <1>1, <3>1, OfferLeads
    <3>3. pos \in 0..(j - 1)
      BY <1>1, <3>1, <3>2
    <3>4. path'[j].parent = pos /\ path'[j].codeword = o.codeword
      BY <2>3
    <3> QED BY <3>1, <3>2, <3>3, <3>4
  <2> QED BY <2>1, <2>2, <2>3, RelaxEffect
<1>4. Priced'
  <2>1. \A j \in 0..n : path'[j].cost \in Nat
    BY RelaxEffect
  <2> QED BY <2>1 DEF Priced
<1> QED BY <1>2, <1>3, <1>4 DEF PathOK, Leads, NodeWord

-----------------------------------------------------------------------------
(* Sequences of words.                                                     *)

\* The words c stand for the integers from one position to another: the k-th
\* begins at cut[k], where the one before it ends.
IsCut(d, b, c, cut, from, to) ==
    /\ cut \in [1..(Len(c) + 1) -> 0..n]
    /\ cut[1] = from /\ cut[Len(c) + 1] = to
    /\ \A k \in 1..Len(c) : Stands(d, b, c[k], cut[k]) /\ cut[k + 1] = cut[k] + Width(d, c[k])

Covers(d, b, c, from, to) ==
    c \in Seq(Word) /\ \E cut \in [1..(Len(c) + 1) -> 0..n] : IsCut(d, b, c, cut, from, to)

(***************************************************************************)
(* No word stands for nothing.                                             *)
(***************************************************************************)
LEMMA EmptyCovers ==
    ASSUME NEW d, NEW b, NEW at \in 0..n
    PROVE  Covers(d, b, <<>>, at, at)
<1> DEFINE cut == [k \in 1..1 |-> at]
<1>1. Len(<<>>) = 0 /\ <<>> \in Seq(Word)
  OBVIOUS
<1>2. cut \in [1..1 -> 0..n] /\ cut[1] = at
  OBVIOUS
<1> HIDE DEF cut
<1>3. IsCut(d, b, <<>>, cut, at, at)
  BY <1>1, <1>2 DEF IsCut
<1> QED BY <1>1, <1>2, <1>3 DEF Covers

(***************************************************************************)
(* One word more at the end.                                               *)
(***************************************************************************)
LEMMA AppendCovers ==
    ASSUME NEW d, NEW b, NEW c, NEW from, NEW to \in 0..n, Covers(d, b, c, from, to),
           NEW w, Stands(d, b, w, to)
    PROVE  Covers(d, b, Append(c, w), from, to + Width(d, w))
<1>1. PICK cut \in [1..(Len(c) + 1) -> 0..n] : IsCut(d, b, c, cut, from, to)
  BY DEF Covers
<1> DEFINE m == Len(c)
           e == Append(c, w)
           end == to + Width(d, w)
           longer == [k \in 1..(m + 2) |-> IF k <= m + 1 THEN cut[k] ELSE end]
<1>2. n \in Nat /\ w \in Word /\ c \in Seq(Word) /\ end \in 0..n
  BY BlockSizeAssumption DEF n, Stands, Covers
<1>3. m \in Nat /\ Len(e) = m + 1 /\ e \in Seq(Word) /\ e[m + 1] = w
      /\ \A k \in 1..m : e[k] = c[k]
  BY <1>2
<1>4. /\ cut[1] = from /\ cut[m + 1] = to
      /\ \A k \in 1..m : Stands(d, b, c[k], cut[k]) /\ cut[k + 1] = cut[k] + Width(d, c[k])
      /\ \A k \in 1..(m + 1) : cut[k] \in 0..n
  BY <1>1 DEF IsCut
<1> HIDE DEF m, e, end
<1>5. /\ longer \in [1..(m + 2) -> 0..n]
      /\ longer[m + 2] = end
      /\ \A k \in 1..(m + 1) : longer[k] = cut[k]
  BY <1>2, <1>3, <1>4
<1> HIDE DEF longer
<1>6. ASSUME NEW k \in 1..(m + 1)
      PROVE  Stands(d, b, e[k], longer[k]) /\ longer[k + 1] = longer[k] + Width(d, e[k])
  <2>1. CASE k = m + 1
    <3>1. longer[k] = to /\ e[k] = w /\ k + 1 = m + 2
      BY <1>3, <1>4, <1>5, <2>1
    <3> QED BY <1>5, <3>1 DEF end
  <2>2. CASE k # m + 1
    <3>1. k \in 1..m /\ k + 1 \in 1..(m + 1)
      BY <1>3, <2>2
    <3> QED BY <1>3, <1>4, <1>5, <3>1
  <2> QED BY <2>1, <2>2
<1>7. longer[1] = from /\ (m + 1) + 1 = m + 2
  BY <1>3, <1>4, <1>5
<1>8. IsCut(d, b, e, longer, from, end)
  BY <1>3, <1>5, <1>6, <1>7 DEF IsCut
<1>9. longer \in [1..(Len(e) + 1) -> 0..n]
  BY <1>3, <1>5, <1>7
<1> QED BY <1>3, <1>8, <1>9 DEF Covers, e, end

(***************************************************************************)
(* One word more in front.                                                 *)
(***************************************************************************)
LEMMA PrependCovers ==
    ASSUME NEW d, NEW b, NEW c, NEW from \in 0..n, NEW to, NEW start \in 0..n,
           Covers(d, b, c, from, to),
           NEW w, Stands(d, b, w, start), start + Width(d, w) = from
    PROVE  Covers(d, b, <<w>> \o c, start, to)
<1>1. PICK cut \in [1..(Len(c) + 1) -> 0..n] : IsCut(d, b, c, cut, from, to)
  BY DEF Covers
<1> DEFINE m == Len(c)
           e == <<w>> \o c
           longer == [k \in 1..(m + 2) |-> IF k = 1 THEN start ELSE cut[k - 1]]
<1>2. n \in Nat /\ w \in Word /\ c \in Seq(Word)
  BY BlockSizeAssumption DEF n, Stands, Covers
<1>3. m \in Nat /\ Len(e) = m + 1 /\ e \in Seq(Word) /\ e[1] = w
      /\ \A k \in 2..(m + 1) : e[k] = c[k - 1]
  <2>1. <<w>> \in Seq(Word) /\ Len(<<w>>) = 1 /\ <<w>>[1] = w /\ m \in Nat
    BY <1>2
  <2>2. /\ e \in Seq(Word) /\ Len(e) = 1 + m
        /\ \A k \in 1..(1 + m) : e[k] = IF k <= 1 THEN <<w>>[k] ELSE c[k - 1]
    BY <1>2, <2>1, ConcatProperties
  <2> HIDE DEF e, m
  <2> QED BY <2>1, <2>2
<1>4. /\ cut[1] = from /\ cut[m + 1] = to
      /\ \A k \in 1..m : Stands(d, b, c[k], cut[k]) /\ cut[k + 1] = cut[k] + Width(d, c[k])
      /\ \A k \in 1..(m + 1) : cut[k] \in 0..n
  BY <1>1 DEF IsCut
<1> HIDE DEF m, e
<1>5. /\ longer \in [1..(m + 2) -> 0..n]
      /\ longer[1] = start
      /\ \A k \in 2..(m + 2) : longer[k] = cut[k - 1]
  BY <1>2, <1>3, <1>4
<1> HIDE DEF longer
<1>6. ASSUME NEW k \in 1..(m + 1)
      PROVE  Stands(d, b, e[k], longer[k]) /\ longer[k + 1] = longer[k] + Width(d, e[k])
  <2>1. CASE k = 1
    <3>1. longer[k] = start /\ e[k] = w /\ k + 1 \in 2..(m + 2) /\ (k + 1) - 1 = 1
      BY <1>3, <1>5, <2>1
    <3>2. longer[k + 1] = cut[1]
      BY <1>5, <3>1
    <3> QED BY <1>4, <3>1, <3>2
  <2>2. CASE k # 1
    <3>1. k \in 2..(m + 1) /\ k \in 2..(m + 2) /\ k + 1 \in 2..(m + 2)
          /\ k - 1 \in 1..m /\ (k - 1) + 1 = k /\ (k + 1) - 1 = k
      BY <1>3, <2>2
    <3>2. e[k] = c[k - 1] /\ longer[k] = cut[k - 1] /\ longer[k + 1] = cut[k]
      BY <1>3, <1>5, <3>1
    <3>3. /\ Stands(d, b, c[k - 1], cut[k - 1])
          /\ cut[(k - 1) + 1] = cut[k - 1] + Width(d, c[k - 1])
      BY <1>4, <3>1
    <3> QED BY <3>1, <3>2, <3>3
  <2> QED BY <2>1, <2>2
<1>7. (m + 1) + 1 = m + 2 /\ longer[m + 2] = to
  <2>1. m + 2 \in 2..(m + 2) /\ (m + 2) - 1 = m + 1
    BY <1>3
  <2> QED BY <1>4, <1>5, <2>1
<1>8. IsCut(d, b, e, longer, start, to)
  BY <1>3, <1>5, <1>6, <1>7 DEF IsCut
<1>9. longer \in [1..(Len(e) + 1) -> 0..n]
  BY <1>3, <1>5, <1>7
<1> QED BY <1>3, <1>8, <1>9 DEF Covers, e

-----------------------------------------------------------------------------
(* The invariant.                                                          *)

\* While the code is read, the next word begins where the decoder is.
Reading ==
    \E cut \in [1..(Len(code) + 1) -> 0..n] :
        /\ IsCut(dict, in, code, cut, 0, n)
        /\ ptr \in 1..(Len(code) + 1)
        /\ pos = cut[ptr]

Inv ==
    /\ in \in Inputs /\ dict \in Dictionaries
    /\ encoder \in {"greedy", "optimal"}
    /\ pc \in {"encode", "trace", "decode", "done"}
    /\ pos \in 0..n
    /\ code \in Seq(Word)
    /\ pc \in {"encode", "trace"} => ptr = 1 /\ DecodedTo(in, out, 0)
    /\ pc = "encode" => IF encoder = "greedy" THEN Covers(dict, in, code, 0, pos)
                                              ELSE code = <<>>
    /\ Priced
    /\ encoder = "optimal" => PathOK
    /\ pc = "trace" => encoder = "optimal" /\ Covers(dict, in, code, pos, n)
    /\ pc \in {"decode", "done"} => Reading /\ DecodedTo(in, out, pos)
    /\ pc = "done" => pos = n

(***************************************************************************)
(* What the assumptions say of a block and a dictionary.                   *)
(***************************************************************************)
LEMMA InputFacts ==
    ASSUME in \in Inputs, dict \in Dictionaries
    PROVE  in \in [1..n -> Nat] /\ IsDictionary(dict) /\ n \in Nat /\ n > 0
BY InputsAssumption, DictionariesAssumption, BlockSizeAssumption DEF n

(***************************************************************************)
(* Words that cover the whole block can be read from the first one on.     *)
(***************************************************************************)
LEMMA ReadingStarts ==
    ASSUME n \in Nat, Covers(dict, in, code, 0, n), ptr = 1, pos = 0
    PROVE  Reading
<1>1. PICK cut \in [1..(Len(code) + 1) -> 0..n] : IsCut(dict, in, code, cut, 0, n)
  BY DEF Covers
<1>2. Len(code) \in Nat
  BY DEF Covers
<1>3. cut[1] = 0 /\ 1 \in 1..(Len(code) + 1)
  BY <1>1, <1>2 DEF IsCut
<1> QED BY <1>1, <1>3 DEF Reading

(***************************************************************************)
(* The invariant holds before the first step.                              *)
(***************************************************************************)
LEMMA InvInit == Init => Inv
<1> SUFFICES ASSUME Init PROVE Inv
  OBVIOUS
<1>1. in \in Inputs /\ dict \in Dictionaries /\ encoder \in {"greedy", "optimal"}
      /\ pc = "encode" /\ pos = 0 /\ path = InitialPath /\ code = <<>> /\ ptr = 1
      /\ out = [p \in 1..(n + Overflow) |-> 0]
  BY DEF Init
<1>2. in \in [1..n -> Nat] /\ IsDictionary(dict) /\ n \in Nat
  BY <1>1, InputFacts
<1>3. pos \in 0..n /\ code \in Seq(Word)
  BY <1>1, <1>2
<1>4. DecodedTo(in, out, 0)
  <2>1. DOMAIN out = 1..(n + Overflow) /\ \A p \in 1..(n + Overflow) : out[p] = 0
    BY <1>1
  <2>2. \A p \in (0 + MaxEntrySize)..(n + Overflow) : p \in 1..(n + Overflow)
    BY <1>2, MaxEntrySizeAssumption, BlockSizeAssumption
  <2>3. \A p \in 1..0 : FALSE
    OBVIOUS
  <2> QED BY <2>1, <2>2, <2>3 DEF DecodedTo
<1>5. Covers(dict, in, <<>>, 0, 0)
  BY <1>2, <1>3, <1>1, EmptyCovers
<1>6. PathOK
  BY <1>1, <1>2, InitialPathOK
<1>7. Priced
  BY <1>1, <1>2 DEF Priced, InitialPath
<1> QED BY <1>1, <1>3, <1>4, <1>5, <1>6, <1>7 DEF Inv

(***************************************************************************)
(* The greedy encoder writes a word that stands at its position.           *)
(***************************************************************************)
LEMMA GreedyWrites ==
    ASSUME in \in Inputs, dict \in Dictionaries, pos \in 0..n, GreedyStep
    PROVE  \E w : /\ Stands(dict, in, w, pos)
                  /\ code' = Append(code, w) /\ pos' = pos + Width(dict, w)
<1>1. in \in [1..n -> Nat] /\ IsDictionary(dict) /\ n \in Nat /\ pos < n
  BY InputFacts DEF GreedyStep
<1> DEFINE z == RunSize(pos)
           found == {s \in 1..Len(TargetSizes) : SubBlockCode(pos, s) # invalid_index}
           First(f) == \A g \in found : f <= g
           s == CHOOSE f \in found : First(f)
           x == IF IsSmall(in[pos + 1]) THEN 0 ELSE 1
<1>2. CASE z >= Runs[Len(Runs)]
  <2>1. /\ code' = Append(code, Codeword(EXCEPTIONS + GreedyRun(z) - 1))
        /\ pos' = pos + Runs[GreedyRun(z)]
    BY <1>2 DEF GreedyStep
  <2>2. z \in Nat
    BY <1>1, RunFacts
  <2>3. GreedyRun(z) \in 1..Len(Runs) /\ Runs[GreedyRun(z)] <= RunSize(pos)
    BY <1>2, <2>2, GreedyRunFacts
  <2> HIDE DEF z
  <2>4. /\ Stands(dict, in, Codeword(EXCEPTIONS + GreedyRun(z) - 1), pos)
        /\ Width(dict, Codeword(EXCEPTIONS + GreedyRun(z) - 1)) = Runs[GreedyRun(z)]
    BY <1>1, <2>3, RunStands
  <2> QED BY <2>1, <2>4
<1>3. CASE ~(z >= Runs[Len(Runs)]) /\ found # {}
  <2>1. /\ code' = Append(code, Codeword(SubBlockCode(pos, s)))
        /\ pos' = pos + Minimum(TargetSizes[s], n - pos)
    BY <1>3 DEF GreedyStep
  <2>2. \A f \in found : f \in 1..Len(TargetSizes) /\ SubBlockCode(pos, f) # invalid_index
    OBVIOUS
  <2>3. found \subseteq Nat
    BY TargetSizesAssumption
  <2> HIDE DEF found
  <2>4. \E f \in found : First(f)
    BY <1>3, <2>3, LeastNat
  <2>5. s \in found
    <3> HIDE DEF First
    <3> QED BY <2>4
  <2> HIDE DEF s
  <2>6. /\ Stands(dict, in, Codeword(SubBlockCode(pos, s)), pos)
        /\ Width(dict, Codeword(SubBlockCode(pos, s))) = Minimum(TargetSizes[s], n - pos)
    BY <1>1, <2>2, <2>5, TargetStands
  <2> QED BY <2>1, <2>6
<1>4. CASE ~(z >= Runs[Len(Runs)]) /\ found = {}
  <2>1. /\ code' = Append(code, ExceptionCode(x, in[pos + 1]))
        /\ pos' = pos + 1
    BY <1>4 DEF GreedyStep
  <2>2. x \in {0, 1} /\ (x = 0 => IsSmall(in[pos + 1]))
    OBVIOUS
  <2> HIDE DEF x
  <2>3. /\ Stands(dict, in, ExceptionCode(x, in[pos + 1]), pos)
        /\ Width(dict, ExceptionCode(x, in[pos + 1])) = 1
    BY <1>1, <2>2, ExceptionStands
  <2> QED BY <2>1, <2>3
<1> QED BY <1>2, <1>3, <1>4

(***************************************************************************)
(* The decoder reads the word that begins where it is: it is not at the    *)
(* end of the code while it is not at the end of the block, and it comes   *)
(* to where the next word begins.                                          *)
(***************************************************************************)
LEMMA DecodeReads ==
    ASSUME Inv, DecodeStep
    PROVE  /\ pos' \in 0..n
           /\ Reading'
           /\ DecodedTo(in, out', pos')
<1>1. /\ in \in [1..n -> Nat] /\ IsDictionary(dict) /\ n \in Nat
      /\ pos \in 0..n /\ pos # n /\ code \in Seq(Word) /\ DecodedTo(in, out, pos) /\ Reading
  BY InputFacts DEF Inv, DecodeStep
<1>2. PICK cut \in [1..(Len(code) + 1) -> 0..n] :
        /\ IsCut(dict, in, code, cut, 0, n)
        /\ ptr \in 1..(Len(code) + 1)
        /\ pos = cut[ptr]
  BY <1>1 DEF Reading
<1> DEFINE w == code[ptr]
           m == Len(code)
<1>3. m \in Nat
  BY <1>1
<1>4. /\ cut[m + 1] = n
      /\ \A k \in 1..m : Stands(dict, in, code[k], cut[k])
                         /\ cut[k + 1] = cut[k] + Width(dict, code[k])
      /\ \A k \in 1..(m + 1) : cut[k] \in 0..n
  BY <1>2 DEF IsCut
<1>5. ptr \in 1..m /\ ptr + 1 \in 1..(m + 1)
  <2> HIDE DEF m
  <2>1. ptr \in 1..(m + 1) /\ ptr # m + 1
    BY <1>1, <1>2, <1>4 DEF m
  <2> QED BY <1>3, <2>1
<1>6. Stands(dict, in, w, pos) /\ cut[ptr + 1] = pos + Width(dict, w) /\ w \in Word
  BY <1>2, <1>4, <1>5 DEF Stands
<1>7. /\ out' = (IF w.index > 1 THEN Copy(dict, w.index, out, pos + 1)
                                ELSE [out EXCEPT ![pos + 1] = w.value])
      /\ pos' = pos + Width(dict, w)
      /\ ptr' = ptr + 1 /\ code' = code /\ dict' = dict /\ in' = in
  <2> HIDE DEF w
  <2>1. w.index \in Nat /\ (w.index > EXCEPTIONS - 1 <=> w.index > 1)
    BY <1>6 DEF EXCEPTIONS, Word
  <2> QED BY <2>1 DEF DecodeStep, Width, w
<1> HIDE DEF w, m
<1>8. DecodedTo(in, out', pos')
  BY <1>1, <1>6, <1>7, DecodeEffect
<1>9. pos' = cut[ptr'] /\ pos' \in 0..n
  BY <1>4, <1>5, <1>6, <1>7
<1>10. Reading'
  <2>1. cut \in [1..(Len(code') + 1) -> 0..n] /\ IsCut(dict', in', code', cut, 0, n)
    BY <1>2, <1>7
  <2>2. ptr' \in 1..(Len(code') + 1)
    BY <1>5, <1>7 DEF m
  <2> QED BY <1>9, <2>1, <2>2 DEF Reading
<1> QED BY <1>8, <1>9, <1>10

(***************************************************************************)
(* Every step keeps the invariant.                                         *)
(***************************************************************************)
LEMMA InvStep == Inv /\ [Next]_vars => Inv'
<1> SUFFICES ASSUME Inv, [Next]_vars PROVE Inv'
  OBVIOUS
<1>1. /\ in \in [1..n -> Nat] /\ IsDictionary(dict) /\ n \in Nat /\ n > 0
      /\ pos \in 0..n /\ code \in Seq(Word)
      /\ in \in Inputs /\ dict \in Dictionaries
  BY InputFacts DEF Inv
<1>2. CASE GreedyStep
  <2>1. PICK w : /\ Stands(dict, in, w, pos)
                 /\ code' = Append(code, w) /\ pos' = pos + Width(dict, w)
    BY <1>1, <1>2, GreedyWrites
  <2>2. /\ pc = "encode" /\ encoder = "greedy" /\ ptr = 1 /\ DecodedTo(in, out, 0)
        /\ Covers(dict, in, code, 0, pos)
    BY <1>2 DEF GreedyStep, Inv
  <2>3. UNCHANGED <<in, dict, encoder, pc, path, ptr, out>>
    BY <1>2 DEF GreedyStep
  <2>4. Covers(dict, in, code', 0, pos')
    BY <1>1, <2>1, <2>2, AppendCovers
  <2>5. pos' \in 0..n /\ code' \in Seq(Word)
    <3>1. code' \in Seq(Word)
      BY <2>4 DEF Covers
    <3>2. pos' \in 0..n
      <4> DEFINE k == Width(dict, w)
      <4>1. k \in Nat \ {0} /\ pos + k <= n /\ pos' = pos + k
        BY <2>1 DEF Stands
      <4> HIDE DEF k
      <4> QED BY <1>1, <4>1
    <3> QED BY <3>1, <3>2
  <2> QED BY <1>1, <2>2, <2>3, <2>4, <2>5 DEF Inv, Priced
<1>3. CASE RelaxStep
  <2>1. /\ pc = "encode" /\ encoder = "optimal" /\ ptr = 1 /\ DecodedTo(in, out, 0)
        /\ code = <<>> /\ PathOK /\ Priced /\ pos < n
    BY <1>3 DEF RelaxStep, Inv
  <2>2. UNCHANGED <<in, dict, encoder, pc, code, ptr, out>> /\ pos' = pos + 1
    BY <1>3 DEF RelaxStep
  <2>3. PathOK' /\ Priced'
    BY <1>1, <1>3, <2>1, RelaxKeepsPath
  <2>4. pos' \in 0..n
    BY <1>1, <2>1, <2>2
  <2> QED BY <1>1, <2>1, <2>2, <2>3, <2>4 DEF Inv
<1>4. CASE EncodeEnd
  <2>1. pc = "encode" /\ pos = n /\ ptr = 1 /\ DecodedTo(in, out, 0)
    BY <1>4 DEF EncodeEnd, Inv
  <2>2. UNCHANGED <<in, dict, encoder, path, code, ptr, out>>
    BY <1>4 DEF EncodeEnd
  <2>3. encoder = "optimal" => PathOK'
    BY <2>2 DEF Inv, Priced, PathOK, Leads, NodeWord
  <2>4. CASE encoder = "greedy"
    <3>1. pc' = "decode" /\ pos' = 0 /\ Covers(dict, in, code, 0, n)
      BY <1>4, <2>1, <2>4 DEF EncodeEnd, Inv
    <3>2. Reading'
      <4>1. PICK cut \in [1..(Len(code) + 1) -> 0..n] : IsCut(dict, in, code, cut, 0, n)
        BY <3>1 DEF Covers
      <4>2. Len(code) \in Nat /\ cut[1] = 0
        BY <1>1, <4>1 DEF IsCut
      <4>3. ptr' \in 1..(Len(code) + 1) /\ pos' = cut[ptr']
        BY <2>1, <2>2, <3>1, <4>2
      <4> QED BY <2>2, <4>1, <4>3 DEF Reading
    <3> QED BY <1>1, <2>1, <2>2, <2>3, <2>4, <3>1, <3>2 DEF Inv, Priced
  <2>5. CASE encoder # "greedy"
    <3>1. encoder = "optimal" /\ pc' = "trace" /\ pos' = n /\ code = <<>>
      BY <1>4, <2>1, <2>5 DEF EncodeEnd, Inv
    <3>2. Covers(dict, in, <<>>, n, n)
      BY <1>1, EmptyCovers
    <3> QED BY <1>1, <2>1, <2>2, <2>3, <3>1, <3>2 DEF Inv, Priced
  <2> QED BY <2>4, <2>5
<1>5. CASE TraceStep
  <2> DEFINE node == path[pos]
             w == NodeWord(node.codeword, node.parent)
  <2>1. /\ pc = "trace" /\ pos # 0 /\ ptr = 1 /\ DecodedTo(in, out, 0)
        /\ encoder = "optimal" /\ PathOK /\ Covers(dict, in, code, pos, n)
    BY <1>5 DEF TraceStep, Inv
  <2>2. UNCHANGED <<in, dict, encoder, pc, path, ptr, out>> /\ code' = <<w>> \o code
        /\ pos' = node.parent
    BY <1>5 DEF TraceStep, NodeWord
  <2>3. pos \in 1..n
    BY <1>1, <2>1
  <2>4. node.parent \in 0..(pos - 1) /\ Leads(node.codeword, node.parent, pos)
    BY <2>1, <2>3 DEF PathOK
  <2>5. node.parent \in 0..n
    BY <1>1, <2>3, <2>4
  <2>6. Stands(dict, in, w, node.parent) /\ node.parent + Width(dict, w) = pos
    BY <2>4 DEF Leads
  <2> HIDE DEF w, node
  <2>7. Covers(dict, in, code', pos', n)
    BY <1>1, <2>1, <2>2, <2>5, <2>6, PrependCovers
  <2>8. PathOK'
    BY <2>1, <2>2 DEF PathOK, Leads, NodeWord
  <2>9. code' \in Seq(Word)
    BY <2>7 DEF Covers
  <2> QED BY <1>1, <2>1, <2>2, <2>5, <2>7, <2>8, <2>9 DEF Inv, Priced
<1>6. CASE TraceEnd
  <2>1. /\ pc = "trace" /\ pos = 0 /\ ptr = 1 /\ DecodedTo(in, out, 0)
        /\ encoder = "optimal" /\ PathOK /\ Covers(dict, in, code, 0, n)
    BY <1>6 DEF TraceEnd, Inv
  <2>2. UNCHANGED <<in, dict, encoder, pos, path, code, ptr, out>> /\ pc' = "decode"
    BY <1>6 DEF TraceEnd
  <2>3. Reading
    BY <1>1, <2>1, ReadingStarts
  <2>4. Reading' /\ PathOK'
    BY <2>1, <2>2, <2>3 DEF Reading, PathOK, Leads, NodeWord
  <2> QED BY <1>1, <2>1, <2>2, <2>4 DEF Inv, Priced
<1>7. CASE DecodeStep
  <2>1. pc = "decode" /\ (encoder = "optimal" => PathOK) /\ encoder \in {"greedy", "optimal"}
    BY <1>7 DEF DecodeStep, Inv
  <2>2. UNCHANGED <<in, dict, encoder, pc, path, code>>
    BY <1>7 DEF DecodeStep
  <2>3. encoder = "optimal" => PathOK'
    BY <2>1, <2>2 DEF PathOK, Leads, NodeWord
  <2>4. pos' \in 0..n /\ Reading' /\ DecodedTo(in, out', pos')
    BY <1>7, DecodeReads
  <2> QED BY <1>1, <2>1, <2>2, <2>3, <2>4 DEF Inv, Priced
<1>8. CASE DecodeEnd
  <2>1. pc = "decode" /\ pos = n /\ pc' = "done"
        /\ UNCHANGED <<in, dict, encoder, pos, path, code, ptr, out>>
    BY <1>8 DEF DecodeEnd
  <2> QED BY <2>1 DEF Inv, Priced, PathOK, Leads, NodeWord, Reading
<1>9. CASE UNCHANGED vars
  BY <1>9 DEF Inv, Priced, PathOK, Leads, NodeWord, Reading, vars
<1> QED BY <1>2, <1>3, <1>4, <1>5, <1>6, <1>7, <1>8, <1>9 DEF Next, Step, Terminated

(***************************************************************************)
(* The invariant says what the property does: at the end of the block all  *)
(* of the code is read, since no word stands for nothing.                  *)
(***************************************************************************)
LEMMA InvRoundTrip == Inv => RoundTrip
<1> SUFFICES ASSUME Inv PROVE RoundTrip
  OBVIOUS
<1>1. pc \in {"decode", "done"} => \A p \in 1..pos : out[p] = in[p]
  BY DEF Inv, DecodedTo
<1>2. ASSUME pc = "done" PROVE ptr = Len(code) + 1
  <2>1. n \in Nat /\ pos = n /\ Reading /\ code \in Seq(Word)
    BY <1>2, InputFacts DEF Inv
  <2>2. PICK cut \in [1..(Len(code) + 1) -> 0..n] :
          /\ IsCut(dict, in, code, cut, 0, n)
          /\ ptr \in 1..(Len(code) + 1)
          /\ pos = cut[ptr]
    BY <2>1 DEF Reading
  <2> DEFINE m == Len(code)
  <2>3. m \in Nat /\ ptr \in 1..(m + 1)
    BY <2>1, <2>2
  <2>4. \A k \in 1..m : Stands(dict, in, code[k], cut[k])
    BY <2>2 DEF IsCut
  <2> HIDE DEF m
  <2>5. ASSUME ptr \in 1..m PROVE FALSE
    <3> DEFINE k == Width(dict, code[ptr])
    <3>1. k \in Nat \ {0} /\ n + k <= n
      BY <2>1, <2>2, <2>4, <2>5 DEF Stands
    <3> HIDE DEF k
    <3> QED BY <2>1, <3>1
  <2>6. ptr = m + 1
    BY <2>3, <2>5
  <2> QED BY <2>6 DEF m
<1> QED BY <1>1, <1>2 DEF RoundTrip

(***************************************************************************)
(* Whatever block is encoded with whatever dictionary, greedily or by the  *)
(* shortest path, the decoder gives back its integers and stops where the  *)
(* code ends (greedy_dint_single_dict_block, opt_dint_single_dict_block    *)
(* and dint_block of dint_codecs.hpp).                                     *)
(***************************************************************************)
THEOREM RoundTripAlways == Spec => []RoundTrip
<1>1. Init => Inv
  BY InvInit
<1>2. Inv /\ [Next]_vars => Inv'
  BY InvStep
<1>3. Inv => RoundTrip
  BY InvRoundTrip
<1> QED BY <1>1, <1>2, <1>3, PTL DEF Spec

-----------------------------------------------------------------------------
(* The fewest words of the rest of a block.                                *)

\* The least of the ways to go on from position i; f has the fewest words from
\* the positions behind.
LeastWay(d, b, f, i) ==
    IF i = n THEN 0 ELSE CHOOSE w \in Ways(d, b, f, i) : \A v \in Ways(d, b, f, i) : w <= v

\* f has the fewest words from all positions from k on.
Solves(d, b, f, k) == f = [i \in k..n |-> LeastWay(d, b, f, i)]

Fewest(d, b) == CHOOSE f : Solves(d, b, f, 0)

(***************************************************************************)
(* What holds of a position whenever it holds of all that follow, holds of *)
(* all of them.                                                            *)
(***************************************************************************)
LEMMA Backward ==
    ASSUME NEW S, n \in Nat,
           \A i \in 0..n : (\A j \in 0..n : j > i => j \in S) => i \in S
    PROVE  0..n \subseteq S
<1> DEFINE T == (0..n) \ S
<1> SUFFICES ASSUME T # {} PROVE FALSE
  OBVIOUS
<1>1. T \subseteq Nat /\ \A x \in T : x <= n
  OBVIOUS
<1>2. PICK i \in T : \A y \in T : y <= i
  <2> HIDE DEF T
  <2> QED BY <1>1, GreatestNat
<1>3. \A j \in 0..n : j > i => j \in S
  BY <1>2
<1> QED BY <1>2, <1>3

(***************************************************************************)
(* A codeword that fits leads on, but not behind the end of the block.     *)
(***************************************************************************)
LEMMA FitsAhead ==
    ASSUME NEW d, IsDictionary(d), NEW b, NEW i \in 0..n, NEW x \in Fits(d, b, i)
    PROVE  EntrySize(d, x) \in Nat \ {0} /\ i + EntrySize(d, x) \in 0..n
                                         /\ i + EntrySize(d, x) > i
<1>1. x \in EXCEPTIONS..(DictSize(d) - 1) /\ i + EntrySize(d, x) <= n
  BY DEF Fits
<1> DEFINE k == EntrySize(d, x)
<1>2. k \in Nat \ {0} /\ n \in Nat
  BY <1>1, EntryFacts, BlockSizeAssumption DEF n
<1>3. i + k <= n
  BY <1>1
<1> HIDE DEF k
<1>4. i + k \in 0..n /\ i + k > i
  BY <1>2, <1>3
<1> QED BY <1>2, <1>4 DEF k

(***************************************************************************)
(* The ways from a position depend on the positions behind it only.        *)
(***************************************************************************)
LEMMA WaysAgree ==
    ASSUME NEW d, IsDictionary(d), NEW b, NEW i \in 0..n, i < n, NEW f, NEW g,
           \A j \in 0..n : j > i => f[j] = g[j]
    PROVE  Ways(d, b, f, i) = Ways(d, b, g, i)
<1>1. n \in Nat
  BY BlockSizeAssumption DEF n
<1>2. f[i + 1] = g[i + 1]
  BY <1>1
<1>3. \A x \in Fits(d, b, i) : f[i + EntrySize(d, x)] = g[i + EntrySize(d, x)]
  BY FitsAhead
<1> QED BY <1>2, <1>3 DEF Ways

LEMMA LeastWayAgrees ==
    ASSUME NEW d, IsDictionary(d), NEW b, NEW i \in 0..n, NEW f, NEW g,
           \A j \in 0..n : j > i => f[j] = g[j]
    PROVE  LeastWay(d, b, f, i) = LeastWay(d, b, g, i)
<1>1. n \in Nat
  BY BlockSizeAssumption DEF n
<1>2. CASE i = n
  BY <1>2 DEF LeastWay
<1>3. CASE i # n
  <2>1. i < n
    BY <1>1, <1>3
  <2>2. Ways(d, b, f, i) = Ways(d, b, g, i)
    BY <2>1, WaysAgree
  <2> QED BY <2>2 DEF LeastWay
<1> QED BY <1>2, <1>3

(***************************************************************************)
(* There is a function that has the fewest words from every position on.   *)
(***************************************************************************)
LEMMA FewestSolves ==
    ASSUME NEW d, IsDictionary(d), NEW b
    PROVE  Solves(d, b, Fewest(d, b), 0)
<1> DEFINE S == {k \in 0..n : \E f : Solves(d, b, f, k)}
<1>1. n \in Nat /\ n > 0
  BY BlockSizeAssumption DEF n
<1>2. ASSUME NEW i \in 0..n, \A j \in 0..n : j > i => j \in S
      PROVE  i \in S
  <2>1. CASE i = n
    <3> DEFINE f == [j \in n..n |-> 0]
    <3>1. f = [j \in n..n |-> LeastWay(d, b, f, j)]
      BY DEF LeastWay
    <3> HIDE DEF f
    <3>2. Solves(d, b, f, i)
      BY <2>1, <3>1 DEF Solves
    <3> QED BY <3>2
  <2>2. CASE i # n
    <3>1. i + 1 \in 0..n /\ i + 1 > i /\ i < n
      BY <1>1, <2>2
    <3>2. PICK g : Solves(d, b, g, i + 1)
      BY <1>2, <3>1
    <3> DEFINE f == [j \in i..n |-> IF j = i THEN LeastWay(d, b, g, i) ELSE g[j]]
    <3>3. \A j \in (i + 1)..n : g[j] = LeastWay(d, b, g, j)
      BY <3>2 DEF Solves
    <3>4. \A j \in 0..n : j > i => f[j] = g[j]
      BY <1>1
    <3>5. f[i] = LeastWay(d, b, g, i)
      BY <1>1
    <3>6. DOMAIN f = i..n /\ f = [j \in i..n |-> f[j]]
      OBVIOUS
    <3> HIDE DEF f
    <3>7. ASSUME NEW j \in i..n PROVE f[j] = LeastWay(d, b, f, j)
      <4>1. j \in 0..n /\ \A k \in 0..n : k > j => k > i
        BY <1>1
      <4>2. LeastWay(d, b, f, j) = LeastWay(d, b, g, j)
        BY <3>4, <4>1, LeastWayAgrees
      <4>3. CASE j = i
        BY <3>5, <4>2, <4>3
      <4>4. CASE j # i
        <5>1. j \in (i + 1)..n /\ j > i
          BY <1>1, <4>4
        <5> QED BY <3>3, <3>4, <4>1, <4>2, <5>1
      <4> QED BY <4>3, <4>4
    <3>8. f = [j \in i..n |-> LeastWay(d, b, f, j)]
      BY <3>6, <3>7
    <3>9. Solves(d, b, f, i)
      BY <3>8 DEF Solves
    <3> QED BY <3>9
  <2> QED BY <2>1, <2>2
<1>3. 0 \in S
  <2> HIDE DEF S
  <2>1. 0..n \subseteq S
    BY <1>1, <1>2, Backward
  <2> QED BY <1>1, <2>1
<1>4. \E f : Solves(d, b, f, 0)
  BY <1>3
<1> QED BY <1>4 DEF Fewest

(***************************************************************************)
(* The fewest words are a number; from the end there are none, and from    *)
(* every other position they are the least of the ways to go on.           *)
(***************************************************************************)
LEMMA FewestFacts ==
    ASSUME NEW d, IsDictionary(d), NEW b
    PROVE  /\ Fewest(d, b)[n] = 0
           /\ \A i \in 0..n : Fewest(d, b)[i] \in Nat
           /\ \A i \in 0..n : i < n =>
                /\ Fewest(d, b)[i] \in Ways(d, b, Fewest(d, b), i)
                /\ \A v \in Ways(d, b, Fewest(d, b), i) : Fewest(d, b)[i] <= v
<1> DEFINE f == Fewest(d, b)
           W(i) == Ways(d, b, f, i)
           Least(i, w) == \A v \in W(i) : w <= v
           S == {i \in 0..n : f[i] \in Nat}
<1>1. n \in Nat /\ n > 0
  BY BlockSizeAssumption DEF n
<1>2. f = [i \in 0..n |-> LeastWay(d, b, f, i)]
  BY FewestSolves DEF Solves
<1> HIDE DEF f
<1>3. \A i \in 0..n : f[i] = LeastWay(d, b, f, i)
  BY <1>2
<1>4. f[n] = 0
  BY <1>1, <1>3 DEF LeastWay
<1>5. ASSUME NEW i \in 0..n, i < n, \A j \in 0..n : j > i => f[j] \in Nat
      PROVE  f[i] \in W(i) /\ Least(i, f[i]) /\ f[i] \in Nat
  <2>1. W(i) \subseteq Nat /\ W(i) # {}
    <3>1. i + 1 \in 0..n /\ i + 1 > i
      BY <1>1, <1>5
    <3>2. \A x \in Fits(d, b, i) : f[i + EntrySize(d, x)] \in Nat
      BY <1>5, FitsAhead
    <3>3. ExceptionCost(b[i + 1]) \in Nat /\ f[i + 1] \in Nat
      BY <1>5, <3>1 DEF ExceptionCost
    <3>4. ExceptionCost(b[i + 1]) + f[i + 1] \in Nat
      BY <3>3
    <3>5. \A x \in Fits(d, b, i) : 1 + f[i + EntrySize(d, x)] \in Nat
      <4> TAKE x \in Fits(d, b, i)
      <4> DEFINE v == f[i + EntrySize(d, x)]
      <4>1. v \in Nat
        BY <3>2
      <4> HIDE DEF v
      <4>2. 1 + v \in Nat
        BY <4>1
      <4> QED BY <4>2 DEF v
    <3> QED BY <3>4, <3>5 DEF Ways
  <2>2. f[i] = CHOOSE w \in W(i) : Least(i, w)
    <3>1. i # n
      BY <1>1, <1>5
    <3> QED BY <1>3, <3>1 DEF LeastWay
  <2> HIDE DEF W
  <2>3. \E w \in W(i) : Least(i, w)
    BY <2>1, LeastNat
  <2>4. f[i] \in W(i) /\ Least(i, f[i])
    <3> HIDE DEF Least
    <3> QED BY <2>2, <2>3
  <2> QED BY <2>1, <2>4
<1>6. \A i \in 0..n : f[i] \in Nat
  <2>1. ASSUME NEW i \in 0..n, \A j \in 0..n : j > i => j \in S
        PROVE  i \in S
    <3>1. CASE i = n
      BY <1>4, <3>1
    <3>2. CASE i # n
      <4>1. i < n
        BY <1>1, <3>2
      <4>2. \A j \in 0..n : j > i => f[j] \in Nat
        BY <2>1
      <4>3. f[i] \in Nat
        BY <1>5, <4>1, <4>2
      <4> QED BY <4>3
    <3> QED BY <3>1, <3>2
  <2>2. 0..n \subseteq S
    <3> HIDE DEF S
    <3> QED BY <1>1, <2>1, Backward
  <2> QED BY <2>2
<1>7. \A i \in 0..n : i < n => f[i] \in W(i) /\ Least(i, f[i])
  BY <1>5, <1>6
<1> QED BY <1>4, <1>6, <1>7 DEF f

LEMMA ShortestIsFewest == \A d, b : Shortest(d, b) = Fewest(d, b)[0]
BY DEF Shortest, Fewest, Solves, LeastWay

-----------------------------------------------------------------------------
(* The offers of an iteration and the ways to go on from its position.     *)

(***************************************************************************)
(* The run found at a position is the longest one that is there.           *)
(***************************************************************************)
LEMMA RunIsLongest ==
    ASSUME in \in [1..n -> Nat], NEW i \in 0..n, NEW m \in Nat,
           m <= Runs[1], i + m <= n, \A j \in 1..m : in[i + j] = 0
    PROVE  m <= RunSize(i)
<1> DEFINE limit == Minimum(Runs[1], n - i)
           z == RunSize(i)
<1>1. n \in Nat /\ i \in Nat /\ i <= n /\ Runs[1] \in Nat
  BY BlockSizeAssumption, RunsAssumption DEF n
<1>2. limit \in Nat /\ m <= limit
  BY <1>1 DEF Minimum
<1>3. z \in Nat /\ (z = limit \/ in[i + z + 1] # 0)
  BY RunFacts
<1> HIDE DEF z, limit
<1>4. ASSUME z < m PROVE FALSE
  <2>1. z # limit /\ z + 1 \in 1..m /\ i + z + 1 = i + (z + 1)
    BY <1>1, <1>2, <1>3, <1>4
  <2> QED BY <1>3, <2>1
<1>5. m <= z
  BY <1>3, <1>4
<1> QED BY <1>5 DEF z

(***************************************************************************)
(* No run is longer than the first.                                        *)
(***************************************************************************)
LEMMA FirstRunIsLongest == \A r \in 1..Len(Runs) : Runs[r] <= Runs[1]
<1> DEFINE k == Len(Runs)
           S == {r \in 1..k : Runs[r] > Runs[1]}
<1>1. k \in Nat \ {0} /\ \A r \in 1..k : Runs[r] \in Nat
  BY RunsAssumption
<1>2. \A r \in 2..k : Runs[r] < Runs[r - 1]
  BY RunsAssumption
<1>3. ASSUME S # {} PROVE FALSE
  <2>1. S \subseteq Nat
    OBVIOUS
  <2>2. PICK r \in S : \A q \in S : r <= q
    <3> HIDE DEF S
    <3> QED BY <1>3, <2>1, LeastNat
  <2> HIDE DEF k
  <2>3. r \in 2..k /\ r - 1 \in 1..k /\ r - 1 < r
    BY <1>1
  <2>4. r - 1 \notin S
    BY <2>2, <2>3
  <2>5. Runs[r - 1] <= Runs[1]
    BY <1>1, <2>3, <2>4
  <2> QED BY <1>1, <1>2, <2>3, <2>5
<1> QED BY <1>1, <1>3

(***************************************************************************)
(* A codeword that fits and stands for zeros is offered as a run, for the  *)
(* run found is the longest; one that stands for a target is found by the  *)
(* lookup of a sub-block of its size.                                      *)
(***************************************************************************)
LEMMA FitIsOffered ==
    ASSUME in \in Inputs, dict \in Dictionaries, NEW i \in 0..n, i < n,
           NEW x \in Fits(dict, in, i)
    PROVE  \E o \in Offers(i) : o.len = EntrySize(dict, x) /\ o.cost = path[i].cost + 1
<1> DEFINE k == EntrySize(dict, x)
           e == Entry(dict, x)
<1>1. in \in [1..n -> Nat] /\ IsDictionary(dict) /\ n \in Nat
  BY InputFacts
<1>2. x \in EXCEPTIONS..(DictSize(dict) - 1) /\ i + k <= n /\ e = SubSeq(in, i + 1, i + k)
  BY DEF Fits
<1>3. k \in Nat \ {0} /\ (IsRun(x) => \A p \in 1..k : e[p] = 0)
  BY <1>1, <1>2, EntryFacts
<1>4. CASE IsRun(x)
  <2> DEFINE r == x - EXCEPTIONS + 1
  <2>1. r \in 1..Len(Runs) /\ k = Runs[r]
    <3>1. Len(Runs) \in Nat
      BY RunsAssumption
    <3> QED BY <1>4, <3>1 DEF IsRun, EntrySize, reserved, EXCEPTIONS
  <2>2. \A p \in 1..k : e[p] = in[i + p]
    <3> DEFINE a == i + 1
               z == i + k
    <3> HIDE DEF k, e
    <3>1. a \in Int /\ z \in Int /\ \A j \in a..z : j \in 1..n /\ in[j] \in Nat
      BY <1>1, <1>2, <1>3
    <3>2. z - a + 1 = k /\ \A p \in 1..k : a + p - 1 = i + p
      BY <1>1, <1>3
    <3>3. e = SubSeq(in, a, z)
      BY <1>2
    <3> HIDE DEF a, z
    <3>4. \A p \in 1..(z - a + 1) : SubSeq(in, a, z)[p] = in[a + p - 1]
      BY <3>1, SubSeqProperties
    <3> QED BY <3>2, <3>3, <3>4
  <2>3. \A p \in 1..k : in[i + p] = 0
    BY <1>3, <1>4, <2>2
  <2>4. k <= Runs[1]
    BY <2>1, FirstRunIsLongest
  <2>5. k <= RunSize(i)
    <3> HIDE DEF k
    <3> QED BY <1>1, <1>2, <1>3, <2>3, <2>4, RunIsLongest
  <2> HIDE DEF k, r
  <2> DEFINE o == [len |-> Runs[r], codeword |-> EXCEPTIONS + r - 1, cost |-> path[i].cost + 1]
  <2>6. o \in RunOffers(i)
    BY <2>1, <2>5 DEF RunOffers
  <2>7. o.len = k /\ o.cost = path[i].cost + 1
    BY <2>1
  <2> QED BY <2>6, <2>7 DEF Offers, k
<1>5. CASE ~IsRun(x)
  <2>1. x - reserved + 1 \in 1..Len(dict.targets)
    BY <1>1, <1>2, <1>5, TargetIndex
  <2>2. PICK s \in 1..Len(TargetSizes) : k = TargetSizes[s]
    BY <1>5, <2>1, DictionariesAssumption DEF EntrySize, Target
  <2>3. Minimum(TargetSizes[s], n - i) = k
    <3> HIDE DEF k
    <3>1. k <= n - i /\ k \in Nat /\ n - i \in Int
      BY <1>1, <1>2, <1>3
    <3> QED BY <2>2, <3>1 DEF Minimum
  <2>4. SubBlock(i, TargetSizes[s]) = e
    BY <1>2, <2>3 DEF SubBlock
  <2>5. SubBlockCode(i, s) # invalid_index
    <3> DEFINE top == DictSize(dict) - 1
               hits == {index \in EXCEPTIONS..top : Entry(dict, index) = e}
    <3>1. x \in hits
      BY <1>2
    <3>2. Lookup(dict, e) = CHOOSE j \in hits : \A m \in hits : m <= j
      <4>1. Lookup(dict, e) = IF hits = {} THEN invalid_index
                              ELSE CHOOSE j \in hits : \A m \in hits : m <= j
        BY DEF Lookup
      <4> QED BY <3>1, <4>1
    <3>3. top \in Nat
      <4> DEFINE l == Len(dict.targets)
      <4>1. Len(Runs) \in Nat /\ l \in Nat
        BY <1>1, RunsAssumption DEF IsDictionary
      <4>2. DictSize(dict) = 2 + Len(Runs) + l
        BY <4>1 DEF DictSize, reserved, EXCEPTIONS
      <4> HIDE DEF l
      <4> QED BY <4>1, <4>2
    <3> HIDE DEF top
    <3>4. hits \subseteq Nat /\ \A j \in hits : j <= top
      BY <3>3 DEF EXCEPTIONS
    <3> HIDE DEF hits
    <3>5. \E j \in hits : \A m \in hits : m <= j
      BY <3>1, <3>3, <3>4, GreatestNat
    <3>6. Lookup(dict, e) \in Nat
      BY <3>2, <3>4, <3>5
    <3> QED BY <2>4, <3>6 DEF SubBlockCode, invalid_index
  <2> DEFINE o == [len |-> Minimum(TargetSizes[s], n - i), codeword |-> SubBlockCode(i, s),
                   cost |-> path[i].cost + 1]
  <2>6. o \in TargetOffers(i)
    BY <2>5 DEF TargetOffers
  <2>7. o.len = k /\ o.cost = path[i].cost + 1
    BY <2>3
  <2> QED BY <2>6, <2>7 DEF Offers
<1> QED BY <1>4, <1>5

(***************************************************************************)
(* The next integer alone is always offered, at no more than the cost of   *)
(* its exception.                                                          *)
(***************************************************************************)
LEMMA SingleIsOffered ==
    ASSUME in \in Inputs, dict \in Dictionaries, NEW i \in 0..n, i < n, path[i].cost \in Nat
    PROVE  \E o \in Offers(i) : o.len = 1 /\ o.cost <= path[i].cost + ExceptionCost(in[i + 1])
<1> DEFINE s == Len(TargetSizes)
           v == in[i + 1]
<1>1. n \in Nat /\ s \in Nat \ {0} /\ TargetSizes[s] = 1
  BY BlockSizeAssumption, TargetSizesAssumption DEF n
<1>2. ExceptionCost(v) \in {2, 3}
  BY DEF ExceptionCost
<1>3. CASE SubBlockCode(i, s) # invalid_index
  <2> DEFINE o == [len |-> Minimum(TargetSizes[s], n - i), codeword |-> SubBlockCode(i, s),
                   cost |-> path[i].cost + 1]
  <2>1. s \in 1..Len(TargetSizes)
    BY <1>1
  <2>2. o \in TargetOffers(i)
    BY <1>3, <2>1 DEF TargetOffers
  <2>3. o.len = 1
    BY <1>1 DEF Minimum
  <2>4. o.cost <= path[i].cost + ExceptionCost(v)
    BY <1>2
  <2> QED BY <2>2, <2>3, <2>4 DEF Offers
<1>4. CASE SubBlockCode(i, s) = invalid_index
  <2>1. CASE IsSmall(v)
    <3>1. [len |-> 1, codeword |-> 0, cost |-> path[i].cost + 2] \in ExceptionOffers(i)
      BY <1>4, <2>1 DEF ExceptionOffers
    <3>2. ExceptionCost(v) = 2
      BY <2>1 DEF ExceptionCost
    <3> QED BY <3>1, <3>2 DEF Offers
  <2>2. CASE ~IsSmall(v)
    <3>1. [len |-> 1, codeword |-> 1, cost |-> path[i].cost + 3] \in ExceptionOffers(i)
      BY <1>4, <2>2 DEF ExceptionOffers
    <3>2. ExceptionCost(v) = 3
      BY <2>2 DEF ExceptionCost
    <3> QED BY <3>1, <3>2 DEF Offers
  <2> QED BY <2>1, <2>2
<1> QED BY <1>3, <1>4

(***************************************************************************)
(* What is offered is a way to go on: its codeword decodes to what is      *)
(* between its ends.                                                       *)
(***************************************************************************)
LEMMA OfferIsWay ==
    ASSUME in \in Inputs, dict \in Dictionaries, NEW i \in 0..n, i < n, NEW o \in Offers(i)
    PROVE  Fewest(dict, in)[i] <= Cost(o.codeword) + Fewest(dict, in)[i + o.len]
<1> DEFINE f == Fewest(dict, in)
           w == NodeWord(o.codeword, i)
           v == Cost(o.codeword) + f[i + o.len]
<1>1. in \in [1..n -> Nat] /\ IsDictionary(dict) /\ n \in Nat
  BY InputFacts
<1>2. \A u \in Ways(dict, in, f, i) : f[i] <= u
  BY <1>1, FewestFacts
<1>3. /\ o.len \in Nat \ {0} /\ o.codeword \in Nat
      /\ Stands(dict, in, w, i) /\ i + Width(dict, w) = i + o.len
  BY <1>1, OfferLeads DEF Leads
<1> HIDE DEF f
<1>4. CASE o.codeword > 1
  <2> DEFINE x == o.codeword
             k == EntrySize(dict, x)
  <2>1. w = [index |-> x, value |-> 0]
    BY <1>4 DEF NodeWord, Codeword
  <2> HIDE DEF w
  <2>2. Width(dict, w) = k
    BY <1>4, <2>1 DEF Width
  <2>3. /\ x \in EXCEPTIONS..(DictSize(dict) - 1) /\ i + k <= n
        /\ \A p \in 1..k : Entry(dict, x)[p] = in[i + p]
    BY <1>3, <1>4, <2>1, <2>2 DEF Stands
  <2>4. k \in Nat \ {0} /\ Entry(dict, x) \in Seq(Nat) /\ Len(Entry(dict, x)) = k
    BY <1>1, <2>3, EntryFacts
  <2>5. i + k = i + o.len
    BY <1>3, <2>2
  <2>6. Entry(dict, x) = SubSeq(in, i + 1, i + k)
    <3> DEFINE a == i + 1
               z == i + k
               e == Entry(dict, x)
               t == SubSeq(in, a, z)
    <3> HIDE DEF k, e
    <3>1. a \in Int /\ z \in Int /\ a <= z + 1 /\ \A j \in a..z : j \in 1..n /\ in[j] \in Nat
      BY <1>1, <2>3, <2>4
    <3>2. z - a + 1 = k /\ \A p \in 1..k : a + p - 1 = i + p
      BY <1>1, <2>4
    <3> HIDE DEF a, z
    <3>3. /\ t \in Seq(Nat) /\ Len(t) = z - a + 1
          /\ \A p \in 1..(z - a + 1) : t[p] = in[a + p - 1]
      BY <3>1, SubSeqProperties
    <3> HIDE DEF t
    <3>4. e \in Seq(Nat) /\ Len(e) = Len(t) /\ \A p \in 1..Len(e) : e[p] = t[p]
      BY <2>3, <2>4, <3>2, <3>3 DEF e
    <3>5. e = t
      BY <3>3, <3>4
    <3> QED BY <3>5 DEF e, t, a, z
  <2>7. x \in Fits(dict, in, i)
    BY <2>3, <2>6 DEF Fits
  <2>8. 1 + f[i + k] \in Ways(dict, in, f, i)
    BY <2>7 DEF Ways
  <2>9. Cost(x) = 1
    BY <1>3, <1>4 DEF Cost, EXCEPTIONS
  <2>10. v = 1 + f[i + k]
    BY <2>5, <2>9
  <2> HIDE DEF v
  <2>11. f[i] <= v
    BY <1>2, <2>8, <2>10
  <2> QED BY <2>11 DEF v, f
<1>5. CASE ~(o.codeword > 1)
  <2>1. o \in ExceptionOffers(i)
    <3>1. ASSUME o \in RunOffers(i) PROVE FALSE
      <4>1. PICK r \in 1..Len(Runs) : o.codeword = EXCEPTIONS + r - 1
        BY <3>1 DEF RunOffers
      <4>2. o.codeword > 1
        BY <4>1, RunsAssumption DEF EXCEPTIONS
      <4> QED BY <1>5, <4>2
    <3>2. ASSUME o \in TargetOffers(i) PROVE FALSE
      <4> DEFINE top == DictSize(dict) - 1
      <4>1. o.codeword \in EXCEPTIONS..top
        BY <1>1, <3>2, LookupFacts DEF TargetOffers, SubBlockCode
      <4> HIDE DEF top
      <4>2. o.codeword > 1
        BY <4>1 DEF EXCEPTIONS
      <4> QED BY <1>5, <4>2
    <3> QED BY <3>1, <3>2 DEF Offers
  <2>2. o.len = 1 /\ Cost(o.codeword) = ExceptionCost(in[i + 1])
    BY <2>1 DEF ExceptionOffers, Cost, ExceptionCost, EXCEPTIONS
  <2>3. ExceptionCost(in[i + 1]) + f[i + 1] \in Ways(dict, in, f, i)
    BY DEF Ways
  <2>4. v = ExceptionCost(in[i + 1]) + f[i + 1]
    BY <2>2
  <2> HIDE DEF v
  <2>5. f[i] <= v
    BY <1>2, <2>3, <2>4
  <2> QED BY <2>5 DEF v, f
<1> QED BY <1>4, <1>5

-----------------------------------------------------------------------------
(* The nodes of the path are as cheap as they can be.                      *)

\* The positions whose offers were all made.
Passed == IF pc = "encode" THEN pos ELSE n

\* A node continues the way to an earlier position, or nobody has come to it.
Continues(j, p) ==
    \/ path[j].parent < p /\ path[j].cost = path[path[j].parent].cost + Cost(path[j].codeword)
    \/ j > p /\ path[j] = InitialPath[j]

\* No way that goes on from position i is cheaper than the node it leads to.
Taken(i) ==
    /\ \A x \in Fits(dict, in, i) : path[i + EntrySize(dict, x)].cost <= path[i].cost + 1
    /\ path[i + 1].cost <= path[i].cost + ExceptionCost(in[i + 1])

\* No node is cheaper than the fewest words of the block allow.
NotTooCheap == \A j \in 0..n : Fewest(dict, in)[0] <= path[j].cost + Fewest(dict, in)[j]

PathShort(p) ==
    /\ path[0].cost = 0
    /\ \A j \in 0..n : path[j].cost <= 3 * j
    /\ \A j \in 1..n : Continues(j, p)
    /\ NotTooCheap
    /\ \A i \in 0..n : i < p => Taken(i)

(***************************************************************************)
(* Before the first iteration the nodes cost no less than an exception for *)
(* every integer, and so much is never too cheap.                          *)
(***************************************************************************)
LEMMA InitialPathShort ==
    ASSUME in \in Inputs, dict \in Dictionaries, path = InitialPath
    PROVE  PathShort(0)
<1> DEFINE f == Fewest(dict, in)
           S == {j \in 0..n : ~(f[0] <= 3 * j + f[j])}
<1>1. in \in [1..n -> Nat] /\ IsDictionary(dict) /\ n \in Nat /\ n > 0
  BY InputFacts
<1>2. \A j \in 0..n : path[j].cost = 3 * j
  BY <1>1 DEF InitialPath
<1>3. \A j \in 1..n : Continues(j, 0)
  BY <1>1 DEF Continues
<1>4. /\ \A i \in 0..n : f[i] \in Nat
      /\ \A i \in 0..n : i < n => \A v \in Ways(dict, in, f, i) : f[i] <= v
  BY <1>1, FewestFacts
<1> HIDE DEF f
<1>5. \A i \in 0..n : i < n => f[i] <= 3 + f[i + 1]
  <2> TAKE i \in 0..n
  <2> HAVE i < n
  <2>1. ExceptionCost(in[i + 1]) + f[i + 1] \in Ways(dict, in, f, i)
    BY DEF Ways
  <2>2. f[i] <= ExceptionCost(in[i + 1]) + f[i + 1]
    BY <1>4, <2>1
  <2>3. ExceptionCost(in[i + 1]) \in {2, 3}
    BY DEF ExceptionCost
  <2>4. f[i] \in Nat /\ f[i + 1] \in Nat
    BY <1>1, <1>4
  <2> QED BY <2>2, <2>3, <2>4
<1>6. ASSUME S # {} PROVE FALSE
  <2>1. S \subseteq Nat
    BY <1>1
  <2>2. PICK j \in S : \A q \in S : j <= q
    <3> HIDE DEF S
    <3> QED BY <1>6, <2>1, LeastNat
  <2>3. j \in 0..n /\ ~(f[0] <= 3 * j + f[j])
    OBVIOUS
  <2>4. j # 0
    <3>1. f[0] \in Nat
      BY <1>1, <1>4
    <3> QED BY <2>3, <3>1
  <2>5. j - 1 \in 0..n /\ j - 1 < n /\ (j - 1) + 1 = j /\ j - 1 < j /\ j \in Nat
    BY <1>1, <2>3, <2>4
  <2>6. j - 1 \notin S
    BY <2>2, <2>5
  <2>7. f[0] <= 3 * (j - 1) + f[j - 1]
    BY <2>5, <2>6
  <2>8. f[j - 1] <= 3 + f[j]
    BY <1>5, <2>5
  <2>9. f[0] \in Nat /\ f[j - 1] \in Nat /\ f[j] \in Nat
    BY <1>1, <1>4, <2>3, <2>5
  <2> QED BY <2>3, <2>5, <2>7, <2>8, <2>9
<1>7. NotTooCheap
  BY <1>2, <1>6 DEF NotTooCheap, f
<1>8. path[0].cost = 0 /\ \A j \in 0..n : path[j].cost <= 3 * j
  BY <1>1, <1>2
<1>9. \A i \in 0..n : ~(i < 0)
  OBVIOUS
<1> QED BY <1>3, <1>7, <1>8, <1>9 DEF PathShort

(***************************************************************************)
(* An iteration does not change the nodes up to its position, and those it *)
(* does change continue the way to its position.                           *)
(***************************************************************************)
LEMMA RelaxAhead ==
    ASSUME in \in Inputs, dict \in Dictionaries, pos \in 0..n, Priced, RelaxStep, NEW j \in 0..n
    PROVE  \/ path'[j] = path[j]
           \/ \E o \in Offers(pos) :
                /\ j > pos /\ j = pos + o.len
                /\ path'[j].parent = pos /\ path'[j].codeword = o.codeword
                /\ path'[j].cost = path[pos].cost + Cost(o.codeword)
<1>1. in \in [1..n -> Nat] /\ IsDictionary(dict) /\ n \in Nat /\ pos < n
  BY InputFacts DEF RelaxStep
<1>2. \/ path'[j] = path[j]
      \/ \E o \in Better(j) : path'[j] = [parent |-> pos, codeword |-> o.codeword, cost |-> o.cost]
  BY <1>1, RelaxEffect
<1>3. ASSUME NEW o \in Better(j),
             path'[j] = [parent |-> pos, codeword |-> o.codeword, cost |-> o.cost]
      PROVE  /\ o \in Offers(pos) /\ j > pos /\ j = pos + o.len
             /\ path'[j].parent = pos /\ path'[j].codeword = o.codeword
             /\ path'[j].cost = path[pos].cost + Cost(o.codeword)
  <2>1. o \in Offers(pos) /\ pos + o.len = j
    BY DEF Better
  <2>2. o.len \in Nat \ {0}
    BY <1>1, <2>1, OfferLeads
  <2>3. o.cost = path[pos].cost + Cost(o.codeword)
    BY <1>1, <2>1, OfferCosts
  <2>4. j > pos
    BY <1>1, <2>1, <2>2
  <2> QED BY <1>3, <2>1, <2>3, <2>4
<1> QED BY <1>2, <1>3

(***************************************************************************)
(* An iteration makes all offers of its position and none that is too      *)
(* cheap.                                                                  *)
(***************************************************************************)
LEMMA RelaxKeepsShort ==
    ASSUME in \in Inputs, dict \in Dictionaries, pos \in 0..n, Priced, PathOK, PathShort(pos),
           RelaxStep, pos' = pos + 1
    PROVE  PathShort(pos)'
<1> DEFINE f == Fewest(dict, in)
           p == pos
<1>1. /\ in \in [1..n -> Nat] /\ IsDictionary(dict) /\ n \in Nat
      /\ p < n /\ p \in 0..n /\ in' = in /\ dict' = dict
  BY InputFacts DEF RelaxStep
<1>2. \A j \in 0..n : path[j].cost \in Nat /\ path'[j].cost \in Nat
                       /\ path'[j].cost <= path[j].cost
  BY <1>1, RelaxEffect DEF Priced
<1>3. \A j \in 0..n : j <= p => path'[j] = path[j]
  BY <1>1, RelaxAhead
<1>4. /\ path[0].cost = 0
      /\ \A j \in 0..n : path[j].cost <= 3 * j
      /\ \A j \in 1..n : Continues(j, p)
      /\ NotTooCheap
      /\ \A i \in 0..n : i < p => Taken(i)
  BY DEF PathShort
<1>5. \A o \in Offers(p) : p + o.len \in 0..n => path'[p + o.len].cost <= o.cost
  BY <1>1, RelaxEffect
<1>6. path'[p] = path[p] /\ p + 1 \in 0..n /\ path[p].cost \in Nat /\ path[p].cost <= 3 * p
  BY <1>1, <1>2, <1>3, <1>4
<1>7. path'[p + 1].cost <= path[p].cost + ExceptionCost(in[p + 1])
  <2>1. PICK o \in Offers(p) : o.len = 1 /\ o.cost <= path[p].cost + ExceptionCost(in[p + 1])
    BY <1>1, <1>6, SingleIsOffered
  <2>2. path'[p + 1].cost <= o.cost
    BY <1>5, <1>6, <2>1
  <2>3. ExceptionCost(in[p + 1]) \in {2, 3}
    BY DEF ExceptionCost
  <2>4. o.cost \in Nat
    <3>1. o.cost = path[p].cost + Cost(o.codeword) /\ Cost(o.codeword) \in 1..3
      BY <1>1, OfferCosts
    <3> QED BY <1>6, <3>1
  <2>5. path'[p + 1].cost \in Nat
    BY <1>2, <1>6
  <2> QED BY <1>6, <2>1, <2>2, <2>3, <2>4, <2>5
<1>8. \A j \in 0..n : path'[j].cost <= 3 * j
  <2> TAKE j \in 0..n
  <2>1. path[j].cost \in Nat /\ path'[j].cost \in Nat /\ path'[j].cost <= path[j].cost
        /\ path[j].cost <= 3 * j
    BY <1>2, <1>4
  <2>2. 3 * j \in Nat
    BY <1>1
  <2> QED BY <2>1, <2>2
<1>9. path'[0].cost = 0
  BY <1>1, <1>3, <1>4
<1>10. ASSUME NEW j \in 1..n PROVE Continues(j, pos)'
  <2>1. j \in 0..n
    BY <1>1
  <2>2. CASE path'[j] = path[j] /\ path[j].parent < p
                /\ path[j].cost = path[path[j].parent].cost + Cost(path[j].codeword)
    <3>1. path[j].parent \in 0..(j - 1)
      BY DEF PathOK
    <3>2. path[j].parent \in 0..n
      BY <1>1, <3>1
    <3>3. path'[path[j].parent] = path[path[j].parent]
      BY <1>1, <1>3, <2>2, <3>2
    <3>4. path'[j].parent < p + 1
      BY <1>1, <2>2, <3>2
    <3> QED BY <2>2, <3>3, <3>4 DEF Continues, Cost
  <2>3. CASE path'[j] = path[j] /\ j > p /\ path[j] = InitialPath[j]
    <3>1. path[j].parent = j - 1 /\ path[j].codeword = 1 /\ path[j].cost = 3 * j
      BY <1>1, <2>1, <2>3 DEF InitialPath
    <3>2. CASE j = p + 1
      <4>1. ExceptionCost(in[p + 1]) \in {2, 3}
        BY DEF ExceptionCost
      <4>2. path'[j].cost = 3 * j
        BY <2>3, <3>1
      <4>3. 3 * (p + 1) <= path[p].cost + ExceptionCost(in[p + 1])
        BY <1>7, <3>2, <4>2
      <4>4. path[p].cost = 3 * p
        BY <1>1, <1>6, <4>1, <4>3
      <4>5. path'[j].parent = p
        BY <1>1, <2>3, <3>1, <3>2
      <4>6. path'[path'[j].parent].cost = 3 * p
        BY <1>6, <4>4, <4>5
      <4>7. path'[j].cost = path'[path'[j].parent].cost + 3 /\ path'[j].parent < p + 1
        BY <1>1, <3>2, <4>2, <4>5, <4>6
      <4>8. Cost(1) = 3 /\ path'[j].codeword = 1
        BY <2>3, <3>1 DEF Cost, EXCEPTIONS
      <4> QED BY <4>7, <4>8 DEF Continues, Cost
    <3>3. CASE j # p + 1
      <4>1. j > p + 1
        BY <1>1, <2>3, <3>3
      <4>2. InitialPath' = InitialPath
        BY DEF InitialPath
      <4> QED BY <2>3, <4>1, <4>2 DEF Continues
    <3> QED BY <3>2, <3>3
  <2>4. ASSUME NEW o \in Offers(p), j > p, path'[j].parent = p, path'[j].codeword = o.codeword,
               path'[j].cost = path[p].cost + Cost(o.codeword)
        PROVE  Continues(j, pos)'
    <3>1. path'[j].parent < p + 1
      BY <1>1, <2>4
    <3>2. path'[j].cost = path'[path'[j].parent].cost + Cost(path'[j].codeword)
      BY <1>6, <2>4
    <3> QED BY <3>1, <3>2 DEF Continues, Cost
  <2>5. Continues(j, p)
    BY <1>4
  <2>6. \/ path'[j] = path[j]
        \/ \E o \in Offers(p) : /\ j > p /\ path'[j].parent = p /\ path'[j].codeword = o.codeword
                                /\ path'[j].cost = path[p].cost + Cost(o.codeword)
    BY <1>1, <2>1, RelaxAhead
  <2> QED BY <2>2, <2>3, <2>4, <2>5, <2>6 DEF Continues
<1>11. ASSUME NEW j \in 0..n PROVE f[0] <= path'[j].cost + f[j]
  <2>1. f[0] <= path[j].cost + f[j] /\ f[0] <= path[p].cost + f[p]
    BY <1>1, <1>4 DEF NotTooCheap
  <2>2. CASE path'[j] = path[j]
    BY <2>1, <2>2
  <2>3. ASSUME NEW o \in Offers(p), j = p + o.len, path'[j].cost = path[p].cost + Cost(o.codeword)
        PROVE  f[0] <= path'[j].cost + f[j]
    <3>1. f[p] <= Cost(o.codeword) + f[j]
      BY <1>1, <2>3, OfferIsWay
    <3>2. Cost(o.codeword) \in Nat
      BY <1>1, OfferCosts
    <3>3. f[0] \in Nat /\ f[p] \in Nat /\ f[j] \in Nat
      BY <1>1, FewestFacts
    <3> HIDE DEF f
    <3> QED BY <1>6, <2>1, <2>3, <3>1, <3>2, <3>3
  <2>4. \/ path'[j] = path[j]
        \/ \E o \in Offers(p) : j = p + o.len /\ path'[j].cost = path[p].cost + Cost(o.codeword)
    BY <1>1, RelaxAhead
  <2> QED BY <2>2, <2>3, <2>4
<1>12. NotTooCheap'
  BY <1>1, <1>11 DEF NotTooCheap
<1>13. ASSUME NEW i \in 0..n, i < p + 1 PROVE Taken(i)'
  <2>1. path'[i] = path[i] /\ i < n /\ i + 1 \in 0..n
    BY <1>1, <1>3, <1>13
  <2>2. path[i].cost \in Nat /\ ExceptionCost(in[i + 1]) \in {2, 3}
    BY <1>2 DEF ExceptionCost
  <2>3. CASE i < p
    <3>1. Taken(i)
      BY <1>4, <2>3
    <3>2. ASSUME NEW x \in Fits(dict, in, i)
          PROVE  path'[i + EntrySize(dict, x)].cost <= path'[i].cost + 1
      <4> DEFINE j == i + EntrySize(dict, x)
      <4>1. j \in 0..n
        BY <1>1, FitsAhead
      <4>2. path[j].cost <= path[i].cost + 1
        BY <3>1 DEF Taken
      <4> HIDE DEF j
      <4>3. path'[j].cost <= path[i].cost + 1
        BY <1>2, <2>2, <4>1, <4>2
      <4> QED BY <2>1, <4>3 DEF j
    <3>3. path'[i + 1].cost <= path'[i].cost + ExceptionCost(in[i + 1])
      <4>1. path[i + 1].cost <= path[i].cost + ExceptionCost(in[i + 1])
        BY <3>1 DEF Taken
      <4>2. path'[i + 1].cost <= path[i + 1].cost /\ path'[i + 1].cost \in Nat
            /\ path[i + 1].cost \in Nat
        BY <1>2, <2>1
      <4>3. path'[i + 1].cost <= path[i].cost + ExceptionCost(in[i + 1])
        BY <2>2, <4>1, <4>2
      <4> QED BY <2>1, <4>3
    <3> QED BY <1>1, <3>2, <3>3 DEF Taken, Fits, ExceptionCost, IsSmall
  <2>4. CASE ~(i < p)
    <3>1. i = p
      BY <1>1, <1>13, <2>4
    <3>2. ASSUME NEW x \in Fits(dict, in, i)
          PROVE  path'[i + EntrySize(dict, x)].cost <= path'[i].cost + 1
      <4>1. PICK o \in Offers(i) : o.len = EntrySize(dict, x) /\ o.cost = path[i].cost + 1
        BY <1>1, <2>1, FitIsOffered
      <4>2. i + EntrySize(dict, x) \in 0..n
        BY <1>1, FitsAhead
      <4> QED BY <1>5, <2>1, <3>1, <4>1, <4>2
    <3>3. path'[i + 1].cost <= path'[i].cost + ExceptionCost(in[i + 1])
      BY <1>7, <2>1, <3>1
    <3> QED BY <1>1, <3>2, <3>3 DEF Taken, Fits, ExceptionCost, IsSmall
  <2> QED BY <2>3, <2>4
<1>14. \A i \in 0..n : i < pos' => Taken(i)'
  BY <1>13
<1> QED BY <1>8, <1>9, <1>10, <1>12, <1>14 DEF PathShort

(***************************************************************************)
(* Once all offers were made the last node is as cheap as the fewest words *)
(* of the block are.                                                       *)
(***************************************************************************)
LEMMA LastIsShortest ==
    ASSUME in \in Inputs, dict \in Dictionaries, Priced, PathShort(n)
    PROVE  path[n].cost = Shortest(dict, in)
<1> DEFINE f == Fewest(dict, in)
           S == {i \in 0..n : path[n].cost <= path[i].cost + f[i]}
<1>1. in \in [1..n -> Nat] /\ IsDictionary(dict) /\ n \in Nat /\ n > 0
  BY InputFacts
<1>2. /\ f[n] = 0
      /\ \A i \in 0..n : f[i] \in Nat
      /\ \A i \in 0..n : i < n => f[i] \in Ways(dict, in, f, i)
  BY <1>1, FewestFacts
<1>3. f[0] <= path[n].cost + f[n]
  BY <1>1 DEF PathShort, NotTooCheap
<1>4. \A i \in 0..n : i < n => Taken(i)
  BY DEF PathShort
<1>5. path[0].cost = 0 /\ \A i \in 0..n : path[i].cost \in Nat
  BY DEF PathShort, Priced
<1> HIDE DEF f
<1>6. ASSUME NEW i \in 0..n, \A j \in 0..n : j > i => j \in S
      PROVE  i \in S
  <2>1. CASE i = n
    BY <1>1, <1>2, <1>5, <2>1
  <2>2. CASE i # n
    <3>1. i < n /\ i + 1 \in 0..n /\ i + 1 > i
      BY <1>1, <2>2
    <3>2. f[i] \in Ways(dict, in, f, i) /\ Taken(i)
      BY <1>2, <1>4, <3>1
    <3>3. path[i].cost \in Nat /\ path[n].cost \in Nat
      BY <1>1, <1>5
    <3>4. CASE f[i] = ExceptionCost(in[i + 1]) + f[i + 1]
      <4>1. path[i + 1].cost <= path[i].cost + ExceptionCost(in[i + 1])
        BY <3>2 DEF Taken
      <4>2. path[n].cost <= path[i + 1].cost + f[i + 1]
        BY <1>6, <3>1
      <4>3. ExceptionCost(in[i + 1]) \in {2, 3} /\ f[i + 1] \in Nat /\ path[i + 1].cost \in Nat
        BY <1>2, <1>5, <3>1 DEF ExceptionCost
      <4>4. path[n].cost <= path[i].cost + f[i]
        BY <3>3, <3>4, <4>1, <4>2, <4>3
      <4> QED BY <4>4
    <3>5. ASSUME NEW x \in Fits(dict, in, i), f[i] = 1 + f[i + EntrySize(dict, x)]
          PROVE  i \in S
      <4> DEFINE j == i + EntrySize(dict, x)
      <4>1. j \in 0..n /\ j > i
        BY <1>1, FitsAhead
      <4>2. path[j].cost <= path[i].cost + 1
        BY <3>2 DEF Taken
      <4>3. f[i] = 1 + f[j]
        BY <3>5
      <4> HIDE DEF j
      <4>4. path[n].cost <= path[j].cost + f[j]
        BY <1>6, <4>1
      <4>5. f[j] \in Nat /\ path[j].cost \in Nat
        BY <1>2, <1>5, <4>1
      <4>6. path[n].cost <= path[i].cost + f[i]
        BY <3>3, <4>2, <4>3, <4>4, <4>5
      <4> QED BY <4>6
    <3> QED BY <3>2, <3>4, <3>5 DEF Ways
  <2> QED BY <2>1, <2>2
<1>7. 0 \in S
  <2> HIDE DEF S
  <2>1. 0..n \subseteq S
    BY <1>1, <1>6, Backward
  <2> QED BY <1>1, <2>1
<1>8. path[n].cost <= path[0].cost + f[0]
  BY <1>7
<1>9. f[0] \in Nat /\ path[n].cost \in Nat
  BY <1>1, <1>2, <1>5
<1>10. path[n].cost = f[0]
  BY <1>2, <1>3, <1>5, <1>8, <1>9
<1> QED BY <1>10, ShortestIsFewest DEF f

-----------------------------------------------------------------------------
(* The invariant of the optimal encoder.                                   *)

ShortInv == Inv /\ (encoder = "optimal" => PathShort(Passed))

LEMMA ShortInvInit == Init => ShortInv
<1> SUFFICES ASSUME Init PROVE ShortInv
  OBVIOUS
<1>1. Inv
  BY InvInit
<1>2. in \in Inputs /\ dict \in Dictionaries /\ path = InitialPath /\ pc = "encode" /\ pos = 0
  BY DEF Init
<1>3. PathShort(0)
  BY <1>2, InitialPathShort
<1>4. Passed = 0
  BY <1>2 DEF Passed
<1> QED BY <1>1, <1>3, <1>4 DEF ShortInv

(***************************************************************************)
(* Only an iteration of the relaxation changes the path or what it was     *)
(* made from.                                                              *)
(***************************************************************************)
LEMMA ShortInvStep == ShortInv /\ [Next]_vars => ShortInv'
<1> SUFFICES ASSUME ShortInv, [Next]_vars PROVE ShortInv'
  OBVIOUS
<1>1. Inv /\ Inv'
  BY InvStep DEF ShortInv
<1>2. in \in Inputs /\ dict \in Dictionaries /\ pos \in 0..n /\ Priced
      /\ pc \in {"encode", "trace", "decode", "done"} /\ n \in Nat
  BY <1>1, InputFacts DEF Inv
<1>3. ASSUME encoder = "optimal", UNCHANGED <<in, dict, path, Passed>>
      PROVE  PathShort(Passed)'
  <2>1. PathShort(Passed)
    BY <1>3 DEF ShortInv
  <2>2. (\A j \in 1..n : Continues(j, Passed))'
    BY <1>3, <2>1 DEF PathShort, Continues, InitialPath, Cost
  <2>3. NotTooCheap'
    BY <1>3, <2>1 DEF PathShort, NotTooCheap
  <2>4. (\A i \in 0..n : i < Passed => Taken(i))'
    BY <1>3, <2>1 DEF PathShort, Taken, Fits, ExceptionCost, IsSmall
  <2> QED BY <1>3, <2>1, <2>2, <2>3, <2>4 DEF PathShort
<1>4. ASSUME encoder' = "optimal" PROVE PathShort(Passed)'
  <2>1. CASE RelaxStep
    <3>1. pc = "encode" /\ pc' = "encode" /\ pos' = pos + 1 /\ encoder = "optimal"
      BY <2>1 DEF RelaxStep
    <3>2. Passed = pos /\ Passed' = pos'
      BY <3>1 DEF Passed
    <3>3. PathShort(pos) /\ PathOK
      BY <1>1, <3>1, <3>2 DEF ShortInv, Inv
    <3>4. PathShort(pos)'
      BY <1>2, <2>1, <3>1, <3>3, RelaxKeepsShort
    <3> QED BY <3>2, <3>4 DEF PathShort, Continues
  <2>2. CASE GreedyStep
    BY <1>4, <2>2 DEF GreedyStep
  <2>3. CASE EncodeEnd
    <3>1. UNCHANGED <<in, dict, path>> /\ encoder = "optimal" /\ Passed = n /\ Passed' = n
      BY <1>4, <2>3 DEF EncodeEnd, Passed
    <3>2. UNCHANGED Passed
      BY <3>1 DEF n
    <3> QED BY <1>3, <3>1, <3>2
  <2>4. CASE TraceStep \/ TraceEnd \/ DecodeStep \/ DecodeEnd \/ UNCHANGED vars
    <3>1. UNCHANGED <<in, dict, path>> /\ encoder = "optimal"
      BY <1>4, <2>4 DEF TraceStep, TraceEnd, DecodeStep, DecodeEnd, vars
    <3>2. UNCHANGED Passed
      BY <2>4 DEF TraceStep, TraceEnd, DecodeStep, DecodeEnd, vars, Passed, n
    <3> QED BY <1>3, <3>1, <3>2
  <2> QED BY <2>1, <2>2, <2>3, <2>4 DEF Next, Step, Terminated
<1> QED BY <1>1, <1>4 DEF ShortInv

(***************************************************************************)
(* A codeword that leads from a position to a later one decodes to the     *)
(* integers between.                                                       *)
(***************************************************************************)
LEMMA LeadsDecodes ==
    ASSUME IsDictionary(dict), in \in [1..n -> Nat], n \in Nat,
           NEW j \in 1..n, NEW i \in 0..(j - 1), NEW x, Leads(x, i, j)
    PROVE  Decoded(x, i) = SubSeq(in, i + 1, j)
<1> DEFINE a == i + 1
           t == SubSeq(in, a, j)
           w == NodeWord(x, i)
<1>1. x \in Nat /\ Stands(dict, in, w, i) /\ i + Width(dict, w) = j /\ Width(dict, w) \in Nat
  BY DEF Leads, Stands
<1>2. a \in Int /\ j \in Int /\ a <= j + 1 /\ \A q \in a..j : in[q] \in Nat
  OBVIOUS
<1>3. \A p \in 1..(j - i) : a + p - 1 = i + p
  OBVIOUS
<1> HIDE DEF a
<1>4. /\ t \in Seq(Nat) /\ Len(t) = j - a + 1
      /\ \A p \in 1..(j - a + 1) : t[p] = in[a + p - 1]
  BY <1>2, SubSeqProperties
<1>5. j - a + 1 = j - i
  BY DEF a
<1> HIDE DEF t
<1>6. Len(t) = j - i /\ \A p \in 1..(j - i) : t[p] = in[i + p]
  BY <1>3, <1>4, <1>5
<1>7. CASE x > 1
  <2> DEFINE e == Entry(dict, x)
             k == EntrySize(dict, x)
  <2>1. w = [index |-> x, value |-> 0]
    BY <1>7 DEF NodeWord, Codeword
  <2>2. Width(dict, w) = k
    BY <1>7, <2>1 DEF Width
  <2>3. x \in EXCEPTIONS..(DictSize(dict) - 1) /\ \A p \in 1..k : e[p] = in[i + p]
    BY <1>1, <1>7, <2>1, <2>2 DEF Stands
  <2>4. e \in Seq(Nat) /\ Len(e) = k /\ k \in Nat
    BY <2>3, EntryFacts
  <2>5. k = j - i
    <3> HIDE DEF k
    <3> QED BY <1>1, <2>2, <2>4
  <2> HIDE DEF e, k
  <2>6. e = t
    BY <1>4, <1>6, <2>3, <2>4, <2>5
  <2>7. x > EXCEPTIONS - 1
    BY <1>7 DEF EXCEPTIONS
  <2> QED BY <2>6, <2>7 DEF Decoded, e, t, a
<1>8. CASE ~(x > 1)
  <2> DEFINE v == ExceptionCode(x, in[i + 1]).value
  <2>1. w = ExceptionCode(x, in[i + 1])
    BY <1>8 DEF NodeWord
  <2>2. w.index = x
    BY <2>1 DEF ExceptionCode
  <2>3. Width(dict, w) = 1 /\ v = in[i + 1]
    BY <1>1, <1>8, <2>1, <2>2 DEF Width, Stands
  <2>4. j - i = 1
    BY <1>1, <2>3
  <2> HIDE DEF v
  <2>5. t = <<v>>
    BY <1>4, <1>6, <2>3, <2>4
  <2>6. ~(x > EXCEPTIONS - 1)
    BY <1>8 DEF EXCEPTIONS
  <2> QED BY <2>5, <2>6 DEF Decoded, v, t, a
<1> QED BY <1>1, <1>7, <1>8

(***************************************************************************)
(* What the invariant says of the nodes passed, and of the last one when   *)
(* the path is about to be followed back.                                  *)
(***************************************************************************)
LEMMA ShortInvShortest == ShortInv => ShortestCode
<1> SUFFICES ASSUME ShortInv, encoder = "optimal" PROVE ShortestCode
  BY DEF ShortestCode, PathSound, OptimalIsShortest
<1>1. Inv /\ PathShort(Passed) /\ PathOK /\ Priced
  BY DEF ShortInv, Inv
<1>2. in \in Inputs /\ dict \in Dictionaries /\ pos \in 0..n
      /\ in \in [1..n -> Nat] /\ IsDictionary(dict) /\ n \in Nat
  BY <1>1, InputFacts DEF Inv
<1>3. Passed \in 0..n /\ Passed = IF pc = "encode" THEN pos ELSE n
  BY <1>2 DEF Passed
<1>4. ASSUME NEW j \in 1..Passed
      PROVE  /\ Decoded(path[j].codeword, path[j].parent) = SubSeq(in, path[j].parent + 1, j)
             /\ path[j].cost = path[path[j].parent].cost + Cost(path[j].codeword)
  <2>1. j \in 1..n /\ ~(j > Passed)
    BY <1>2, <1>3
  <2>2. path[j].parent \in 0..(j - 1) /\ Leads(path[j].codeword, path[j].parent, j)
    BY <1>1, <2>1 DEF PathOK
  <2>3. Continues(j, Passed)
    BY <1>1, <2>1 DEF PathShort
  <2>4. path[j].cost = path[path[j].parent].cost + Cost(path[j].codeword)
    BY <2>1, <2>3 DEF Continues
  <2> QED BY <1>2, <2>1, <2>2, <2>4, LeadsDecodes
<1>5. PathSound
  BY <1>3, <1>4 DEF PathSound
<1>6. ASSUME pc = "trace" PROVE path[n].cost = Shortest(dict, in)
  <2>1. PathShort(n)
    BY <1>1, <1>3, <1>6
  <2> QED BY <1>1, <1>2, <2>1, LastIsShortest
<1> QED BY <1>5, <1>6 DEF ShortestCode, OptimalIsShortest

(***************************************************************************)
(* Every way the optimal encoder keeps decodes to the integers it passes   *)
(* over, at the cost it states, and no sequence of codewords that decodes  *)
(* to the block takes fewer words than the one found (opt_dint_single_-    *)
(* dict_block::encode of dint_codecs.hpp).                                 *)
(***************************************************************************)
THEOREM ShortestCodeAlways == Spec => []ShortestCode
<1>1. Init => ShortInv
  BY ShortInvInit
<1>2. ShortInv /\ [Next]_vars => ShortInv'
  BY ShortInvStep
<1>3. ShortInv => ShortestCode
  BY ShortInvShortest
<1> QED BY <1>1, <1>2, <1>3, PTL DEF Spec

-----------------------------------------------------------------------------
(* What the variables range over.                                          *)

TypeInv == ShortInv /\ (encoder = "greedy" => path = InitialPath)

LEMMA TypeInvStep == TypeInv /\ [Next]_vars => TypeInv'
<1> SUFFICES ASSUME TypeInv, [Next]_vars PROVE TypeInv'
  OBVIOUS
<1>1. ShortInv'
  BY ShortInvStep DEF TypeInv
<1>2. ASSUME encoder' = "greedy" PROVE path' = InitialPath'
  <2>1. encoder = "greedy" /\ path' = path
    BY <1>2 DEF Next, Step, GreedyStep, RelaxStep, EncodeEnd, TraceStep, TraceEnd, DecodeStep,
                DecodeEnd, Terminated, vars
  <2>2. path = InitialPath
    BY <2>1 DEF TypeInv
  <2> QED BY <2>1, <2>2 DEF InitialPath
<1> QED BY <1>1, <1>2 DEF TypeInv

(***************************************************************************)
(* Words that stand for integers have an index of the dictionary or are    *)
(* escapes.                                                                *)
(***************************************************************************)
LEMMA IndexesKnown ==
    ASSUME IsDictionary(dict), code \in Seq(Word),
           \A c \in 1..Len(code) : code[c].index > 1 =>
                code[c].index \in EXCEPTIONS..(DictSize(dict) - 1)
    PROVE  \A c \in 1..Len(code) : code[c].index \in 0..(DictSize(dict) - 1)
<1> DEFINE l == Len(dict.targets)
           top == DictSize(dict) - 1
<1>1. Len(Runs) \in Nat /\ l \in Nat
  BY RunsAssumption DEF IsDictionary
<1>2. DictSize(dict) = 2 + Len(Runs) + l
  BY <1>1 DEF DictSize, reserved, EXCEPTIONS
<1> HIDE DEF l
<1>3. top \in Nat /\ top >= 1
  BY <1>1, <1>2
<1>4. \A c \in 1..Len(code) : code[c].index > 1 => code[c].index \in EXCEPTIONS..top
  OBVIOUS
<1> HIDE DEF top
<1>6. \A c \in 1..Len(code) : code[c] \in Word
  OBVIOUS
<1>7. \A c \in 1..Len(code) : code[c].index \in Nat
  BY <1>6 DEF Word
<1>5. \A c \in 1..Len(code) : code[c].index \in 0..top
  <2> TAKE c \in 1..Len(code)
  <2> DEFINE x == code[c].index
  <2>1. x \in Nat /\ (x > 1 => x \in EXCEPTIONS..top)
    BY <1>4, <1>7
  <2> HIDE DEF x
  <2>2. x \in 0..top
    BY <1>3, <2>1 DEF EXCEPTIONS
  <2> QED BY <2>2 DEF x
<1> QED BY <1>5 DEF top

LEMMA TypeInvCorrect == TypeInv => TypeOK
<1> SUFFICES ASSUME TypeInv PROVE TypeOK
  OBVIOUS
<1>1. Inv /\ (encoder = "optimal" => PathShort(Passed))
  BY DEF TypeInv, ShortInv
<1>2. /\ in \in Inputs /\ dict \in Dictionaries /\ encoder \in {"greedy", "optimal"}
      /\ pc \in {"encode", "trace", "decode", "done"} /\ pos \in 0..n /\ code \in Seq(Word)
      /\ IsDictionary(dict) /\ n \in Nat /\ Priced
  BY <1>1, InputFacts DEF Inv
<1>3. ASSUME NEW j \in 1..n
      PROVE  path[j].parent \in 0..(j - 1) /\ path[j].cost \in 0..(3 * j)
  <2>1. j \in 0..n /\ j \in Nat
    BY <1>2
  <2>2. CASE encoder = "optimal"
    <3>1. path[j].cost \in Nat /\ path[j].cost <= 3 * j
      BY <1>1, <1>2, <2>1, <2>2 DEF Priced, PathShort
    <3>2. path[j].parent \in 0..(j - 1)
      BY <1>1, <2>2 DEF Inv, PathOK
    <3> QED BY <2>1, <3>1, <3>2
  <2>3. CASE encoder = "greedy"
    <3>1. path[j].parent = j - 1 /\ path[j].cost = 3 * j
      BY <1>2, <2>1, <2>3 DEF TypeInv, InitialPath
    <3> QED BY <2>1, <3>1
  <2> QED BY <1>2, <2>2, <2>3
<1>4. \/ code = <<>>
      \/ \E from, to : Covers(dict, in, code, from, to)
      \/ Reading
  BY <1>1, <1>2, Zenon DEF Inv
<1>5. \A c \in 1..Len(code) : code[c].index > 1 =>
                code[c].index \in EXCEPTIONS..(DictSize(dict) - 1)
  <2>1. ASSUME NEW from, NEW to, NEW cut, IsCut(dict, in, code, cut, from, to)
        PROVE  \A c \in 1..Len(code) : code[c].index > 1 =>
                    code[c].index \in EXCEPTIONS..(DictSize(dict) - 1)
    BY <2>1 DEF IsCut, Stands
  <2>2. CASE code = <<>>
    BY <2>2
  <2>3. CASE (\E from, to : Covers(dict, in, code, from, to)) \/ Reading
    <3>1. \E from, to, cut : IsCut(dict, in, code, cut, from, to)
      BY <2>3, Zenon DEF Covers, Reading
    <3> QED BY <2>1, <3>1
  <2> QED BY <1>4, <2>2, <2>3
<1>6. \A c \in 1..Len(code) : code[c].index \in 0..(DictSize(dict) - 1)
  BY <1>2, <1>5, IndexesKnown
<1>7. ptr \in 1..(Len(code) + 1)
  <2>1. CASE pc \in {"encode", "trace"}
    <3>1. ptr = 1 /\ Len(code) \in Nat
      BY <1>1, <1>2, <2>1 DEF Inv
    <3> QED BY <3>1
  <2>2. CASE pc \in {"decode", "done"}
    BY <1>1, <2>2 DEF Inv, Reading
  <2> QED BY <1>2, <2>1, <2>2
<1>8. DOMAIN out = 1..(n + Overflow)
  BY <1>1, <1>2 DEF Inv, DecodedTo
<1> QED BY <1>2, <1>3, <1>6, <1>7, <1>8 DEF TypeOK

(***************************************************************************)
(* A copy begins before the end of the block, so it is past the overflow   *)
(* by no integer; where it wrote is behind the position by less than its   *)
(* length.                                                                 *)
(***************************************************************************)
LEMMA InvDirtBounded == Inv => DirtBounded
<1> SUFFICES ASSUME Inv, pc = "decode" PROVE DirtBounded
  BY DEF DirtBounded
<1>1. pos \in 0..n /\ n \in Nat /\ DecodedTo(in, out, pos)
  BY InputFacts DEF Inv
<1>2. pos < n => pos + MaxEntrySize <= n + Overflow
  BY <1>1, BlockSizeAssumption, OverflowAssumption, MaxEntrySizeAssumption
<1> QED BY <1>1, <1>2 DEF DirtBounded, DecodedTo

(***************************************************************************)
(* The variables have the values the code has room for: the nodes of the   *)
(* path lead backwards, the words are in the dictionary, and the decoder   *)
(* does not run out of code.                                               *)
(***************************************************************************)
THEOREM TypeCorrect == Spec => []TypeOK
<1>1. Init => TypeInv
  BY ShortInvInit DEF TypeInv, Init
<1>2. TypeInv /\ [Next]_vars => TypeInv'
  BY TypeInvStep
<1>3. TypeInv => TypeOK
  BY TypeInvCorrect
<1> QED BY <1>1, <1>2, <1>3, PTL DEF Spec

(***************************************************************************)
(* copy(), which writes max_entry_size integers whatever an entry's        *)
(* length, never writes behind the overflow of the buffer, and behind what *)
(* it may have written the zeros are left that a longer run relies on      *)
(* (single_dictionary::copy of single_dictionary.hpp).                     *)
(***************************************************************************)
THEOREM DirtAlwaysBounded == Spec => []DirtBounded
<1>1. Init => Inv
  BY InvInit
<1>2. Inv /\ [Next]_vars => Inv'
  BY InvStep
<1>3. Inv => DirtBounded
  BY InvDirtBounded
<1> QED BY <1>1, <1>2, <1>3, PTL DEF Spec
=============================================================================
