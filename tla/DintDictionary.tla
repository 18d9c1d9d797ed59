--------------------------- MODULE DintDictionary ---------------------------
(***************************************************************************)
(* A dictionary of integer sequences as encoder and decoder use it:        *)
(* single_dictionary and its builder (include/dint/single_dictionary.hpp). *)
(*                                                                         *)
(* A dictionary is a record of the targets that were appended to it, in    *)
(* the order of their codewords, and of the table their compaction left:   *)
(* max_entry_size zeros and then the targets, shared where the compacting  *)
(* policy found them to overlap.  Codewords below EXCEPTIONS are escapes,  *)
(* the next ones are the runs of zeros, the others are the targets.        *)
(***************************************************************************)
EXTENDS Integers, Sequences, FiniteSets

CONSTANTS
    MaxEntrySize,   \* max_entry_size: the longest target
    Runs,           \* lengths of the runs of zeros: 256, 128, 64, 32, 16
    Junk            \* what is read behind the end of the table

ASSUME MaxEntrySizeAssumption == MaxEntrySize \in Nat \ {0}
ASSUME RunsAssumption ==
    /\ Runs \in Seq(Nat \ {0}) /\ Runs # <<>>
    /\ \A r \in 2..Len(Runs) : Runs[r] < Runs[r - 1]

EXCEPTIONS == 2

reserved == EXCEPTIONS + Len(Runs)

invalid_index == -1

Zeros(n) == [i \in 1..n |-> 0]

\* What build() makes of the targets.
IsDictionary(d) ==
    /\ d.targets \in Seq(Seq(Nat)) /\ d.table \in Seq(Nat)
    /\ Len(d.table) >= MaxEntrySize
    /\ \A t \in 1..Len(d.targets) : Len(d.targets[t]) \in 1..MaxEntrySize
    /\ SubSeq(d.table, 1, MaxEntrySize) = Zeros(MaxEntrySize)
    /\ \A t \in 1..Len(d.targets) :
        \E o \in 0..(Len(d.table) - Len(d.targets[t])) :
            SubSeq(d.table, o + 1, o + Len(d.targets[t])) = d.targets[t]

DictSize(d) == reserved + Len(d.targets)

IsRun(index) == index \in EXCEPTIONS..(reserved - 1)

Target(d, index) == d.targets[index - reserved + 1]

\* size(i) and offset(i): both are kept in one word of m_offsets.
EntrySize(d, index) ==
    IF IsRun(index) THEN Runs[index - EXCEPTIONS + 1] ELSE Len(Target(d, index))

\* A target is where std::search first finds it, perhaps among the zeros.
EntryOffset(d, index) ==
    IF IsRun(index) THEN 0
    ELSE LET t == Target(d, index)
             starts == {o \in 0..(Len(d.table) - Len(t)) : SubSeq(d.table, o + 1, o + Len(t)) = t}
         IN  CHOOSE o \in starts : \A p \in starts : o <= p

\* The integers a codeword stands for.
Entry(d, index) == IF IsRun(index) THEN Zeros(EntrySize(d, index)) ELSE Target(d, index)

\* lookup(): m_map holds, for every sequence, the last codeword that
\* prepare_for_encoding put in for it.  The hashes of different sequences are
\* taken to differ.
Lookup(d, s) ==
    LET hits == {index \in EXCEPTIONS..(DictSize(d) - 1) : Entry(d, index) = s}
    IN  IF hits = {} THEN invalid_index ELSE CHOOSE i \in hits : \A j \in hits : j <= i

\* Mutant of Copy: more than max_entry_size integers are copied.
Copy_TooMany(d, index, out, at) ==
    [p \in DOMAIN out |->
        IF p \in at..(at + MaxEntrySize)
        THEN LET q == EntryOffset(d, index) + p - at + 1
             IN  IF q <= Len(d.table) THEN d.table[q] ELSE Junk
        ELSE out[p]]

\* copy(): max_entry_size integers are copied to `out' whatever the size of the
\* entry, too many for a short entry and too few for a long run.
Copy(d, index, out, at) ==
    [p \in DOMAIN out |->
        IF p \in at..(at + MaxEntrySize - 1)
        THEN LET q == EntryOffset(d, index) + p - at + 1
             IN  IF q <= Len(d.table) THEN d.table[q] ELSE Junk
        ELSE out[p]]
=============================================================================
