------------------------------ MODULE FreqIndex ------------------------------
(***************************************************************************)
(* freq_index and positive_sequence: a posting list is a bitvector of its  *)
(* documents, with the number of occurrences and the length in front, and  *)
(* one of its frequencies, as the strictly increasing sequence of their    *)
(* partial sums.  The length is written in as many bits as the occurrences *)
(* need, as it cannot be larger; and a frequency is the difference of two  *)
(* sums, of which positive_sequence keeps the last.  The sequences are     *)
(* abstract cursors, see IndexedSequence and PartitionedSequence; that     *)
(* lists are committed in the order they were added is the queue's part,   *)
(* see SemiasyncQueue.                                                     *)
(***************************************************************************)
EXTENDS BitvectorCollection

CONSTANTS
    Lists,          \* posting lists: [docs, freqs], tuples
    NumDocs,
    MaxLists,       \* bound: lists in an index
    Garbage         \* what m_cur holds before it is set

FreqIndexAssumption == NumDocs \in Nat /\ MaxLists \in Nat /\ Garbage \in Nat
ListsAssumption ==
    \A l \in Lists :
        /\ l.docs \in Seq(0 .. NumDocs - 1) /\ l.freqs \in Seq(Nat \ {0})
        /\ l.docs # <<>> /\ Len(l.freqs) = Len(l.docs)

VARIABLES
    added,          \* the lists, in the order they were added
    docs, freqs,    \* m_docs_sequences, m_freqs_sequences
    built,
    reader,         \* the document_enumerator: list, what it read, its cursors
    freq            \* what the last call of freq() returned, 0 before it

vars == <<added, docs, freqs, built, reader, freq>>

Occurrences(l) == Sums(l.freqs)[Len(l.freqs)]
PartialSums(l) == [i \in 1 .. Len(l.freqs) |-> Sums(l.freqs)[i]]

SequenceBits(universe, n) == IF universe = n THEN 0 ELSE universe + 1

\* list_adder::prepare: the two bitvectors of a list.
DocsBits_LengthField(l) ==
    LET occurrences == Occurrences(l)
        width == CeilLog2(occurrences)
    IN [occurrences |-> occurrences,
        length |-> IF occurrences > 1 THEN Len(l.docs) % 2 ^ width ELSE 0,
        values |-> l.docs,
        size |-> GammaBits(occurrences - 1) + (IF occurrences > 1 THEN width ELSE 0)
                    + SequenceBits(NumDocs, Len(l.docs))]
DocsBits(l) ==
    LET occurrences == Occurrences(l)
        width == CeilLog2(occurrences + 1)
    IN [occurrences |-> occurrences,
        length |-> IF occurrences > 1 THEN Len(l.docs) % 2 ^ width ELSE 0,
        values |-> l.docs,
        size |-> GammaBits(occurrences - 1) + (IF occurrences > 1 THEN width ELSE 0)
                    + SequenceBits(NumDocs, Len(l.docs))]
FreqsBits(l) == [values |-> PartialSums(l), universe |-> Occurrences(l) + 1,
                 size |-> SequenceBits(Occurrences(l) + 1, Len(l.freqs))]

AddPostingList(l) ==
    /\ ~built /\ Len(added) < MaxLists
    /\ added' = Append(added, l)
    /\ docs' = Append(docs, DocsBits(l))
    /\ freqs' = Append(freqs, FreqsBits(l))
    /\ UNCHANGED <<built, reader, freq>>

Build == ~built /\ added # <<>> /\ built' = TRUE /\ UNCHANGED <<added, docs, freqs, reader, freq>>

-----------------------------------------------------------------------------
(* Reading: operator[] and the document_enumerator *)

\* The cursor of documents at position p, and of sums: positions from 0.
Docid(values, n, p) == IF p < n THEN values[p + 1] ELSE NumDocs
Sum(r, p) == IF p < r.n THEN r.sums[p + 1] ELSE r.occurrences + 1

Open(i) ==
    LET d == Get(docs, i)
        n == IF d.occurrences > 1 THEN d.length ELSE 1
    IN /\ built
       /\ reader' = [list |-> i + 1, occurrences |-> d.occurrences, n |-> n,
                     values |-> d.values, sums |-> Get(freqs, i).values,
                     pos |-> 0, docid |-> Docid(d.values, n, 0),
                     base |-> n, cachedPos |-> n, cachedSum |-> Garbage]
       /\ freq' = 0
       /\ UNCHANGED <<added, docs, freqs, built>>

DocsAt(p) == [reader EXCEPT !.pos = p, !.docid = Docid(reader.values, reader.n, p)]

MoveDocs ==
    /\ reader.list > 0
    /\ \/ \E p \in 0 .. reader.n : reader' = DocsAt(p)
       \/ reader.pos < reader.n /\ reader' = DocsAt(reader.pos + 1)
       \/ \E bound \in 0 .. NumDocs :
              reader' = IF bound = reader.docid THEN reader
                        ELSE DocsAt(Min({reader.n} \cup
                                 {p \in 0 .. reader.n - 1 : reader.values[p + 1] >= bound}))
    /\ freq' = 0
    /\ UNCHANGED <<added, docs, freqs, built>>

\* freq(): positive_sequence::move to the position of the document.
InStep(r) == r.pos = r.cachedPos + 1
Previous(r) == IF InStep(r) THEN r.cachedSum ELSE Sum(r, r.pos - 1)
KeptFor_InStep(r) == IF InStep(r) THEN r.pos ELSE r.cachedPos
KeptFor(r) == r.pos

Freq ==
    LET r == reader
        at == IF InStep(r) THEN r.base + 1 ELSE r.pos
    IN /\ r.list > 0 /\ r.pos < r.n
       /\ IF r.pos = 0
          THEN /\ reader' = [r EXCEPT !.base = 0, !.cachedPos = 0, !.cachedSum = Sum(r, 0)]
               /\ freq' = Sum(r, 0)
          ELSE /\ reader' = [r EXCEPT !.base = at, !.cachedPos = KeptFor(r), !.cachedSum = Sum(r, at)]
               /\ freq' = Sum(r, at) - Previous(r)
       /\ UNCHANGED <<added, docs, freqs, built>>

Init == /\ added = <<>> /\ docs = <<>> /\ freqs = <<>> /\ built = FALSE /\ freq = 0
        /\ reader = [list |-> 0]

Next == \/ \E l \in Lists : AddPostingList(l)
        \/ Build
        \/ \E i \in 0 .. Len(added) - 1 : Open(i)
        \/ MoveDocs
        \/ Freq

Spec == Init /\ [][Next]_vars

-----------------------------------------------------------------------------
(* Properties *)

\* The beginnings of the bitvectors can be written as a sequence below their
\* total size: no bitvector is empty, not even the last.
EndpointsEncodable == built => Encodable(docs) /\ Encodable(freqs)

\* The enumerator of list i has the documents, the length and the occurrences of
\* list i, though only some of them are written.
ListRead ==
    reader.list > 0 =>
        LET l == added[reader.list]
        IN /\ reader.n = Len(l.docs) /\ reader.values = l.docs
           /\ reader.occurrences = Occurrences(l) /\ reader.sums = PartialSums(l)

\* The sum that is kept is that of the position it is kept for, and the cursor
\* in the sums stands there: the next frequency is the next difference.
CacheInStep ==
    reader.list > 0 => /\ reader.base = reader.cachedPos
                       /\ reader.cachedPos < reader.n
                            => reader.cachedSum = Sum(reader, reader.cachedPos)

\* freq() returns the frequency of the document the enumerator is at, whatever
\* positions it was asked for before.
FreqOfDocument == freq > 0 => freq = added[reader.list].freqs[reader.pos + 1]
=============================================================================
