----------------------------- MODULE Collection -----------------------------
(***************************************************************************)
(* The files of a collection and the iterators over them                   *)
(* (binary_collection.hpp, binary_freq_collection.hpp), in the two loops   *)
(* that go through them: create_collection, which builds an index, and     *)
(* verify_collection, which compares the index with the files again.  The  *)
(* docs file may be cut off anywhere; lists may be empty.                  *)
(***************************************************************************)
EXTENDS Naturals, Sequences, SequencesExt

CONSTANTS
    Collections,    \* sequences of lists, each a pair of its docs and its freqs
    NumDocs,        \* the integer of the first sequence of the docs file
    MinSize,        \* constants::min_size
    Endings         \* what the docs file may end with: a "list" or a part of one,
                    \* the "length" of a list, the length of an "empty" list

CollectionsAssumption ==
    \A c \in Collections : \A i \in DOMAIN c :
        /\ Len(c[i][1]) = Len(c[i][2])
        /\ c[i][1] \in Seq(Nat) /\ c[i][2] \in Seq(Nat)
SizesAssumption == NumDocs \in Nat /\ MinSize \in Nat

VARIABLES
    pc,
    docs, freqs,            \* the words of the two files
    lists,                  \* the lists they hold, the last one cut as the file is
    docs_it, freqs_it,      \* binary_collection::iterator: positions count words
    index,                  \* the lists that were added
    s                       \* of verify_collection

vars == <<pc, docs, freqs, lists, docs_it, freqs_it, index, s>>

-----------------------------------------------------------------------------
(* binary_collection.                                                      *)

WordsOf(seqs) == FlattenSeq([i \in DOMAIN seqs |-> <<Len(seqs[i])>> \o seqs[i]])

\* Where the first length from pos on is that is not 0; behind the file when
\* there is none.
NonEmpty(words, pos) ==
    CHOOSE p \in pos..Len(words) :
        /\ p < Len(words) => words[p + 1] # 0
        /\ \A q \in pos..(p - 1) : words[q + 1] = 0

\* read(); at the end the sequence before it stays.
ReadSeq(words, it) ==
    IF it.pos = Len(words) \/ NonEmpty(words, it.pos) = Len(words) THEN it
    ELSE LET begin == NonEmpty(words, it.pos) + 1
             left == Len(words) - begin
             n == IF words[begin] < left THEN words[begin] ELSE left
         IN  [pos |-> it.pos, next_pos |-> begin + n, begin |-> begin, size |-> n]

\* read() goes on behind the file when it ends with lengths of 0.
ReadsOutside(words, pos) == pos < Len(words) /\ NonEmpty(words, pos) = Len(words)

IteratorAt(words, pos) == ReadSeq(words, [pos |-> pos, next_pos |-> pos, begin |-> pos, size |-> 0])

\* operator++
Next1(words, it) == ReadSeq(words, [it EXCEPT !.pos = it.next_pos])

SeqAt(words, it, n) == SubSeq(words, it.begin + 1, it.begin + n)

-----------------------------------------------------------------------------
(* binary_freq_collection.                                                 *)

\* A docs file of the first lists of the collection, the last one without its
\* last `cut' integers; the freqs file is complete.
FilesOf(c, last, cut) ==
    LET cutList == [c[last] EXCEPT ![1] = SubSeq(@, 1, Len(@) - cut)]
        whole == <<<<NumDocs>>>> \o [i \in 1..last |-> c[i][1]]
    IN  [docs |-> LET w == WordsOf(whole) IN SubSeq(w, 1, Len(w) - cut),
         freqs |-> WordsOf([i \in DOMAIN c |-> c[i][2]]),
         lists |-> SubSeq(c, 1, last - 1)
                     \o <<<<cutList[1], SubSeq(c[last][2], 1, Len(cutList[1]))>>>>]

Ending(c, last, cut) ==
    IF Len(c[last][1]) = 0 THEN "empty" ELSE IF cut = Len(c[last][1]) THEN "length" ELSE "list"

Init ==
    /\ \E c \in Collections : \E last \in DOMAIN c : \E cut \in 0..Len(c[last][1]) :
            /\ Ending(c, last, cut) \in Endings
            /\ docs = FilesOf(c, last, cut).docs
            /\ freqs = FilesOf(c, last, cut).freqs
            /\ lists = FilesOf(c, last, cut).lists
    /\ pc = "open"
    /\ docs_it = IteratorAt(docs, 0) /\ freqs_it = IteratorAt(freqs, 0)
    /\ index = <<>> /\ s = 0

\* begin(): the first sequence of the docs is the number of documents.
Begin(where) ==
    /\ docs_it' = Next1(docs, IteratorAt(docs, 0))
    /\ freqs_it' = IteratorAt(freqs, 0)
    /\ pc' = IF ReadsOutside(docs, IteratorAt(docs, 0).next_pos) \/ ReadsOutside(freqs, 0) THEN "killed" ELSE where

\* operator++, of the docs and then of the freqs, also behind the last list.
NextPair ==
    /\ docs_it' = Next1(docs, docs_it)
    /\ freqs_it' = Next1(freqs, freqs_it)
    /\ pc' = IF ReadsOutside(docs, docs_it.next_pos) \/ ReadsOutside(freqs, freqs_it.next_pos) THEN "killed" ELSE pc

Open ==
    /\ pc = "open"
    /\ IF docs_it.size = 1 THEN Begin("create") ELSE pc' = "invalid" /\ UNCHANGED <<docs_it, freqs_it>>
    /\ UNCHANGED <<docs, freqs, lists, index, s>>

-----------------------------------------------------------------------------
(* create_collection and verify_collection.                                *)

LongEnough(n) == n > MinSize

\* add_posting_list gets n, the first document and the first frequency.
CreateList ==
    /\ pc = "create" /\ docs_it.pos # Len(docs)
    /\ LET n == docs_it.size
       IN  index' = IF LongEnough(n) THEN Append(index, <<SeqAt(docs, docs_it, n), SeqAt(freqs, freqs_it, n)>>) ELSE index
    /\ NextPair
    /\ UNCHANGED <<docs, freqs, lists, s>>

CreateEnd ==
    /\ pc = "create" /\ docs_it.pos = Len(docs)
    /\ Begin("verify")
    /\ UNCHANGED <<docs, freqs, lists, index, s>>

\* Mutant of SameList: the frequencies are compared with the next list's.
SameList_Successor(list) ==
    /\ Len(list[1]) = docs_it.size
    /\ list[2] = SeqAt(freqs, Next1(freqs, freqs_it), docs_it.size)

SameList(list) ==
    /\ Len(list[1]) = docs_it.size
    /\ list[1] = SeqAt(docs, docs_it, docs_it.size)
    /\ list[2] = SeqAt(freqs, freqs_it, docs_it.size)

VerifyList ==
    /\ pc = "verify" /\ docs_it.pos # Len(docs)
    /\ IF s < Len(index) /\ SameList(index[s + 1])
       THEN s' = s + 1 /\ NextPair
       ELSE /\ pc' = IF s < Len(index) THEN "wrong" ELSE "out of range"
            /\ UNCHANGED <<s, docs_it, freqs_it>>
    /\ UNCHANGED <<docs, freqs, lists, index>>

VerifyEnd ==
    /\ pc = "verify" /\ docs_it.pos = Len(docs)
    /\ pc' = "done"
    /\ UNCHANGED <<docs, freqs, lists, docs_it, freqs_it, index, s>>

Step == Open \/ CreateList \/ CreateEnd \/ VerifyList \/ VerifyEnd

Terminated == pc \in {"done", "invalid", "killed", "wrong", "out of range"} /\ UNCHANGED vars

Next == Step \/ Terminated

Spec == Init /\ [][Next]_vars /\ WF_vars(Step)

-----------------------------------------------------------------------------
(* Properties.                                                             *)

\* The iterators stay in their files: what they point to and where they go next.
TypeOK ==
    /\ pc \in {"open", "create", "verify", "done", "invalid", "killed", "wrong", "out of range"}
    /\ \A it \in {docs_it, freqs_it} : it.pos <= it.next_pos
    /\ docs_it.begin + docs_it.size <= Len(docs) /\ docs_it.next_pos <= Len(docs)
    /\ freqs_it.begin + freqs_it.size <= Len(freqs) /\ freqs_it.next_pos <= Len(freqs)
    /\ s \in 0..Len(index)

NonEmptyLists == SelectSeq(lists, LAMBDA l : Len(l[1]) > 0)

\* What is added, so far, are the lists of the collection that are not empty, in
\* their order, each with its own frequencies although the two files are read
\* independently; a docs file that was cut off gives what is left of its last
\* list with the frequencies of these postings.
ListsInOrder ==
    /\ IsPrefix(index, NonEmptyLists)
    /\ pc \in {"verify", "done"} => index = NonEmptyLists

\* Nothing behind a file is read, whatever it ends with.
ReadsInside == pc # "killed"

\* An index built from files is found equal to them ("Everything is OK!").
VerifyAccepts == pc # "wrong"

\* verify_collection asks the index for lists it has.
VerifyInRange == pc # "out of range"
=============================================================================
