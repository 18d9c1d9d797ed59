-------------------------- MODULE BlocksCollection --------------------------
(***************************************************************************)
(* The iterator over a file of blocks (binary_blocks_collection.hpp): the  *)
(* number of blocks, then for each its size, its frequency and its         *)
(* integers.  The file may be cut off.                                     *)
(***************************************************************************)
EXTENDS Naturals, Sequences, SequencesExt

CONSTANTS
    Files,      \* sequences of blocks [freq, data]
    MayBeCut    \* whether the last block may be cut off

FilesAssumption ==
    \A f \in Files : \A b \in DOMAIN f : f[b].freq \in Nat /\ f[b].data \in Seq(Nat)
MayBeCutAssumption == MayBeCut \in BOOLEAN

VARIABLES
    file,               \* the blocks
    data,               \* m_data, its words
    m_pos, m_next_pos,
    block,              \* the current one: [freq, begin, end], words of the file
    visited             \* blocks the loop went through

vars == <<file, data, m_pos, m_next_pos, block, visited>>

WordsOf(f) == <<Len(f)>> \o FlattenSeq([b \in DOMAIN f |-> <<Len(f[b].data), f[b].freq>> \o f[b].data])

\* Where the next size is that is not 0.
NonEmpty(words, pos) ==
    CHOOSE p \in pos..Len(words) :
        /\ p < Len(words) => words[p + 1] # 0
        /\ \A q \in pos..(p - 1) : words[q + 1] = 0

\* read() of the block whose size is at pos or behind: the size is bounded by
\* what is left, but of that the frequency is one.
Block(words, pos) ==
    LET at == NonEmpty(words, pos) + 1
        left == Len(words) - at
        n == IF words[at] < left THEN words[at] ELSE left
    IN  [freq |-> words[at + 1], begin |-> at + 1, end |-> at + 1 + n]

\* What the current block shows; behind the file there are zeros.
Current ==
    [freq |-> block.freq,
     data |-> [k \in 1..(block.end - block.begin) |->
                  IF block.begin + k <= Len(data) THEN data[block.begin + k] ELSE 0]]

\* A file and how many integers its last block has lost.
Init ==
    /\ file \in Files
    /\ \E cut \in IF MayBeCut THEN 0..Len(Last(file).data) ELSE {0} :
            data = LET w == WordsOf(file) IN SubSeq(w, 1, Len(w) - cut)
    /\ m_pos = 1
    /\ block = Block(data, 1)
    /\ m_next_pos = block.end
    /\ visited = <<>>

\* One round of a loop from begin() to end(): the block is used, then ++.
Next1 ==
    /\ m_pos < Len(data)
    /\ visited' = Append(visited, Current)
    /\ m_pos' = m_next_pos
    /\ IF m_pos' >= Len(data) THEN UNCHANGED <<block, m_next_pos>>
       ELSE block' = Block(data, m_pos') /\ m_next_pos' = block'.end
    /\ UNCHANGED <<file, data>>

Terminated == m_pos >= Len(data) /\ UNCHANGED vars

Next == Next1 \/ Terminated

Spec == Init /\ [][Next]_vars /\ WF_vars(Next1)

-----------------------------------------------------------------------------
(* Properties.                                                             *)

\* The loop goes through the blocks that are not empty, in their order, and
\* finds their frequencies.
BlocksInOrder ==
    LET blocks == SelectSeq(file, LAMBDA b : b.data # <<>>)
    IN  /\ Len(visited) <= Len(blocks)
        /\ \A v \in DOMAIN visited : visited[v] = blocks[v]
        /\ m_pos = Len(data) => Len(visited) = Len(blocks)

\* The iterator never passes the end of the file (the assertion of read()), so
\* that the loop finds it, also when the file has been cut off.
IteratorInside == m_pos <= Len(data)
=============================================================================
