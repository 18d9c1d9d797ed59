--------------------------- MODULE BlockStatistics ---------------------------
(***************************************************************************)
(* The statistics a dictionary is built from (block_statistics.hpp,        *)
(* statistics_collectors.hpp): how often each aligned sequence of a target *)
(* size occurs in the lists, kept when it saves enough (the filter of      *)
(* dictionary_builders.hpp), sorted, stored and loaded again.  With more   *)
(* than one context (block_multi_statistics) a sequence is counted in the  *)
(* context of the block of block_size integers it is in.                   *)
(***************************************************************************)
EXTENDS Integers, Sequences, FiniteSets

CONSTANTS
    Collections,    \* collections: sequences of increasing lists, or of frequencies
    compute_gaps,   \* data_type::docs: the lists are documents
    target_sizes,   \* 16, 8, 4, 2, 1
    block_size,     \* integers of a block that share a context
    num_selectors,  \* contexts; 1 is block_statistics
    num_entries,    \* entries of a dictionary
    InverseEps      \* a block has to save more than 1 / InverseEps codewords per integer

SizesAssumption ==
    /\ target_sizes \in Seq(Nat \ {0})
    /\ \A s \in 2..Len(target_sizes) : target_sizes[s] < target_sizes[s - 1]
    /\ \A s \in DOMAIN target_sizes : block_size % target_sizes[s] = 0
ContextsAssumption == num_selectors \in Nat \ {0} /\ num_entries \in Nat /\ InverseEps \in Nat

VARIABLES
    pc,
    input,          \* the collection
    list,           \* the list that comes next
    buf,            \* the list as it is encoded
    next,           \* collect(): the next target size, or block of block_size
    total_integers,
    block_maps,     \* for each context: sequence -> occurrences
    blocks,         \* for each context: the sequence of blocks [data, freq]
    file,           \* what was stored
    loaded          \* blocks as a later run loads them

vars == <<pc, input, list, buf, next, total_integers, block_maps, blocks, file, loaded>>

Contexts == 0..(num_selectors - 1)

Smaller(a, b) == IF a < b THEN a ELSE b

Largest(S) == CHOOSE x \in S : \A y \in S : y <= x

-----------------------------------------------------------------------------
(* Collecting.                                                             *)

ceil_log2(x) == CHOOSE k \in 0..31 : 2^k >= x /\ (k = 0 \/ 2^(k - 1) < x)

\* selector::get for a block whose largest integer is x.
selector(x) == IF x > 1 THEN ceil_log2(ceil_log2(x + 1)) ELSE 0

\* Gaps less one, or frequencies less one.
ListBuf(l) ==
    [i \in DOMAIN l |-> l[i] - 1 - (IF ~compute_gaps THEN 0 ELSE IF i = 1 THEN -1 ELSE l[i - 1])]

Init ==
    /\ pc = "list" /\ input \in Collections /\ list = 1
    /\ buf = <<>> /\ next = 1 /\ total_integers = 0
    /\ block_maps = [c \in Contexts |-> <<>>]
    /\ blocks = [c \in Contexts |-> <<>>]
    /\ file = <<>> /\ loaded = [c \in Contexts |-> <<>>]

NextList ==
    /\ pc = "list" /\ list <= Len(input)
    /\ buf' = ListBuf(input[list])
    /\ total_integers' = total_integers + Len(input[list])
    /\ list' = list + 1 /\ next' = 1 /\ pc' = "collect"
    /\ UNCHANGED <<input, block_maps, blocks, file, loaded>>

Pieces(from, upto, size) ==
    [k \in 0..((upto - from + 1) \div size - 1) |-> SubSeq(buf, from + k * size, from + (k + 1) * size - 1)]

\* Mutant of Increased: a sequence that comes again in the same list or block is
\* not counted again.
Increased_Once(map, pieces) ==
    LET seen == {pieces[k] : k \in DOMAIN pieces}
    IN  [s \in DOMAIN map \cup seen |->
            (IF s \in DOMAIN map THEN map[s] ELSE 0) + (IF s \in seen THEN 1 ELSE 0)]

\* increase_frequency for each of the pieces, a function from 0 on.
Increased(map, pieces) ==
    LET seen == {pieces[k] : k \in DOMAIN pieces}
    IN  [s \in DOMAIN map \cup seen |->
            (IF s \in DOMAIN map THEN map[s] ELSE 0) + Cardinality({k \in DOMAIN pieces : pieces[k] = s})]

\* collect() into one map: one target size over the whole list; what is left at
\* the end of the list is not counted.
CollectSize ==
    /\ pc = "collect" /\ num_selectors = 1 /\ next <= Len(target_sizes)
    /\ block_maps' = [block_maps EXCEPT ![0] = Increased(@, Pieces(1, Len(buf), target_sizes[next]))]
    /\ next' = next + 1
    /\ UNCHANGED <<pc, input, list, buf, total_integers, blocks, file, loaded>>

\* collect() into several maps: one block of block_size, every target size, into
\* the map of its context.  A shorter block at the end is not counted.
CollectBlock ==
    /\ pc = "collect" /\ num_selectors > 1 /\ next <= Len(buf) \div block_size
    /\ LET from == (next - 1) * block_size + 1
           index == selector(Largest({buf[i] : i \in from..(from + block_size - 1)}))
           upto[s \in 0..Len(target_sizes)] ==
                IF s = 0 THEN block_maps[index]
                ELSE Increased(upto[s - 1], Pieces(from, from + block_size - 1, target_sizes[s]))
       IN  block_maps' = [block_maps EXCEPT ![index] = upto[Len(target_sizes)]]
    /\ next' = next + 1
    /\ UNCHANGED <<pc, input, list, buf, total_integers, blocks, file, loaded>>

CollectEnd ==
    /\ pc = "collect"
    /\ next > (IF num_selectors = 1 THEN Len(target_sizes) ELSE Len(buf) \div block_size)
    /\ pc' = "list" /\ buf' = <<>>
    /\ UNCHANGED <<input, list, next, total_integers, block_maps, blocks, file, loaded>>

-----------------------------------------------------------------------------
(* Selecting, sorting, storing and loading.                                *)

\* compute_saving in units of codeword_bits: each integer of a block would have
\* cost three codewords.
Saving(size, freq) == freq * (3 * size - 1)

\* Blocks that save enough, and all single integers.
Kept(data, freq) == Saving(Len(data), freq) * InverseEps > total_integers \/ Len(data) = 1

Candidates(c) == {[data |-> s, freq |-> block_maps[c][s]] : s \in {t \in DOMAIN block_maps[c] : Kept(t, block_maps[c][t])}}

SelectEntries ==
    /\ pc = "list" /\ list > Len(input)
    /\ pc' = "sort"
    /\ UNCHANGED <<input, list, buf, next, total_integers, block_maps, blocks, file, loaded>>

\* freq_length_sorter
Before(l, r) == IF l.freq = r.freq THEN Len(l.data) > Len(r.data) ELSE l.freq > r.freq

\* The next block of a context in the sorted order; equal ones in any order.
SortNext ==
    /\ pc = "sort"
    /\ \E c \in Contexts :
        LET left == Candidates(c) \ {blocks[c][k] : k \in DOMAIN blocks[c]}
        IN  /\ \A d \in 0..(c - 1) : Len(blocks[d]) = Cardinality(Candidates(d))
            /\ \E b \in left :
                /\ \A other \in left : ~Before(other, b)
                /\ blocks' = [blocks EXCEPT ![c] = Append(@, b)]
    /\ UNCHANGED <<pc, input, list, buf, next, total_integers, block_maps, file, loaded>>

try_to_store ==
    /\ pc = "sort" /\ \A c \in Contexts : Len(blocks[c]) = Cardinality(Candidates(c))
    /\ file' = blocks
    /\ pc' = "stored"
    /\ UNCHANGED <<input, list, buf, next, total_integers, block_maps, blocks, loaded>>

\* How many of the stored blocks are loaded: those a dictionary has room for,
\* but with several contexts all of them.
Needed(num_blocks) == IF num_selectors = 1 THEN Smaller(num_entries, num_blocks) ELSE num_blocks

\* The constructor that reads a file, in a run that finds one.
Load ==
    /\ pc = "stored"
    /\ loaded' = [c \in Contexts |-> SubSeq(file[c], 1, Needed(Len(file[c])))]
    /\ pc' = "loaded"
    /\ UNCHANGED <<input, list, buf, next, total_integers, block_maps, blocks, file>>

Terminated == pc = "loaded" /\ UNCHANGED vars

Next ==
    \/ NextList \/ CollectSize \/ CollectBlock \/ CollectEnd
    \/ SelectEntries \/ SortNext \/ try_to_store \/ Load
    \/ Terminated

Spec == Init /\ [][Next]_vars

-----------------------------------------------------------------------------
(* Properties.                                                             *)

\* The maps hold sequences of the target sizes, each seen at least once.
TypeOK ==
    /\ pc \in {"list", "collect", "sort", "stored", "loaded"}
    /\ list \in 1..(Len(input) + 1) /\ next \in Nat
    /\ \A c \in Contexts : \A s \in DOMAIN block_maps[c] :
            (\E t \in DOMAIN target_sizes : Len(s) = target_sizes[t]) /\ block_maps[c][s] > 0
    /\ \A c \in Contexts : \A k \in DOMAIN blocks[c] : blocks[c][k].freq \in Nat \ {0}

\* Position p of list l begins an aligned piece of the given size, of those that
\* are counted: all of a list, with several contexts all of its whole blocks.
Aligned(l, p, size) ==
    LET unit == IF num_selectors = 1 THEN size ELSE block_size
    IN  (p - 1) % size = 0 /\ ((p - 1) \div unit + 1) * unit <= Len(input[l])

\* The context of the block that position p of list l is in.
ContextAt(l, p) ==
    IF num_selectors = 1 THEN 0
    ELSE LET from == ((p - 1) \div block_size) * block_size + 1
             b == ListBuf(input[l])
         IN  selector(Largest({b[i] : i \in from..(from + block_size - 1)}))

\* Once all lists are collected, every sequence was counted once for each aligned
\* piece of a list that it is, in the context of the piece's block, and for nothing
\* else: no piece twice, none across the end of a list or of a block, and none of
\* the other places, where the encoders look up too.
CountsExact ==
    pc = "sort" => \A c \in Contexts : \A s \in DOMAIN block_maps[c] :
        block_maps[c][s] = Cardinality(
            {lp \in UNION {{l} \X (1..Len(input[l])) : l \in DOMAIN input} :
                /\ Aligned(lp[1], lp[2], Len(s))
                /\ SubSeq(ListBuf(input[lp[1]]), lp[2], lp[2] + Len(s) - 1) = s
                /\ ContextAt(lp[1], lp[2]) = c})

\* Contexts tell the widths of integers apart: what a context holds is less than
\* two to the power of two to the power of its code, and no less than for the
\* context before.
ContextsSeparate ==
    \A c \in Contexts : num_selectors > 1 => \A s \in DOMAIN block_maps[c] :
        Len(s) = block_size => LET x == Largest({s[i] : i \in DOMAIN s})
                               IN  /\ c < 5 => x < 2^(2^c)
                                   /\ c > 0 => x >= 2^(2^(c - 1))

\* Every integer of a list, with several contexts of its whole blocks, is among
\* the blocks to choose from, by itself and in its block's context, however rare it
\* is: only for want of room in the dictionary has the encoder to take an exception
\* for it, wherever it looks it up.
SinglesOffered ==
    pc = "stored" => \A l \in DOMAIN input : \A p \in DOMAIN input[l] :
        Aligned(l, p, 1) => \E b \in DOMAIN blocks[ContextAt(l, p)] :
                                blocks[ContextAt(l, p)][b].data = <<ListBuf(input[l])[p]>>

\* A dictionary built from loaded statistics has the entries of one built from
\* statistics just computed.
LoadedSameDictionary ==
    pc = "loaded" => \A c \in Contexts :
        SubSeq(loaded[c], 1, Smaller(num_entries, Len(loaded[c])))
            = SubSeq(blocks[c], 1, Smaller(num_entries, Len(blocks[c])))

\* A block that is left out for want of room occurs no more often than any that
\* got in.
MostFrequentFirst ==
    pc = "loaded" => \A c \in Contexts : \A k \in DOMAIN blocks[c] :
        k > num_entries => \A j \in 1..num_entries : blocks[c][j].freq >= blocks[c][k].freq
=============================================================================
