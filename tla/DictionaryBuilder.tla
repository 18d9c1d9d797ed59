-------------------------- MODULE DictionaryBuilder --------------------------
(***************************************************************************)
(* How a dictionary is built: the most profitable blocks are appended as   *)
(* targets (dictionary_builders.hpp), the targets are compacted by one of  *)
(* two policies (dictionary_building_utils.hpp), laid out in one table     *)
(* that all dictionaries share, and made ready for lookups                 *)
(* (single_dictionary.hpp for one dictionary, multi_dictionary.hpp for     *)
(* more).                                                                  *)
(***************************************************************************)
EXTENDS Integers, Sequences, FiniteSets, SequencesExt

CONSTANTS
    NumDicts,       \* num_dictionaries; 1 is a single_dictionary
    NumEntries,     \* num_entries of a dictionary
    SmallEntries,   \* codewords of the narrow encoding: 256
    MaxEntrySize,   \* max_entry_size
    Runs,           \* lengths of the runs of zeros: 256, 128, 64, 32, 16
    Overlapping,    \* overlap_policy, or else pack_policy
    Statistics      \* blocks offered to the builder: a sequence for each dictionary

DictsAssumption == NumDicts \in Nat \ {0} /\ MaxEntrySize \in Nat \ {0}
RunsAssumption ==
    /\ Runs \in Seq(Nat \ {0})
    /\ \A r \in 2..Len(Runs) : Runs[r] < Runs[r - 1]
EntriesAssumption == NumEntries \in Nat /\ SmallEntries \in 0..NumEntries /\ Len(Runs) + 2 < SmallEntries
StatisticsAssumption ==
    \A s \in Statistics :
        /\ s \in [1..NumDicts -> Seq(Seq(Nat))]
        /\ \A d \in 1..NumDicts : \A b \in DOMAIN s[d] : Len(s[d][b]) \in 1..MaxEntrySize

VARIABLES
    pc,             \* the loop that is running
    stats,          \* what DSF::build is given
    dict, next,     \* the dictionary and the block it looks at
    m_size,
    m_targets,      \* for each dictionary the targets appended to it
    entries,        \* the targets being compacted: [entry, valid]
    overlaps,       \* priority queue of [left, right, overlap]
    cur,            \* entry of the loops over entries
    m_table,
    m_offsets,      \* [size, offset] of each entry of each dictionary
    m_start_offsets,
    m_maps,         \* sequence -> codeword, wide and narrow, of each dictionary
    padded          \* the table was loaded, not built

vars == <<pc, stats, dict, next, m_size, m_targets, entries, overlaps, cur,
          m_table, m_offsets, m_start_offsets, m_maps, padded>>

EXCEPTIONS == 2
reserved == EXCEPTIONS + Len(Runs)
invalid_index == -1

Zeros(n) == [i \in 1..n |-> 0]

-----------------------------------------------------------------------------
(* Sequences.                                                              *)

OccursAt(src, target, o) == SubSeq(target, o + 1, o + Len(src)) = src

prefix_overlap(src, target) == Len(src) <= Len(target) /\ OccursAt(src, target, 0)

is_contained(src, target) == \E o \in 0..(Len(target) - Len(src)) : OccursAt(src, target, o)

Least(S) == CHOOSE x \in S : \A y \in S : x <= y

search(table, entry) == Least({o \in 0..(Len(table) - Len(entry)) : OccursAt(entry, table, o)})

\* The first length at which the end of A is not the beginning of B ends the
\* comparison: longer overlaps are not looked for.
compute_overlap(A, B) ==
    LET min_len == Least({Len(A), Len(B)})
        equal(l) == SubSeq(A, Len(A) - l + 1, Len(A)) = SubSeq(B, 1, l)
    IN  Least({l - 1 : l \in {k \in 1..min_len : ~equal(k)}} \cup {min_len})

\* target_t::operator<: by size, then lexicographically.
Less(a, b) ==
    \/ Len(a) < Len(b)
    \/ /\ Len(a) = Len(b)
       /\ \E k \in 1..Len(a) : a[k] < b[k] /\ \A j \in 1..(k - 1) : a[j] = b[j]

\* The elements of S, of which `before' is a strict total order.
InOrder(S, before) ==
    [k \in 1..Cardinality(S) |-> CHOOSE x \in S : Cardinality({y \in S : <<y, x>> \in before}) = k - 1]

Sorted(targets) == InOrder(targets, {p \in targets \X targets : Less(p[1], p[2])})

Erased(es) ==
    LET kept == {i \in DOMAIN es : es[i].valid}
        places == InOrder(kept, {p \in kept \X kept : p[1] < p[2]})
    IN  [k \in DOMAIN places |-> es[places[k]]]

-----------------------------------------------------------------------------
(* Appending.                                                              *)

\* init(): zeros at the beginning of the table, for the runs.
Init ==
    /\ pc = "append" /\ stats \in Statistics
    /\ dict = 1 /\ next = 1
    /\ m_size = reserved
    /\ m_targets = [d \in 1..NumDicts |-> <<>>]
    /\ entries = <<>> /\ overlaps = {} /\ cur = 1
    /\ m_table = Zeros(MaxEntrySize)
    /\ m_offsets = <<>> /\ m_start_offsets = <<>> /\ m_maps = <<>>
    /\ padded = FALSE

full == m_size = NumDicts * NumEntries

\* Blocks that DSF::build takes from the statistics of a dictionary.
Offered(d) == Least({NumEntries, Len(stats[d])})

\* append(): a full dictionary takes no more, and the loop goes on.
Append1 ==
    /\ pc = "append" /\ dict <= NumDicts /\ next <= Offered(dict)
    /\ next' = next + 1
    /\ IF full THEN UNCHANGED <<m_targets, m_size>>
       ELSE /\ m_targets' = [m_targets EXCEPT ![dict] = Append(@, stats[dict][next])]
            /\ m_size' = m_size + 1
    /\ UNCHANGED <<pc, stats, dict, entries, overlaps, cur, m_table, m_offsets, m_start_offsets, m_maps, padded>>

NextDictionary ==
    /\ pc = "append" /\ dict <= NumDicts /\ next > Offered(dict)
    /\ dict' = dict + 1 /\ next' = 1
    /\ UNCHANGED <<pc, stats, m_size, m_targets, entries, overlaps, cur, m_table, m_offsets,
                   m_start_offsets, m_maps, padded>>

-----------------------------------------------------------------------------
(* Compacting.                                                             *)

AllTargets == UNION {Range(m_targets[d]) : d \in 1..NumDicts}

Covers(other, e) ==
    Len(e) < Len(other) /\ IF Overlapping THEN is_contained(e, other) ELSE prefix_overlap(e, other)

\* compact(): identical targets once, and none that is part (the beginning) of
\* another.  Targets are visited from short to long, so that a longer one is
\* valid still when a shorter one is compared with it.
Compact ==
    /\ pc = "append" /\ dict > NumDicts
    /\ LET kept == Sorted({e \in AllTargets : ~\E other \in AllTargets : Covers(other, e)})
       IN  entries' = [k \in DOMAIN kept |-> [entry |-> kept[k], valid |-> TRUE]]
    /\ pc' = IF Overlapping THEN "overlaps" ELSE "table"
    /\ UNCHANGED <<stats, dict, next, m_size, m_targets, overlaps, cur, m_table, m_offsets,
                   m_start_offsets, m_maps, padded>>

OverlapsOf(es, pairs) ==
    {o \in {[left |-> p[1], right |-> p[2], overlap |-> compute_overlap(es[p[1]].entry, es[p[2]].entry)] : p \in pairs} :
        o.overlap > 1}

compute_all_overlaps ==
    /\ pc = "overlaps"
    /\ overlaps' = OverlapsOf(entries, {p \in (DOMAIN entries) \X (DOMAIN entries) : p[1] # p[2]})
    /\ pc' = "merge"
    /\ UNCHANGED <<stats, dict, next, m_size, m_targets, entries, cur, m_table, m_offsets,
                   m_start_offsets, m_maps, padded>>

\* The priority queue says nothing of the order of equal overlaps.
Top == {o \in overlaps : \A p \in overlaps : p.overlap <= o.overlap}

\* Mutant of SkipOverlap: it is not taken from the queue.
SkipOverlap_NotPopped ==
    /\ pc = "merge"
    /\ \E o \in Top : ~entries[o.left].valid \/ ~entries[o.right].valid
    /\ UNCHANGED vars

\* A queued overlap of which one side was merged meanwhile.
SkipOverlap ==
    /\ pc = "merge"
    /\ \E o \in Top :
        /\ ~entries[o.left].valid \/ ~entries[o.right].valid
        /\ overlaps' = overlaps \ {o}
    /\ UNCHANGED <<pc, stats, dict, next, m_size, m_targets, entries, cur, m_table, m_offsets,
                   m_start_offsets, m_maps, padded>>

\* Two valid entries become one, whose overlaps with the others are queued.
MergeOverlap ==
    /\ pc = "merge"
    /\ \E o \in Top :
        /\ entries[o.left].valid /\ entries[o.right].valid
        /\ LET node == entries[o.left].entry \o
                         SubSeq(entries[o.right].entry, o.overlap + 1, Len(entries[o.right].entry))
               new == Len(entries) + 1
               es == Append([entries EXCEPT ![o.left] = [entry |-> node, valid |-> FALSE],
                                            ![o.right].valid = FALSE],
                            [entry |-> node, valid |-> TRUE])
               others == {j \in 1..(new - 1) : es[j].valid}
           IN  /\ entries' = es
               /\ overlaps' = (overlaps \ {o}) \cup OverlapsOf(es, (others \X {new}) \cup ({new} \X others))
    /\ UNCHANGED <<pc, stats, dict, next, m_size, m_targets, cur, m_table, m_offsets,
                   m_start_offsets, m_maps, padded>>

EraseMerged ==
    /\ pc = "merge" /\ overlaps = {}
    /\ entries' = Erased(entries)
    /\ pc' = "single" /\ cur' = 1
    /\ UNCHANGED <<stats, dict, next, m_size, m_targets, overlaps, m_table, m_offsets,
                   m_start_offsets, m_maps, padded>>

\* The valid entries that begin with the last symbol of entry i.
Partners(i) ==
    {j \in DOMAIN entries : j # i /\ entries[j].valid /\ entries[j].entry[1] = Last(entries[i].entry)}

\* One iteration of "perform single overlap merging": the first partner is
\* appended without its first symbol.
MergeSingle ==
    /\ pc = "single" /\ cur <= Len(entries)
    /\ cur' = cur + 1
    /\ entries' =
        IF ~entries[cur].valid \/ Partners(cur) = {} THEN entries
        ELSE LET j == Least(Partners(cur))
             IN  [entries EXCEPT ![cur].entry = @ \o Tail(entries[j].entry), ![j].valid = FALSE]
    /\ UNCHANGED <<pc, stats, dict, next, m_size, m_targets, overlaps, m_table, m_offsets,
                   m_start_offsets, m_maps, padded>>

EraseSingle ==
    /\ pc = "single" /\ cur > Len(entries)
    /\ entries' = Erased(entries)
    /\ pc' = "table"
    /\ UNCHANGED <<stats, dict, next, m_size, m_targets, overlaps, cur, m_table, m_offsets,
                   m_start_offsets, m_maps, padded>>

-----------------------------------------------------------------------------
(* The table, the offsets and the maps.                                    *)

CreateTable ==
    /\ pc = "table"
    /\ m_table' = m_table \o FlattenSeq([k \in DOMAIN entries |-> entries[k].entry])
    /\ pc' = "offsets" /\ dict' = 1
    /\ UNCHANGED <<stats, next, m_size, m_targets, entries, overlaps, cur, m_offsets,
                   m_start_offsets, m_maps, padded>>

\* Offset 0 for the escapes and the runs, then where each target is first found.
CreateOffsets ==
    /\ pc = "offsets" /\ dict <= NumDicts
    /\ m_start_offsets' = Append(m_start_offsets, Len(m_offsets))
    /\ m_offsets' = m_offsets
            \o [i \in 1..EXCEPTIONS |-> [size |-> 1, offset |-> 0]]
            \o [r \in DOMAIN Runs |-> [size |-> Runs[r], offset |-> 0]]
            \o [t \in DOMAIN m_targets[dict] |->
                    [size |-> Len(m_targets[dict][t]), offset |-> search(m_table, m_targets[dict][t])]]
    /\ dict' = dict + 1
    /\ UNCHANGED <<pc, stats, next, m_size, m_targets, entries, overlaps, cur, m_table, m_maps, padded>>

OffsetAt(d, i) == m_offsets[m_start_offsets[d] + i + 1]

EntriesOf(d) ==
    (IF d = NumDicts THEN Len(m_offsets) ELSE m_start_offsets[d + 1]) - m_start_offsets[d]

\* The integers of the table an entry stands for.
EntryAt(d, i) ==
    IF i \in EXCEPTIONS..(reserved - 1) THEN Zeros(Runs[i - EXCEPTIONS + 1])
    ELSE SubSeq(m_table, OffsetAt(d, i).offset + 1, OffsetAt(d, i).offset + OffsetAt(d, i).size)

\* Mutant of Mapped: the reserved ones are subtracted twice.
Mapped_ReservedTwice(d) ==
    EXCEPTIONS..(reserved - 1) \cup reserved..(EntriesOf(d) - 2 * reserved - 1)

\* The codewords that prepare_for_encoding enters into the maps.  With several
\* dictionaries it counts without the reserved ones and yet starts with them:
\* the last `reserved' targets are left out, and a dictionary that was given
\* num_entries targets has no codeword above num_entries.
Mapped(d) ==
    EXCEPTIONS..(reserved - 1) \cup
    reserved..((IF NumDicts = 1 THEN m_size ELSE EntriesOf(d) - reserved) - 1)

\* Of entries with the same integers the last one stays in a map.
MapOf(d, indexes) ==
    [s \in {EntryAt(d, i) : i \in indexes} |->
        CHOOSE i \in indexes : EntryAt(d, i) = s /\ \A j \in indexes : EntryAt(d, j) = s => j <= i]

\* try_store_to_file and, in a later run, load_from_file: the tables of several
\* dictionaries are loaded with max_entry_size integers behind them.
Reload ==
    /\ pc = "offsets" /\ dict > NumDicts /\ ~padded
    /\ m_table' = IF NumDicts = 1 THEN m_table ELSE m_table \o Zeros(MaxEntrySize)
    /\ padded' = TRUE
    /\ UNCHANGED <<pc, stats, dict, next, m_size, m_targets, entries, overlaps, cur, m_offsets,
                   m_start_offsets, m_maps>>

prepare_for_encoding ==
    /\ pc = "offsets" /\ dict > NumDicts
    /\ m_maps' = [d \in 1..NumDicts |->
                    [wide |-> MapOf(d, Mapped(d)),
                     narrow |-> MapOf(d, {i \in Mapped(d) : i < reserved \/ i < SmallEntries})]]
    /\ pc' = "ready"
    /\ UNCHANGED <<stats, dict, next, m_size, m_targets, entries, overlaps, cur, m_table, m_offsets,
                   m_start_offsets, padded>>

lookup(map, s) == IF s \in DOMAIN map THEN map[s] ELSE invalid_index

Terminated == pc = "ready" /\ UNCHANGED vars

BuildStep ==
    \/ Append1 \/ NextDictionary \/ Compact \/ compute_all_overlaps \/ SkipOverlap \/ MergeOverlap
    \/ EraseMerged \/ MergeSingle \/ EraseSingle \/ CreateTable \/ CreateOffsets \/ prepare_for_encoding

Next == BuildStep \/ Reload \/ Terminated

Spec == Init /\ [][Next]_vars /\ WF_vars(BuildStep)

-----------------------------------------------------------------------------
(* Properties.                                                             *)

\* The variables have their types: no more targets than codewords, and queued
\* overlaps name entries.
TypeOK ==
    /\ pc \in {"append", "overlaps", "merge", "single", "table", "offsets", "ready"}
    /\ dict \in 1..(NumDicts + 1) /\ padded \in BOOLEAN
    /\ m_size \in reserved..(NumDicts * NumEntries)
    /\ \A o \in overlaps : {o.left, o.right} \subseteq DOMAIN entries
    /\ Len(m_offsets) <= m_size + (NumDicts - 1) * reserved

\* Whatever is merged with whatever in which order, each target remains part of
\* a valid entry: the search in the table, which asserts that it finds, does.
TargetsStayReachable ==
    /\ pc \in {"overlaps", "merge", "single", "table"} =>
        \A t \in AllTargets : \E k \in DOMAIN entries : entries[k].valid /\ is_contained(t, entries[k].entry)
    /\ pc \in {"offsets", "ready"} => \A t \in AllTargets : is_contained(t, m_table)

\* Entries only grow by what makes targets shorter in the table: compacting
\* never takes more room than the targets one after the other.
CompactingSaves ==
    pc \in {"offsets", "ready"} =>
        Len(m_table) <= (IF padded THEN 2 ELSE 1) * MaxEntrySize + Len(FlattenSeq(Sorted(AllTargets)))

\* A codeword that lookup() finds for a sequence is one of the encoding that
\* was asked for and stands for this sequence: copy() yields it, and of a run
\* longer than an entry its first zeros.
LookupFaithful ==
    pc = "ready" => \A d \in 1..NumDicts :
        \A s \in {stats[d][k] : k \in DOMAIN stats[d]} \cup {Zeros(Runs[r]) : r \in DOMAIN Runs} :
            LET w == lookup(m_maps[d].wide, s)
                b == lookup(m_maps[d].narrow, s)
                yields(i) == /\ OffsetAt(d, i).size = Len(s)
                             /\ \A k \in 1..Least({Len(s), MaxEntrySize}) :
                                    /\ OffsetAt(d, i).offset + k <= Len(m_table)
                                    /\ m_table[OffsetAt(d, i).offset + k] = s[k]
            IN  /\ w # invalid_index => w \in EXCEPTIONS..(NumEntries - 1) /\ yields(w)
                /\ b # invalid_index => b \in EXCEPTIONS..(SmallEntries - 1) /\ yields(b)

\* Targets appended are targets found, but for the last `reserved' of each of
\* several dictionaries.
TargetsFound ==
    pc = "ready" => \A d \in 1..NumDicts : \A k \in DOMAIN m_targets[d] :
        k + (IF NumDicts = 1 THEN 0 ELSE reserved) <= Len(m_targets[d])
            => lookup(m_maps[d].wide, m_targets[d][k]) # invalid_index

\* In whichever order entries are merged, every target stays reachable, the table
\* grows by no more than the targets, and lookup() finds for a sequence codewords
\* only that stand for it and that the encoding asked for has; with one dictionary
\* it finds all targets.
DictionaryFaithful ==
    TypeOK /\ TargetsStayReachable /\ CompactingSaves /\ LookupFaithful /\ TargetsFound
=============================================================================
