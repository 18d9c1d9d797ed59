--------------------------- MODULE DictionaryFile ---------------------------
(***************************************************************************)
(* What runs of create_freq_index leave behind for later runs: the         *)
(* statistics of a collection and the dictionary, in files of the working  *)
(* directory that are found by the basename of the collection and the type *)
(* (build_or_load_dict of dict_freq_index.hpp, create_or_load of           *)
(* block_statistics.hpp).  A file that exists is taken as complete; a run  *)
(* may crash at any point.  Two formats: single_dictionary.hpp and         *)
(* rectangular_dictionary.hpp, which keeps each entry in a row of its own  *)
(* with the size behind it.                                                *)
(***************************************************************************)
EXTENDS Integers, Sequences, FiniteSets, SequencesExt

CONSTANTS
    rectangular,    \* rectangular_dictionary, or else single_dictionary
    num_entries, max_entry_size,
    Runs,           \* lengths of the runs of zeros: 256, 128, 64, 32, 16
    Collections,    \* collections of the same basename: the blocks to build from
    MaxRuns,        \* runs of the program
    MostUnset,      \* numbers that a variable which was not initialised may hold
    FirstFlush      \* words that reach an empty dictionary file at once; 0 when a
                    \* crash may leave it empty

SizesAssumption ==
    /\ num_entries \in Nat /\ max_entry_size \in Nat \ {0} /\ MaxRuns \in Nat /\ FirstFlush \in Nat
    /\ MostUnset \in Nat
RunsAssumption == Runs \in Seq(Nat \ {0}) /\ Len(Runs) + 2 <= num_entries
CollectionsAssumption == \A c \in Collections : \A b \in DOMAIN c : Len(c[b]) \in 1..max_entry_size

VARIABLES
    pc,
    runs,           \* runs started
    coll,           \* collection of this run
    statistics,     \* its blocks, as computed or loaded
    dict,           \* the dictionary builder
    stats_file,     \* [exists, words]
    dict_file,      \* [exists, words], and the dictionary that was to be written
    index           \* dictionary of the last index that was finished

vars == <<pc, runs, coll, statistics, dict, stats_file, dict_file, index>>

EXCEPTIONS == 2
reserved == EXCEPTIONS + Len(Runs)
Row == max_entry_size + 1
Lesser(a, b) == IF a < b THEN a ELSE b
Zeros(n) == [i \in 1..n |-> 0]
None == <<>>

-----------------------------------------------------------------------------
(* Dictionaries: [m_size, offsets, table]; the offsets are [size, offset]   *)
(* and in the rectangular format there are none.                           *)

Constructed == [m_size |-> reserved, offsets |-> <<>>, table |-> <<>>]

Escapes == [i \in 1..EXCEPTIONS |-> [size |-> 1, offset |-> 0]]

\* Mutant of InitialOffsets: the runs from the shortest to the longest.
InitialOffsets_Ascending ==
    Escapes \o [r \in DOMAIN Runs |-> [size |-> Runs[Len(Runs) + 1 - r], offset |-> 0]]

\* init() of the single one.
InitialOffsets ==
    Escapes \o [r \in DOMAIN Runs |-> [size |-> Runs[r], offset |-> 0]]

RowOf(entry, size) == entry \o Zeros(max_entry_size - Len(entry)) \o <<size>>

\* init() of the rectangular one: rows for all entries, sizes for the reserved.
InitialRows ==
    FlattenSeq([i \in 1..EXCEPTIONS |-> RowOf(<<>>, 1)]) \o FlattenSeq([r \in DOMAIN Runs |-> RowOf(<<>>, Runs[r])])
        \o Zeros((num_entries - reserved) * Row)

search(table, entry) ==
    CHOOSE o \in 0..(Len(table) - Len(entry)) :
        /\ SubSeq(table, o + 1, o + Len(entry)) = entry
        /\ \A p \in 0..(o - 1) : SubSeq(table, p + 1, p + Len(entry)) # entry

\* A word of m_offsets keeps the size less one in 8 bits: 256, the longest run, is
\* the largest, others are taken modulo it.
KeptSize(size) == ((size - 1) % Runs[1]) + 1

\* What append() takes before the dictionary is full().
Appended(blocks) == SubSeq(blocks, 1, Lesser(Len(blocks), num_entries - reserved))

\* append() and build() of the single one, with assertions off.
SingleBuilt(targets) ==
    LET table == Zeros(max_entry_size) \o FlattenSeq(targets)
        offset(t) == [size |-> KeptSize(Len(targets[t])), offset |-> search(table, targets[t])]
    IN  [m_size |-> reserved + Len(targets), table |-> table,
         offsets |-> InitialOffsets \o [t \in DOMAIN targets |-> offset(t)]]

\* append() of the rectangular one: the t-th target is copied to its row whatever
\* its size, over the next rows if it is longer, and its size put behind the row.
\* What is written behind the table is not in it.
RowsBuilt(targets) ==
    LET at(t) == (reserved + t - 1) * Row
        over(p) == {t \in DOMAIN targets : p - at(t) \in DOMAIN targets[t]}
        last(p) == CHOOSE t \in over(p) : \A u \in over(p) : u <= t
        sized(p) == {t \in DOMAIN targets : p = at(t) + Row}
    IN  [m_size |-> reserved + Len(targets), offsets |-> <<>>,
         table |-> [p \in DOMAIN InitialRows |->
                       IF sized(p) # {} THEN Len(targets[CHOOSE t \in sized(p) : TRUE])
                       ELSE IF over(p) # {} THEN targets[last(p)][p - at(last(p))] ELSE InitialRows[p]]]

Built(blocks) == IF rectangular THEN RowsBuilt(Appended(blocks)) ELSE SingleBuilt(Appended(blocks))

\* write(): an offset is one word.
SingleWords(d) == <<d.m_size, Len(d.offsets), Len(d.table)>> \o d.offsets \o d.table

WordsOf(d) == IF rectangular THEN <<d.m_size>> \o SubSeq(d.table, 1, d.m_size * Row) ELSE SingleWords(d)

\* istream::read leaves alone what the file does not hold.
Read(words, from, into) ==
    [k \in DOMAIN into |-> IF from + k - 1 <= Len(words) THEN words[from + k - 1] ELSE into[k]]

\* load() of a builder that was just constructed; only the rectangular one is
\* initialised first.
SingleLoaded(words) ==
    LET header == Read(words, 1, <<Constructed.m_size, 0, 0>>)
    IN  [m_size |-> header[1],
         offsets |-> Read(words, 4, [i \in 1..header[2] |-> [size |-> 1, offset |-> 0]]),
         table |-> Read(words, 4 + header[2], Zeros(header[3]))]

Loaded(words) ==
    IF rectangular
    THEN [m_size |-> Read(words, 1, <<0>>)[1], offsets |-> <<>>, table |-> Read(words, 2, InitialRows)]
    ELSE SingleLoaded(words)

\* size(i), and where get(i) points.
SizeOf(d, i) ==
    IF rectangular THEN IF (i + 1) * Row > Len(d.table) THEN 0 ELSE d.table[(i + 1) * Row]
    ELSE IF i >= Len(d.offsets) THEN 0 ELSE d.offsets[i + 1].size

OffsetOf(d, i) ==
    IF rectangular THEN i * Row ELSE IF i >= Len(d.offsets) THEN 0 ELSE d.offsets[i + 1].offset

\* Entry i may be taken for s: what lies behind the table is anything.
EntryMayBe(d, i, s) ==
    /\ SizeOf(d, i) = Len(s)
    /\ \A k \in DOMAIN s : OffsetOf(d, i) + k <= Len(d.table) => d.table[OffsetOf(d, i) + k] = s[k]

\* copy() of codeword i: its size, and the integers as far as an entry holds them;
\* None is what lies outside of the vectors.
Copied(d, i) ==
    LET count == Lesser(SizeOf(d, i), max_entry_size)
    IN  [size |-> SizeOf(d, i),
         data |-> IF OffsetOf(d, i) + count > Len(d.table) THEN None
                  ELSE SubSeq(d.table, OffsetOf(d, i) + 1, OffsetOf(d, i) + count)]

\* prepare_for_encoding: the runs are entered without a look at the offsets,
\* the targets as the tables have them; later entries replace earlier ones.
Maps(d, s) ==
    {EXCEPTIONS + r - 1 : r \in {q \in DOMAIN Runs : s = Zeros(Runs[q])}}
        \cup {i \in reserved..(d.m_size - 1) : EntryMayBe(d, i, s)}

-----------------------------------------------------------------------------
(* Statistics in a file: the number of blocks and, for each, its size and   *)
(* its integers.                                                           *)

StatsWords(blocks) ==
    <<Len(blocks)>> \o FlattenSeq([b \in DOMAIN blocks |-> <<Len(blocks[b])>> \o blocks[b]])

\* What the loading constructor makes of the words from `at' on: a size that is
\* not in the file keeps its value, the integers of a new vector are 0.
ReadBlocks(words, count, unset) ==
    LET step(st) ==
            LET size == Read(words, st.at, <<st.size>>)[1]
            IN  [at |-> st.at + 1 + size, size |-> size,
                 blocks |-> Append(st.blocks, Read(words, st.at + 1, Zeros(size)))]
        upto[k \in 0..count] == IF k = 0 THEN [at |-> 2, size |-> unset, blocks |-> <<>>]
                                ELSE step(upto[k - 1])
    IN  upto[count].blocks

-----------------------------------------------------------------------------
(* Runs.                                                                   *)

Absent == [exists |-> FALSE, words |-> <<>>]

Init ==
    /\ pc = "idle" /\ runs = 0
    /\ coll \in Collections
    /\ statistics = <<>> /\ dict = Constructed
    /\ stats_file = Absent
    /\ dict_file = [exists |-> FALSE, words |-> <<>>, whole |-> None]
    /\ index = None

Start ==
    /\ pc = "idle" /\ runs < MaxRuns
    /\ runs' = runs + 1
    /\ coll' \in Collections
    /\ pc' = "model"
    /\ statistics' = <<>> /\ dict' = Constructed
    /\ UNCHANGED <<stats_file, dict_file, index>>

LoadDictionary ==
    /\ pc = "model" /\ dict_file.exists
    /\ dict' = Loaded(dict_file.words)
    /\ pc' = "encode"
    /\ UNCHANGED <<runs, coll, statistics, stats_file, dict_file, index>>

\* The number of blocks and the first size are not initialised: without them in
\* the file they are anything.  No more blocks than num_entries are loaded.
LoadStatistics ==
    /\ pc = "model" /\ ~dict_file.exists /\ stats_file.exists
    /\ \E any, unset \in 0..MostUnset :
            LET n == Read(stats_file.words, 1, <<any>>)[1]
            IN  statistics' = ReadBlocks(stats_file.words, Lesser(num_entries, n), unset)
    /\ pc' = "build"
    /\ UNCHANGED <<runs, coll, dict, stats_file, dict_file, index>>

CreateStatistics ==
    /\ pc = "model" /\ ~dict_file.exists /\ ~stats_file.exists
    /\ statistics' = coll
    /\ stats_file' \in {Absent, [exists |-> TRUE, words |-> <<>>]}
    /\ pc' = IF stats_file'.exists THEN "store statistics" ELSE "build"
    /\ UNCHANGED <<runs, coll, dict, dict_file, index>>

\* try_to_store, or as much of it as reaches the file before a crash.
StoreStatistics ==
    /\ pc = "store statistics"
    /\ LET all == StatsWords(statistics)
       IN  \E upto \in (Len(stats_file.words) + 1)..Len(all) :
            /\ stats_file' = [stats_file EXCEPT !.words = SubSeq(all, 1, upto)]
            /\ pc' = IF upto = Len(all) THEN "build" ELSE pc
    /\ UNCHANGED <<runs, coll, statistics, dict, dict_file, index>>

\* The file may not be writable: the run goes on without it.
BuildDictionary ==
    /\ pc = "build"
    /\ dict' = Built(statistics)
    /\ dict_file' \in {dict_file, [exists |-> TRUE, words |-> <<>>, whole |-> dict']}
    /\ pc' = IF dict_file'.exists THEN "store dictionary" ELSE "encode"
    /\ UNCHANGED <<runs, coll, statistics, stats_file, index>>

\* try_store_to_file
StoreDictionary ==
    /\ pc = "store dictionary"
    /\ LET all == WordsOf(dict)
           least == IF dict_file.words = <<>> THEN FirstFlush ELSE Len(dict_file.words) + 1
       IN  \E upto \in {u \in 1..Len(all) : u >= least} :
            /\ dict_file' = [dict_file EXCEPT !.words = SubSeq(all, 1, upto)]
            /\ pc' = IF upto = Len(all) THEN "encode" ELSE pc
    /\ UNCHANGED <<runs, coll, statistics, dict, stats_file, index>>

\* The lists are encoded and the index takes over the builder's vectors.
FinishIndex ==
    /\ pc = "encode"
    /\ index' = <<dict>>
    /\ pc' = "idle"
    /\ UNCHANGED <<runs, coll, statistics, dict, stats_file, dict_file>>

\* Only the files survive.
Crash ==
    /\ pc # "idle"
    /\ (FirstFlush > 0 /\ pc = "store dictionary") => (dict_file.words # <<>>)
    /\ pc' = "idle"
    /\ UNCHANGED <<runs, coll, statistics, dict, stats_file, dict_file, index>>

Terminated == pc = "idle" /\ runs = MaxRuns /\ UNCHANGED vars

RunStep ==
    \/ LoadDictionary \/ LoadStatistics \/ CreateStatistics \/ StoreStatistics
    \/ BuildDictionary \/ StoreDictionary \/ FinishIndex

Next == Start \/ RunStep \/ Crash \/ Terminated

Spec == Init /\ [][Next]_vars /\ WF_vars(RunStep)

-----------------------------------------------------------------------------
(* Properties.                                                             *)

\* Files hold words only if they exist, and a dictionary that is used has room
\* for the codewords it counts, the rectangular one for all there may be.
TypeOK ==
    /\ pc \in {"idle", "model", "store statistics", "build", "store dictionary", "encode"}
    /\ runs \in 0..MaxRuns
    /\ stats_file.words # <<>> => stats_file.exists
    /\ dict_file.words # <<>> => dict_file.exists
    /\ dict.m_size \in 0..num_entries
    /\ (pc = "encode" /\ ~rectangular) => (dict.m_size <= Len(dict.offsets))
    /\ (pc = "encode" /\ rectangular) => (Len(dict.table) = num_entries * Row)

\* What is encoded with the dictionary of an index is decoded with it to the
\* same integers, even if the dictionary is that of another collection or its
\* file or the file of the statistics was cut off by a crash: lookup() reads
\* the same tables as copy().
IndexLossless ==
    index # None =>
        \A s \in UNION {Range(c) : c \in Collections} \cup {Zeros(Runs[r]) : r \in DOMAIN Runs}
                    \cup {Zeros(n) : n \in 1..max_entry_size} :
            \A i \in Maps(index[1], s) :
                LET out == Copied(index[1], i)
                IN  /\ out.size = Len(s)
                    /\ out.data = SubSeq(s, 1, IF Len(s) < max_entry_size THEN Len(s) ELSE max_entry_size)

\* A run that finds a dictionary file written to its end encodes with the
\* dictionary that was built then, a run that built one with the same.
StoredIsLoaded ==
    (pc = "encode" /\ dict_file.exists /\ dict_file.words = WordsOf(dict_file.whole)) => (dict = dict_file.whole)

\* A statistics file written to its end gives the blocks that were counted, of
\* whichever collection was there first, as many as are loaded.
StatisticsOfSomeCollection ==
    (pc = "build" /\ (~stats_file.exists \/ \E c \in Collections : stats_file.words = StatsWords(c)))
        => \E c \in Collections : statistics \in {c, SubSeq(c, 1, Lesser(num_entries, Len(c)))}

\* "assert(entry_size > 0 and entry_size <= max_entry_size)", in append(): what the
\* dictionary is built from has entries that fit, also if the file of the
\* statistics was cut off, but for one that ends before its first size.
EntriesFit ==
    (pc = "build" /\ (~stats_file.exists \/ Len(stats_file.words) > 1))
        => \A b \in DOMAIN statistics : Len(statistics[b]) \in 1..max_entry_size
=============================================================================
