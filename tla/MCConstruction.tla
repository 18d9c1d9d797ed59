---------------------------- MODULE MCConstruction ----------------------------
(***************************************************************************)
(* Instances, for TLC, of what comes before an index: the files of a       *)
(* collection and the loops over them, the statistics of its blocks, the   *)
(* dictionaries built from these, and the files that later runs find.      *)
(* `part' is what a behaviour is about; the variables of the others are    *)
(* not used in it.                                                         *)
(***************************************************************************)
EXTENDS Integers, Sequences, FiniteSets, SequencesExt

-----------------------------------------------------------------------------
(* Inputs.                                                                 *)

\* Of Collection.  The integers of different lists are different, and small ones
\* can be mistaken for lengths; up to three lists, any of them empty but the last.
ListsOf(i) ==
    {<<<<>>, <<>>>>, <<<<i>>, <<i + 3>>>>, <<<<0, i>>, <<i + 6, 1>>>>, <<<<1, 2, i + 3>>, <<i + 9, i + 8, i>>>>}
FreqCollections ==
    {c \in UNION {[1 .. m -> UNION {ListsOf(i) : i \in 1 .. 3}] : m \in 1 .. 3} :
        c[Len(c)][1] # <<>> /\ \A i \in DOMAIN c : c[i] \in ListsOf(i)}

\* Of BlocksCollection.
SomeBlocks == {[freq |-> f, data |-> d] : f \in {0, 3}, d \in {<<0>>, <<2, 1>>, <<1, 0, 0>>}}
BlockFiles == UNION {[1 .. n -> SomeBlocks] : n \in 1 .. 3}

\* Of BlockStatistics.  Pairs of documents lists: subsets of few documents, and a
\* longer one; frequencies at the limits of the contexts, in blocks of four.
TargetSizes == <<4, 2, 1>>
Ascending(S) == [k \in 1 .. Cardinality(S) |-> CHOOSE x \in S : Cardinality({y \in S : y < x}) = k - 1]
DocsCollections ==
    {<<Ascending(S), Ascending(T)>> :
        S \in {V \in SUBSET (0 .. 6) : Cardinality(V) \in {1, 4, 5}}, T \in {{0, 1, 2, 3, 5}, {2, 5, 6}}}
FreqsCollections ==
    {<<<<1, 2, 1, x, 1, 1, y, 2, 3>>, <<y, 1, 1, 1>>>> :
        x \in {1, 2, 3, 4, 5, 16, 17, 256, 257, 65536, 65537}, y \in {2, 3, 5, 17, 65537}}

\* Of DictionaryBuilder.  Blocks that overlap in one symbol, in several, in
\* zeros, and not at all; those that a set of positions names, in their order.
LongRuns == <<8, 4>>
Pool == <<<<0, 1, 1>>, <<1, 1, 1, 1>>, <<1, 1, 0, 0>>, <<0, 0, 0, 0>>, <<0, 1>>, <<1>>, <<2, 0, 0>>, <<0, 0, 0, 2>>>>
Chosen(S) == [k \in 1 .. Cardinality(S) |-> Pool[Ascending(S)[k]]]
SingleStatistics == {<<Chosen(S)>> : S \in {T \in SUBSET (1 .. 8) : Cardinality(T) \in {0, 1, 3, 4, 5}}}
MultiStatistics ==
    {<<Chosen(S), Chosen(T)>> :
        S \in {{}, {2}, 1 .. 6, 3 .. 8, 1 .. 8},
        T \in {{}, {1, 2, 3, 4, 5, 7}}} \cup {<<Chosen(3 .. 8), Chosen(1 .. 8)>>}

\* Of DictionaryFile.  Two collections that share a block; one fills a dictionary,
\* the other one has a block of zeros and one more than there is room for.
ShortRuns == <<4, 2>>
TwoCollections == {<<<<1>>, <<0, 1>>>>, <<<<0, 0>>, <<1>>, <<2>>>>}

-----------------------------------------------------------------------------

VARIABLES
    part, pc, next, dict, entries, index, file, blocks,     \* of several parts
    docs, freqs, lists, docs_it, freqs_it, s,               \* of Collection
    data, m_pos, m_next_pos, block, visited,                \* of BlocksCollection
    input, list, buf, total_integers, block_maps, loaded,   \* of BlockStatistics
    stats, m_size, m_targets, overlaps, cur, m_table, m_offsets, m_start_offsets, m_maps, padded,
    runs, coll, statistics, stats_file, dict_file           \* of DictionaryFile

Loops == INSTANCE Collection WITH
            Collections <- FreqCollections, NumDocs <- 4, MinSize <- 0, Endings <- {"list"}
BlockLoop == INSTANCE BlocksCollection WITH Files <- BlockFiles, MayBeCut <- FALSE
DocsCount == INSTANCE BlockStatistics WITH
            Collections <- DocsCollections, compute_gaps <- TRUE, target_sizes <- TargetSizes,
            block_size <- 4, num_selectors <- 1, num_entries <- 3, InverseEps <- 2
FreqsCount == INSTANCE BlockStatistics WITH
            Collections <- FreqsCollections, compute_gaps <- FALSE, target_sizes <- TargetSizes,
            block_size <- 4, num_selectors <- 6, num_entries <- 3, InverseEps <- 2
Single == INSTANCE DictionaryBuilder WITH
            NumDicts <- 1, NumEntries <- 8, SmallEntries <- 6, MaxEntrySize <- 4, Runs <- LongRuns,
            Overlapping <- TRUE, Statistics <- SingleStatistics
Multi == INSTANCE DictionaryBuilder WITH
            NumDicts <- 2, NumEntries <- 8, SmallEntries <- 6, MaxEntrySize <- 4, Runs <- LongRuns,
            Overlapping <- TRUE, Statistics <- MultiStatistics
Packed == INSTANCE DictionaryBuilder WITH
            NumDicts <- 2, NumEntries <- 8, SmallEntries <- 6, MaxEntrySize <- 4, Runs <- LongRuns,
            Overlapping <- FALSE, Statistics <- MultiStatistics
Stored == INSTANCE DictionaryFile WITH
            rectangular <- FALSE, num_entries <- 6, max_entry_size <- 2, Runs <- ShortRuns,
            Collections <- TwoCollections, MaxRuns <- 3, MostUnset <- 7, FirstFlush <- 7
Rows == INSTANCE DictionaryFile WITH
            rectangular <- TRUE, num_entries <- 6, max_entry_size <- 2, Runs <- ShortRuns,
            Collections <- TwoCollections, MaxRuns <- 3, MostUnset <- 7, FirstFlush <- 0
Unflushed == INSTANCE DictionaryFile WITH
            rectangular <- FALSE, num_entries <- 6, max_entry_size <- 2, Runs <- ShortRuns,
            Collections <- TwoCollections, MaxRuns <- 3, MostUnset <- 7, FirstFlush <- 0

ASSUME Loops!CollectionsAssumption /\ Loops!SizesAssumption
ASSUME BlockLoop!FilesAssumption /\ BlockLoop!MayBeCutAssumption
ASSUME DocsCount!SizesAssumption /\ DocsCount!ContextsAssumption
ASSUME FreqsCount!SizesAssumption /\ FreqsCount!ContextsAssumption
ASSUME Single!DictsAssumption /\ Single!RunsAssumption /\ Single!EntriesAssumption /\ Single!StatisticsAssumption
ASSUME Multi!DictsAssumption /\ Multi!RunsAssumption /\ Multi!EntriesAssumption /\ Multi!StatisticsAssumption
ASSUME Stored!SizesAssumption /\ Stored!RunsAssumption /\ Stored!CollectionsAssumption

loopsVars == <<docs, freqs, lists, docs_it, freqs_it, s>>
blockLoopVars == <<data, m_pos, m_next_pos, block, visited>>
countVars == <<input, list, buf, total_integers, block_maps, loaded>>
buildVars == <<stats, m_size, m_targets, overlaps, cur, m_table, m_offsets, m_start_offsets, m_maps, padded>>
fileVars == <<runs, coll, statistics, stats_file, dict_file>>
mcvars == <<part, pc, next, dict, entries, index, file, blocks, loopsVars, blockLoopVars,
            countVars, buildVars, fileVars>>

Unused(v) == v = "unused"
LoopsUnused == Unused(docs) /\ Unused(freqs) /\ Unused(lists) /\ Unused(docs_it) /\ Unused(freqs_it) /\ Unused(s)
BlockLoopUnused == Unused(data) /\ Unused(m_pos) /\ Unused(m_next_pos) /\ Unused(block) /\ Unused(visited)
CountUnused ==
    /\ Unused(input) /\ Unused(list) /\ Unused(buf) /\ Unused(total_integers) /\ Unused(block_maps)
    /\ Unused(loaded)
BuildUnused ==
    /\ Unused(stats) /\ Unused(m_size) /\ Unused(m_targets) /\ Unused(overlaps) /\ Unused(cur)
    /\ Unused(m_table) /\ Unused(m_offsets) /\ Unused(m_start_offsets) /\ Unused(m_maps) /\ Unused(padded)
FileUnused == Unused(runs) /\ Unused(coll) /\ Unused(statistics) /\ Unused(stats_file) /\ Unused(dict_file)

LoopsInit ==
    /\ part = "collection" /\ Loops!Init
    /\ Unused(next) /\ Unused(dict) /\ Unused(entries) /\ Unused(file) /\ Unused(blocks)
    /\ BlockLoopUnused /\ CountUnused /\ BuildUnused /\ FileUnused

BlockLoopInit ==
    /\ part = "blocks_collection" /\ BlockLoop!Init
    /\ Unused(pc) /\ Unused(next) /\ Unused(dict) /\ Unused(entries) /\ Unused(index) /\ Unused(blocks)
    /\ LoopsUnused /\ CountUnused /\ BuildUnused /\ FileUnused

CountInit ==
    /\ \/ part = "docs_statistics" /\ DocsCount!Init
       \/ part = "freqs_statistics" /\ FreqsCount!Init
    /\ Unused(dict) /\ Unused(entries) /\ Unused(index)
    /\ LoopsUnused /\ BlockLoopUnused /\ BuildUnused /\ FileUnused

BuildInit ==
    /\ \/ part = "single_dictionary" /\ Single!Init
       \/ part = "multi_dictionary" /\ Multi!Init
       \/ part = "packed_dictionary" /\ Packed!Init
    /\ Unused(index) /\ Unused(file) /\ Unused(blocks)
    /\ LoopsUnused /\ BlockLoopUnused /\ CountUnused /\ FileUnused

FileInit ==
    /\ \/ part = "stored_dictionary" /\ Stored!Init
       \/ part = "rectangular_dictionary" /\ Rows!Init
    /\ Unused(next) /\ Unused(entries) /\ Unused(file) /\ Unused(blocks)
    /\ LoopsUnused /\ BlockLoopUnused /\ CountUnused /\ BuildUnused

MCInit == LoopsInit \/ BlockLoopInit \/ CountInit \/ BuildInit \/ FileInit

OfLoops ==
    part = "collection" /\ UNCHANGED <<part, next, dict, entries, file, blocks, blockLoopVars, countVars,
                                       buildVars, fileVars>>
OfBlockLoop ==
    part = "blocks_collection" /\ UNCHANGED <<part, pc, next, dict, entries, index, blocks, loopsVars,
                                              countVars, buildVars, fileVars>>
OfCount(what) ==
    part = what \o "_statistics" /\ UNCHANGED <<part, dict, entries, index, loopsVars, blockLoopVars,
                                               buildVars, fileVars>>
OfBuild(kind) ==
    part = kind \o "_dictionary" /\ UNCHANGED <<part, index, file, blocks, loopsVars, blockLoopVars,
                                               countVars, fileVars>>
OfFile(kind) ==
    part = kind \o "_dictionary" /\ UNCHANGED <<part, next, entries, file, blocks, loopsVars,
                                               blockLoopVars, countVars, buildVars>>

\* A loop over the files, a construction or a run came to its end.
Finished ==
    CASE part = "collection" -> pc \in {"done", "invalid", "killed", "wrong", "out of range"}
      [] part = "blocks_collection" -> m_pos >= Len(data)
      [] part \in {"docs_statistics", "freqs_statistics"} -> pc = "loaded"
      [] part \in {"stored_dictionary", "rectangular_dictionary"} -> pc = "idle"
      [] OTHER -> pc = "ready"

\* It is the last one.
Ended == Finished /\ (pc = "idle" => runs = 3) /\ UNCHANGED mcvars

MCNext ==
    \/ OfLoops /\ Loops!Open
    \/ OfLoops /\ Loops!CreateList
    \/ OfLoops /\ Loops!CreateEnd
    \/ OfLoops /\ Loops!VerifyList
    \/ OfLoops /\ Loops!VerifyEnd
    \/ OfBlockLoop /\ BlockLoop!Next1
    \/ OfCount("docs") /\ DocsCount!NextList
    \/ OfCount("docs") /\ DocsCount!CollectSize
    \/ OfCount("docs") /\ DocsCount!CollectEnd
    \/ OfCount("docs") /\ DocsCount!SelectEntries
    \/ OfCount("docs") /\ DocsCount!SortNext
    \/ OfCount("docs") /\ DocsCount!try_to_store
    \/ OfCount("docs") /\ DocsCount!Load
    \/ OfCount("freqs") /\ FreqsCount!NextList
    \/ OfCount("freqs") /\ FreqsCount!CollectBlock
    \/ OfCount("freqs") /\ FreqsCount!CollectEnd
    \/ OfCount("freqs") /\ FreqsCount!SelectEntries
    \/ OfCount("freqs") /\ FreqsCount!SortNext
    \/ OfCount("freqs") /\ FreqsCount!try_to_store
    \/ OfCount("freqs") /\ FreqsCount!Load
    \/ OfBuild("single") /\ Single!Append1
    \/ OfBuild("single") /\ Single!NextDictionary
    \/ OfBuild("single") /\ Single!Compact
    \/ OfBuild("single") /\ Single!compute_all_overlaps
    \/ OfBuild("single") /\ Single!SkipOverlap
    \/ OfBuild("single") /\ Single!MergeOverlap
    \/ OfBuild("single") /\ Single!EraseMerged
    \/ OfBuild("single") /\ Single!MergeSingle
    \/ OfBuild("single") /\ Single!EraseSingle
    \/ OfBuild("single") /\ Single!CreateTable
    \/ OfBuild("single") /\ Single!CreateOffsets
    \/ OfBuild("single") /\ Single!Reload
    \/ OfBuild("single") /\ Single!prepare_for_encoding
    \/ OfBuild("multi") /\ Multi!Append1
    \/ OfBuild("multi") /\ Multi!NextDictionary
    \/ OfBuild("multi") /\ Multi!Compact
    \/ OfBuild("multi") /\ Multi!compute_all_overlaps
    \/ OfBuild("multi") /\ Multi!SkipOverlap
    \/ OfBuild("multi") /\ Multi!MergeOverlap
    \/ OfBuild("multi") /\ Multi!EraseMerged
    \/ OfBuild("multi") /\ Multi!MergeSingle
    \/ OfBuild("multi") /\ Multi!EraseSingle
    \/ OfBuild("multi") /\ Multi!CreateTable
    \/ OfBuild("multi") /\ Multi!CreateOffsets
    \/ OfBuild("multi") /\ Multi!Reload
    \/ OfBuild("multi") /\ Multi!prepare_for_encoding
    \/ OfBuild("packed") /\ Packed!Append1
    \/ OfBuild("packed") /\ Packed!NextDictionary
    \/ OfBuild("packed") /\ Packed!Compact
    \/ OfBuild("packed") /\ Packed!CreateTable
    \/ OfBuild("packed") /\ Packed!CreateOffsets
    \/ OfBuild("packed") /\ Packed!Reload
    \/ OfBuild("packed") /\ Packed!prepare_for_encoding
    \/ OfFile("stored") /\ Stored!Start
    \/ OfFile("stored") /\ Stored!LoadDictionary
    \/ OfFile("stored") /\ Stored!LoadStatistics
    \/ OfFile("stored") /\ Stored!CreateStatistics
    \/ OfFile("stored") /\ Stored!StoreStatistics
    \/ OfFile("stored") /\ Stored!BuildDictionary
    \/ OfFile("stored") /\ Stored!StoreDictionary
    \/ OfFile("stored") /\ Stored!FinishIndex
    \/ OfFile("stored") /\ Stored!Crash
    \/ OfFile("rectangular") /\ Rows!Start
    \/ OfFile("rectangular") /\ Rows!LoadDictionary
    \/ OfFile("rectangular") /\ Rows!LoadStatistics
    \/ OfFile("rectangular") /\ Rows!CreateStatistics
    \/ OfFile("rectangular") /\ Rows!StoreStatistics
    \/ OfFile("rectangular") /\ Rows!BuildDictionary
    \/ OfFile("rectangular") /\ Rows!StoreDictionary
    \/ OfFile("rectangular") /\ Rows!FinishIndex
    \/ OfFile("rectangular") /\ Rows!Crash
    \/ Ended

\* A program that has something to do does it, or ends.
MCSpec == MCInit /\ [][MCNext]_mcvars /\ WF_mcvars(MCNext)

\* Runs that may crash when the file is there and nothing has reached it.
UnflushedInit ==
    /\ part = "stored_dictionary" /\ Unflushed!Init
    /\ Unused(next) /\ Unused(entries) /\ Unused(file) /\ Unused(blocks)
    /\ LoopsUnused /\ BlockLoopUnused /\ CountUnused /\ BuildUnused

UnflushedSpec == UnflushedInit /\ [][OfFile("stored") /\ Unflushed!Next]_mcvars

-----------------------------------------------------------------------------
(* Properties.                                                             *)

\* Both loops over a collection see its lists, each with its own frequencies, and
\* read nothing behind a file, also one that was cut off in the middle of a list:
\* what create_collection builds is what verify_collection finds; and a file of
\* blocks gives the blocks it was written from.
CollectionRead ==
    CASE part = "collection" ->
            /\ Loops!TypeOK /\ Loops!ListsInOrder /\ Loops!ReadsInside
            /\ Loops!VerifyAccepts /\ Loops!VerifyInRange
      [] part = "blocks_collection" -> BlockLoop!BlocksInOrder /\ BlockLoop!IteratorInside
      [] OTHER -> TRUE

\* Every sequence is counted once for each aligned piece of a list that it is, in
\* the context of the piece's block; every integer that is counted is offered to
\* the dictionary by itself; what is left out for want of room occurs no more often
\* than what got in; and statistics that a later run loads make the dictionary of
\* those that were computed.
StatisticsExact ==
    CASE part = "docs_statistics" ->
            /\ DocsCount!TypeOK /\ DocsCount!CountsExact /\ DocsCount!SinglesOffered
            /\ DocsCount!LoadedSameDictionary /\ DocsCount!MostFrequentFirst
      [] part = "freqs_statistics" ->
            /\ FreqsCount!TypeOK /\ FreqsCount!CountsExact /\ FreqsCount!SinglesOffered
            /\ FreqsCount!LoadedSameDictionary /\ FreqsCount!MostFrequentFirst /\ FreqsCount!ContextsSeparate
      [] OTHER -> TRUE

\* Whatever dictionaries are built, of whatever statistics, by either policy, and
\* however they come to their tables: what lookup() finds stands for what was
\* looked up, as DictionaryBuilder says in detail.
DictionaryFaithful ==
    CASE part = "single_dictionary" -> Single!DictionaryFaithful
      [] part = "multi_dictionary" -> Multi!DictionaryFaithful
      [] part = "packed_dictionary" -> Packed!DictionaryFaithful
      [] OTHER -> TRUE

\* After whatever crashes of earlier runs, an index decodes what it encoded: its
\* dictionary may be that of another collection, or of a file that was cut off,
\* and still lookup() and copy() read the same tables.  Files that were written
\* to their end give back what was written.
FilesLossless ==
    CASE part = "stored_dictionary" ->
            /\ Stored!TypeOK /\ Stored!IndexLossless /\ Stored!StoredIsLoaded
            /\ Stored!StatisticsOfSomeCollection /\ Stored!EntriesFit
      [] part = "rectangular_dictionary" ->
            /\ Rows!TypeOK /\ Rows!IndexLossless /\ Rows!StoredIsLoaded
            /\ Rows!StatisticsOfSomeCollection /\ Rows!EntriesFit
      [] OTHER -> TRUE

\* Merging, which queues new overlaps for each it takes from the queue, ends; so do
\* the loops over files, whatever lengths they find in them, and every run, also
\* one that finds less in a file than was to be written.
ConstructionEnds == ~Finished ~> Finished

\* "Checking the written data, just to be extra safe...": an index that was built
\* with whatever dictionary the working directory had is read as it was built.
EmptyFileLossless == Unflushed!IndexLossless
=============================================================================
