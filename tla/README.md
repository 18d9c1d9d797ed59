# A verification of dint

dint compresses inverted indexes: it turns the gaps between document numbers,
and the frequencies, into codewords of a dictionary of integer sequences
("Dictionary of INTeger sequences").  It is a set of C++ templates on top of
the ds2i library, whose index types serve as baselines, with command-line
programs that build an index from a collection and run queries on it, and a
second set of programs (`vroom_env`) that encode and decode a whole data set.
The TLA+ modules here describe what happens between the files of a collection
and the answer of a query: the statistics and dictionaries, the threads that
encode, the posting lists and their enumerators, the codecs, the compressed
sequences of the baselines and the query operators.

## The system

| Component | Code | State | Operations | Hard |
| --- | --- | --- | --- | --- |
| Work queue | `ds2i/semiasync_queue.hpp` | the waiting batch and its expected work, a deque of threads with their batches | `add_job`, `complete`; inside: `spawn_next_thread`, `commit_thread`, the workers | interleavings, the limit of threads, the light last batch |
| Index builder | `dint/dict_freq_index.hpp`, `create_freq_index.cpp` | `m_lists` (bytes of all lists), `m_endpoints`, two dictionary builders, the queue | `add_posting_list`, `build`, `build_or_load_dict`; on the index `operator[]`, `warmup` | order of commits, one endpoint more than lists, files of earlier runs |
| Baseline block index | `ds2i/block_freq_index.hpp` | the same without dictionaries | the same, single-threaded | |
| Posting lists | `dint/dict_posting_list.hpp`, `ds2i/block_posting_list.hpp` | bytes: n, table of block maxima, table of endpoints, blocks; the enumerator's position, decoded docs and (lazily) freqs | `write`, `write_blocks`, `get_blocks`; `reset`, `next`, `next_geq`, `move`, `docid`, `freq`, `position` | stale decoded blocks, 32-bit gaps, reordered blocks |
| DINT codec | `dint/dint_codecs.hpp` | none (the output buffer) | greedy and optimal `encode`, `decode`; with one dictionary or several | what `copy` leaves behind, two encoders and one decoder |
| Dictionaries | `dint/single_dictionary.hpp`, `multi_dictionary.hpp`, `rectangular_dictionary.hpp` | targets, offsets, the shared table, the maps of hashes | `init`, `append`, `build`, `write`, `load`, `prepare_for_encoding`, `lookup`, `copy` | reserved entries, narrow codewords, files cut off |
| Dictionary construction | `dint/dictionary_builders.hpp`, `dictionary_building_utils.hpp`, `block_statistics.hpp`, `statistics_collectors.hpp` | frequencies of integer sequences, a statistics file, a queue of overlaps | collecting, filtering, selecting, compacting | overlaps of entries that were merged meanwhile |
| Query processing | `ds2i/queries.hpp` | enumerators of the terms, the heap of the k best scores | `and_query`, `or_query`, `ranked_and_query`, `ranked_or_query`, `wand_query`, `maxscore_query` | documents skipped by bounds |
| Score bounds | `ds2i/wand_data.hpp`, `bm25.hpp` | a norm per document, a maximal weight per term | read only after construction | |
| Short-block codecs | `ds2i/block_codecs.hpp`, `interpolative_coding.hpp`, `VarIntG8IU.h`, `varintgb.h`, `qmx_codec.hpp` | thread-local buffers | `encode`, `decode` | reads and writes beyond a block, rules for its end |
| Mixed blocks | `ds2i/mixed_block.hpp`, `dec_time_prediction.hpp` | a feature vector that all attempts share | `compute_space_time`, `block_transformer`, `decode` | features left over |
| Collection reader | `ds2i/binary_collection.hpp`, `binary_freq_collection.hpp`, `binary_blocks_collection.hpp`, `verify_collection.hpp` | iterators over mapped files | `begin`, `++` | truncated files, two iterators in step |
| Sequences of the baselines | `ds2i/compact_elias_fano.hpp`, `compact_ranked_bitvector.hpp`, `strict_elias_fano.hpp`, `indexed_sequence.hpp`, `partitioned_sequence.hpp`, `optimal_partition.hpp`, ... | bit vectors and enumerators | `write`, `move`, `next`, `next_geq`, `prev_value` | several cursors that must agree |
| Baseline indexes | `ds2i/freq_index.hpp`, `sequence_collection.hpp`, `bitvector_collection.hpp`, `positive_sequence.hpp` | bit vectors and their endpoints | `add_posting_list`, `build`, `operator[]`, `move`, `freq` | parts that are left out, a sum that is kept |
| Data-set encoder | `vroom_env/` | a second client of the queue with whole lists instead of blocks | `encode`, `decode`, `check_encoded_data` | headers that depend on all lists before, one buffer for all lists |

(Paths are below `src/include/`, and `src/src/` for the programs.)

How they interact: `create_collection` reads lists from the collection and calls
`add_posting_list` for each; the builder wraps the list into a job of the work
queue; a worker thread runs the job's `prepare()`, which writes the posting
list with the codec into a buffer of the job; the main thread runs `commit()`,
which appends the buffer to `m_lists`.  `build()` waits for all jobs and freezes
the bytes and their endpoints into the index.  A query opens one enumerator per
term (`operator[]`) and moves them with `next` and `next_geq`; an enumerator
decodes a block when it enters it and the block's freqs when the first is asked
for.

The dictionary of docs and that of freqs come from files of the working
directory when they exist; else from statistics, which come from a file in the
same way or are computed from the collection; whatever was computed is written
for the next run.

What is hard:

* Concurrency: the workers prepare jobs at any speed, batches are closed by
  weight, and the number of threads is limited; yet the position of a list in
  `m_lists` is its identity for everyone who reads the index.
* Caches: the enumerator's decoded block, the lazily decoded freqs, the block
  maximum; stale ones answer with another block's data.
* Two independent computations that must agree: writer and reader of a posting
  list, encoder and decoder of a block, greedy and optimal encoder.
* Buffers: `copy()` writes a whole entry whatever its size, so that every short
  entry leaves dirt that the next one has to cover, and long runs count on
  zeros written before.
* Pruning: `wand_query` and `maxscore_query` skip documents; a bound compared
  wrongly loses results and nothing fails.
* Files reused by name: dictionaries and statistics are taken from the working
  directory when they exist.

The hazards, each at its line and with the properties that cover it, are listed
in `PROJECT.json`.

## The modules

A component is a module with its variables, one action per operation and the
properties of that component as plain definitions.  Assumptions on constants
are `ASSUME`s in the modules that are extended, and definitions named
`...Assumption` in the modules that are instantiated, whose suite assumes them
(`ASSUME Alias!SizesAssumption`).  Eight `MC` modules instantiate the components
for TLC.  Four of them are about one component each.  The other four are suites:
they instantiate several components in one specification, whose variable `part`
(`codec` in one) says which of them a behaviour is about, and which leaves the
variables of the others `"unused"`; a property of a suite is the conjunction of
the properties of its components that ask the same question, chosen by `part`.

### The build

`InOrderExecutor` is what `semiasync_queue` promises: jobs are prepared in any
order, committed one at a time in the order they were added, each after its own
`prepare()`; `complete()` returns when none is left.

`SemiasyncQueue` is the queue.  `pc` is the place of the main thread: `idle`
(outside the calls), `spawn` and `emplace` (in `spawn_next_thread` before and
after the limit was checked), `join` and `commit` (in `commit_thread`), `drain`
(the loop of `complete`), `done`.  A step of the main thread is what it does
between two places where a worker's step matters; the workers' steps are
`Prepare(t)`, one job each.  A thread is a record of its batch, of how many jobs
it has prepared and of how many of them were committed.  The asserted
precondition of `commit_thread` and the limit on threads are `ThreadsBounded`;
`JobsConserved` follows every job through the waiting batch, the deque and the
commits.

`SequentialIndexBuilder` is the builder without threads: the one that
`block_freq_index::builder` has and that `dict_freq_index::builder` keeps as the
comment "single-thread version".  `IndexBuilder` composes the queue (as
`Q == INSTANCE SemiasyncQueue`) with `create_collection` and `list_adder`: each
of its actions is one of the queue's together with what it does to the buffers,
`m_lists`, `m_endpoints` and the index.  The bytes of list i are `<<i, 1>>,
<<i, 2>>, ...`, so that bytes in the wrong place are recognised.
`RefinesSequentialBuilder` says that threads, batches and limits do not show in
the result.

### What comes before an index

`Collection` has the docs and freqs files as sequences of integers, cut off
anywhere, and both loops over them: `create_collection`, which leaves out lists
of `min_size` and less, and `verify_collection`, which goes through the files
again and compares the index list by list.  `BlocksCollection` is the iterator
over a file of blocks.

`BlockStatistics` counts, list by list, every aligned piece of a target size,
in one context or in the one of six that `selector` computes from a block's
largest integer, filters, sorts with ties in any order, stores and loads.  What
is counted is not all that the encoders look up: they do so at every position,
and with several dictionaries in each of them (`MultiDintBlock`), so that the
statistics are an estimate.  `SinglesOffered` says what holds of them all the
same: every integer of every whole block is offered by itself.

`DictionaryBuilder` goes from such statistics to lookups: `Append1` and
`NextDictionary` select the targets of each dictionary; `compute_all_overlaps`,
`SkipOverlap`, `MergeOverlap`, `EraseMerged`, `MergeSingle`, `EraseSingle` are the
overlapping policy, whose priority queue leaves equal overlaps in any order;
`Compact` is also the packing policy; `CreateTable` and `CreateOffsets` lay the
targets out in a table that all dictionaries share, `Reload` stands for `write`
and `load` with its padding, `prepare_for_encoding` fills the maps.

`DictionaryFile` has several runs of the program one after the other in one
working directory, on collections of one basename.  A run loads a file that
exists, computes and stores one that does not, and may crash between any two
steps and in the middle of a file, of which then any number of words (at least
`FirstFlush` or none at all) is there.  Words behind the end of a file are those
the variables had (zero, or anything when they were not initialised: the number
of blocks and the first size of a statistics file, up to `MostUnset`).  `append()`
takes blocks until it is `full()`, of whatever size it is given: the single
dictionary keeps the size modulo 256 (`KeptSize`), the rectangular one copies over
the rows behind (`RowsBuilt`).  `EntriesFit` is the assertion of `append()`.  Both
formats, `single_dictionary` and `rectangular_dictionary`, are in it.

### Posting lists

`PostingCursor` is the cursor a query sees: a list, a position in it, the docid
there, the answer of `freq()`, and the call in progress.  `PostingList` has the
writer (`Write`, `WriteBlocks`, with 32-bit wrap-around arithmetic), the reader's
tables and the enumerator.  Its state is the list written, what is stored of it
and the enumerator's members in `cur`; `next`, `freq`, `reset` are one step,
`next_geq` and `move` are called (`NextGeq`, `Move`), scan one posting at a time
(`ScanStep`) and return (`Return`).  The codec is a parameter, as in the code: its
contract is that what was encoded comes back when decoded with the same number
of values and the same sum, and nothing useful otherwise (`Decode` then yields
words of all ones).  Addresses are counted in coded parts and not in bytes.
`Init` also rewrites the list with its blocks in any order, as `get_blocks` and
`write_blocks` allow.  These two are `block_posting_list`'s: the copy in
`dict_posting_list` passes the dictionary as a pointer to a function that takes
a reference, and no program can instantiate it.

Preconditions, from the callers: `next` and `freq` are called at a posting,
`move` forward and to a posting, `next_geq` never for a document below one asked
for before or left behind by `next` (`asked`).  `RespectsCursors` of
`QueryProcessing` checks that the queries keep to the last one.

### The codecs

`DintDictionary` is a dictionary as the codec uses it: the codewords (escapes,
runs, targets), where an entry lies in the shared table, `lookup` and `copy`,
which writes `max_entry_size` integers whatever the entry's size.  `DintBlock`
encodes a full block with the greedy or the optimal encoder, one loop iteration a
step, and decodes it.  `MultiDintBlock` encodes a block with every dictionary and
in both widths, keeps the smallest code behind its control byte, and decodes it;
words are digits to a small base, so that codewords beyond a byte exist.
`DintList` is the variant of `vroom_env`: lists of any length, the last target of
which may be cut, decoded one after the other into one buffer that `check_dint`
cleans between lists and `decode_dint` does not.  The buffer has
`constants::max_size` integers (`Longest`) and nothing behind them; `reach` is the
last place that was written, in the buffer or behind it.  `DatasetEncoder` composes the
jobs of `encode` (prepared in any order, committed in order) with the file they
write, for dint and for pef, and the programs that read it.

`InterpolativeBlock` (with `TightVariableByte`; a step is a recursive call, kept on a
stack `calls`), `VarIntG8IU` and `VarIntGB` (a step is a group) and `Qmx` (a step is
a stripe's alignment or a run of stripes) are bit- or byte-exact with smaller
digits.  `VarIntGB` has a thread's blocks one after the other: `first` is the length
of the one that the buffer was made for, and bytes behind the buffer may become
anything.  `Qmx` treats an integer as the set of its bits, each of which it follows
through shifts and masks, so that one behaviour is a proof for all values of
those widths.  `MixedBlock` takes the codecs for granted and models how
`compute_space_time` tries each with each parameter, which it refuses, and what
it leaves in the feature vector for the next.

### Sequences

`SequenceCursor` is what every enumerator of a sequence promises, for bounds beyond
the universe as well (`Beyond` says how far); `Stray` is what two of the enumerators
do instead at the end of a sequence.  `EliasFano`
(which is `strict_elias_fano` too, of values shifted by their position) and
`RankedBitvector` write bit vectors with samples, a value a
step, and move in them as the code does, with the branch taken for short scans,
skips and samples; `View` maps their state to the cursor.  On the next levels the
sequences of the level below are abstract cursors: `IndexedSequence` (also
`strict_sequence`) chooses a representation, and none for a full universe;
`PartitionedSequence` (both kinds) is a cursor in a partition with the bounds of
it (of a single partition, with an upper bound that went through an int, `Narrow`);
`FreqIndex` makes posting lists of two sequences, with `positive_sequence` and
its kept sum; `SequenceCollection` and, below both, `BitvectorCollection` keep
many of them.  `OptimalPartition` is the search for a partition, one window at
one start a step.

`MCSequences` is these seven together, `part` saying which of them a behaviour is
about; the inputs and parameters of each are its constants, with one assumption
of them, `SequencesAssumption`.  Its `RefinesSequenceCursor` is one statement about
all five sequences that have a cursor: what a caller sees (`CursorView`) moves as
`SequenceCursor` says, over the sequence that was written (`Viewed`), but for the
steps `Stray`.  It also states the inductive invariant of each part (`PartInv`).

### Queries

`QueryProcessing` runs one of the six operators on an index whose enumerators
are cursors; its first part is the heap of `topk_queue.hpp`, as the sorted sequence
of its scores.  A step is one iteration of a loop, with every `next_geq` a step of
its own; `order` is the vector of enumerators in the order the code keeps it,
with ties of `std::sort` left open.  Scores are integers.  A term's bound is the
maximum of its scores as `wand_data` computes it, times its weight in the query.

## The runs

| Run | Instance | Shows |
| --- | --- | --- |
| `queue` | 11 jobs of weights 1 to 3, batches of weight 3, at most 3 threads, and none | commits in order, jobs conserved, threads bounded, an in-order executor, and everything committed at last, in every interleaving |
| `builder` | 10 lists of several sizes, the last one empty, batches of weight 4, 3 threads and none | the index is the sequential one, its endpoints are encodable, its positions those of the collection, and it is built |
| `construction` | `MCConstruction`: `Collection`, `BlocksCollection`, `BlockStatistics` (docs, freqs), `DictionaryBuilder` (one, two dictionaries, packed), `DictionaryFile` (both formats) | files are read alike by both loops, statistics are exact, lookups faithful, files lossless, and all of it ends |
| `posting_list` | blocks of 2, universe 7, words of 4 bits, all 127 lists, all orders of their blocks | the enumerator is a cursor, and its calls return |
| `dint` | `MCDint`: `DintBlock`, `MultiDintBlock`, `DintList`, `DatasetEncoder` | round trips, the shortest code, and that coders end |
| `block_codecs` | `MCBlockCodecs`: `InterpolativeBlock`, `VarIntG8IU`, `VarIntGB` (plain, differences), `Qmx`, `MixedBlock` | round trips, in the room that is made |
| `sequences` | `MCSequences`: `EliasFano` (plain, strict), `RankedBitvector`, `IndexedSequence` (plain, strict), `PartitionedSequence` (plain, uniform), `OptimalPartition`, `FreqIndex`, `SequenceCollection` | enumerators are cursors, codes are as announced, partitions near the best |
| `queries` | 3 terms; 4 documents for `wand` and `maxscore`, 3 for the others, k = 2, also the empty query and repeated terms | results are those of a scan, although documents are skipped |
| `maxscore_assertion`, `dint_list_stale`, `dataset_encoder_pef`, `dictionary_file_empty` | of the modules above | the findings below |

Why the bounds are enough.

* The queue treats jobs alike but for their weight; 11 jobs with 3 threads close
  light and heavy batches, fill all threads, make `spawn_next_thread` wait, and
  leave a light last batch.
* A list of up to 7 postings in blocks of 2 has up to four blocks, a short last
  one or none, blocks to skip in front and behind; words of 4 bits make the
  arithmetic wrap where `last_doc` is -1.
* In the codec (blocks of 8, entries up to 4, runs of 8 and 4) the relations of
  the real sizes are kept: runs longer than an entry, entries of halving sizes, an
  overflow as long as the longest run, each halving loop with at least two
  iterations; the dictionaries include an empty one, entries that overlap and one
  among the zeros in front of the table.  With a byte of three bits some
  codewords do not fit the narrow encoding.
* The buffer of `DintList` has twelve integers.  A list of nine, which leaves less
  than an entry of it, and one of eight, which leaves just that, are each followed by
  short ones and by runs.
* Of group varint, a block of four or six integers is coded before and after one of
  one or two, so that the buffer of a short block gets a longer one that fits, or not.
* Samplings of 2 and 4 put several samples of each kind into sequences of up to
  eight values, the linear scan is one step, so that every branch of the
  enumerators is taken from every other; every subset of a small universe is
  tried, tight and wide.  Bounds go to 3 beyond the universe (`Beyond`), of which one
  is taken by the scan and one not, and a cursor that strays is followed 3 positions
  past the end.  An int is below 16 (`IntLimit`), the universes that are cut below 14.
* The dictionaries are built from every choice of up to five of eight blocks that
  overlap in one symbol, in several, in zeros, completely and not at all.
* A dictionary in a file has room for six entries of two integers, four of them
  reserved or runs; one collection fills it, the other one has a block too many.  What
  was not initialised is any number up to 7, more than there are entries, and more
  than an entry is long.
* Three runs in one directory are the least in which a crash, a run that finds
  what it left, and a run on another collection follow each other.
* Three terms make two lists non-essential; with `k = 2` the heap is filled, tied
  and exceeded.

Unbounded counters: none; every run is finite by its constants.

Fairness.  The operating system runs every thread that can run: weak fairness of
the main thread's step and of every worker (`queue`, `builder`).  A call that was
made is run to its end: weak fairness of the scanning and returning steps of an
enumerator, and of the step of the coders and of the queries.  A program that
reads files and builds dictionaries goes on, or crashes, which is an end: weak
fairness of the next step as a whole.  No fairness is assumed of callers, and
none that would prefer one outcome of a step to another.

Deadlock is checked in all runs but two: a caller of an enumerator may stop
calling (`sequences`), and the last of three runs ends (`dictionary_file_empty`).

## Findings

* `maxscore_assertion`: `maxscore_query` calls `next_geq(cur_doc)` on a
  non-essential list that is already behind a larger document, against
  `assert(lower_bound >= m_cur_docid || position() == 0)` in both enumerators.
  The result is right, for `next_geq` then leaves the list alone, but a build with
  assertions stops there (the default build, Release, has none).
* `dint_list_stale`: `decode` decodes list after list into one buffer; of a long
  run `copy` writes only `max_entry_size` zeros, and integers of an earlier list
  stay where the others should be.  `check_encoded_data` cleans the buffer between
  lists and does not see it.
* `dataset_encoder_pef`: `pef::decode` throws the first value away and takes one
  that is behind the last; of frequencies it gives prefix sums.
* `dictionary_file_empty`: a process that ends between opening the file of a
  single dictionary and the first flush leaves an empty file; later runs take it
  as complete, and `load()`, which does not look at the stream, leaves the offsets
  empty: the index they write does not decode.

Seen while modelling, outside the instances of the runs:

* `multi_dictionary::prepare_for_encoding` stops `reserved` entries early, so that
  the last targets of each dictionary are never used (modelled, lossless).
* `multi_dictionary::copy` asserts that `max_entry_size` integers follow an offset;
  only `load()` pads the table, so a dictionary used in the run that built it
  fails the assertion for a last entry that is short.
* `binary_collection`'s loop over empty sequences has no end of its own: an empty
  last sequence is followed by a read behind the file.  A file that ends behind a
  length gives a list of no integers, which `create_collection` leaves out and
  `verify_collection` asks the index for.
* `binary_blocks_collection` takes the frequency behind an empty block for a size,
  and lets a block that was cut off reach one integer beyond the file.
* `compact_elias_fano::next_geq` at the end of a sequence, with a bound a little
  above the universe, moves on to `size() + 1`, with the next such bound further
  still; `compact_ranked_bitvector` too (modelled as `Stray`; all that is asked for
  afterwards is answered as from the end).  `test_generic_sequence.hpp:139-141` asks
  every sequence for such a bound and wants `size()`.  It does so when the enumerator
  stands at its end: of the sequence `[1]` in a universe of 2 the answer is 2, not 1.
  `all_ones_sequence` asserts that the bound is no position beyond the end.
  `strict_elias_fano` has the universe plus one as its value at the end.
* The enumerator of a single partition keeps what it reads of its universe in `auto ub
  = 0`, an int (`partitioned_sequence.hpp:147`, `uniform_partitioned_sequence.hpp:132`):
  from universes of 2^31 on it opens a base sequence of another universe.  The
  sequences of the model are below that (`InputsAssumption`); documents are, sums of
  frequencies need not be.
* `decode` and `check_encoded_data` make a buffer of `constants::max_size` integers
  for the longest list, and `copy` writes up to `max_entry_size - 1` integers behind a
  list, the cleaning `max_entry_size`: a list longer than `max_size - max_entry_size`
  is written behind its end (`WritesBounded` says how far).
* A statistics file that was cut off before its first size is taken as one of blocks
  of a size that nobody set.  Of a single dictionary the size is kept modulo 256, and
  the targets are wrong ones but read alike by encoder and decoder; the rectangular
  one writes behind its table if the size or the number is large enough.
* `optimal_partition` adds windows for ever when `fix_cost`, which comes from the
  environment, is below `1 / eps2`.
* `varintgb_block::encode` makes its thread-local buffer with twice the bytes of the
  integers of the thread's first block.  A block of n takes a key for four and up to
  four bytes each (`Room`); a longer one later may not fit and is then written behind
  the buffer (`BufferHolds` says which do).  `test_block_codecs.cpp` codes blocks of 1,
  16, 255 and 256 in this order.
* `mixed_block` computes `max_b - b` in unsigned arithmetic and refuses a width
  above the largest value that it just decided to keep.
* The narrow encoding of `opt_dint_multi_dict_block` is optimised with the costs
  of the wide one: it is the shortest way of the wide encoding, not of its own.
* `compute_overlap` gives up at the first length that does not match, so that
  shorter overlaps behind it are not found.
* `check_dint` prints `sequence` where it means the size; `decode --freqs` skips
  the argument behind it; `optpfor` in `vroom_env` rounds a list up to whole blocks
  and reads behind it.

## The proofs

Eight modules of proofs, checked by TLAPS.  They assume what the modules state of
their constants, and nothing else.

`SemiasyncQueue_proofs`, for every number of jobs, every weights, every batch size
and every limit on threads:

* `InvariantHolds`: `QSpec => []QInv`.  None of the safety properties is
  inductive: that the next commit is the next job holds because the first thread
  of the deque starts with it, which holds because batches are consecutive and
  the deque is anchored at both ends, at the commits and at the waiting batch.
  `QInv` is therefore the conjunction of the types, `BatchesConsecutive` (each
  batch a run of jobs, each starting where the one before it ends),
  `DequeAnchored`, `PreparedTracked` (which jobs are prepared, and that only the
  joined first thread has commits), `ControlConsistent` (what the main thread
  knows at each place) and the two properties proper.  The proof has one lemma
  per action and under it one step per conjunct.
* `TypeCorrect`, `CommitsInOrder`, `ThreadsStayBounded`: the conjuncts on their own.
* `QueueRefinesExecutor`: `QSpec` implements `InOrderExecutor`, each step of the
  queue a step or a stutter of the executor under `committed <- Len(committed)`,
  `finished <- pc = "done"`.
* `JobsAlwaysConserved`: the committed jobs, what is left of the threads' batches and
  the waiting batch are runs of jobs that follow each other, so that joined together
  they are the jobs in order, each once.  What is joined is defined by a recursive
  function (`FlattenSeq`); `FlattenIs` unrolls it with a least counterexample.

`IndexBuilder_proofs`, for every collection, `min_size`, batch size and limit on
threads:

* `TypeCorrect`, `BuilderRefinesSequential`, `EndpointsAlwaysEncodable`, and, with
  `MinSize = 0`, `PositionsAlwaysMatch`.
* The invariant takes the queue's `QInv` as it is (`QP == INSTANCE
  SemiasyncQueue_proofs`, whose lemmas are cited; `SameInvariant` and `SameSteps`
  show that both instances are the same) and adds what the queue does not know:
  `BuffersPrepared` (the buffer of a prepared job holds the encoding of its list)
  and `Appended` (`m_lists` is the concatenation of the lists committed so far,
  and `m_endpoints` the sums of their lengths, from 0 on).  From these the
  sequential builder's state is read off with a mapping that forgets the queue.
* How many lists `create_collection` accepts is a cardinality; `CountStep` and
  `AcceptedFacts` relate the k-th job to the k-th accepted list.

`DintBlock_proofs`, for every size of block, runs and entries, every block, every
dictionary that is laid out as `IsDictionary` says, and both encoders:

* `RoundTripAlways`: at the end the decoder has the block and has read the whole
  code.  The invariant relates words to integers: a word `Stands` at a position
  when what it stands for is there in the block; the code `Covers` a part of the
  block when there is a cut of it into consecutive parts, one per word.  The
  greedy encoder extends the cut at its end (`AppendCovers`); the optimal one
  keeps `PathOK` (every node's codeword leads from its parent to it, a large
  exception at first) and extends the cut at its front while it traces back
  (`PrependCovers`).  The decoder walks along a cut (`Reading`), which is why it
  meets the end exactly, and `DecodedTo` says how far its output is the block and
  from where on it is still zero: `copy` leaves nothing beyond `max_entry_size`
  behind the position, which is what long runs rely on.
* `ShortestCodeAlways`: the optimal encoder's code has the fewest words that any cut
  of the block into runs, targets and exceptions has.  `Fewest` is that number from a
  position on, and the invariant `ShortInv` says of the nodes of the path that each
  one ahead costs what some way to it costs, that none is too cheap (`NotTooCheap`:
  every offer is a way), and that each one that has been relaxed was offered every
  word that goes on from it: the longest run (`RunIsLongest`), the lookup of each size
  (`FitIsOffered`), a single integer at least (`SingleIsOffered`).  At the end
  `LastIsShortest` goes back from the last node: no way costs less than it does.
* `DirtAlwaysBounded` and `TypeCorrect`: `copy`, which always writes
  `max_entry_size` integers, stays in the buffer and leaves zeros behind them, from
  `OverflowAssumption` (an entry has at most 16 integers, the buffer is 256 longer
  than the block); and the types.

`MultiDintBlock_proofs`, for every size of block, runs and entries, every block of
integers below `Byte`^4, and every sequence of dictionaries over one table:

* `RoundTripAlways`: whatever dictionary and width were chosen, the decoder finds both
  in the control byte, has the block at the end and has read the whole code.  The cut
  (`IsCut`) is as in `DintBlock_proofs`, but its parts are of bytes and begin at byte
  positions: `WrittenFacts` and `NumberRead` say that bytes of an index or an exception
  give the number back, `Ways` and `Traces` unroll the recursive function of `Code`
  along the path back (`CodeCovers`), and `WriteBestChooses` keeps the cut of the code
  that is chosen, behind the control byte.
* `SmallestAlwaysChosen`: no dictionary has, in either width, a code smaller than the
  one written.  The invariant says which codes have been found so far (`Tried`), and
  that each stands for the whole block in its dictionary and width (`AllCovered`).
* `WideAlwaysShortest`: with each dictionary, no codeword of the map and no exception
  makes the way to any position cheaper, and the wide code has two bytes for each unit
  of the last one's cost (`CodeLength`): it is the shortest.  `PathShort` says that a
  node continues the way to its parent at the cost of its codeword or nobody has come to
  it (`Continues`), and that each position passed has offered every codeword that goes
  on from it (`Taken`, `RelaxKeepsShort`).
* `DirtAlwaysBounded`, `TypeCorrect`: as for one dictionary.
* What it assumes (`Assumed`) are the four assumptions the module names, which `MCDint`
  assumes of its instance: the escapes and the runs have codewords below `Byte`, since
  the narrow decoder takes them from a single byte; a dictionary has at most `Byte`^2
  entries; targets have target sizes; a copy of `max_entry_size` fits behind the block.

`Sequences_proofs`, for every sequence and its universe, every sampling, way to cut a
sequence, size of partition, cost, set of lists and of collections:

* `SequencesRefine`: Elias-Fano, strict Elias-Fano, the ranked bitvector, the indexed
  sequence (plain and strict) and the partitioned one (cut in any way, or uniformly)
  implement `SequenceCursor`: each `move`, `next_geq` and `next`, after any other calls,
  leads where the cursor of the written sequence goes, and `prev_value` is the value
  before.  Bounds go beyond the universe, by any number `Beyond`; at the end a step may
  then be a `Stray`, after which the invariants have a position past the end and the
  value and the samples of the end (`ValueAt`, `PlainStands`, `RankedStands`).  `AllCursorsInStep`, `AllCodedExactly`, `AllListsRead` and `PathAlwaysGoesBack`
  are the other properties of the run; `PartitionIsCheap` alone is not proved.
* `PartsInvariant`: `MCSpec => []PartInv`.  `PartInv` is, for the part that a behaviour is
  about, one of these inductive invariants, which `MCSequences` states.
  * `PlainInv` and `RankedInv` (Elias-Fano and the ranked bitvector) say what is written so
    far: the ones of the first values, the low bits, and of every sample of ones, zeros or
    ranks that its range is passed and its number is exact (`PlainWritten`,
    `RankedWritten`).  When it is read, the unary cursor has consumed the one of the
    position and none behind it (`PlainStands`, `RankedStands`).  The arithmetic is that
    of `Highs` and `Places`: zeros below a place are its place less the ones, so a sample
    of a zero is the place of the sampled zero (`PlainZeros`, `GapsFacts`), and each of
    the four ways to go on, by scanning, skipping ones, skipping zeros or from a sample,
    ends at the same one (`PlainScan`, `PlainSlowGeq`, `RankedGeq`).  Fields hold what is
    put into them, as a number below 2^w is what w bits keep (`PlainSampled`).
  * `OfOriginal`: values that increase, less their positions, never fall, and the first of
    them with `value + position >= bound` is the first that reaches the bound.
  * `IndexedInv`: the bits a sequence took are those announced, and the type that is read
    back, all ones or the one of the type bit, is the one that was written.
  * `PartitionedInv` (stated in `PartitionedSequence`): the file has of each partition the
    base sequence, behind the ones before it; upper bounds are one behind (`Writing`,
    `Stored`); and the enumerator has the bounds of the partition its position is in
    (`Stands`).  A full partition takes no bits and is known by its universe alone, so
    `BaseAt` must be shown to give back what was written from the bounds (`BaseAtFacts`);
    of a single partition also that an int keeps the bound, as universes fit one.
    `PartitionedRefines`, `PartitionedCursors` and `PartitionedSwitches` are the theorems of
    that module by itself.
  * `IndexInv` and `CollectionInv`: every list or sequence is kept with what reads it back;
    the endpoints of parts without bits coincide, and the last of them is the part that
    has them (`LaidOut`); a kept sum is that before the position (`ReaderIs`).
  * `LoopInv`: every position's predecessor lies before it, as the windows' ends are ahead
    of the start whenever an edge is taken, which is what `lastEnd` is for.
* The parts meet in `PartStep`: every step of a part leaves what is seen alone
  or is a call of the cursor (`AllShown`, `ViewerSteps`).
* What it assumes is `SequencesAssumption`: sequences are not empty, lie below their
  universes and increase where the class demands it; universes that are cut fit an
  int; samplings are numbers; documents are
  below their number and frequencies positive; no sequence costs as much as the
  `uint64_t(-1)` that `indexed_sequence::bitsize` starts with.  Sequences that do not
  increase are among the inputs of Elias-Fano and the ranked bitvector, which refuse them.
* For the provers some definitions take a form of their own: sums are a recursive
  function (`Sums`), and samples are put together by `Joined`.

`PostingList_proofs`, for every block size, universe, list of postings and order
in which `write_blocks` may have stored the blocks:

* `CursorRefined`: the enumerator implements `PostingCursor`, that is, `next`,
  `next_geq`, `move`, `freq` and `reset`, in any sequence the callers may make of
  them, show the postings that were written.  `TypeCorrect`, `CachedIsCurrent` and
  `BlocksKept` are the other properties of the run.
* The invariant (`Invariance`) has three parts.  `Holds` says what is stored, in
  whatever order: the endpoint of a block is followed by its gaps and its freqs,
  encoded with the sum the reader computes from the maxima (`BaseReadBack`,
  `PartsDecode`; an order of blocks has every block in it by counting,
  `OrderHasAll`).  `EnumeratorOK` says that what is cached is of the current block
  and that the docid, summed up from gaps modulo 2^32, is that of the posting at
  `position()` or the universe.  `CallOK` says why the calls are right:
  `next_geq` has left only smaller docids behind (`SkipToFinds`) and stays in a
  block whose maximum reaches the bound, so that the scan ends within it; `move`
  is in the block of its position; an enumerator that is exhausted has been asked
  beyond the last posting, so that no later bound decodes a block again.
* Positions and blocks are related by `BlocksDivide` and `BlockOfPosition`, the
  arithmetic of rounding up, of a shorter last block and of `pos / block_size`.
* The assumptions are those of the module: docids increase and are below the
  universe, the universe is below 2^32, and the coder gives back what it was given
  together with the sum and the number (`Decode` of `Encode`), which the runs on
  the codecs check for the coders that are modelled.

`QueryProcessing_proofs`, for every index, query, weights, k and order in which
`std::sort` may leave lists that compare equal:

* `InvHolds`: `Spec => []Inv`, from which follow `TypeOKHolds`; `BooleanCorrectHolds`
  (`and_query` and `or_query` count the documents a scan counts);
  `TopkCorrectHolds` (`wand_query` and `maxscore_query`, as `ranked_and_query` and
  `ranked_or_query`, find the k best scores); `WandSortedHolds` (after its bubbling, wand's lists
  are ordered by their documents); and `RespectsCursorsHolds` (no enumerator goes back).
* `Inv` says that every enumerator stands at the first document from the one it was
  asked for (`CursorsStand`), and that the heap has the best scores of the documents
  the operator is done with (`HasBestOf`).  The difficulty is what is skipped: a
  document is also done with when its score cannot enter the heap, which only gets
  harder to enter (`HavingMore`).  For wand (`WandInv`) what is left of the pivot is
  bounded by the sum of the maxima up to it; for maxscore (`MaxscoreRunInv`,
  `MaxscoreCompleteInv`) the lists that are not essential are bounded by
  `upper_bounds`, and a document that is completed partly has the part it has and
  that bound for the rest.
* Scores and bounds are sums over finite sets of terms.  Their lemmas (`SumTakeOut`,
  `SumMonotonic`) are proved by taking out one element of a smallest
  counterexample.

`DictionaryBuilder_proofs`, for every number of dictionaries, entries and runs,
every statistics that offers blocks of 1 to `max_entry_size` integers, both
policies, and every order in which equal overlaps leave the queue:

* `TargetsAlwaysReachable`: compacting loses no target, and the search in the table,
  which asserts that it finds, does.  `DictionaryAlwaysFaithful`: besides, compacting
  takes no more room than the targets do one after the other, a codeword from
  `lookup()` stands for what was looked up and belongs to the encoding asked for, and
  every target is found, of several dictionaries all but the last `reserved` ones.
* The invariant `IInv` is `Types`; `Appended` (no dictionary has more targets than
  blocks were looked at, which bounds it by `num_entries` although `append()` compares
  with the total); `Counted` (prefix sums of the dictionaries' sizes say how many
  entries there are and where each dictionary starts); `Compacted` (each target is
  part of a valid entry, all valid entries take no more room than the targets, and a
  queued overlap is one as long as both its entries are valid, `Queued`); `Tabled`
  (the same of the table, which begins with zeros); `Laid` (an offset is one where its
  target is); and `MapsMade`.  `Queued` is what the queue needs: an overlap was computed
  long before it is used, and entries change meanwhile, but only in becoming invalid.
* The lemmas are about sequences: what is part of a part is part (`ContainedTrans`),
  two entries merged over an overlap contain both (`MergedContains`), a sort loses and
  doubles nothing (`InOrderFacts`: the ranks of a finite strict order are its
  bijection to 1..n), the sizes of concatenations under exchange, removal and addition
  (`FlattenFacts`, `ExchangeLength`, `SomeNotLonger`), and that of targets that cover
  each other the longest is kept (`LongestContains`).
* What it assumes (`Assumptions`) are the four assumptions the module names, which
  `MCConstruction` assumes of each of its three instances.

Inductions over numbers and finite sets are done in first order, by the least
element of the set of counterexamples.

Only model-checked:

* liveness (`AllCommitted`, `EventuallyBuilt`, `CallsReturn`, `CodersEnd`,
  `QueryEnds`, `ConstructionEnds`), which needs fairness and ENABLED;
* the collection, the statistics and the dictionaries' files;
* `DintList` and `DatasetEncoder` (`OthersFaithful`), and the codecs of
  `block_codecs`, which are written with folds over bytes and bits;
* `PartitionIsCheap`, which does not hold for every constant: the windows' bounds are
  rounded down.

## What is not modelled

* BM25 and predicted decoding times: floating point.  Scores are integers, so that
  a bound that is smaller than a score by rounding is not seen.
* Collisions of the 64-bit hashes that `lookup` compares: hashes are taken to be
  injective.
* The 16 bytes that `VarIntG8IU` loads for each group of 9, beyond the last group too.
* `optimal_partition` with `eps1 == 0`, when windows are added until one has the cost
  of the whole sequence (`Lookahead` is a number here); its positions are not cut to
  the 32 bits of `posting_t`.
* `simple16_block`, `streamvbyte_block`, `maskedvbyte_block`, and the coder inside
  `optpfor_block`: they call submodules whose files are not in the repository.
  `vbyte_block` and `u32_block` are one call and one copy.
* `multi_opt_dint` of `vroom_env`: the block codec with several dictionaries is
  modelled, its variant for lists differs as `DintList` differs from `DintBlock`.
* The exception of `add_posting_list` for an empty list, also in `freq_index`: its
  precondition holds in `create_collection`, which leaves such lists out.
* Files and directories changed by others while a program runs, and the mapping of
  an index into memory, which is the succinct library's.
* Command-line parsing, logging, statistics that are only printed, the counters
  of the profiler, and timing.
