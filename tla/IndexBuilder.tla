---------------------------- MODULE IndexBuilder ----------------------------
(***************************************************************************)
(* dict_freq_index::builder (include/dint/dict_freq_index.hpp) driven by   *)
(* create_collection (src/create_freq_index.cpp): posting lists are added  *)
(* as jobs of a semiasync_queue, worker threads encode them into buffers   *)
(* of their own, the main thread appends the buffers to m_lists, and       *)
(* build() freezes m_lists and m_endpoints into the index.                 *)
(*                                                                         *)
(* The queue is the module SemiasyncQueue; each action here is one of its  *)
(* actions together with what list_adder does in it.  What the encoder     *)
(* writes is modelled elsewhere; here the bytes of list i are the pairs    *)
(* <<i, 1>>, <<i, 2>>, ...                                                 *)
(***************************************************************************)
EXTENDS Naturals, Sequences, FiniteSets

CONSTANTS
    ListSize,       \* ListSize[i]: postings of the i-th list of the collection
    ListBytes,      \* ListBytes[i]: bytes of its encoding
    MinSize,        \* constants::min_size
    WorkPerThread,  \* 1 << 24
    MaxThreads

NumInput == Len(ListSize)

\* A collection read from a file truncated behind a length ends with an empty
\* list; binary_collection::iterator skips every other empty one.
ASSUME ListSizeAssumption ==
    /\ ListSize \in Seq(Nat)
    /\ \A i \in 1..(NumInput - 1) : ListSize[i] > 0
ASSUME ListBytesAssumption == ListBytes \in [1..NumInput -> Nat \ {0}]
ASSUME MinSizeAssumption == MinSize \in Nat
ASSUME ThreadsAssumption == WorkPerThread \in Nat \ {0} /\ MaxThreads \in Nat

\* Mutant of LongEnough: min_size filters out lists of one posting.
LongEnough_SingletonsDropped(i) == ListSize[i] > MinSize + 1

\* The lists create_collection passes on ...
LongEnough(i) == ListSize[i] > MinSize

AcceptedLists == {i \in 1..NumInput : LongEnough(i)}

NumJobs == Cardinality(AcceptedLists)

\* ... in the order of the collection: the j-th of them.
Accepted ==
    [j \in 1..NumJobs |->
        CHOOSE i \in AcceptedLists : Cardinality({k \in AcceptedLists : k <= i}) = j]

Work == [j \in 1..NumJobs |-> 2 * ListSize[Accepted[j]]]

\* The bytes sequence_type::write makes of the list of job j.
Encoding == [j \in 1..NumJobs |-> [b \in 1..ListBytes[Accepted[j]] |-> <<Accepted[j], b>>]]

VARIABLES
    pc, completing, added, nextBatch, expected, running, prepared, committed,
    cursor,         \* lists of the collection create_collection went through
    lists,          \* lists[j]: the buffer of the list_adder of job j
    m_lists,        \* the encoded lists
    m_endpoints,    \* where each of them ends, after a leading 0
    index           \* the dict_freq_index that build() fills

Q == INSTANCE SemiasyncQueue

qvars == <<pc, completing, added, nextBatch, expected, running, prepared, committed>>

vars == <<qvars, cursor, lists, m_lists, m_endpoints, index>>

NoIndex == [built |-> FALSE]

Init ==
    /\ Q!QInit
    /\ cursor = 0
    /\ lists = [j \in 1..NumJobs |-> <<>>]
    /\ m_lists = <<>>
    /\ m_endpoints = <<0>>
    /\ index = NoIndex

-----------------------------------------------------------------------------
(* create_collection and the calls it makes.                               *)

\* Mutant of SkipList: the iterator is not advanced past a short list.
SkipList_NotAdvanced ==
    /\ pc = "idle" /\ cursor < NumInput
    /\ ~LongEnough(cursor + 1)
    /\ UNCHANGED vars

\* A list that is too short is not added.
SkipList ==
    /\ pc = "idle" /\ cursor < NumInput
    /\ ~LongEnough(cursor + 1)
    /\ cursor' = cursor + 1
    /\ UNCHANGED <<qvars, lists, m_lists, m_endpoints, index>>

\* add_posting_list: a list_adder goes to the queue.
AddPostingList ==
    /\ cursor < NumInput
    /\ LongEnough(cursor + 1)
    /\ Q!AddJob
    /\ cursor' = cursor + 1
    /\ UNCHANGED <<lists, m_lists, m_endpoints, index>>

\* Mutant of CommitEffect: the endpoint is pushed before the bytes are there.
CommitEffect_EndpointFirst(buffer) ==
    /\ m_lists' = m_lists \o buffer
    /\ m_endpoints' = Append(m_endpoints, Len(m_lists))

\* Mutant of CommitEffect: the buffer's bytes are taken off where they have not
\* been added.
CommitEffect_BytesTakenOff(buffer) ==
    /\ m_lists' = m_lists \o buffer
    /\ m_endpoints' = Append(m_endpoints, Len(m_lists) - Len(buffer))

\* list_adder::commit, given what prepare() left in the list_adder's buffer.
CommitEffect(buffer) ==
    /\ m_lists' = m_lists \o buffer
    /\ m_endpoints' = Append(m_endpoints, Len(m_lists'))

\* The same without worker threads: prepare() and commit() in the call.
AddPostingListInline ==
    /\ cursor < NumInput
    /\ LongEnough(cursor + 1)
    /\ Q!AddJobInline
    /\ cursor' = cursor + 1
    /\ lists' = [lists EXCEPT ![added + 1] = Encoding[added + 1]]
    /\ CommitEffect(Encoding[added + 1])
    /\ UNCHANGED index

\* build() calls complete() once the whole collection was gone through.
BuildComplete ==
    /\ cursor = NumInput
    /\ Q!Complete
    /\ UNCHANGED <<cursor, lists, m_lists, m_endpoints, index>>

\* The steps of the queue that touch no list.
QueueStep ==
    /\ Q!SpawnNextThread \/ Q!EmplaceThread \/ Q!JoinFront \/ Q!PopFront \/ Q!Drain
    /\ UNCHANGED <<cursor, lists, m_lists, m_endpoints, index>>

\* commit_thread runs list_adder::commit of the job that is next.
CommitList ==
    /\ Q!CommitJob
    /\ LET j == Head(running).jobs[Head(running).comm + 1]
       IN  CommitEffect(lists[j])
    /\ UNCHANGED <<cursor, lists, index>>

\* Mutant of FillIndex: the end of the last list is written as well.
FillIndex_LastEndpointToo ==
    /\ pc = "done" /\ ~index.built
    /\ index' = [built |-> TRUE, size |-> Len(m_endpoints) - 1,
                  lists |-> m_lists, endpoints |-> m_endpoints]
    /\ m_lists' = <<>>
    /\ UNCHANGED <<qvars, cursor, lists, m_endpoints>>

\* The rest of build(): m_lists is stolen, and the endpoints but the last are
\* written as a compact_elias_fano sequence.
FillIndex ==
    /\ pc = "done" /\ ~index.built
    /\ LET size == Len(m_endpoints) - 1
       IN  index' = [built |-> TRUE, size |-> size,
                     lists |-> m_lists, endpoints |-> SubSeq(m_endpoints, 1, size)]
    /\ m_lists' = <<>>
    /\ UNCHANGED <<qvars, cursor, lists, m_endpoints>>

\* A worker runs list_adder::prepare: the list is encoded into the buffer.
PrepareList(t) ==
    /\ Q!Prepare(t)
    /\ LET j == running[t].jobs[running[t].prep + 1]
       IN  lists' = [lists EXCEPT ![j] = @ \o Encoding[j]]
    /\ UNCHANGED <<cursor, m_lists, m_endpoints, index>>

MainStep ==
    \/ SkipList \/ AddPostingList \/ AddPostingListInline
    \/ BuildComplete \/ QueueStep \/ CommitList \/ FillIndex

Terminated == index.built /\ UNCHANGED vars

Next ==
    \/ MainStep
    \/ \E t \in 1..MaxThreads : PrepareList(t)
    \/ Terminated

Fairness ==
    /\ WF_vars(MainStep)
    /\ \A t \in 1..MaxThreads : WF_vars(PrepareList(t))

Spec == Init /\ [][Next]_vars /\ Fairness

-----------------------------------------------------------------------------
(* Reading the index.                                                      *)

\* operator[](i): where the enumerator of list i starts in m_lists.
ListBegin(i) == index.endpoints[i + 1]

-----------------------------------------------------------------------------
(* Properties.                                                             *)

TypeOK ==
    /\ Q!QTypeOK
    /\ cursor \in 0..NumInput
    /\ lists \in [1..NumJobs -> Seq((1..NumInput) \X Nat)]
    /\ m_lists \in Seq((1..NumInput) \X Nat)
    /\ m_endpoints \in Seq(Nat)
    /\ index.built \in BOOLEAN

\* Encoding with worker threads makes the same m_lists, the same endpoints and
\* the same index as the single-threaded code it replaced, step for step:
\* neither batches, nor the limit on threads, nor the speed of the workers show.
Sequential == INSTANCE SequentialIndexBuilder WITH NumLists <- NumJobs

RefinesSequentialBuilder == Sequential!SSpec

\* The list with position s in the index is the list with position s in the
\* collection: verify_collection, wand_data and the queries all identify a
\* term by its position in the collection.
PositionsMatchCollection ==
    index.built =>
        \A s \in 0..(index.size - 1) :
            LET bytes == ListBytes[s + 1]
            IN  SubSeq(index.lists, ListBegin(s) + 1, ListBegin(s) + bytes)
                  = [b \in 1..bytes |-> <<s + 1, b>>]

\* The endpoints build() passes to compact_elias_fano::write are what it
\* asserts: as many as it is told, sorted, and below the universe m_lists.size().
EndpointsEncodable ==
    index.built =>
        /\ Len(index.endpoints) = index.size
        /\ \A i \in 1..Len(index.endpoints) : index.endpoints[i] < Len(index.lists)
        /\ \A i \in 2..Len(index.endpoints) : index.endpoints[i - 1] <= index.endpoints[i]

\* With a fair scheduler the index is built.
EventuallyBuilt == <>index.built
=============================================================================
