------------------------- MODULE IndexBuilder_proofs -------------------------
(***************************************************************************)
(* Proofs about IndexBuilder, for every collection, every size of batches  *)
(* and every number of worker threads: the index is the one that the       *)
(* single-threaded builder makes, its endpoints can be encoded, and a list *)
(* has the position in it that it has in the collection.                   *)
(*                                                                         *)
(* What the queue guarantees is taken from SemiasyncQueue_proofs.          *)
(***************************************************************************)
EXTENDS IndexBuilder, FiniteSetTheorems, SequenceTheorems, WellFoundedInduction, TLAPS

QP == INSTANCE SemiasyncQueue_proofs

-----------------------------------------------------------------------------
(* The lists that are accepted.                                            *)

\* How many lists are accepted of the first i of the collection.
AcceptedUpTo(i) == Cardinality({k \in AcceptedLists : k <= i})

(***************************************************************************)
(* The types of the constants.                                             *)
(***************************************************************************)
LEMMA Constants ==
    /\ NumInput \in Nat
    /\ IsFiniteSet(AcceptedLists) /\ AcceptedLists \subseteq 1..NumInput
    /\ NumJobs \in Nat
    /\ \A i \in 1..NumInput : ListSize[i] \in Nat /\ ListBytes[i] \in Nat \ {0}
<1>1. NumInput \in Nat /\ \A i \in 1..NumInput : ListSize[i] \in Nat
  BY ListSizeAssumption DEF NumInput
<1>2. AcceptedLists \subseteq 1..NumInput
  BY DEF AcceptedLists
<1>3. IsFiniteSet(1..NumInput)
  BY <1>1, FS_Interval
<1>4. IsFiniteSet(AcceptedLists)
  BY <1>2, <1>3, FS_Subset
<1> QED BY <1>1, <1>2, <1>4, FS_CardinalityType, ListBytesAssumption DEF NumJobs

(***************************************************************************)
(* The count grows by at most one from list to list, and only where a list *)
(* is accepted.                                                            *)
(***************************************************************************)
LEMMA CountStep ==
    /\ AcceptedUpTo(0) = 0
    /\ AcceptedUpTo(NumInput) = NumJobs
    /\ \A i \in 0..NumInput : AcceptedUpTo(i) \in Nat
    /\ \A i \in 1..NumInput :
        AcceptedUpTo(i) = AcceptedUpTo(i - 1) + (IF LongEnough(i) THEN 1 ELSE 0)
<1> DEFINE A == AcceptedLists
           Below(i) == {k \in A : k <= i}
<1>1. NumInput \in Nat /\ IsFiniteSet(A) /\ A \subseteq 1..NumInput
  BY Constants
<1>2. ASSUME NEW i \in Int PROVE IsFiniteSet(Below(i)) /\ Cardinality(Below(i)) \in Nat
  <2>1. Below(i) \subseteq A
    OBVIOUS
  <2> HIDE DEF Below, A
  <2> QED BY <1>1, <2>1, FS_Subset, FS_CardinalityType
<1>6. \A k \in A : k \in Int /\ k >= 1 /\ k <= NumInput
  BY <1>1
<1>3. Below(0) = {} /\ Below(NumInput) = A
  <2> HIDE DEF A
  <2>1. Below(0) = {}
    BY <1>6
  <2>2. Below(NumInput) = A
    BY <1>6
  <2> QED BY <2>1, <2>2
<1>4. ASSUME NEW i \in 1..NumInput
      PROVE  Cardinality(Below(i)) = Cardinality(Below(i - 1)) + (IF LongEnough(i) THEN 1 ELSE 0)
  <2>1. i \in Int /\ i - 1 \in Int
    BY <1>1
  <2>2. CASE LongEnough(i)
    <3>1. i \in A
      BY <2>2 DEF AcceptedLists
    <3>2. Below(i) = Below(i - 1) \cup {i} /\ i \notin Below(i - 1)
      <4> HIDE DEF A
      <4>1. \A k \in Int : k <= i <=> k <= i - 1 \/ k = i
        BY <2>1
      <4>2. ~(i <= i - 1)
        BY <2>1
      <4> QED BY <1>6, <3>1, <4>1, <4>2
    <3>3. IsFiniteSet(Below(i - 1)) /\ Cardinality(Below(i - 1)) \in Nat
      BY <1>2, <2>1
    <3> HIDE DEF Below, A
    <3> QED BY <2>2, <3>2, <3>3, FS_AddElement
  <2>3. CASE ~LongEnough(i)
    <3>1. i \notin A
      BY <2>3 DEF AcceptedLists
    <3>2. Below(i) = Below(i - 1)
      <4> HIDE DEF A
      <4>1. \A k \in Int : k <= i <=> k <= i - 1 \/ k = i
        BY <2>1
      <4> QED BY <1>6, <3>1, <4>1
    <3>3. Cardinality(Below(i - 1)) \in Nat
      BY <1>2, <2>1
    <3> HIDE DEF Below, A
    <3> QED BY <2>3, <3>2, <3>3
  <2> QED BY <2>2, <2>3
<1>5. Cardinality(Below(0)) = 0
  BY <1>3, FS_EmptySet
<1> QED BY <1>1, <1>2, <1>3, <1>4, <1>5 DEF AcceptedUpTo, NumJobs

(***************************************************************************)
(* For every job there is a list of the collection.                        *)
(***************************************************************************)
LEMMA AcceptedFacts ==
    ASSUME NEW j \in 1..NumJobs
    PROVE  Accepted[j] \in AcceptedLists /\ AcceptedUpTo(Accepted[j]) = j
<1> DEFINE S == {i \in 0..NumInput : AcceptedUpTo(i) >= j}
<1>1. NumInput \in Nat /\ NumJobs \in Nat /\ j \in Nat /\ j > 0 /\ j <= NumJobs
  BY Constants
<1>2. NumInput \in S /\ S \subseteq Nat
  BY <1>1, CountStep
<1>3. PICK i \in S : \A m \in S : ~(<<m, i>> \in OpToRel(<, Nat))
  <2> HIDE DEF S
  <2> QED BY <1>2, NatLessThanWellFounded, WFMin
<1>4. i \in 0..NumInput /\ AcceptedUpTo(i) >= j /\ i # 0
  BY <1>1, CountStep
<1>5. i - 1 \notin S /\ i - 1 \in 0..NumInput
  <2>1. i - 1 < i /\ i - 1 \in Nat /\ i \in Nat /\ i - 1 \in 0..NumInput
    BY <1>1, <1>4
  <2>2. <<i - 1, i>> \in OpToRel(<, Nat)
    BY <2>1 DEF OpToRel
  <2> HIDE DEF S
  <2> QED BY <1>3, <2>1, <2>2
<1>6. /\ AcceptedUpTo(i - 1) < j
      /\ AcceptedUpTo(i) = AcceptedUpTo(i - 1) + (IF LongEnough(i) THEN 1 ELSE 0)
      /\ AcceptedUpTo(i) \in Nat /\ AcceptedUpTo(i - 1) \in Nat
  BY <1>1, <1>4, <1>5, CountStep
<1>7. LongEnough(i) /\ AcceptedUpTo(i) = j
  BY <1>1, <1>4, <1>6
<1>8. i \in AcceptedLists
  BY <1>1, <1>4, <1>7 DEF AcceptedLists
<1>9. Accepted[j] = CHOOSE l \in AcceptedLists : AcceptedUpTo(l) = j
  BY DEF Accepted, AcceptedUpTo
<1> QED BY <1>7, <1>8, <1>9

\* A byte is named by its list and its place there.
Byte == (1..NumInput) \X Nat

(***************************************************************************)
(* What the encoder makes of a job.                                        *)
(***************************************************************************)
LEMMA EncodingFacts ==
    ASSUME NEW j \in 1..NumJobs
    PROVE  /\ Encoding[j] \in Seq(Byte)
           /\ Len(Encoding[j]) = ListBytes[Accepted[j]]
           /\ Len(Encoding[j]) \in Nat \ {0}
           /\ Encoding[j] # <<>>
           /\ \A b \in 1..Len(Encoding[j]) : Encoding[j][b] = <<Accepted[j], b>>
<1> DEFINE i == Accepted[j]
           size == ListBytes[i]
           e == Encoding[j]
<1>1. i \in 1..NumInput /\ size \in Nat \ {0}
  BY AcceptedFacts, Constants
<1>2. e = [b \in 1..size |-> <<i, b>>]
  BY DEF Encoding
<1> HIDE DEF i, size, e
<1>3. e \in Seq(Byte)
  BY <1>1, <1>2 DEF Byte
<1>4. Len(e) = size /\ \A b \in 1..size : e[b] = <<i, b>>
  BY <1>1, <1>2
<1>5. e # <<>>
  BY <1>1, <1>3, <1>4
<1> QED BY <1>1, <1>3, <1>4, <1>5 DEF i, size, e

-----------------------------------------------------------------------------
(* What the queue guarantees.                                              *)

(***************************************************************************)
(* The queue's constants, as the builder sets them, are as the queue       *)
(* assumes.                                                                *)
(***************************************************************************)
LEMMA QueueAssumptions ==
    /\ QP!NumJobsAssumption /\ QP!WorkAssumption
    /\ QP!WorkPerThreadAssumption /\ QP!MaxThreadsAssumption
<1>1. NumJobs \in Nat
  BY Constants
<1>2. ASSUME NEW j \in 1..NumJobs PROVE 2 * ListSize[Accepted[j]] \in Nat
  <2> DEFINE k == ListSize[Accepted[j]]
  <2>1. Accepted[j] \in AcceptedLists
    BY AcceptedFacts
  <2>2. k \in Nat
    BY <2>1, Constants
  <2> HIDE DEF k
  <2>3. 2 * k \in Nat
    BY <2>2
  <2> QED BY <2>3 DEF k
<1>3. Work \in [1..NumJobs -> Nat]
  BY <1>2 DEF Work
<1> QED BY <1>1, <1>3, ThreadsAssumption
        DEF QP!NumJobsAssumption, QP!WorkAssumption, QP!WorkPerThreadAssumption,
            QP!MaxThreadsAssumption

(***************************************************************************)
(* The two instances of the queue are the same.                            *)
(***************************************************************************)
LEMMA SameInvariant == Q!QInv <=> QP!QInv
BY ONLY TRUE
   DEF Q!QInv, QP!QInv, Q!QTypeOK, QP!QTypeOK, Q!BatchesConsecutive, QP!BatchesConsecutive,
       Q!DequeAnchored, QP!DequeAnchored, Q!PreparedTracked, QP!PreparedTracked,
       Q!ControlConsistent, QP!ControlConsistent, Q!CommittedInOrder, QP!CommittedInOrder,
       Q!ThreadsBounded, QP!ThreadsBounded, Q!PcValues, QP!PcValues, Q!Jobs, QP!Jobs,
       Q!Thread, QP!Thread, Q!First, QP!First, Q!Size, QP!Size, Q!NPrep, QP!NPrep,
       Q!NComm, QP!NComm, Q!Threads, QP!Threads, Q!Batched, QP!Batched

(***************************************************************************)
(* So are they in the next state.                                          *)
(***************************************************************************)
LEMMA SameInvariantNext == Q!QInv' <=> QP!QInv'
BY ONLY SameInvariant, PTL

(***************************************************************************)
(* And each action of the one is that of the other.                        *)
(***************************************************************************)
LEMMA SameSteps ==
    /\ Q!AddJob <=> QP!AddJob
    /\ Q!AddJobInline <=> QP!AddJobInline
    /\ Q!Complete <=> QP!Complete
    /\ Q!SpawnNextThread <=> QP!SpawnNextThread
    /\ Q!EmplaceThread <=> QP!EmplaceThread
    /\ Q!JoinFront <=> QP!JoinFront
    /\ Q!CommitJob <=> QP!CommitJob
    /\ Q!PopFront <=> QP!PopFront
    /\ Q!Drain <=> QP!Drain
    /\ \A t : Q!Prepare(t) <=> QP!Prepare(t)
<1>1. Q!AddJob <=> QP!AddJob
  BY ONLY TRUE DEF Q!AddJob, QP!AddJob
<1>2. Q!AddJobInline <=> QP!AddJobInline
  BY ONLY TRUE DEF Q!AddJobInline, QP!AddJobInline
<1>3. Q!Complete <=> QP!Complete
  BY ONLY TRUE DEF Q!Complete, QP!Complete
<1>4. Q!SpawnNextThread <=> QP!SpawnNextThread
  BY ONLY TRUE DEF Q!SpawnNextThread, QP!SpawnNextThread
<1>5. Q!EmplaceThread <=> QP!EmplaceThread
  BY ONLY TRUE DEF Q!EmplaceThread, QP!EmplaceThread
<1>6. Q!JoinFront <=> QP!JoinFront
  BY ONLY TRUE DEF Q!JoinFront, QP!JoinFront
<1>7. Q!CommitJob <=> QP!CommitJob
  BY ONLY TRUE DEF Q!CommitJob, QP!CommitJob
<1>8. Q!PopFront <=> QP!PopFront
  BY ONLY TRUE DEF Q!PopFront, QP!PopFront
<1>9. Q!Drain <=> QP!Drain
  BY ONLY TRUE DEF Q!Drain, QP!Drain
<1>10. \A t : Q!Prepare(t) <=> QP!Prepare(t)
  BY ONLY TRUE DEF Q!Prepare, QP!Prepare
<1> QED BY ONLY <1>1, <1>2, <1>3, <1>4, <1>5, <1>6, <1>7, <1>8, <1>9, <1>10

(***************************************************************************)
(* The invariant of the queue holds in the builder as well.                *)
(***************************************************************************)
LEMMA QueueInit == Q!QInit => Q!QInv
BY QueueAssumptions, SameInvariant, QP!InitInv DEF Q!QInit, QP!QInit

(***************************************************************************)
(* Every step of the builder's queue keeps the queue's invariant.          *)
(***************************************************************************)
LEMMA QueueNext ==
    ASSUME Q!QInv,
           \/ Q!AddJob \/ Q!AddJobInline \/ Q!Complete \/ Q!SpawnNextThread
           \/ Q!EmplaceThread \/ Q!JoinFront \/ Q!CommitJob \/ Q!PopFront \/ Q!Drain
           \/ \E t \in 1..MaxThreads : Q!Prepare(t)
           \/ UNCHANGED qvars
    PROVE  Q!QInv'
<1>1. [QP!QNext]_(QP!qvars)
  <2>1. UNCHANGED qvars => UNCHANGED QP!qvars
    BY DEF qvars, QP!qvars
  <2>2. (\E t \in 1..MaxThreads : Q!Prepare(t)) => (\E t \in 1..MaxThreads : QP!Prepare(t))
    BY SameSteps
  <2> QED BY <2>1, <2>2, SameSteps DEF QP!QNext, QP!MainStep
<1> QED BY <1>1, QueueAssumptions, SameInvariant, SameInvariantNext, QP!NextInv

(***************************************************************************)
(* commit() is called for the job after the last one committed, which is   *)
(* prepared.                                                               *)
(***************************************************************************)
LEMMA CommitFacts ==
    ASSUME Q!QInv, Q!CommitJob
    PROVE  /\ Head(running).jobs[Head(running).comm + 1] = Len(committed) + 1
           /\ Len(committed) \in Nat /\ Len(committed) + 1 \in 1..NumJobs
           /\ Len(committed) + 1 \in prepared
           /\ Len(committed') = Len(committed) + 1
           /\ prepared' = prepared /\ pc = "commit" /\ pc' = "commit"
<1> DEFINE x == Head(running).jobs[Head(running).comm + 1]
           m == Len(committed)
<1>1. QP!QInv /\ QP!CommitJob /\ Q!QInv'
  BY SameInvariant, SameSteps, QueueNext
<1>2. Q!QTypeOK /\ Q!QTypeOK' /\ Q!CommittedInOrder'
  BY <1>1 DEF Q!QInv
<1>3. QP!QTypeOK'
  BY <1>1, SameInvariantNext DEF QP!QInv
<1>4. Len(committed') = m + 1 /\ m + 1 \in prepared
  BY <1>1, <1>3, QueueAssumptions, QP!CommitJobInv
<1>5. committed' = Append(committed, x) /\ prepared' = prepared /\ pc = "commit" /\ pc' = pc
  BY DEF Q!CommitJob
<1>6. committed \in Seq(1..NumJobs) /\ prepared \subseteq 1..NumJobs
  BY <1>2 DEF Q!QTypeOK, Q!Jobs
<1>7. m \in Nat
  BY <1>6
<1>8. committed'[m + 1] = x
  BY <1>5, <1>6
<1>9. committed'[m + 1] = m + 1
  BY <1>2, <1>4, <1>7 DEF Q!CommittedInOrder
<1> QED BY <1>4, <1>5, <1>6, <1>7, <1>8, <1>9

(***************************************************************************)
(* A worker prepares a job that was not prepared before.                   *)
(***************************************************************************)
LEMMA PrepareFacts ==
    ASSUME Q!QInv, NEW t, Q!Prepare(t)
    PROVE  LET j == running[t].jobs[running[t].prep + 1]
           IN  /\ j \in 1..NumJobs /\ j \notin prepared
               /\ prepared' = prepared \cup {j}
               /\ UNCHANGED <<pc, committed>>
<1> DEFINE p == running[t].prep
           j == running[t].jobs[p + 1]
<1>1. /\ t \in 1..Len(running) /\ p < Len(running[t].jobs)
      /\ prepared' = prepared \cup {j} /\ UNCHANGED <<pc, committed>>
  BY DEF Q!Prepare
<1>2. running \in Seq(Q!Thread) /\ Q!PreparedTracked
  BY DEF Q!QInv, Q!QTypeOK
<1>3. running[t] \in Q!Thread
  BY <1>1, <1>2
<1>4. p \in Nat /\ running[t].jobs \in Seq(1..NumJobs)
  BY <1>3 DEF Q!Thread, Q!Jobs
<1>5. p + 1 \in 1..Len(running[t].jobs)
  BY <1>1, <1>4
<1>6. j \in 1..NumJobs
  <2> DEFINE b == running[t].jobs
  <2>1. b \in Seq(1..NumJobs) /\ p + 1 \in 1..Len(b)
    BY <1>4, <1>5
  <2> HIDE DEF b, p
  <2>2. b[p + 1] \in 1..NumJobs
    BY <2>1, ElementOfSeq
  <2> QED BY <2>2 DEF b
<1>7. j \in prepared <=> p + 1 <= p
  BY <1>1, <1>2, <1>5 DEF Q!PreparedTracked, Q!Threads, Q!Size, Q!NPrep
<1> QED BY <1>1, <1>4, <1>6, <1>7

(***************************************************************************)
(* Without worker threads every job is committed when the next one comes.  *)
(***************************************************************************)
LEMMA InlineFacts ==
    ASSUME Q!QInv, Q!AddJobInline
    PROVE  /\ Len(committed) = added /\ added \in Nat
           /\ added + 1 \in 1..NumJobs /\ added + 1 \notin prepared
           /\ prepared' = prepared \cup {added + 1}
           /\ Len(committed') = added + 1
           /\ pc = "idle" /\ pc' = "idle"
<1>1. /\ pc = "idle" /\ added < NumJobs /\ MaxThreads = 0 /\ pc' = pc
      /\ prepared' = prepared \cup {added + 1} /\ committed' = Append(committed, added + 1)
  BY DEF Q!AddJobInline
<1>2. /\ committed \in Seq(1..NumJobs) /\ added \in 0..NumJobs
      /\ Q!ControlConsistent /\ Q!DequeAnchored /\ Q!PreparedTracked
  BY DEF Q!QInv, Q!QTypeOK, Q!Jobs
<1>3. nextBatch = <<>> /\ running = <<>>
  BY <1>1, <1>2 DEF Q!ControlConsistent
<1>4. NumJobs \in Nat /\ added \in Nat
  BY <1>2, Constants
<1>5. Q!Batched = added
  BY <1>3, <1>4 DEF Q!Batched
<1>6. Len(committed) = added
  BY <1>2, <1>3, <1>5 DEF Q!DequeAnchored
<1>7. added + 1 \notin prepared
  BY <1>2, <1>4, <1>5 DEF Q!PreparedTracked
<1> QED BY <1>1, <1>2, <1>4, <1>6, <1>7

(***************************************************************************)
(* When complete() has returned every job is committed.                    *)
(***************************************************************************)
LEMMA DoneFacts ==
    ASSUME Q!QInv, pc = "done"
    PROVE  Len(committed) = NumJobs
<1>1. Q!ControlConsistent /\ Q!DequeAnchored
  BY DEF Q!QInv
<1>2. nextBatch = <<>> /\ running = <<>> /\ added = NumJobs
  BY <1>1 DEF Q!ControlConsistent
<1>3. Q!Batched = NumJobs
  BY <1>2, Constants DEF Q!Batched
<1> QED BY <1>1, <1>2, <1>3 DEF Q!DequeAnchored

-----------------------------------------------------------------------------
(* The invariant.                                                          *)

Size(j) == Len(Encoding[j])

\* A buffer holds the bytes of its list once it was prepared.
BuffersPrepared ==
    lists = [j \in 1..NumJobs |-> IF j \in prepared THEN Encoding[j] ELSE <<>>]

\* c lists were appended to the bytes: each begins at the endpoint before its
\* own and ends at its own.
Appended(c, bytes, endpoints) ==
    /\ bytes \in Seq(Byte) /\ endpoints \in Seq(Nat)
    /\ Len(endpoints) = c + 1
    /\ endpoints[1] = 0 /\ endpoints[c + 1] = Len(bytes)
    /\ \A j \in 1..c :
        /\ endpoints[j + 1] = endpoints[j] + Size(j)
        /\ endpoints[j + 1] <= Len(bytes)
        /\ \A b \in 1..Size(j) : bytes[endpoints[j] + b] = Encoding[j][b]

Inv ==
    /\ Q!QInv
    /\ cursor \in 0..NumInput
    /\ BuffersPrepared
    /\ index.built \in BOOLEAN
    /\ IF index.built
       THEN /\ pc = "done" /\ m_lists = <<>>
            /\ index.size = NumJobs
            /\ index.endpoints = SubSeq(m_endpoints, 1, NumJobs)
            /\ Appended(Len(committed), index.lists, m_endpoints)
       ELSE /\ index = NoIndex
            /\ Appended(Len(committed), m_lists, m_endpoints)

(***************************************************************************)
(* A list more is appended.                                                *)
(***************************************************************************)
LEMMA AppendList ==
    ASSUME NEW c \in Nat, c + 1 \in 1..NumJobs, NEW bytes, NEW endpoints,
           Appended(c, bytes, endpoints)
    PROVE  Appended(c + 1, bytes \o Encoding[c + 1],
                    Append(endpoints, Len(bytes \o Encoding[c + 1])))
<1> DEFINE e == Encoding[c + 1]
           after == bytes \o e
           ends == Append(endpoints, Len(after))
           m == Len(bytes)
           k == Len(e)
<1>1. /\ bytes \in Seq(Byte) /\ endpoints \in Seq(Nat) /\ Len(endpoints) = c + 1
      /\ endpoints[1] = 0 /\ endpoints[c + 1] = m /\ m \in Nat
      /\ \A j \in 1..c : /\ endpoints[j + 1] = endpoints[j] + Size(j)
                         /\ endpoints[j + 1] <= m
                         /\ \A b \in 1..Size(j) : bytes[endpoints[j] + b] = Encoding[j][b]
  BY DEF Appended
<1>2. e \in Seq(Byte) /\ k \in Nat
  BY EncodingFacts
<1>3. /\ after \in Seq(Byte) /\ Len(after) = m + k
      /\ \A b \in 1..m : after[b] = bytes[b]
      /\ \A b \in 1..k : after[m + b] = e[b]
  <2> HIDE DEF e
  <2> QED BY <1>1, <1>2
<1> HIDE DEF after, e, m, k
<1>4. /\ ends \in Seq(Nat) /\ Len(ends) = c + 2 /\ ends[c + 2] = m + k
      /\ \A j \in 1..(c + 1) : ends[j] = endpoints[j]
  BY <1>1, <1>2, <1>3
<1> HIDE DEF ends
<1>5. \A j \in 1..NumJobs : Size(j) \in Nat
  BY EncodingFacts DEF Size
<1>6. ASSUME NEW j \in 1..(c + 1)
      PROVE  /\ ends[j + 1] = ends[j] + Size(j)
             /\ ends[j + 1] <= m + k
             /\ \A b \in 1..Size(j) : after[ends[j] + b] = Encoding[j][b]
  <2>1. CASE j = c + 1
    <3>1. Size(j) = k /\ ends[j] = m /\ ends[j + 1] = m + k /\ Encoding[j] = e
      BY <1>1, <1>4, <2>1 DEF Size, e, k
    <3> QED BY <1>1, <1>2, <1>3, <3>1
  <2>2. CASE j # c + 1
    <3>1. j \in 1..c /\ j + 1 \in 1..(c + 1) /\ j \in 1..(c + 1)
      BY <2>2
    <3>2. ends[j] = endpoints[j] /\ ends[j + 1] = endpoints[j + 1]
      BY <1>4, <3>1
    <3>3. /\ endpoints[j + 1] = endpoints[j] + Size(j) /\ endpoints[j + 1] <= m
          /\ \A b \in 1..Size(j) : bytes[endpoints[j] + b] = Encoding[j][b]
          /\ endpoints[j] \in Nat /\ endpoints[j + 1] \in Nat
      BY <1>1, <3>1
    <3>4. Size(j) \in Nat
      BY <1>5, <3>1, Constants
    <3>5. ASSUME NEW b \in 1..Size(j)
          PROVE  after[endpoints[j] + b] = Encoding[j][b]
      <4>1. endpoints[j] + b \in 1..m
        BY <1>1, <3>3, <3>4
      <4> QED BY <1>3, <3>3, <4>1
    <3> QED BY <1>1, <1>2, <3>2, <3>3, <3>5
  <2> QED BY <2>1, <2>2
<1>7. ends[1] = 0 /\ (c + 1) + 1 = c + 2
  BY <1>1, <1>4
<1>8. Appended(c + 1, after, ends)
  BY <1>3, <1>4, <1>6, <1>7 DEF Appended
<1> QED BY <1>8 DEF after, ends, e

(***************************************************************************)
(* Every list ends behind where it begins, and before the bytes do.        *)
(***************************************************************************)
LEMMA EndpointsIncrease ==
    ASSUME NEW bytes, NEW endpoints, Appended(NumJobs, bytes, endpoints)
    PROVE  \A j \in 1..NumJobs : endpoints[j] < endpoints[j + 1] /\ endpoints[j] < Len(bytes)
<1> SUFFICES ASSUME NEW j \in 1..NumJobs
             PROVE  endpoints[j] < endpoints[j + 1] /\ endpoints[j] < Len(bytes)
  OBVIOUS
<1>1. /\ bytes \in Seq(Byte) /\ endpoints \in Seq(Nat) /\ Len(endpoints) = NumJobs + 1
      /\ endpoints[j + 1] = endpoints[j] + Size(j) /\ endpoints[j + 1] <= Len(bytes)
  BY DEF Appended
<1>2. Size(j) \in Nat \ {0}
  BY EncodingFacts DEF Size
<1>3. endpoints[j] \in Nat /\ Len(bytes) \in Nat
  BY <1>1, Constants
<1> QED BY <1>1, <1>2, <1>3

-----------------------------------------------------------------------------
(* The steps.                                                              *)

(***************************************************************************)
(* The invariant holds before the first step.                              *)
(***************************************************************************)
LEMMA InvInit == Init => Inv
<1> SUFFICES ASSUME Init PROVE Inv
  OBVIOUS
<1>1. /\ Q!QInit /\ cursor = 0 /\ lists = [j \in 1..NumJobs |-> <<>>]
      /\ m_lists = <<>> /\ m_endpoints = <<0>> /\ index = NoIndex
  BY DEF Init
<1>2. prepared = {} /\ committed = <<>>
  BY <1>1 DEF Q!QInit
<1>3. BuffersPrepared
  BY <1>1, <1>2 DEF BuffersPrepared
<1>4. Appended(0, <<>>, <<0>>)
  BY DEF Appended
<1>5. Len(committed) = 0
  BY <1>2
<1> QED BY <1>1, <1>3, <1>4, <1>5, QueueInit, Constants DEF Inv, NoIndex

(***************************************************************************)
(* Before the index is built, while the queue does nothing to a buffer.    *)
(***************************************************************************)
LEMMA QuietStep ==
    ASSUME Inv, pc # "done", Q!QInv', cursor' \in 0..NumInput,
           UNCHANGED <<prepared, committed, lists, m_lists, m_endpoints, index>>
    PROVE  Inv'
<1>1. ~index.built /\ index = NoIndex /\ Appended(Len(committed), m_lists, m_endpoints)
      /\ BuffersPrepared
  BY DEF Inv
<1>2. BuffersPrepared'
  BY <1>1 DEF BuffersPrepared
<1> QED BY <1>1, <1>2 DEF Inv, NoIndex

(***************************************************************************)
(* Committing a list appends what its worker prepared, behind the lists    *)
(* that were committed before it.                                          *)
(***************************************************************************)
LEMMA CommitListInv ==
    ASSUME Inv, CommitList
    PROVE  /\ Inv' /\ ~index.built
           /\ Len(m_endpoints) <= NumJobs
           /\ m_lists' = m_lists \o Encoding[Len(m_endpoints)]
           /\ m_endpoints' = Append(m_endpoints, Len(m_lists'))
<1> DEFINE j == Head(running).jobs[Head(running).comm + 1]
           c == Len(committed)
<1>1. /\ Q!QInv /\ Q!CommitJob /\ BuffersPrepared
      /\ UNCHANGED <<cursor, lists, index>>
      /\ m_lists' = m_lists \o lists[j] /\ m_endpoints' = Append(m_endpoints, Len(m_lists'))
  BY DEF Inv, CommitList, CommitEffect
<1>2. /\ j = c + 1 /\ c \in Nat /\ c + 1 \in 1..NumJobs /\ c + 1 \in prepared
      /\ Len(committed') = c + 1 /\ prepared' = prepared /\ pc = "commit" /\ pc' = "commit"
  BY <1>1, CommitFacts
<1>3. ~index.built /\ index = NoIndex /\ Appended(c, m_lists, m_endpoints)
  BY <1>2 DEF Inv
<1> HIDE DEF j, c
<1>4. lists[j] = Encoding[c + 1] /\ Len(m_endpoints) = c + 1
  BY <1>1, <1>2, <1>3 DEF BuffersPrepared, Appended
<1>5. Appended(c + 1, m_lists', m_endpoints')
  BY <1>1, <1>2, <1>3, <1>4, AppendList
<1>6. Q!QInv'
  BY <1>1, QueueNext
<1>7. BuffersPrepared'
  BY <1>1, <1>2 DEF BuffersPrepared
<1>8. cursor' \in 0..NumInput
  BY <1>1 DEF Inv
<1>9. Inv'
  BY <1>1, <1>2, <1>3, <1>5, <1>6, <1>7, <1>8 DEF Inv, NoIndex
<1>10. Len(m_endpoints) <= NumJobs
  BY <1>2, <1>4, Constants
<1> QED BY <1>1, <1>3, <1>4, <1>9, <1>10

(***************************************************************************)
(* Without threads a list is prepared and committed in the call that adds  *)
(* it.                                                                     *)
(***************************************************************************)
LEMMA AddPostingListInlineInv ==
    ASSUME Inv, AddPostingListInline
    PROVE  /\ Inv' /\ ~index.built
           /\ Len(m_endpoints) <= NumJobs
           /\ m_lists' = m_lists \o Encoding[Len(m_endpoints)]
           /\ m_endpoints' = Append(m_endpoints, Len(m_lists'))
<1> DEFINE c == Len(committed)
<1>1. /\ Q!QInv /\ Q!AddJobInline /\ BuffersPrepared
      /\ cursor < NumInput /\ cursor' = cursor + 1 /\ UNCHANGED index
      /\ lists' = [lists EXCEPT ![added + 1] = Encoding[added + 1]]
      /\ m_lists' = m_lists \o Encoding[added + 1]
      /\ m_endpoints' = Append(m_endpoints, Len(m_lists'))
  BY DEF Inv, AddPostingListInline, CommitEffect
<1>2. /\ c = added /\ added \in Nat /\ added + 1 \in 1..NumJobs
      /\ prepared' = prepared \cup {added + 1} /\ Len(committed') = added + 1
      /\ pc = "idle" /\ pc' = "idle"
  BY <1>1, InlineFacts
<1>3. ~index.built /\ index = NoIndex /\ Appended(c, m_lists, m_endpoints)
  BY <1>2 DEF Inv
<1> HIDE DEF c
<1>4. Len(m_endpoints) = added + 1
  BY <1>2, <1>3 DEF Appended
<1>5. Appended(added + 1, m_lists', m_endpoints')
  BY <1>1, <1>2, <1>3, AppendList
<1>6. Q!QInv'
  BY <1>1, QueueNext
<1>7. BuffersPrepared'
  <2>1. \A i \in 1..NumJobs : i \in prepared' <=> i \in prepared \/ i = added + 1
    BY <1>2
  <2> QED BY <1>1, <1>2, <2>1 DEF BuffersPrepared
<1>8. cursor' \in 0..NumInput
  BY <1>1, Constants DEF Inv
<1>9. Inv'
  BY <1>1, <1>2, <1>3, <1>5, <1>6, <1>7, <1>8 DEF Inv, NoIndex
<1>10. Len(m_endpoints) <= NumJobs
  BY <1>2, <1>4, Constants
<1> QED BY <1>1, <1>3, <1>4, <1>9, <1>10

(***************************************************************************)
(* build() finds all lists committed and freezes them.                     *)
(***************************************************************************)
LEMMA FillIndexInv ==
    ASSUME Inv, FillIndex
    PROVE  Inv' /\ Len(m_endpoints) = NumJobs + 1
<1>1. /\ Q!QInv /\ BuffersPrepared /\ pc = "done" /\ ~index.built
      /\ Appended(Len(committed), m_lists, m_endpoints) /\ cursor \in 0..NumInput
  BY DEF Inv, FillIndex
<1>2. Len(committed) = NumJobs /\ NumJobs \in Nat
  BY <1>1, DoneFacts, Constants
<1>3. Len(m_endpoints) = NumJobs + 1 /\ Len(m_endpoints) - 1 = NumJobs
  BY <1>1, <1>2 DEF Appended
<1>4. /\ index' = [built |-> TRUE, size |-> NumJobs, lists |-> m_lists,
                   endpoints |-> SubSeq(m_endpoints, 1, NumJobs)]
      /\ m_lists' = <<>>
      /\ UNCHANGED <<qvars, cursor, lists, m_endpoints>>
  BY <1>3 DEF FillIndex
<1>5. UNCHANGED <<pc, prepared, committed>> /\ Q!QInv'
  BY <1>1, <1>4, QueueNext DEF qvars
<1>6. BuffersPrepared'
  BY <1>1, <1>4, <1>5 DEF BuffersPrepared
<1> QED BY <1>1, <1>3, <1>4, <1>5, <1>6 DEF Inv

(***************************************************************************)
(* What a worker prepares is not read before it is committed.              *)
(***************************************************************************)
LEMMA PrepareListInv ==
    ASSUME Inv, NEW t \in 1..MaxThreads, PrepareList(t)
    PROVE  Inv' /\ UNCHANGED <<m_lists, m_endpoints, index>>
<1> DEFINE j == running[t].jobs[running[t].prep + 1]
<1>1. /\ Q!QInv /\ Q!Prepare(t) /\ BuffersPrepared
      /\ lists' = [lists EXCEPT ![j] = @ \o Encoding[j]]
      /\ UNCHANGED <<cursor, m_lists, m_endpoints, index>>
  BY DEF Inv, PrepareList
<1>2. /\ j \in 1..NumJobs /\ j \notin prepared /\ prepared' = prepared \cup {j}
      /\ UNCHANGED <<pc, committed>>
  BY <1>1, PrepareFacts
<1> HIDE DEF j
<1>3. Q!QInv'
  BY <1>1, QueueNext
<1>4. BuffersPrepared'
  <2>1. lists[j] = <<>>
    BY <1>1, <1>2 DEF BuffersPrepared
  <2>2. lists[j] \o Encoding[j] = Encoding[j]
    BY <1>2, <2>1, EncodingFacts
  <2>3. \A i \in 1..NumJobs : i \in prepared' <=> i \in prepared \/ i = j
    BY <1>2
  <2> QED BY <1>1, <1>2, <2>2, <2>3 DEF BuffersPrepared
<1> QED BY <1>1, <1>2, <1>3, <1>4 DEF Inv

(***************************************************************************)
(* Every step keeps the invariant, and is a step of the single-threaded    *)
(* builder or changes nothing that it has.                                 *)
(***************************************************************************)
LEMMA InvStep ==
    ASSUME Inv, [Next]_vars
    PROVE  Inv' /\ [Sequential!SNext]_(Sequential!svars)
<1>1. Q!QInv /\ cursor \in 0..NumInput /\ NumInput \in Nat
  BY Constants DEF Inv
<1>2. CASE SkipList
  <2>1. UNCHANGED qvars /\ pc = "idle"
        /\ UNCHANGED <<prepared, committed, lists, m_lists, m_endpoints, index>>
    BY <1>2 DEF SkipList, qvars
  <2>2. Q!QInv' /\ cursor' \in 0..NumInput
    BY <1>1, <1>2, <2>1, QueueNext DEF SkipList
  <2> QED BY <2>1, <2>2, QuietStep DEF Sequential!svars
<1>3. CASE AddPostingList
  <2>1. Q!AddJob /\ pc = "idle"
        /\ UNCHANGED <<prepared, committed, lists, m_lists, m_endpoints, index>>
    BY <1>3 DEF AddPostingList, Q!AddJob
  <2>2. Q!QInv' /\ cursor' \in 0..NumInput
    BY <1>1, <1>3, <2>1, QueueNext DEF AddPostingList
  <2> QED BY <2>1, <2>2, QuietStep DEF Sequential!svars
<1>4. CASE BuildComplete
  <2>1. Q!Complete /\ pc = "idle"
        /\ UNCHANGED <<prepared, committed, cursor, lists, m_lists, m_endpoints, index>>
    BY <1>4 DEF BuildComplete, Q!Complete
  <2>2. Q!QInv' /\ cursor' \in 0..NumInput
    BY <1>1, <2>1, QueueNext
  <2> QED BY <2>1, <2>2, QuietStep DEF Sequential!svars
<1>5. CASE QueueStep
  <2>1. /\ Q!SpawnNextThread \/ Q!EmplaceThread \/ Q!JoinFront \/ Q!PopFront \/ Q!Drain
        /\ UNCHANGED <<cursor, lists, m_lists, m_endpoints, index>>
    BY <1>5 DEF QueueStep
  <2>2. pc # "done" /\ UNCHANGED <<prepared, committed>>
    BY <2>1 DEF Q!SpawnNextThread, Q!EmplaceThread, Q!JoinFront, Q!PopFront, Q!Drain
  <2>3. Q!QInv' /\ cursor' \in 0..NumInput
    BY <1>1, <2>1, QueueNext
  <2> QED BY <2>1, <2>2, <2>3, QuietStep DEF Sequential!svars
<1>6. CASE CommitList
  <2>1. UNCHANGED index
    BY <1>6 DEF CommitList
  <2> QED BY <1>6, <2>1, CommitListInv DEF Sequential!SNext, Sequential!SAddPostingList
<1>7. CASE AddPostingListInline
  <2>1. UNCHANGED index
    BY <1>7 DEF AddPostingListInline
  <2> QED BY <1>7, <2>1, AddPostingListInlineInv
          DEF Sequential!SNext, Sequential!SAddPostingList
<1>8. CASE FillIndex
  <2>1. Inv' /\ Len(m_endpoints) = NumJobs + 1 /\ NumJobs \in Nat
    BY <1>8, FillIndexInv, Constants
  <2>2. Len(m_endpoints) - 1 = NumJobs
    BY <2>1
  <2> QED BY <1>8, <2>1, <2>2 DEF FillIndex, Sequential!SNext, Sequential!SBuild
<1>9. ASSUME NEW t \in 1..MaxThreads, PrepareList(t)
      PROVE  Inv' /\ [Sequential!SNext]_(Sequential!svars)
  BY <1>9, PrepareListInv DEF Sequential!svars
<1>10. CASE UNCHANGED vars
  <2>1. UNCHANGED qvars
        /\ UNCHANGED <<pc, prepared, committed, cursor, lists, m_lists, m_endpoints, index>>
    BY <1>10 DEF vars, qvars
  <2>2. Q!QInv'
    BY <1>1, <2>1, QueueNext
  <2>3. BuffersPrepared'
    BY <2>1 DEF Inv, BuffersPrepared
  <2> QED BY <2>1, <2>2, <2>3 DEF Inv, Sequential!svars
<1> QED BY <1>2, <1>3, <1>4, <1>5, <1>6, <1>7, <1>8, <1>9, <1>10
        DEF Next, MainStep, Terminated

(***************************************************************************)
(* The invariant holds in every reachable state.                           *)
(***************************************************************************)
LEMMA InvAlways == Spec => []Inv
<1>1. Inv /\ [Next]_vars => Inv'
  BY InvStep
<1> QED BY <1>1, InvInit, PTL DEF Spec

-----------------------------------------------------------------------------
(* The theorems.                                                           *)

(***************************************************************************)
(* The variables of the builder keep their types.                          *)
(***************************************************************************)
THEOREM TypeCorrect == Spec => []TypeOK
<1>1. Inv => TypeOK
  <2> SUFFICES ASSUME Inv PROVE TypeOK
    OBVIOUS
  <2>1. Q!QTypeOK /\ cursor \in 0..NumInput /\ index.built \in BOOLEAN
    BY DEF Inv, Q!QInv
  <2>2. lists \in [1..NumJobs -> Seq(Byte)]
    <3>1. \A j \in 1..NumJobs : Encoding[j] \in Seq(Byte)
      BY EncodingFacts
    <3> QED BY <3>1 DEF Inv, BuffersPrepared
  <2>3. m_lists \in Seq(Byte) /\ m_endpoints \in Seq(Nat)
    <3>1. <<>> \in Seq(Byte)
      OBVIOUS
    <3> QED BY <3>1 DEF Inv, Appended
  <2> QED BY <2>1, <2>2, <2>3 DEF TypeOK, Byte
<1> QED BY <1>1, InvAlways, PTL

(***************************************************************************)
(* With any number of worker threads the builder makes the index that the  *)
(* single-threaded builder makes, step for step.                           *)
(***************************************************************************)
THEOREM BuilderRefinesSequential == Spec => RefinesSequentialBuilder
<1>1. Init => Sequential!SInit
  BY DEF Init, Sequential!SInit, NoIndex, Sequential!NoIndex
<1>2. Inv /\ [Next]_vars => [Sequential!SNext]_(Sequential!svars)
  BY InvStep
<1>3. Spec => Sequential!SSpec
  BY <1>1, <1>2, InvAlways, PTL DEF Spec, Sequential!SSpec
<1> QED BY <1>3 DEF RefinesSequentialBuilder

(***************************************************************************)
(* What is known of an index that was built.                               *)
(***************************************************************************)
LEMMA IndexFacts ==
    ASSUME Inv, index.built
    PROVE  /\ index.size = NumJobs /\ NumJobs \in Nat
           /\ Appended(NumJobs, index.lists, m_endpoints)
           /\ Len(index.endpoints) = NumJobs
           /\ \A i \in 1..NumJobs : index.endpoints[i] = m_endpoints[i]
<1>1. Q!QInv /\ pc = "done"
  BY DEF Inv
<1>2. Len(committed) = NumJobs /\ NumJobs \in Nat
  BY <1>1, DoneFacts, Constants
<1>3. /\ index.size = NumJobs /\ index.endpoints = SubSeq(m_endpoints, 1, NumJobs)
      /\ Appended(NumJobs, index.lists, m_endpoints)
  BY <1>2 DEF Inv
<1>4. m_endpoints \in Seq(Nat) /\ Len(m_endpoints) = NumJobs + 1
  BY <1>3 DEF Appended
<1>5. \A i \in 1..NumJobs : m_endpoints[i] \in Nat
  BY <1>2, <1>4
<1>6. /\ Len(SubSeq(m_endpoints, 1, NumJobs)) = NumJobs
      /\ \A i \in 1..NumJobs : SubSeq(m_endpoints, 1, NumJobs)[i] = m_endpoints[i]
  BY <1>2, <1>5, SubSeqProperties
<1> QED BY <1>2, <1>3, <1>6

(***************************************************************************)
(* compact_elias_fano can encode the endpoints build() gives it.           *)
(***************************************************************************)
THEOREM EndpointsAlwaysEncodable == Spec => []EndpointsEncodable
<1>1. Inv => EndpointsEncodable
  <2> SUFFICES ASSUME Inv, index.built
               PROVE  /\ Len(index.endpoints) = index.size
                      /\ \A i \in 1..Len(index.endpoints) : index.endpoints[i] < Len(index.lists)
                      /\ \A i \in 2..Len(index.endpoints) :
                            index.endpoints[i - 1] <= index.endpoints[i]
    BY DEF EndpointsEncodable
  <2> DEFINE ends == index.endpoints
             bytes == index.lists
  <2>1. /\ index.size = NumJobs /\ NumJobs \in Nat
        /\ Appended(NumJobs, bytes, m_endpoints)
        /\ Len(ends) = NumJobs
        /\ \A i \in 1..NumJobs : ends[i] = m_endpoints[i]
    BY IndexFacts
  <2> HIDE DEF ends, bytes
  <2>2. \A j \in 1..NumJobs : m_endpoints[j] < m_endpoints[j + 1] /\ m_endpoints[j] < Len(bytes)
    BY <2>1, EndpointsIncrease
  <2>3. ASSUME NEW i \in 2..NumJobs PROVE ends[i - 1] <= ends[i]
    <3>1. i - 1 \in 1..NumJobs /\ i \in 1..NumJobs /\ (i - 1) + 1 = i
      BY <2>1
    <3>2. m_endpoints[i - 1] < m_endpoints[i]
      BY <2>2, <3>1
    <3>3. m_endpoints[i - 1] \in Nat /\ m_endpoints[i] \in Nat
      BY <2>1, <3>1 DEF Appended
    <3> QED BY <2>1, <3>1, <3>2, <3>3
  <2>4. /\ Len(ends) = index.size
        /\ \A i \in 1..Len(ends) : ends[i] < Len(bytes)
        /\ \A i \in 2..Len(ends) : ends[i - 1] <= ends[i]
    BY <2>1, <2>2, <2>3
  <2> QED BY <2>4 DEF ends, bytes
<1> QED BY <1>1, InvAlways, PTL

(***************************************************************************)
(* With min_size 0, as in util.hpp, no list is left out but an empty one   *)
(* at the end: the j-th list accepted is the j-th of the collection.       *)
(***************************************************************************)
LEMMA AllAccepted ==
    ASSUME MinSize = 0, NEW j \in 1..NumJobs
    PROVE  Accepted[j] = j
<1> DEFINE i == Accepted[j]
           below == {k \in AcceptedLists : k <= i}
<1>1. NumInput \in Nat /\ AcceptedLists \subseteq 1..NumInput /\ NumJobs \in Nat
  BY Constants
<1>2. i \in AcceptedLists /\ Cardinality(below) = j
  BY AcceptedFacts DEF AcceptedUpTo
<1>3. i \in 1..NumInput
  BY <1>1, <1>2
<1> HIDE DEF i
<1>4. ASSUME NEW k \in 1..i PROVE k \in AcceptedLists
  <2>1. CASE k = i
    BY <1>2, <2>1
  <2>2. CASE k # i
    <3>1. k \in 1..(NumInput - 1) /\ k \in 1..NumInput
      BY <1>1, <1>3, <2>2
    <3>2. ListSize[k] > 0
      BY <3>1, ListSizeAssumption
    <3> QED BY <3>1, <3>2 DEF AcceptedLists, LongEnough
  <2> QED BY <2>1, <2>2
<1>5. below = 1..i
  <2>1. \A k \in AcceptedLists : k \in Int /\ k >= 1
    BY <1>1
  <2> QED BY <1>3, <1>4, <2>1
<1>6. Cardinality(1..i) = i
  BY <1>3, FS_Interval
<1> QED BY <1>2, <1>5, <1>6 DEF i

(***************************************************************************)
(* The bytes of a list are found in the index at the position that the     *)
(* list has in the collection: queries and wand_data rely on it.           *)
(***************************************************************************)
THEOREM PositionsAlwaysMatch ==
    ASSUME MinSize = 0
    PROVE  Spec => []PositionsMatchCollection
<1>1. Inv => PositionsMatchCollection
  <2> SUFFICES ASSUME Inv, index.built, NEW s \in 0..(index.size - 1)
               PROVE  SubSeq(index.lists, ListBegin(s) + 1, ListBegin(s) + ListBytes[s + 1])
                        = [b \in 1..ListBytes[s + 1] |-> <<s + 1, b>>]
    BY DEF PositionsMatchCollection
  <2> DEFINE bytes == index.lists
             j == s + 1
             begin == ListBegin(s)
             size == ListBytes[j]
             list == SubSeq(bytes, begin + 1, begin + size)
  <2>1. /\ index.size = NumJobs /\ NumJobs \in Nat
        /\ Appended(NumJobs, bytes, m_endpoints)
        /\ \A i \in 1..NumJobs : index.endpoints[i] = m_endpoints[i]
    BY IndexFacts
  <2>2. j \in 1..NumJobs
    BY <2>1
  <2>3. begin = m_endpoints[j]
    BY <2>1, <2>2 DEF ListBegin
  <2>4. Accepted[j] = j
    BY <2>2, AllAccepted
  <2>5. Size(j) = size /\ size \in Nat \ {0}
        /\ \A b \in 1..size : Encoding[j][b] = <<j, b>>
    BY <2>2, <2>4, EncodingFacts DEF Size
  <2> HIDE DEF bytes, j, begin, size
  <2>6. /\ bytes \in Seq(Byte) /\ begin \in Nat /\ begin + size <= Len(bytes)
        /\ \A b \in 1..size : bytes[begin + b] = <<j, b>>
    <3>1. /\ bytes \in Seq(Byte) /\ m_endpoints \in Seq(Nat)
          /\ Len(m_endpoints) = NumJobs + 1
          /\ m_endpoints[j + 1] = m_endpoints[j] + Size(j)
          /\ m_endpoints[j + 1] <= Len(bytes)
          /\ \A b \in 1..Size(j) : bytes[m_endpoints[j] + b] = Encoding[j][b]
      BY <2>1, <2>2 DEF Appended
    <3>2. m_endpoints[j] \in Nat
      BY <2>1, <2>2, <3>1
    <3> QED BY <2>3, <2>5, <3>1, <3>2
  <2>7. /\ list \in Seq(Byte) /\ Len(list) = size
        /\ \A b \in 1..size : list[b] = bytes[begin + b]
    <3> DEFINE a == begin + 1
               z == begin + size
    <3>1. /\ a \in Int /\ z \in Int /\ a <= z /\ z - a + 1 = size
          /\ \A i \in a..z : i \in 1..Len(bytes)
          /\ \A b \in 1..size : a + b - 1 = begin + b
      BY <2>5, <2>6
    <3>2. \A i \in a..z : bytes[i] \in Byte
      BY <2>6, <3>1
    <3> HIDE DEF a, z
    <3>3. /\ SubSeq(bytes, a, z) \in Seq(Byte) /\ Len(SubSeq(bytes, a, z)) = z - a + 1
          /\ \A b \in 1..(z - a + 1) : SubSeq(bytes, a, z)[b] = bytes[a + b - 1]
      BY <3>1, <3>2, SubSeqProperties
    <3>4. SubSeq(bytes, a, z) = list
      BY DEF a, z
    <3> HIDE DEF list
    <3> QED BY <3>1, <3>3, <3>4
  <2> HIDE DEF list
  <2>8. list = [b \in 1..size |-> <<j, b>>]
    <3>1. \A b \in 1..size : list[b] = <<j, b>>
      BY <2>6, <2>7
    <3>2. list = [b \in 1..size |-> list[b]]
      BY <2>5, <2>7
    <3> QED BY <3>1, <3>2, Zenon
  <2> QED BY <2>8 DEF list, bytes, begin, size, j
<1> QED BY <1>1, InvAlways, PTL
=============================================================================
