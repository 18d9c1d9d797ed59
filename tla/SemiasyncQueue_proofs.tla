------------------------ MODULE SemiasyncQueue_proofs ------------------------
(***************************************************************************)
(* Proofs about SemiasyncQueue, for every number of jobs, every weight of  *)
(* the jobs and every number of threads.                                   *)
(***************************************************************************)
EXTENDS SemiasyncQueue, SequenceTheorems, WellFoundedInduction, TLAPS

(***************************************************************************)
(* The fields of the thread at some place of the deque.                    *)
(***************************************************************************)
LEMMA ThreadFields ==
    ASSUME QTypeOK, NEW t \in 1..Len(running)
    PROVE  /\ running[t] \in Thread
           /\ running[t].jobs \in Seq(Jobs)
           /\ Len(running[t].jobs) \in Nat
           /\ running[t].prep \in Nat
           /\ running[t].comm \in Nat
           /\ \A i \in 1..Len(running[t].jobs) : running[t].jobs[i] \in Jobs
<1>1. running \in Seq(Thread)
  BY DEF QTypeOK
<1>2. running[t] \in Thread
  BY <1>1
<1> QED BY <1>2 DEF Thread

(***************************************************************************)
(* What commit() of one job does to the deque: only the first thread's     *)
(* count of committed jobs changes.                                        *)
(***************************************************************************)
LEMMA CommitJobEffect ==
    ASSUME QTypeOK, running # <<>>, CommitJob
    PROVE  /\ 1 \in 1..Len(running)
           /\ running[1].comm < Len(running[1].jobs)
           /\ running[1].jobs[running[1].comm + 1] \in Jobs
           /\ committed' = Append(committed, running[1].jobs[running[1].comm + 1])
           /\ committed' \in Seq(Jobs)
           /\ running' \in Seq(Thread)
           /\ Len(running') = Len(running)
           /\ \A t \in 1..Len(running) :
                /\ running'[t].jobs = running[t].jobs
                /\ running'[t].prep = running[t].prep
                /\ running'[t].comm = IF t = 1 THEN running[t].comm + 1 ELSE running[t].comm
<1>1. running \in Seq(Thread)
  BY DEF QTypeOK
<1>2. 1 \in 1..Len(running) /\ Head(running) = running[1]
  BY <1>1
<1> DEFINE th == [running[1] EXCEPT !.comm = @ + 1]
<1>3. /\ running[1].comm < Len(running[1].jobs)
      /\ committed' = Append(committed, running[1].jobs[running[1].comm + 1])
      /\ running' = [running EXCEPT ![1] = th]
  BY <1>2 DEF CommitJob
<1>4. th \in Thread
  BY <1>2, ThreadFields DEF Thread
<1>5. running[1].jobs[running[1].comm + 1] \in Jobs
  <2>1. running[1].comm + 1 \in 1..Len(running[1].jobs)
    BY <1>2, <1>3, ThreadFields
  <2> QED BY <1>2, <2>1, ThreadFields
<1>6. /\ running' \in Seq(Thread)
      /\ Len(running') = Len(running)
      /\ \A t \in 1..Len(running) : running'[t] = IF t = 1 THEN th ELSE running[t]
  BY <1>1, <1>2, <1>3, <1>4, ExceptSeq
<1>7. th.jobs = running[1].jobs /\ th.prep = running[1].prep /\ th.comm = running[1].comm + 1
  BY <1>2, ThreadFields DEF Thread
<1>8. committed' \in Seq(Jobs)
  BY <1>3, <1>5 DEF QTypeOK
<1> QED BY <1>2, <1>3, <1>5, <1>6, <1>7, <1>8

(***************************************************************************)
(* What prepare() of one job does to the deque.                            *)
(***************************************************************************)
LEMMA PrepareEffect ==
    ASSUME QTypeOK, NEW t \in 1..MaxThreads, Prepare(t)
    PROVE  /\ t \in 1..Len(running)
           /\ running[t].prep < Len(running[t].jobs)
           /\ running[t].jobs[running[t].prep + 1] \in Jobs
           /\ running' \in Seq(Thread)
           /\ Len(running') = Len(running)
           /\ \A u \in 1..Len(running) :
                /\ running'[u].jobs = running[u].jobs
                /\ running'[u].comm = running[u].comm
                /\ running'[u].prep = IF u = t THEN running[u].prep + 1 ELSE running[u].prep
<1>1. running \in Seq(Thread)
  BY DEF QTypeOK
<1> DEFINE th == [running[t] EXCEPT !.prep = @ + 1]
<1>2. /\ t \in 1..Len(running)
      /\ running[t].prep < Len(running[t].jobs)
      /\ running' = [running EXCEPT ![t] = th]
  BY DEF Prepare
<1>3. th \in Thread
  BY <1>2, ThreadFields DEF Thread
<1>4. running[t].jobs[running[t].prep + 1] \in Jobs
  <2>1. running[t].prep + 1 \in 1..Len(running[t].jobs)
    BY <1>2, ThreadFields
  <2> QED BY <1>2, <2>1, ThreadFields
<1>5. /\ running' \in Seq(Thread)
      /\ Len(running') = Len(running)
      /\ \A u \in 1..Len(running) : running'[u] = IF u = t THEN th ELSE running[u]
  BY <1>1, <1>2, <1>3, ExceptSeq
<1>6. th.jobs = running[t].jobs /\ th.comm = running[t].comm /\ th.prep = running[t].prep + 1
  BY <1>2, ThreadFields DEF Thread
<1> QED BY <1>2, <1>4, <1>5, <1>6

(***************************************************************************)
(* What starting a thread does to the deque.                               *)
(***************************************************************************)
LEMMA EmplaceEffect ==
    ASSUME QTypeOK, EmplaceThread
    PROVE  LET n == Len(running) IN
           /\ n \in Nat
           /\ running' \in Seq(Thread)
           /\ Len(running') = n + 1
           /\ \A t \in 1..n : running'[t] = running[t]
           /\ running'[n + 1].jobs = nextBatch
           /\ running'[n + 1].prep = 0
           /\ running'[n + 1].comm = 0
<1> DEFINE th == [jobs |-> nextBatch, prep |-> 0, comm |-> 0]
<1>1. running \in Seq(Thread) /\ running' = Append(running, th)
  BY DEF QTypeOK, EmplaceThread
<1>2. th \in Thread
  BY DEF QTypeOK, Thread
<1>3. /\ Len(running) \in Nat
      /\ running' \in Seq(Thread)
      /\ Len(running') = Len(running) + 1
      /\ \A t \in 1..Len(running) : running'[t] = running[t]
      /\ running'[Len(running) + 1] = th
  BY <1>1, <1>2
<1> QED BY <1>3

(***************************************************************************)
(* What pop_front does to the deque.                                       *)
(***************************************************************************)
LEMMA PopFrontEffect ==
    ASSUME QTypeOK, running # <<>>, PopFront
    PROVE  /\ 1 \in 1..Len(running)
           /\ running[1].comm = Len(running[1].jobs)
           /\ running' \in Seq(Thread)
           /\ Len(running') = Len(running) - 1
           /\ \A t \in 1..Len(running') : t + 1 \in 1..Len(running) /\ running'[t] = running[t + 1]
<1>1. running \in Seq(Thread) /\ running' = Tail(running)
  BY DEF QTypeOK, PopFront
<1>2. 1 \in 1..Len(running) /\ Head(running) = running[1]
  BY <1>1
<1>3. /\ running' \in Seq(Thread)
      /\ Len(running') = Len(running) - 1
      /\ \A t \in 1..Len(running') : running'[t] = running[t + 1]
  BY <1>1, HeadTailProperties
<1>4. running[1].comm = Len(running[1].jobs)
  BY <1>2 DEF PopFront
<1> QED BY <1>1, <1>2, <1>3, <1>4

(***************************************************************************)
(* Every step of the queue leaves its variables well typed, provided the   *)
(* main thread only commits when a thread is running.                      *)
(***************************************************************************)
LEMMA TypeStep ==
    ASSUME QTypeOK, pc = "commit" => running # <<>>, QNext
    PROVE  QTypeOK'
<1>1. CASE AddJob
  <2>1. added + 1 \in Jobs /\ Work[added + 1] \in Nat /\ added + 1 \in 0..NumJobs
    BY <1>1, NumJobsAssumption, WorkAssumption DEF AddJob, QTypeOK, Jobs
  <2> QED BY <1>1, <2>1 DEF AddJob, QTypeOK, PcValues
<1>2. CASE AddJobInline
  <2>1. added + 1 \in Jobs /\ added + 1 \in 0..NumJobs
    BY <1>2, NumJobsAssumption DEF AddJobInline, QTypeOK, Jobs
  <2> QED BY <1>2, <2>1 DEF AddJobInline, QTypeOK
<1>3. CASE Complete
  BY <1>3 DEF Complete, QTypeOK, PcValues
<1>4. CASE SpawnNextThread
  BY <1>4 DEF SpawnNextThread, QTypeOK, PcValues
<1>5. CASE EmplaceThread
  BY <1>5, EmplaceEffect DEF EmplaceThread, QTypeOK, PcValues
<1>6. CASE JoinFront
  BY <1>6 DEF JoinFront, QTypeOK, PcValues
<1>7. CASE CommitJob
  <2>1. running # <<>>
    BY <1>7 DEF CommitJob
  <2>2. running' \in Seq(Thread) /\ committed' \in Seq(Jobs)
    BY <1>7, <2>1, CommitJobEffect
  <2>3. UNCHANGED <<pc, completing, added, nextBatch, expected, prepared>>
    BY <1>7 DEF CommitJob
  <2> QED BY <2>2, <2>3 DEF QTypeOK
<1>8. CASE PopFront
  <2>1. running # <<>>
    BY <1>8 DEF PopFront
  <2> QED BY <1>8, <2>1, PopFrontEffect DEF PopFront, QTypeOK, PcValues
<1>9. CASE Drain
  BY <1>9 DEF Drain, QTypeOK, PcValues
<1>10. ASSUME NEW t \in 1..MaxThreads, Prepare(t)
       PROVE  QTypeOK'
  BY <1>10, PrepareEffect DEF Prepare, QTypeOK
<1>11. CASE Terminated
  BY <1>11 DEF Terminated, qvars, QTypeOK
<1> QED BY <1>1, <1>2, <1>3, <1>4, <1>5, <1>6, <1>7, <1>8, <1>9, <1>10, <1>11
        DEF QNext, MainStep

-----------------------------------------------------------------------------
(* The inductive invariant.                                                *)

(***************************************************************************)
(* The invariant holds before the first step.                              *)
(***************************************************************************)
LEMMA InitInv == QInit => QInv
<1> SUFFICES ASSUME QInit PROVE QInv
  OBVIOUS
<1>1. QTypeOK
  <2>1. running \in Seq(Thread) /\ nextBatch \in Seq(Jobs) /\ committed \in Seq(Jobs)
    BY EmptySeq DEF QInit
  <2>2. pc \in PcValues /\ completing \in BOOLEAN
    BY DEF QInit, PcValues
  <2>3. added \in 0..NumJobs /\ expected \in Nat /\ prepared \in SUBSET Jobs
    BY NumJobsAssumption DEF QInit
  <2> QED BY <2>1, <2>2, <2>3 DEF QTypeOK
<1>2. /\ Len(running) = 0 /\ Len(nextBatch) = 0 /\ Len(committed) = 0
      /\ 1..Len(running) = {} /\ 1..Len(nextBatch) = {} /\ 1..Len(committed) = {}
      /\ Threads = {}
      /\ added = 0
  BY DEF QInit, Threads
<1>3. Batched = 0
  BY <1>2 DEF Batched
<1>4. BatchesConsecutive /\ DequeAnchored
  BY <1>2, <1>3 DEF BatchesConsecutive, DequeAnchored
<1>5. PreparedTracked /\ ControlConsistent
  BY <1>2 DEF QInit, PreparedTracked, ControlConsistent
<1>6. CommittedInOrder /\ ThreadsBounded
  BY <1>2, MaxThreadsAssumption DEF QInit, CommittedInOrder, ThreadsBounded
<1> QED BY <1>1, <1>4, <1>5, <1>6 DEF QInv

(***************************************************************************)
(* The types of the numbers the invariant speaks of.                       *)
(***************************************************************************)
LEMMA Numbers ==
    ASSUME QTypeOK
    PROVE  /\ Len(running) \in Nat
           /\ Len(nextBatch) \in Nat
           /\ Len(committed) \in Nat
           /\ added \in Nat
           /\ Batched \in Int
           /\ Batched = added - Len(nextBatch)
           /\ running # <<>> <=> Len(running) \in Threads
           /\ running # <<>> <=> 1 \in Threads
           /\ \A t \in Threads : /\ t \in 1..Len(running)
                                 /\ Size(t) \in Nat
                                 /\ NPrep(t) \in Nat
                                 /\ NComm(t) \in Nat
                                 /\ Size(t) > 0 => First(t) \in Nat \ {0}
<1>1. /\ Len(running) \in Nat
      /\ Len(nextBatch) \in Nat
      /\ Len(committed) \in Nat
      /\ added \in Nat
  BY NumJobsAssumption DEF QTypeOK
<1>2. Batched \in Int /\ Batched = added - Len(nextBatch)
  BY <1>1 DEF Batched
<1>3. running # <<>> => Len(running) > 0
  BY DEF QTypeOK
<1>4. running = <<>> => Len(running) = 0
  OBVIOUS
<1>5. ASSUME NEW t \in Threads
      PROVE  /\ t \in 1..Len(running)
             /\ Size(t) \in Nat
             /\ NPrep(t) \in Nat
             /\ NComm(t) \in Nat
             /\ Size(t) > 0 => First(t) \in Nat \ {0}
  <2>1. t \in 1..Len(running)
    BY DEF Threads
  <2>2. Size(t) \in Nat /\ NPrep(t) \in Nat /\ NComm(t) \in Nat
    BY <2>1, ThreadFields DEF Size, NPrep, NComm
  <2>3. ASSUME Size(t) > 0 PROVE First(t) \in Jobs
    <3>1. 1 \in 1..Len(running[t].jobs)
      BY <2>2, <2>3 DEF Size
    <3> QED BY <2>1, <3>1, ThreadFields DEF First
  <2> QED BY <2>1, <2>2, <2>3, NumJobsAssumption DEF Jobs
<1> QED BY <1>1, <1>2, <1>3, <1>4, <1>5 DEF Threads

(***************************************************************************)
(* The batch of a thread, in numbers: it consists of the jobs First(t),    *)
(* First(t) + 1, ..., all of them batched, and those not yet committed     *)
(* come after the committed ones.                                          *)
(***************************************************************************)
LEMMA BatchBounds ==
    ASSUME QInv, NEW t \in Threads
    PROVE  /\ First(t) \in Nat \ {0}
           /\ Size(t) \in Nat \ {0}
           /\ NComm(t) \in 0..Size(t)
           /\ NPrep(t) \in 0..Size(t)
           /\ First(t) + Size(t) <= Batched + 1
           /\ First(t) + NComm(t) >= Len(committed) + 1
<1>1. /\ QTypeOK
      /\ BatchesConsecutive
      /\ DequeAnchored
      /\ PreparedTracked
  BY DEF QInv
<1>2. /\ Len(running) \in Nat
      /\ Len(committed) \in Nat
      /\ Batched \in Int
  BY <1>1, Numbers
<1>3. \A u \in Threads : /\ First(u) \in Nat \ {0}
                         /\ Size(u) \in Nat \ {0}
                         /\ NComm(u) \in 0..Size(u)
                         /\ NPrep(u) \in 0..Size(u)
  <2> TAKE u \in Threads
  <2>1. Size(u) > 0
    BY <1>1 DEF BatchesConsecutive
  <2>2. NPrep(u) <= Size(u) /\ NComm(u) <= Size(u)
    BY <1>1 DEF PreparedTracked
  <2> QED BY <1>1, <2>1, <2>2, Numbers
<1>4. t \in 1..Len(running) /\ Len(running) \in Threads /\ 1 \in Threads
  BY <1>2 DEF Threads
<1>5. First(t) + Size(t) <= Batched + 1
  <2> DEFINE n == Len(running)
  <2>1. First(n) + Size(n) = Batched + 1
    BY <1>1, <1>4 DEF DequeAnchored
  <2>2. t < n => First(t) + Size(t) <= First(n)
    BY <1>1, <1>4 DEF BatchesConsecutive
  <2>3. /\ First(n) \in Nat /\ Size(n) \in Nat \ {0}
        /\ First(t) \in Nat /\ Size(t) \in Nat \ {0}
    BY <1>3, <1>4
  <2>4. n \in Nat /\ t \in Nat /\ t <= n
    BY <1>2, <1>4
  <2> HIDE DEF n
  <2>5. CASE t = n
    BY <2>1, <2>5, <1>2, <2>3
  <2>6. CASE t < n
    BY <2>1, <2>2, <2>6, <1>2, <2>3
  <2> QED BY <2>4, <2>5, <2>6
<1>6. First(t) + NComm(t) >= Len(committed) + 1
  <2>1. First(1) + NComm(1) = Len(committed) + 1
    BY <1>1, <1>4 DEF DequeAnchored
  <2>2. 1 < t => First(1) + Size(1) <= First(t)
    BY <1>1, <1>4 DEF BatchesConsecutive
  <2>3. /\ First(1) \in Nat /\ Size(1) \in Nat /\ NComm(1) \in 0..Size(1)
        /\ First(t) \in Nat /\ NComm(t) \in Nat
    BY <1>3, <1>4
  <2>4. CASE t = 1
    BY <2>1, <2>4, <1>2, <2>3
  <2>5. CASE 1 < t
    BY <2>1, <2>2, <2>5, <1>2, <2>3
  <2> QED BY <1>4, <2>4, <2>5
<1> QED BY <1>3, <1>5, <1>6

(***************************************************************************)
(* The jobs of different threads, committed jobs and waiting jobs are      *)
(* different jobs.                                                         *)
(***************************************************************************)
LEMMA JobsApart ==
    ASSUME QInv, NEW t \in Threads, NEW i \in 1..Size(t)
    PROVE  /\ running[t].jobs[i] \in 1..Batched
           /\ \A u \in Threads : \A k \in 1..Size(u) :
                running[u].jobs[k] = running[t].jobs[i] => u = t /\ k = i
           /\ i > NComm(t) => running[t].jobs[i] > Len(committed)
<1>1. QTypeOK /\ BatchesConsecutive
  BY DEF QInv
<1>2. /\ Len(running) \in Nat
      /\ Len(committed) \in Nat
      /\ Batched \in Int
  BY <1>1, Numbers
<1>3. /\ First(t) \in Nat \ {0}
      /\ Size(t) \in Nat \ {0}
      /\ NComm(t) \in 0..Size(t)
      /\ First(t) + Size(t) <= Batched + 1
      /\ First(t) + NComm(t) >= Len(committed) + 1
  BY BatchBounds
<1>4. running[t].jobs[i] = First(t) + i - 1
  BY <1>1 DEF BatchesConsecutive
<1>5. running[t].jobs[i] \in 1..Batched
  BY <1>2, <1>3, <1>4
<1>6. i > NComm(t) => running[t].jobs[i] > Len(committed)
  BY <1>2, <1>3, <1>4
<1>7. ASSUME NEW u \in Threads, NEW k \in 1..Size(u),
             running[u].jobs[k] = running[t].jobs[i]
      PROVE  u = t /\ k = i
  <2>1. running[u].jobs[k] = First(u) + k - 1
    BY <1>1 DEF BatchesConsecutive
  <2>2. First(u) \in Nat /\ Size(u) \in Nat
    BY BatchBounds
  <2>3. /\ u < t => First(u) + Size(u) <= First(t)
        /\ t < u => First(t) + Size(t) <= First(u)
    BY <1>1 DEF BatchesConsecutive
  <2>4. First(u) + k = First(t) + i
    <3>1. First(u) + k - 1 = First(t) + i - 1
      BY <1>4, <1>7, <2>1
    <3>2. First(t) \in Nat /\ k \in Nat /\ i \in Nat
      BY <1>3, <2>2
    <3> QED BY <2>2, <3>1, <3>2
  <2>5. u \in Nat /\ t \in Nat
    BY <1>2 DEF Threads
  <2>6. u = t
    BY <1>3, <2>2, <2>3, <2>4, <2>5
  <2> QED BY <1>3, <2>4, <2>6
<1> QED BY <1>5, <1>6, <1>7

(***************************************************************************)
(* A step that moves no job keeps the parts about where the jobs are.      *)
(***************************************************************************)
LEMMA NothingMoved ==
    ASSUME QInv, UNCHANGED <<added, nextBatch, running, prepared, committed>>
    PROVE  /\ BatchesConsecutive'
           /\ DequeAnchored'
           /\ CommittedInOrder'
           /\ (Len(running) <= MaxThreads)'
           /\ (pc' = "commit" => running # <<>> /\ NPrep(1) = Size(1))
              /\ (pc # pc' => \A t \in Threads : NComm(t) = 0)
              => PreparedTracked'
<1>1. BatchesConsecutive'
  BY DEF QInv, BatchesConsecutive, Threads, First, Size
<1>2. DequeAnchored'
  BY DEF QInv, DequeAnchored, Batched, Threads, First, Size, NComm
<1>3. CommittedInOrder' /\ (Len(running) <= MaxThreads)'
  BY DEF QInv, CommittedInOrder, ThreadsBounded
<1>4. ASSUME pc' = "commit" => running # <<>> /\ NPrep(1) = Size(1),
             pc # pc' => \A t \in Threads : NComm(t) = 0
      PROVE  PreparedTracked'
  <2>1. /\ (1..Len(committed) \subseteq prepared)'
        /\ (\A j \in prepared : j <= Batched)'
    BY DEF QInv, PreparedTracked, Batched
  <2>2. ASSUME NEW t \in Threads'
        PROVE  /\ (NPrep(t) <= Size(t))'
               /\ (NComm(t) <= Size(t))'
               /\ \A i \in 1..Size(t)' : (running[t].jobs[i] \in prepared <=> i <= NPrep(t))'
    BY DEF QInv, PreparedTracked, Threads, Size, NPrep, NComm
  <2>3. ASSUME NEW t \in Threads', t # 1 \/ pc' # "commit"
        PROVE  NComm(t)' = 0
    BY <1>4, <2>3 DEF QInv, PreparedTracked, Threads, NComm
  <2>4. (pc = "commit" => NPrep(1) = Size(1))'
    BY <1>4 DEF NPrep, Size
  <2> QED BY <2>1, <2>2, <2>3, <2>4 DEF PreparedTracked
<1> QED BY <1>1, <1>2, <1>3, <1>4

(***************************************************************************)
(* add_job puts the job behind the waiting batch.                          *)
(***************************************************************************)
LEMMA AddJobInv ==
    ASSUME QInv, QTypeOK', AddJob
    PROVE  QInv'
<1>1. /\ QTypeOK /\ BatchesConsecutive /\ DequeAnchored /\ PreparedTracked
      /\ ControlConsistent /\ CommittedInOrder /\ ThreadsBounded
  BY DEF QInv
<1>2. /\ pc = "idle" /\ added < NumJobs /\ MaxThreads > 0
      /\ added' = added + 1
      /\ nextBatch' = Append(nextBatch, added + 1)
      /\ pc' \in {"spawn", "idle"}
      /\ UNCHANGED <<completing, running, prepared, committed>>
  BY DEF AddJob
<1>3. /\ Len(nextBatch') = Len(nextBatch) + 1
      /\ \A i \in 1..Len(nextBatch) : nextBatch'[i] = nextBatch[i]
      /\ nextBatch'[Len(nextBatch) + 1] = added + 1
      /\ nextBatch' # <<>>
  BY <1>1, <1>2 DEF QTypeOK
<1>4. Batched' = Batched
  BY <1>1, <1>2, <1>3, Numbers DEF Batched
<1>5. BatchesConsecutive'
  BY <1>1, <1>2 DEF BatchesConsecutive, Threads, First, Size
<1>6. DequeAnchored'
  <2>1. (Len(nextBatch) <= added)'
    BY <1>1, <1>2, <1>3, Numbers DEF DequeAnchored
  <2>2. \A i \in 1..Len(nextBatch)' : nextBatch'[i] = Batched' + i
    <3> TAKE i \in 1..Len(nextBatch)'
    <3>1. CASE i = Len(nextBatch) + 1
      BY <3>1, <1>1, <1>3, <1>4, Numbers
    <3>2. CASE i # Len(nextBatch) + 1
      <4>1. i \in 1..Len(nextBatch)
        BY <3>2, <1>1, <1>3, Numbers
      <4> QED BY <4>1, <1>1, <1>3, <1>4 DEF DequeAnchored
    <3> QED BY <3>1, <3>2
  <2>3. /\ (running = <<>> => Len(committed) = Batched)'
        /\ (1 \in Threads => First(1) + NComm(1) = Len(committed) + 1)'
        /\ \A t \in Threads' : (t = Len(running) => First(t) + Size(t) = Batched + 1)'
    BY <1>1, <1>2, <1>4 DEF DequeAnchored, Threads, First, Size, NComm
  <2> QED BY <2>1, <2>2, <2>3 DEF DequeAnchored
<1>7. PreparedTracked'
  BY <1>1, <1>2, <1>4 DEF PreparedTracked, Threads, Size, NPrep, NComm
<1>8. ControlConsistent'
  <2>1. ~completing
    <3>1. added # NumJobs
      BY <1>1, <1>2, Numbers, NumJobsAssumption
    <3> QED BY <3>1, <1>1 DEF ControlConsistent
  <2>2. ~completing'
    BY <2>1, <1>2
  <2> QED BY <2>2, <1>2, <1>3 DEF ControlConsistent
<1>9. CommittedInOrder' /\ ThreadsBounded'
  BY <1>1, <1>2 DEF CommittedInOrder, ThreadsBounded
<1> QED BY <1>5, <1>6, <1>7, <1>8, <1>9 DEF QInv

(***************************************************************************)
(* add_job without threads prepares and commits at once.                   *)
(***************************************************************************)
LEMMA AddJobInlineInv ==
    ASSUME QInv, QTypeOK', AddJobInline
    PROVE  QInv'
<1>1. /\ QTypeOK /\ BatchesConsecutive /\ DequeAnchored /\ PreparedTracked
      /\ ControlConsistent /\ CommittedInOrder /\ ThreadsBounded
  BY DEF QInv
<1>2. /\ pc = "idle" /\ added < NumJobs /\ MaxThreads = 0
      /\ added' = added + 1
      /\ prepared' = prepared \cup {added + 1}
      /\ committed' = Append(committed, added + 1)
      /\ UNCHANGED <<pc, completing, nextBatch, running>>
  BY DEF AddJobInline
<1>3. running = <<>> /\ nextBatch = <<>>
  BY <1>1, <1>2, MaxThreadsAssumption DEF ControlConsistent
<1>4. Threads = {} /\ Threads' = {} /\ Len(nextBatch) = 0 /\ 1..Len(nextBatch) = {}
  BY <1>2, <1>3 DEF Threads
<1>5. /\ Len(committed) = added /\ Batched = added
      /\ Batched' = added + 1 /\ added \in Nat
  BY <1>1, <1>2, <1>3, <1>4, Numbers DEF DequeAnchored, Batched
<1>6. /\ Len(committed') = added + 1
      /\ committed'[added + 1] = added + 1
      /\ \A i \in 1..added : committed'[i] = i
  BY <1>1, <1>2, <1>5 DEF QTypeOK, CommittedInOrder
<1>7. BatchesConsecutive' /\ DequeAnchored'
  <2>1. BatchesConsecutive'
    BY <1>4 DEF BatchesConsecutive
  <2>2. (Len(nextBatch) <= added)' /\ 1..Len(nextBatch)' = {}
    BY <1>2, <1>4, <1>5
  <2> QED BY <2>1, <2>2, <1>4, <1>5, <1>6 DEF DequeAnchored
<1>8. PreparedTracked'
  <2>1. \A j \in prepared : j \in Jobs /\ j <= added
    BY <1>1, <1>5 DEF QTypeOK, PreparedTracked
  <2>2. (1..Len(committed) \subseteq prepared)'
    BY <1>1, <1>2, <1>5, <1>6 DEF PreparedTracked
  <2>3. (\A j \in prepared : j <= Batched)'
    BY <1>2, <1>5, <2>1, NumJobsAssumption DEF Jobs
  <2>4. pc' # "commit"
    BY <1>2
  <2> QED BY <1>4, <2>2, <2>3, <2>4 DEF PreparedTracked
<1>9. ControlConsistent' /\ ThreadsBounded'
  <2>1. added # NumJobs
    BY <1>1, <1>2, Numbers, NumJobsAssumption
  <2>2. ~completing
    BY <2>1, <1>1 DEF ControlConsistent
  <2>3. ~completing'
    BY <2>2, <1>2
  <2>4. Len(running') = 0
    BY <1>2, <1>3
  <2>5. pc' = "idle" /\ running' = <<>> /\ nextBatch' = <<>>
    BY <1>2, <1>3
  <2>6. ControlConsistent'
    BY <2>3, <2>5 DEF ControlConsistent
  <2> QED BY <2>4, <2>5, <2>6, MaxThreadsAssumption DEF ThreadsBounded
<1>10. CommittedInOrder'
  BY <1>5, <1>6 DEF CommittedInOrder
<1> QED BY <1>7, <1>8, <1>9, <1>10 DEF QInv

(***************************************************************************)
(* complete() starts the last batch or begins to drain.                    *)
(***************************************************************************)
LEMMA CompleteInv ==
    ASSUME QInv, QTypeOK', Complete
    PROVE  QInv'
<1>1. /\ pc = "idle" /\ added = NumJobs
      /\ completing' = TRUE
      /\ nextBatch # <<>> => pc' = "spawn"
      /\ nextBatch = <<>> => pc' = "drain"
      /\ UNCHANGED <<added, nextBatch, running, prepared, committed>>
  BY DEF Complete
<1>2. \A t \in Threads : NComm(t) = 0
  BY <1>1 DEF QInv, PreparedTracked
<1>3. pc' \notin {"join", "commit", "emplace", "done"}
  BY <1>1
<1>4. ControlConsistent'
  BY <1>1, <1>3 DEF QInv, ControlConsistent
<1> QED BY <1>1, <1>2, <1>3, <1>4, NothingMoved DEF QInv, ThreadsBounded

(***************************************************************************)
(* At the limit of threads the first one is joined, else a thread is       *)
(* started.                                                                *)
(***************************************************************************)
LEMMA SpawnNextThreadInv ==
    ASSUME QInv, QTypeOK', SpawnNextThread
    PROVE  QInv'
<1>1. /\ pc = "spawn"
      /\ Len(running) = MaxThreads => pc' = "join"
      /\ Len(running) # MaxThreads => pc' = "emplace"
      /\ UNCHANGED <<completing, added, nextBatch, running, prepared, committed>>
  BY DEF SpawnNextThread
<1>2. \A t \in Threads : NComm(t) = 0
  BY <1>1 DEF QInv, PreparedTracked
<1>3. /\ nextBatch # <<>> /\ MaxThreads > 0
      /\ Len(running) <= MaxThreads
      /\ Len(running) \in Nat
  BY <1>1, Numbers DEF QInv, ControlConsistent, ThreadsBounded
<1>4. pc' = "join" => running # <<>>
  BY <1>1, <1>3
<1>5. pc' = "emplace" => Len(running) < MaxThreads
  BY <1>1, <1>3, MaxThreadsAssumption
<1>6. pc' \in {"join", "emplace"}
  BY <1>1
<1>7. ControlConsistent'
  BY <1>1, <1>3, <1>5, <1>6 DEF QInv, ControlConsistent
<1>8. ThreadsBounded'
  BY <1>1, <1>3, <1>4, <1>6 DEF ThreadsBounded
<1> QED BY <1>1, <1>2, <1>6, <1>7, <1>8, NothingMoved DEF QInv

(***************************************************************************)
(* join() returns when the first thread has prepared all its jobs.         *)
(***************************************************************************)
LEMMA JoinFrontInv ==
    ASSUME QInv, QTypeOK', JoinFront
    PROVE  QInv'
<1>1. /\ pc = "join" /\ running # <<>>
      /\ Head(running).prep = Len(Head(running).jobs)
      /\ pc' = "commit"
      /\ UNCHANGED <<completing, added, nextBatch, running, prepared, committed>>
  BY DEF JoinFront
<1>2. \A t \in Threads : NComm(t) = 0
  BY <1>1 DEF QInv, PreparedTracked
<1>3. Head(running) = running[1]
  BY <1>1 DEF QInv, QTypeOK
<1>4. NPrep(1) = Size(1)
  BY <1>1, <1>3 DEF NPrep, Size
<1>5. ControlConsistent'
  BY <1>1 DEF QInv, ControlConsistent
<1> QED BY <1>1, <1>2, <1>4, <1>5, NothingMoved DEF QInv, ThreadsBounded

(***************************************************************************)
(* The loop of complete() goes on while there are threads.                 *)
(***************************************************************************)
LEMMA DrainInv ==
    ASSUME QInv, QTypeOK', Drain
    PROVE  QInv'
<1>1. /\ pc = "drain"
      /\ running # <<>> => pc' = "join"
      /\ running = <<>> => pc' = "done"
      /\ UNCHANGED <<completing, added, nextBatch, running, prepared, committed>>
  BY DEF Drain
<1>2. \A t \in Threads : NComm(t) = 0
  BY <1>1 DEF QInv, PreparedTracked
<1>3. nextBatch = <<>> /\ completing
  BY <1>1 DEF QInv, ControlConsistent
<1>4. pc' \in {"join", "done"}
  BY <1>1
<1>5. ControlConsistent'
  BY <1>1, <1>3, <1>4 DEF QInv, ControlConsistent
<1> QED BY <1>1, <1>2, <1>4, <1>5, NothingMoved DEF QInv, ThreadsBounded

(***************************************************************************)
(* A new thread takes the whole waiting batch.                             *)
(***************************************************************************)
LEMMA EmplaceThreadInv ==
    ASSUME QInv, QTypeOK', EmplaceThread
    PROVE  QInv'
<1>1. /\ QTypeOK /\ BatchesConsecutive /\ DequeAnchored /\ PreparedTracked
      /\ ControlConsistent /\ CommittedInOrder /\ ThreadsBounded
  BY DEF QInv
<1>0. PICK n : n = Len(running)
  OBVIOUS
<1>2. /\ pc = "emplace"
      /\ nextBatch' = <<>>
      /\ completing => pc' = "drain"
      /\ ~completing => pc' = "idle"
      /\ UNCHANGED <<completing, added, prepared, committed>>
  BY DEF EmplaceThread
<1>3. /\ nextBatch # <<>> /\ n < MaxThreads
      /\ n \in Nat /\ added \in Nat /\ Len(nextBatch) \in Nat \ {0}
      /\ Batched = added - Len(nextBatch)
      /\ Batched \in Nat
  <2>1. nextBatch # <<>> /\ n < MaxThreads
    BY <1>0, <1>1, <1>2 DEF ControlConsistent
  <2>2. Len(nextBatch) # 0
    BY <1>1, <2>1 DEF QTypeOK
  <2>3. Len(nextBatch) <= added
    BY <1>1 DEF DequeAnchored
  <2> QED BY <1>0, <1>1, <2>1, <2>2, <2>3, Numbers
<1>4. /\ Len(running') = n + 1
      /\ Threads' = Threads \cup {n + 1}
      /\ Threads = 1..n
      /\ running' # <<>>
  BY <1>0, <1>1, <1>3, EmplaceEffect DEF Threads
<1>5. \A t \in Threads :
        /\ running'[t] = running[t]
        /\ First(t)' = First(t) /\ Size(t)' = Size(t)
        /\ NPrep(t)' = NPrep(t) /\ NComm(t)' = NComm(t)
  BY <1>0, <1>1, <1>4, EmplaceEffect DEF First, Size, NPrep, NComm
<1>6. /\ running'[n + 1].jobs = nextBatch
      /\ First(n + 1)' = nextBatch[1]
      /\ Size(n + 1)' = Len(nextBatch)
      /\ NPrep(n + 1)' = 0 /\ NComm(n + 1)' = 0
  BY <1>0, <1>1, EmplaceEffect DEF First, Size, NPrep, NComm
<1>7. Batched' = added
  BY <1>2, <1>3 DEF Batched
<1>8. /\ \A i \in 1..Len(nextBatch) : nextBatch[i] = Batched + i
      /\ nextBatch[1] = Batched + 1
  BY <1>1, <1>3 DEF DequeAnchored
<1>9. \A t \in Threads : First(t) + Size(t) <= Batched + 1
  BY BatchBounds
<1>10. BatchesConsecutive'
  <2>1. ASSUME NEW t \in Threads'
        PROVE  /\ Size(t)' > 0
               /\ \A i \in 1..Size(t)' : running'[t].jobs[i] = First(t)' + i - 1
    <3>1. CASE t \in Threads
      BY <3>1, <1>1, <1>5 DEF BatchesConsecutive
    <3>2. CASE t = n + 1
      BY <3>2, <1>3, <1>6, <1>8
    <3> QED BY <3>1, <3>2, <1>4
  <2>2. ASSUME NEW t \in Threads', NEW u \in Threads', t < u
        PROVE  First(t)' + Size(t)' <= First(u)'
    <3>1. t \in Threads
      BY <1>3, <1>4, <2>2
    <3>2. CASE u \in Threads
      BY <3>1, <3>2, <1>1, <1>5, <2>2 DEF BatchesConsecutive
    <3>3. CASE u = n + 1
      BY <3>1, <3>3, <1>5, <1>6, <1>8, <1>9
    <3> QED BY <3>2, <3>3, <1>4
  <2>3. ASSUME NEW t \in Threads', t + 1 \in Threads'
        PROVE  First(t + 1)' = First(t)' + Size(t)'
    <3>1. t \in Threads
      BY <1>3, <1>4, <2>3
    <3>2. CASE t + 1 \in Threads
      BY <3>1, <3>2, <1>1, <1>5 DEF BatchesConsecutive
    <3>3. CASE t = n
      <4>1. First(n) + Size(n) = Batched + 1
        BY <3>1, <3>3, <1>0, <1>1 DEF DequeAnchored
      <4> QED BY <3>1, <3>3, <4>1, <1>5, <1>6, <1>8
    <3> QED BY <3>1, <3>2, <3>3, <1>3, <1>4, <2>3
  <2> QED BY <2>1, <2>2, <2>3 DEF BatchesConsecutive
<1>11. DequeAnchored'
  <2>1. Len(nextBatch)' = 0 /\ 1..Len(nextBatch)' = {}
    BY <1>2
  <2>2. (1 \in Threads => First(1) + NComm(1) = Len(committed) + 1)'
    <3>1. CASE 1 \in Threads
      BY <3>1, <1>1, <1>2, <1>5 DEF DequeAnchored
    <3>2. CASE n = 0
      <4>1. Len(committed) = Batched
        BY <3>2, <1>0, <1>1 DEF QTypeOK, DequeAnchored
      <4> QED BY <3>2, <4>1, <1>2, <1>3, <1>6, <1>8
    <3> QED BY <3>1, <3>2, <1>3, <1>4
  <2>3. ASSUME NEW t \in Threads', t = Len(running')
        PROVE  First(t)' + Size(t)' = Batched' + 1
    BY <2>3, <1>3, <1>4, <1>6, <1>7, <1>8
  <2> QED BY <2>1, <2>2, <2>3, <1>2, <1>3, <1>4 DEF DequeAnchored
<1>12. PreparedTracked'
  <2>1. /\ (1..Len(committed) \subseteq prepared)'
        /\ pc' # "commit" /\ pc # "commit"
    BY <1>1, <1>2 DEF PreparedTracked
  <2>2. (\A j \in prepared : j <= Batched)'
    <3>1. \A j \in prepared : j \in Jobs /\ j <= Batched
      BY <1>1 DEF QTypeOK, PreparedTracked
    <3> QED BY <3>1, <1>2, <1>3, <1>7, NumJobsAssumption DEF Jobs
  <2>3. ASSUME NEW t \in Threads'
        PROVE  /\ NPrep(t)' <= Size(t)'
               /\ NComm(t)' <= Size(t)'
               /\ \A i \in 1..Size(t)' : running'[t].jobs[i] \in prepared' <=> i <= NPrep(t)'
               /\ NComm(t)' = 0
    <3>1. CASE t \in Threads
      BY <3>1, <1>1, <1>2, <1>5, <2>1 DEF PreparedTracked
    <3>2. CASE t = n + 1
      <4>1. \A i \in 1..Len(nextBatch) : nextBatch[i] \notin prepared
        BY <1>1, <1>3, <1>8 DEF PreparedTracked
      <4> QED BY <3>2, <4>1, <1>2, <1>3, <1>6
    <3> QED BY <3>1, <3>2, <1>4
  <2> QED BY <2>1, <2>2, <2>3 DEF PreparedTracked
<1>13. pc' \in {"idle", "drain"}
  BY <1>2
<1>14. ControlConsistent'
  BY <1>1, <1>2, <1>3, <1>13, MaxThreadsAssumption DEF ControlConsistent
<1>15. ThreadsBounded' /\ CommittedInOrder'
  BY <1>1, <1>2, <1>3, <1>4, <1>13, MaxThreadsAssumption DEF ThreadsBounded, CommittedInOrder
<1> QED BY <1>10, <1>11, <1>12, <1>14, <1>15 DEF QInv

(***************************************************************************)
(* The job committed next is the next one of the first thread.             *)
(***************************************************************************)
LEMMA CommitJobInv ==
    ASSUME QInv, QTypeOK', CommitJob
    PROVE  /\ QInv'
           /\ Len(committed') = Len(committed) + 1
           /\ Len(committed) + 1 \in prepared
<1>1. /\ QTypeOK /\ BatchesConsecutive /\ DequeAnchored /\ PreparedTracked
      /\ ControlConsistent /\ CommittedInOrder /\ ThreadsBounded
  BY DEF QInv
<1>2. /\ pc = "commit"
      /\ UNCHANGED <<pc, completing, added, nextBatch, prepared>>
  BY DEF CommitJob
<1>3. running # <<>>
  BY <1>1, <1>2 DEF ThreadsBounded
<1>4. Len(running) \in Nat /\ Len(committed) \in Nat /\ 1 \in Threads
  BY <1>1, <1>3, Numbers
<1>5. /\ Threads' = Threads
      /\ Len(running') = Len(running)
      /\ \A t \in Threads : /\ running'[t].jobs = running[t].jobs
                            /\ First(t)' = First(t) /\ Size(t)' = Size(t)
                            /\ NPrep(t)' = NPrep(t)
                            /\ NComm(t)' = IF t = 1 THEN NComm(t) + 1 ELSE NComm(t)
  BY <1>1, <1>3, CommitJobEffect DEF Threads, First, Size, NPrep, NComm
<1>6. NComm(1) < Size(1) /\ NComm(1) \in Nat /\ Size(1) \in Nat /\ First(1) \in Nat
  <2>1. NComm(1) < Size(1)
    BY <1>1, <1>3, CommitJobEffect DEF NComm, Size
  <2>2. NComm(1) \in 0..Size(1) /\ Size(1) \in Nat \ {0} /\ First(1) \in Nat \ {0}
    BY <1>4, BatchBounds
  <2> QED BY <2>1, <2>2
<1>7. running[1].jobs[NComm(1) + 1] = Len(committed) + 1
  <2>1. running[1].jobs[NComm(1) + 1] = First(1) + NComm(1)
    <3>1. NComm(1) + 1 \in 1..Size(1)
      BY <1>6
    <3>2. running[1].jobs[NComm(1) + 1] = First(1) + (NComm(1) + 1) - 1
      BY <3>1, <1>1, <1>4 DEF BatchesConsecutive
    <3> QED BY <3>2, <1>6
  <2> QED BY <2>1, <1>1, <1>4 DEF DequeAnchored
<1>8. committed' = Append(committed, Len(committed) + 1)
  BY <1>1, <1>3, <1>7, CommitJobEffect DEF NComm
<1>9. /\ Len(committed') = Len(committed) + 1
      /\ committed'[Len(committed) + 1] = Len(committed) + 1
      /\ \A i \in 1..Len(committed) : committed'[i] = committed[i]
  BY <1>1, <1>8 DEF QTypeOK
<1>10. Batched' = Batched /\ Batched \in Int
  BY <1>1, <1>2, Numbers DEF Batched
<1>11. Len(committed) + 1 \in prepared
  <2>1. NPrep(1) = Size(1)
    BY <1>1, <1>2 DEF PreparedTracked
  <2> QED BY <2>1, <1>1, <1>4, <1>6, <1>7 DEF PreparedTracked
<1>12. BatchesConsecutive'
  BY <1>1, <1>5 DEF BatchesConsecutive
<1>13. DequeAnchored'
  <2>1. (Len(nextBatch) <= added)' /\ (\A i \in 1..Len(nextBatch) : nextBatch[i] = Batched + i)'
    BY <1>1, <1>2, <1>10 DEF DequeAnchored
  <2>2. (running # <<>>)'
    BY <1>4, <1>5 DEF Threads
  <2>3. First(1)' + NComm(1)' = Len(committed)' + 1
    <3>1. First(1) + NComm(1) = Len(committed) + 1
      BY <1>1, <1>4 DEF DequeAnchored
    <3>2. First(1)' = First(1) /\ NComm(1)' = NComm(1) + 1
      BY <1>4, <1>5
    <3> QED BY <3>1, <3>2, <1>4, <1>6, <1>9
  <2>4. \A t \in Threads' : t = Len(running') => First(t)' + Size(t)' = Batched' + 1
    BY <1>1, <1>5, <1>10 DEF DequeAnchored
  <2> QED BY <2>1, <2>2, <2>3, <2>4 DEF DequeAnchored
<1>14. PreparedTracked'
  <2>1. (1..Len(committed) \subseteq prepared)'
    BY <1>1, <1>2, <1>4, <1>9, <1>11 DEF PreparedTracked
  <2>2. (\A j \in prepared : j <= Batched)'
    BY <1>1, <1>2, <1>10 DEF PreparedTracked
  <2>3. ASSUME NEW t \in Threads'
        PROVE  /\ NPrep(t)' <= Size(t)'
               /\ NComm(t)' <= Size(t)'
               /\ \A i \in 1..Size(t)' : running'[t].jobs[i] \in prepared' <=> i <= NPrep(t)'
               /\ t # 1 => NComm(t)' = 0
    BY <1>1, <1>2, <1>5, <1>6 DEF PreparedTracked
  <2>4. NPrep(1)' = Size(1)'
    BY <1>1, <1>2, <1>4, <1>5 DEF PreparedTracked
  <2> QED BY <2>1, <2>2, <2>3, <2>4, <1>2 DEF PreparedTracked
<1>15. running' # <<>>
  BY <1>4, <1>5 DEF Threads
<1>16. ControlConsistent'
  <2>1. MaxThreads # 0 /\ Len(running) <= MaxThreads
    BY <1>1, <1>3 DEF ControlConsistent, ThreadsBounded
  <2> QED BY <1>1, <1>2, <2>1 DEF ControlConsistent
<1>17. ThreadsBounded' /\ CommittedInOrder'
  BY <1>1, <1>4, <1>5, <1>9, <1>15 DEF ThreadsBounded, CommittedInOrder
<1> QED BY <1>9, <1>11, <1>12, <1>13, <1>14, <1>16, <1>17 DEF QInv

(***************************************************************************)
(* A thread leaves the deque when all its jobs are committed.              *)
(***************************************************************************)
LEMMA PopFrontInv ==
    ASSUME QInv, QTypeOK', PopFront
    PROVE  QInv'
<1>1. /\ QTypeOK /\ BatchesConsecutive /\ DequeAnchored /\ PreparedTracked
      /\ ControlConsistent /\ CommittedInOrder /\ ThreadsBounded
  BY DEF QInv
<1>2. /\ pc = "commit"
      /\ nextBatch # <<>> => pc' = "emplace"
      /\ nextBatch = <<>> => pc' = "drain"
      /\ UNCHANGED <<completing, added, nextBatch, prepared, committed>>
  BY DEF PopFront
<1>3. running # <<>>
  BY <1>1, <1>2 DEF ThreadsBounded
<1>4. Len(running) \in Nat /\ Len(committed) \in Nat /\ 1 \in Threads /\ Batched \in Int
  BY <1>1, <1>3, Numbers
<1>5. /\ Len(running') = Len(running) - 1
      /\ NComm(1) = Size(1)
      /\ \A t \in Threads' : /\ t \in Nat \ {0}
                             /\ t + 1 \in Threads /\ t + 1 # 1
                             /\ running'[t].jobs = running[t + 1].jobs
                             /\ First(t)' = First(t + 1) /\ Size(t)' = Size(t + 1)
                             /\ NPrep(t)' = NPrep(t + 1) /\ NComm(t)' = NComm(t + 1)
  BY <1>1, <1>3, <1>4, PopFrontEffect DEF Threads, First, Size, NPrep, NComm
<1>6. Batched' = Batched
  BY <1>2 DEF Batched
<1>7. First(1) \in Nat /\ Size(1) \in Nat /\ First(1) + Size(1) = Len(committed) + 1
  BY <1>1, <1>4, <1>5, BatchBounds DEF DequeAnchored
<1>8. BatchesConsecutive'
  <2>1. ASSUME NEW t \in Threads'
        PROVE  /\ Size(t)' > 0
               /\ \A i \in 1..Size(t)' : running'[t].jobs[i] = First(t)' + i - 1
    BY <1>1, <1>5 DEF BatchesConsecutive
  <2>2. ASSUME NEW t \in Threads', NEW u \in Threads', t < u
        PROVE  First(t)' + Size(t)' <= First(u)'
    <3>1. t + 1 < u + 1
      BY <1>5, <2>2
    <3> QED BY <3>1, <1>1, <1>5 DEF BatchesConsecutive
  <2>3. ASSUME NEW t \in Threads', t + 1 \in Threads'
        PROVE  First(t + 1)' = First(t)' + Size(t)'
    BY <2>3, <1>1, <1>5 DEF BatchesConsecutive
  <2> QED BY <2>1, <2>2, <2>3 DEF BatchesConsecutive
<1>9. DequeAnchored'
  <2>1. (Len(nextBatch) <= added)' /\ (\A i \in 1..Len(nextBatch) : nextBatch[i] = Batched + i)'
    BY <1>1, <1>2, <1>6 DEF DequeAnchored
  <2>2. ASSUME running' = <<>> PROVE Len(committed') = Batched'
    <3>1. Len(running) = 1
      BY <2>2, <1>4, <1>5
    <3>2. First(1) + Size(1) = Batched + 1
      BY <3>1, <1>1, <1>4 DEF DequeAnchored
    <3> QED BY <3>2, <1>2, <1>4, <1>6, <1>7
  <2>3. ASSUME 1 \in Threads' PROVE First(1)' + NComm(1)' = Len(committed') + 1
    <3>1. First(1 + 1) = First(1) + Size(1) /\ NComm(1 + 1) = 0
      BY <2>3, <1>1, <1>4, <1>5 DEF BatchesConsecutive, PreparedTracked
    <3> QED BY <3>1, <2>3, <1>2, <1>5, <1>7
  <2>4. ASSUME NEW t \in Threads', t = Len(running')
        PROVE  First(t)' + Size(t)' = Batched' + 1
    <3>1. t + 1 = Len(running)
      BY <2>4, <1>4, <1>5
    <3> QED BY <3>1, <1>1, <1>5, <1>6 DEF DequeAnchored
  <2> QED BY <2>1, <2>2, <2>3, <2>4 DEF DequeAnchored
<1>10. pc' # "commit"
  BY <1>2
<1>11. PreparedTracked'
  <2>1. (1..Len(committed) \subseteq prepared)' /\ (\A j \in prepared : j <= Batched)'
    BY <1>1, <1>2, <1>6 DEF PreparedTracked
  <2>2. ASSUME NEW t \in Threads'
        PROVE  /\ NPrep(t)' <= Size(t)'
               /\ NComm(t)' <= Size(t)'
               /\ \A i \in 1..Size(t)' : running'[t].jobs[i] \in prepared' <=> i <= NPrep(t)'
               /\ NComm(t)' = 0
    BY <1>1, <1>2, <1>5 DEF PreparedTracked
  <2> QED BY <2>1, <2>2, <1>10 DEF PreparedTracked
<1>12. MaxThreads > 0 /\ Len(running') < MaxThreads
  BY <1>1, <1>3, <1>4, <1>5, MaxThreadsAssumption DEF ControlConsistent, ThreadsBounded
<1>13. pc' \in {"emplace", "drain"}
  BY <1>2
<1>14. ControlConsistent'
  <2>1. nextBatch = <<>> => completing
    BY <1>1, <1>2 DEF ControlConsistent
  <2> QED BY <2>1, <1>1, <1>2, <1>12, <1>13 DEF ControlConsistent
<1>15. Len(running') <= MaxThreads
  BY <1>4, <1>5, <1>12, MaxThreadsAssumption
<1>16. ThreadsBounded' /\ CommittedInOrder'
  BY <1>1, <1>2, <1>13, <1>15 DEF ThreadsBounded, CommittedInOrder
<1> QED BY <1>8, <1>9, <1>11, <1>14, <1>16 DEF QInv

(***************************************************************************)
(* A worker prepares the next job of its own batch.                        *)
(***************************************************************************)
LEMMA PrepareInv ==
    ASSUME QInv, QTypeOK', NEW w \in 1..MaxThreads, Prepare(w)
    PROVE  /\ QInv'
           /\ \E j \in 1..added : j \notin prepared /\ prepared' = prepared \cup {j}
<1>1. /\ QTypeOK /\ BatchesConsecutive /\ DequeAnchored /\ PreparedTracked
      /\ ControlConsistent /\ CommittedInOrder /\ ThreadsBounded
  BY DEF QInv
<1> DEFINE j == running[w].jobs[NPrep(w) + 1]
<1>2. /\ prepared' = prepared \cup {j}
      /\ UNCHANGED <<pc, completing, added, nextBatch, committed>>
  BY DEF Prepare, NPrep
<1>3. /\ w \in Threads
      /\ NPrep(w) < Size(w)
      /\ Len(running') = Len(running)
      /\ Threads' = Threads
      /\ \A t \in Threads : /\ running'[t].jobs = running[t].jobs
                            /\ First(t)' = First(t) /\ Size(t)' = Size(t)
                            /\ NComm(t)' = NComm(t)
                            /\ NPrep(t)' = IF t = w THEN NPrep(t) + 1 ELSE NPrep(t)
  BY <1>1, PrepareEffect DEF Threads, First, Size, NPrep, NComm
<1>4. NPrep(w) \in Nat /\ Size(w) \in Nat /\ NPrep(w) + 1 \in 1..Size(w)
  BY <1>1, <1>3, Numbers
<1>5. Batched' = Batched /\ Batched \in Int /\ Batched <= added /\ added \in Nat
  BY <1>1, <1>2, Numbers DEF Batched
<1>6. /\ j \in 1..Batched
      /\ \A t \in Threads : \A i \in 1..Size(t) :
            running[t].jobs[i] = j => t = w /\ i = NPrep(w) + 1
  BY <1>3, <1>4, JobsApart
<1>7. j \notin prepared
  BY <1>1, <1>3, <1>4 DEF PreparedTracked
<1>8. running # <<>> /\ running' # <<>>
  BY <1>1, <1>3, Numbers DEF Threads
<1>9. BatchesConsecutive'
  BY <1>1, <1>3 DEF BatchesConsecutive
<1>10. DequeAnchored'
  BY <1>1, <1>2, <1>3, <1>5, <1>8 DEF DequeAnchored
<1>11. PreparedTracked'
  <2>1. (1..Len(committed) \subseteq prepared)' /\ (\A k \in prepared : k <= Batched)'
    BY <1>1, <1>2, <1>5, <1>6 DEF PreparedTracked
  <2>2. ASSUME NEW t \in Threads'
        PROVE  /\ NPrep(t)' <= Size(t)'
               /\ NComm(t)' <= Size(t)'
               /\ \A i \in 1..Size(t)' : running'[t].jobs[i] \in prepared' <=> i <= NPrep(t)'
               /\ (t # 1 \/ pc' # "commit") => NComm(t)' = 0
    <3>1. /\ NPrep(t) <= Size(t) /\ NComm(t) <= Size(t)
          /\ \A i \in 1..Size(t) : running[t].jobs[i] \in prepared <=> i <= NPrep(t)
          /\ (t # 1 \/ pc # "commit") => NComm(t) = 0
      BY <1>1, <1>3 DEF PreparedTracked
    <3>2. CASE t # w
      BY <3>1, <3>2, <1>2, <1>3, <1>6
    <3>3. CASE t = w
      BY <3>1, <3>3, <1>2, <1>3, <1>4, <1>6
    <3> QED BY <3>2, <3>3
  <2>3. pc' # "commit"
        \/ (1 \in Threads /\ w # 1 /\ NPrep(1) = Size(1))
    BY <1>1, <1>2, <1>3, <1>4, <1>8, Numbers DEF PreparedTracked
  <2>4. pc' = "commit" => NPrep(1)' = Size(1)'
    BY <2>3, <1>3
  <2> QED BY <2>1, <2>2, <2>4 DEF PreparedTracked
<1>12. ControlConsistent'
  <2>1. MaxThreads # 0 /\ pc # "done"
    BY <1>1, <1>8 DEF ControlConsistent
  <2> QED BY <2>1, <1>1, <1>2, <1>3 DEF ControlConsistent
<1>13. ThreadsBounded' /\ CommittedInOrder'
  BY <1>1, <1>2, <1>3, <1>8 DEF ThreadsBounded, CommittedInOrder
<1>14. j \in 1..added
  BY <1>5, <1>6
<1> QED BY <1>2, <1>7, <1>9, <1>10, <1>11, <1>12, <1>13, <1>14 DEF QInv

(***************************************************************************)
(* Every step keeps the invariant.                                         *)
(***************************************************************************)
LEMMA NextInv == QInv /\ [QNext]_qvars => QInv'
<1> SUFFICES ASSUME QInv, [QNext]_qvars PROVE QInv'
  OBVIOUS
<1>1. CASE UNCHANGED qvars
  <2>1. UNCHANGED <<pc, completing, added, nextBatch, expected, running, prepared, committed>>
    BY <1>1 DEF qvars
  <2>2. QTypeOK' /\ ControlConsistent' /\ ThreadsBounded'
    BY <2>1 DEF QInv, QTypeOK, ControlConsistent, ThreadsBounded
  <2>3. pc' = "commit" => running # <<>> /\ NPrep(1) = Size(1)
    BY <2>1 DEF QInv, ThreadsBounded, PreparedTracked
  <2>4. PreparedTracked'
    BY <2>1, <2>3, NothingMoved
  <2> QED BY <2>1, <2>2, <2>4, NothingMoved DEF QInv
<1>2. CASE QNext
  <2>1. QTypeOK'
    BY <1>2, TypeStep DEF QInv, ThreadsBounded
  <2>2. CASE \E t \in 1..MaxThreads : Prepare(t)
    BY <2>1, <2>2, PrepareInv
  <2>3. CASE Terminated
    BY <2>3, <1>1 DEF Terminated
  <2> QED BY <1>2, <2>1, <2>2, <2>3, AddJobInv, AddJobInlineInv, CompleteInv,
             SpawnNextThreadInv, EmplaceThreadInv, JoinFrontInv, CommitJobInv,
             PopFrontInv, DrainInv
          DEF QNext, MainStep
<1> QED BY <1>1, <1>2

(***************************************************************************)
(* The inductive invariant holds throughout, whatever the number of jobs,  *)
(* their weights and the number of threads.                                *)
(***************************************************************************)
THEOREM InvariantHolds == QSpec => []QInv
BY InitInv, NextInv, PTL DEF QSpec

(***************************************************************************)
(* The variables of the queue keep their types.                            *)
(***************************************************************************)
THEOREM TypeCorrect == QSpec => []QTypeOK
<1>1. QInv => QTypeOK
  BY DEF QInv
<1> QED BY <1>1, InvariantHolds, PTL

(***************************************************************************)
(* semiasync_queue commits the jobs in the order in which they were added: *)
(* none twice, none skipped, none overtaken.                               *)
(***************************************************************************)
THEOREM CommitsInOrder == QSpec => []CommittedInOrder
<1>1. QInv => CommittedInOrder
  BY DEF QInv
<1> QED BY <1>1, InvariantHolds, PTL

(***************************************************************************)
(* At most m_max_threads threads exist, and the assertion of commit_thread *)
(* never fails.                                                            *)
(***************************************************************************)
THEOREM ThreadsStayBounded == QSpec => []ThreadsBounded
<1>1. QInv => ThreadsBounded
  BY DEF QInv
<1> QED BY <1>1, InvariantHolds, PTL

-----------------------------------------------------------------------------
(* The refinement.                                                         *)

(***************************************************************************)
(* The queue begins as the executor does.                                  *)
(***************************************************************************)
LEMMA InitRefines == QInit => Executor!AInit
<1> SUFFICES ASSUME QInit PROVE Executor!AInit
  OBVIOUS
<1>1. added = 0 /\ prepared = {} /\ Len(committed) = 0 /\ pc # "done"
  BY DEF QInit
<1>2. (pc = "done") = FALSE
  BY <1>1
<1> QED BY <1>1, <1>2 DEF Executor!AInit

(***************************************************************************)
(* Every step of the queue is a step of the executor or changes nothing    *)
(* that the executor shows.                                                *)
(***************************************************************************)
LEMMA StepRefines == QInv /\ [QNext]_qvars => [Executor!ANext]_(Executor!avars)
<1> SUFFICES ASSUME QInv, [QNext]_qvars
             PROVE  Executor!ANext \/ UNCHANGED Executor!avars
  BY DEF Executor!avars
<1>1. QInv'
  BY NextInv
<1>2. QTypeOK /\ QTypeOK' /\ added \in Nat /\ Len(committed) \in Nat
  BY <1>1, Numbers DEF QInv
<1>3. CASE AddJob
  <2>1. /\ added < NumJobs /\ added' = added + 1
        /\ prepared' = prepared /\ committed' = committed
        /\ (pc = "done") = FALSE /\ (pc' = "done") = FALSE
    BY <1>3 DEF AddJob
  <2> QED BY <2>1 DEF Executor!ANext, Executor!AAdd
<1>4. CASE AddJobInline
  <2>1. /\ added < NumJobs /\ added' = added + 1
        /\ prepared' = prepared \cup {added + 1}
        /\ committed' = Append(committed, added + 1)
        /\ pc' = pc /\ MaxThreads = 0
    BY <1>4 DEF AddJobInline
  <2>2. running = <<>> /\ nextBatch = <<>>
    BY <2>1, MaxThreadsAssumption DEF QInv, ControlConsistent
  <2>3. Len(committed) = added
    BY <2>2, <1>2 DEF QInv, DequeAnchored, Batched
  <2>4. Len(committed') = Len(committed) + 1
    BY <2>1, <1>2 DEF QTypeOK
  <2> QED BY <2>1, <2>3, <2>4 DEF Executor!ANext, Executor!AInline
<1>5. CASE CommitJob
  <2>1. Len(committed') = Len(committed) + 1 /\ Len(committed) + 1 \in prepared
    BY <1>1, <1>2, <1>5, CommitJobInv
  <2>2. UNCHANGED <<pc, added, prepared>>
    BY <1>5 DEF CommitJob
  <2> QED BY <2>1, <2>2 DEF Executor!ANext, Executor!ACommit
<1>6. ASSUME NEW t \in 1..MaxThreads, Prepare(t)
      PROVE  Executor!ANext
  <2>1. PICK j \in 1..added : j \notin prepared /\ prepared' = prepared \cup {j}
    BY <1>2, <1>6, PrepareInv
  <2>2. UNCHANGED <<pc, added, committed>>
    BY <1>6 DEF Prepare
  <2>3. j \in 1..NumJobs
    BY <1>2, NumJobsAssumption DEF QTypeOK
  <2> QED BY <2>1, <2>2, <2>3 DEF Executor!ANext, Executor!APrepare
<1>7. CASE Drain
  <2>1. /\ UNCHANGED <<added, prepared, committed>>
        /\ (pc = "done") = FALSE
        /\ running # <<>> => (pc' = "done") = FALSE
        /\ running = <<>> => (pc' = "done") = TRUE
    BY <1>7 DEF Drain
  <2>2. CASE running # <<>>
    BY <2>1, <2>2 DEF Executor!avars
  <2>3. CASE running = <<>>
    <3>1. added = NumJobs /\ nextBatch = <<>>
      BY <1>7 DEF QInv, ControlConsistent, Drain
    <3>2. Len(committed) = NumJobs
      BY <2>3, <3>1, <1>2 DEF QInv, DequeAnchored, Batched
    <3> QED BY <2>1, <2>3, <3>1, <3>2 DEF Executor!ANext, Executor!AFinish
  <2> QED BY <2>2, <2>3
<1>8. CASE Complete \/ SpawnNextThread \/ EmplaceThread \/ JoinFront \/ PopFront
  <2>1. /\ UNCHANGED <<added, prepared, committed>>
        /\ (pc = "done") = FALSE /\ (pc' = "done") = FALSE
    BY <1>8 DEF Complete, SpawnNextThread, EmplaceThread, JoinFront, PopFront
  <2> QED BY <2>1 DEF Executor!avars
<1>9. CASE UNCHANGED qvars
  BY <1>9 DEF qvars, Executor!avars
<1> QED BY <1>3, <1>4, <1>5, <1>6, <1>7, <1>8, <1>9 DEF QNext, MainStep, Terminated

(***************************************************************************)
(* The queue implements the in-order executor.                             *)
(***************************************************************************)
THEOREM QueueRefinesExecutor == QSpec => RefinesInOrderExecutor
<1>1. QSpec => Executor!ASpec
  BY InitRefines, StepRefines, InvariantHolds, PTL DEF QSpec, Executor!ASpec
<1> QED BY <1>1 DEF RefinesInOrderExecutor

-----------------------------------------------------------------------------
(* JobsConserved: committed, in the deque, waiting.                        *)

\* The jobs a+1, ..., b in order.
Run(a, b) == [k \in 1..(b - a) |-> a + k]

\* The equation of the function behind FlattenSeq.
Flattens(g, s) == g = [i \in 1..Len(s) |-> IF i = 1 THEN s[i] ELSE g[i - 1] \o s[i]]

\* The jobs of a thread that are not committed.
Left(t) == SubSeq(running[t].jobs, running[t].comm + 1, Len(running[t].jobs))

\* The last job of a thread.
LastJob(t) == First(t) + Size(t) - 1

(***************************************************************************)
(* Naturals of which there is one have a least one.                        *)
(***************************************************************************)
LEMMA LeastOf ==
    ASSUME NEW S, S \subseteq Nat, S # {}
    PROVE  \E x \in S : \A y \in S : x <= y
<1>1. PICK x \in S : \A y \in S : ~(<<y, x>> \in OpToRel(<, Nat))
  <2>1. IsWellFoundedOn(OpToRel(<, Nat), Nat)
    BY NatLessThanWellFounded
  <2> HIDE DEF OpToRel
  <2> QED BY <2>1, WFMin, Zenon
<1>2. \A y \in S : ~(y < x)
  BY <1>1 DEF OpToRel
<1> QED BY <1>2

(***************************************************************************)
(* Sequences that satisfy the equation at each place satisfy it.           *)
(***************************************************************************)
LEMMA FlattensAt ==
    ASSUME NEW h, NEW s, h = [i \in 1..Len(s) |-> h[i]],
           \A i \in 1..Len(s) : h[i] = IF i = 1 THEN s[i] ELSE h[i - 1] \o s[i]
    PROVE  Flattens(h, s)
BY DEF Flattens

(***************************************************************************)
(* A solution of the equation gives what FlattenSeq returns.               *)
(***************************************************************************)
LEMMA FlattenIs ==
    ASSUME NEW s, Len(s) \in Nat \ {0}, NEW h, Flattens(h, s)
    PROVE  FlattenSeq(s) = h[Len(s)]
<1> DEFINE g == CHOOSE f : Flattens(f, s)
           n == Len(s)
           Apart == {i \in 1..n : g[i] # h[i]}
<1>1. FlattenSeq(s) = g[n]
  BY DEF FlattenSeq, Flattens
<1>2. Flattens(g, s)
  OBVIOUS
<1> HIDE DEF g
<1>3. \A i \in 1..n : /\ g[i] = IF i = 1 THEN s[i] ELSE g[i - 1] \o s[i]
                      /\ h[i] = IF i = 1 THEN s[i] ELSE h[i - 1] \o s[i]
  <2>1. \A i \in 1..n : g[i] = IF i = 1 THEN s[i] ELSE g[i - 1] \o s[i]
    BY <1>2, Zenon DEF Flattens
  <2>2. \A i \in 1..n : h[i] = IF i = 1 THEN s[i] ELSE h[i - 1] \o s[i]
    BY Zenon DEF Flattens
  <2> QED BY <2>1, <2>2, Zenon
<1>4. Apart = {}
  <2> SUFFICES ASSUME Apart # {} PROVE FALSE
    OBVIOUS
  <2>1. PICK i \in Apart : \A j \in Apart : i <= j
    <3>1. Apart \subseteq Nat
      OBVIOUS
    <3> HIDE DEF Apart
    <3> QED BY <3>1, LeastOf
  <2>2. i # 1 /\ i \in 1..n /\ g[i] # h[i]
    BY <1>3
  <2>3. i - 1 \in 1..n /\ i - 1 < i
    BY <2>2
  <2>4. g[i - 1] = h[i - 1]
    BY <2>1, <2>2, <2>3
  <2> QED BY <1>3, <2>2, <2>4
<1> QED BY <1>1, <1>4

(***************************************************************************)
(* Runs of jobs that follow each other make a run.                         *)
(***************************************************************************)
LEMMA RunFacts ==
    ASSUME NEW a \in Nat, NEW b \in Nat, NEW c \in Nat, a <= b, b <= c
    PROVE  /\ Run(a, b) \in Seq(Nat) /\ Len(Run(a, b)) = b - a
           /\ Run(a, b) \o Run(b, c) = Run(a, c)
<1>1. \A x, y \in Nat : x <= y => Run(x, y) \in Seq(Nat) /\ Len(Run(x, y)) = y - x
  BY DEF Run
<1>2. \A x, y \in Nat : \A k \in 1..(y - x) : Run(x, y)[k] = x + k
  BY DEF Run
<1> DEFINE ab == Run(a, b)
           bc == Run(b, c)
           ac == Run(a, c)
<1>3. /\ ab \in Seq(Nat) /\ bc \in Seq(Nat) /\ ac \in Seq(Nat)
      /\ Len(ab) = b - a /\ Len(bc) = c - b /\ Len(ac) = c - a
  <2>1. a <= c
    OBVIOUS
  <2> QED BY <1>1, <2>1
<1>4. /\ \A k \in 1..(b - a) : ab[k] = a + k
      /\ \A k \in 1..(c - b) : bc[k] = b + k
      /\ \A k \in 1..(c - a) : ac[k] = a + k
  BY <1>2
<1> HIDE DEF ab, bc, ac
<1>5. ab \o bc \in Seq(Nat) /\ Len(ab \o bc) = c - a
  BY <1>3
<1>6. ASSUME NEW k \in 1..(c - a) PROVE (ab \o bc)[k] = ac[k]
  <2>1. (ab \o bc)[k] = IF k <= Len(ab) THEN ab[k] ELSE bc[k - Len(ab)]
    BY <1>3
  <2>2. CASE k <= b - a
    BY <1>3, <1>4, <2>1, <2>2
  <2>3. CASE ~(k <= b - a)
    <3>1. k - (b - a) \in 1..(c - b)
      BY <2>3
    <3> QED BY <1>3, <1>4, <2>1, <2>3, <3>1
  <2> QED BY <2>2, <2>3
<1>7. ab \o bc = ac
  BY <1>3, <1>5, <1>6, SeqEqual
<1> QED BY <1>3, <1>7 DEF ab, bc, ac

(***************************************************************************)
(* What is left of a thread's batch, and of the batches in front of it.    *)
(***************************************************************************)
LEMMA LeftFacts ==
    ASSUME QInv, NEW t \in Threads
    PROVE  /\ LastJob(t) \in Nat /\ LastJob(t) >= Len(committed)
           /\ t = 1 => Left(t) = Run(Len(committed), LastJob(t))
           /\ t # 1 => /\ t - 1 \in Threads /\ LastJob(t - 1) <= LastJob(t)
                       /\ Left(t) = Run(LastJob(t - 1), LastJob(t))
<1>1. /\ QTypeOK
      /\ BatchesConsecutive
      /\ DequeAnchored
      /\ PreparedTracked
  BY DEF QInv
<1>2. /\ Len(running) \in Nat /\ Len(committed) \in Nat
      /\ t \in 1..Len(running)
  BY <1>1, Numbers DEF Threads
<1>3. \A u \in Threads : /\ First(u) \in Nat \ {0} /\ Size(u) \in Nat \ {0}
                         /\ NComm(u) \in 0..Size(u)
                         /\ First(u) + NComm(u) >= Len(committed) + 1
  BY BatchBounds
<1>4. LastJob(t) \in Nat /\ LastJob(t) >= Len(committed)
  BY <1>2, <1>3 DEF LastJob
<1> DEFINE from == First(t) + NComm(t) - 1
<1>5. from \in Nat /\ from <= LastJob(t)
  BY <1>3 DEF LastJob
<1>6. Left(t) = Run(from, LastJob(t))
  <2> DEFINE jobs == running[t].jobs
             c == NComm(t)
             n == Size(t)
  <2>1. /\ jobs \in Seq(Jobs) /\ n \in Nat /\ c \in 0..n
        /\ \A i \in 1..n : jobs[i] = First(t) + i - 1
    BY <1>1, <1>2, <1>3, ThreadFields DEF BatchesConsecutive, Size
  <2>2. Left(t) = SubSeq(jobs, c + 1, n)
    BY DEF Left, NComm, Size
  <2>3. Run(from, LastJob(t)) = [k \in 1..(n - c) |-> from + k]
    <3>1. LastJob(t) - from = n - c
      BY <1>3 DEF LastJob
    <3> HIDE DEF from, n, c
    <3> QED BY <3>1 DEF Run
  <2> HIDE DEF n, c, jobs
  <2>4. SubSeq(jobs, c + 1, n) = [k \in 1..(n - c) |-> jobs[c + k]]
    BY <2>1
  <2>5. ASSUME NEW k \in 1..(n - c) PROVE jobs[c + k] = from + k
    <3>1. c + k \in 1..n /\ c \in Nat /\ k \in Nat
      BY <2>1
    <3>2. jobs[c + k] = First(t) + (c + k) - 1
      BY <2>1, <3>1
    <3>3. First(t) \in Nat
      BY <1>3
    <3>4. from = First(t) + c - 1
      BY DEF c
    <3> HIDE DEF from
    <3> QED BY <3>1, <3>2, <3>3, <3>4
  <2> HIDE DEF from
  <2> QED BY <2>2, <2>3, <2>4, <2>5
<1>7. ASSUME t = 1 PROVE from = Len(committed)
  BY <1>1, <1>2, <1>3, <1>7 DEF DequeAnchored
<1>8. ASSUME t # 1 PROVE t - 1 \in Threads /\ from = LastJob(t - 1)
  <2>1. t - 1 \in Threads /\ (t - 1) + 1 = t
    BY <1>2, <1>8 DEF Threads
  <2>2. First(t) = First(t - 1) + Size(t - 1)
    BY <1>1, <2>1 DEF BatchesConsecutive
  <2>3. NComm(t) = 0
    BY <1>1, <1>8 DEF PreparedTracked
  <2> QED BY <1>3, <2>1, <2>2, <2>3 DEF LastJob
<1> HIDE DEF from
<1> QED BY <1>4, <1>5, <1>6, <1>7, <1>8

(***************************************************************************)
(* No job is lost between the waiting batch, the deque and commit(), none  *)
(* is in two places, and all of them are in order.                         *)
(***************************************************************************)
LEMMA JobsRead ==
    ASSUME QInv
    PROVE  JobsConserved
<1>1. /\ QTypeOK /\ BatchesConsecutive /\ DequeAnchored
      /\ CommittedInOrder
  BY DEF QInv
<1> DEFINE n == Len(committed)
           s == [t \in 1..Len(running) |-> Left(t)]
           h == [t \in 1..Len(running) |-> Run(n, LastJob(t))]
<1>2. /\ Len(running) \in Nat /\ Len(nextBatch) \in Nat /\ n \in Nat /\ added \in Nat
      /\ Batched = added - Len(nextBatch)
  BY <1>1, Numbers
<1>3. Batched \in Nat /\ Batched <= added
  BY <1>1, <1>2 DEF DequeAnchored
<1>4. committed = Run(0, n)
  <2>1. committed \in Seq(Jobs)
    BY <1>1 DEF QTypeOK
  <2>2. committed = [i \in 1..n |-> i]
    BY <1>1, <2>1 DEF CommittedInOrder
  <2>3. Run(0, n) = [i \in 1..n |-> i]
    <3>1. n - 0 = n /\ \A k \in 1..n : 0 + k = k
      BY <1>2
    <3> HIDE DEF n
    <3> QED BY <3>1 DEF Run
  <2> QED BY <2>2, <2>3
<1>5. nextBatch = Run(Batched, added)
  <2>1. nextBatch \in Seq(Jobs)
    BY <1>1 DEF QTypeOK
  <2>2. nextBatch = [i \in 1..Len(nextBatch) |-> Batched + i]
    BY <1>1, <2>1 DEF DequeAnchored
  <2>3. added - Batched = Len(nextBatch)
    BY <1>2, <1>3
  <2> QED BY <2>2, <2>3 DEF Run
<1>6. FlattenSeq(s) = Run(n, Batched) /\ n <= Batched
  <2>1. Len(s) = Len(running) /\ Len(h) = Len(running)
    BY <1>2
  <2>2. CASE running = <<>>
    <3>1. n = Batched /\ Len(running) = 0
      BY <1>1, <2>2 DEF DequeAnchored
    <3>2. Run(n, Batched) = <<>>
      <4>1. 1..(Batched - n) = 1..0
        BY <1>2, <3>1
      <4> QED BY <4>1 DEF Run
    <3>3. s = <<>>
      BY <3>1
    <3>4. FlattenSeq(s) = s
      BY <2>1, <3>1 DEF FlattenSeq
    <3> QED BY <1>2, <3>1, <3>2, <3>3, <3>4
  <2>3. CASE running # <<>>
    <3>1. Len(running) \in Threads /\ 1 \in Threads /\ Len(running) \in 1..Len(running)
      BY <1>1, <1>2, <2>3, Numbers DEF Threads
    <3>2. LastJob(Len(running)) = Batched
      <4>1. /\ First(Len(running)) + Size(Len(running)) = Batched + 1
            /\ First(Len(running)) \in Nat /\ Size(Len(running)) \in Nat
        BY <1>1, <3>1, BatchBounds DEF DequeAnchored
      <4> QED BY <1>3, <4>1 DEF LastJob
    <3>3. ASSUME NEW t \in 1..Len(running)
          PROVE  Run(n, LastJob(t)) = IF t = 1 THEN s[t] ELSE h[t - 1] \o s[t]
      <4>1. t \in Threads /\ s[t] = Left(t)
        BY <3>3 DEF Threads
      <4>2. CASE t = 1
        BY <4>1, <4>2, LeftFacts
      <4>3. CASE t # 1
        <5>1. /\ t - 1 \in Threads /\ LastJob(t - 1) <= LastJob(t)
              /\ s[t] = Run(LastJob(t - 1), LastJob(t))
              /\ LastJob(t) \in Nat
          BY <4>1, <4>3, LeftFacts
        <5>2. LastJob(t - 1) \in Nat /\ LastJob(t - 1) >= n
          BY <5>1, LeftFacts
        <5>3. h[t - 1] = Run(n, LastJob(t - 1))
          BY <5>1 DEF Threads
        <5> HIDE DEF n, s, h
        <5>4. Run(n, LastJob(t - 1)) \o Run(LastJob(t - 1), LastJob(t)) = Run(n, LastJob(t))
          BY <1>2, <5>1, <5>2, RunFacts
        <5> QED BY <4>3, <5>1, <5>3, <5>4
      <4> QED BY <4>2, <4>3
    <3>4. Flattens(h, s)
      <4>1. h = [t \in 1..Len(running) |-> h[t]]
        OBVIOUS
      <4>2. \A t \in 1..Len(running) : h[t] = Run(n, LastJob(t))
        OBVIOUS
      <4> HIDE DEF h, s
      <4>3. \A t \in 1..Len(running) : h[t] = IF t = 1 THEN s[t] ELSE h[t - 1] \o s[t]
        BY <3>3, <4>2
      <4>4. /\ h = [t \in 1..Len(s) |-> h[t]]
            /\ \A t \in 1..Len(s) : h[t] = IF t = 1 THEN s[t] ELSE h[t - 1] \o s[t]
        BY <2>1, <4>1, <4>3
      <4> QED BY <4>4, FlattensAt, Zenon
    <3>5. h[Len(running)] = Run(n, Batched)
      BY <3>1, <3>2
    <3>6. n <= Batched
      BY <3>1, <3>2, LeftFacts
    <3>7. Len(running) \in Nat \ {0}
      BY <1>2, <3>1
    <3> HIDE DEF h, s, n
    <3> QED BY <2>1, <3>4, <3>5, <3>6, <3>7, FlattenIs
  <2> QED BY <2>2, <2>3
<1>7. committed \o FlattenSeq(s) = Run(0, Batched)
  <2>1. 0 \in Nat /\ 0 <= n /\ n <= Batched /\ n \in Nat /\ Batched \in Nat
    BY <1>2, <1>3, <1>6
  <2> HIDE DEF n
  <2>2. Run(0, n) \o Run(n, Batched) = Run(0, Batched)
    BY <2>1, RunFacts, Zenon
  <2> QED BY <1>4, <1>6, <2>2
<1>8. Run(0, Batched) \o nextBatch = Run(0, added)
  <2>1. 0 \in Nat /\ 0 <= Batched /\ Batched <= added /\ Batched \in Nat /\ added \in Nat
    BY <1>2, <1>3
  <2>2. Run(0, Batched) \o Run(Batched, added) = Run(0, added)
    BY <2>1, RunFacts, Zenon
  <2> QED BY <1>5, <2>2
<1>9. Run(0, added) = [j \in 1..added |-> j]
  <2>1. added - 0 = added /\ \A k \in 1..added : 0 + k = k
    BY <1>2
  <2> QED BY <2>1 DEF Run
<1>10. JobsConserved <=> committed \o FlattenSeq(s) \o nextBatch = [j \in 1..added |-> j]
  BY DEF JobsConserved, Left
<1> HIDE DEF s
<1> QED BY <1>7, <1>8, <1>9, <1>10

(***************************************************************************)
(* No job is dropped, duplicated or out of its order on its way from       *)
(* add_job to commit().                                                    *)
(***************************************************************************)
THEOREM JobsAlwaysConserved == QSpec => []JobsConserved
<1>1. QInv => JobsConserved
  BY JobsRead
<1> QED BY <1>1, InvariantHolds, PTL
=============================================================================
