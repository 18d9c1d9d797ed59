--------------------------- MODULE SemiasyncQueue ---------------------------
(***************************************************************************)
(* ds2i::semiasync_queue (include/ds2i/semiasync_queue.hpp).               *)
(*                                                                         *)
(* Jobs are numbered 1..NumJobs in the order in which the program adds     *)
(* them.  The main thread runs add_job for each of them and complete at    *)
(* the end; a worker thread runs prepare() over one batch of jobs.  The    *)
(* main thread moves through `pc', one value per place of the calls        *)
(*                                                                         *)
(*   add_job / complete  -> spawn_next_thread -> commit_thread             *)
(*   complete            -> commit_thread                                  *)
(*                                                                         *)
(* where a worker can take a step in between.                              *)
(***************************************************************************)
EXTENDS Naturals, SequencesExt

CONSTANTS
    NumJobs,        \* how many jobs the program adds before complete()
    Work,           \* Work[j]: the expected_work job j is added with
    WorkPerThread,  \* m_work_per_thread
    MaxThreads      \* m_max_threads: DS2I_THREADS or hardware_concurrency(),
                    \* both of which may be 0

ASSUME NumJobsAssumption == NumJobs \in Nat
ASSUME WorkAssumption == Work \in [1..NumJobs -> Nat]
ASSUME WorkPerThreadAssumption == WorkPerThread \in Nat \ {0}
ASSUME MaxThreadsAssumption == MaxThreads \in Nat

VARIABLES
    pc,             \* where the main thread is
    completing,     \* the public call in progress is complete()
    added,          \* number of jobs handed to add_job
    nextBatch,      \* m_next_thread.first
    expected,       \* m_expected_work
    running,        \* m_running_threads: per thread its jobs, how many it has
                    \* prepared, and how many of them the main thread committed
    prepared,       \* jobs whose prepare() has returned
    committed       \* history of the commit() calls

qvars == <<pc, completing, added, nextBatch, expected, running, prepared, committed>>

Jobs == 1..NumJobs

PcValues == {"idle", "spawn", "emplace", "join", "commit", "drain", "done"}

Thread == [jobs : Seq(Jobs), prep : Nat, comm : Nat]

QTypeOK ==
    /\ pc \in PcValues
    /\ completing \in BOOLEAN
    /\ added \in 0..NumJobs
    /\ nextBatch \in Seq(Jobs)
    /\ expected \in Nat
    /\ running \in Seq(Thread)
    /\ prepared \in SUBSET Jobs
    /\ committed \in Seq(Jobs)

QInit ==
    /\ pc = "idle"
    /\ completing = FALSE
    /\ added = 0
    /\ nextBatch = <<>>
    /\ expected = 0
    /\ running = <<>>
    /\ prepared = {}
    /\ committed = <<>>

-----------------------------------------------------------------------------
(* The main thread.                                                        *)

\* add_job with worker threads: the job joins the batch, and a batch that is
\* heavy enough gets a thread.
AddJob ==
    /\ pc = "idle" /\ added < NumJobs
    /\ MaxThreads > 0
    /\ added' = added + 1
    /\ nextBatch' = Append(nextBatch, added + 1)
    /\ expected' = expected + Work[added + 1]
    /\ pc' = IF expected' >= WorkPerThread THEN "spawn" ELSE "idle"
    /\ UNCHANGED <<completing, running, prepared, committed>>

\* add_job without worker threads: all in the main thread.
AddJobInline ==
    /\ pc = "idle" /\ added < NumJobs
    /\ MaxThreads = 0
    /\ added' = added + 1
    /\ prepared' = prepared \cup {added + 1}
    /\ committed' = Append(committed, added + 1)
    /\ UNCHANGED <<pc, completing, nextBatch, expected, running>>

\* complete() is called: the last, light batch gets a thread too.
Complete ==
    /\ pc = "idle" /\ added = NumJobs
    /\ completing' = TRUE
    /\ pc' = IF nextBatch # <<>> THEN "spawn" ELSE "drain"
    /\ UNCHANGED <<added, nextBatch, expected, running, prepared, committed>>

\* Mutant of SpawnNextThread: the limit on threads is compared off by one.
SpawnNextThread_OneTooMany ==
    /\ pc = "spawn"
    /\ pc' = IF Len(running) > MaxThreads THEN "join" ELSE "emplace"
    /\ UNCHANGED <<completing, added, nextBatch, expected, running, prepared, committed>>

\* spawn_next_thread first commits the oldest thread when all are in use.
SpawnNextThread ==
    /\ pc = "spawn"
    /\ pc' = IF Len(running) = MaxThreads THEN "join" ELSE "emplace"
    /\ UNCHANGED <<completing, added, nextBatch, expected, running, prepared, committed>>

\* Mutant of EmplaceThread: the batch is copied into the thread, not swapped.
EmplaceThread_BatchCopied ==
    /\ pc = "emplace"
    /\ running' = Append(running, [jobs |-> nextBatch, prep |-> 0, comm |-> 0])
    /\ expected' = 0
    /\ pc' = IF completing THEN "drain" ELSE "idle"
    /\ UNCHANGED <<completing, added, nextBatch, prepared, committed>>

\* The batch is swapped into a new element of the deque and its thread starts.
EmplaceThread ==
    /\ pc = "emplace"
    /\ running' = Append(running, [jobs |-> nextBatch, prep |-> 0, comm |-> 0])
    /\ nextBatch' = <<>>
    /\ expected' = 0
    /\ pc' = IF completing THEN "drain" ELSE "idle"
    /\ UNCHANGED <<completing, added, prepared, committed>>

\* Mutant of JoinFront: the thread is not joined before its jobs are committed.
JoinFront_NoWait ==
    /\ pc = "join"
    /\ running # <<>>
    /\ pc' = "commit"
    /\ UNCHANGED <<completing, added, nextBatch, expected, running, prepared, committed>>

\* commit_thread: join() returns once the oldest thread has prepared its batch.
JoinFront ==
    /\ pc = "join"
    /\ running # <<>>
    /\ Head(running).prep = Len(Head(running).jobs)
    /\ pc' = "commit"
    /\ UNCHANGED <<completing, added, nextBatch, expected, running, prepared, committed>>

\* Mutant of CommitJob: the jobs of a batch are committed last to first.
CommitJob_Backwards ==
    /\ pc = "commit"
    /\ LET front == Head(running) IN
        /\ front.comm < Len(front.jobs)
        /\ committed' = Append(committed, front.jobs[Len(front.jobs) - front.comm])
        /\ running' = [running EXCEPT ![1].comm = @ + 1]
    /\ UNCHANGED <<pc, completing, added, nextBatch, expected, prepared>>

\* commit_thread: commit() of one job of the joined thread, in batch order.
CommitJob ==
    /\ pc = "commit"
    /\ LET front == Head(running) IN
        /\ front.comm < Len(front.jobs)
        /\ committed' = Append(committed, front.jobs[front.comm + 1])
        /\ running' = [running EXCEPT ![1].comm = @ + 1]
    /\ UNCHANGED <<pc, completing, added, nextBatch, expected, prepared>>

\* commit_thread: pop_front and return.  A batch is waiting exactly when the
\* caller is spawn_next_thread, which then goes on to emplace it.
PopFront ==
    /\ pc = "commit"
    /\ Head(running).comm = Len(Head(running).jobs)
    /\ running' = Tail(running)
    /\ pc' = IF nextBatch # <<>> THEN "emplace" ELSE "drain"
    /\ UNCHANGED <<completing, added, nextBatch, expected, prepared, committed>>

\* Mutant of Drain: complete() waits for a thread when none is left.
Drain_NeverAgain ==
    /\ pc = "drain"
    /\ pc' = IF running # <<>> THEN "join" ELSE "drain"
    /\ UNCHANGED <<completing, added, nextBatch, expected, running, prepared, committed>>

\* complete(): while a thread is left, commit the oldest one.
Drain ==
    /\ pc = "drain"
    /\ pc' = IF running # <<>> THEN "join" ELSE "done"
    /\ UNCHANGED <<completing, added, nextBatch, expected, running, prepared, committed>>

MainStep ==
    \/ AddJob \/ AddJobInline \/ Complete
    \/ SpawnNextThread \/ EmplaceThread
    \/ JoinFront \/ CommitJob \/ PopFront
    \/ Drain

-----------------------------------------------------------------------------
(* The worker threads.                                                     *)

\* The t-th thread of the deque runs prepare() of the next job of its batch.
Prepare(t) ==
    /\ t \in 1..Len(running)
    /\ running[t].prep < Len(running[t].jobs)
    /\ prepared' = prepared \cup {running[t].jobs[running[t].prep + 1]}
    /\ running' = [running EXCEPT ![t].prep = @ + 1]
    /\ UNCHANGED <<pc, completing, added, nextBatch, expected, committed>>

\* The program has returned from complete() and does nothing more.
Terminated == pc = "done" /\ UNCHANGED qvars

QNext ==
    \/ MainStep
    \/ \E t \in 1..MaxThreads : Prepare(t)
    \/ Terminated

\* The operating system runs the main thread and every thread that was started.
QFairness ==
    /\ WF_qvars(MainStep)
    /\ \A t \in 1..MaxThreads : WF_qvars(Prepare(t))

QSpec == QInit /\ [][QNext]_qvars /\ QFairness

-----------------------------------------------------------------------------
(* Properties.                                                             *)

\* The threads and batches of the queue implement an executor that commits
\* job after job in the order of the add_job calls, never before the job's own
\* prepare() has returned, and that leaves nothing behind when complete()
\* returns: m_lists and m_endpoints of an index builder depend on all of it.
Executor == INSTANCE InOrderExecutor
    WITH committed <- Len(committed), finished <- pc = "done"

RefinesInOrderExecutor == Executor!ASpec

\* The first job and the number of jobs of the t-th thread, and how many of
\* them it has prepared and how many of them are committed.
First(t)  == running[t].jobs[1]
Size(t)   == Len(running[t].jobs)
NPrep(t)  == running[t].prep
NComm(t)  == running[t].comm

Threads == 1..Len(running)

\* Jobs 1..Batched were moved from m_next_thread to a thread.
Batched == added - Len(nextBatch)

\* Where every job is: the batches of the deque are nonempty runs of
\* consecutive jobs, each starting where the one in front of it ends ...
BatchesConsecutive ==
    /\ \A t \in Threads :
        /\ Size(t) > 0
        /\ \A i \in 1..Size(t) : running[t].jobs[i] = First(t) + i - 1
    /\ \A t, u \in Threads : t < u => First(t) + Size(t) <= First(u)
    /\ \A t \in Threads : t + 1 \in Threads => First(t + 1) = First(t) + Size(t)

\* ... the first one starts at the next job to commit, the last one ends where
\* the waiting batch starts, and that one ends with the job added last.
DequeAnchored ==
    /\ Len(nextBatch) <= added
    /\ \A i \in 1..Len(nextBatch) : nextBatch[i] = Batched + i
    /\ running = <<>> => Len(committed) = Batched
    /\ 1 \in Threads => First(1) + NComm(1) = Len(committed) + 1
    /\ \A t \in Threads : t = Len(running) => First(t) + Size(t) = Batched + 1

\* What has been done to every job: all of the committed ones are prepared, of a
\* batch those its thread went through, and no thread but the first one, once
\* it is joined, has committed jobs.
PreparedTracked ==
    /\ 1..Len(committed) \subseteq prepared
    /\ \A j \in prepared : j <= Batched
    /\ \A t \in Threads :
        /\ NPrep(t) <= Size(t)
        /\ NComm(t) <= Size(t)
        /\ \A i \in 1..Size(t) : running[t].jobs[i] \in prepared <=> i <= NPrep(t)
        /\ (t # 1 \/ pc # "commit") => NComm(t) = 0
    /\ pc = "commit" => NPrep(1) = Size(1)

\* What the main thread knows at each place.
ControlConsistent ==
    /\ nextBatch # <<>> => MaxThreads > 0
    /\ pc \in {"spawn", "emplace"} => nextBatch # <<>>
    /\ pc = "emplace" => Len(running) < MaxThreads
    /\ pc \in {"drain", "done"} => nextBatch = <<>> /\ completing
    /\ (pc \in {"join", "commit"} /\ nextBatch = <<>>) => completing
    /\ completing => added = NumJobs
    /\ pc = "done" => running = <<>>
    /\ MaxThreads = 0 => running = <<>>

\* The history of commit() calls is 1, 2, 3, ...: no job is committed twice,
\* skipped or overtaken by a job of a thread that finished earlier.
CommittedInOrder == \A i \in 1..Len(committed) : committed[i] = i

\* spawn_next_thread keeps at most m_max_threads threads alive although it
\* starts the new one before anyone else looks, and commit_thread, which
\* asserts a running thread, is only reached with one.
ThreadsBounded ==
    /\ Len(running) <= MaxThreads
    /\ pc \in {"join", "commit"} => running # <<>>

\* The inductive invariant behind the proofs of SemiasyncQueue_proofs: none of
\* the properties above is preserved by the steps unless it is known where
\* every uncommitted job is, and in which order.
QInv ==
    /\ QTypeOK
    /\ BatchesConsecutive
    /\ DequeAnchored
    /\ PreparedTracked
    /\ ControlConsistent
    /\ CommittedInOrder
    /\ ThreadsBounded

\* No job is with two threads, or with a thread and committed, and none is
\* dropped between m_next_thread, the deque and commit(): read in that order
\* the three hold every job added so far exactly once, in order.
JobsConserved ==
    LET uncommitted(t) == SubSeq(running[t].jobs, running[t].comm + 1, Len(running[t].jobs))
        threads == FlattenSeq([t \in 1..Len(running) |-> uncommitted(t)])
    IN  committed \o threads \o nextBatch = [j \in 1..added |-> j]

\* With a fair scheduler complete() returns, with every job committed: joins
\* never wait for each other and the last light batch is not forgotten.
AllCommitted == <>(pc = "done" /\ Len(committed) = NumJobs)
=============================================================================
