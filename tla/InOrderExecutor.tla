-------------------------- MODULE InOrderExecutor --------------------------
(***************************************************************************)
(* What semiasync_queue promises the code that uses it: jobs are prepared  *)
(* in any order and concurrently, but they are committed one at a time, in *)
(* the order in which they were added, each one only after its own         *)
(* prepare() has returned.  Threads, batches and the limit on both are     *)
(* invisible here.                                                         *)
(***************************************************************************)
EXTENDS Naturals

CONSTANT NumJobs        \* jobs the caller adds before it calls complete()

VARIABLES added,        \* jobs 1..added have been handed to add_job
          prepared,     \* jobs whose prepare() has returned
          committed,    \* jobs 1..committed have been committed
          finished      \* complete() has returned

avars == <<added, prepared, committed, finished>>

AInit ==
    /\ added = 0
    /\ prepared = {}
    /\ committed = 0
    /\ finished = FALSE

\* The caller hands over one more job.
AAdd ==
    /\ added < NumJobs
    /\ added' = added + 1
    /\ UNCHANGED <<prepared, committed, finished>>

\* Some thread runs prepare() of a job, once.
APrepare(j) ==
    /\ j \in 1..added
    /\ j \notin prepared
    /\ prepared' = prepared \cup {j}
    /\ UNCHANGED <<added, committed, finished>>

\* The caller's own thread commits the oldest job not yet committed.
ACommit ==
    /\ committed + 1 \in prepared
    /\ committed' = committed + 1
    /\ UNCHANGED <<added, prepared, finished>>

\* add_job without worker threads: the three steps in one call.
AInline ==
    /\ added < NumJobs
    /\ committed = added
    /\ added' = added + 1
    /\ prepared' = prepared \cup {added + 1}
    /\ committed' = committed + 1
    /\ UNCHANGED finished

\* complete() returns only once nothing is left to commit.
AFinish ==
    /\ added = NumJobs
    /\ committed = NumJobs
    /\ finished' = TRUE
    /\ UNCHANGED <<added, prepared, committed>>

ANext ==
    \/ AAdd
    \/ \E j \in 1..NumJobs : APrepare(j)
    \/ ACommit
    \/ AInline
    \/ AFinish

ASpec == AInit /\ [][ANext]_avars
=============================================================================
