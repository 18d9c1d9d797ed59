-------------------------- MODULE MCSemiasyncQueue --------------------------
(***************************************************************************)
(* Instances of SemiasyncQueue for TLC: with worker threads, and without,  *)
(* where DS2I_THREADS is 0 and everything happens in add_job.              *)
(***************************************************************************)
EXTENDS SemiasyncQueue

\* Heavy and light jobs in turn: a job that fills a batch alone, batches of
\* two and three jobs, and a light batch left over for complete().
MixedWork == <<1, 2, 3, 1, 1, 1, 2, 1, 1, 3, 1>>

VARIABLE workers    \* there are worker threads

Inline == INSTANCE SemiasyncQueue WITH MaxThreads <- 0

mcvars == <<qvars, workers>>

MCInit == QInit /\ workers \in BOOLEAN

Threaded == workers /\ UNCHANGED workers
Alone == ~workers /\ UNCHANGED workers

ThreadedMain ==
    \/ Threaded /\ AddJob
    \/ Threaded /\ Complete
    \/ Threaded /\ SpawnNextThread
    \/ Threaded /\ EmplaceThread
    \/ Threaded /\ JoinFront
    \/ Threaded /\ CommitJob
    \/ Threaded /\ PopFront
    \/ Threaded /\ Drain

InlineMain ==
    \/ Alone /\ Inline!AddJobInline
    \/ Alone /\ Inline!Complete
    \/ Alone /\ Inline!Drain

MCNext ==
    \/ ThreadedMain
    \/ \E t \in 1..MaxThreads : Threaded /\ Prepare(t)
    \/ InlineMain
    \/ Terminated /\ UNCHANGED workers

MCSpec ==
    /\ MCInit /\ [][MCNext]_mcvars
    /\ WF_mcvars(ThreadedMain) /\ WF_mcvars(InlineMain)
    /\ \A t \in 1..MaxThreads : WF_mcvars(Threaded /\ Prepare(t))
=============================================================================
