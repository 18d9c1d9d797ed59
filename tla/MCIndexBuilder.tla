--------------------------- MODULE MCIndexBuilder ---------------------------
(***************************************************************************)
(* Instances of IndexBuilder for TLC: with worker threads, and without.    *)
(***************************************************************************)
EXTENDS IndexBuilder

\* Lists that fill a batch alone, lists that share one, a light batch at the
\* end, and a truncated last list that is empty.
MixedSize  == <<1, 1, 3, 1, 2, 1, 1, 2, 1, 0>>
MixedBytes == <<1, 2, 3, 1, 1, 2, 1, 1, 1, 1>>

VARIABLE workers    \* DS2I_THREADS is not 0

Inline == INSTANCE IndexBuilder WITH MaxThreads <- 0

mcvars == <<vars, workers>>

MCInit == Init /\ workers \in BOOLEAN

Threaded == workers /\ UNCHANGED workers
Alone == ~workers /\ UNCHANGED workers

ThreadedMain ==
    \/ Threaded /\ SkipList
    \/ Threaded /\ AddPostingList
    \/ Threaded /\ BuildComplete
    \/ Threaded /\ QueueStep
    \/ Threaded /\ CommitList
    \/ Threaded /\ FillIndex

InlineMain ==
    \/ Alone /\ Inline!SkipList
    \/ Alone /\ Inline!AddPostingListInline
    \/ Alone /\ Inline!BuildComplete
    \/ Alone /\ Inline!QueueStep
    \/ Alone /\ Inline!FillIndex

MCNext ==
    \/ ThreadedMain
    \/ \E t \in 1..MaxThreads : Threaded /\ PrepareList(t)
    \/ InlineMain
    \/ Terminated /\ UNCHANGED workers

MCSpec ==
    /\ MCInit /\ [][MCNext]_mcvars
    /\ WF_mcvars(ThreadedMain) /\ WF_mcvars(InlineMain)
    /\ \A t \in 1..MaxThreads : WF_mcvars(Threaded /\ PrepareList(t))
=============================================================================
