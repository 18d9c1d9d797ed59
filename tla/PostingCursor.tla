---------------------------- MODULE PostingCursor ----------------------------
(***************************************************************************)
(* What a document_enumerator promises a query: a cursor that walks over   *)
(* the postings of one list, forward only, with the docid of the posting   *)
(* it is at always visible and its frequency on demand.  Blocks, codecs    *)
(* and what is decoded when are invisible here.                            *)
(***************************************************************************)
EXTENDS Integers, Sequences

CONSTANT Universe       \* the docid of a cursor past the last posting

VARIABLES list,         \* the posting list: its docs and its freqs
          k,            \* the cursor is at the k-th posting, or past the last
          docid,        \* docid()
          answer,       \* what freq() returned for this posting, 0 if not asked
          asked,        \* no lower bound below it is asked for any more
          call          \* the call in progress

cvars == <<list, k, docid, answer, asked, call>>

NoCall == [op |-> "none", bound |-> 0]

Size == Len(list.docs)

DocAt(i) == IF i <= Size THEN list.docs[i] ELSE Universe

\* The cursor moves to posting i.
At(i) == k' = i /\ docid' = DocAt(i) /\ answer' = 0

CInit ==
    /\ k = 1
    /\ docid = DocAt(1)
    /\ answer = 0
    /\ asked = 0
    /\ call = NoCall

CReset ==
    /\ call = NoCall
    /\ At(1)
    /\ asked' = 0
    /\ UNCHANGED <<list, call>>

CNext ==
    /\ call = NoCall
    /\ k <= Size
    /\ At(k + 1)
    /\ asked' = docid + 1
    /\ UNCHANGED <<list, call>>

CFreq ==
    /\ call = NoCall
    /\ k <= Size
    /\ answer' = list.freqs[k]
    /\ UNCHANGED <<list, k, docid, asked, call>>

\* next_geq and move are called ...
CNextGeq(bound) ==
    /\ call = NoCall
    /\ bound >= asked
    /\ asked' = bound
    /\ call' = [op |-> "next_geq", bound |-> bound]
    /\ UNCHANGED <<list, k, docid, answer>>

CMove(pos) ==
    /\ call = NoCall
    /\ k <= Size
    /\ pos + 1 \in k..Size
    /\ asked' = IF docid > asked THEN docid ELSE asked
    /\ call' = [op |-> "move", bound |-> pos]
    /\ UNCHANGED <<list, k, docid, answer>>

\* ... and return: next_geq at the first posting from here on whose docid is
\* at least the bound, move at the posting with the given position.
CReturn ==
    /\ \/ /\ call.op = "next_geq"
          /\ \E i \in k..(Size + 1) :
                /\ DocAt(i) >= call.bound
                /\ \A j \in k..(i - 1) : DocAt(j) < call.bound
                /\ At(i)
       \/ call.op = "move" /\ At(call.bound + 1)
    /\ call' = NoCall
    /\ UNCHANGED <<list, asked>>

CStep ==
    \/ CReset \/ CNext \/ CFreq \/ CReturn
    \/ \E bound \in 0..Universe : CNextGeq(bound)
    \/ \E pos \in 0..(Size - 1) : CMove(pos)

CSpec == CInit /\ [][CStep]_cvars
=============================================================================
