--------------------------- MODULE QueryProcessing ---------------------------
(***************************************************************************)
(* The query operators of include/ds2i/queries.hpp on an index whose       *)
(* document_enumerators are cursors as in PostingCursor: and_query,        *)
(* or_query, ranked_and_query, ranked_or_query, wand_query and             *)
(* maxscore_query.  A step is one iteration of the loop that is running,   *)
(* and a call of next_geq is a step of its own.                            *)
(*                                                                         *)
(* Scores are integers: the floating-point scores of the code, whose sums  *)
(* depend on the order of the terms, are compared up to a tolerance in its *)
(* tests as well.                                                          *)
(***************************************************************************)
EXTENDS Integers, FiniteSets, SequencesExt

CONSTANTS
    NumDocs,        \* index.num_docs()
    Indexes,        \* indexes that are queried: the postings of every term, as
                    \* a function from its documents to what doc_term_weight
                    \* gives each of them
    Queries,        \* term_id_vecs: sequences of terms, with duplicates
    Operators,      \* the query operators that are run
    K               \* how many scores are kept

ASSUME NumDocsAssumption == NumDocs \in Nat \ {0}
ASSUME IndexesAssumption ==
    \A index \in Indexes : \A t \in DOMAIN index :
        /\ DOMAIN index[t] \subseteq 0..(NumDocs - 1) /\ DOMAIN index[t] # {}
        /\ \A d \in DOMAIN index[t] : index[t][d] \in Nat \ {0}
ASSUME QueriesAssumption ==
    \A q \in Queries : \A index \in Indexes : q \in Seq(DOMAIN index)
ASSUME OperatorsAssumption ==
    Operators \subseteq {"and", "or", "ranked_and", "ranked_or", "wand", "maxscore"}
ASSUME KAssumption == K \in Nat \ {0}

VARIABLES
    index, query, operator, \* what is run
    pc,             \* the loop that is running
    docid,          \* docid[t]: where the enumerator of term t is
    max_weight,     \* max_weight[t]: a bound on the scores of term t
    asked,          \* asked[t]: no document below it may be asked for any more
    order,          \* enums or ordered_enums: the terms in the order they are in
    cur_doc,        \* candidate, cur_doc
    next_doc,       \* of maxscore_query: the next cur_doc
    i,              \* the loop variable
    score,          \* of maxscore_query: the score of cur_doc so far
    non_essential,  \* non_essential_lists
    results,        \* documents counted: what and_query and or_query return
    topk            \* m_topk

vars == <<index, query, operator, max_weight, pc, docid, asked, order, cur_doc, next_doc, i, score,
          non_essential, results, topk>>

given == <<index, query, operator, max_weight>>

-----------------------------------------------------------------------------
(* topk_queue: the heap of the K best scores seen so far is modelled as    *)
(* the sequence of its scores in increasing order, whose first element is  *)
(* the front of the heap.                                                  *)

\* would_enter()
WouldEnter(q, s) == Len(q) < K \/ s > Head(q)

\* The score s at its place among the scores of q.
WithScore(q, s) ==
    InsertAt(q, Cardinality({p \in 1..Len(q) : q[p] <= s}) + 1, s)

\* Mutant of Insert: a full queue takes the score without dropping one.
Insert_NothingDropped(q, s) ==
    IF WouldEnter(q, s) THEN WithScore(q, s) ELSE q

\* insert(): the queue after it; the score is in it if it would enter.
Insert(q, s) ==
    IF Len(q) < K THEN WithScore(q, s)
    ELSE IF s > Head(q) THEN WithScore(Tail(q), s)
    ELSE q

-----------------------------------------------------------------------------
(* The terms and their enumerators.                                        *)

Terms == {query[j] : j \in 1..Len(query)}

\* What query_freqs makes of a term that is in the query more than once.
TermFreq(t) == Cardinality({j \in 1..Len(query) : query[j] = t})

Docs(t) == DOMAIN index[t]

\* q_weight * doc_term_weight of a document, and its bound from wand_data.
TermScore(t, d) == TermFreq(t) * index[t][d]

MaxWeight(t) ==
    CHOOSE w \in {TermScore(t, d) : d \in Docs(t)} : \A d \in Docs(t) : TermScore(t, d) <= w

Least(S) == CHOOSE x \in S : \A y \in S : x <= y

\* The first document of t that is at least d, or NumDocs.
FirstFrom(t, d) == Least({e \in Docs(t) : e >= d} \cup {NumDocs})

\* The enumerators of the terms in S are advanced by next().
NextDoc(S) ==
    /\ docid' = [t \in Terms |-> IF t \in S THEN FirstFrom(t, docid[t] + 1) ELSE docid[t]]
    /\ asked' = [t \in Terms |-> IF t \in S THEN docid[t] + 1 ELSE asked[t]]

\* The enumerator of t is advanced by next_geq(lower_bound).
NextGeq(t, lower_bound) ==
    /\ docid' = [docid EXCEPT ![t] = IF @ >= lower_bound THEN @ ELSE FirstFrom(t, lower_bound)]
    /\ asked' = [asked EXCEPT ![t] = lower_bound]

\* The terms whose enumerator is at document d.
At(d) == {t \in Terms : docid[t] = d}

\* The sum of the scores of the postings that the terms in S are at.
ScoreOf(S) == SumFunction([t \in S |-> TermScore(t, docid[t])])

Ranked == operator \notin {"and", "or"}

\* The document d is a result with score s.
Count(s) ==
    /\ results' = results + 1
    /\ topk' = IF Ranked THEN Insert(topk, s) ELSE topk

IsSortedBy(seq, key) == \A p \in 2..Len(seq) : key[seq[p - 1]] <= key[seq[p]]

\* The orders std::sort may leave the terms in: it decides where keys differ.
Sortings(key) == {seq \in SetToSeqs(Terms) : IsSortedBy(seq, key)}

Init ==
    /\ index \in Indexes /\ query \in Queries /\ operator \in Operators
    /\ pc = "start"
    /\ docid = [t \in Terms |-> FirstFrom(t, 0)]
    /\ max_weight = [t \in Terms |-> MaxWeight(t)]
    /\ asked = [t \in Terms |-> 0]
    /\ order = <<>>
    /\ cur_doc = 0 /\ next_doc = 0
    /\ i = 1
    /\ score = 0
    /\ non_essential = 0
    /\ results = 0
    /\ topk = <<>>

\* The enumerators are opened and sorted, unless there is no term.
Start ==
    /\ pc = "start"
    /\ pc' = IF Terms = {} THEN "done" ELSE "run"
    /\ order' \in CASE operator \in {"and", "ranked_and"} ->
                        Sortings([t \in Terms |-> Cardinality(Docs(t))])
                    [] operator = "wand" -> Sortings(docid)
                    [] operator = "maxscore" -> Sortings(max_weight)
                    [] OTHER -> Sortings([t \in Terms |-> t])
    /\ cur_doc' = IF operator \in {"and", "ranked_and"}
                  THEN IF Terms = {} THEN 0 ELSE docid[order'[1]]
                  ELSE Least({docid[t] : t \in Terms} \cup {NumDocs})
    /\ i' = 2
    /\ UNCHANGED <<given, docid, asked, next_doc, score, non_essential, results, topk>>

-----------------------------------------------------------------------------
(* and_query, ranked_and_query                                             *)

Conjunctive == pc = "run" /\ operator \in {"and", "ranked_and"} /\ cur_doc < NumDocs

\* Mutant of AndAdvance: the first enumerator is not moved to a new candidate.
AndAdvance_FirstSkipped ==
    /\ Conjunctive /\ i <= Len(order)
    /\ NextGeq(order[i], cur_doc)
    /\ LET found == docid'[order[i]]
       IN  IF found # cur_doc THEN cur_doc' = found /\ i' = 2
                              ELSE i' = i + 1 /\ UNCHANGED cur_doc
    /\ UNCHANGED <<given, pc, order, next_doc, score, non_essential, results, topk>>

\* The i-th list is searched for the candidate; one it skips to instead
\* becomes the candidate, and the first list is the next to be searched.
AndAdvance ==
    /\ Conjunctive /\ i <= Len(order)
    /\ NextGeq(order[i], cur_doc)
    /\ LET found == docid'[order[i]]
       IN  IF found # cur_doc THEN cur_doc' = found /\ i' = 1
                              ELSE i' = i + 1 /\ UNCHANGED cur_doc
    /\ UNCHANGED <<given, pc, order, next_doc, score, non_essential, results, topk>>

\* All lists are at the candidate.
AndMatch ==
    /\ Conjunctive /\ i = Len(order) + 1
    /\ Count(ScoreOf(Terms))
    /\ NextDoc({order[1]})
    /\ cur_doc' = docid'[order[1]]
    /\ i' = 2
    /\ UNCHANGED <<given, pc, order, next_doc, score, non_essential>>

-----------------------------------------------------------------------------
(* or_query, ranked_or_query                                               *)

OrStep ==
    /\ pc = "run" /\ operator \in {"or", "ranked_or"} /\ cur_doc < NumDocs
    /\ Count(ScoreOf(At(cur_doc)))
    /\ NextDoc(At(cur_doc))
    /\ cur_doc' = Least({docid'[t] : t \in Terms} \cup {NumDocs})
    /\ UNCHANGED <<given, pc, order, next_doc, i, score, non_essential>>

-----------------------------------------------------------------------------
(* The upper bound of the first m terms of `order': wand_query's upper_bound, *)
(* maxscore_query's upper_bounds.                                          *)

UpperBound(m) == SumFunctionOnSet(max_weight, {order[p] : p \in 1..m})

-----------------------------------------------------------------------------
(* wand_query                                                              *)

\* Where a pivot may be: the bounds of the lists up to it would enter.
Pivots ==
    {p \in 1..Len(order) :
        /\ WouldEnter(topk, UpperBound(p))
        /\ \A q \in 1..p : docid[order[q]] # NumDocs}

Wand == pc = "run" /\ operator = "wand" /\ Pivots # {}

PivotId == docid[order[Least(Pivots)]]

\* The first list is at the pivot already: the first lists, as far as they are
\* there, are scored and advanced.
WandMatch ==
    /\ Wand /\ docid[order[1]] = PivotId
    /\ LET here == {order[p] : p \in {r \in 1..Len(order) :
                                        \A q \in 1..r : docid[order[q]] = PivotId}}
       IN  Count(ScoreOf(here)) /\ NextDoc(here)
    /\ order' \in Sortings(docid')
    /\ UNCHANGED <<given, pc, cur_doc, next_doc, i, score, non_essential>>

\* Mutant of NextList: the list at the pivot itself.
NextList_PivotItself == Least(Pivots)

\* The list before the pivot that is moved up to it.
NextList ==
    LET pivot == Least(Pivots)
        id == docid[order[pivot]]
    IN  CHOOSE p \in 1..pivot :
            docid[order[p]] # id /\ \A q \in (p + 1)..pivot : docid[order[q]] = id

\* Mutant of WandAdvance: the list that was moved stays where it is.
WandAdvance_NotBubbled ==
    /\ Wand /\ docid[order[1]] # PivotId
    /\ NextGeq(order[NextList], PivotId)
    /\ UNCHANGED <<given, pc, order, cur_doc, next_doc, i, score, non_essential, results, topk>>

\* It is moved, and bubbles down to behind the lists with a smaller docid.
WandAdvance ==
    /\ Wand /\ docid[order[1]] # PivotId
    /\ LET place == NextList
           moved == order[place]
           stop  == Least({p \in place..Len(order) :
                               p = Len(order) \/ docid[order[p + 1]] >= docid'[moved]})
       IN  /\ NextGeq(moved, PivotId)
           /\ order' = SubSeq(order, 1, place - 1) \o SubSeq(order, place + 1, stop)
                            \o <<moved>> \o SubSeq(order, stop + 1, Len(order))
    /\ UNCHANGED <<given, pc, cur_doc, next_doc, i, score, non_essential, results, topk>>

-----------------------------------------------------------------------------
(* maxscore_query                                                          *)

Maxscore == operator = "maxscore"

\* Mutant of EssentialStep: all essential lists are advanced.
EssentialStep_AllAdvanced ==
    /\ pc = "run" /\ Maxscore
    /\ non_essential < Len(order) /\ cur_doc < NumDocs
    /\ LET essential == {order[p] : p \in (non_essential + 1)..Len(order)}
       IN  /\ score' = ScoreOf(essential \cap At(cur_doc))
           /\ NextDoc(essential)
           /\ next_doc' = Least({docid'[t] : t \in essential} \cup {NumDocs})
    /\ i' = non_essential
    /\ pc' = "complete"
    /\ UNCHANGED <<given, order, cur_doc, non_essential, results, topk>>

\* The essential lists at cur_doc are scored and advanced.
EssentialStep ==
    /\ pc = "run" /\ Maxscore
    /\ non_essential < Len(order) /\ cur_doc < NumDocs
    /\ LET essential == {order[p] : p \in (non_essential + 1)..Len(order)}
           here == essential \cap At(cur_doc)
       IN  /\ score' = ScoreOf(here)
           /\ NextDoc(here)
           /\ next_doc' = Least({docid'[t] : t \in essential} \cup {NumDocs})
    /\ i' = non_essential
    /\ pc' = "complete"
    /\ UNCHANGED <<given, order, cur_doc, non_essential, results, topk>>

\* The i-th list, and those before it, can still make cur_doc enter.
Promising == i > 0 /\ WouldEnter(topk, score + UpperBound(i))

CompleteStep ==
    /\ pc = "complete" /\ Promising
    /\ NextGeq(order[i], cur_doc)
    /\ score' = score + (IF docid'[order[i]] = cur_doc THEN TermScore(order[i], cur_doc) ELSE 0)
    /\ i' = i - 1
    /\ UNCHANGED <<given, pc, order, cur_doc, next_doc, non_essential, results, topk>>

\* Mutant of InsertStep: a list is non-essential once its own weight is.
InsertStep_OwnWeight ==
    /\ pc = "complete" /\ ~Promising
    /\ Count(score)
    /\ non_essential' =
            IF WouldEnter(topk, score)
            THEN Least({m \in non_essential..Len(order) :
                            m = Len(order) \/ WouldEnter(topk', max_weight[order[m + 1]])})
            ELSE non_essential
    /\ cur_doc' = next_doc
    /\ pc' = "run"
    /\ UNCHANGED <<given, docid, asked, order, next_doc, i, score>>

\* The score is inserted, and if it entered, more lists may be non-essential.
InsertStep ==
    /\ pc = "complete" /\ ~Promising
    /\ Count(score)
    /\ non_essential' =
            IF WouldEnter(topk, score)
            THEN Least({m \in non_essential..Len(order) :
                            m = Len(order) \/ WouldEnter(topk', UpperBound(m + 1))})
            ELSE non_essential
    /\ cur_doc' = next_doc
    /\ pc' = "run"
    /\ UNCHANGED <<given, docid, asked, order, next_doc, i, score>>

-----------------------------------------------------------------------------

\* The loop ends.
Finish ==
    /\ pc = "run"
    /\ CASE operator = "wand" -> Pivots = {}
         [] Maxscore -> non_essential = Len(order) \/ cur_doc >= NumDocs
         [] OTHER -> cur_doc >= NumDocs
    /\ pc' = "done"
    /\ UNCHANGED <<given, docid, asked, order, cur_doc, next_doc, i, score, non_essential,
                   results, topk>>

Terminated == pc = "done" /\ UNCHANGED vars

Step ==
    \/ Start \/ AndAdvance \/ AndMatch \/ OrStep \/ WandMatch \/ WandAdvance
    \/ EssentialStep \/ CompleteStep \/ InsertStep \/ Finish

Next == Step \/ Terminated

Spec == Init /\ [][Next]_vars /\ WF_vars(Step)

-----------------------------------------------------------------------------
(* Properties.                                                             *)

TypeOK ==
    /\ pc \in {"start", "run", "complete", "done"}
    /\ docid \in [Terms -> 0..NumDocs]
    /\ asked \in [Terms -> 0..NumDocs]
    /\ pc # "start" => Len(order) = Cardinality(Terms) /\ Terms = {order[p] : p \in 1..Len(order)}
    /\ cur_doc \in 0..NumDocs
    /\ non_essential \in 0..Len(order)
    /\ results \in 0..NumDocs
    /\ Len(topk) <= K

\* The documents a query is about.
Matching ==
    IF operator \in {"and", "ranked_and"}
    THEN IF Terms = {} THEN {} ELSE {d \in 0..(NumDocs - 1) : \A t \in Terms : d \in Docs(t)}
    ELSE {d \in 0..(NumDocs - 1) : \E t \in Terms : d \in Docs(t)}

FullScore(d) == SumFunction([t \in {u \in Terms : d \in Docs(u)} |-> TermScore(t, d)])

\* and_query and or_query count every document with all, or any, of the terms
\* exactly once, in whatever order lists of equal size are sorted and however
\* far they skip past a candidate.
BooleanCorrect ==
    (pc = "done" /\ operator \in {"and", "or"}) => results = Cardinality(Matching)

\* The ranked operators find the scores of the k best documents, although
\* wand_query and maxscore_query score only some documents, and some of these
\* only in part: of every score s, as many documents with s or more.
TopkCorrect ==
    (pc = "done" /\ Ranked) =>
        \A s \in {FullScore(d) : d \in Matching} \cup {topk[p] : p \in 1..Len(topk)} :
            LET all  == Cardinality({d \in Matching : FullScore(d) >= s})
                kept == Cardinality({p \in 1..Len(topk) : topk[p] >= s})
            IN  kept = IF all < K THEN all ELSE K

\* wand_query keeps its enumerators sorted with one list bubbling down at a
\* time: the pivot is wrong otherwise.
WandSorted ==
    (operator = "wand" /\ pc = "run") => IsSortedBy(order, docid)

\* The queries use the enumerators in the way PostingList relies on: next() is
\* called at a posting only, and next_geq() never for a document below one
\* that was asked for before, nor for one that next() has left behind.
RespectsCursors == [][\A t \in Terms : asked[t] <= asked'[t] /\ asked'[t] <= NumDocs]_vars

\* No operator runs forever.
QueryEnds == <>(pc = "done")

\* What document_enumerator::next_geq asserts of its lower bound,
\* `lower_bound >= m_cur_docid || position() == 0', where maxscore_query calls
\* it and the enumerator is at a posting.
NextGeqAsserted ==
    (pc = "complete" /\ Promising /\ docid[order[i]] < NumDocs) =>
        LET t == order[i]
        IN  cur_doc >= docid[t] \/ docid[t] = FirstFrom(t, 0)
=============================================================================
