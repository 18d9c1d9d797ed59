------------------------- MODULE MCQueryProcessing -------------------------
(***************************************************************************)
(* Instances of QueryProcessing for TLC.                                   *)
(***************************************************************************)
EXTENDS QueryProcessing

\* The sets of documents a list may have.
DocSets == SUBSET (0..(NumDocs - 1)) \ {{}}

\* Three terms: one whose scores vary, one whose scores are low, and one of few
\* documents whose scores are high.
ThreeLists ==
    {<<[d \in A |-> 1 + (d % 2)], [d \in B |-> 1], [d \in C |-> 3]>> :
        A \in DocSets, B \in DocSets, C \in {S \in DocSets : Cardinality(S) <= 2}}

\* The operators that skip documents are given every index, and queries with
\* all terms once, and with one of them twice and without another.
PruningQueries == {<<1, 2, 3>>, <<3, 1, 1>>}
Pruning == operator \in {"wand", "maxscore"} /\ query \in PruningQueries

\* The others are given those without the last document, and also one term
\* alone and no term.
MCQueries == PruningQueries \cup {<<>>, <<2>>}
MCOperators == {"and", "or", "ranked_and", "ranked_or", "wand", "maxscore"}
Small == \A t \in DOMAIN index : NumDocs - 1 \notin Docs(t)

MCInit == Init /\ (Pruning \/ Small)

MCSpec == MCInit /\ [][Next]_vars /\ WF_vars(Step)

\* Two terms.
AssertionQueries == {<<1, 2>>}
AssertionOperators == {"maxscore"}
=============================================================================
