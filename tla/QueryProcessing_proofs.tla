------------------------ MODULE QueryProcessing_proofs ------------------------
(***************************************************************************)
(* Proofs about QueryProcessing, for every index, every query, every order *)
(* std::sort may leave the lists in and every k: the operators that skip   *)
(* documents, wand_query and maxscore_query, find the scores of the k best *)
(* documents, as those do that score every one.                            *)
(***************************************************************************)
EXTENDS QueryProcessing, FiniteSetTheorems, SequenceTheorems, TLAPS

-----------------------------------------------------------------------------
(* The inductive invariant.                                                *)

\* The query that is run, and how its terms are ordered.
Given ==
    /\ index \in Indexes /\ query \in Queries /\ operator \in Operators
    /\ max_weight = [t \in Terms |-> MaxWeight(t)]

\* Every enumerator stands at the first document from the one asked for on.
CursorsStand ==
    /\ docid \in [Terms -> 0..NumDocs]
    /\ asked \in [Terms -> 0..NumDocs]
    /\ \A t \in Terms : docid[t] = FirstFrom(t, asked[t])

Places ==
    /\ pc \in {"start", "run", "complete", "done"}
    /\ pc = "start" => \A t \in Terms : asked[t] = 0
    /\ order \in Seq(Terms)
    /\ pc # "start" => order \in SetToSeqs(Terms)
    /\ pc \in {"run", "complete"} => Terms # {}
    /\ cur_doc \in 0..NumDocs
    /\ next_doc \in 0..NumDocs
    /\ i \in Nat
    /\ score \in Nat
    /\ results \in Nat
    /\ non_essential \in 0..Len(order)
    /\ pc = "complete" => operator = "maxscore"
    /\ (pc = "start" \/ operator # "maxscore") => non_essential = 0

\* Whether an enumerator of a list with the document d has left it behind.
Passed(d) == \E t \in Terms : d \in Docs(t) /\ docid[t] > d

\* The documents that need not be looked at any more.
Done ==
    {d \in Matching :
        CASE pc = "start" -> FALSE
          [] pc = "done" -> TRUE
          [] pc \in {"run", "complete"} -> IF operator = "wand" THEN Passed(d) ELSE d < cur_doc}

\* The scores of the documents, those of D with a score of s or more, and how
\* many of these can be kept.
Scores == [d \in 0..(NumDocs - 1) |-> FullScore(d)]
Scoring(D, f, s) == {d \in D : f[d] >= s}
AtMostK(n) == IF n < K THEN n ELSE K
Kept(q, s) == {p \in 1..Len(q) : q[p] >= s}

\* topk_queue keeps its scores in order.
Ascending(q) == q \in Seq(Nat) /\ \A a, b \in 1..Len(q) : a <= b => q[a] <= q[b]

\* The queue has the scores of the best of the documents D, which are in f.
HasBestOf(q, D, f) ==
    /\ Ascending(q)
    /\ Len(q) <= K
    /\ \A s \in Nat : Cardinality(Kept(q, s)) = AtMostK(Cardinality(Scoring(D, f, s)))

Frontier == IF operator = "wand" THEN docid[order[1]] ELSE cur_doc

Counted ==
    /\ Ranked => HasBestOf(topk, Done, Scores)
    /\ ~Ranked => topk = <<>> /\ results = Cardinality(Done)
    /\ pc = "start" => results = 0
    /\ pc \in {"run", "complete"} => results <= Frontier
    /\ pc = "done" => results <= NumDocs

\* and_query: the lists searched so far are at the candidate.
AndInv ==
    (pc = "run" /\ operator \in {"and", "ranked_and"}) =>
        /\ i \in 1..(Len(order) + 1)
        /\ \A t \in Terms : asked[t] <= cur_doc
        /\ \A p \in 1..(i - 1) : docid[order[p]] = cur_doc

\* or_query: every list is at its first document from cur_doc on, which is the
\* first of all of them.
OrInv ==
    (pc = "run" /\ operator \in {"or", "ranked_or"}) =>
        /\ \A t \in Terms : asked[t] <= cur_doc /\ cur_doc <= docid[t]
        /\ cur_doc < NumDocs => \E t \in Terms : docid[t] = cur_doc

\* wand_query: a document that a list has left behind is behind all lists, or
\* cannot enter with the scores of those that are not beyond it.
UpTo(d) == {t \in Terms : docid[t] <= d}
Weight(T) == SumFunctionOnSet(max_weight, T)

WandInv ==
    (pc = "run" /\ operator = "wand") =>
        /\ WandSorted
        /\ \A d \in Nat : Passed(d) =>
            UpTo(d) = {} \/ ~WouldEnter(topk, Weight(UpTo(d)))

\* maxscore_query: a document that is in non-essential lists only cannot enter.
NonEssentialInv ==
    non_essential > 0 => ~WouldEnter(topk, UpperBound(non_essential))

Essential(p) == p \in (non_essential + 1)..Len(order)

MaxscoreRunInv ==
    (pc = "run" /\ operator = "maxscore") =>
        /\ NonEssentialInv
        /\ cur_doc < NumDocs => cur_doc \in Matching
        /\ \A t \in Terms : asked[t] <= cur_doc
        /\ \A p \in 1..Len(order) : Essential(p) => docid[order[p]] >= cur_doc

\* The score is that of the lists from i on; the others are not beyond cur_doc,
\* and no essential one has a document before next_doc.
Having(d, a) == {t \in {order[p] : p \in a..Len(order)} : d \in Docs(t)}

MaxscoreCompleteInv ==
    pc = "complete" =>
        /\ NonEssentialInv
        /\ i \in 0..non_essential
        /\ cur_doc < next_doc
        /\ cur_doc \in Matching
        /\ next_doc < NumDocs => next_doc \in Matching
        /\ score = SumFunction([t \in Having(cur_doc, i + 1) |-> TermScore(t, cur_doc)])
        /\ \A p \in 1..i : asked[order[p]] <= cur_doc
        /\ \A t \in Terms : asked[t] <= next_doc
        /\ \A p \in 1..Len(order) : Essential(p) =>
            /\ docid[order[p]] >= next_doc
            /\ \A d \in Docs(order[p]) : d <= cur_doc \/ d >= next_doc

Inv ==
    /\ Given
    /\ CursorsStand
    /\ Places
    /\ Counted
    /\ AndInv
    /\ OrInv
    /\ WandInv
    /\ MaxscoreRunInv
    /\ MaxscoreCompleteInv

-----------------------------------------------------------------------------
(* Sums over finite sets.                                                  *)

Chosen(s) == CHOOSE x \in s : TRUE

\* The equation of the fold behind SumFunctionOnSet.
Folds(g, f, T) ==
    g = [s \in SUBSET T |-> IF s = {} THEN 0 ELSE f[Chosen(s)] + g[s \ {Chosen(s)}]]

(***************************************************************************)
(* A sum is the value of a function that satisfies that equation.          *)
(***************************************************************************)
LEMMA SumIsFold ==
    ASSUME NEW f, NEW T
    PROVE  SumFunctionOnSet(f, T) = (CHOOSE g : Folds(g, f, T))[T]
BY DEF SumFunctionOnSet, FoldFunctionOnSet, MapThenFoldSet, Folds, Chosen

(***************************************************************************)
(* Induction over finite sets: of some subsets of one there is a smallest. *)
(***************************************************************************)
LEMMA SmallestSet ==
    ASSUME NEW S, IsFiniteSet(S), NEW B, B \subseteq SUBSET S, B # {}
    PROVE  \E T \in B : \A U \in SUBSET T : U # T => U \notin B
<1>1. IsWellFoundedOn(StrictSubsetOrdering(S), SUBSET S)
  BY FS_StrictSubsetOrderingWellFounded, FS_FiniteSubsetsOfFinite
<1>2. PICK T \in B : \A U \in B : ~(<<U, T>> \in StrictSubsetOrdering(S))
  BY <1>1, WFMin
<1> QED BY <1>2 DEF StrictSubsetOrdering

(***************************************************************************)
(* What is chosen from a set that has elements is one of them.             *)
(***************************************************************************)
LEMMA ChosenIn == \A s : s # {} => Chosen(s) \in s
BY DEF Chosen

(***************************************************************************)
(* The equation, at one set.                                               *)
(***************************************************************************)
LEMMA FoldsAt ==
    ASSUME NEW g, NEW f, NEW T, Folds(g, f, T), NEW s \in SUBSET T
    PROVE  g[s] = IF s = {} THEN 0 ELSE f[Chosen(s)] + g[s \ {Chosen(s)}]
<1> DEFINE h == [u \in SUBSET T |-> IF u = {} THEN 0 ELSE f[Chosen(u)] + g[u \ {Chosen(u)}]]
<1>1. h[s] = IF s = {} THEN 0 ELSE f[Chosen(s)] + g[s \ {Chosen(s)}]
  OBVIOUS
<1>2. g = h
  BY Zenon DEF Folds
<1> QED BY <1>1, <1>2, Zenon

(***************************************************************************)
(* Its solutions agree where they are both defined.                        *)
(***************************************************************************)
LEMMA FoldsAgree ==
    ASSUME NEW S, IsFiniteSet(S), NEW f, NEW T \in SUBSET S, NEW U \in SUBSET S,
           NEW g, Folds(g, f, T), NEW h, Folds(h, f, U)
    PROVE  \A s \in SUBSET (T \cap U) : g[s] = h[s]
<1> DEFINE B == {s \in SUBSET (T \cap U) : g[s] # h[s]}
<1> SUFFICES ASSUME B # {} PROVE FALSE
  OBVIOUS
<1>1. B \subseteq SUBSET S
  OBVIOUS
<1>2. PICK s \in B : \A u \in SUBSET s : u # s => u \notin B
  <2> HIDE DEF B
  <2> QED BY <1>1, SmallestSet
<1>3. s \in SUBSET T /\ s \in SUBSET U /\ g[s] # h[s]
  OBVIOUS
<1>4. /\ g[s] = IF s = {} THEN 0 ELSE f[Chosen(s)] + g[s \ {Chosen(s)}]
      /\ h[s] = IF s = {} THEN 0 ELSE f[Chosen(s)] + h[s \ {Chosen(s)}]
  <2>1. g[s] = IF s = {} THEN 0 ELSE f[Chosen(s)] + g[s \ {Chosen(s)}]
    BY <1>3, FoldsAt, Zenon
  <2>2. h[s] = IF s = {} THEN 0 ELSE f[Chosen(s)] + h[s \ {Chosen(s)}]
    BY <1>3, FoldsAt, Zenon
  <2> QED BY <2>1, <2>2, Zenon
<1>5. s # {}
  BY <1>3, <1>4
<1>6. g[s \ {Chosen(s)}] = h[s \ {Chosen(s)}]
  BY <1>2, <1>5, ChosenIn
<1> QED BY <1>3, <1>4, <1>5, <1>6

(***************************************************************************)
(* There is a solution, and the sum is its value.                          *)
(***************************************************************************)
LEMMA FoldsExists ==
    ASSUME NEW S, IsFiniteSet(S), NEW f
    PROVE  \A T \in SUBSET S : \E g : Folds(g, f, T)
<1> DEFINE B == {T \in SUBSET S : ~\E g : Folds(g, f, T)}
           Sum(T) == SumFunctionOnSet(f, T)
<1> SUFFICES ASSUME B # {} PROVE FALSE
  OBVIOUS
<1>1. PICK T \in B : \A U \in SUBSET T : U # T => U \notin B
  <2>1. B \subseteq SUBSET S
    OBVIOUS
  <2> HIDE DEF B
  <2> QED BY <2>1, SmallestSet
<1>2. T \in SUBSET S /\ ~\E g : Folds(g, f, T)
  OBVIOUS
<1> DEFINE G(U) == CHOOSE g : Folds(g, f, U)
<1>3. ASSUME NEW U \in SUBSET T, U # T PROVE Folds(G(U), f, U) /\ Sum(U) = G(U)[U]
  <2>1. \E g : Folds(g, f, U)
    BY <1>1, <1>2, <1>3
  <2>2. Folds(G(U), f, U)
    BY <2>1, Zenon
  <2> QED BY <2>2, SumIsFold
<1> HIDE DEF G, Sum
<1>4. ASSUME NEW U \in SUBSET T, U # T
      PROVE  Sum(U) = IF U = {} THEN 0 ELSE f[Chosen(U)] + Sum(U \ {Chosen(U)})
  <2>1. Folds(G(U), f, U) /\ Sum(U) = G(U)[U]
    BY <1>3, <1>4
  <2>2. Sum(U) = IF U = {} THEN 0 ELSE f[Chosen(U)] + G(U)[U \ {Chosen(U)}]
    BY <2>1, FoldsAt
  <2>3. CASE U # {}
    <3> DEFINE V == U \ {Chosen(U)}
    <3>1. V \in SUBSET T /\ V # T /\ V \in SUBSET S /\ U \in SUBSET S /\ V \in SUBSET (V \cap U)
      BY <1>2, <1>4, <2>3, ChosenIn
    <3>2. Folds(G(V), f, V) /\ Sum(V) = G(V)[V]
      BY <1>3, <3>1
    <3> HIDE DEF V
    <3>3. G(V)[V] = G(U)[V]
      BY <2>1, <3>1, <3>2, FoldsAgree
    <3> QED BY <2>2, <2>3, <3>2, <3>3 DEF V
  <2> QED BY <2>2, <2>3
<1> DEFINE g == [s \in SUBSET T |-> IF s = {} THEN 0 ELSE f[Chosen(s)] + Sum(s \ {Chosen(s)})]
<1>5. ASSUME NEW s \in SUBSET T, s # {} PROVE g[s \ {Chosen(s)}] = Sum(s \ {Chosen(s)})
  <2> DEFINE u == s \ {Chosen(s)}
  <2>1. u \in SUBSET T /\ u # T
    BY <1>5, ChosenIn
  <2>2. g[u] = IF u = {} THEN 0 ELSE f[Chosen(u)] + Sum(u \ {Chosen(u)})
    BY <2>1
  <2> QED BY <1>4, <2>1, <2>2
<1>6. g = [s \in SUBSET T |-> IF s = {} THEN 0 ELSE f[Chosen(s)] + g[s \ {Chosen(s)}]]
  BY <1>5
<1>7. Folds(g, f, T)
  BY <1>6, Zenon DEF Folds
<1> QED BY <1>2, <1>7

(***************************************************************************)
(* A sum takes out one element, any one it chooses, and sums up the others.*)
(***************************************************************************)
LEMMA SumChosen ==
    ASSUME NEW f, NEW T, IsFiniteSet(T)
    PROVE  SumFunctionOnSet(f, T) =
            IF T = {} THEN 0 ELSE f[Chosen(T)] + SumFunctionOnSet(f, T \ {Chosen(T)})
<1> DEFINE G(U) == CHOOSE g : Folds(g, f, U)
<1>1. ASSUME NEW U \in SUBSET T PROVE Folds(G(U), f, U) /\ SumFunctionOnSet(f, U) = G(U)[U]
  <2>1. \E g : Folds(g, f, U)
    BY FoldsExists
  <2>2. Folds(G(U), f, U)
    BY <2>1, Zenon
  <2> QED BY <2>2, SumIsFold
<1> HIDE DEF G
<1>2. Folds(G(T), f, T) /\ SumFunctionOnSet(f, T) = G(T)[T]
  BY <1>1
<1>3. G(T)[T] = IF T = {} THEN 0 ELSE f[Chosen(T)] + G(T)[T \ {Chosen(T)}]
  BY <1>2, FoldsAt
<1>4. CASE T # {}
  <2> DEFINE V == T \ {Chosen(T)}
  <2>1. V \in SUBSET T /\ V \in SUBSET (V \cap T)
    OBVIOUS
  <2>2. Folds(G(V), f, V) /\ SumFunctionOnSet(f, V) = G(V)[V]
    BY <1>1, <2>1
  <2> HIDE DEF V
  <2>3. G(V)[V] = G(T)[V]
    BY <1>2, <2>1, <2>2, FoldsAgree
  <2> QED BY <1>2, <1>3, <1>4, <2>2, <2>3 DEF V
<1> QED BY <1>2, <1>3, <1>4

(***************************************************************************)
(* Sums of naturals are naturals.                                          *)
(***************************************************************************)
LEMMA SumType ==
    ASSUME NEW f, NEW T, IsFiniteSet(T), \A x \in T : f[x] \in Nat
    PROVE  SumFunctionOnSet(f, T) \in Nat
<1> DEFINE B == {U \in SUBSET T : SumFunctionOnSet(f, U) \notin Nat}
<1> SUFFICES ASSUME B # {} PROVE FALSE
  OBVIOUS
<1>1. PICK U \in B : \A V \in SUBSET U : V # U => V \notin B
  <2>1. B \subseteq SUBSET T
    OBVIOUS
  <2> HIDE DEF B
  <2> QED BY <2>1, SmallestSet
<1>2. U \in SUBSET T /\ SumFunctionOnSet(f, U) \notin Nat /\ IsFiniteSet(U)
  BY FS_Subset
<1>3. SumFunctionOnSet(f, U) =
            IF U = {} THEN 0 ELSE f[Chosen(U)] + SumFunctionOnSet(f, U \ {Chosen(U)})
  BY <1>2, SumChosen
<1>4. U # {}
  BY <1>2, <1>3
<1>5. Chosen(U) \in U
  BY <1>4, ChosenIn
<1>6. SumFunctionOnSet(f, U \ {Chosen(U)}) \in Nat
  BY <1>1, <1>2, <1>5
<1>7. f[Chosen(U)] \in Nat
  BY <1>2, <1>5
<1> QED BY <1>2, <1>3, <1>4, <1>6, <1>7

(***************************************************************************)
(* Any element may be taken out of a sum.                                  *)
(***************************************************************************)
LEMMA SumTakeOut ==
    ASSUME NEW f, NEW T, IsFiniteSet(T), \A x \in T : f[x] \in Nat, NEW x \in T
    PROVE  SumFunctionOnSet(f, T) = f[x] + SumFunctionOnSet(f, T \ {x})
<1> DEFINE Sum(U) == SumFunctionOnSet(f, U)
           B == {U \in SUBSET T : \E y \in U : Sum(U) # f[y] + Sum(U \ {y})}
<1> SUFFICES ASSUME B # {} PROVE FALSE
  OBVIOUS
<1>1. PICK U \in B : \A V \in SUBSET U : V # U => V \notin B
  <2>1. B \subseteq SUBSET T
    OBVIOUS
  <2> HIDE DEF B
  <2> QED BY <2>1, SmallestSet
<1>2. U \in SUBSET T
  OBVIOUS
<1>3. PICK y \in U : Sum(U) # f[y] + Sum(U \ {y})
  OBVIOUS
<1>4. ASSUME NEW V \in SUBSET T
      PROVE  Sum(V) \in Nat /\ Sum(V) = IF V = {} THEN 0 ELSE f[Chosen(V)] + Sum(V \ {Chosen(V)})
  <2>1. IsFiniteSet(V)
    BY FS_Subset
  <2> QED BY <2>1, SumType, SumChosen
<1> DEFINE c == Chosen(U)
<1>5. c \in U
  BY ChosenIn
<1>6. Sum(U) = f[c] + Sum(U \ {c})
  BY <1>2, <1>3, <1>4
<1>7. y # c
  BY <1>3, <1>6
<1> HIDE DEF Sum
<1>8. Sum(U \ {c}) = f[y] + Sum((U \ {c}) \ {y})
  BY <1>1, <1>3, <1>5, <1>7
<1>9. Sum(U \ {y}) = f[c] + Sum((U \ {y}) \ {c})
  BY <1>1, <1>3, <1>5, <1>7
<1>10. (U \ {c}) \ {y} = (U \ {y}) \ {c}
  OBVIOUS
<1>11. f[c] \in Nat /\ f[y] \in Nat /\ Sum((U \ {c}) \ {y}) \in Nat
  BY <1>2, <1>4, <1>5
<1> HIDE DEF c, B
<1> QED BY <1>3, <1>6, <1>8, <1>9, <1>10, <1>11

(***************************************************************************)
(* A sum grows with its terms and with the set of them.                    *)
(***************************************************************************)
LEMMA SumMonotonic ==
    ASSUME NEW f, NEW g, NEW U, IsFiniteSet(U), NEW T \in SUBSET U,
           \A x \in U : g[x] \in Nat,
           \A x \in T : f[x] \in Nat /\ f[x] <= g[x]
    PROVE  SumFunctionOnSet(f, T) <= SumFunctionOnSet(g, U)
<1> DEFINE SumF(V) == SumFunctionOnSet(f, V)
           SumG(V) == SumFunctionOnSet(g, V)
           B == {V \in SUBSET U : ~(SumF(V \cap T) <= SumG(V))}
<1> SUFFICES ASSUME B # {} PROVE FALSE
  <2>1. U \cap T = T
    OBVIOUS
  <2>2. U \notin B => SumF(U \cap T) <= SumG(U)
    OBVIOUS
  <2> QED BY <2>1, <2>2
<1>1. PICK V \in B : \A W \in SUBSET V : W # V => W \notin B
  <2>1. B \subseteq SUBSET U
    OBVIOUS
  <2> HIDE DEF B
  <2> QED BY <2>1, SmallestSet
<1>2. V \in SUBSET U /\ ~(SumF(V \cap T) <= SumG(V))
  OBVIOUS
<1>3. IsFiniteSet(V) /\ IsFiniteSet(V \cap T)
  BY <1>2, FS_Subset
<1>4. V # {}
  <2>1. ASSUME V = {} PROVE FALSE
    <3>1. SumF({}) = 0 /\ SumG({}) = 0
      BY SumChosen, FS_EmptySet
    <3>2. V \cap T = {}
      BY <2>1
    <3> QED BY <1>2, <2>1, <3>1, <3>2
  <2> QED BY <2>1
<1>5. PICK x \in V : TRUE
  BY <1>4
<1> DEFINE W == V \ {x}
<1>6. SumF(W \cap T) <= SumG(W)
  BY <1>1, <1>2
<1>7. SumG(V) = g[x] + SumG(W)
  BY <1>2, <1>3, SumTakeOut
<1>8. IsFiniteSet(W) /\ IsFiniteSet(W \cap T)
  BY <1>3, FS_Subset
<1>9. SumF(W \cap T) \in Nat /\ SumG(W) \in Nat /\ g[x] \in Nat
  BY <1>2, <1>8, SumType
<1>10. CASE x \in T
  <2>1. (V \cap T) \ {x} = W \cap T
    OBVIOUS
  <2>2. SumF(V \cap T) = f[x] + SumF((V \cap T) \ {x})
    BY <1>3, <1>10, SumTakeOut
  <2>3. f[x] \in Nat /\ f[x] <= g[x]
    BY <1>10
  <2> HIDE DEF SumF, SumG, W, B
  <2> QED BY <1>2, <1>6, <1>7, <1>9, <2>1, <2>2, <2>3
<1>11. CASE x \notin T
  <2>1. V \cap T = W \cap T
    BY <1>11
  <2>2. SumF(V \cap T) = SumF(W \cap T) /\ ~(SumF(V \cap T) <= SumG(V))
    BY <1>2, <2>1, Zenon
  <2> HIDE DEF SumF, SumG, W, B
  <2> QED BY <1>6, <1>7, <1>9, <2>2
<1> QED BY <1>10, <1>11

(***************************************************************************)
(* It is that of its terms, whatever function they are taken from.         *)
(***************************************************************************)
LEMMA SumEqual ==
    ASSUME NEW f, NEW g, NEW T, IsFiniteSet(T),
           \A x \in T : f[x] \in Nat /\ g[x] = f[x]
    PROVE  SumFunctionOnSet(g, T) = SumFunctionOnSet(f, T)
<1>1. SumFunctionOnSet(f, T) \in Nat /\ SumFunctionOnSet(g, T) \in Nat
  BY SumType
<1>2. \A x \in T : f[x] \in Nat /\ g[x] \in Nat /\ f[x] <= g[x] /\ g[x] <= f[x]
  OBVIOUS
<1>3. SumFunctionOnSet(f, T) <= SumFunctionOnSet(g, T)
  BY <1>2, SumMonotonic
<1>4. SumFunctionOnSet(g, T) <= SumFunctionOnSet(f, T)
  BY <1>2, SumMonotonic
<1> QED BY <1>1, <1>3, <1>4

-----------------------------------------------------------------------------
(* Sequences and places in them.                                           *)

(***************************************************************************)
(* Naturals of which there is one have a least one.                        *)
(***************************************************************************)
LEMMA LeastNat ==
    ASSUME NEW S, S \subseteq Nat, S # {}
    PROVE  \E x \in S : \A y \in S : x <= y
<1>1. PICK x \in S : \A y \in S : ~(<<y, x>> \in OpToRel(<, Nat))
  BY NatLessThanWellFounded, WFMin
<1>2. \A y \in S : ~(y < x)
  BY <1>1 DEF OpToRel
<1> QED BY <1>2

(***************************************************************************)
(* The operator Least finds it.                                            *)
(***************************************************************************)
LEMMA LeastFacts ==
    ASSUME NEW S, S \subseteq Nat, S # {}
    PROVE  Least(S) \in S /\ \A y \in S : Least(S) <= y
BY LeastNat DEF Least

(***************************************************************************)
(* Places of which all that come before one are among them too are the     *)
(* first ones.                                                             *)
(***************************************************************************)
LEMMA Prefix ==
    ASSUME NEW n \in Nat, NEW P \in SUBSET (1..n),
           \A p \in P : \A r \in 1..n : r <= p => r \in P
    PROVE  \E b \in 0..n : P = 1..b /\ Cardinality(P) = b
<1> DEFINE S == {b \in 0..n : b + 1 \notin P}
<1>1. n \in S /\ S \subseteq Nat
  OBVIOUS
<1>2. PICK b \in S : \A c \in S : b <= c
  <2> HIDE DEF S
  <2> QED BY <1>1, LeastNat
<1>3. b \in 0..n /\ b + 1 \notin P
  OBVIOUS
<1>4. \A r \in 1..b : r \in P
  <2>1. ASSUME NEW r \in 1..b PROVE r \in P
    <3>1. r - 1 \notin S /\ r - 1 \in 0..n
      BY <1>2, <1>3
    <3> QED BY <3>1
  <2> QED BY <2>1
<1>5. \A r \in P : r \in 1..n /\ r <= b
  <2>1. ASSUME NEW r \in P, ~(r <= b) PROVE FALSE
    <3>1. b + 1 \in 1..n /\ b + 1 <= r
      BY <1>3, <2>1
    <3> QED BY <1>3, <2>1, <3>1
  <2> QED BY <2>1
<1>6. P = 1..b
  <2>1. P \subseteq 1..b
    BY <1>3, <1>5
  <2> QED BY <1>4, <2>1
<1>7. Cardinality(1..b) = b
  BY <1>3, FS_Interval
<1> QED BY <1>3, <1>6, <1>7

\* The sequence r is q with e at place k.
Inserted(r, S, q, k, e) ==
    /\ r \in Seq(S)
    /\ Len(r) = Len(q) + 1
    /\ \A p \in 1..(Len(q) + 1) : r[p] = IF p < k THEN q[p] ELSE IF p = k THEN e ELSE q[p - 1]

(***************************************************************************)
(* InsertAt, place by place.                                               *)
(***************************************************************************)
LEMMA InsertAtFacts ==
    ASSUME NEW S, NEW q \in Seq(S), NEW k \in 1..(Len(q) + 1), NEW e \in S
    PROVE  Inserted(InsertAt(q, k, e), S, q, k, e)
<1> DEFINE a == SubSeq(q, 1, k - 1)
           z == SubSeq(q, k, Len(q))
<1>1. Len(q) \in Nat /\ k \in Int /\ k - 1 \in Int
  OBVIOUS
<1>2. a \in Seq(S) /\ Len(a) = k - 1 /\ \A p \in 1..(k - 1) : a[p] = q[p]
  <2>1. \A p \in 1..(k - 1) : q[p] \in S
    OBVIOUS
  <2> QED BY <1>1, <2>1, SubSeqProperties
<1>3. z \in Seq(S) /\ Len(z) = Len(q) - k + 1 /\ \A p \in 1..(Len(q) - k + 1) : z[p] = q[k + p - 1]
  <2>1. \A p \in k..Len(q) : q[p] \in S
    OBVIOUS
  <2> QED BY <1>1, <2>1, SubSeqProperties
<1>4. <<e>> \in Seq(S) /\ Len(<<e>>) = 1 /\ <<e>>[1] = e
  OBVIOUS
<1> DEFINE b == a \o <<e>>
<1>5. b \in Seq(S) /\ Len(b) = k /\ \A p \in 1..k : b[p] = IF p = k THEN e ELSE q[p]
  <2>1. /\ b \in Seq(S)
        /\ Len(b) = Len(a) + 1
        /\ \A p \in 1..(Len(a) + 1) : b[p] = IF p <= Len(a) THEN a[p] ELSE <<e>>[p - Len(a)]
    BY <1>2, <1>4, ConcatProperties
  <2> HIDE DEF a, b
  <2> QED BY <1>1, <1>2, <1>4, <2>1
<1>6. /\ b \o z \in Seq(S)
      /\ Len(b \o z) = Len(b) + Len(z)
      /\ \A p \in 1..(Len(b) + Len(z)) :
            (b \o z)[p] = IF p <= Len(b) THEN b[p] ELSE z[p - Len(b)]
  <2> HIDE DEF b, z
  <2> QED BY <1>3, <1>5, ConcatProperties
<1>7. InsertAt(q, k, e) = b \o z
  BY DEF InsertAt
<1> HIDE DEF a, b, z
<1>8. \A p \in 1..(Len(q) + 1) :
        (b \o z)[p] = IF p < k THEN q[p] ELSE IF p = k THEN e ELSE q[p - 1]
  <2> SUFFICES ASSUME NEW p \in 1..(Len(q) + 1)
               PROVE  (b \o z)[p] = IF p < k THEN q[p] ELSE IF p = k THEN e ELSE q[p - 1]
    OBVIOUS
  <2>1. p \in Int
    OBVIOUS
  <2>2. CASE p <= k
    <3>1. (b \o z)[p] = b[p]
      BY <1>1, <1>3, <1>5, <1>6, <2>2
    <3> QED BY <1>1, <1>5, <2>2, <3>1
  <2>3. CASE p > k
    <3>1. (b \o z)[p] = z[p - k]
      BY <1>1, <1>3, <1>5, <1>6, <2>3
    <3>2. z[p - k] = q[k + (p - k) - 1]
      BY <1>1, <1>3, <2>3
    <3>3. k + (p - k) - 1 = p - 1
      BY <1>1, <2>1
    <3> QED BY <1>1, <2>1, <2>3, <3>1, <3>2, <3>3
  <2>4. p <= k \/ p > k
    BY <1>1, <2>1
  <2> QED BY <2>2, <2>3, <2>4, Zenon
<1>9. Len(b) + Len(z) = Len(q) + 1
  BY <1>1, <1>3, <1>5
<1> QED BY <1>6, <1>7, <1>8, <1>9 DEF Inserted

(***************************************************************************)
(* Finitely many naturals, of which there is one, have a largest.          *)
(***************************************************************************)
LEMMA LargestOf ==
    ASSUME NEW S, IsFiniteSet(S), S \subseteq Nat, S # {}
    PROVE  \E x \in S : \A y \in S : y <= x
<1> DEFINE B == {T \in SUBSET S : T # {} /\ ~\E x \in T : \A y \in T : y <= x}
<1> SUFFICES ASSUME B # {} PROVE FALSE
  <2>1. S \notin B => \E x \in S : \A y \in S : y <= x
    OBVIOUS
  <2> QED BY <2>1
<1>1. PICK T \in B : \A U \in SUBSET T : U # T => U \notin B
  <2>1. B \subseteq SUBSET S
    OBVIOUS
  <2> HIDE DEF B
  <2> QED BY <2>1, SmallestSet
<1>2. T \in SUBSET S /\ T # {} /\ ~\E x \in T : \A y \in T : y <= x
  OBVIOUS
<1>3. PICK e \in T : TRUE
  BY <1>2
<1>4. CASE T \ {e} = {}
  <2>1. T = {e} /\ e \in Nat
    BY <1>2, <1>4
  <2> QED BY <1>2, <2>1
<1>5. CASE T \ {e} # {}
  <2>1. T \ {e} \notin B
    BY <1>1, <1>3
  <2>2. PICK x \in T \ {e} : \A y \in T \ {e} : y <= x
    BY <1>2, <1>5, <2>1
  <2>3. e \in Nat /\ x \in Nat /\ \A y \in T : y \in Nat
    BY <1>2, <1>3
  <2>4. CASE e <= x
    BY <1>2, <2>2, <2>3, <2>4
  <2>5. CASE x <= e
    <3>1. \A y \in T : y <= e
      BY <2>2, <2>3, <2>5
    <3> QED BY <1>2, <1>3, <3>1
  <2> QED BY <2>3, <2>4, <2>5
<1> QED BY <1>4, <1>5

-----------------------------------------------------------------------------
(* topk_queue.                                                             *)

(***************************************************************************)
(* Where the scores from x on begin, and how many they are.                *)
(***************************************************************************)
LEMMA KeptFrom ==
    ASSUME NEW q, Ascending(q), NEW x \in Nat
    PROVE  \E c \in 0..Len(q) :
            /\ \A p \in 1..Len(q) : q[p] >= x <=> p > c
            /\ Cardinality(Kept(q, x)) = Len(q) - c
<1> DEFINE P == {p \in 1..Len(q) : ~(q[p] >= x)}
<1>1. Len(q) \in Nat /\ \A p \in 1..Len(q) : q[p] \in Nat
  BY DEF Ascending
<1>2. PICK c \in 0..Len(q) : P = 1..c
  <2>1. P \in SUBSET (1..Len(q))
    OBVIOUS
  <2>2. \A p \in P : \A r \in 1..Len(q) : r <= p => r \in P
    <3>1. ASSUME NEW p \in P, NEW r \in 1..Len(q), r <= p PROVE r \in P
      <4>1. q[r] <= q[p] /\ ~(q[p] >= x) /\ q[r] \in Nat /\ q[p] \in Nat
        BY <1>1, <3>1 DEF Ascending
      <4> QED BY <4>1
    <3> QED BY <3>1
  <2> HIDE DEF P
  <2> QED BY <1>1, <2>1, <2>2, Prefix
<1>3. \A p \in 1..Len(q) : q[p] >= x <=> p > c
  <2>1. ASSUME NEW p \in 1..Len(q) PROVE q[p] >= x <=> p > c
    <3>1. p \in P <=> ~(q[p] >= x)
      OBVIOUS
    <3>2. p \in P <=> ~(p > c)
      BY <1>1, <1>2
    <3> QED BY <3>1, <3>2
  <2> QED BY <2>1
<1>4. Kept(q, x) = (c + 1)..Len(q)
  BY <1>1, <1>3 DEF Kept
<1>5. Cardinality((c + 1)..Len(q)) = Len(q) - c
  <2> DEFINE d == c + 1
  <2>1. d \in Int /\ Len(q) \in Int /\ Len(q) - d + 1 = Len(q) - c
    BY <1>1
  <2>2. d > Len(q) => Len(q) - c = 0
    BY <1>1
  <2> HIDE DEF d
  <2>3. Cardinality(d..Len(q)) = IF d > Len(q) THEN 0 ELSE Len(q) - d + 1
    BY <2>1, FS_Interval
  <2>4. Cardinality(d..Len(q)) = Len(q) - c
    BY <2>1, <2>2, <2>3
  <2> QED BY <2>4 DEF d
<1> QED BY <1>3, <1>4, <1>5

(***************************************************************************)
(* How many they are follows from where they begin.                        *)
(***************************************************************************)
LEMMA KeptCount ==
    ASSUME NEW q, Len(q) \in Nat, NEW x, NEW c \in 0..Len(q),
           \A p \in 1..Len(q) : q[p] >= x <=> p > c
    PROVE  Cardinality(Kept(q, x)) = Len(q) - c
<1>1. Kept(q, x) = (c + 1)..Len(q)
  BY DEF Kept
<1>2. Cardinality((c + 1)..Len(q)) = Len(q) - c
  <2> DEFINE d == c + 1
  <2>1. d \in Int /\ Len(q) \in Int /\ Len(q) - d + 1 = Len(q) - c
    OBVIOUS
  <2>2. d > Len(q) => Len(q) - c = 0
    OBVIOUS
  <2> HIDE DEF d
  <2>3. Cardinality(d..Len(q)) = IF d > Len(q) THEN 0 ELSE Len(q) - d + 1
    BY <2>1, FS_Interval
  <2>4. Cardinality(d..Len(q)) = Len(q) - c
    BY <2>1, <2>2, <2>3
  <2> QED BY <2>4 DEF d
<1> QED BY <1>1, <1>2

(***************************************************************************)
(* A score comes behind those that are not larger.                         *)
(***************************************************************************)
LEMMA PlaceFacts ==
    ASSUME NEW q, Ascending(q), NEW s \in Nat
    PROVE  \E b \in 0..Len(q) :
            /\ \A p \in 1..Len(q) : q[p] <= s <=> p <= b
            /\ WithScore(q, s) = InsertAt(q, b + 1, s)
<1> DEFINE P == {p \in 1..Len(q) : q[p] <= s}
<1>1. Len(q) \in Nat /\ \A p \in 1..Len(q) : q[p] \in Nat
  BY DEF Ascending
<1>2. PICK b \in 0..Len(q) : P = 1..b /\ Cardinality(P) = b
  <2>1. P \in SUBSET (1..Len(q))
    OBVIOUS
  <2>2. \A p \in P : \A r \in 1..Len(q) : r <= p => r \in P
    <3>1. ASSUME NEW p \in P, NEW r \in 1..Len(q), r <= p PROVE r \in P
      <4>1. q[r] <= q[p] /\ q[p] <= s /\ q[r] \in Nat /\ q[p] \in Nat
        BY <1>1, <3>1 DEF Ascending
      <4> QED BY <4>1
    <3> QED BY <3>1
  <2> HIDE DEF P
  <2> QED BY <1>1, <2>1, <2>2, Prefix
<1>3. \A p \in 1..Len(q) : q[p] <= s <=> p <= b
  <2>1. ASSUME NEW p \in 1..Len(q) PROVE q[p] <= s <=> p <= b
    <3>1. p \in P <=> q[p] <= s
      OBVIOUS
    <3>2. p \in P <=> p <= b
      BY <1>1, <1>2
    <3> QED BY <3>1, <3>2
  <2> QED BY <2>1
<1> QED BY <1>2, <1>3 DEF WithScore

(***************************************************************************)
(* The score is one more of the scores up to its own.                      *)
(***************************************************************************)
LEMMA WithScoreFacts ==
    ASSUME NEW q, Ascending(q), NEW s \in Nat
    PROVE  /\ Ascending(WithScore(q, s))
           /\ Len(WithScore(q, s)) = Len(q) + 1
           /\ \A x \in Nat :
                Cardinality(Kept(WithScore(q, s), x)) =
                    Cardinality(Kept(q, x)) + (IF s >= x THEN 1 ELSE 0)
<1>1. q \in Seq(Nat) /\ Len(q) \in Nat /\ \A p \in 1..Len(q) : q[p] \in Nat
  BY DEF Ascending
<1>2. PICK b \in 0..Len(q) :
        /\ \A p \in 1..Len(q) : q[p] <= s <=> p <= b
        /\ WithScore(q, s) = InsertAt(q, b + 1, s)
  BY PlaceFacts
<1> DEFINE r == WithScore(q, s)
<1>3. /\ r \in Seq(Nat)
      /\ Len(r) = Len(q) + 1
      /\ \A p \in 1..(Len(q) + 1) :
            r[p] = IF p < b + 1 THEN q[p] ELSE IF p = b + 1 THEN s ELSE q[p - 1]
  <2> DEFINE k == b + 1
  <2>1. k \in 1..(Len(q) + 1)
    BY <1>1
  <2>2. r = InsertAt(q, k, s)
    BY <1>2
  <2> HIDE DEF k, r
  <2>3. Inserted(r, Nat, q, k, s)
    BY <1>1, <2>1, <2>2, InsertAtFacts
  <2> QED BY <2>3 DEF Inserted, k
<1> HIDE DEF r
<1>4. \A p, t \in 1..Len(q) : p <= t => q[p] <= q[t]
  BY DEF Ascending
<1>5. \A p, t \in 1..Len(r) : p <= t => r[p] <= r[t]
  <2> SUFFICES ASSUME NEW p \in 1..(Len(q) + 1), NEW t \in 1..(Len(q) + 1), p <= t
               PROVE  r[p] <= r[t]
    BY <1>3
  <2>1. p \in Int /\ t \in Int
    OBVIOUS
  <2>2. CASE t < b + 1
    <3>1. r[p] = q[p] /\ r[t] = q[t] /\ p \in 1..Len(q) /\ t \in 1..Len(q)
      BY <1>1, <1>3, <2>1, <2>2
    <3> QED BY <1>4, <3>1
  <2>3. CASE t = b + 1
    <3>1. r[t] = s
      BY <1>3, <2>3
    <3>2. CASE p = t
      BY <3>1, <3>2
    <3>3. CASE p < t
      <4>1. r[p] = q[p] /\ p \in 1..Len(q) /\ p <= b
        BY <1>1, <1>3, <2>1, <2>3, <3>3
      <4> QED BY <1>2, <3>1, <4>1
    <3> QED BY <2>1, <3>2, <3>3
  <2>4. CASE t > b + 1
    <3>1. r[t] = q[t - 1] /\ t - 1 \in 1..Len(q) /\ ~(t - 1 <= b)
      BY <1>1, <1>3, <2>1, <2>4
    <3>2. q[t - 1] > s /\ q[t - 1] \in Nat
      <4>1. ~(q[t - 1] <= s) /\ q[t - 1] \in Nat
        BY <1>1, <1>2, <3>1
      <4> QED BY <4>1
    <3>3. CASE p < b + 1
      <4>1. r[p] = q[p] /\ p \in 1..Len(q) /\ p <= t - 1
        BY <1>1, <1>3, <2>1, <2>4, <3>3
      <4> QED BY <1>4, <3>1, <4>1
    <3>4. CASE p = b + 1
      <4>1. r[p] = s
        BY <1>3, <3>4
      <4> QED BY <3>1, <3>2, <4>1
    <3>5. CASE p > b + 1
      <4>1. r[p] = q[p - 1] /\ p - 1 \in 1..Len(q) /\ p - 1 <= t - 1
        BY <1>1, <1>3, <2>1, <3>5
      <4> QED BY <1>4, <3>1, <4>1
    <3> QED BY <2>1, <3>3, <3>4, <3>5
  <2> QED BY <2>1, <2>2, <2>3, <2>4
<1>6. ASSUME NEW x \in Nat
      PROVE  Cardinality(Kept(r, x)) = Cardinality(Kept(q, x)) + (IF s >= x THEN 1 ELSE 0)
  <2>1. PICK c \in 0..Len(q) : /\ \A p \in 1..Len(q) : q[p] >= x <=> p > c
                               /\ Cardinality(Kept(q, x)) = Len(q) - c
    BY KeptFrom
  <2>2. CASE s >= x
    <3>1. c <= b
      <4>1. ASSUME c > b PROVE FALSE
        <5>1. c \in 1..Len(q) /\ ~(c > c) /\ ~(c <= b)
          BY <4>1
        <5>2. ~(q[c] >= x) /\ ~(q[c] <= s) /\ q[c] \in Nat
          BY <1>1, <1>2, <2>1, <5>1
        <5> QED BY <2>2, <5>2
      <4> QED BY <4>1
    <3>2. \A p \in 1..Len(r) : r[p] >= x <=> p > c
      <4> SUFFICES ASSUME NEW p \in 1..(Len(q) + 1) PROVE r[p] >= x <=> p > c
        BY <1>3
      <4>1. CASE p < b + 1
        <5>1. r[p] = q[p] /\ p \in 1..Len(q)
          BY <1>1, <1>3, <4>1
        <5> QED BY <2>1, <5>1
      <4>2. CASE p = b + 1
        <5>1. r[p] = s /\ p > c
          BY <1>3, <3>1, <4>2
        <5> QED BY <2>2, <5>1
      <4>3. CASE p > b + 1
        <5>1. r[p] = q[p - 1] /\ p - 1 \in 1..Len(q) /\ p - 1 > c /\ p > c
          BY <1>1, <1>3, <3>1, <4>3
        <5> QED BY <2>1, <5>1
      <4> QED BY <4>1, <4>2, <4>3
    <3>3. Cardinality(Kept(r, x)) = Len(r) - c
      <4>1. Len(r) \in Nat /\ c \in 0..Len(r)
        BY <1>1, <1>3
      <4> QED BY <3>2, <4>1, KeptCount
    <3> QED BY <1>1, <1>3, <2>1, <2>2, <3>3
  <2>3. CASE ~(s >= x)
    <3>1. b <= c
      <4>1. ASSUME b > c PROVE FALSE
        <5>1. b \in 1..Len(q) /\ b > c /\ b <= b
          BY <4>1
        <5>2. q[b] >= x /\ q[b] <= s /\ q[b] \in Nat
          BY <1>1, <1>2, <2>1, <5>1
        <5> QED BY <2>3, <5>2
      <4> QED BY <4>1
    <3>2. \A p \in 1..Len(r) : r[p] >= x <=> p > c + 1
      <4> SUFFICES ASSUME NEW p \in 1..(Len(q) + 1) PROVE r[p] >= x <=> p > c + 1
        BY <1>3
      <4>1. CASE p < b + 1
        <5>1. r[p] = q[p] /\ p \in 1..Len(q) /\ ~(p > c) /\ ~(p > c + 1)
          BY <1>1, <1>3, <3>1, <4>1
        <5> QED BY <2>1, <5>1
      <4>2. CASE p = b + 1
        <5>1. r[p] = s /\ ~(p > c + 1)
          BY <1>3, <3>1, <4>2
        <5> QED BY <2>3, <5>1
      <4>3. CASE p > b + 1
        <5>1. r[p] = q[p - 1] /\ p - 1 \in 1..Len(q) /\ (p - 1 > c <=> p > c + 1)
          BY <1>1, <1>3, <4>3
        <5> QED BY <2>1, <5>1
      <4> QED BY <4>1, <4>2, <4>3
    <3>3. Cardinality(Kept(r, x)) = Len(r) - (c + 1)
      <4>1. Len(r) \in Nat /\ c + 1 \in 0..Len(r)
        BY <1>1, <1>3
      <4> QED BY <3>2, <4>1, KeptCount
    <3> QED BY <1>1, <1>3, <2>1, <2>3, <3>3
  <2> QED BY <2>2, <2>3
<1> QED BY <1>3, <1>5, <1>6 DEF Ascending, r

(***************************************************************************)
(* Without the front, there is one less of the scores up to the front.     *)
(***************************************************************************)
LEMMA TailFacts ==
    ASSUME NEW q, Ascending(q), q # <<>>
    PROVE  /\ Ascending(Tail(q))
           /\ Head(q) \in Nat
           /\ Len(q) \in Nat \ {0}
           /\ Len(Tail(q)) = Len(q) - 1
           /\ \A x \in Nat : x <= Head(q) => Cardinality(Kept(q, x)) = Len(q)
           /\ \A x \in Nat : x > Head(q) => Cardinality(Kept(q, x)) < Len(q)
           /\ \A x \in Nat :
                Cardinality(Kept(Tail(q), x)) =
                    Cardinality(Kept(q, x)) - (IF x <= Head(q) THEN 1 ELSE 0)
<1>1. q \in Seq(Nat) /\ Len(q) \in Nat \ {0} /\ \A p \in 1..Len(q) : q[p] \in Nat
  BY DEF Ascending
<1>2. Head(q) = q[1] /\ q[1] \in Nat
  BY <1>1
<1> DEFINE r == Tail(q)
<1>3. r \in Seq(Nat) /\ Len(r) = Len(q) - 1 /\ \A p \in 1..Len(r) : r[p] = q[p + 1]
  BY <1>1
<1> HIDE DEF r
<1>4. Ascending(r)
  <2>1. ASSUME NEW p \in 1..Len(r), NEW t \in 1..Len(r), p <= t PROVE r[p] <= r[t]
    <3>1. p + 1 \in 1..Len(q) /\ t + 1 \in 1..Len(q) /\ p + 1 <= t + 1
      BY <1>1, <1>3, <2>1
    <3>2. q[p + 1] <= q[t + 1]
      BY <3>1 DEF Ascending
    <3> QED BY <1>3, <3>2
  <2> QED BY <1>3, <2>1 DEF Ascending
<1>5. ASSUME NEW x \in Nat
      PROVE  /\ x <= Head(q) => Cardinality(Kept(q, x)) = Len(q)
             /\ x > Head(q) => Cardinality(Kept(q, x)) < Len(q)
             /\ Cardinality(Kept(r, x)) =
                    Cardinality(Kept(q, x)) - (IF x <= Head(q) THEN 1 ELSE 0)
  <2>1. PICK c \in 0..Len(q) : /\ \A p \in 1..Len(q) : q[p] >= x <=> p > c
                               /\ Cardinality(Kept(q, x)) = Len(q) - c
    BY KeptFrom
  <2>2. x <= Head(q) <=> c = 0
    BY <1>1, <1>2, <2>1
  <2> DEFINE e == IF c = 0 THEN 0 ELSE c - 1
  <2>3. e \in 0..Len(r) /\ Len(r) \in Nat
    BY <1>1, <1>3
  <2>4. \A p \in 1..Len(r) : r[p] >= x <=> p > e
    <3> SUFFICES ASSUME NEW p \in 1..Len(r) PROVE r[p] >= x <=> p > e
      OBVIOUS
    <3>1. p + 1 \in 1..Len(q) /\ r[p] = q[p + 1] /\ (p + 1 > c <=> p > e)
      BY <1>1, <1>3
    <3> QED BY <2>1, <3>1
  <2> HIDE DEF e
  <2>5. Cardinality(Kept(r, x)) = Len(r) - e
    BY <2>3, <2>4, KeptCount
  <2>6. /\ Cardinality(Kept(r, x)) = Len(q) - 1 - e
        /\ x \in Nat /\ Head(q) \in Nat /\ c \in Nat /\ Len(q) \in Nat
    BY <1>1, <1>2, <1>3, <2>5
  <2> QED BY <2>1, <2>2, <2>6 DEF e
<1> QED BY <1>1, <1>2, <1>3, <1>4, <1>5 DEF r

(***************************************************************************)
(* A score that would not enter is one with K scores that are not smaller. *)
(***************************************************************************)
LEMMA EntryByKept ==
    ASSUME NEW q, Ascending(q), Len(q) <= K, NEW x \in Nat
    PROVE  /\ Cardinality(Kept(q, x)) \in 0..K
           /\ WouldEnter(q, x) <=> Cardinality(Kept(q, x)) < K
<1>1. Len(q) \in Nat /\ K \in Nat \ {0}
  BY KAssumption DEF Ascending
<1>2. PICK c \in 0..Len(q) : Cardinality(Kept(q, x)) = Len(q) - c
  BY KeptFrom
<1>3. Cardinality(Kept(q, x)) \in 0..K
  BY <1>1, <1>2
<1>4. CASE Len(q) < K
  BY <1>1, <1>2, <1>4 DEF WouldEnter
<1>5. CASE Len(q) = K
  <2>1. q # <<>>
    BY <1>1, <1>5
  <2>2. /\ Head(q) \in Nat
        /\ x <= Head(q) => Cardinality(Kept(q, x)) = K
        /\ x > Head(q) => Cardinality(Kept(q, x)) < K
    BY <1>5, <2>1, TailFacts
  <2>3. WouldEnter(q, x) <=> x > Head(q)
    BY <1>1, <1>5 DEF WouldEnter
  <2> QED BY <1>1, <1>3, <2>2, <2>3
<1> QED BY <1>1, <1>3, <1>4, <1>5

(***************************************************************************)
(* insert() keeps the scores in order and K at most: of the scores from    *)
(* any x on, one more if it is one of them, unless there are K already.    *)
(***************************************************************************)
LEMMA InsertFacts ==
    ASSUME NEW q, Ascending(q), Len(q) <= K, NEW s \in Nat
    PROVE  /\ Ascending(Insert(q, s))
           /\ Len(Insert(q, s)) <= K
           /\ \A x \in Nat :
                Cardinality(Kept(Insert(q, s), x)) =
                    AtMostK(Cardinality(Kept(q, x)) + (IF s >= x THEN 1 ELSE 0))
<1>1. Len(q) \in Nat /\ K \in Nat \ {0}
  BY KAssumption DEF Ascending
<1>2. \A x \in Nat : Cardinality(Kept(q, x)) \in 0..K
  BY EntryByKept
<1>3. CASE Len(q) < K
  <2>1. Insert(q, s) = WithScore(q, s)
    BY <1>3 DEF Insert
  <2>2. /\ Ascending(WithScore(q, s)) /\ Len(WithScore(q, s)) = Len(q) + 1
        /\ \A x \in Nat : Cardinality(Kept(WithScore(q, s), x)) =
                            Cardinality(Kept(q, x)) + (IF s >= x THEN 1 ELSE 0)
    BY WithScoreFacts
  <2>3. ASSUME NEW x \in Nat
        PROVE  Cardinality(Kept(q, x)) + (IF s >= x THEN 1 ELSE 0) <= K
    <3>1. PICK c \in 0..Len(q) : Cardinality(Kept(q, x)) = Len(q) - c
      BY KeptFrom
    <3> QED BY <1>1, <1>3, <3>1
  <2>4. ASSUME NEW x \in Nat
        PROVE  Cardinality(Kept(q, x)) + (IF s >= x THEN 1 ELSE 0)
                        = AtMostK(Cardinality(Kept(q, x)) + (IF s >= x THEN 1 ELSE 0))
    <3> DEFINE n == Cardinality(Kept(q, x)) + (IF s >= x THEN 1 ELSE 0)
    <3>1. n \in Nat /\ n <= K
      <4> DEFINE m == Cardinality(Kept(q, x))
      <4>1. m \in Nat
        BY <1>1, <1>2
      <4>2. n = m + (IF s >= x THEN 1 ELSE 0) /\ n <= K
        BY <2>3
      <4> HIDE DEF m, n
      <4> QED BY <4>1, <4>2
    <3> HIDE DEF n
    <3>2. n = AtMostK(n)
      BY <1>1, <3>1 DEF AtMostK
    <3> QED BY <3>2 DEF n
  <2> QED BY <1>1, <1>3, <2>1, <2>2, <2>4
<1>4. CASE Len(q) = K
  <2>1. q # <<>>
    BY <1>1, <1>4
  <2>2. /\ Ascending(Tail(q)) /\ Head(q) \in Nat /\ Len(Tail(q)) = K - 1
        /\ \A x \in Nat : x <= Head(q) => Cardinality(Kept(q, x)) = K
        /\ \A x \in Nat : x > Head(q) => Cardinality(Kept(q, x)) < K
        /\ \A x \in Nat : Cardinality(Kept(Tail(q), x)) =
                            Cardinality(Kept(q, x)) - (IF x <= Head(q) THEN 1 ELSE 0)
    BY <1>4, <2>1, TailFacts
  <2>3. CASE s > Head(q)
    <3>1. Insert(q, s) = WithScore(Tail(q), s)
      BY <1>1, <1>4, <2>3 DEF Insert
    <3>2. /\ Ascending(WithScore(Tail(q), s)) /\ Len(WithScore(Tail(q), s)) = Len(Tail(q)) + 1
          /\ \A x \in Nat : Cardinality(Kept(WithScore(Tail(q), s), x)) =
                              Cardinality(Kept(Tail(q), x)) + (IF s >= x THEN 1 ELSE 0)
      BY <2>2, WithScoreFacts
    <3>3. ASSUME NEW x \in Nat
          PROVE  Cardinality(Kept(Tail(q), x)) + (IF s >= x THEN 1 ELSE 0)
                    = AtMostK(Cardinality(Kept(q, x)) + (IF s >= x THEN 1 ELSE 0))
      <4>1. CASE x <= Head(q)
        <5>1. Cardinality(Kept(q, x)) = K /\ Cardinality(Kept(Tail(q), x)) = K - 1 /\ s >= x
          BY <2>2, <2>3, <4>1
        <5> QED BY <1>1, <5>1 DEF AtMostK
      <4>2. CASE x > Head(q)
        <5> DEFINE m == Cardinality(Kept(q, x))
                   m2 == Cardinality(Kept(Tail(q), x))
        <5>1. m \in 0..K /\ m < K /\ m2 = m - (IF x <= Head(q) THEN 1 ELSE 0)
          BY <1>2, <2>2, <4>2
        <5> HIDE DEF m, m2
        <5>2. ~(x <= Head(q))
          BY <2>2, <4>2
        <5>3. m2 + (IF s >= x THEN 1 ELSE 0) = AtMostK(m + (IF s >= x THEN 1 ELSE 0))
          BY <1>1, <5>1, <5>2 DEF AtMostK
        <5> QED BY <5>3 DEF m, m2
      <4>3. x <= Head(q) \/ x > Head(q)
        BY <2>2
      <4> QED BY <4>1, <4>2, <4>3, Zenon
    <3>4. Len(Insert(q, s)) <= K
      <4>1. Len(Insert(q, s)) = Len(Tail(q)) + 1 /\ Len(Tail(q)) = K - 1
        BY <2>2, <3>1, <3>2, Zenon
      <4> QED BY <1>1, <4>1
    <3>5. \A x \in Nat : Cardinality(Kept(WithScore(Tail(q), s), x)) =
                AtMostK(Cardinality(Kept(q, x)) + (IF s >= x THEN 1 ELSE 0))
      BY <3>2, <3>3, Zenon
    <3> QED BY <3>1, <3>2, <3>4, <3>5, Zenon
  <2>4. CASE ~(s > Head(q))
    <3>1. Insert(q, s) = q
      BY <1>1, <1>4, <2>4 DEF Insert
    <3>2. ASSUME NEW x \in Nat
          PROVE  Cardinality(Kept(q, x)) = AtMostK(Cardinality(Kept(q, x)) + (IF s >= x THEN 1 ELSE 0))
      <4>1. CASE s >= x
        <5>1. Cardinality(Kept(q, x)) = K
          BY <2>2, <2>4, <4>1
        <5> QED BY <1>1, <4>1, <5>1 DEF AtMostK
      <4>2. CASE ~(s >= x)
        BY <1>1, <1>2, <4>2 DEF AtMostK
      <4> QED BY <4>1, <4>2
    <3> QED BY <1>4, <1>1, <3>1, <3>2
  <2> QED BY <2>3, <2>4
<1> QED BY <1>1, <1>3, <1>4

(***************************************************************************)
(* insert() leaves the queue alone if the score would not enter, and what  *)
(* would not enter before does not enter after it.                         *)
(***************************************************************************)
LEMMA EntryAfterInsert ==
    ASSUME NEW q, Ascending(q), Len(q) <= K, NEW s \in Nat, NEW x \in Nat
    PROVE  /\ ~WouldEnter(q, s) => Insert(q, s) = q
           /\ ~WouldEnter(q, x) => ~WouldEnter(Insert(q, s), x)
<1>1. ~WouldEnter(q, s) => Insert(q, s) = q
  BY DEF WouldEnter, Insert
<1>2. ASSUME ~WouldEnter(q, x) PROVE ~WouldEnter(Insert(q, s), x)
  <2>1. Cardinality(Kept(q, x)) = K /\ K \in Nat \ {0}
    BY <1>2, EntryByKept, KAssumption
  <2>2. Cardinality(Kept(Insert(q, s), x)) = K
    BY <2>1, InsertFacts DEF AtMostK
  <2> QED BY <2>1, <2>2, InsertFacts, EntryByKept
<1> QED BY <1>1, <1>2

(***************************************************************************)
(* What would not enter is no larger than what would not either.           *)
(***************************************************************************)
LEMMA EntryDownwards ==
    ASSUME NEW q, Ascending(q), Len(q) <= K, NEW x \in Nat, NEW y \in Nat, x <= y, ~WouldEnter(q, y)
    PROVE  ~WouldEnter(q, x)
<1>1. Len(q) \in Nat /\ K \in Nat \ {0}
  BY KAssumption DEF Ascending
<1>2. Len(q) = K /\ q # <<>>
  BY <1>1 DEF WouldEnter
<1>3. Head(q) \in Nat
  BY <1>2, TailFacts
<1> QED BY <1>1, <1>3 DEF WouldEnter

-----------------------------------------------------------------------------
(* The index, the query and the enumerators.                               *)

(***************************************************************************)
(* A query has finitely many terms, and they are terms of the index.       *)
(***************************************************************************)
LEMMA TermsFacts ==
    ASSUME Given
    PROVE  /\ IsFiniteSet(Terms)
           /\ Cardinality(Terms) \in Nat
           /\ Terms \subseteq DOMAIN index
           /\ \A t : TermFreq(t) \in Nat
<1>1. query \in Seq(DOMAIN index)
  BY QueriesAssumption DEF Given
<1>2. Len(query) \in Nat /\ query \in [1..Len(query) -> DOMAIN index]
  BY <1>1
<1>3. IsFiniteSet(1..Len(query))
  BY <1>2, FS_Interval
<1>4. query \in Surjection(1..Len(query), Terms)
  BY <1>2 DEF Surjection, Terms
<1>5. IsFiniteSet(Terms)
  BY <1>3, <1>4, FS_Surjection
<1>6. Terms \subseteq DOMAIN index
  BY <1>2 DEF Terms
<1>7. ASSUME NEW t PROVE TermFreq(t) \in Nat
  <2>1. {j \in 1..Len(query) : query[j] = t} \in SUBSET (1..Len(query))
    OBVIOUS
  <2>2. IsFiniteSet({j \in 1..Len(query) : query[j] = t})
    BY <1>3, <2>1, FS_Subset
  <2> QED BY <2>2, FS_CardinalityType DEF TermFreq
<1> QED BY <1>5, <1>6, <1>7, FS_CardinalityType

(***************************************************************************)
(* Lists are not empty, and their weights bound the scores in them.        *)
(***************************************************************************)
LEMMA ListFacts ==
    ASSUME Given, NEW t \in Terms
    PROVE  /\ Docs(t) \subseteq 0..(NumDocs - 1)
           /\ Docs(t) \subseteq Nat
           /\ \A d \in Docs(t) : TermScore(t, d) \in Nat /\ TermScore(t, d) <= max_weight[t]
           /\ max_weight[t] \in Nat
<1>1. index \in Indexes /\ t \in DOMAIN index /\ TermFreq(t) \in Nat
  BY TermsFacts DEF Given
<1>2. /\ Docs(t) \subseteq 0..(NumDocs - 1) /\ Docs(t) # {}
      /\ \A d \in Docs(t) : index[t][d] \in Nat
  BY <1>1, IndexesAssumption DEF Docs
<1>3. NumDocs \in Nat \ {0}
  BY NumDocsAssumption
<1>4. \A d \in Docs(t) : TermScore(t, d) \in Nat
  <2>1. \A x, y \in Nat : x * y \in Nat
    OBVIOUS
  <2> QED BY <1>1, <1>2, <2>1 DEF TermScore
<1> DEFINE W == {TermScore(t, d) : d \in Docs(t)}
<1>5. \E w \in W : \A d \in Docs(t) : TermScore(t, d) <= w
  <2>1. W \subseteq Nat /\ W # {}
    BY <1>2, <1>4
  <2>2. IsFiniteSet(W)
    <3>1. IsFiniteSet(0..(NumDocs - 1))
      BY <1>3, FS_Interval
    <3>2. IsFiniteSet(Docs(t))
      BY <1>2, <3>1, FS_Subset
    <3> DEFINE f == [d \in Docs(t) |-> TermScore(t, d)]
    <3>3. f \in Surjection(Docs(t), W)
      BY DEF Surjection
    <3> HIDE DEF f, W
    <3> QED BY <3>2, <3>3, FS_Surjection
  <2> HIDE DEF W
  <2>3. \E w \in W : \A v \in W : v <= w
    BY <2>1, <2>2, LargestOf
  <2> QED BY <2>3 DEF W
<1>6. MaxWeight(t) \in W /\ \A d \in Docs(t) : TermScore(t, d) <= MaxWeight(t)
  BY <1>5 DEF MaxWeight
<1>7. max_weight[t] = MaxWeight(t)
  BY DEF Given
<1>8. MaxWeight(t) \in Nat
  BY <1>4, <1>6
<1> QED BY <1>2, <1>3, <1>4, <1>6, <1>7, <1>8

(***************************************************************************)
(* FirstFrom is the first document of a list that is not below d.          *)
(***************************************************************************)
LEMMA FirstFromFacts ==
    ASSUME Given, NEW t \in Terms, NEW d \in Nat
    PROVE  /\ FirstFrom(t, d) \in 0..NumDocs
           /\ FirstFrom(t, d) = NumDocs \/ (FirstFrom(t, d) \in Docs(t) /\ FirstFrom(t, d) >= d)
           /\ d <= NumDocs => FirstFrom(t, d) >= d
           /\ \A e \in Docs(t) : e >= d => FirstFrom(t, d) <= e
<1>1. Docs(t) \subseteq 0..(NumDocs - 1) /\ NumDocs \in Nat \ {0}
  BY ListFacts, NumDocsAssumption
<1> DEFINE S == {e \in Docs(t) : e >= d} \cup {NumDocs}
<1>2. S \subseteq Nat /\ S # {}
  BY <1>1
<1>3. FirstFrom(t, d) = Least(S)
  BY DEF FirstFrom
<1>4. Least(S) \in S /\ \A e \in S : Least(S) <= e
  <2> HIDE DEF S
  <2> QED BY <1>2, LeastFacts
<1> QED BY <1>1, <1>3, <1>4

(***************************************************************************)
(* What does not change while a query is run.                              *)
(***************************************************************************)
LEMMA SameGiven ==
    ASSUME UNCHANGED given
    PROVE  /\ index' = index /\ query' = query /\ operator' = operator /\ max_weight' = max_weight
           /\ Given => Given'
           /\ Terms' = Terms
           /\ \A t : Docs(t)' = Docs(t)
           /\ \A t, d : FirstFrom(t, d)' = FirstFrom(t, d)
           /\ \A t, d : TermScore(t, d)' = TermScore(t, d)
           /\ \A d : FullScore(d)' = FullScore(d)
           /\ Matching' = Matching
           /\ Scores' = Scores
           /\ Ranked' = Ranked
<1>1. index' = index /\ query' = query /\ operator' = operator /\ max_weight' = max_weight
  BY DEF given
<1>2. Terms' = Terms
  BY <1>1 DEF Terms
<1>3. \A t : Docs(t)' = Docs(t)
  BY <1>1 DEF Docs
<1>4. \A t, d : FirstFrom(t, d)' = FirstFrom(t, d)
  BY <1>1 DEF FirstFrom, Docs
<1>5. \A t, d : TermScore(t, d)' = TermScore(t, d)
  BY <1>1 DEF TermScore, TermFreq
<1>6. \A d : FullScore(d)' = FullScore(d)
  BY <1>1 DEF TermScore, TermFreq, FullScore, Terms, Docs
<1>7. Matching' = Matching
  BY <1>1 DEF Matching, Terms, Docs
<1>8. Ranked' = Ranked
  BY <1>1 DEF Ranked
<1>9. Scores' = Scores
  BY <1>6 DEF Scores
<1>10. Given => Given'
  BY <1>1 DEF Given, Terms, MaxWeight, TermScore, TermFreq, Docs
<1> QED BY <1>1, <1>2, <1>3, <1>4, <1>5, <1>6, <1>7, <1>8, <1>10, <1>9, Zenon

(***************************************************************************)
(* An enumerator is past the documents of its list below its docid only,   *)
(* and stands at one unless its list is exhausted.                         *)
(***************************************************************************)
LEMMA CursorFacts ==
    ASSUME Given, CursorsStand, NEW t \in Terms
    PROVE  /\ docid[t] \in 0..NumDocs /\ asked[t] \in 0..NumDocs
           /\ NumDocs \in Nat \ {0}
           /\ asked[t] <= docid[t]
           /\ docid[t] < NumDocs => docid[t] \in Docs(t)
           /\ \A e \in Docs(t) : e >= asked[t] => docid[t] <= e
           /\ \A e \in Docs(t) : e >= docid[t] \/ e < asked[t]
<1>1. docid[t] \in 0..NumDocs /\ asked[t] \in 0..NumDocs /\ docid[t] = FirstFrom(t, asked[t])
  BY DEF CursorsStand
<1>2. NumDocs \in Nat \ {0}
  BY NumDocsAssumption
<1>3. asked[t] \in Nat /\ asked[t] <= NumDocs
  BY <1>1, <1>2
<1>4. /\ docid[t] = NumDocs \/ (docid[t] \in Docs(t) /\ docid[t] >= asked[t])
      /\ docid[t] >= asked[t]
      /\ \A e \in Docs(t) : e >= asked[t] => docid[t] <= e
  BY <1>1, <1>3, FirstFromFacts
<1>5. \A e \in Docs(t) : e \in Nat
  BY ListFacts
<1>6. \A e \in Docs(t) : e >= docid[t] \/ e < asked[t]
  BY <1>1, <1>4, <1>5
<1> QED BY <1>1, <1>2, <1>4, <1>6

(***************************************************************************)
(* next() of some enumerators that are at a posting.                       *)
(***************************************************************************)
LEMMA NextDocFacts ==
    ASSUME Given, CursorsStand, NEW S \in SUBSET Terms,
           \A t \in S : docid[t] < NumDocs,
           NextDoc(S), UNCHANGED given
    PROVE  /\ CursorsStand'
           /\ \A t \in S : docid'[t] > docid[t] /\ asked'[t] = docid[t] + 1
           /\ \A t \in Terms \ S : docid'[t] = docid[t] /\ asked'[t] = asked[t]
           /\ \A t \in Terms : asked[t] <= asked'[t] /\ asked'[t] <= NumDocs /\ docid[t] <= docid'[t]
<1>1. /\ Terms' = Terms /\ \A t, d : FirstFrom(t, d)' = FirstFrom(t, d)
  BY SameGiven
<1>2. ASSUME NEW t \in S
      PROVE  /\ docid'[t] = FirstFrom(t, docid[t] + 1) /\ asked'[t] = docid[t] + 1
             /\ docid'[t] \in 0..NumDocs /\ asked'[t] \in 0..NumDocs
             /\ docid'[t] > docid[t] /\ asked'[t] >= asked[t]
  <2>1. docid'[t] = FirstFrom(t, docid[t] + 1) /\ asked'[t] = docid[t] + 1
    BY DEF NextDoc
  <2>2. docid[t] \in 0..NumDocs /\ asked[t] \in 0..NumDocs /\ asked[t] <= docid[t] /\ NumDocs \in Nat
    BY CursorFacts
  <2>3. docid[t] + 1 \in Nat /\ docid[t] + 1 <= NumDocs
    BY <2>2
  <2>4. FirstFrom(t, docid[t] + 1) \in 0..NumDocs /\ FirstFrom(t, docid[t] + 1) >= docid[t] + 1
    BY <2>3, FirstFromFacts
  <2> QED BY <2>1, <2>2, <2>3, <2>4
<1>3. ASSUME NEW t \in Terms \ S
      PROVE  /\ docid'[t] = docid[t] /\ asked'[t] = asked[t]
             /\ docid'[t] = FirstFrom(t, asked'[t])
             /\ docid'[t] \in 0..NumDocs /\ asked'[t] \in 0..NumDocs
  BY DEF NextDoc, CursorsStand
<1>4. /\ docid' = [t \in Terms |-> docid'[t]] /\ asked' = [t \in Terms |-> asked'[t]]
  BY DEF NextDoc
<1>5. docid' \in [Terms -> 0..NumDocs] /\ asked' \in [Terms -> 0..NumDocs]
  BY <1>2, <1>3, <1>4
<1>6. \A t \in Terms : docid'[t] = FirstFrom(t, asked'[t])
  BY <1>2, <1>3
<1>7. CursorsStand'
  BY <1>1, <1>5, <1>6 DEF CursorsStand
<1>8. \A t \in Terms : asked[t] <= asked'[t] /\ asked'[t] <= NumDocs /\ docid[t] <= docid'[t]
  <2>1. ASSUME NEW t \in Terms
        PROVE  asked[t] <= asked'[t] /\ asked'[t] <= NumDocs /\ docid[t] <= docid'[t]
    <3>1. /\ docid[t] \in 0..NumDocs /\ asked[t] \in 0..NumDocs /\ NumDocs \in Nat
          /\ asked'[t] \in 0..NumDocs /\ docid'[t] \in 0..NumDocs
      BY <1>2, <1>3, CursorFacts
    <3>2. CASE t \in S
      BY <1>2, <3>1, <3>2
    <3>3. CASE t \notin S
      BY <1>3, <3>1, <3>3
    <3> QED BY <3>2, <3>3
  <2> QED BY <2>1
<1> QED BY <1>2, <1>3, <1>7, <1>8

(***************************************************************************)
(* next_geq() of one enumerator, for a document not below one asked for.   *)
(***************************************************************************)
LEMMA NextGeqFacts ==
    ASSUME Given, CursorsStand, NEW t \in Terms, NEW b \in 0..NumDocs, asked[t] <= b,
           NextGeq(t, b), UNCHANGED given
    PROVE  /\ CursorsStand'
           /\ docid'[t] >= b /\ docid'[t] >= docid[t] /\ asked'[t] = b
           /\ \A u \in Terms \ {t} : docid'[u] = docid[u] /\ asked'[u] = asked[u]
           /\ \A u \in Terms : asked[u] <= asked'[u] /\ asked'[u] <= NumDocs /\ docid[u] <= docid'[u]
<1>1. /\ Terms' = Terms /\ \A u, d : FirstFrom(u, d)' = FirstFrom(u, d)
  BY SameGiven
<1>2. /\ docid[t] \in 0..NumDocs /\ asked[t] \in 0..NumDocs /\ NumDocs \in Nat
      /\ b \in Nat /\ b <= NumDocs
      /\ docid \in [Terms -> 0..NumDocs] /\ asked \in [Terms -> 0..NumDocs]
  BY CursorFacts DEF CursorsStand
<1>3. /\ FirstFrom(t, b) \in 0..NumDocs /\ FirstFrom(t, b) >= b
      /\ FirstFrom(t, b) = NumDocs \/ FirstFrom(t, b) \in Docs(t)
      /\ \A e \in Docs(t) : e >= b => FirstFrom(t, b) <= e
  BY <1>2, FirstFromFacts
<1>4. docid'[t] = FirstFrom(t, b)
  <2>1. CASE docid[t] >= b
    <3>1. docid'[t] = docid[t]
      BY <1>2, <2>1 DEF NextGeq
    <3>2. /\ docid[t] < NumDocs => docid[t] \in Docs(t)
          /\ \A e \in Docs(t) : e >= asked[t] => docid[t] <= e
      BY CursorFacts
    <3>3. docid[t] <= FirstFrom(t, b)
      <4>1. CASE FirstFrom(t, b) = NumDocs
        BY <1>2, <4>1
      <4>2. CASE FirstFrom(t, b) \in Docs(t)
        BY <1>2, <1>3, <3>2, <4>2
      <4> QED BY <1>3, <4>1, <4>2
    <3>4. FirstFrom(t, b) <= docid[t]
      <4>1. CASE docid[t] < NumDocs
        BY <1>3, <2>1, <3>2, <4>1
      <4>2. CASE ~(docid[t] < NumDocs)
        BY <1>2, <1>3, <4>2
      <4> QED BY <4>1, <4>2
    <3> QED BY <1>2, <1>3, <3>1, <3>3, <3>4
  <2>2. CASE ~(docid[t] >= b)
    BY <1>2, <2>2 DEF NextGeq
  <2> QED BY <2>1, <2>2
<1>5. docid'[t] >= docid[t]
  <2>1. CASE docid[t] >= b
    BY <1>2, <2>1 DEF NextGeq
  <2>2. CASE ~(docid[t] >= b)
    BY <1>2, <1>3, <1>4, <2>2
  <2> QED BY <2>1, <2>2
<1>6. asked'[t] = b
  BY <1>2 DEF NextGeq
<1>7. \A u \in Terms \ {t} : docid'[u] = docid[u] /\ asked'[u] = asked[u]
  BY <1>2 DEF NextGeq
<1>8. docid' \in [Terms -> 0..NumDocs] /\ asked' \in [Terms -> 0..NumDocs]
  <2>1. docid' = [u \in Terms |-> docid'[u]] /\ asked' = [u \in Terms |-> asked'[u]]
    BY <1>2 DEF NextGeq
  <2>2. \A u \in Terms : docid'[u] \in 0..NumDocs /\ asked'[u] \in 0..NumDocs
    BY <1>2, <1>3, <1>4, <1>6, <1>7
  <2> QED BY <2>1, <2>2
<1>9. \A u \in Terms : docid'[u] = FirstFrom(u, asked'[u])
  <2>1. ASSUME NEW u \in Terms, u # t PROVE docid'[u] = FirstFrom(u, asked'[u])
    BY <1>7, <2>1 DEF CursorsStand
  <2> QED BY <1>4, <1>6, <2>1
<1>10. CursorsStand'
  BY <1>1, <1>8, <1>9 DEF CursorsStand
<1>11. ASSUME NEW u \in Terms
       PROVE  asked[u] <= asked'[u] /\ asked'[u] <= NumDocs /\ docid[u] <= docid'[u]
  <2>1. asked[u] \in 0..NumDocs /\ docid[u] \in 0..NumDocs
    BY <1>2
  <2>2. CASE u = t
    BY <1>2, <1>5, <1>6, <2>2
  <2>3. CASE u # t
    BY <1>2, <1>7, <2>1, <2>3
  <2> QED BY <2>2, <2>3
<1> QED BY <1>3, <1>4, <1>5, <1>6, <1>7, <1>10, <1>11

-----------------------------------------------------------------------------
(* The scores of documents.                                                *)

(***************************************************************************)
(* The best of the documents D, and of one more of which the score was     *)
(* inserted.                                                               *)
(***************************************************************************)
LEMMA BestAndOne ==
    ASSUME NEW q, NEW D, NEW f, IsFiniteSet(D), HasBestOf(q, D, f),
           NEW d, d \notin D, f[d] \in Nat
    PROVE  HasBestOf(Insert(q, f[d]), D \cup {d}, f)
<1>1. Ascending(q) /\ Len(q) <= K
  BY DEF HasBestOf
<1>2. K \in Nat \ {0}
  BY KAssumption
<1>3. ASSUME NEW x \in Nat
      PROVE  Cardinality(Kept(Insert(q, f[d]), x)) = AtMostK(Cardinality(Scoring(D \cup {d}, f, x)))
  <2> DEFINE n == Cardinality(Scoring(D, f, x))
             m == Cardinality(Scoring(D \cup {d}, f, x))
  <2>1. IsFiniteSet(Scoring(D, f, x)) /\ n \in Nat
    <3>1. Scoring(D, f, x) \in SUBSET D
      BY DEF Scoring
    <3> QED BY <3>1, FS_Subset, FS_CardinalityType
  <2>2. m = n + (IF f[d] >= x THEN 1 ELSE 0)
    <3>1. CASE f[d] >= x
      <4>1. Scoring(D \cup {d}, f, x) = Scoring(D, f, x) \cup {d} /\ d \notin Scoring(D, f, x)
        BY <3>1 DEF Scoring
      <4> QED BY <2>1, <3>1, <4>1, FS_AddElement
    <3>2. CASE ~(f[d] >= x)
      <4>1. Scoring(D \cup {d}, f, x) = Scoring(D, f, x)
        BY <3>2 DEF Scoring
      <4> QED BY <2>1, <3>2, <4>1
    <3> QED BY <3>1, <3>2
  <2>3. Cardinality(Kept(q, x)) = AtMostK(n)
    BY DEF HasBestOf
  <2>4. Cardinality(Kept(Insert(q, f[d]), x)) =
            AtMostK(Cardinality(Kept(q, x)) + (IF f[d] >= x THEN 1 ELSE 0))
    BY <1>1, InsertFacts
  <2> HIDE DEF n, m
  <2>5. AtMostK(AtMostK(n) + (IF f[d] >= x THEN 1 ELSE 0)) = AtMostK(n + (IF f[d] >= x THEN 1 ELSE 0))
    BY <1>2, <2>1 DEF AtMostK
  <2>6. Cardinality(Kept(Insert(q, f[d]), x)) = AtMostK(m)
    BY <2>2, <2>3, <2>4, <2>5
  <2> QED BY <2>6 DEF m
<1>4. Ascending(Insert(q, f[d])) /\ Len(Insert(q, f[d])) <= K
  BY <1>1, InsertFacts
<1> QED BY <1>3, <1>4 DEF HasBestOf

(***************************************************************************)
(* Documents that cannot enter may be left out.                            *)
(***************************************************************************)
LEMMA BestOfMore ==
    ASSUME NEW q, NEW D, NEW E, NEW f, IsFiniteSet(E), D \subseteq E, HasBestOf(q, D, f),
           \A d \in E \ D : f[d] \in Nat /\ ~WouldEnter(q, f[d])
    PROVE  HasBestOf(q, E, f)
<1>1. Ascending(q) /\ Len(q) <= K
  BY DEF HasBestOf
<1>2. K \in Nat \ {0}
  BY KAssumption
<1>3. ASSUME NEW x \in Nat
      PROVE  Cardinality(Kept(q, x)) = AtMostK(Cardinality(Scoring(E, f, x)))
  <2> DEFINE n == Cardinality(Scoring(D, f, x))
             m == Cardinality(Scoring(E, f, x))
             c == Cardinality(Kept(q, x))
  <2>1. c = AtMostK(n) /\ c \in 0..K /\ (WouldEnter(q, x) <=> c < K)
    BY <1>1, EntryByKept DEF HasBestOf
  <2>2. n \in Nat /\ m \in Nat /\ n <= m
    <3>1. Scoring(E, f, x) \in SUBSET E /\ Scoring(D, f, x) \in SUBSET Scoring(E, f, x)
      BY DEF Scoring
    <3>2. IsFiniteSet(Scoring(E, f, x)) /\ IsFiniteSet(Scoring(D, f, x))
      BY <3>1, FS_Subset
    <3> QED BY <3>1, <3>2, FS_Subset, FS_CardinalityType
  <2>3. CASE c = K
    <3> HIDE DEF n, m, c
    <3>1. c = AtMostK(m)
      BY <1>2, <2>1, <2>2, <2>3 DEF AtMostK
    <3> QED BY <3>1 DEF m, c
  <2>4. CASE c # K
    <3>1. WouldEnter(q, x)
      BY <1>2, <2>1, <2>4
    <3>2. ASSUME NEW d \in E \ D PROVE ~(f[d] >= x)
      <4>1. f[d] \in Nat /\ ~WouldEnter(q, f[d])
        OBVIOUS
      <4> QED BY <1>1, <3>1, <4>1, EntryDownwards
    <3>3. Scoring(E, f, x) = Scoring(D, f, x)
      BY <3>2 DEF Scoring
    <3> QED BY <2>1, <3>3
  <2> QED BY <2>3, <2>4
<1> QED BY <1>1, <1>3 DEF HasBestOf

(***************************************************************************)
(* The documents a query is about are finitely many, with a score each.    *)
(***************************************************************************)
LEMMA MatchingFacts ==
    ASSUME Given
    PROVE  /\ Matching \subseteq 0..(NumDocs - 1)
           /\ IsFiniteSet(Matching)
           /\ \A d \in Matching : Scores[d] = FullScore(d)
<1>1. NumDocs \in Nat \ {0}
  BY NumDocsAssumption
<1>2. Matching \in SUBSET (0..(NumDocs - 1))
  BY DEF Matching
<1>3. IsFiniteSet(0..(NumDocs - 1))
  BY <1>1, FS_Interval
<1>4. IsFiniteSet(Matching)
  BY <1>2, <1>3, FS_Subset
<1> QED BY <1>2, <1>4 DEF Scores

ListsWith(d) == {t \in Terms : d \in Docs(t)}

(***************************************************************************)
(* The score of a document is bounded by the weights of its lists.         *)
(***************************************************************************)
LEMMA FullScoreFacts ==
    ASSUME Given, NEW d
    PROVE  /\ FullScore(d) \in Nat
           /\ FullScore(d) = SumFunctionOnSet([t \in ListsWith(d) |-> TermScore(t, d)], ListsWith(d))
           /\ \A T \in SUBSET Terms :
                ListsWith(d) \subseteq T => FullScore(d) <= SumFunctionOnSet(max_weight, T)
<1> DEFINE f == [t \in ListsWith(d) |-> TermScore(t, d)]
<1>1. FullScore(d) = SumFunctionOnSet(f, ListsWith(d))
  BY DEF FullScore, SumFunction, ListsWith
<1>2. IsFiniteSet(Terms) /\ ListsWith(d) \in SUBSET Terms /\ IsFiniteSet(ListsWith(d))
  BY TermsFacts, FS_Subset DEF ListsWith
<1>3. \A t \in ListsWith(d) : f[t] \in Nat /\ f[t] <= max_weight[t]
  BY ListFacts DEF ListsWith
<1>4. \A t \in Terms : max_weight[t] \in Nat
  BY ListFacts
<1> HIDE DEF f
<1>5. SumFunctionOnSet(f, ListsWith(d)) \in Nat
  BY <1>2, <1>3, SumType
<1>6. ASSUME NEW T \in SUBSET Terms, ListsWith(d) \subseteq T
      PROVE  SumFunctionOnSet(f, ListsWith(d)) <= SumFunctionOnSet(max_weight, T)
  <2>1. IsFiniteSet(T)
    BY <1>2, FS_Subset
  <2> QED BY <1>3, <1>4, <1>6, <2>1, SumMonotonic
<1> QED BY <1>1, <1>5, <1>6 DEF f

(***************************************************************************)
(* The lists that are at a document have its score, or a part of it.       *)
(***************************************************************************)
LEMMA ScoreOfFacts ==
    ASSUME Given, NEW d, NEW S \in SUBSET ListsWith(d), \A t \in S : docid[t] = d
    PROVE  /\ ScoreOf(S) \in Nat
           /\ ScoreOf(S) = SumFunctionOnSet([t \in S |-> TermScore(t, d)], S)
           /\ ScoreOf(S) <= FullScore(d)
           /\ S = ListsWith(d) => ScoreOf(S) = FullScore(d)
<1> DEFINE f == [t \in S |-> TermScore(t, d)]
           g == [t \in ListsWith(d) |-> TermScore(t, d)]
<1>1. [t \in S |-> TermScore(t, docid[t])] = f
  OBVIOUS
<1>2. ScoreOf(S) = SumFunctionOnSet(f, S)
  BY <1>1 DEF ScoreOf, SumFunction
<1>3. IsFiniteSet(ListsWith(d)) /\ IsFiniteSet(S)
  BY TermsFacts, FS_Subset DEF ListsWith
<1>4. /\ \A t \in ListsWith(d) : g[t] \in Nat
      /\ \A t \in S : f[t] \in Nat /\ f[t] = g[t]
  BY ListFacts DEF ListsWith
<1>5. FullScore(d) = SumFunctionOnSet(g, ListsWith(d)) /\ FullScore(d) \in Nat
  BY FullScoreFacts
<1> HIDE DEF f, g
<1>6. SumFunctionOnSet(f, S) \in Nat /\ SumFunctionOnSet(f, S) <= SumFunctionOnSet(g, ListsWith(d))
  <2>1. \A t \in S : f[t] \in Nat /\ f[t] <= g[t]
    BY <1>4
  <2> QED BY <1>3, <1>4, <2>1, SumType, SumMonotonic
<1>7. S = ListsWith(d) => SumFunctionOnSet(f, S) = SumFunctionOnSet(g, ListsWith(d))
  BY <1>3, <1>4, SumEqual
<1> QED BY <1>2, <1>5, <1>6, <1>7 DEF f

-----------------------------------------------------------------------------
(* The orders that the terms are in.                                       *)

(***************************************************************************)
(* Every term is at one place of an order.                                 *)
(***************************************************************************)
LEMMA OrderFacts ==
    ASSUME Given, NEW seq \in SetToSeqs(Terms)
    PROVE  /\ seq \in Seq(Terms)
           /\ Len(seq) = Cardinality(Terms) /\ Len(seq) \in Nat
           /\ Terms = {seq[p] : p \in 1..Len(seq)}
           /\ \A p, r \in 1..Len(seq) : seq[p] = seq[r] => p = r
           /\ Terms # {} => Len(seq) >= 1
<1> DEFINE n == Cardinality(Terms)
<1>1. IsFiniteSet(Terms) /\ n \in Nat
  BY TermsFacts
<1>2. seq \in [1..n -> Terms] /\ \A p, r \in 1..n : p # r => seq[p] # seq[r]
  BY DEF SetToSeqs
<1>3. seq \in Seq(Terms) /\ Len(seq) = n
  BY <1>1, <1>2
<1>4. IsFiniteSet(1..n) /\ Cardinality(1..n) = n
  BY <1>1, FS_Interval
<1>5. seq \in Injection(1..n, Terms)
  <2>1. \A p, r \in 1..n : seq[p] = seq[r] => p = r
    BY <1>2
  <2>2. IsInjective(seq)
    BY <1>2, <2>1 DEF IsInjective
  <2> QED BY <1>2, <2>2 DEF Injection
<1>6. seq \in Surjection(1..n, Terms)
  BY <1>1, <1>4, <1>5, FS_Injection
<1>7. Terms = {seq[p] : p \in 1..n}
  <2>1. \A t \in Terms : \E p \in 1..n : seq[p] = t
    BY <1>6 DEF Surjection
  <2> QED BY <1>2, <2>1
<1>8. Terms # {} => n >= 1
  BY <1>1, FS_EmptySet
<1> QED BY <1>1, <1>2, <1>3, <1>7, <1>8

(***************************************************************************)
(* Keys that are in order from place to place are in order altogether.     *)
(***************************************************************************)
LEMMA SortedPairs ==
    ASSUME NEW seq, Len(seq) \in Nat, NEW key, \A p \in 1..Len(seq) : key[seq[p]] \in Nat,
           IsSortedBy(seq, key)
    PROVE  \A a, b \in 1..Len(seq) : a <= b => key[seq[a]] <= key[seq[b]]
<1> SUFFICES ASSUME NEW a \in 1..Len(seq) PROVE \A b \in 1..Len(seq) : a <= b => key[seq[a]] <= key[seq[b]]
  OBVIOUS
<1> DEFINE S == {b \in 1..Len(seq) : a <= b /\ ~(key[seq[a]] <= key[seq[b]])}
<1> SUFFICES ASSUME S # {} PROVE FALSE
  OBVIOUS
<1>1. S \subseteq Nat
  OBVIOUS
<1>2. PICK b \in S : \A c \in S : b <= c
  <2> HIDE DEF S
  <2> QED BY <1>1, LeastNat
<1>3. b \in 1..Len(seq) /\ a <= b /\ ~(key[seq[a]] <= key[seq[b]])
  OBVIOUS
<1>4. key[seq[a]] \in Nat /\ key[seq[b]] \in Nat
  BY <1>3
<1>5. a # b
  BY <1>3, <1>4
<1>6. b - 1 \in 1..Len(seq) /\ a <= b - 1 /\ b - 1 < b /\ b \in 2..Len(seq)
  BY <1>3, <1>5
<1>7. key[seq[a]] <= key[seq[b - 1]]
  BY <1>2, <1>6
<1>8. key[seq[b - 1]] <= key[seq[b]]
  BY <1>6 DEF IsSortedBy
<1>9. key[seq[b - 1]] \in Nat
  BY <1>6
<1> QED BY <1>3, <1>4, <1>7, <1>8, <1>9

\* The place in an order of what is at place p once the element of `place' has
\* bubbled down to `stop'.
Origin(p, place, stop) ==
    IF p < place THEN p ELSE IF p < stop THEN p + 1 ELSE IF p = stop THEN place ELSE p

Bubbled(seq, place, stop) ==
    SubSeq(seq, 1, place - 1) \o SubSeq(seq, place + 1, stop)
        \o <<seq[place]>> \o SubSeq(seq, stop + 1, Len(seq))

(***************************************************************************)
(* Bubbling down, place by place.                                          *)
(***************************************************************************)
LEMMA BubbledFacts ==
    ASSUME NEW S, NEW seq \in Seq(S), NEW place \in 1..Len(seq), NEW stop \in place..Len(seq)
    PROVE  /\ Bubbled(seq, place, stop) \in Seq(S)
           /\ Len(Bubbled(seq, place, stop)) = Len(seq)
           /\ \A p \in 1..Len(seq) : Bubbled(seq, place, stop)[p] = seq[Origin(p, place, stop)]
<1> DEFINE n == Len(seq)
           a == SubSeq(seq, 1, place - 1)
           b == SubSeq(seq, place + 1, stop)
           c == <<seq[place]>>
           d == SubSeq(seq, stop + 1, n)
<1>1. n \in Nat /\ place \in Int /\ stop \in Int /\ 1 <= place /\ place <= stop /\ stop <= n
  OBVIOUS
<1>2. a \in Seq(S) /\ Len(a) = place - 1 /\ \A p \in 1..(place - 1) : a[p] = seq[p]
  <2>1. \A p \in 1..(place - 1) : seq[p] \in S
    OBVIOUS
  <2> QED BY <1>1, <2>1, SubSeqProperties
<1>3. b \in Seq(S) /\ Len(b) = stop - place /\ \A p \in 1..(stop - place) : b[p] = seq[place + p]
  <2>1. \A p \in (place + 1)..stop : seq[p] \in S
    OBVIOUS
  <2> QED BY <1>1, <2>1, SubSeqProperties
<1>4. c \in Seq(S) /\ Len(c) = 1 /\ c[1] = seq[place]
  OBVIOUS
<1>5. d \in Seq(S) /\ Len(d) = n - stop /\ \A p \in 1..(n - stop) : d[p] = seq[stop + p]
  <2>1. \A p \in (stop + 1)..n : seq[p] \in S
    OBVIOUS
  <2> QED BY <1>1, <2>1, SubSeqProperties
<1> DEFINE ab == a \o b
           abc == ab \o c
           abcd == abc \o d
<1>6. Bubbled(seq, place, stop) = abcd
  BY DEF Bubbled
<1> HIDE DEF a, b, c, d, n
<1>7. /\ ab \in Seq(S) /\ Len(ab) = stop - 1
      /\ \A p \in 1..(stop - 1) : ab[p] = IF p <= place - 1 THEN a[p] ELSE b[p - (place - 1)]
  <2>1. /\ ab \in Seq(S) /\ Len(ab) = Len(a) + Len(b)
        /\ \A p \in 1..(Len(a) + Len(b)) : ab[p] = IF p <= Len(a) THEN a[p] ELSE b[p - Len(a)]
    BY <1>2, <1>3, ConcatProperties
  <2>2. Len(a) = place - 1 /\ Len(a) + Len(b) = stop - 1
    BY <1>1, <1>2, <1>3
  <2> HIDE DEF ab
  <2> QED BY <2>1, <2>2
<1> HIDE DEF ab
<1>8. /\ abc \in Seq(S) /\ Len(abc) = stop
      /\ \A p \in 1..stop : abc[p] = IF p <= stop - 1 THEN ab[p] ELSE c[p - (stop - 1)]
  <2>1. /\ abc \in Seq(S) /\ Len(abc) = Len(ab) + Len(c)
        /\ \A p \in 1..(Len(ab) + Len(c)) : abc[p] = IF p <= Len(ab) THEN ab[p] ELSE c[p - Len(ab)]
    BY <1>4, <1>7, ConcatProperties
  <2>2. Len(ab) = stop - 1 /\ Len(ab) + Len(c) = stop
    BY <1>1, <1>4, <1>7
  <2> HIDE DEF abc
  <2> QED BY <2>1, <2>2
<1> HIDE DEF abc
<1>9. /\ abcd \in Seq(S) /\ Len(abcd) = n
      /\ \A p \in 1..n : abcd[p] = IF p <= stop THEN abc[p] ELSE d[p - stop]
  <2>1. /\ abcd \in Seq(S) /\ Len(abcd) = Len(abc) + Len(d)
        /\ \A p \in 1..(Len(abc) + Len(d)) : abcd[p] = IF p <= Len(abc) THEN abc[p] ELSE d[p - Len(abc)]
    BY <1>5, <1>8, ConcatProperties
  <2>2. Len(abc) = stop /\ Len(abc) + Len(d) = n
    BY <1>1, <1>5, <1>8
  <2> HIDE DEF abcd
  <2> QED BY <2>1, <2>2
<1> HIDE DEF abcd
<1>10. ASSUME NEW p \in 1..n PROVE abcd[p] = seq[Origin(p, place, stop)]
  <2>1. p \in Int /\ 1 <= p /\ p <= n
    BY <1>1
  <2>2. CASE p < place
    <3>1. abcd[p] = a[p] /\ a[p] = seq[p]
      BY <1>1, <1>2, <1>7, <1>8, <1>9, <2>1, <2>2
    <3> QED BY <2>2, <3>1 DEF Origin
  <2>3. CASE place <= p /\ p < stop
    <3>1. abcd[p] = b[p - (place - 1)]
      <4>1. abcd[p] = abc[p]
        BY <1>1, <1>9, <2>1, <2>3
      <4>2. abc[p] = ab[p]
        BY <1>1, <1>8, <2>1, <2>3
      <4>3. p \in 1..(stop - 1) /\ ~(p <= place - 1)
        BY <1>1, <2>1, <2>3
      <4>4. ab[p] = b[p - (place - 1)]
        BY <1>7, <4>3
      <4> QED BY <4>1, <4>2, <4>4
    <3>2. p - (place - 1) \in 1..(stop - place) /\ place + (p - (place - 1)) = p + 1
      BY <1>1, <2>1, <2>3
    <3>3. b[p - (place - 1)] = seq[p + 1]
      BY <1>3, <3>2
    <3>4. Origin(p, place, stop) = p + 1
      BY <1>1, <2>1, <2>3 DEF Origin
    <3> QED BY <3>1, <3>3, <3>4
  <2>4. CASE p = stop
    <3>1. abcd[p] = c[p - (stop - 1)] /\ p - (stop - 1) = 1
      BY <1>1, <1>8, <1>9, <2>1, <2>4
    <3>2. Origin(p, place, stop) = place
      BY <1>1, <2>1, <2>4 DEF Origin
    <3> QED BY <1>4, <3>1, <3>2
  <2>5. CASE p > stop
    <3>1. abcd[p] = d[p - stop]
      BY <1>1, <1>9, <2>1, <2>5
    <3>2. p - stop \in 1..(n - stop) /\ stop + (p - stop) = p
      BY <1>1, <2>1, <2>5
    <3>3. d[p - stop] = seq[p]
      BY <1>5, <3>2
    <3>4. Origin(p, place, stop) = p
      BY <1>1, <2>1, <2>5 DEF Origin
    <3> QED BY <3>1, <3>3, <3>4
  <2>6. p < place \/ (place <= p /\ p < stop) \/ p = stop \/ p > stop
    BY <1>1, <2>1
  <2> QED BY <2>2, <2>3, <2>4, <2>5, <2>6
<1> QED BY <1>6, <1>9, <1>10 DEF n

(***************************************************************************)
(* It is an order of the terms again.                                      *)
(***************************************************************************)
LEMMA BubbledOrder ==
    ASSUME Given, NEW seq \in SetToSeqs(Terms), NEW place \in 1..Len(seq), NEW stop \in place..Len(seq)
    PROVE  Bubbled(seq, place, stop) \in SetToSeqs(Terms)
<1> DEFINE n == Len(seq)
           r == Bubbled(seq, place, stop)
<1>1. seq \in Seq(Terms) /\ n = Cardinality(Terms) /\ n \in Nat
  BY OrderFacts
<1>2. r \in Seq(Terms) /\ Len(r) = n /\ \A p \in 1..n : r[p] = seq[Origin(p, place, stop)]
  BY <1>1, BubbledFacts
<1>3. \A p \in 1..n : Origin(p, place, stop) \in 1..n
  BY <1>1 DEF Origin
<1>4. \A p, t \in 1..n : Origin(p, place, stop) = Origin(t, place, stop) => p = t
  BY <1>1 DEF Origin
<1>5. \A p, t \in 1..n : p # t => r[p] # r[t]
  <2>1. ASSUME NEW p \in 1..n, NEW t \in 1..n, p # t, r[p] = r[t] PROVE FALSE
    <3>1. seq[Origin(p, place, stop)] = seq[Origin(t, place, stop)]
      BY <1>2, <2>1
    <3>2. Origin(p, place, stop) = Origin(t, place, stop)
      BY <1>3, <3>1, OrderFacts
    <3> QED BY <1>4, <2>1, <3>2
  <2> QED BY <2>1
<1>6. r \in [1..n -> Terms]
  BY <1>2
<1> HIDE DEF r
<1>7. r \in SetToSeqs(Terms)
  BY <1>1, <1>5, <1>6 DEF SetToSeqs
<1> QED BY <1>7 DEF r

-----------------------------------------------------------------------------
(* What the documents that are done amount to.                             *)

(***************************************************************************)
(* They are some of those the query is about.                              *)
(***************************************************************************)
LEMMA DoneFacts ==
    ASSUME Given
    PROVE  /\ Done \in SUBSET Matching
           /\ IsFiniteSet(Done)
           /\ Cardinality(Done) \in Nat
<1>1. Done \in SUBSET Matching
  BY DEF Done
<1> QED BY <1>1, MatchingFacts, FS_Subset, FS_CardinalityType

(***************************************************************************)
(* The empty queue has the best of no documents.                           *)
(***************************************************************************)
LEMMA EmptyBest == \A f : HasBestOf(<<>>, {}, f)
<1>1. K \in Nat \ {0}
  BY KAssumption
<1>2. ASSUME NEW f, NEW s \in Nat
      PROVE  Cardinality(Kept(<<>>, s)) = AtMostK(Cardinality(Scoring({}, f, s)))
  <2>1. Kept(<<>>, s) = {} /\ Scoring({}, f, s) = {}
    BY DEF Kept, Scoring
  <2>2. Cardinality({}) = 0
    BY FS_EmptySet
  <2>3. AtMostK(0) = 0
    BY <1>1 DEF AtMostK
  <2> QED BY <2>1, <2>2, <2>3, Zenon
<1>3. Ascending(<<>>) /\ Len(<<>>) <= K
  <2>1. <<>> \in Seq(Nat) /\ Len(<<>>) = 0
    OBVIOUS
  <2> DEFINE q == <<>>
  <2>2. q \in Seq(Nat) /\ Len(q) = 0
    BY <2>1
  <2> HIDE DEF q
  <2>3. Ascending(q)
    BY <2>2 DEF Ascending
  <2> QED BY <1>1, <2>1, <2>3 DEF q
<1> QED BY <1>2, <1>3 DEF HasBestOf

\* The queue, or the count, is that of the documents that are done.
Answered ==
    /\ Ranked => HasBestOf(topk, Done, Scores)
    /\ ~Ranked => topk = <<>> /\ results = Cardinality(Done)

(***************************************************************************)
(* One more document is done, and was counted with its score.              *)
(***************************************************************************)
LEMMA CountOne ==
    ASSUME Given, Answered, UNCHANGED given, NEW d \in Matching, d \notin Done,
           Done' = Done \cup {d}, Count(FullScore(d))
    PROVE  Answered' /\ results' = results + 1
<1>1. Ranked' = Ranked /\ Scores' = Scores
  BY SameGiven
<1>2. IsFiniteSet(Done)
  BY DoneFacts
<1>3. ASSUME Ranked PROVE HasBestOf(topk', Done', Scores')
  <2>1. Scores[d] = FullScore(d) /\ Scores[d] \in Nat
    BY MatchingFacts, FullScoreFacts
  <2>2. topk' = Insert(topk, Scores[d])
    BY <1>3, <2>1 DEF Count
  <2>3. HasBestOf(topk, Done, Scores)
    BY <1>3 DEF Answered
  <2>4. HasBestOf(Insert(topk, Scores[d]), Done \cup {d}, Scores)
    BY <1>2, <2>1, <2>3, BestAndOne
  <2> QED BY <1>1, <2>2, <2>4
<1>4. results' = results + 1
  BY DEF Count
<1>5. ASSUME ~Ranked PROVE topk' = <<>> /\ results' = Cardinality(Done')
  <2>1. topk' = <<>> /\ results = Cardinality(Done)
    BY <1>5 DEF Answered, Count
  <2>2. Cardinality(Done \cup {d}) = Cardinality(Done) + 1
    BY <1>2, FS_AddElement
  <2> QED BY <1>4, <2>1, <2>2
<1>6. Answered'
  BY <1>1, <1>3, <1>5 DEF Answered
<1> QED BY <1>4, <1>6

(***************************************************************************)
(* Nothing is counted, and those that are done now cannot enter.           *)
(***************************************************************************)
LEMMA CountNone ==
    ASSUME Given, Answered, UNCHANGED given, topk' = topk, results' = results,
           Done \subseteq Done',
           Ranked => \A d \in Done' \ Done : ~WouldEnter(topk, FullScore(d)),
           ~Ranked => Done' = Done
    PROVE  Answered'
<1>1. Ranked' = Ranked /\ Scores' = Scores /\ Given'
  BY SameGiven
<1>2. Done' \in SUBSET Matching /\ IsFiniteSet(Done')
  <2>1. Matching' = Matching
    BY SameGiven
  <2>2. Done' \in SUBSET Matching
    BY <2>1 DEF Done
  <2> QED BY <2>2, MatchingFacts, FS_Subset
<1>3. ASSUME Ranked PROVE HasBestOf(topk', Done', Scores')
  <2>1. \A d \in Done' \ Done : Scores[d] \in Nat /\ ~WouldEnter(topk, Scores[d])
    <3>1. \A d \in Done' \ Done : Scores[d] = FullScore(d) /\ FullScore(d) \in Nat
      BY <1>2, MatchingFacts, FullScoreFacts
    <3> QED BY <1>3, <3>1
  <2>2. HasBestOf(topk, Done, Scores)
    BY <1>3 DEF Answered
  <2>3. HasBestOf(topk, Done', Scores)
    BY <1>2, <2>1, <2>2, BestOfMore
  <2> QED BY <1>1, <2>3
<1>4. ASSUME ~Ranked PROVE topk' = <<>> /\ results' = Cardinality(Done')
  BY <1>4 DEF Answered
<1> QED BY <1>1, <1>3, <1>4 DEF Answered

(***************************************************************************)
(* The queue is in order.                                                  *)
(***************************************************************************)
LEMMA QueueFacts ==
    ASSUME Answered
    PROVE  Ascending(topk) /\ Len(topk) <= K
<1>1. CASE Ranked
  BY <1>1 DEF Answered, HasBestOf
<1>2. CASE ~Ranked
  <2>1. topk = <<>>
    BY <1>2 DEF Answered
  <2>2. HasBestOf(<<>>, {}, Scores)
    BY EmptyBest
  <2> QED BY <2>1, <2>2 DEF HasBestOf
<1> QED BY <1>1, <1>2

(***************************************************************************)
(* The initial states.                                                     *)
(***************************************************************************)
LEMMA InitInv == Init => Inv
<1> SUFFICES ASSUME Init PROVE Inv
  OBVIOUS
<1>1. Given
  BY DEF Init, Given
<1>2. NumDocs \in Nat \ {0}
  BY NumDocsAssumption
<1>3. CursorsStand
  <2>1. \A t \in Terms : FirstFrom(t, 0) \in 0..NumDocs
    BY <1>1, FirstFromFacts
  <2> QED BY <1>2, <2>1 DEF Init, CursorsStand
<1>4. Places
  <2>1. order \in Seq(Terms) /\ Len(order) = 0
    BY DEF Init
  <2> QED BY <1>2, <2>1 DEF Init, Places
<1>5. Counted
  <2>1. Done = {}
    BY DEF Init, Done
  <2>2. Cardinality(Done) = 0
    BY <2>1, FS_EmptySet
  <2>3. Answered
    BY <2>1, <2>2, EmptyBest DEF Init, Answered
  <2> QED BY <2>3 DEF Init, Counted, Answered
<1>6. AndInv /\ OrInv /\ WandInv /\ MaxscoreRunInv /\ MaxscoreCompleteInv
  BY DEF Init, AndInv, OrInv, WandInv, MaxscoreRunInv, MaxscoreCompleteInv
<1> QED BY <1>1, <1>3, <1>4, <1>5, <1>6 DEF Inv

\* No document is asked for that was left behind, nor one beyond the last.
Onward == \A t \in Terms : asked[t] <= asked'[t] /\ asked'[t] <= NumDocs

(***************************************************************************)
(* Nothing is asked for.                                                   *)
(***************************************************************************)
LEMMA AskedSame ==
    ASSUME Given, CursorsStand, asked' = asked
    PROVE  Onward
<1>1. \A t \in Terms : asked[t] \in 0..NumDocs /\ NumDocs \in Nat
  BY CursorFacts
<1> QED BY <1>1 DEF Onward

(***************************************************************************)
(* The enumerators are opened and sorted.                                  *)
(***************************************************************************)
LEMMA StartInv ==
    ASSUME Inv, Start
    PROVE  Inv' /\ Onward
<1>1. Given /\ CursorsStand /\ Places /\ Counted /\ Answered
  BY DEF Inv, Counted, Answered
<1>2. UNCHANGED given /\ Given' /\ Terms' = Terms /\ Matching' = Matching
  <2>1. UNCHANGED given
    BY DEF Start
  <2> QED BY <1>1, <2>1, SameGiven
<1>3. pc = "start" /\ \A t \in Terms : asked[t] = 0
  BY <1>1 DEF Start, Places
<1>4. CursorsStand'
  <2>1. \A t, d : FirstFrom(t, d)' = FirstFrom(t, d)
    BY <1>2, SameGiven
  <2> QED BY <1>1, <1>2, <2>1 DEF Start, CursorsStand
<1>5. order' \in SetToSeqs(Terms)
  BY DEF Start, Sortings
<1>6. order' \in Seq(Terms) /\ Len(order') \in Nat /\ (Terms # {} => order'[1] \in Terms)
  <2>1. order' \in Seq(Terms) /\ Len(order') \in Nat /\ (Terms # {} => Len(order') >= 1)
    BY <1>1, <1>5, OrderFacts
  <2>2. Terms # {} => order'[1] \in Terms
    BY <2>1
  <2> QED BY <2>1, <2>2
<1>7. NumDocs \in Nat \ {0}
  BY NumDocsAssumption
<1>8. \A t \in Terms : docid[t] \in 0..NumDocs /\ \A d \in Docs(t) : docid[t] <= d
  <2>1. \A t \in Terms : docid[t] \in 0..NumDocs /\ \A d \in Docs(t) : d >= asked[t] => docid[t] <= d
    BY <1>1, CursorFacts
  <2>2. \A t \in Terms : \A d \in Docs(t) : d >= 0
    BY <1>1, ListFacts
  <2> QED BY <1>3, <2>1, <2>2
<1> DEFINE ids == {docid[t] : t \in Terms} \cup {NumDocs}
<1>9. Least(ids) \in ids /\ \A x \in ids : Least(ids) <= x
  <2>1. ids \subseteq Nat /\ ids # {}
    BY <1>7, <1>8
  <2> QED BY <2>1, LeastFacts
<1>10. /\ cur_doc' \in 0..NumDocs
       /\ operator \in {"and", "ranked_and"} => cur_doc' = IF Terms = {} THEN 0 ELSE docid[order'[1]]
       /\ operator \notin {"and", "ranked_and"} => cur_doc' = Least(ids)
  <2>1. operator \notin {"and", "ranked_and"} => cur_doc' = Least(ids)
    BY DEF Start
  <2>2. operator \in {"and", "ranked_and"} => cur_doc' = IF Terms = {} THEN 0 ELSE docid[order'[1]]
    BY DEF Start
  <2>3. Least(ids) \in 0..NumDocs
    BY <1>7, <1>8, <1>9
  <2>4. Terms # {} => docid[order'[1]] \in 0..NumDocs
    BY <1>6, <1>8
  <2> HIDE DEF ids
  <2> QED BY <1>7, <2>1, <2>2, <2>3, <2>4
<1>11. i' = 2 /\ pc' = IF Terms = {} THEN "done" ELSE "run"
  BY DEF Start
<1>12. Places'
  <2>1. non_essential' = 0 /\ next_doc' = next_doc /\ score' = score /\ results' = results
    BY <1>1, <1>3 DEF Start, Places
  <2>2. next_doc \in 0..NumDocs /\ score \in Nat /\ results \in Nat
    BY <1>1 DEF Places
  <2> HIDE DEF ids
  <2> QED BY <1>2, <1>5, <1>6, <1>10, <1>11, <2>1, <2>2 DEF Places
<1>13. Done = {} /\ Done' = {}
  <2>1. Done = {}
    BY <1>3 DEF Done
  <2>2. CASE Terms = {}
    <3>1. Matching = {}
      BY <2>2 DEF Matching
    <3> QED BY <1>2, <2>1, <3>1 DEF Done
  <2>3. CASE Terms # {} /\ operator = "wand"
    <3>1. \A d \in Matching : ~Passed(d)'
      <4>1. \A t \in Terms : Docs(t)' = Docs(t) /\ docid'[t] = docid[t]
        BY <1>2, SameGiven DEF Start
      <4>2. \A t \in Terms : \A d \in Docs(t) : ~(docid[t] > d)
        <5>1. \A t \in Terms : \A d \in Docs(t) : d \in Nat /\ docid[t] \in Nat /\ docid[t] <= d
          BY <1>1, <1>7, <1>8, ListFacts
        <5> QED BY <5>1
      <4> QED BY <1>2, <4>1, <4>2 DEF Passed
    <3>2. operator' = "wand"
      BY <1>2, <2>3 DEF given
    <3> QED BY <1>2, <1>11, <2>1, <2>3, <3>1, <3>2 DEF Done
  <2>4. CASE Terms # {} /\ operator # "wand"
    <3>1. \A d \in Matching : cur_doc' <= d
      <4>1. CASE operator \in {"and", "ranked_and"}
        <5>1. cur_doc' = docid[order'[1]] /\ order'[1] \in Terms
          BY <1>6, <1>10, <2>4, <4>1
        <5>2. \A d \in Matching : d \in Docs(order'[1])
          BY <2>4, <4>1, <5>1 DEF Matching
        <5> QED BY <1>8, <5>1, <5>2
      <4>2. CASE operator \notin {"and", "ranked_and"}
        <5>1. cur_doc' = Least(ids)
          BY <1>10, <4>2
        <5>2. ASSUME NEW d \in Matching PROVE Least(ids) <= d
          <6>1. PICK t \in Terms : d \in Docs(t)
            BY <4>2 DEF Matching
          <6>2. docid[t] <= d /\ Least(ids) <= docid[t] /\ docid[t] \in Nat
            BY <1>7, <1>8, <1>9, <6>1
          <6>3. Least(ids) \in Nat /\ d \in Nat
            BY <1>1, <1>7, <1>8, <1>9, <6>1, ListFacts
          <6> HIDE DEF ids
          <6> QED BY <6>2, <6>3
        <5> QED BY <5>1, <5>2
      <4> QED BY <4>1, <4>2
    <3>2. operator' # "wand"
      BY <1>2, <2>4 DEF given
    <3>3. \A d \in Matching : ~(d < cur_doc')
      <4>1. \A d \in Matching : d \in Nat
        BY <1>1, <1>7, MatchingFacts
      <4> HIDE DEF ids
      <4> QED BY <1>7, <1>10, <3>1, <4>1
    <3> QED BY <1>2, <1>11, <2>1, <2>4, <3>2, <3>3 DEF Done
  <2> QED BY <2>1, <2>2, <2>3, <2>4
<1>14. Counted'
  <2>1. topk' = topk /\ results' = results /\ results = 0
    BY <1>1, <1>3 DEF Start, Counted
  <2>2. Answered'
    BY <1>1, <1>2, <1>13, <2>1, CountNone
  <2>3. Terms # {} => Frontier' \in Nat
    <3>1. operator = "wand" => Frontier' = docid[order'[1]]
      BY <1>2 DEF Frontier, Start, given
    <3>2. operator # "wand" => Frontier' = cur_doc'
      BY <1>2 DEF Frontier, given
    <3>3. cur_doc' \in Nat
      BY <1>7, <1>10
    <3>4. Terms # {} => docid[order'[1]] \in Nat
      BY <1>6, <1>7, <1>8
    <3> QED BY <3>1, <3>2, <3>3, <3>4
  <2> QED BY <1>7, <1>11, <2>1, <2>2, <2>3 DEF Counted, Answered
<1>15. AndInv'
  <2> SUFFICES ASSUME pc' = "run", operator' \in {"and", "ranked_and"}
               PROVE  /\ i' \in 1..(Len(order') + 1)
                      /\ \A t \in Terms : asked'[t] <= cur_doc'
                      /\ \A p \in 1..(i' - 1) : docid'[order'[p]] = cur_doc'
    BY <1>2 DEF AndInv
  <2>1. Terms # {} /\ operator \in {"and", "ranked_and"}
    BY <1>2, <1>11 DEF given
  <2>2. cur_doc' = docid[order'[1]] /\ docid' = docid /\ asked' = asked
    BY <1>10, <2>1 DEF Start
  <2>3. Len(order') >= 1
    BY <1>1, <1>5, <2>1, OrderFacts
  <2>4. \A t \in Terms : asked'[t] <= cur_doc'
    BY <1>3, <1>7, <1>10, <2>2
  <2>5. \A p \in 1..(i' - 1) : p = 1
    BY <1>11
  <2> QED BY <1>6, <1>11, <2>2, <2>3, <2>4, <2>5
<1>16. OrInv'
  <2> SUFFICES ASSUME pc' = "run", operator' \in {"or", "ranked_or"}
               PROVE  /\ \A t \in Terms : asked'[t] <= cur_doc' /\ cur_doc' <= docid'[t]
                      /\ cur_doc' < NumDocs => \E t \in Terms : docid'[t] = cur_doc'
    BY <1>2 DEF OrInv
  <2>1. cur_doc' = Least(ids) /\ docid' = docid /\ asked' = asked
    BY <1>2, <1>10 DEF Start, given
  <2>2. \A t \in Terms : asked'[t] <= cur_doc' /\ cur_doc' <= docid'[t]
    <3>1. \A t \in Terms : Least(ids) <= docid[t]
      BY <1>9
    <3> HIDE DEF ids
    <3> QED BY <1>3, <1>7, <1>10, <2>1, <3>1
  <2>3. cur_doc' < NumDocs => \E t \in Terms : docid'[t] = cur_doc'
    <3>1. Least(ids) = NumDocs \/ \E t \in Terms : docid[t] = Least(ids)
      BY <1>9
    <3> HIDE DEF ids
    <3> QED BY <1>7, <2>1, <3>1
  <2> QED BY <2>2, <2>3
<1>17. WandInv'
  <2> SUFFICES ASSUME pc' = "run", operator' = "wand"
               PROVE  WandSorted' /\ \A d \in Nat : ~Passed(d)'
    BY DEF WandInv
  <2>1. docid' = docid /\ operator = "wand"
    BY <1>2 DEF Start, given
  <2>2. IsSortedBy(order', docid')
    BY <2>1 DEF Start, Sortings
  <2>3. \A d \in Nat : ~Passed(d)'
    <3>1. \A t \in Terms : Docs(t)' = Docs(t)
      BY <1>2, SameGiven
    <3>2. \A t \in Terms, d \in Nat : d \in Docs(t) => ~(docid[t] > d)
      BY <1>7, <1>8
    <3> QED BY <1>2, <2>1, <3>1, <3>2 DEF Passed
  <2> QED BY <2>2, <2>3 DEF WandSorted
<1>18. MaxscoreRunInv'
  <2> SUFFICES ASSUME pc' = "run", operator' = "maxscore"
               PROVE  /\ non_essential' = 0
                      /\ cur_doc' < NumDocs => cur_doc' \in Matching
                      /\ \A t \in Terms : asked'[t] <= cur_doc'
                      /\ \A t \in Terms : docid'[t] >= cur_doc'
    <3>1. \A p \in 1..Len(order') : order'[p] \in Terms
      BY <1>6
    <3> QED BY <1>2, <3>1 DEF MaxscoreRunInv, NonEssentialInv
  <2>1. cur_doc' = Least(ids) /\ docid' = docid /\ asked' = asked /\ operator = "maxscore"
    BY <1>2, <1>10 DEF Start, given
  <2>2. non_essential' = 0
    BY <1>1, <1>3 DEF Start, Places
  <2>3. \A t \in Terms : asked'[t] <= cur_doc' /\ docid'[t] >= cur_doc'
    <3>1. \A t \in Terms : Least(ids) <= docid[t]
      BY <1>9
    <3> HIDE DEF ids
    <3> QED BY <1>3, <1>7, <1>8, <1>10, <2>1, <3>1
  <2>4. cur_doc' < NumDocs => cur_doc' \in Matching
    <3>1. Least(ids) = NumDocs \/ \E t \in Terms : docid[t] = Least(ids)
      BY <1>9
    <3> HIDE DEF ids
    <3>2. ASSUME Least(ids) < NumDocs PROVE Least(ids) \in Matching
      <4>1. PICK t \in Terms : docid[t] = Least(ids)
        BY <1>7, <3>1, <3>2
      <4>2. docid[t] \in Docs(t) /\ docid[t] \in 0..(NumDocs - 1)
        BY <1>1, <1>7, <1>8, <3>2, <4>1, CursorFacts
      <4> QED BY <2>1, <4>1, <4>2 DEF Matching
    <3> QED BY <2>1, <3>2
  <2> QED BY <2>2, <2>3, <2>4
<1>19. MaxscoreCompleteInv'
  BY <1>11 DEF MaxscoreCompleteInv
<1>20. Onward
  <2>1. asked' = asked
    BY DEF Start
  <2> QED BY <1>1, <2>1, AskedSame
<1> QED BY <1>2, <1>4, <1>12, <1>14, <1>15, <1>16, <1>17, <1>18, <1>19, <1>20 DEF Inv

-----------------------------------------------------------------------------
(* What every step of a loop uses.                                         *)

\* Where the enumerators of the terms in S are, and the end.
Ids(S, g) == {g[t] : t \in S} \cup {NumDocs}

(***************************************************************************)
(* The smallest docid of some enumerators.                                 *)
(***************************************************************************)
LEMMA LeastId ==
    ASSUME NEW S, NEW g, \A t \in S : g[t] \in 0..NumDocs
    PROVE  /\ Least(Ids(S, g)) \in 0..NumDocs
           /\ \A t \in S : Least(Ids(S, g)) <= g[t]
           /\ Least(Ids(S, g)) < NumDocs => \E t \in S : g[t] = Least(Ids(S, g))
<1> DEFINE ids == Ids(S, g)
           x == Least(ids)
<1>1. NumDocs \in Nat \ {0}
  BY NumDocsAssumption
<1>2. \A y : y \in ids <=> y = NumDocs \/ \E t \in S : y = g[t]
  BY DEF Ids
<1> HIDE DEF ids
<1>3. ids \subseteq Nat /\ ids # {}
  BY <1>1, <1>2
<1>4. x \in ids /\ \A y \in ids : x <= y
  BY <1>3, LeastFacts
<1>5. \A y \in ids : y \in 0..NumDocs
  BY <1>1, <1>2
<1> HIDE DEF x
<1>6. x \in 0..NumDocs /\ (\A t \in S : x <= g[t]) /\ (x < NumDocs => \E t \in S : g[t] = x)
  BY <1>1, <1>4, <1>5, <1>2
<1> QED BY <1>6 DEF x, ids

(***************************************************************************)
(* The enumerators after a step that left them standing where they should. *)
(***************************************************************************)
LEMMA CursorFactsAfter ==
    ASSUME Given, UNCHANGED given, CursorsStand', NEW t \in Terms
    PROVE  /\ docid'[t] \in 0..NumDocs /\ asked'[t] \in 0..NumDocs
           /\ asked'[t] <= docid'[t]
           /\ docid'[t] < NumDocs => docid'[t] \in Docs(t)
           /\ \A e \in Docs(t) : e >= asked'[t] => docid'[t] <= e
<1>1. NumDocs \in Nat \ {0}
  BY NumDocsAssumption
<1>2. /\ docid'[t] \in 0..NumDocs /\ asked'[t] \in 0..NumDocs
      /\ docid'[t] = FirstFrom(t, asked'[t])
  <2>1. Terms' = Terms /\ \A d : FirstFrom(t, d)' = FirstFrom(t, d)
    BY SameGiven
  <2> QED BY <2>1 DEF CursorsStand
<1>3. asked'[t] \in Nat /\ asked'[t] <= NumDocs
  BY <1>1, <1>2
<1> QED BY <1>1, <1>2, <1>3, FirstFromFacts

(***************************************************************************)
(* The order the terms are in.                                             *)
(***************************************************************************)
LEMMA Standing ==
    ASSUME Inv, pc \in {"run", "complete"}
    PROVE  /\ Given /\ CursorsStand /\ Places /\ Counted /\ Answered
           /\ Ascending(topk) /\ Len(topk) <= K
           /\ order \in SetToSeqs(Terms) /\ order \in Seq(Terms)
           /\ Len(order) \in Nat /\ Len(order) >= 1
           /\ \A p \in 1..Len(order) : order[p] \in Terms
           /\ \A t \in Terms : \E p \in 1..Len(order) : order[p] = t
           /\ \A p, r \in 1..Len(order) : order[p] = order[r] => p = r
           /\ NumDocs \in Nat \ {0} /\ cur_doc \in 0..NumDocs
           /\ results \in Nat /\ results <= Frontier
<1>1. Given /\ CursorsStand /\ Places /\ Counted
  BY DEF Inv
<1>2. Answered
  BY <1>1 DEF Counted, Answered
<1>3. Ascending(topk) /\ Len(topk) <= K
  BY <1>2, QueueFacts
<1>4. /\ order \in SetToSeqs(Terms) /\ Terms # {}
      /\ cur_doc \in 0..NumDocs /\ results \in Nat
  BY <1>1 DEF Places
<1>5. results <= Frontier
  BY <1>1 DEF Counted
<1>6. /\ order \in Seq(Terms)
      /\ Len(order) \in Nat
      /\ Terms = {order[p] : p \in 1..Len(order)}
      /\ \A p, r \in 1..Len(order) : order[p] = order[r] => p = r
      /\ Len(order) >= 1
  BY <1>1, <1>4, OrderFacts
<1>7. /\ \A p \in 1..Len(order) : order[p] \in Terms
      /\ \A t \in Terms : \E p \in 1..Len(order) : order[p] = t
  BY <1>6
<1>8. NumDocs \in Nat \ {0}
  BY NumDocsAssumption
<1> QED BY <1>1, <1>2, <1>3, <1>4, <1>5, <1>6, <1>7, <1>8

-----------------------------------------------------------------------------
(* and_query, ranked_and_query                                             *)

(***************************************************************************)
(* A list is searched for the candidate.                                   *)
(***************************************************************************)
LEMMA AndAdvanceInv ==
    ASSUME Inv, AndAdvance
    PROVE  Inv' /\ Onward
<1>1. pc = "run" /\ operator \in {"and", "ranked_and"} /\ cur_doc < NumDocs /\ i <= Len(order)
  BY DEF AndAdvance, Conjunctive
<1>2. /\ Given /\ CursorsStand /\ Places /\ Counted /\ Answered
      /\ Len(order) \in Nat /\ NumDocs \in Nat \ {0} /\ cur_doc \in 0..NumDocs
      /\ \A p \in 1..Len(order) : order[p] \in Terms
      /\ results \in Nat /\ results <= Frontier
  BY <1>1, Standing
<1>3. /\ UNCHANGED given /\ pc' = pc /\ order' = order /\ next_doc' = next_doc /\ score' = score
      /\ non_essential' = non_essential /\ results' = results /\ topk' = topk
  BY DEF AndAdvance
<1>4. Given' /\ Terms' = Terms /\ Matching' = Matching /\ operator' = operator
  BY <1>2, <1>3, SameGiven
<1>5. /\ i \in 1..(Len(order) + 1)
      /\ \A t \in Terms : asked[t] <= cur_doc
      /\ \A p \in 1..(i - 1) : docid[order[p]] = cur_doc
  BY <1>1 DEF Inv, AndInv
<1> DEFINE t == order[i]
           found == docid'[t]
<1>6. i \in 1..Len(order) /\ t \in Terms
  BY <1>1, <1>2, <1>5
<1>7. /\ NextGeq(t, cur_doc)
      /\ found # cur_doc => cur_doc' = found /\ i' = 1
      /\ found = cur_doc => cur_doc' = cur_doc /\ i' = i + 1
  BY DEF AndAdvance
<1> HIDE DEF t
<1>8. /\ CursorsStand' /\ found >= cur_doc /\ asked'[t] = cur_doc
      /\ \A u \in Terms \ {t} : docid'[u] = docid[u] /\ asked'[u] = asked[u]
  BY <1>2, <1>3, <1>5, <1>6, <1>7, NextGeqFacts
<1>9. found \in 0..NumDocs /\ \A e \in Docs(t) : e >= cur_doc => found <= e
  BY <1>2, <1>3, <1>6, <1>8, CursorFactsAfter
<1> HIDE DEF found
<1>10. cur_doc' = found /\ i' \in 1..(Len(order) + 1)
  BY <1>2, <1>6, <1>7
<1>11. Places'
  <2>1. i' \in Nat /\ cur_doc' \in 0..NumDocs
    BY <1>9, <1>10
  <2> QED BY <1>1, <1>2, <1>3, <1>4, <2>1 DEF Places
<1>12. Done' = Done
  <2>1. Done = {d \in Matching : d < cur_doc}
    BY <1>1 DEF Done
  <2>2. Done' = {d \in Matching : d < found}
    BY <1>1, <1>3, <1>4, <1>10 DEF Done
  <2>3. ASSUME NEW d \in Matching PROVE d < cur_doc <=> d < found
    <3>1. d \in Docs(t) /\ d \in 0..(NumDocs - 1)
      BY <1>1, <1>6 DEF Matching
    <3>2. d >= cur_doc => found <= d
      BY <1>9, <3>1
    <3> QED BY <1>2, <1>8, <1>9, <3>1, <3>2
  <2> QED BY <2>1, <2>2, <2>3
<1>13. Counted'
  <2>1. Answered'
    BY <1>2, <1>3, <1>12, CountNone
  <2>2. Frontier = cur_doc /\ Frontier' = cur_doc'
    BY <1>1, <1>4 DEF Frontier
  <2>3. results' <= Frontier'
    BY <1>2, <1>3, <1>8, <1>9, <1>10, <2>2
  <2> QED BY <1>1, <1>3, <2>1, <2>3 DEF Counted, Answered
<1>14. AndInv'
  <2>1. \A u \in Terms : asked'[u] <= cur_doc'
    <3>1. \A u \in Terms : asked'[u] \in 0..NumDocs /\ asked'[u] <= cur_doc
      BY <1>2, <1>3, <1>5, <1>8, CursorFactsAfter
    <3> QED BY <1>2, <1>8, <1>9, <1>10, <3>1
  <2>2. \A p \in 1..(i' - 1) : docid'[order[p]] = cur_doc'
    <3>1. CASE found # cur_doc
      BY <1>7, <3>1
    <3>2. CASE found = cur_doc
      <4>1. i' - 1 = i
        BY <1>6, <1>7, <3>2
      <4>2. ASSUME NEW p \in 1..i PROVE docid'[order[p]] = cur_doc'
        <5>1. CASE order[p] = t
          BY <1>10, <5>1 DEF found
        <5>2. CASE order[p] # t
          <6>1. p \in 1..(i - 1) /\ p \in 1..Len(order)
            BY <1>2, <1>6, <5>2 DEF t
          <6>2. docid'[order[p]] = docid[order[p]] /\ docid[order[p]] = cur_doc
            BY <1>2, <1>5, <1>8, <5>2, <6>1
          <6> QED BY <1>10, <3>2, <6>2
        <5> QED BY <5>1, <5>2
      <4> QED BY <4>1, <4>2
    <3> QED BY <3>1, <3>2
  <2> QED BY <1>3, <1>4, <1>10, <2>1, <2>2 DEF AndInv
<1>15. OrInv' /\ WandInv' /\ MaxscoreRunInv' /\ MaxscoreCompleteInv'
  BY <1>1, <1>3, <1>4 DEF OrInv, WandInv, MaxscoreRunInv, MaxscoreCompleteInv
<1>16. Onward
  BY <1>2, <1>3, <1>5, <1>6, <1>7, NextGeqFacts DEF Onward
<1> QED BY <1>4, <1>8, <1>11, <1>13, <1>14, <1>15, <1>16 DEF Inv

(***************************************************************************)
(* All lists are at the candidate.                                         *)
(***************************************************************************)
LEMMA AndMatchInv ==
    ASSUME Inv, AndMatch
    PROVE  Inv' /\ Onward
<1>1. /\ pc = "run" /\ operator \in {"and", "ranked_and"} /\ cur_doc < NumDocs
      /\ i = Len(order) + 1
  BY DEF AndMatch, Conjunctive
<1>2. /\ Given /\ CursorsStand /\ Places /\ Counted /\ Answered
      /\ Len(order) \in Nat /\ Len(order) >= 1 /\ NumDocs \in Nat \ {0} /\ cur_doc \in 0..NumDocs
      /\ \A p \in 1..Len(order) : order[p] \in Terms
      /\ \A t \in Terms : \E p \in 1..Len(order) : order[p] = t
      /\ results \in Nat /\ results <= Frontier
  BY <1>1, Standing
<1>3. /\ UNCHANGED given /\ pc' = pc /\ order' = order /\ next_doc' = next_doc /\ score' = score
      /\ non_essential' = non_essential
  BY DEF AndMatch
<1>4. Given' /\ Terms' = Terms /\ Matching' = Matching /\ operator' = operator
  BY <1>2, <1>3, SameGiven
<1>5. /\ \A t \in Terms : asked[t] <= cur_doc
      /\ \A t \in Terms : docid[t] = cur_doc
  <2>1. /\ \A t \in Terms : asked[t] <= cur_doc
        /\ \A p \in 1..(i - 1) : docid[order[p]] = cur_doc
    BY <1>1 DEF Inv, AndInv
  <2>2. i - 1 = Len(order)
    BY <1>1, <1>2
  <2> QED BY <1>2, <2>1, <2>2
<1>6. \A t \in Terms : cur_doc \in Docs(t)
  BY <1>1, <1>2, <1>5, CursorFacts
<1> DEFINE first == order[1]
<1>7. first \in Terms
  BY <1>2
<1>8. NextDoc({first}) /\ cur_doc' = docid'[first] /\ i' = 2 /\ Count(ScoreOf(Terms))
  BY DEF AndMatch
<1> HIDE DEF first
<1>9. /\ CursorsStand' /\ docid'[first] > cur_doc /\ asked'[first] = cur_doc + 1
      /\ \A t \in Terms \ {first} : asked'[t] = asked[t]
  BY <1>1, <1>2, <1>3, <1>5, <1>7, <1>8, NextDocFacts
<1>10. cur_doc' \in 0..NumDocs /\ cur_doc' > cur_doc /\ \A e \in Docs(first) : e >= cur_doc + 1 => cur_doc' <= e
  BY <1>2, <1>3, <1>7, <1>8, <1>9, CursorFactsAfter
<1>11. Places'
  <2>1. i' \in Nat
    BY <1>8
  <2>2. results' \in Nat
    BY <1>2, <1>8 DEF Count
  <2> QED BY <1>1, <1>2, <1>3, <1>4, <1>10, <2>1, <2>2 DEF Places
<1>12. cur_doc \in Matching /\ cur_doc \notin Done /\ Done' = Done \cup {cur_doc}
  <2>1. Done = {d \in Matching : d < cur_doc}
    BY <1>1 DEF Done
  <2>2. Done' = {d \in Matching : d < cur_doc'}
    BY <1>1, <1>3, <1>4 DEF Done
  <2>3. cur_doc \in Matching
    BY <1>1, <1>2, <1>6, <1>7 DEF Matching
  <2>4. ASSUME NEW d \in Matching PROVE d < cur_doc' <=> d < cur_doc \/ d = cur_doc
    <3>1. d \in Docs(first) /\ d \in 0..(NumDocs - 1)
      BY <1>1, <1>7 DEF Matching
    <3>2. d >= cur_doc + 1 => cur_doc' <= d
      BY <1>10, <3>1
    <3> QED BY <1>2, <1>10, <3>1, <3>2
  <2>5. ~(cur_doc < cur_doc)
    BY <1>2
  <2> QED BY <2>1, <2>2, <2>3, <2>4, <2>5
<1>13. ScoreOf(Terms) = FullScore(cur_doc)
  <2>1. Terms = ListsWith(cur_doc)
    BY <1>6 DEF ListsWith
  <2> QED BY <1>2, <1>5, <2>1, ScoreOfFacts
<1>14. Counted'
  <2>1. Answered' /\ results' = results + 1
    BY <1>2, <1>3, <1>8, <1>12, <1>13, CountOne
  <2>2. Frontier = cur_doc /\ Frontier' = cur_doc'
    BY <1>1, <1>4 DEF Frontier
  <2>3. results' <= Frontier'
    BY <1>2, <1>10, <2>1, <2>2
  <2> QED BY <1>1, <1>3, <2>1, <2>3 DEF Counted, Answered
<1>15. AndInv'
  <2>1. \A t \in Terms : asked'[t] <= cur_doc'
    <3>1. \A t \in Terms : asked'[t] \in 0..NumDocs /\ asked'[t] <= cur_doc + 1
      <4>1. \A t \in Terms : asked'[t] \in 0..NumDocs
        BY <1>2, <1>3, <1>9, CursorFactsAfter
      <4>2. \A t \in Terms : asked[t] \in 0..NumDocs
        BY <1>2, CursorFacts
      <4> QED BY <1>2, <1>5, <1>9, <4>1, <4>2
    <3> QED BY <1>2, <1>10, <3>1
  <2>2. \A p \in 1..(i' - 1) : docid'[order[p]] = cur_doc'
    BY <1>8 DEF first
  <2>3. i' \in 1..(Len(order) + 1)
    BY <1>2, <1>8
  <2> QED BY <1>3, <1>4, <2>1, <2>2, <2>3 DEF AndInv
<1>16. OrInv' /\ WandInv' /\ MaxscoreRunInv' /\ MaxscoreCompleteInv'
  BY <1>1, <1>3, <1>4 DEF OrInv, WandInv, MaxscoreRunInv, MaxscoreCompleteInv
<1>17. Onward
  BY <1>1, <1>2, <1>3, <1>5, <1>7, <1>8, NextDocFacts DEF Onward
<1> QED BY <1>4, <1>9, <1>11, <1>14, <1>15, <1>16, <1>17 DEF Inv

-----------------------------------------------------------------------------
(* or_query, ranked_or_query                                               *)

(***************************************************************************)
(* The lists at the smallest docid are scored and advanced.                *)
(***************************************************************************)
LEMMA OrStepInv ==
    ASSUME Inv, OrStep
    PROVE  Inv' /\ Onward
<1>1. pc = "run" /\ operator \in {"or", "ranked_or"} /\ cur_doc < NumDocs
  BY DEF OrStep
<1>2. /\ Given /\ CursorsStand /\ Places /\ Counted /\ Answered
      /\ NumDocs \in Nat \ {0} /\ cur_doc \in 0..NumDocs
      /\ results \in Nat /\ results <= Frontier
  BY <1>1, Standing
<1>3. /\ UNCHANGED given /\ pc' = pc /\ order' = order /\ next_doc' = next_doc /\ score' = score
      /\ non_essential' = non_essential /\ i' = i
  BY DEF OrStep
<1>4. Given' /\ Terms' = Terms /\ Matching' = Matching /\ operator' = operator
  BY <1>2, <1>3, SameGiven
<1>5. /\ \A t \in Terms : asked[t] <= cur_doc /\ cur_doc <= docid[t]
      /\ \E t \in Terms : docid[t] = cur_doc
  BY <1>1 DEF Inv, OrInv
<1> DEFINE here == At(cur_doc)
<1>6. here \in SUBSET Terms /\ \A t \in here : docid[t] = cur_doc
  BY DEF At
<1>7. /\ NextDoc(here) /\ Count(ScoreOf(here))
      /\ cur_doc' = Least({docid'[t] : t \in Terms} \cup {NumDocs})
  BY DEF OrStep
<1>8. \A t \in Terms : docid[t] \in 0..NumDocs /\ asked[t] \in 0..NumDocs
  BY <1>2, CursorFacts
<1>9. here = ListsWith(cur_doc)
  <2>1. ASSUME NEW t \in Terms PROVE docid[t] = cur_doc <=> cur_doc \in Docs(t)
    <3>1. docid[t] < NumDocs => docid[t] \in Docs(t)
      BY <1>2, CursorFacts
    <3>2. cur_doc \in Docs(t) /\ cur_doc >= asked[t] => docid[t] <= cur_doc
      BY <1>2, CursorFacts
    <3> QED BY <1>1, <1>2, <1>5, <1>8, <3>1, <3>2
  <2> QED BY <2>1 DEF At, ListsWith
<1> HIDE DEF here
<1>10. /\ CursorsStand'
       /\ \A t \in here : docid'[t] > cur_doc /\ asked'[t] = cur_doc + 1
       /\ \A t \in Terms \ here : docid'[t] = docid[t] /\ asked'[t] = asked[t]
  <2>1. \A t \in here : docid[t] < NumDocs
    BY <1>1, <1>6
  <2> QED BY <1>2, <1>3, <1>6, <1>7, <2>1, NextDocFacts
<1>11. \A t \in Terms : docid'[t] \in 0..NumDocs /\ docid'[t] > cur_doc /\ asked'[t] <= cur_doc + 1
  <2>1. \A t \in Terms : docid'[t] \in 0..NumDocs /\ asked'[t] \in 0..NumDocs
    BY <1>2, <1>3, <1>10, CursorFactsAfter
  <2>2. \A t \in Terms \ here : docid[t] # cur_doc
    BY DEF here, At
  <2>3. ASSUME NEW t \in Terms PROVE docid'[t] > cur_doc /\ asked'[t] <= cur_doc + 1
    <3>1. CASE t \in here
      BY <1>2, <1>10, <3>1
    <3>2. CASE t \notin here
      BY <1>2, <1>5, <1>8, <1>10, <2>2, <3>2
    <3> QED BY <3>1, <3>2
  <2> QED BY <2>1, <2>3
<1>12. /\ cur_doc' \in 0..NumDocs
       /\ \A t \in Terms : cur_doc' <= docid'[t]
       /\ cur_doc' < NumDocs => \E t \in Terms : docid'[t] = cur_doc'
  <2>1. \A t \in Terms : docid'[t] \in 0..NumDocs
    BY <1>11
  <2>2. cur_doc' = Least(Ids(Terms, docid'))
    BY <1>7 DEF Ids
  <2> QED BY <2>1, <2>2, LeastId
<1>13. cur_doc' > cur_doc
  <2>1. CASE cur_doc' = NumDocs
    BY <1>1, <2>1
  <2>2. CASE cur_doc' < NumDocs
    BY <1>11, <1>12, <2>2
  <2> QED BY <1>2, <1>12, <2>1, <2>2
<1>14. Places'
  <2>1. results' \in Nat
    BY <1>2, <1>7 DEF Count
  <2> QED BY <1>1, <1>2, <1>3, <1>4, <1>12, <2>1 DEF Places
<1>15. cur_doc \in Matching /\ cur_doc \notin Done /\ Done' = Done \cup {cur_doc}
  <2>1. Done = {d \in Matching : d < cur_doc}
    BY <1>1 DEF Done
  <2>2. Done' = {d \in Matching : d < cur_doc'}
    BY <1>1, <1>3, <1>4 DEF Done
  <2>3. cur_doc \in Matching
    <3>1. PICK t \in Terms : docid[t] = cur_doc
      BY <1>5
    <3>2. cur_doc \in Docs(t)
      BY <1>1, <1>2, <3>1, CursorFacts
    <3> QED BY <1>1, <1>2, <3>2 DEF Matching
  <2>4. ASSUME NEW d \in Matching PROVE d < cur_doc' <=> d < cur_doc \/ d = cur_doc
    <3>1. d \in 0..(NumDocs - 1) /\ \E t \in Terms : d \in Docs(t)
      BY <1>1 DEF Matching
    <3>2. PICK t \in Terms : d \in Docs(t)
      BY <3>1
    <3>3. d >= asked'[t] => docid'[t] <= d
      BY <1>2, <1>3, <1>10, <3>2, CursorFactsAfter
    <3>4. asked'[t] \in 0..NumDocs
      BY <1>2, <1>3, <1>10, CursorFactsAfter
    <3>5. d >= cur_doc + 1 => cur_doc' <= d
      BY <1>2, <1>11, <1>12, <3>1, <3>3, <3>4
    <3> QED BY <1>2, <1>12, <1>13, <3>1, <3>5
  <2>5. ~(cur_doc < cur_doc)
    BY <1>2
  <2> QED BY <2>1, <2>2, <2>3, <2>4, <2>5
<1>16. ScoreOf(here) = FullScore(cur_doc)
  BY <1>2, <1>6, <1>9, ScoreOfFacts
<1>17. Counted'
  <2>1. Answered' /\ results' = results + 1
    BY <1>2, <1>3, <1>7, <1>15, <1>16, CountOne
  <2>2. Frontier = cur_doc /\ Frontier' = cur_doc'
    BY <1>1, <1>4 DEF Frontier
  <2>3. results' <= Frontier'
    BY <1>2, <1>12, <1>13, <2>1, <2>2
  <2> QED BY <1>1, <1>3, <2>1, <2>3 DEF Counted, Answered
<1>18. OrInv'
  <2>1. \A t \in Terms : asked'[t] <= cur_doc'
    <3>1. \A t \in Terms : asked'[t] \in 0..NumDocs
      BY <1>2, <1>3, <1>10, CursorFactsAfter
    <3> QED BY <1>2, <1>11, <1>12, <1>13, <3>1
  <2> QED BY <1>4, <1>12, <2>1 DEF OrInv
<1>19. AndInv' /\ WandInv' /\ MaxscoreRunInv' /\ MaxscoreCompleteInv'
  BY <1>1, <1>3, <1>4 DEF AndInv, WandInv, MaxscoreRunInv, MaxscoreCompleteInv
<1>20. Onward
  <2>1. \A t \in here : docid[t] < NumDocs
    BY <1>1, <1>6 DEF here
  <2> QED BY <1>2, <1>3, <1>6, <1>7, <2>1, NextDocFacts DEF Onward
<1> QED BY <1>4, <1>10, <1>14, <1>17, <1>18, <1>19, <1>20 DEF Inv

-----------------------------------------------------------------------------
(* Bounds on scores.                                                       *)

\* The first m lists.
First(m) == {order[p] : p \in 1..m}

(***************************************************************************)
(* More lists have more weight.                                            *)
(***************************************************************************)
LEMMA WeightFacts ==
    ASSUME Given
    PROVE  /\ \A T \in SUBSET Terms : Weight(T) \in Nat
           /\ \A T, U \in SUBSET Terms : T \subseteq U => Weight(T) <= Weight(U)
           /\ \A d : \A T \in SUBSET Terms : ListsWith(d) \subseteq T => FullScore(d) <= Weight(T)
<1>1. IsFiniteSet(Terms)
  BY TermsFacts
<1>2. \A t \in Terms : max_weight[t] \in Nat
  BY ListFacts
<1>3. \A T \in SUBSET Terms : Weight(T) \in Nat
  BY <1>1, <1>2, FS_Subset, SumType DEF Weight
<1>4. ASSUME NEW T \in SUBSET Terms, NEW U \in SUBSET Terms, T \subseteq U
      PROVE  Weight(T) <= Weight(U)
  <2>1. IsFiniteSet(U) /\ T \in SUBSET U
    BY <1>1, <1>4, FS_Subset
  <2>2. \A x \in U : max_weight[x] \in Nat
    BY <1>2
  <2>3. \A x \in T : max_weight[x] \in Nat /\ max_weight[x] <= max_weight[x]
    BY <1>2
  <2> QED BY <2>1, <2>2, <2>3, SumMonotonic DEF Weight
<1>5. \A d : \A T \in SUBSET Terms : ListsWith(d) \subseteq T => FullScore(d) <= Weight(T)
  BY FullScoreFacts DEF Weight
<1> QED BY <1>3, <1>4, <1>5

(***************************************************************************)
(* What cannot enter with the weight of some lists cannot with that of     *)
(* fewer, nor can a document that is in no other list.                     *)
(***************************************************************************)
LEMMA WeightEntry ==
    ASSUME Given, NEW q, Ascending(q), Len(q) <= K,
           NEW U \in SUBSET Terms, ~WouldEnter(q, Weight(U))
    PROVE  /\ \A T \in SUBSET U : ~WouldEnter(q, Weight(T))
           /\ \A d : ListsWith(d) \subseteq U => ~WouldEnter(q, FullScore(d))
<1>1. Weight(U) \in Nat
  BY WeightFacts
<1>2. ASSUME NEW T \in SUBSET U PROVE ~WouldEnter(q, Weight(T))
  <2>1. Weight(T) \in Nat /\ Weight(T) <= Weight(U)
    BY WeightFacts
  <2> QED BY <1>1, <2>1, EntryDownwards
<1>3. ASSUME NEW d, ListsWith(d) \subseteq U PROVE ~WouldEnter(q, FullScore(d))
  <2>1. FullScore(d) \in Nat /\ FullScore(d) <= Weight(U)
    BY <1>3, FullScoreFacts, WeightFacts
  <2> QED BY <1>1, <2>1, EntryDownwards
<1> QED BY <1>2, <1>3

(***************************************************************************)
(* The bounds of the first lists.                                          *)
(***************************************************************************)
LEMMA UpperBoundFacts ==
    ASSUME Inv, pc \in {"run", "complete"}
    PROVE  /\ \A m \in 0..Len(order) :
                First(m) \in SUBSET Terms /\ UpperBound(m) = Weight(First(m)) /\ UpperBound(m) \in Nat
           /\ \A m, n \in 0..Len(order) : m <= n => First(m) \subseteq First(n)
<1>1. Given /\ Len(order) \in Nat /\ \A p \in 1..Len(order) : order[p] \in Terms
  BY Standing
<1>2. ASSUME NEW m \in 0..Len(order)
      PROVE  First(m) \in SUBSET Terms /\ UpperBound(m) = Weight(First(m)) /\ UpperBound(m) \in Nat
  <2>1. First(m) \in SUBSET Terms
    BY <1>1 DEF First
  <2>2. UpperBound(m) = Weight(First(m))
    BY DEF UpperBound, Weight, First
  <2> QED BY <1>1, <2>1, <2>2, WeightFacts
<1>3. \A m, n \in 0..Len(order) : m <= n => First(m) \subseteq First(n)
  BY <1>1 DEF First
<1> QED BY <1>2, <1>3

-----------------------------------------------------------------------------
(* wand_query                                                              *)

(***************************************************************************)
(* The lists are in order: the first of them are those not beyond a        *)
(* document.                                                               *)
(***************************************************************************)
LEMMA WandFacts ==
    ASSUME Inv, pc = "run", operator = "wand"
    PROVE  /\ \A p, r \in 1..Len(order) : p <= r => docid[order[p]] <= docid[order[r]]
           /\ \A p \in 1..Len(order) : docid[order[p]] \in 0..NumDocs
           /\ \A d \in Nat : Passed(d) => UpTo(d) = {} \/ ~WouldEnter(topk, Weight(UpTo(d)))
           /\ \A d : UpTo(d) \in SUBSET Terms
           /\ \A d \in Nat : ~Passed(d) => ListsWith(d) \subseteq UpTo(d)
           /\ Frontier = docid[order[1]]
           /\ Ranked
           /\ Done = {d \in Matching : Passed(d)}
<1>1. /\ Given /\ CursorsStand /\ Len(order) \in Nat /\ NumDocs \in Nat \ {0}
      /\ \A p \in 1..Len(order) : order[p] \in Terms
  BY Standing
<1>2. /\ IsSortedBy(order, docid)
      /\ \A d \in Nat : Passed(d) => UpTo(d) = {} \/ ~WouldEnter(topk, Weight(UpTo(d)))
  BY DEF Inv, WandInv, WandSorted
<1>3. \A t \in Terms : docid[t] \in 0..NumDocs
  BY <1>1, CursorFacts
<1>4. \A p \in 1..Len(order) : docid[order[p]] \in 0..NumDocs
  BY <1>1, <1>3
<1>5. \A p, r \in 1..Len(order) : p <= r => docid[order[p]] <= docid[order[r]]
  <2>1. \A p \in 1..Len(order) : docid[order[p]] \in Nat
    BY <1>1, <1>4
  <2> QED BY <1>1, <1>2, <2>1, SortedPairs
<1>6. \A d : UpTo(d) \in SUBSET Terms
  BY DEF UpTo
<1>7. \A d \in Nat : ~Passed(d) => ListsWith(d) \subseteq UpTo(d)
  BY <1>1, <1>3 DEF Passed, ListsWith, UpTo
<1>8. Frontier = docid[order[1]] /\ Ranked /\ Done = {d \in Matching : Passed(d)}
  BY DEF Frontier, Ranked, Done
<1> QED BY <1>2, <1>4, <1>5, <1>6, <1>7, <1>8

(***************************************************************************)
(* The pivot is the first list with which, by the bounds, a document may   *)
(* enter; every list up to it is at a document.                            *)
(***************************************************************************)
LEMMA PivotFacts ==
    ASSUME Inv, Wand
    PROVE  /\ Least(Pivots) \in 1..Len(order)
           /\ PivotId = docid[order[Least(Pivots)]] /\ PivotId \in 0..(NumDocs - 1)
           /\ WouldEnter(topk, Weight(First(Least(Pivots))))
           /\ \A q \in 1..(Least(Pivots) - 1) : ~WouldEnter(topk, Weight(First(q)))
           /\ \A q \in 1..Least(Pivots) : docid[order[q]] <= PivotId
<1> DEFINE pivot == Least(Pivots)
<1>1. pc = "run" /\ operator = "wand" /\ Pivots # {}
  BY DEF Wand
<1>2. Len(order) \in Nat /\ NumDocs \in Nat \ {0}
  BY <1>1, Standing
<1>3. Pivots \subseteq Nat
  BY <1>2 DEF Pivots
<1>4. pivot \in Pivots /\ \A q \in Pivots : pivot <= q
  BY <1>1, <1>3, LeastFacts
<1> HIDE DEF pivot
<1>5. /\ pivot \in 1..Len(order)
      /\ WouldEnter(topk, UpperBound(pivot))
      /\ \A q \in 1..pivot : docid[order[q]] # NumDocs
  BY <1>4 DEF Pivots
<1>6. \A m \in 0..Len(order) : UpperBound(m) = Weight(First(m))
  BY <1>1, UpperBoundFacts
<1>7. ASSUME NEW q \in 1..(pivot - 1) PROVE ~WouldEnter(topk, Weight(First(q)))
  <2>1. q \in 1..Len(order) /\ q < pivot /\ q \in 0..Len(order)
    BY <1>2, <1>5
  <2>2. \A r \in 1..q : docid[order[r]] # NumDocs
    BY <1>2, <1>5, <2>1
  <2>3. q \notin Pivots
    BY <1>2, <1>4, <1>5, <2>1
  <2>4. ~WouldEnter(topk, UpperBound(q))
    BY <2>1, <2>2, <2>3 DEF Pivots
  <2> QED BY <1>6, <2>1, <2>4
<1>8. PivotId = docid[order[pivot]]
  BY DEF PivotId, pivot
<1>9. PivotId \in 0..(NumDocs - 1)
  <2>1. docid[order[pivot]] \in 0..NumDocs /\ docid[order[pivot]] # NumDocs
    BY <1>1, <1>2, <1>5, WandFacts
  <2> QED BY <1>2, <1>8, <2>1
<1>10. \A q \in 1..pivot : docid[order[q]] <= PivotId
  BY <1>1, <1>2, <1>5, <1>8, WandFacts
<1>11. WouldEnter(topk, Weight(First(pivot)))
  BY <1>2, <1>5, <1>6
<1> QED BY <1>5, <1>7, <1>8, <1>9, <1>10, <1>11 DEF pivot

(***************************************************************************)
(* The first list is at the pivot: the lists that are there have the pivot *)
(* document all together, and it was not done before.                      *)
(***************************************************************************)
LEMMA WandMatchInv ==
    ASSUME Inv, WandMatch
    PROVE  Inv' /\ Onward
<1>1. pc = "run" /\ operator = "wand" /\ Wand /\ docid[order[1]] = PivotId
  BY DEF WandMatch, Wand
<1>2. /\ Given /\ CursorsStand /\ Places /\ Counted /\ Answered
      /\ Ascending(topk) /\ Len(topk) <= K
      /\ Len(order) \in Nat /\ Len(order) >= 1 /\ NumDocs \in Nat \ {0}
      /\ \A p \in 1..Len(order) : order[p] \in Terms
      /\ \A t \in Terms : \E p \in 1..Len(order) : order[p] = t
      /\ results \in Nat /\ results <= Frontier
  BY <1>1, Standing
<1>3. /\ UNCHANGED given /\ pc' = pc /\ next_doc' = next_doc /\ score' = score
      /\ non_essential' = non_essential /\ i' = i /\ cur_doc' = cur_doc
  BY DEF WandMatch
<1>4. Given' /\ Terms' = Terms /\ Matching' = Matching /\ operator' = operator /\ max_weight' = max_weight
  BY <1>2, <1>3, SameGiven
<1> DEFINE d0 == PivotId
           pivot == Least(Pivots)
           here == {order[p] : p \in {r \in 1..Len(order) : \A q \in 1..r : docid[order[q]] = PivotId}}
<1>5. /\ Count(ScoreOf(here)) /\ NextDoc(here) /\ order' \in Sortings(docid')
  BY DEF WandMatch
<1>6. /\ \A p, r \in 1..Len(order) : p <= r => docid[order[p]] <= docid[order[r]]
      /\ \A d \in Nat : Passed(d) => UpTo(d) = {} \/ ~WouldEnter(topk, Weight(UpTo(d)))
      /\ \A d : UpTo(d) \in SUBSET Terms
      /\ \A d \in Nat : ~Passed(d) => ListsWith(d) \subseteq UpTo(d)
      /\ Frontier = docid[order[1]]
      /\ Ranked
      /\ Done = {d \in Matching : Passed(d)}
  BY <1>1, WandFacts
<1>7. /\ pivot \in 1..Len(order) /\ d0 \in 0..(NumDocs - 1)
      /\ WouldEnter(topk, Weight(First(pivot)))
      /\ \A q \in 1..pivot : docid[order[q]] <= d0
  BY <1>1, PivotFacts
<1>8. \A t \in Terms : docid[t] \in 0..NumDocs /\ asked[t] \in 0..NumDocs /\ docid[t] >= d0
  <2>1. \A t \in Terms : docid[t] \in 0..NumDocs /\ asked[t] \in 0..NumDocs
    BY <1>2, CursorFacts
  <2>2. \A p \in 1..Len(order) : docid[order[1]] <= docid[order[p]]
    BY <1>2, <1>6
  <2>3. \A t \in Terms : docid[order[1]] <= docid[t]
    BY <1>2, <2>2
  <2> QED BY <1>1, <1>2, <1>7, <2>1, <2>3
<1>9. here = At(d0)
  <2>1. \A t \in here : t \in Terms /\ docid[t] = d0
    BY <1>2
  <2>2. ASSUME NEW t \in Terms, docid[t] = d0 PROVE t \in here
    <3>1. PICK p \in 1..Len(order) : order[p] = t
      BY <1>2
    <3>2. ASSUME NEW q \in 1..p PROVE docid[order[q]] = d0
      <4>1. docid[order[q]] <= d0 /\ docid[order[q]] >= d0 /\ docid[order[q]] \in 0..NumDocs
        <5>1. q \in 1..Len(order) /\ q <= p
          BY <1>2
        <5> HIDE DEF here, d0
        <5>2. docid[order[q]] <= docid[order[p]]
          BY <1>6, <5>1
        <5>3. order[q] \in Terms
          BY <1>2, <5>1
        <5> QED BY <1>8, <2>2, <3>1, <5>2, <5>3
      <4> HIDE DEF here, d0
      <4> QED BY <1>2, <1>7, <4>1
    <3> QED BY <3>1, <3>2
  <2> HIDE DEF here, d0
  <2> QED BY <2>1, <2>2 DEF At
<1> HIDE DEF here, d0, pivot
<1>10. ~Passed(d0)
  <2> SUFFICES ASSUME Passed(d0) PROVE FALSE
    OBVIOUS
  <2>1. order[1] \in UpTo(d0)
    BY <1>1, <1>2, <1>7 DEF UpTo, d0
  <2>2. ~WouldEnter(topk, Weight(UpTo(d0)))
    BY <1>2, <1>6, <1>7, <2>1
  <2>3. First(pivot) \in SUBSET UpTo(d0)
    <3>1. \A q \in 1..pivot : order[q] \in Terms /\ docid[order[q]] <= d0
      BY <1>2, <1>7
    <3> QED BY <3>1 DEF First, UpTo
  <2>4. ~WouldEnter(topk, Weight(First(pivot)))
    BY <1>2, <1>6, <2>2, <2>3, WeightEntry
  <2> QED BY <1>7, <2>4
<1>11. here = ListsWith(d0) /\ order[1] \in here /\ here \in SUBSET Terms
  <2>1. ASSUME NEW t \in Terms PROVE docid[t] = d0 <=> d0 \in Docs(t)
    <3>1. docid[t] < NumDocs => docid[t] \in Docs(t)
      BY <1>2, CursorFacts
    <3>2. d0 \in Docs(t) => ~(docid[t] > d0)
      BY <1>10 DEF Passed
    <3> QED BY <1>2, <1>7, <1>8, <3>1, <3>2
  <2>2. order[1] \in Terms /\ docid[order[1]] = d0
    BY <1>1, <1>2 DEF d0
  <2> QED BY <1>9, <2>1, <2>2 DEF At, ListsWith
<1>12. /\ CursorsStand'
       /\ \A t \in here : docid'[t] > d0 /\ asked'[t] = d0 + 1
       /\ \A t \in Terms \ here : docid'[t] = docid[t] /\ asked'[t] = asked[t]
       /\ \A t \in Terms : docid[t] <= docid'[t]
  <2>1. \A t \in here : docid[t] < NumDocs /\ docid[t] = d0
    BY <1>2, <1>7, <1>9 DEF At
  <2> QED BY <1>2, <1>3, <1>5, <1>11, <2>1, NextDocFacts
<1>13. \A t \in Terms : docid'[t] \in 0..NumDocs /\ docid'[t] > d0
  <2>1. \A t \in Terms : docid'[t] \in 0..NumDocs
    BY <1>2, <1>3, <1>12, CursorFactsAfter
  <2>2. \A t \in Terms \ here : docid[t] # d0
    BY <1>9 DEF At
  <2>3. \A t \in Terms \ here : docid'[t] > d0
    BY <1>2, <1>7, <1>8, <1>12, <2>2
  <2> QED BY <1>12, <2>1, <2>3
<1>14. ASSUME NEW d \in Nat PROVE Passed(d)' <=> Passed(d) \/ d = d0
  <2>1. Passed(d)' <=> \E t \in Terms : d \in Docs(t) /\ docid'[t] > d
    <3>1. \A t : Docs(t)' = Docs(t)
      BY <1>3, SameGiven
    <3> QED BY <1>4, <3>1 DEF Passed
  <2>2. ASSUME NEW t \in Terms, d \in Docs(t), docid'[t] > d, ~(docid[t] > d) PROVE d = d0
    <3>1. t \in here
      BY <1>12, <2>2
    <3>2. docid[t] = d0 /\ asked'[t] = d0 + 1
      BY <1>9, <1>12, <3>1 DEF At
    <3>3. d >= d0 + 1 => docid'[t] <= d
      BY <1>2, <1>3, <1>12, <2>2, <3>2, CursorFactsAfter
    <3>4. docid'[t] \in Int /\ docid[t] \in Int /\ d0 \in Int
      BY <1>2, <1>7, <1>8, <1>13
    <3> QED BY <2>2, <3>2, <3>3, <3>4
  <2>3. Passed(d) => Passed(d)'
    <3>1. \A t \in Terms : docid[t] \in Int /\ docid'[t] \in Int /\ docid[t] <= docid'[t]
      BY <1>2, <1>8, <1>12, <1>13
    <3> QED BY <2>1, <3>1 DEF Passed
  <2>4. d = d0 => Passed(d)'
    <3>1. d0 \in Docs(order[1]) /\ order[1] \in Terms /\ docid'[order[1]] > d0
      BY <1>11, <1>12 DEF ListsWith
    <3> QED BY <2>1, <3>1
  <2> QED BY <2>1, <2>2, <2>3, <2>4 DEF Passed
<1>15. d0 \in Matching /\ d0 \notin Done /\ Done' = Done \cup {d0}
  <2>1. d0 \in Matching
    BY <1>1, <1>7, <1>11 DEF Matching, ListsWith
  <2>2. Done' = {d \in Matching : Passed(d)'}
    BY <1>1, <1>3, <1>4 DEF Done
  <2>3. \A d \in Matching : d \in Nat
    BY <1>2, MatchingFacts
  <2> QED BY <1>6, <1>10, <1>14, <2>1, <2>2, <2>3
<1>16. ScoreOf(here) = FullScore(d0)
  BY <1>2, <1>9, <1>11, ScoreOfFacts DEF At
<1>17. order' \in SetToSeqs(Terms) /\ order' \in Seq(Terms) /\ Len(order') \in Nat /\ order'[1] \in Terms
  <2>1. order' \in SetToSeqs(Terms)
    BY <1>5 DEF Sortings
  <2>2. Terms # {}
    BY <1>11
  <2>3. order' \in Seq(Terms) /\ Len(order') \in Nat /\ Len(order') >= 1
    BY <1>2, <2>1, <2>2, OrderFacts
  <2> QED BY <2>1, <2>3
<1>18. topk' = Insert(topk, FullScore(d0)) /\ results' = results + 1
  BY <1>5, <1>6, <1>16 DEF Count
<1>19. Places'
  <2>1. /\ non_essential = 0 /\ Terms # {} /\ i \in Nat /\ score \in Nat
        /\ cur_doc \in 0..NumDocs /\ next_doc \in 0..NumDocs
    BY <1>1, <1>2 DEF Places
  <2>2. results' \in Nat /\ 0 \in 0..Len(order')
    BY <1>2, <1>17, <1>18
  <2> QED BY <1>1, <1>3, <1>4, <1>17, <2>1, <2>2 DEF Places
<1>20. Counted'
  <2>1. Answered'
    BY <1>2, <1>3, <1>5, <1>15, <1>16, CountOne
  <2>2. Frontier = d0 /\ Frontier' = docid'[order'[1]]
    BY <1>1, <1>4, <1>6 DEF Frontier, d0
  <2>3. docid'[order'[1]] \in Nat /\ docid'[order'[1]] > d0
    BY <1>2, <1>13, <1>17
  <2>4. results' <= Frontier'
    BY <1>2, <1>7, <1>18, <2>2, <2>3
  <2> QED BY <1>1, <1>3, <2>1, <2>4 DEF Counted, Answered
<1>21. WandInv'
  <2>1. WandSorted'
    BY <1>5 DEF Sortings, WandSorted
  <2>2. Ascending(topk') /\ Len(topk') <= K /\ FullScore(d0) \in Nat
    BY <1>2, <1>18, FullScoreFacts, InsertFacts
  <2>3. ASSUME NEW d \in Nat, Passed(d)' PROVE UpTo(d)' = {} \/ ~WouldEnter(topk', Weight(UpTo(d)'))
    <3>1. UpTo(d)' = {t \in Terms : docid'[t] <= d}
      BY <1>4 DEF UpTo
    <3>2. CASE d = d0
      <4>1. UpTo(d)' = {}
        BY <1>2, <1>7, <1>13, <3>1, <3>2
      <4> QED BY <4>1
    <3>3. CASE Passed(d)
      <4>1. UpTo(d)' \in SUBSET UpTo(d)
        <5>1. \A t \in Terms : docid[t] \in Int /\ docid'[t] \in Int /\ docid[t] <= docid'[t]
          BY <1>2, <1>8, <1>12, <1>13
        <5> QED BY <3>1, <5>1 DEF UpTo
      <4>2. CASE UpTo(d) = {}
        BY <4>1, <4>2
      <4>3. CASE ~WouldEnter(topk, Weight(UpTo(d)))
        <5>1. Weight(UpTo(d)) \in Nat
          BY <1>2, <1>6, WeightFacts
        <5>2. ~WouldEnter(topk', Weight(UpTo(d)))
          BY <1>2, <1>18, <2>2, <4>3, <5>1, EntryAfterInsert
        <5> QED BY <1>2, <1>6, <2>2, <4>1, <5>2, WeightEntry
      <4> QED BY <1>6, <3>3, <4>2, <4>3
    <3> QED BY <1>14, <2>3, <3>2, <3>3
  <2>5. \A d \in Nat : Weight(UpTo(d))' = Weight(UpTo(d)')
    BY <1>4 DEF Weight
  <2> QED BY <2>1, <2>3, <2>5 DEF WandInv
<1>22. AndInv' /\ OrInv' /\ MaxscoreRunInv' /\ MaxscoreCompleteInv'
  BY <1>1, <1>3, <1>4 DEF AndInv, OrInv, MaxscoreRunInv, MaxscoreCompleteInv
<1>23. Onward
  <2>1. \A t \in here : docid[t] < NumDocs
    BY <1>2, <1>7, <1>9 DEF At
  <2> QED BY <1>2, <1>3, <1>5, <1>11, <2>1, NextDocFacts DEF Onward
<1> QED BY <1>4, <1>12, <1>19, <1>20, <1>21, <1>22, <1>23 DEF Inv

(***************************************************************************)
(* Keys stay in order when the list that moved has bubbled down to where   *)
(* its key belongs.                                                        *)
(***************************************************************************)
LEMMA BubbledSorted ==
    ASSUME NEW n \in Nat, NEW old \in [1..n -> Nat],
           \A p, r \in 1..n : p <= r => old[p] <= old[r],
           NEW place \in 1..n, NEW stop \in place..n,
           NEW key \in Nat, old[place] <= key,
           \A p \in place..(stop - 1) : old[p + 1] < key,
           stop = n \/ old[stop + 1] >= key,
           NEW p \in 2..n
    PROVE  LET at(r) == IF Origin(r, place, stop) = place THEN key
                                                          ELSE old[Origin(r, place, stop)]
           IN  at(p - 1) <= at(p)
<1> DEFINE at(r) == IF Origin(r, place, stop) = place THEN key ELSE old[Origin(r, place, stop)]
<1>1. p \in 1..n /\ p - 1 \in 1..n /\ place \in Int /\ stop \in Int /\ p \in Int
  OBVIOUS
<1>2. \A r \in 1..n : old[r] \in Nat
  OBVIOUS
<1>3. at(p - 1) <= at(p)
  <2>1. CASE p < place
    <3>1. at(p - 1) = old[p - 1] /\ at(p) = old[p]
      BY <1>1, <2>1 DEF Origin
    <3> QED BY <1>1, <3>1
  <2>2. CASE p = place
    <3>1. at(p - 1) = old[p - 1]
      BY <1>1, <2>2 DEF Origin
    <3>2. CASE place = stop
      <4>1. at(p) = key
        BY <1>1, <2>2, <3>2 DEF Origin
      <4>2. old[p - 1] <= old[place]
        BY <1>1, <2>2
      <4> QED BY <1>1, <1>2, <3>1, <4>1, <4>2
    <3>3. CASE place < stop
      <4>1. at(p) = old[p + 1]
        BY <1>1, <2>2, <3>3 DEF Origin
      <4>2. old[p - 1] <= old[p + 1]
        BY <1>1, <2>2, <3>3
      <4> QED BY <3>1, <4>1, <4>2
    <3> QED BY <1>1, <3>2, <3>3
  <2>3. CASE place < p /\ p < stop
    <3>1. at(p - 1) = old[p] /\ at(p) = old[p + 1]
      BY <1>1, <2>3 DEF Origin
    <3>2. old[p] <= old[p + 1]
      BY <1>1, <2>3
    <3> QED BY <3>1, <3>2
  <2>4. CASE place < p /\ p = stop
    <3>1. at(p - 1) = old[p] /\ at(p) = key
      BY <1>1, <2>4 DEF Origin
    <3>2. p - 1 \in place..(stop - 1) /\ (p - 1) + 1 = p
      BY <1>1, <2>4
    <3>3. old[p] < key
      BY <3>2
    <3> QED BY <1>1, <1>2, <3>1, <3>3
  <2>5. CASE p = stop + 1
    <3>1. at(p - 1) = key /\ at(p) = old[p]
      BY <1>1, <2>5 DEF Origin
    <3>2. old[p] >= key
      BY <1>1, <2>5
    <3> QED BY <1>1, <1>2, <3>1, <3>2
  <2>6. CASE p > stop + 1
    <3>1. at(p - 1) = old[p - 1] /\ at(p) = old[p]
      BY <1>1, <2>6 DEF Origin
    <3> QED BY <1>1, <3>1
  <2> QED BY <1>1, <2>1, <2>2, <2>3, <2>4, <2>5, <2>6
<1> QED BY <1>3

(***************************************************************************)
(* Some list before the pivot is not at it.                                *)
(***************************************************************************)
LEMMA NextListFacts ==
    ASSUME Inv, Wand, docid[order[1]] # PivotId
    PROVE  /\ NextList \in 1..(Least(Pivots) - 1)
           /\ docid[order[NextList]] < PivotId
<1> DEFINE pivot == Least(Pivots)
           S == {p \in 1..pivot : docid[order[p]] # PivotId}
<1>1. pc = "run" /\ operator = "wand"
  BY DEF Wand
<1>2. Len(order) \in Nat /\ Len(order) >= 1 /\ NumDocs \in Nat \ {0}
  BY <1>1, Standing
<1>3. /\ pivot \in 1..Len(order) /\ PivotId = docid[order[pivot]] /\ PivotId \in 0..(NumDocs - 1)
      /\ \A q \in 1..pivot : docid[order[q]] <= PivotId
  BY PivotFacts
<1> HIDE DEF pivot
<1>4. S \in SUBSET (1..pivot) /\ 1 \in S
  BY <1>2, <1>3
<1>5. IsFiniteSet(S) /\ S \subseteq Nat
  <2>1. IsFiniteSet(1..pivot)
    BY <1>3, FS_Interval
  <2> QED BY <1>3, <1>4, <2>1, FS_Subset
<1>6. PICK p \in S : \A q \in S : q <= p
  <2> HIDE DEF S
  <2> QED BY <1>4, <1>5, LargestOf
<1>7. p \in 1..pivot /\ docid[order[p]] # PivotId /\ \A q \in (p + 1)..pivot : docid[order[q]] = PivotId
  <2>1. p \in 1..pivot /\ docid[order[p]] # PivotId
    OBVIOUS
  <2>2. \A q \in (p + 1)..pivot : q \in 1..pivot /\ ~(q <= p)
    BY <1>2, <1>3, <2>1
  <2> QED BY <1>6, <2>1, <2>2
<1>8. /\ NextList \in 1..pivot
      /\ docid[order[NextList]] # PivotId
  <2> DEFINE Next1(x) == docid[order[x]] # PivotId /\ \A q \in (x + 1)..pivot : docid[order[q]] = PivotId
  <2>1. NextList = CHOOSE x \in 1..pivot : Next1(x)
    BY <1>3 DEF NextList, pivot
  <2>2. \E x \in 1..pivot : Next1(x)
    BY <1>7
  <2>3. NextList \in 1..pivot /\ Next1(NextList)
    <3> HIDE DEF Next1
    <3> QED BY <2>1, <2>2
  <2> QED BY <2>3
<1>9. docid[order[NextList]] \in 0..NumDocs
  BY <1>1, <1>2, <1>3, <1>8, WandFacts
<1>10. NextList \in 1..(pivot - 1)
  BY <1>2, <1>3, <1>8
<1>11. docid[order[NextList]] < PivotId
  BY <1>2, <1>3, <1>8, <1>9
<1> QED BY <1>10, <1>11 DEF pivot

(***************************************************************************)
(* A list is moved up to the pivot: the documents it skips are in lists    *)
(* before the pivot only, and cannot enter.                                *)
(***************************************************************************)
LEMMA WandAdvanceInv ==
    ASSUME Inv, WandAdvance
    PROVE  Inv' /\ Onward
<1> DEFINE n == Len(order)
<1>1. pc = "run" /\ operator = "wand" /\ Wand /\ docid[order[1]] # PivotId
  BY DEF WandAdvance, Wand
<1>2. /\ Given /\ CursorsStand /\ Places /\ Counted /\ Answered
      /\ Ascending(topk) /\ Len(topk) <= K
      /\ order \in SetToSeqs(Terms) /\ order \in Seq(Terms)
      /\ n \in Nat /\ n >= 1 /\ NumDocs \in Nat \ {0}
      /\ \A p \in 1..n : order[p] \in Terms
      /\ \A t \in Terms : \E p \in 1..n : order[p] = t
      /\ \A p, r \in 1..n : order[p] = order[r] => p = r
      /\ results \in Nat /\ results <= Frontier
  BY <1>1, Standing
<1>3. n \in Nat /\ n >= 1 /\ NumDocs \in Nat \ {0}
  BY <1>2
<1>4. /\ UNCHANGED given /\ pc' = pc /\ next_doc' = next_doc /\ score' = score
      /\ non_essential' = non_essential /\ i' = i /\ cur_doc' = cur_doc
      /\ results' = results /\ topk' = topk
  BY DEF WandAdvance
<1>5. Given' /\ Terms' = Terms /\ Matching' = Matching /\ operator' = operator /\ max_weight' = max_weight
  BY <1>2, <1>4, SameGiven
<1> DEFINE d0 == PivotId
           pivot == Least(Pivots)
           place == NextList
           moved == order[place]
           stops == {p \in place..n :
                        p = n \/ docid[order[p + 1]] >= docid'[moved]}
           stop == Least(stops)
<1>6. /\ NextGeq(moved, d0)
      /\ order' = Bubbled(order, place, stop)
  BY DEF WandAdvance, Bubbled
<1>7. /\ \A p, r \in 1..n : p <= r => docid[order[p]] <= docid[order[r]]
      /\ \A d \in Nat : Passed(d) => UpTo(d) = {} \/ ~WouldEnter(topk, Weight(UpTo(d)))
      /\ \A d : UpTo(d) \in SUBSET Terms
      /\ \A d \in Nat : ~Passed(d) => ListsWith(d) \subseteq UpTo(d)
      /\ Frontier = docid[order[1]]
      /\ Ranked
      /\ Done = {d \in Matching : Passed(d)}
  BY <1>1, WandFacts
<1>8. /\ pivot \in 1..n /\ d0 \in 0..(NumDocs - 1)
      /\ d0 = docid[order[pivot]]
      /\ \A q \in 1..(pivot - 1) : ~WouldEnter(topk, Weight(First(q)))
  BY <1>1, PivotFacts
<1>9. place \in 1..(pivot - 1) /\ docid[moved] < d0
  BY <1>1, NextListFacts
<1> HIDE DEF d0, pivot, place, n
<1>10. place \in 1..n /\ moved \in Terms
  <2>1. place \in 1..n
    BY <1>3, <1>8, <1>9
  <2> QED BY <1>2, <2>1
<1>11. \A t \in Terms : docid[t] \in 0..NumDocs /\ asked[t] \in 0..NumDocs /\ asked[t] <= docid[t]
  BY <1>2, CursorFacts
<1> HIDE DEF moved
<1>12. /\ CursorsStand' /\ docid'[moved] >= d0 /\ docid'[moved] >= docid[moved] /\ asked'[moved] = d0
       /\ \A u \in Terms \ {moved} : docid'[u] = docid[u] /\ asked'[u] = asked[u]
       /\ \A u \in Terms : docid[u] <= docid'[u]
  <2>1. docid[moved] \in 0..NumDocs /\ asked[moved] \in 0..NumDocs /\ asked[moved] <= docid[moved]
    BY <1>10, <1>11
  <2>2. d0 \in 0..NumDocs /\ asked[moved] <= d0
    BY <1>3, <1>8, <1>9, <2>1
  <2> HIDE DEF moved
  <2> QED BY <1>2, <1>4, <1>6, <1>10, <2>2, NextGeqFacts
<1>13. \A t \in Terms : docid'[t] \in 0..NumDocs
  BY <1>2, <1>4, <1>12, CursorFactsAfter
<1>14. /\ stop \in place..n
       /\ stop = n \/ docid[order[stop + 1]] >= docid'[moved]
       /\ \A p \in place..(stop - 1) : docid[order[p + 1]] < docid'[moved]
  <2>1. stops \subseteq Nat /\ n \in stops
    BY <1>3, <1>10
  <2>2. stop \in stops /\ \A p \in stops : stop <= p
    <3> HIDE DEF stops
    <3> QED BY <2>1, LeastFacts
  <2> HIDE DEF stop
  <2>3. stop \in place..n /\ (stop = n \/ docid[order[stop + 1]] >= docid'[moved])
    BY <2>2
  <2>4. ASSUME NEW p \in place..(stop - 1) PROVE docid[order[p + 1]] < docid'[moved]
    <3>1. p \in place..n /\ p # n /\ ~(stop <= p) /\ p + 1 \in 1..n
      BY <1>3, <1>10, <2>3
    <3>2. p \notin stops
      BY <2>2, <3>1
    <3>3. ~(docid[order[p + 1]] >= docid'[moved])
      BY <3>1, <3>2
    <3>4. docid[order[p + 1]] \in 0..NumDocs
      BY <1>2, <1>11, <3>1
    <3>5. docid'[moved] \in 0..NumDocs
      BY <1>10, <1>13
    <3> QED BY <1>3, <3>3, <3>4, <3>5
  <2> QED BY <2>3, <2>4
<1> HIDE DEF stop
<1>15. /\ order' \in SetToSeqs(Terms) /\ order' \in Seq(Terms) /\ Len(order') = n
       /\ \A p \in 1..n : order'[p] = order[Origin(p, place, stop)]
       /\ \A p \in 1..n : Origin(p, place, stop) \in 1..n
  <2>1. order' \in SetToSeqs(Terms)
    BY <1>2, <1>6, <1>10, <1>14, BubbledOrder DEF n
  <2>2. order' \in Seq(Terms) /\ Len(order') = n /\ \A p \in 1..n : order'[p] = order[Origin(p, place, stop)]
    <3> DEFINE r == Bubbled(order, place, stop)
    <3>1. /\ r \in Seq(Terms) /\ Len(r) = Len(order)
          /\ \A p \in 1..Len(order) : r[p] = order[Origin(p, place, stop)]
      <4>1. order \in Seq(Terms) /\ place \in 1..Len(order) /\ stop \in place..Len(order)
        BY <1>2, <1>10, <1>14 DEF n
      <4> QED BY <4>1, BubbledFacts
    <3>2. order' = r
      BY <1>6
    <3> HIDE DEF r
    <3> QED BY <3>1, <3>2 DEF n
  <2>3. \A p \in 1..n : Origin(p, place, stop) \in 1..n
    BY <1>3, <1>10, <1>14 DEF Origin
  <2> QED BY <2>1, <2>2, <2>3
<1>16. WandSorted'
  <2> DEFINE old == [p \in 1..n |-> docid[order[p]]]
             key == docid'[moved]
             at(r) == IF Origin(r, place, stop) = place THEN key ELSE old[Origin(r, place, stop)]
  <2>1. old \in [1..n -> Nat] /\ key \in Nat
    <3>1. \A p \in 1..n : docid[order[p]] \in 0..NumDocs
      BY <1>2, <1>11
    <3>2. docid'[moved] \in 0..NumDocs
      BY <1>10, <1>13
    <3> QED BY <1>3, <3>1, <3>2
  <2>2. \A p \in 1..n : docid'[order'[p]] = at(p)
    <3>1. ASSUME NEW r \in 1..n PROVE docid'[order[r]] = IF r = place THEN key ELSE old[r]
      <4>1. CASE r = place
        BY <4>1 DEF moved
      <4>2. CASE r # place
        <5>1. order[r] \in Terms \ {moved}
          BY <1>2, <1>10, <4>2 DEF moved
        <5> QED BY <1>12, <4>2, <5>1
      <4> QED BY <4>1, <4>2
    <3> HIDE DEF old, key
    <3> QED BY <1>15, <3>1
  <2>3. ASSUME NEW p \in 2..n PROVE at(p - 1) <= at(p)
    <3>1. \A a, b \in 1..n : a <= b => old[a] <= old[b]
      BY <1>7
    <3>2. old[place] <= key
      BY <1>10, <1>12 DEF moved
    <3>3. \A r \in place..(stop - 1) : old[r + 1] < key
      <4>1. \A r \in place..(stop - 1) : r + 1 \in 1..n
        BY <1>3, <1>10, <1>14
      <4> QED BY <1>14, <4>1
    <3>4. stop = n \/ old[stop + 1] >= key
      <4>1. stop # n => stop + 1 \in 1..n
        BY <1>3, <1>10, <1>14
      <4> QED BY <1>14, <4>1
    <3>5. n \in Nat
      BY <1>3
    <3> HIDE DEF old, key, n
    <3> QED BY <1>10, <1>14, <2>1, <3>1, <3>2, <3>3, <3>4, <3>5, BubbledSorted
  <2>4. ASSUME NEW p \in 2..n PROVE docid'[order'[p - 1]] <= docid'[order'[p]]
    <3>1. p \in 1..n /\ p - 1 \in 1..n
      BY <1>2
    <3> HIDE DEF at
    <3> QED BY <2>2, <2>3, <3>1
  <2>5. IsSortedBy(order', docid')
    BY <1>15, <2>4 DEF IsSortedBy
  <2> QED BY <2>5 DEF WandSorted
<1>17. ASSUME NEW d \in Nat
       PROVE  /\ Passed(d) => Passed(d)'
              /\ Passed(d)' /\ ~Passed(d) => docid[moved] <= d /\ d < d0
  <2>1. Passed(d)' <=> \E t \in Terms : d \in Docs(t) /\ docid'[t] > d
    <3>1. \A t : Docs(t)' = Docs(t)
      BY <1>4, SameGiven
    <3> QED BY <1>5, <3>1 DEF Passed
  <2>2. Passed(d) => Passed(d)'
    <3>1. \A t \in Terms : docid[t] \in Int /\ docid'[t] \in Int /\ docid[t] <= docid'[t]
      BY <1>2, <1>11, <1>12, <1>13
    <3> QED BY <2>1, <3>1 DEF Passed
  <2>3. ASSUME NEW t \in Terms, d \in Docs(t), docid'[t] > d, ~(docid[t] > d)
        PROVE  docid[moved] <= d /\ d < d0
    <3>1. t = moved
      BY <1>12, <2>3
    <3>2. d >= d0 => docid'[moved] <= d
      BY <1>2, <1>4, <1>10, <1>12, <2>3, <3>1, CursorFactsAfter
    <3>3. docid'[moved] \in Int /\ docid[moved] \in Int /\ d0 \in Int
      <4>1. docid'[moved] \in 0..NumDocs /\ docid[moved] \in 0..NumDocs
        BY <1>10, <1>11, <1>13
      <4> QED BY <1>3, <1>8, <4>1
    <3> QED BY <2>3, <3>1, <3>2, <3>3
  <2> QED BY <2>1, <2>2, <2>3 DEF Passed
<1>18. ASSUME NEW d \in Nat, d < d0
       PROVE  UpTo(d) \in SUBSET First(pivot - 1) /\ pivot - 1 \in 1..n
  <2>1. pivot - 1 \in 1..n /\ pivot \in Int
    BY <1>3, <1>8, <1>9
  <2>2. ASSUME NEW t \in UpTo(d) PROVE t \in First(pivot - 1)
    <3>1. t \in Terms /\ docid[t] <= d
      BY DEF UpTo
    <3>2. PICK q \in 1..n : order[q] = t
      BY <1>2, <3>1
    <3>3. pivot <= q => d0 <= docid[t]
      BY <1>7, <1>8, <3>2
    <3>4. docid[t] \in Int /\ d0 \in Int
      <4>1. docid[t] \in 0..NumDocs
        BY <1>11, <3>1
      <4> QED BY <1>3, <1>8, <4>1
    <3>5. ~(pivot <= q)
      BY <1>18, <3>1, <3>3, <3>4
    <3>6. q \in 1..(pivot - 1)
      BY <1>3, <2>1, <3>5
    <3> QED BY <3>2, <3>6 DEF First
  <2> QED BY <2>1, <2>2
<1>19. ASSUME NEW d \in Nat, d < d0
       PROVE  /\ \A T \in SUBSET UpTo(d) : ~WouldEnter(topk, Weight(T))
              /\ ListsWith(d) \subseteq UpTo(d) => ~WouldEnter(topk, FullScore(d))
  <2> DEFINE U == First(pivot - 1)
  <2>1. U \in SUBSET Terms /\ ~WouldEnter(topk, Weight(U)) /\ UpTo(d) \in SUBSET U
    <3>1. pivot - 1 \in 1..n /\ UpTo(d) \in SUBSET First(pivot - 1)
      BY <1>18, <1>19
    <3>2. pivot - 1 \in 0..n
      BY <1>2, <3>1
    <3>3. First(pivot - 1) \in SUBSET Terms
      BY <1>1, <3>2, UpperBoundFacts DEF n
    <3>4. pivot - 1 \in 1..(pivot - 1)
      BY <1>2, <1>8, <3>1
    <3> QED BY <1>8, <3>1, <3>3, <3>4
  <2> HIDE DEF U
  <2>2. /\ \A T \in SUBSET U : ~WouldEnter(topk, Weight(T))
        /\ ListsWith(d) \subseteq U => ~WouldEnter(topk, FullScore(d))
    BY <1>2, <2>1, WeightEntry
  <2> QED BY <2>1, <2>2
<1>20. Done \subseteq Done' /\ \A d \in Done' \ Done : ~WouldEnter(topk, FullScore(d))
  <2>1. Done' = {d \in Matching : Passed(d)'}
    BY <1>1, <1>4, <1>5 DEF Done
  <2>2. \A d \in Matching : d \in Nat
    BY <1>2, MatchingFacts
  <2>3. ASSUME NEW d \in Done' \ Done PROVE ~WouldEnter(topk, FullScore(d))
    <3>1. d \in Nat /\ Passed(d)' /\ ~Passed(d)
      BY <1>7, <2>1, <2>2
    <3>2. d < d0 /\ ListsWith(d) \subseteq UpTo(d)
      BY <1>7, <1>17, <3>1
    <3> QED BY <1>19, <3>1, <3>2
  <2> QED BY <1>7, <1>17, <2>1, <2>2, <2>3
<1>21. Places'
  <2>1. /\ non_essential = 0 /\ Terms # {} /\ i \in Nat /\ score \in Nat
        /\ cur_doc \in 0..NumDocs /\ next_doc \in 0..NumDocs
    BY <1>1, <1>2 DEF Places
  <2>2. results' \in Nat /\ 0 \in 0..Len(order')
    BY <1>3, <1>2, <1>4, <1>15
  <2> QED BY <1>1, <1>4, <1>5, <1>15, <2>1, <2>2 DEF Places
<1>22. Counted'
  <2>1. Answered'
    BY <1>2, <1>4, <1>7, <1>20, CountNone
  <2>2. Frontier' = docid'[order'[1]]
    BY <1>1, <1>5 DEF Frontier
  <2>3. order'[1] \in Terms
    BY <1>2, <1>15
  <2>4. \A t \in Terms : docid[order[1]] <= docid[t]
    <3>1. \A p \in 1..n : docid[order[1]] <= docid[order[p]]
      BY <1>2, <1>7
    <3> QED BY <1>2, <3>1
  <2>5. results' <= Frontier'
    <3>1. order[1] \in Terms
      BY <1>2
    <3>2. /\ docid[order[1]] \in Int /\ docid[order'[1]] \in Int /\ docid'[order'[1]] \in Int
          /\ docid[order[1]] <= docid[order'[1]] /\ docid[order'[1]] <= docid'[order'[1]]
      <4>1. docid[order[1]] \in 0..NumDocs /\ docid[order'[1]] \in 0..NumDocs /\ docid'[order'[1]] \in 0..NumDocs
        BY <1>11, <1>13, <2>3, <3>1
      <4> QED BY <1>3, <1>12, <2>3, <2>4, <4>1
    <3> QED BY <1>2, <1>4, <1>7, <2>2, <3>2
  <2> QED BY <1>1, <1>4, <2>1, <2>5 DEF Counted, Answered
<1>23. WandInv'
  <2>1. ASSUME NEW d \in Nat, Passed(d)' PROVE UpTo(d)' = {} \/ ~WouldEnter(topk, Weight(UpTo(d)'))
    <3>1. UpTo(d)' = {t \in Terms : docid'[t] <= d}
      BY <1>5 DEF UpTo
    <3>2. UpTo(d)' \in SUBSET UpTo(d)
      <4>1. \A t \in Terms : docid[t] \in Int /\ docid'[t] \in Int /\ docid[t] <= docid'[t]
        BY <1>2, <1>11, <1>12, <1>13
      <4> QED BY <3>1, <4>1 DEF UpTo
    <3>3. CASE Passed(d)
      <4>1. CASE UpTo(d) = {}
        BY <3>2, <4>1
      <4>2. CASE ~WouldEnter(topk, Weight(UpTo(d)))
        BY <1>2, <1>7, <3>2, <4>2, WeightEntry
      <4> QED BY <1>7, <3>3, <4>1, <4>2
    <3>4. CASE ~Passed(d)
      BY <1>17, <1>19, <2>1, <3>2, <3>4
    <3> QED BY <3>3, <3>4
  <2>2. \A d \in Nat : Weight(UpTo(d))' = Weight(UpTo(d)')
    BY <1>5 DEF Weight
  <2> QED BY <1>4, <1>16, <2>1, <2>2 DEF WandInv
<1>24. AndInv' /\ OrInv' /\ MaxscoreRunInv' /\ MaxscoreCompleteInv'
  BY <1>1, <1>4, <1>5 DEF AndInv, OrInv, MaxscoreRunInv, MaxscoreCompleteInv
<1>25. Onward
  <2>1. docid[moved] \in 0..NumDocs /\ asked[moved] \in 0..NumDocs /\ asked[moved] <= docid[moved]
    BY <1>10, <1>11
  <2>2. d0 \in 0..NumDocs /\ asked[moved] <= d0
    BY <1>3, <1>8, <1>9, <2>1
  <2> QED BY <1>2, <1>4, <1>6, <1>10, <2>2, NextGeqFacts DEF Onward
<1> QED BY <1>5, <1>12, <1>21, <1>22, <1>23, <1>24, <1>25 DEF Inv

-----------------------------------------------------------------------------
(* maxscore_query                                                          *)

(***************************************************************************)
(* A sum over two sets that have nothing in common.                        *)
(***************************************************************************)
LEMMA SumOfTwo ==
    ASSUME NEW f, NEW A, IsFiniteSet(A), NEW B, IsFiniteSet(B), A \cap B = {},
           \A x \in A \cup B : f[x] \in Nat
    PROVE  SumFunctionOnSet(f, A \cup B) = SumFunctionOnSet(f, A) + SumFunctionOnSet(f, B)
<1> DEFINE Sum(T) == SumFunctionOnSet(f, T)
           Bad == {T \in SUBSET B : Sum(A \cup T) # Sum(A) + Sum(T)}
<1>1. \A T \in SUBSET B : IsFiniteSet(T) /\ IsFiniteSet(A \cup T) /\ Sum(T) \in Nat
  <2>1. ASSUME NEW T \in SUBSET B PROVE IsFiniteSet(T) /\ IsFiniteSet(A \cup T)
    BY FS_Subset, FS_Union
  <2>2. ASSUME NEW T \in SUBSET B PROVE Sum(T) \in Nat
    <3>1. IsFiniteSet(T) /\ \A x \in T : f[x] \in Nat
      BY <2>1
    <3> QED BY <3>1, SumType
  <2> QED BY <2>1, <2>2
<1>2. Sum(A) \in Nat
  BY SumType
<1>3. Bad = {}
  <2> SUFFICES ASSUME Bad # {} PROVE FALSE
    OBVIOUS
  <2>1. PICK T \in Bad : \A U \in SUBSET T : U # T => U \notin Bad
    <3>1. Bad \subseteq SUBSET B
      OBVIOUS
    <3> HIDE DEF Bad
    <3> QED BY <3>1, SmallestSet
  <2>2. T \in SUBSET B /\ Sum(A \cup T) # Sum(A) + Sum(T)
    OBVIOUS
  <2>3. T # {}
    <3> SUFFICES ASSUME T = {} PROVE FALSE
      OBVIOUS
    <3>1. Sum({}) = 0
      BY FS_EmptySet, SumChosen
    <3>2. A \cup T = A
      OBVIOUS
    <3> HIDE DEF Bad, Sum
    <3> QED BY <1>2, <2>2, <3>1, <3>2
  <2>4. PICK x : x \in T
    BY <2>3
  <2> DEFINE U == T \ {x}
  <2>5. U \in SUBSET B /\ U \in SUBSET T /\ U # T
    BY <2>2, <2>4
  <2>6. Sum(A \cup U) = Sum(A) + Sum(U)
    <3>1. U \notin Bad
      BY <2>1, <2>5
    <3> QED BY <2>5, <3>1
  <2>7. Sum(T) = f[x] + Sum(U)
    BY <1>1, <2>2, <2>4, SumTakeOut
  <2>8. Sum(A \cup T) = f[x] + Sum(A \cup U)
    <3>1. (A \cup T) \ {x} = A \cup U
      BY <2>2, <2>4
    <3>2. x \in A \cup T /\ \A y \in A \cup T : f[y] \in Nat
      BY <2>2, <2>4
    <3>3. IsFiniteSet(A \cup T)
      BY <1>1, <2>2
    <3>4. Sum(A \cup T) = f[x] + Sum((A \cup T) \ {x})
      BY <3>2, <3>3, SumTakeOut
    <3> QED BY <3>1, <3>4
  <2>9. f[x] \in Nat /\ Sum(U) \in Nat
    BY <1>1, <2>2, <2>4, <2>5
  <2> HIDE DEF Bad, Sum, U
  <2> QED BY <1>2, <2>2, <2>6, <2>7, <2>8, <2>9
<1> QED BY <1>3

(***************************************************************************)
(* The essential lists at cur_doc are scored and advanced.                 *)
(***************************************************************************)
LEMMA EssentialStepInv ==
    ASSUME Inv, EssentialStep
    PROVE  Inv' /\ Onward
<1> DEFINE n == Len(order)
<1>1. /\ pc = "run" /\ operator = "maxscore" /\ non_essential < n /\ cur_doc < NumDocs
  BY DEF EssentialStep, Maxscore
<1>2. /\ Given /\ CursorsStand /\ Places /\ Counted /\ Answered
      /\ order \in SetToSeqs(Terms) /\ order \in Seq(Terms)
      /\ n \in Nat /\ n >= 1 /\ NumDocs \in Nat \ {0} /\ cur_doc \in 0..NumDocs
      /\ \A p \in 1..n : order[p] \in Terms
      /\ \A p, r \in 1..n : order[p] = order[r] => p = r
      /\ results \in Nat /\ results <= Frontier
  BY <1>1, Standing
<1>3. n \in Nat /\ n >= 1 /\ NumDocs \in Nat \ {0} /\ cur_doc \in 0..NumDocs /\ non_essential \in 0..n
  BY <1>2 DEF Places
<1>4. /\ UNCHANGED given /\ pc' = "complete" /\ order' = order /\ i' = non_essential
      /\ non_essential' = non_essential /\ cur_doc' = cur_doc
      /\ results' = results /\ topk' = topk
  BY DEF EssentialStep
<1>5. Given' /\ Terms' = Terms /\ Matching' = Matching /\ operator' = operator /\ max_weight' = max_weight
  BY <1>2, <1>4, SameGiven
<1> DEFINE essential == {order[p] : p \in (non_essential + 1)..n}
           here == essential \cap At(cur_doc)
<1>6. /\ score' = ScoreOf(here) /\ NextDoc(here)
      /\ next_doc' = Least(Ids(essential, docid'))
  BY DEF EssentialStep, Ids
<1>7. /\ NonEssentialInv
      /\ cur_doc \in Matching
      /\ \A t \in Terms : asked[t] <= cur_doc
      /\ \A p \in 1..n : Essential(p) => docid[order[p]] >= cur_doc
  BY <1>1 DEF Inv, MaxscoreRunInv
<1> HIDE DEF n
<1>8. \A t \in Terms : docid[t] \in 0..NumDocs /\ asked[t] \in 0..NumDocs
  BY <1>2, CursorFacts
<1>9. essential \in SUBSET Terms /\ here \in SUBSET essential /\ \A t \in here : docid[t] = cur_doc
  <2>1. \A p \in (non_essential + 1)..n : p \in 1..n
    BY <1>3
  <2> QED BY <1>2, <2>1 DEF At
<1>10. \A t \in essential : docid[t] >= cur_doc
  <2>1. \A p \in (non_essential + 1)..n : p \in 1..n /\ Essential(p)
    BY <1>3 DEF Essential, n
  <2> QED BY <1>7, <2>1
<1>11. here = Having(cur_doc, non_essential + 1)
  <2>1. ASSUME NEW t \in essential PROVE t \in At(cur_doc) <=> cur_doc \in Docs(t)
    <3>1. t \in Terms
      BY <1>9
    <3>2. docid[t] < NumDocs => docid[t] \in Docs(t)
      BY <1>2, <3>1, CursorFacts
    <3>3. cur_doc \in Docs(t) /\ cur_doc >= asked[t] => docid[t] <= cur_doc
      BY <1>2, <3>1, CursorFacts
    <3>4. docid[t] \in 0..NumDocs /\ asked[t] \in 0..NumDocs /\ asked[t] <= cur_doc /\ docid[t] >= cur_doc
      BY <1>7, <1>8, <1>10, <3>1
    <3>5. docid[t] = cur_doc <=> cur_doc \in Docs(t)
      <4> HIDE DEF essential
      <4> QED BY <1>3, <1>1, <3>2, <3>3, <3>4
    <3> QED BY <3>1, <3>5 DEF At
  <2> QED BY <2>1 DEF Having, n
<1>12. score' = SumFunction([t \in here |-> TermScore(t, cur_doc)]) /\ score' \in Nat
  <2>1. [t \in here |-> TermScore(t, docid[t])] = [t \in here |-> TermScore(t, cur_doc)]
    BY <1>9
  <2>2. here \in SUBSET ListsWith(cur_doc)
    BY <1>9, <1>11 DEF Having, ListsWith
  <2>3. ScoreOf(here) \in Nat
    BY <1>2, <1>9, <2>2, ScoreOfFacts
  <2> HIDE DEF here
  <2> QED BY <1>6, <2>1, <2>3 DEF ScoreOf
<1> HIDE DEF here
<1>13. /\ CursorsStand'
       /\ \A t \in here : docid'[t] > cur_doc /\ asked'[t] = cur_doc + 1
       /\ \A t \in Terms \ here : docid'[t] = docid[t] /\ asked'[t] = asked[t]
  <2>1. here \in SUBSET Terms /\ \A t \in here : docid[t] < NumDocs /\ docid[t] = cur_doc
    BY <1>1, <1>9
  <2> QED BY <1>2, <1>4, <1>6, <2>1, NextDocFacts
<1>14. \A t \in Terms : docid'[t] \in 0..NumDocs /\ asked'[t] \in 0..NumDocs
  BY <1>2, <1>4, <1>13, CursorFactsAfter
<1>15. \A t \in essential : docid'[t] > cur_doc
  <2>1. ASSUME NEW t \in essential, t \notin here PROVE docid'[t] > cur_doc
    <3>1. t \in Terms /\ docid[t] # cur_doc
      BY <1>9, <2>1 DEF here, At
    <3>2. docid'[t] = docid[t] /\ docid[t] \in 0..NumDocs /\ docid[t] >= cur_doc
      BY <1>8, <1>10, <1>13, <2>1, <3>1
    <3> HIDE DEF essential
    <3> QED BY <1>3, <3>1, <3>2
  <2> QED BY <1>13, <2>1
<1> HIDE DEF essential
<1>16. /\ next_doc' \in 0..NumDocs
       /\ \A t \in essential : next_doc' <= docid'[t]
       /\ next_doc' < NumDocs => \E t \in essential : docid'[t] = next_doc'
  <2>1. \A t \in essential : docid'[t] \in 0..NumDocs
    BY <1>9, <1>14
  <2> QED BY <1>6, <2>1, LeastId
<1>17. cur_doc < next_doc'
  <2>1. CASE next_doc' = NumDocs
    BY <1>1, <2>1
  <2>2. CASE next_doc' < NumDocs
    BY <1>15, <1>16, <2>2
  <2> QED BY <1>3, <1>16, <2>1, <2>2
<1>18. next_doc' < NumDocs => next_doc' \in Matching
  <2> SUFFICES ASSUME next_doc' < NumDocs PROVE next_doc' \in Matching
    OBVIOUS
  <2>1. PICK t \in essential : docid'[t] = next_doc'
    BY <1>16
  <2>2. next_doc' \in Docs(t) /\ t \in Terms
    BY <1>2, <1>4, <1>9, <1>13, <2>1, CursorFactsAfter
  <2>3. next_doc' \in 0..(NumDocs - 1)
    BY <1>3, <1>16
  <2> QED BY <1>1, <2>2, <2>3 DEF Matching
<1>19. \A t \in Terms : asked'[t] <= next_doc'
  <2>1. ASSUME NEW t \in Terms PROVE asked'[t] <= cur_doc + 1
    <3>1. CASE t \in here
      BY <1>3, <1>13, <3>1
    <3>2. CASE t \notin here
      <4>1. asked'[t] = asked[t] /\ asked[t] \in 0..NumDocs /\ asked[t] <= cur_doc
        BY <1>7, <1>8, <1>13, <3>2
      <4> QED BY <1>3, <4>1
    <3> QED BY <3>1, <3>2
  <2>2. ASSUME NEW t \in Terms PROVE asked'[t] <= next_doc'
    <3>1. asked'[t] \in 0..NumDocs /\ asked'[t] <= cur_doc + 1
      BY <1>14, <2>1
    <3> QED BY <1>3, <1>16, <1>17, <3>1
  <2> QED BY <2>2
<1>20. \A p \in 1..non_essential : asked'[order[p]] <= cur_doc
  <2>1. ASSUME NEW p \in 1..non_essential PROVE asked'[order[p]] <= cur_doc
    <3>1. p \in 1..n /\ ~(p \in (non_essential + 1)..n)
      BY <1>3
    <3>2. order[p] \notin essential
      <4>1. \A r \in (non_essential + 1)..n : r \in 1..n
        BY <1>3
      <4> QED BY <1>2, <3>1, <4>1 DEF essential
    <3>3. order[p] \in Terms \ here
      BY <1>2, <1>9, <3>1, <3>2
    <3> QED BY <1>7, <1>13, <3>3
  <2> QED BY <2>1
<1>21. ASSUME NEW p \in 1..n, Essential(p)
       PROVE  /\ docid'[order[p]] >= next_doc'
              /\ \A d \in Docs(order[p]) : d <= cur_doc \/ d >= next_doc'
  <2>1. order[p] \in essential /\ order[p] \in Terms
    BY <1>2, <1>21 DEF essential, Essential, n
  <2>2. docid'[order[p]] >= next_doc' /\ docid'[order[p]] \in 0..NumDocs
    BY <1>3, <1>14, <1>16, <2>1
  <2>3. ASSUME NEW d \in Docs(order[p]) PROVE d <= cur_doc \/ d >= next_doc'
    <3>1. asked'[order[p]] <= cur_doc + 1 /\ asked'[order[p]] \in 0..NumDocs
      <4>1. CASE order[p] \in here
        BY <1>3, <1>13, <1>14, <2>1, <4>1
      <4>2. CASE order[p] \notin here
        <5>1. /\ asked'[order[p]] = asked[order[p]] /\ asked[order[p]] \in 0..NumDocs
              /\ asked[order[p]] <= cur_doc
          BY <1>7, <1>8, <1>13, <2>1, <4>2
        <5> QED BY <1>3, <5>1
      <4> QED BY <4>1, <4>2
    <3>2. d \in Nat
      BY <1>2, <2>1, ListFacts
    <3>3. d >= asked'[order[p]] => docid'[order[p]] <= d
      BY <1>2, <1>4, <1>13, <2>1, CursorFactsAfter
    <3> QED BY <1>3, <1>16, <2>2, <3>1, <3>2, <3>3
  <2> QED BY <2>2, <2>3
<1>22. MaxscoreCompleteInv'
  <2>1. NonEssentialInv'
    BY <1>4, <1>5, <1>7 DEF NonEssentialInv, UpperBound
  <2>2. i' \in 0..non_essential'
    BY <1>3, <1>4
  <2>3. score' = SumFunction([t \in Having(cur_doc, i + 1) |-> TermScore(t, cur_doc)])'
    <3>1. \A t : Docs(t)' = Docs(t) /\ TermScore(t, cur_doc)' = TermScore(t, cur_doc)
      <4>1. \A t, d : TermScore(t, d)' = TermScore(t, d)
        BY <1>4, SameGiven
      <4>2. \A t : Docs(t)' = Docs(t)
        BY <1>4, SameGiven
      <4>3. index' = index /\ query' = query
        BY <1>4, SameGiven
      <4> QED BY <1>4, <4>2, <4>3 DEF TermScore, TermFreq
    <3>2. Having(cur_doc, i + 1)' = here
      BY <1>4, <1>11, <3>1 DEF Having
    <3> QED BY <1>12, <3>1, <3>2
  <2>4. \A p \in 1..Len(order') : Essential(p)' =>
            /\ docid'[order'[p]] >= next_doc'
            /\ \A d \in Docs(order[p])' : d <= cur_doc' \/ d >= next_doc'
    <3>1. index' = index
      BY <1>4, SameGiven
    <3>2. \A p : Essential(p)' <=> Essential(p)
      BY <1>4 DEF Essential
    <3>3. \A p : Docs(order[p])' = Docs(order[p])
      BY <1>4, <3>1 DEF Docs
    <3> QED BY <1>4, <1>21, <3>2, <3>3 DEF n
  <2> QED BY <1>4, <1>5, <1>7, <1>17, <1>18, <1>19, <1>20, <2>1, <2>2, <2>3, <2>4
          DEF MaxscoreCompleteInv
<1>23. Places'
  <2>1. i' \in Nat /\ non_essential \in 0..Len(order) /\ Terms # {}
    BY <1>3, <1>1, <1>2, <1>4 DEF Places
  <2> QED BY <1>1, <1>2, <1>4, <1>5, <1>12, <1>16, <2>1 DEF Places
<1>24. Counted'
  <2>1. Done' = Done
    BY <1>1, <1>4, <1>5 DEF Done
  <2>2. Answered'
    BY <1>2, <1>4, <2>1, CountNone
  <2>3. Frontier' = Frontier
    BY <1>1, <1>4, <1>5 DEF Frontier
  <2> QED BY <1>2, <1>4, <2>2, <2>3 DEF Counted, Answered
<1>25. AndInv' /\ OrInv' /\ WandInv' /\ MaxscoreRunInv'
  BY <1>4 DEF AndInv, OrInv, WandInv, MaxscoreRunInv
<1>26. Onward
  <2>1. here \in SUBSET Terms /\ \A t \in here : docid[t] < NumDocs
    BY <1>1, <1>9
  <2> QED BY <1>2, <1>4, <1>6, <2>1, NextDocFacts DEF Onward
<1> QED BY <1>5, <1>13, <1>22, <1>23, <1>24, <1>25, <1>26 DEF Inv

(***************************************************************************)
(* What the invariant says while a score is completed.                     *)
(***************************************************************************)
LEMMA CompleteFacts ==
    ASSUME Inv, pc = "complete"
    PROVE  /\ operator = "maxscore" /\ Ranked
           /\ NonEssentialInv
           /\ non_essential \in 0..Len(order) /\ i \in 0..non_essential /\ i \in 0..Len(order)
           /\ cur_doc < next_doc /\ next_doc \in 0..NumDocs
           /\ cur_doc \in Matching
           /\ next_doc < NumDocs => next_doc \in Matching
           /\ score = SumFunction([t \in Having(cur_doc, i + 1) |-> TermScore(t, cur_doc)])
           /\ score \in Nat
           /\ \A p \in 1..i : asked[order[p]] <= cur_doc
           /\ \A t \in Terms : asked[t] <= next_doc
           /\ \A p \in 1..Len(order) : Essential(p) =>
                /\ docid[order[p]] >= next_doc
                /\ \A d \in Docs(order[p]) : d <= cur_doc \/ d >= next_doc
<1>1. /\ operator = "maxscore" /\ non_essential \in 0..Len(order)
      /\ next_doc \in 0..NumDocs /\ score \in Nat
  BY DEF Inv, Places
<1>2. Len(order) \in Nat
  BY Standing
<1>3. Ranked
  BY <1>1 DEF Ranked
<1>4. MaxscoreCompleteInv
  BY DEF Inv
<1>5. i \in 0..non_essential
  BY <1>4 DEF MaxscoreCompleteInv
<1>6. i \in 0..Len(order)
  BY <1>1, <1>2, <1>5
<1> QED BY <1>1, <1>3, <1>4, <1>5, <1>6 DEF MaxscoreCompleteInv

(***************************************************************************)
(* The score of a document in some lists and in one more.                  *)
(***************************************************************************)
LEMMA HavingMore ==
    ASSUME Inv, pc = "complete", i > 0
    PROVE  LET t == order[i]
               s == SumFunction([u \in Having(cur_doc, i) |-> TermScore(u, cur_doc)])
           IN  s = score + IF cur_doc \in Docs(t) THEN TermScore(t, cur_doc) ELSE 0
<1> DEFINE n == Len(order)
           t == order[i]
           A == Having(cur_doc, i)
           B == Having(cur_doc, i + 1)
           f == [u \in A |-> TermScore(u, cur_doc)]
           g == [u \in B |-> TermScore(u, cur_doc)]
<1>1. /\ Given /\ n \in Nat /\ \A p \in 1..n : order[p] \in Terms
      /\ \A p, r \in 1..n : order[p] = order[r] => p = r
  BY Standing
<1>2. i \in 1..n
  BY CompleteFacts
<1>3. score = SumFunctionOnSet(g, B)
  BY CompleteFacts DEF SumFunction
<1>4. A \in SUBSET Terms /\ B \in SUBSET Terms /\ IsFiniteSet(A) /\ IsFiniteSet(B)
  <2>1. A \in SUBSET Terms /\ B \in SUBSET Terms
    <3>1. \A p \in i..n : p \in 1..n
      BY <1>1, <1>2
    <3>2. \A p \in (i + 1)..n : p \in 1..n
      BY <1>1, <1>2
    <3> QED BY <1>1, <3>1, <3>2 DEF Having
  <2> QED BY <1>1, <2>1, TermsFacts, FS_Subset
<1>5. t \notin B /\ A = IF cur_doc \in Docs(t) THEN B \cup {t} ELSE B
  <2>1. \A p \in (i + 1)..n : p \in 1..n /\ p # i
    BY <1>1, <1>2
  <2>2. t \notin {order[p] : p \in (i + 1)..n}
    BY <1>1, <1>2, <2>1
  <2>3. i..n = {i} \cup ((i + 1)..n)
    BY <1>1, <1>2
  <2>4. {order[p] : p \in i..n} = {order[p] : p \in (i + 1)..n} \cup {t}
    BY <2>3
  <2> QED BY <2>2, <2>4 DEF Having
<1>6. (\A u \in A : f[u] \in Nat) /\ (\A u \in B : u \in A /\ g[u] \in Nat /\ f[u] = g[u])
  <2>1. \A u \in A : cur_doc \in Docs(u)
    BY DEF Having
  <2>2. \A u \in B : u \in A
    BY <1>5
  <2>3. \A u \in A : TermScore(u, cur_doc) \in Nat
    BY <1>1, <1>4, <2>1, ListFacts
  <2> HIDE DEF A, B
  <2> QED BY <2>2, <2>3
<1> HIDE DEF A, B, n, t
<1>7. SumFunctionOnSet(f, A) = score + IF cur_doc \in Docs(t) THEN TermScore(t, cur_doc) ELSE 0
  <2>1. SumFunctionOnSet(f, B) = SumFunctionOnSet(g, B)
    <3> HIDE DEF f, g
    <3> QED BY <1>4, <1>6, SumEqual
  <2>2. score \in Nat
    BY CompleteFacts
  <2>3. CASE cur_doc \in Docs(t)
    <3>1. A \ {t} = B /\ t \in A
      BY <1>5, <2>3
    <3>2. SumFunctionOnSet(f, A) = f[t] + SumFunctionOnSet(f, A \ {t})
      <4> HIDE DEF f
      <4> QED BY <1>4, <1>6, <3>1, SumTakeOut
    <3>3. f[t] = TermScore(t, cur_doc) /\ f[t] \in Nat
      BY <1>6, <3>1
    <3> HIDE DEF f, g
    <3> QED BY <1>3, <2>1, <2>2, <2>3, <3>1, <3>2, <3>3
  <2>4. CASE cur_doc \notin Docs(t)
    <3>1. A = B
      BY <1>5, <2>4
    <3> HIDE DEF f, g
    <3> QED BY <1>3, <2>1, <2>2, <2>4, <3>1
  <2> QED BY <2>3, <2>4
<1>8. SumFunction([u \in Having(cur_doc, i) |-> TermScore(u, cur_doc)]) = SumFunctionOnSet(f, A)
  BY DEF SumFunction, A
<1> QED BY <1>7, <1>8 DEF t

(***************************************************************************)
(* The score of one more list is added.                                    *)
(***************************************************************************)
LEMMA CompleteStepInv ==
    ASSUME Inv, CompleteStep
    PROVE  Inv' /\ Onward
<1> DEFINE n == Len(order)
           t == order[i]
<1>1. pc = "complete" /\ i > 0
  BY DEF CompleteStep, Promising
<1>2. /\ Given /\ CursorsStand /\ Places /\ Counted /\ Answered
      /\ \A p \in 1..n : order[p] \in Terms
      /\ \A p, r \in 1..n : order[p] = order[r] => p = r
  BY <1>1, Standing
<1>3. n \in Nat /\ n >= 1 /\ NumDocs \in Nat \ {0} /\ cur_doc \in 0..NumDocs
  BY <1>1, Standing
<1>4. /\ UNCHANGED given /\ pc' = pc /\ order' = order /\ i' = i - 1
      /\ non_essential' = non_essential /\ cur_doc' = cur_doc /\ next_doc' = next_doc
      /\ results' = results /\ topk' = topk
      /\ NextGeq(t, cur_doc)
      /\ score' = score + IF docid'[t] = cur_doc THEN TermScore(t, cur_doc) ELSE 0
  BY DEF CompleteStep
<1>5. Given' /\ Terms' = Terms /\ Matching' = Matching /\ operator' = operator /\ max_weight' = max_weight
  BY <1>2, <1>4, SameGiven
<1>6. /\ operator = "maxscore"
      /\ NonEssentialInv
      /\ non_essential \in 0..n /\ i \in 0..non_essential /\ i \in 0..n
      /\ cur_doc < next_doc /\ next_doc \in 0..NumDocs
      /\ cur_doc \in Matching
      /\ next_doc < NumDocs => next_doc \in Matching
      /\ score \in Nat
      /\ \A p \in 1..i : asked[order[p]] <= cur_doc
      /\ \A u \in Terms : asked[u] <= next_doc
      /\ \A p \in 1..n : Essential(p) =>
            /\ docid[order[p]] >= next_doc
            /\ \A d \in Docs(order[p]) : d <= cur_doc \/ d >= next_doc
  BY <1>1, CompleteFacts
<1>7. i \in 1..n /\ t \in Terms
  <2>1. i \in 1..n
    BY <1>3, <1>1, <1>6
  <2> QED BY <1>2, <2>1
<1> HIDE DEF n
<1>8. asked[t] <= cur_doc
  <2>1. i \in 1..i
    BY <1>3, <1>7
  <2> QED BY <1>6, <2>1
<1> HIDE DEF t
<1>9. /\ CursorsStand' /\ docid'[t] >= cur_doc /\ asked'[t] = cur_doc
      /\ \A u \in Terms \ {t} : docid'[u] = docid[u] /\ asked'[u] = asked[u]
  BY <1>3, <1>2, <1>4, <1>7, <1>8, NextGeqFacts
<1>10. docid'[t] = cur_doc <=> cur_doc \in Docs(t)
  <2>1. /\ docid'[t] \in 0..NumDocs
        /\ docid'[t] < NumDocs => docid'[t] \in Docs(t)
        /\ \A e \in Docs(t) : e >= cur_doc => docid'[t] <= e
    BY <1>2, <1>4, <1>7, <1>9, CursorFactsAfter
  <2>2. cur_doc < NumDocs
    BY <1>3, <1>6
  <2> QED BY <1>3, <1>9, <2>1, <2>2
<1>11. score' = SumFunction([u \in Having(cur_doc, i) |-> TermScore(u, cur_doc)]) /\ score' \in Nat
  <2>1. score' = score + IF cur_doc \in Docs(t) THEN TermScore(t, cur_doc) ELSE 0
    BY <1>4, <1>10
  <2>2. cur_doc \in Docs(t) => TermScore(t, cur_doc) \in Nat
    BY <1>2, <1>7, ListFacts
  <2>3. score' \in Nat
    BY <1>6, <2>1, <2>2
  <2> QED BY <1>1, <2>1, <2>3, HavingMore DEF t
<1>12. ASSUME NEW p \in 1..n, p # i PROVE order[p] \in Terms \ {t}
  BY <1>2, <1>7, <1>12 DEF t
<1>13. MaxscoreCompleteInv'
  <2>1. NonEssentialInv'
    BY <1>4, <1>5, <1>6 DEF NonEssentialInv, UpperBound
  <2>2. i' \in 0..non_essential'
    BY <1>3, <1>1, <1>4, <1>6
  <2>3. score' = SumFunction([u \in Having(cur_doc, i + 1) |-> TermScore(u, cur_doc)])'
    <3>1. \A u : Docs(u)' = Docs(u) /\ TermScore(u, cur_doc)' = TermScore(u, cur_doc)
      <4>1. index' = index /\ query' = query
        BY <1>4, SameGiven
      <4> QED BY <1>4, <4>1 DEF TermScore, TermFreq, Docs
    <3>2. i' + 1 = i
      BY <1>3, <1>4, <1>7
    <3>3. Having(cur_doc, i + 1)' = Having(cur_doc, i)
      BY <1>4, <3>1, <3>2 DEF Having
    <3> QED BY <1>11, <3>1, <3>3
  <2>4. \A p \in 1..i' : asked'[order[p]] <= cur_doc
    <3>1. ASSUME NEW p \in 1..i' PROVE p \in 1..n /\ p # i /\ p \in 1..i
      BY <1>3, <1>4, <1>7
    <3> QED BY <1>6, <1>9, <1>12, <3>1
  <2>5. \A u \in Terms : asked'[u] <= next_doc
    <3>1. cur_doc <= next_doc
      BY <1>3, <1>6
    <3> QED BY <1>6, <1>9, <3>1
  <2>6. \A p \in 1..Len(order') : Essential(p)' =>
            /\ docid'[order'[p]] >= next_doc'
            /\ \A d \in Docs(order[p])' : d <= cur_doc' \/ d >= next_doc'
    <3>1. index' = index
      BY <1>4, SameGiven
    <3>2. \A p : Essential(p)' <=> Essential(p)
      BY <1>4 DEF Essential
    <3>3. \A p : Docs(order[p])' = Docs(order[p])
      BY <1>4, <3>1 DEF Docs
    <3>4. ASSUME NEW p \in 1..n, Essential(p) PROVE docid'[order[p]] = docid[order[p]]
      <4>1. p # i
        BY <1>3, <1>6, <1>7, <3>4 DEF Essential
      <4> QED BY <1>9, <1>12, <4>1
    <3> QED BY <1>4, <1>6, <3>2, <3>3, <3>4 DEF n
  <2> QED BY <1>4, <1>5, <1>6, <2>1, <2>2, <2>3, <2>4, <2>5, <2>6 DEF MaxscoreCompleteInv
<1>14. Places'
  <2>1. i' \in Nat /\ non_essential \in 0..Len(order) /\ Terms # {}
    <3>1. i' \in Nat
      BY <1>3, <1>4, <1>7
    <3> QED BY <1>1, <1>2, <3>1 DEF Places
  <2> QED BY <1>1, <1>2, <1>4, <1>5, <1>6, <1>11, <2>1 DEF Places
<1>15. Counted'
  <2>1. Done' = Done
    BY <1>1, <1>4, <1>5 DEF Done
  <2>2. Answered'
    BY <1>2, <1>4, <2>1, CountNone
  <2>3. Frontier' = Frontier /\ results <= Frontier
    BY <1>1, <1>2, <1>4, <1>5, <1>6 DEF Frontier, Counted
  <2> QED BY <1>1, <1>4, <2>2, <2>3 DEF Counted, Answered
<1>16. AndInv' /\ OrInv' /\ WandInv' /\ MaxscoreRunInv'
  BY <1>1, <1>4 DEF AndInv, OrInv, WandInv, MaxscoreRunInv
<1>17. Onward
  BY <1>3, <1>2, <1>4, <1>7, <1>8, NextGeqFacts DEF Onward
<1> QED BY <1>5, <1>9, <1>13, <1>14, <1>15, <1>16, <1>17 DEF Inv

(***************************************************************************)
(* The document that the score is of: the score is all of it, or neither   *)
(* the score nor the whole would enter.                                    *)
(***************************************************************************)
LEMMA ScoreEnough ==
    ASSUME Inv, pc = "complete", ~Promising
    PROVE  \/ score = FullScore(cur_doc)
           \/ ~WouldEnter(topk, score) /\ ~WouldEnter(topk, FullScore(cur_doc))
<1> DEFINE n == Len(order)
           f == [t \in ListsWith(cur_doc) |-> TermScore(t, cur_doc)]
           A == Having(cur_doc, i + 1)
           B == ListsWith(cur_doc) \cap First(i)
           g == [t \in A |-> TermScore(t, cur_doc)]
<1>1. /\ Given /\ n \in Nat /\ \A p \in 1..n : order[p] \in Terms
      /\ \A t \in Terms : \E p \in 1..n : order[p] = t
      /\ \A p, r \in 1..n : order[p] = order[r] => p = r
      /\ Ascending(topk) /\ Len(topk) <= K
  BY Standing
<1>2. i \in 0..n /\ score \in Nat
  BY CompleteFacts
<1>3. score = SumFunctionOnSet(g, A)
  BY CompleteFacts DEF SumFunction
<1>4. FullScore(cur_doc) = SumFunctionOnSet(f, ListsWith(cur_doc)) /\ FullScore(cur_doc) \in Nat
  BY <1>1, FullScoreFacts
<1>5. ListsWith(cur_doc) = A \cup B /\ A \cap B = {}
  <2>1. ASSUME NEW p \in 1..n PROVE p \in (i + 1)..n \/ p \in 1..i
    BY <1>1, <1>2
  <2>2. \A p \in (i + 1)..n : p \in 1..n
    BY <1>1, <1>2
  <2>3. \A p \in 1..i : p \in 1..n
    BY <1>1, <1>2
  <2>4. \A p \in (i + 1)..n, r \in 1..i : p # r
    BY <1>1, <1>2
  <2>5. ListsWith(cur_doc) \subseteq A \cup B
    <3>1. ASSUME NEW t \in ListsWith(cur_doc) PROVE t \in A \cup B
      <4>1. PICK p \in 1..n : order[p] = t
        BY <1>1 DEF ListsWith
      <4>2. cur_doc \in Docs(t)
        BY DEF ListsWith
      <4> QED BY <2>1, <4>1, <4>2 DEF Having, First
    <3> QED BY <3>1
  <2>6. A \subseteq ListsWith(cur_doc)
    BY <1>1, <2>2 DEF Having, ListsWith
  <2>7. \A p \in (i + 1)..n, r \in 1..i : order[p] # order[r]
    BY <1>1, <2>2, <2>3, <2>4
  <2>8. A \cap B = {}
    BY <2>7 DEF Having, First
  <2> QED BY <2>5, <2>6, <2>8
<1>6. ListsWith(cur_doc) \in SUBSET Terms /\ IsFiniteSet(ListsWith(cur_doc)) /\ IsFiniteSet(A) /\ IsFiniteSet(B)
  <2>1. ListsWith(cur_doc) \in SUBSET Terms /\ IsFiniteSet(Terms)
    BY <1>1, TermsFacts DEF ListsWith
  <2>2. A \in SUBSET Terms /\ B \in SUBSET Terms
    BY <1>5, <2>1
  <2> QED BY <2>1, <2>2, FS_Subset
<1>7. \A t \in ListsWith(cur_doc) : f[t] \in Nat /\ f[t] <= max_weight[t] /\ max_weight[t] \in Nat
  BY <1>1, ListFacts DEF ListsWith
<1>8. \A t \in A : g[t] \in Nat /\ f[t] = g[t]
  BY <1>5, <1>7
<1> HIDE DEF n, f, g, A, B
<1>9. SumFunctionOnSet(f, A) = score
  BY <1>3, <1>6, <1>8, SumEqual
<1>10. FullScore(cur_doc) = score + SumFunctionOnSet(f, B)
  <2>1. \A x \in A \cup B : f[x] \in Nat
    BY <1>5, <1>7
  <2>2. SumFunctionOnSet(f, A \cup B) = SumFunctionOnSet(f, A) + SumFunctionOnSet(f, B)
    BY <1>5, <1>6, <2>1, SumOfTwo
  <2> QED BY <1>4, <1>5, <1>9, <2>2
<1>11. SumFunctionOnSet(f, B) \in Nat
  <2>1. \A x \in B : f[x] \in Nat
    BY <1>5, <1>7
  <2> QED BY <1>6, <2>1, SumType
<1>12. UpperBound(i) = Weight(First(i)) /\ UpperBound(i) \in Nat /\ First(i) \in SUBSET Terms
  BY <1>2, UpperBoundFacts DEF n
<1>13. CASE i = 0
  <2>1. B = {}
    <3>1. First(i) = {}
      BY <1>13 DEF First
    <3> QED BY <3>1 DEF B
  <2>2. SumFunctionOnSet(f, B) = 0
    BY <1>6, <2>1, SumChosen
  <2>3. score = FullScore(cur_doc)
    BY <1>2, <1>10, <2>2
  <2> QED BY <2>3
<1>14. CASE i > 0
  <2>1. ~WouldEnter(topk, score + UpperBound(i))
    BY <1>14 DEF Promising
  <2>2. SumFunctionOnSet(f, B) <= UpperBound(i)
    <3>1. IsFiniteSet(First(i)) /\ B \in SUBSET First(i)
      BY <1>1, <1>12, TermsFacts, FS_Subset DEF B
    <3>2. \A x \in First(i) : max_weight[x] \in Nat
      BY <1>1, <1>12, ListFacts
    <3>3. \A x \in B : f[x] \in Nat /\ f[x] <= max_weight[x]
      BY <1>5, <1>7
    <3>4. SumFunctionOnSet(f, B) <= SumFunctionOnSet(max_weight, First(i))
      BY <3>1, <3>2, <3>3, SumMonotonic
    <3> QED BY <1>12, <3>4 DEF Weight
  <2>3. /\ score + UpperBound(i) \in Nat
        /\ score <= score + UpperBound(i)
        /\ FullScore(cur_doc) <= score + UpperBound(i)
    BY <1>2, <1>10, <1>11, <1>12, <2>2
  <2>4. ~WouldEnter(topk, score)
    BY <1>1, <1>2, <2>1, <2>3, EntryDownwards
  <2>5. ~WouldEnter(topk, FullScore(cur_doc))
    BY <1>1, <1>4, <2>1, <2>3, EntryDownwards
  <2> QED BY <2>4, <2>5
<1> QED BY <1>1, <1>2, <1>13, <1>14

(***************************************************************************)
(* The score is inserted: the document is done, as are those before the    *)
(* next one, which are in non-essential lists only.                        *)
(***************************************************************************)
LEMMA InsertStepInv ==
    ASSUME Inv, InsertStep
    PROVE  Inv' /\ Onward
<1> DEFINE n == Len(order)
           ne == non_essential
<1>1. pc = "complete" /\ ~Promising
  BY DEF InsertStep
<1>2. /\ Given /\ CursorsStand /\ Places /\ Counted /\ Answered
      /\ Ascending(topk) /\ Len(topk) <= K
      /\ \A p \in 1..n : order[p] \in Terms
      /\ \A t \in Terms : \E p \in 1..n : order[p] = t
  BY <1>1, Standing
<1>3. /\ n \in Nat /\ n >= 1 /\ NumDocs \in Nat \ {0} /\ cur_doc \in 0..NumDocs
      /\ results \in Nat /\ results <= Frontier
  BY <1>1, Standing
<1>4. /\ UNCHANGED given /\ pc' = "run" /\ order' = order /\ i' = i /\ score' = score
      /\ cur_doc' = next_doc /\ next_doc' = next_doc /\ docid' = docid /\ asked' = asked
      /\ Count(score)
  BY DEF InsertStep
<1>5. Given' /\ Terms' = Terms /\ Matching' = Matching /\ operator' = operator /\ max_weight' = max_weight
  BY <1>2, <1>4, SameGiven
<1>6. /\ operator = "maxscore" /\ Ranked
      /\ NonEssentialInv
      /\ ne \in 0..n
      /\ cur_doc < next_doc /\ next_doc \in 0..NumDocs
      /\ cur_doc \in Matching
      /\ next_doc < NumDocs => next_doc \in Matching
      /\ score \in Nat
      /\ \A t \in Terms : asked[t] <= next_doc
      /\ \A p \in 1..n : Essential(p) =>
            /\ docid[order[p]] >= next_doc
            /\ \A d \in Docs(order[p]) : d <= cur_doc \/ d >= next_doc
  BY <1>1, CompleteFacts
<1>7. topk' = Insert(topk, score) /\ results' = results + 1
  BY <1>4, <1>6 DEF Count
<1>8. /\ Ascending(topk') /\ Len(topk') <= K
      /\ \A x \in Nat : ~WouldEnter(topk, x) => ~WouldEnter(topk', x)
  BY <1>2, <1>6, <1>7, InsertFacts, EntryAfterInsert
<1>9. \A m \in 0..n :
         First(m) \in SUBSET Terms /\ UpperBound(m) = Weight(First(m)) /\ UpperBound(m) \in Nat
  BY <1>1, UpperBoundFacts
<1> DEFINE bounds == {m \in ne..n : m = n \/ WouldEnter(topk', UpperBound(m + 1))}
<1>10. non_essential' = IF WouldEnter(topk, score) THEN Least(bounds) ELSE ne
  BY DEF InsertStep
<1> HIDE DEF n, ne
<1>11. ne > 0 => ~WouldEnter(topk', UpperBound(ne))
  <2>1. ne > 0 => ~WouldEnter(topk, UpperBound(ne))
    BY <1>6 DEF NonEssentialInv, ne
  <2> QED BY <1>6, <1>8, <1>9, <2>1
<1>12. /\ non_essential' \in ne..n
       /\ non_essential' > 0 => ~WouldEnter(topk', UpperBound(non_essential'))
  <2>1. CASE ~WouldEnter(topk, score)
    <3>1. non_essential' = ne
      BY <1>10, <2>1
    <3> QED BY <1>3, <1>6, <1>11, <3>1
  <2>2. CASE WouldEnter(topk, score)
    <3> DEFINE b == Least(bounds)
    <3>1. bounds \subseteq Nat /\ n \in bounds
      BY <1>3, <1>6
    <3>2. b \in bounds /\ \A m \in bounds : b <= m
      <4> HIDE DEF bounds
      <4> QED BY <3>1, LeastFacts
    <3>3. non_essential' = b
      BY <1>10, <2>2
    <3> HIDE DEF b
    <3>4. b \in ne..n
      BY <3>2
    <3>5. b > 0 => ~WouldEnter(topk', UpperBound(b))
      <4>1. CASE b = ne
        BY <1>11, <4>1
      <4>2. CASE b # ne
        <5>1. b - 1 \in ne..n /\ b - 1 # n /\ ~(b <= b - 1) /\ (b - 1) + 1 = b
          BY <1>3, <1>6, <3>4, <4>2
        <5>2. b - 1 \notin bounds
          BY <3>2, <5>1
        <5>3. ~WouldEnter(topk', UpperBound((b - 1) + 1))
          BY <5>1, <5>2
        <5> QED BY <5>1, <5>3
      <4> QED BY <4>1, <4>2
    <3> QED BY <3>3, <3>4, <3>5
  <2> QED BY <2>1, <2>2
<1> DEFINE One == Done \cup {cur_doc}
<1>13. /\ Done = {d \in Matching : d < cur_doc}
       /\ Done' = {d \in Matching : d < next_doc}
       /\ \A d \in Matching : d \in Nat
  <2>1. Done = {d \in Matching : d < cur_doc}
    BY <1>1, <1>6 DEF Done
  <2>2. Done' = {d \in Matching : d < next_doc}
    BY <1>4, <1>5, <1>6 DEF Done
  <2> QED BY <1>2, <2>1, <2>2, MatchingFacts
<1>14. HasBestOf(topk', One, Scores)
  <2>1. HasBestOf(topk, Done, Scores) /\ IsFiniteSet(Done) /\ cur_doc \notin Done
    <3>1. cur_doc \notin Done
      BY <1>3, <1>13
    <3> QED BY <1>2, <1>6, <3>1, DoneFacts DEF Answered
  <2>2. Scores[cur_doc] = FullScore(cur_doc) /\ Scores[cur_doc] \in Nat
    BY <1>2, <1>6, MatchingFacts, FullScoreFacts
  <2>3. CASE score = FullScore(cur_doc)
    <3>1. HasBestOf(Insert(topk, Scores[cur_doc]), One, Scores)
      BY <2>1, <2>2, BestAndOne
    <3> QED BY <1>7, <2>2, <2>3, <3>1
  <2>4. CASE ~WouldEnter(topk, score) /\ ~WouldEnter(topk, FullScore(cur_doc))
    <3>1. topk' = topk
      BY <1>2, <1>6, <1>7, <2>4, EntryAfterInsert
    <3>2. IsFiniteSet(One) /\ Done \subseteq One
      BY <2>1, FS_AddElement
    <3>3. \A d \in One \ Done : Scores[d] \in Nat /\ ~WouldEnter(topk, Scores[d])
      BY <2>2, <2>4
    <3>4. HasBestOf(topk, One, Scores)
      <4> HIDE DEF One
      <4> QED BY <2>1, <3>2, <3>3, BestOfMore
    <3> QED BY <3>1, <3>4
  <2> QED BY <1>1, <2>3, <2>4, ScoreEnough
<1>15. One \subseteq Done' /\ \A d \in Done' \ One : Scores[d] \in Nat /\ ~WouldEnter(topk', Scores[d])
  <2>1. One \subseteq Done'
    <3>1. \A d \in Matching : d < cur_doc => d < next_doc
      BY <1>3, <1>6, <1>13
    <3> QED BY <1>6, <1>13, <3>1
  <2>2. ASSUME NEW d \in Done' \ One PROVE Scores[d] \in Nat /\ ~WouldEnter(topk', Scores[d])
    <3>1. d \in Matching /\ d \in Nat /\ cur_doc < d /\ d < next_doc
      BY <1>3, <1>6, <1>13
    <3>2. Scores[d] = FullScore(d) /\ FullScore(d) \in Nat
      BY <1>2, <3>1, MatchingFacts, FullScoreFacts
    <3>3. ListsWith(d) \subseteq First(ne)
      <4>1. ASSUME NEW t \in ListsWith(d) PROVE t \in First(ne)
        <5>1. t \in Terms /\ d \in Docs(t)
          BY DEF ListsWith
        <5>2. PICK p \in 1..n : order[p] = t
          BY <1>2, <5>1
        <5>3. ~Essential(p)
          BY <1>3, <1>6, <3>1, <5>1, <5>2
        <5>4. p \in 1..ne
          BY <1>3, <1>6, <5>3 DEF Essential, n, ne
        <5> QED BY <5>2, <5>4 DEF First
      <4> QED BY <4>1
    <3>4. ne > 0
      <4>1. PICK t \in Terms : d \in Docs(t)
        BY <1>6, <3>1 DEF Matching
      <4>2. t \in First(ne)
        BY <3>3, <4>1 DEF ListsWith
      <4> QED BY <1>3, <1>6, <4>2 DEF First
    <3>5. ~WouldEnter(topk', Weight(First(ne))) /\ First(ne) \in SUBSET Terms
      BY <1>6, <1>9, <1>11, <3>4
    <3>6. ~WouldEnter(topk', FullScore(d))
      BY <1>2, <1>8, <3>3, <3>5, WeightEntry
    <3> QED BY <3>2, <3>6
  <2> QED BY <2>1, <2>2
<1>16. HasBestOf(topk', Done', Scores)
  <2>1. IsFiniteSet(Done')
    <3>1. Done' \in SUBSET Matching
      BY <1>13
    <3> QED BY <1>2, <3>1, MatchingFacts, FS_Subset
  <2> HIDE DEF One
  <2> QED BY <1>14, <1>15, <2>1, BestOfMore
<1>17. Counted'
  <2>1. Answered'
    <3>1. Ranked' = Ranked /\ Scores' = Scores
      BY <1>4, SameGiven
    <3> QED BY <1>6, <1>16, <3>1 DEF Answered
  <2>2. Frontier = cur_doc /\ Frontier' = next_doc
    BY <1>4, <1>5, <1>6 DEF Frontier
  <2>3. results' <= Frontier'
    BY <1>3, <1>6, <1>7, <2>2
  <2> QED BY <1>4, <2>1, <2>3 DEF Counted, Answered
<1>18. non_essential' \in 0..n
  BY <1>3, <1>6, <1>12
<1>19. Places'
  <2>1. i \in Nat /\ Terms # {} /\ results' \in Nat
    BY <1>3, <1>1, <1>2, <1>7 DEF Places
  <2>2. order \in Seq(Terms) /\ order \in SetToSeqs(Terms)
    BY <1>1, Standing
  <2> QED BY <1>4, <1>5, <1>6, <1>18, <2>1, <2>2 DEF Places, n
<1>20. MaxscoreRunInv'
  <2>1. NonEssentialInv'
    BY <1>4, <1>5, <1>12 DEF NonEssentialInv, UpperBound
  <2>2. ASSUME NEW p \in 1..n, Essential(p)' PROVE docid[order[p]] >= next_doc
    <3>1. Essential(p)
      BY <1>3, <1>4, <1>6, <1>12, <2>2 DEF Essential, n, ne
    <3> QED BY <1>6, <3>1
  <2> QED BY <1>4, <1>5, <1>6, <2>1, <2>2 DEF MaxscoreRunInv, n
<1>21. CursorsStand'
  <2>1. \A t, d : FirstFrom(t, d)' = FirstFrom(t, d)
    BY <1>4, SameGiven
  <2> QED BY <1>2, <1>4, <1>5, <2>1 DEF CursorsStand
<1>22. AndInv' /\ OrInv' /\ WandInv' /\ MaxscoreCompleteInv'
  BY <1>4, <1>5, <1>6 DEF AndInv, OrInv, WandInv, MaxscoreCompleteInv
<1>23. Onward
  BY <1>2, <1>4, AskedSame
<1> QED BY <1>5, <1>17, <1>19, <1>20, <1>21, <1>22, <1>23 DEF Inv

-----------------------------------------------------------------------------
(* The end.                                                                *)

(***************************************************************************)
(* A loop ends when no document is left that could enter.                  *)
(***************************************************************************)
LEMMA NoneLeft ==
    ASSUME Inv, Finish, NEW d \in Matching, d \notin Done
    PROVE  Ranked /\ ~WouldEnter(topk, FullScore(d))
<1> DEFINE n == Len(order)
<1>1. pc = "run"
  BY DEF Finish
<1>2. /\ Given /\ CursorsStand
      /\ Ascending(topk) /\ Len(topk) <= K
      /\ \A p \in 1..n : order[p] \in Terms
      /\ \A t \in Terms : \E p \in 1..n : order[p] = t
  BY <1>1, Standing
<1>3. n \in Nat /\ n >= 1 /\ NumDocs \in Nat \ {0} /\ cur_doc \in 0..NumDocs
  BY <1>1, Standing
<1>4. d \in 0..(NumDocs - 1)
  BY <1>2, MatchingFacts
<1>5. \A m \in 0..n : First(m) \in SUBSET Terms /\ UpperBound(m) = Weight(First(m))
  BY <1>1, UpperBoundFacts
<1>6. operator # "wand" => cur_doc < NumDocs
  <2>1. operator # "wand" => Done = {e \in Matching : e < cur_doc}
    BY <1>1 DEF Done
  <2>2. operator # "wand" => ~(d < cur_doc)
    BY <2>1
  <2> QED BY <1>3, <1>4, <2>2
<1> HIDE DEF n
<1>7. operator = "wand" \/ operator = "maxscore"
  <2>1. operator \in {"and", "or", "ranked_and", "ranked_or", "wand", "maxscore"}
    BY <1>2, OperatorsAssumption DEF Given
  <2>2. operator # "wand" /\ operator # "maxscore" => cur_doc >= NumDocs
    BY DEF Finish, Maxscore
  <2> QED BY <1>3, <1>6, <2>1, <2>2
<1>8. Ranked
  BY <1>7 DEF Ranked
<1>9. CASE operator = "maxscore"
  <2>1. non_essential = n
    <3>1. non_essential = n \/ cur_doc >= NumDocs
      BY <1>9 DEF Finish, Maxscore, n
    <3> QED BY <1>3, <1>6, <1>9, <3>1
  <2>2. ~WouldEnter(topk, UpperBound(n))
    <3>1. NonEssentialInv
      BY <1>1, <1>9 DEF Inv, MaxscoreRunInv
    <3> QED BY <1>3, <2>1, <3>1 DEF NonEssentialInv
  <2>3. n \in 0..n /\ n \in Nat
    BY <1>3
  <2>4. ListsWith(d) \subseteq First(n)
    BY <1>2 DEF ListsWith, First
  <2>5. ~WouldEnter(topk, Weight(First(n))) /\ First(n) \in SUBSET Terms
    BY <1>5, <2>2, <2>3
  <2> QED BY <1>2, <1>8, <2>4, <2>5, WeightEntry
<1>10. CASE operator = "wand"
  <2>1. /\ \A p, r \in 1..n : p <= r => docid[order[p]] <= docid[order[r]]
        /\ \A p \in 1..n : docid[order[p]] \in 0..NumDocs
        /\ \A e \in Nat : ~Passed(e) => ListsWith(e) \subseteq UpTo(e)
        /\ Done = {e \in Matching : Passed(e)}
    BY <1>1, <1>10, WandFacts DEF n
  <2>2. d \in Nat /\ ListsWith(d) \subseteq UpTo(d)
    BY <1>3, <1>4, <2>1
  <2> DEFINE P == {p \in 1..n : docid[order[p]] <= d}
  <2>3. PICK m \in 0..n : P = 1..m
    <3>1. P \in SUBSET (1..n)
      OBVIOUS
    <3>2. \A p \in P : \A r \in 1..n : r <= p => r \in P
      <4>1. ASSUME NEW p \in P, NEW r \in 1..n, r <= p PROVE docid[order[r]] <= d
        <5>1. /\ docid[order[r]] <= docid[order[p]] /\ docid[order[p]] <= d
              /\ docid[order[r]] \in 0..NumDocs /\ docid[order[p]] \in 0..NumDocs
          BY <2>1, <4>1
        <5> QED BY <1>3, <2>2, <5>1
      <4> QED BY <4>1
    <3> HIDE DEF P
    <3> QED BY <1>3, <3>1, <3>2, Prefix
  <2>4. UpTo(d) = First(m)
    <3>1. \A t \in UpTo(d) : t \in Terms /\ docid[t] <= d
      BY DEF UpTo
    <3>2. \A t \in UpTo(d) : \E p \in P : order[p] = t
      BY <1>2, <3>1
    <3>3. \A p \in P : order[p] \in UpTo(d)
      BY <1>2 DEF UpTo
    <3> HIDE DEF P
    <3> QED BY <2>3, <3>2, <3>3 DEF First
  <2>5. m \in 1..n
    <3>1. ListsWith(d) # {}
      <4>1. \E t \in Terms : d \in Docs(t)
        BY <1>10 DEF Matching
      <4> QED BY <4>1 DEF ListsWith
    <3>2. m # 0
      BY <2>2, <2>4, <3>1 DEF First
    <3> QED BY <1>3, <3>2
  <2>6. \A q \in 1..m : docid[order[q]] # NumDocs
    <3>1. \A q \in 1..m : q \in 1..n /\ docid[order[q]] <= d
      BY <2>3
    <3>2. \A q \in 1..m : docid[order[q]] \in 0..NumDocs
      BY <2>1, <3>1
    <3> QED BY <1>3, <1>4, <3>1, <3>2
  <2>7. ~WouldEnter(topk, UpperBound(m))
    <3>1. Pivots = {}
      BY <1>10 DEF Finish, Maxscore
    <3>2. m \in 1..Len(order) /\ m \notin Pivots
      BY <2>5, <3>1 DEF n
    <3> HIDE DEF P
    <3> QED BY <2>6, <3>2 DEF Pivots
  <2>8. First(m) \in SUBSET Terms /\ ~WouldEnter(topk, Weight(First(m)))
    BY <1>5, <2>7
  <2> QED BY <1>2, <1>8, <2>2, <2>4, <2>8, WeightEntry
<1> QED BY <1>7, <1>9, <1>10

(***************************************************************************)
(* The loop ends.                                                          *)
(***************************************************************************)
LEMMA FinishInv ==
    ASSUME Inv, Finish
    PROVE  Inv' /\ Onward
<1>1. /\ pc = "run" /\ pc' = "done" /\ UNCHANGED given
      /\ docid' = docid /\ asked' = asked /\ order' = order /\ cur_doc' = cur_doc
      /\ next_doc' = next_doc /\ i' = i /\ score' = score /\ non_essential' = non_essential
      /\ results' = results /\ topk' = topk
  BY DEF Finish
<1>2. /\ Given /\ CursorsStand /\ Places /\ Counted /\ Answered
      /\ \A p \in 1..Len(order) : order[p] \in Terms
      /\ Len(order) \in Nat /\ Len(order) >= 1 /\ NumDocs \in Nat \ {0}
      /\ cur_doc \in 0..NumDocs /\ results \in Nat /\ results <= Frontier
  BY <1>1, Standing
<1>3. Given' /\ Terms' = Terms /\ Matching' = Matching /\ operator' = operator
  BY <1>1, <1>2, SameGiven
<1>4. CursorsStand'
  <2>1. \A t, d : FirstFrom(t, d)' = FirstFrom(t, d)
    BY <1>1, SameGiven
  <2> QED BY <1>1, <1>2, <1>3, <2>1 DEF CursorsStand
<1>5. Places'
  BY <1>1, <1>2, <1>3 DEF Places
<1>6. Counted'
  <2>1. Done' = Matching
    BY <1>1, <1>3 DEF Done
  <2>2. Done \in SUBSET Matching
    BY <1>2, DoneFacts
  <2>3. Ranked => \A d \in Done' \ Done : ~WouldEnter(topk, FullScore(d))
    BY <2>1, NoneLeft
  <2>4. ~Ranked => Done' = Done
    BY <2>1, <2>2, NoneLeft
  <2>5. Answered'
    BY <1>1, <1>2, <2>1, <2>2, <2>3, <2>4, CountNone
  <2>6. results' <= NumDocs
    <3>1. Frontier \in 0..NumDocs
      <4>1. order[1] \in Terms
        BY <1>2
      <4>2. docid[order[1]] \in 0..NumDocs
        BY <1>2, <4>1, CursorFacts
      <4> QED BY <1>2, <4>2 DEF Frontier
    <3> QED BY <1>1, <1>2, <3>1
  <2> QED BY <1>1, <2>5, <2>6 DEF Counted, Answered
<1>7. AndInv' /\ OrInv' /\ WandInv' /\ MaxscoreRunInv' /\ MaxscoreCompleteInv'
  BY <1>1 DEF AndInv, OrInv, WandInv, MaxscoreRunInv, MaxscoreCompleteInv
<1>8. Onward
  BY <1>1, <1>2, AskedSame
<1> QED BY <1>3, <1>4, <1>5, <1>6, <1>7, <1>8 DEF Inv

(***************************************************************************)
(* Nothing changes.                                                        *)
(***************************************************************************)
LEMMA StutterInv ==
    ASSUME Inv, UNCHANGED vars
    PROVE  Inv'
<1>1. /\ UNCHANGED given /\ pc' = pc
      /\ docid' = docid /\ asked' = asked /\ order' = order /\ cur_doc' = cur_doc
      /\ next_doc' = next_doc /\ i' = i /\ score' = score /\ non_essential' = non_essential
      /\ results' = results /\ topk' = topk
  BY DEF vars, given
<1>2. /\ Given /\ CursorsStand /\ Places /\ Counted /\ AndInv /\ OrInv /\ WandInv
      /\ MaxscoreRunInv /\ MaxscoreCompleteInv
  BY DEF Inv
<1>3. /\ Given' /\ Terms' = Terms /\ Matching' = Matching /\ Scores' = Scores /\ Ranked' = Ranked
      /\ index' = index /\ query' = query /\ operator' = operator /\ max_weight' = max_weight
  BY <1>1, <1>2, SameGiven
<1>4. CursorsStand'
  <2>1. \A t, d : FirstFrom(t, d)' = FirstFrom(t, d)
    BY <1>1, SameGiven
  <2> QED BY <1>1, <1>2, <1>3, <2>1 DEF CursorsStand
<1>5. Places'
  BY <1>1, <1>2, <1>3 DEF Places
<1>6. \A d : Passed(d)' <=> Passed(d)
  BY <1>1, <1>3 DEF Passed, Docs
<1>7. Counted'
  <2>1. Done' = Done
    BY <1>1, <1>3, <1>6 DEF Done
  <2>2. Frontier' = Frontier
    BY <1>1, <1>3 DEF Frontier
  <2> QED BY <1>1, <1>2, <1>3, <2>1, <2>2 DEF Counted
<1>8. AndInv' /\ OrInv'
  BY <1>1, <1>2, <1>3 DEF AndInv, OrInv
<1>9. WandInv'
  <2>1. \A d : UpTo(d)' = UpTo(d) /\ Weight(UpTo(d))' = Weight(UpTo(d))
    BY <1>1, <1>3 DEF UpTo, Weight
  <2>2. WandSorted' <=> WandSorted
    BY <1>1, <1>3 DEF WandSorted
  <2> QED BY <1>1, <1>2, <1>3, <1>6, <2>1, <2>2 DEF WandInv
<1>10. NonEssentialInv' <=> NonEssentialInv
  BY <1>1, <1>3 DEF NonEssentialInv, UpperBound
<1>11. \A p : Essential(p)' <=> Essential(p)
  BY <1>1 DEF Essential
<1>12. MaxscoreRunInv'
  BY <1>1, <1>2, <1>3, <1>10, <1>11 DEF MaxscoreRunInv
<1>13. MaxscoreCompleteInv'
  BY <1>1, <1>2, <1>3, <1>10, <1>11 DEF MaxscoreCompleteInv, Having, Docs, TermScore, TermFreq
<1> QED BY <1>3, <1>4, <1>5, <1>7, <1>8, <1>9, <1>12, <1>13 DEF Inv

-----------------------------------------------------------------------------
(* The theorems.                                                           *)

(***************************************************************************)
(* Every step preserves the invariant.                                     *)
(***************************************************************************)
LEMMA StepInv ==
    ASSUME Inv, Next
    PROVE  Inv' /\ (Onward \/ UNCHANGED vars)
<1>1. CASE Start
  BY <1>1, StartInv
<1>2. CASE AndAdvance
  BY <1>2, AndAdvanceInv
<1>3. CASE AndMatch
  BY <1>3, AndMatchInv
<1>4. CASE OrStep
  BY <1>4, OrStepInv
<1>5. CASE WandMatch
  BY <1>5, WandMatchInv
<1>6. CASE WandAdvance
  BY <1>6, WandAdvanceInv
<1>7. CASE EssentialStep
  BY <1>7, EssentialStepInv
<1>8. CASE CompleteStep
  BY <1>8, CompleteStepInv
<1>9. CASE InsertStep
  BY <1>9, InsertStepInv
<1>10. CASE Finish
  BY <1>10, FinishInv
<1>11. CASE Terminated
  BY <1>11, StutterInv DEF Terminated
<1> QED BY <1>1, <1>2, <1>3, <1>4, <1>5, <1>6, <1>7, <1>8, <1>9, <1>10, <1>11
        DEF Next, Step

(***************************************************************************)
(* The inductive invariant.                                                *)
(***************************************************************************)
THEOREM InvHolds == Spec => []Inv
<1>1. Inv /\ [Next]_vars => Inv'
  BY StepInv, StutterInv
<1> QED BY <1>1, InitInv, PTL DEF Spec

(***************************************************************************)
(* Every variable is what its declaration says it is; no more documents    *)
(* are counted than there are, and no more scores kept than k.             *)
(***************************************************************************)
THEOREM TypeOKHolds == Spec => []TypeOK
<1>1. Inv => TypeOK
  <2> SUFFICES ASSUME Inv PROVE TypeOK
    OBVIOUS
  <2>1. Given /\ CursorsStand /\ Places /\ Counted /\ Answered /\ NumDocs \in Nat \ {0}
    BY NumDocsAssumption DEF Inv, Counted, Answered
  <2>2. docid \in [Terms -> 0..NumDocs] /\ asked \in [Terms -> 0..NumDocs]
    BY <2>1 DEF CursorsStand
  <2>3. /\ pc \in {"start", "run", "complete", "done"} /\ cur_doc \in 0..NumDocs
        /\ non_essential \in 0..Len(order) /\ results \in Nat
        /\ pc # "start" => order \in SetToSeqs(Terms)
    BY <2>1 DEF Places
  <2>4. pc # "start" => Len(order) = Cardinality(Terms) /\ Terms = {order[p] : p \in 1..Len(order)}
    BY <2>1, <2>3, OrderFacts
  <2>5. results \in 0..NumDocs
    <3>1. CASE pc \in {"run", "complete"}
      <4>1. order[1] \in Terms /\ results <= Frontier
        BY <3>1, Standing
      <4>2. docid[order[1]] \in 0..NumDocs
        BY <2>2, <4>1
      <4>3. Frontier \in 0..NumDocs
        BY <2>3, <4>2 DEF Frontier
      <4> QED BY <2>1, <2>3, <4>1, <4>3
    <3>2. CASE pc \in {"start", "done"}
      BY <2>1, <2>3, <3>2 DEF Counted
    <3> QED BY <2>3, <3>1, <3>2
  <2>6. Len(topk) <= K
    BY <2>1, QueueFacts
  <2> QED BY <2>2, <2>3, <2>4, <2>5, <2>6 DEF TypeOK
<1> QED BY <1>1, InvHolds, PTL

(***************************************************************************)
(* and_query and or_query return the number of documents that have all, or *)
(* any, of the terms.                                                      *)
(***************************************************************************)
THEOREM BooleanCorrectHolds == Spec => []BooleanCorrect
<1>1. Inv => BooleanCorrect
  <2> SUFFICES ASSUME Inv, pc = "done", operator \in {"and", "or"}
               PROVE  results = Cardinality(Matching)
    BY DEF BooleanCorrect
  <2>1. Done = Matching
    BY DEF Done
  <2>2. ~Ranked
    BY DEF Ranked
  <2> QED BY <2>1, <2>2 DEF Inv, Counted
<1> QED BY <1>1, InvHolds, PTL

(***************************************************************************)
(* The ranked operators, of which wand_query and maxscore_query leave      *)
(* documents and lists out, find the scores of the k best documents.       *)
(***************************************************************************)
THEOREM TopkCorrectHolds == Spec => []TopkCorrect
<1>1. Inv => TopkCorrect
  <2> DEFINE Asked == {FullScore(d) : d \in Matching} \cup {topk[p] : p \in 1..Len(topk)}
             all(s) == Cardinality({d \in Matching : FullScore(d) >= s})
             kept(s) == Cardinality({p \in 1..Len(topk) : topk[p] >= s})
  <2> SUFFICES ASSUME Inv, pc = "done", Ranked, NEW s \in Asked
               PROVE  kept(s) = IF all(s) < K THEN all(s) ELSE K
    BY DEF TopkCorrect
  <2>1. Given /\ HasBestOf(topk, Done, Scores)
    BY DEF Inv, Counted
  <2>2. Done = Matching
    BY DEF Done
  <2>3. s \in Nat
    <3>1. \A p \in 1..Len(topk) : topk[p] \in Nat
      <4>1. topk \in Seq(Nat)
        BY <2>1 DEF HasBestOf, Ascending
      <4> QED BY <4>1
    <3>2. \A d \in Matching : FullScore(d) \in Nat
      BY <2>1, FullScoreFacts
    <3> QED BY <3>1, <3>2
  <2> HIDE DEF Asked
  <2>4. Cardinality(Kept(topk, s)) = AtMostK(Cardinality(Scoring(Matching, Scores, s)))
    BY <2>1, <2>2, <2>3 DEF HasBestOf
  <2>5. Scoring(Matching, Scores, s) = {d \in Matching : FullScore(d) >= s}
    BY <2>1, MatchingFacts DEF Scoring
  <2>6. kept(s) = Cardinality(Kept(topk, s))
    BY DEF Kept
  <2>7. kept(s) = AtMostK(all(s))
    BY <2>4, <2>5, <2>6
  <2> HIDE DEF kept, all
  <2> QED BY <2>7 DEF AtMostK
<1> QED BY <1>1, InvHolds, PTL

(***************************************************************************)
(* One list bubbling down at a time keeps wand_query's enumerators sorted. *)
(***************************************************************************)
THEOREM WandSortedHolds == Spec => []WandSorted
<1>1. Inv => WandSorted
  BY DEF Inv, WandInv, WandSorted
<1> QED BY <1>1, InvHolds, PTL

(***************************************************************************)
(* No operator asks an enumerator for a document it has left behind, nor   *)
(* for one beyond the last.                                                *)
(***************************************************************************)
THEOREM RespectsCursorsHolds == Spec => RespectsCursors
<1>1. Inv /\ [Next]_vars => [\A t \in Terms : asked[t] <= asked'[t] /\ asked'[t] <= NumDocs]_vars
  BY StepInv DEF Onward
<1> QED BY <1>1, InvHolds, PTL DEF Spec, RespectsCursors
=============================================================================
