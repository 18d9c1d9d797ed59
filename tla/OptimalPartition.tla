--------------------------- MODULE OptimalPartition ---------------------------
(***************************************************************************)
(* optimal_partition: a shortest path over the positions of a sequence, of *)
(* which only some edges are looked at.  There is one window for each      *)
(* power of 1 + eps2 up to a factor 1 / eps1 of the smallest cost; all     *)
(* start at the position the loop is at, and each keeps its end from one   *)
(* position to the next: it only moves on, until the cost of the window    *)
(* reaches its bound.  One step of the model is one window at one start.   *)
(***************************************************************************)
EXTENDS Naturals, Sequences, FiniteSets, FiniteSetsExt, Functions

CONSTANTS
    Inputs,             \* strictly increasing sequences: [values, universe]
    FixCost,            \* conf.fix_cost
    Factor,             \* 1 + eps2, a ratio <<numerator, denominator>>
    Lookahead           \* 1 / eps1, the same

InputsAssumption ==
    \A s \in Inputs :
        LET m == Cardinality(DOMAIN s.values)
        IN  /\ m \in Nat \ {0} /\ DOMAIN s.values = 0 .. m - 1
            /\ \A i \in 1 .. m - 1 : s.values[i - 1] < s.values[i]
            /\ s.values[m - 1] < s.universe
CostsAssumption ==
    /\ FixCost \in Nat
    /\ Factor \in Nat \X (Nat \ {0}) /\ Lookahead \in Nat \X (Nat \ {0})

VARIABLES
    sequence,
    bounds,         \* cost_upper_bound of each window
    ends,           \* its end
    start, window,  \* the start and the index of the window to do next
    lastEnd,        \* last_end
    minCost, path,
    phase           \* "bounds", "loop" or "done"

vars == <<sequence, bounds, ends, start, window, lastEnd, minCost, path, phase>>

size == Cardinality(DOMAIN sequence.values)

\* base_sequence_type::bitsize + fix_cost: a full range takes no bits, another
\* one the smaller of two sizes of the form that IndexedSequence has.
Msb(x) == CHOOSE k \in 0 .. x : 2 ^ k <= x /\ x < 2 ^ (k + 1)
Cost(u, m) ==
    FixCost + IF u = m THEN 0
              ELSE 1 + Min({u, m + u \div 2 ^ Msb(u \div m) + 2 + m * Msb(u \div m)})

\* The first value that a window from i on can hold: min_p.
MinP(i) == IF i = 0 THEN sequence.values[0] ELSE sequence.values[i - 1] + 1
WindowCost(i, j) == Cost(sequence.values[j - 1] - MinP(i) + 1, j - i)

SingleBlockCost == Cost(sequence.universe, size)
CostLb == Cost(1, 1)

Init == /\ sequence \in Inputs
        /\ bounds = <<>> /\ ends = <<>> /\ start = 0 /\ window = 1 /\ lastEnd = 1
        /\ minCost = [j \in 0 .. size |-> IF j = 0 THEN 0 ELSE SingleBlockCost]
        /\ path = [j \in 0 .. size |-> 0]
        /\ phase = "bounds"

MoreWindows_One == bounds = <<>>
MoreWindows == bounds = <<>> \/ bounds[Len(bounds)] < SingleBlockCost

\* One turn of the loop that makes the windows; the bound of the next one is
\* rounded down.
MakeWindow ==
    LET bound == IF bounds = <<>> THEN CostLb
                 ELSE (bounds[Len(bounds)] * Factor[1]) \div Factor[2]
        more == MoreWindows /\ bound * Lookahead[2] < CostLb * Lookahead[1]
    IN /\ phase = "bounds"
       /\ IF more THEN bounds' = Append(bounds, bound) /\ ends' = Append(ends, 0)
                  ELSE UNCHANGED <<bounds, ends>>
       /\ phase' = IF more THEN "bounds" ELSE "loop"
       /\ UNCHANGED <<sequence, start, window, lastEnd, minCost, path>>

\* The ends a window goes through: from where it stood, or the last end of the
\* window before, to the first one that reaches the bound.
FirstEnd == Max({ends[window], lastEnd})
StopEnd == Min({size} \cup {j \in FirstEnd .. size : WindowCost(start, j) >= bounds[window]})

Better(j) == /\ j \in FirstEnd .. StopEnd
             /\ minCost[start] + WindowCost(start, j) < minCost[j]
PathOf_ToItself(j) == IF Better(j) THEN start + 1 ELSE path[j]
PathOf(j) == IF Better(j) THEN start ELSE path[j]
LastEnd == StopEnd

Extend ==
    /\ phase = "loop" /\ window <= Len(bounds)
    /\ minCost' = [j \in 0 .. size |-> IF Better(j) THEN minCost[start] + WindowCost(start, j)
                                      ELSE minCost[j]]
    /\ path' = [j \in 0 .. size |-> PathOf(j)]
    /\ ends' = [ends EXCEPT ![window] = StopEnd]
    /\ lastEnd' = LastEnd
    /\ window' = window + 1
    /\ UNCHANGED <<sequence, bounds, start, phase>>

NextStart ==
    /\ phase = "loop" /\ window > Len(bounds)
    /\ start' = start + 1 /\ window' = 1 /\ lastEnd' = start + 2
    /\ phase' = IF start + 1 = size THEN "done" ELSE "loop"
    /\ UNCHANGED <<sequence, bounds, ends, minCost, path>>

Next == MakeWindow \/ Extend \/ NextStart

Spec == Init /\ [][Next]_vars /\ WF_vars(Next)

-----------------------------------------------------------------------------
(* The partition, read from the path backwards *)

\* The ends of the partition that leads to j: a fold along the path.
PartitionTo ==
    LET to[j \in 0 .. size] == IF j = 0 THEN {} ELSE {j} \cup to[path[j]] IN to
Previous(C, c) == Max({0} \cup {d \in C : d < c})
CostOf(C) == LET cost == [c \in C |-> WindowCost(Previous(C, c), c)] IN FoldFunction(+, 0, cost)

-----------------------------------------------------------------------------
(* Properties *)

\* The path leads back to 0 from every position: the loop that follows it ends,
\* and the last end is the size (the asserts of partitioned_sequence::write).
PathGoesBack == \A j \in 1 .. size : path[j] < j

\* No window ends before it starts, each starts its search where the one before
\* it stopped, and the bounds grow.
WindowsOrdered ==
    /\ \A w \in 2 .. Len(bounds) : bounds[w - 1] < bounds[w]
    /\ phase = "loop" => \A w \in 1 .. window - 1 : start < ends[w] /\ ends[w] <= lastEnd

\* What is written costs no more than cost_opt tells, and cost_opt no more than
\* one block: minCost and path are of the same windows, and the window's
\* universe is the one the partition is written with.
CostIsOfPath ==
    phase = "done" => /\ CostOf(PartitionTo[size]) <= minCost[size]
                      /\ minCost[size] <= SingleBlockCost

\* The windows that are left out cost no more than the two factors: the result
\* is within (1 + eps1) (1 + eps2) of the cheapest of all partitions.
NearOptimal ==
    phase = "done" =>
        \A C \in {D \cup {size} : D \in SUBSET (1 .. size - 1)} :
            minCost[size] * Lookahead[1] * Factor[2]
                <= CostOf(C) * (Lookahead[1] + Lookahead[2]) * Factor[1]

=============================================================================
