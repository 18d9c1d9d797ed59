------------------------------ MODULE DintBlock ------------------------------
(***************************************************************************)
(* Coding one full block with a dictionary (include/dint/dint_codecs.hpp): *)
(* greedy_dint_single_dict_block::encode, opt_dint_single_dict_block::     *)
(* encode, and dint_block::decode, which reads what either of them wrote.  *)
(* A step is one iteration of the loop of the function that is running.    *)
(*                                                                         *)
(* A codeword of the output is a record: an index, and behind an escape    *)
(* the exception in one 16-bit word (index 0) or in two (index 1).         *)
(***************************************************************************)
EXTENDS DintDictionary

CONSTANTS
    BlockSize,      \* constants::block_size
    Overflow,       \* dint_block::overflow
    TargetSizes,    \* constants::target_sizes: 16, 8, 4, 2, 1
    SmallLimit,     \* 65536: smaller exceptions take one word, others two
    Inputs,         \* blocks a program may encode
    Dictionaries    \* dictionaries it may use

ASSUME BlockSizeAssumption == BlockSize \in Nat \ {0} /\ Overflow \in Nat
ASSUME OverflowAssumption == MaxEntrySize <= Overflow + 1    \* 16 and 256
ASSUME TargetSizesAssumption ==
    /\ TargetSizes \in Seq(1..MaxEntrySize)
    /\ TargetSizes # <<>> /\ TargetSizes[Len(TargetSizes)] = 1
    /\ \A s \in 2..Len(TargetSizes) : TargetSizes[s] < TargetSizes[s - 1]
ASSUME SmallLimitAssumption == SmallLimit \in Nat \ {0}
ASSUME InputsAssumption == Inputs \subseteq [1..BlockSize -> Nat]
ASSUME DictionariesAssumption ==
    \A d \in Dictionaries :
        /\ IsDictionary(d)
        /\ \A t \in 1..Len(d.targets) :
            \E s \in 1..Len(TargetSizes) : Len(d.targets[t]) = TargetSizes[s]

VARIABLES
    in,             \* the block
    dict,           \* the dictionary
    encoder,        \* which encoder is used
    pc,             \* the loop that is running
    pos,            \* how far it has come in the block
    path,           \* of the optimal encoder: the shortest way to each position
    code,           \* the codewords written
    ptr,            \* the codeword that is decoded next
    out             \* the buffer decoded into

vars == <<in, dict, encoder, pc, pos, path, code, ptr, out>>

n == BlockSize

Minimum(a, b) == IF a < b THEN a ELSE b

\* path before the first iteration: a large exception for every integer.
InitialPath == [i \in 0..n |-> IF i = 0 THEN [parent |-> 0, codeword |-> 1, cost |-> 0]
                               ELSE [parent |-> i - 1, codeword |-> 1, cost |-> 3 * i]]

Init ==
    /\ in \in Inputs
    /\ dict \in Dictionaries
    /\ encoder \in {"greedy", "optimal"}
    /\ pc = "encode"
    /\ pos = 0
    /\ path = InitialPath
    /\ code = <<>>
    /\ ptr = 1
    /\ out = [p \in 1..(n + Overflow) |-> 0]

\* longest_run_size: the zeros from position i on, as many as the longest run.
RunSize(i) ==
    LET limit == Minimum(Runs[1], n - i)
    IN  CHOOSE z \in 0..limit :
            /\ \A j \in 1..z : in[i + j] = 0
            /\ z = limit \/ in[i + z + 1] # 0

\* The integers a target of the given size would stand for at position i.
SubBlock(i, size) == SubSeq(in, i + 1, i + Minimum(size, n - i))

SubBlockCode(i, s) == Lookup(dict, SubBlock(i, TargetSizes[s]))

\* Mutant of IsSmall: the exception 65536 is taken to fit into one word.
IsSmall_LimitIncluded(value) == value <= SmallLimit

IsSmall(value) == value < SmallLimit

\* An escape and its exception, of which index 0 keeps one word only.
ExceptionCode(index, value) ==
    [index |-> index, value |-> IF index = 0 THEN value % SmallLimit ELSE value]

Codeword(index) == [index |-> index, value |-> 0]

-----------------------------------------------------------------------------
(* Encoding.                                                               *)

\* Mutant of GreedyRun: a run one zero short of a codeword's is taken for it.
GreedyRun_OneShort(z) ==
    CHOOSE r \in 1..Len(Runs) : Runs[r] <= z + 1 /\ \A q \in 1..(r - 1) : Runs[q] > z + 1

\* The longest run that is there.
GreedyRun(z) ==
    CHOOSE r \in 1..Len(Runs) : Runs[r] <= z /\ \A q \in 1..(r - 1) : Runs[q] > z

GreedyStep ==
    /\ pc = "encode" /\ encoder = "greedy" /\ pos < n
    /\ LET z == RunSize(pos)
           found == {s \in 1..Len(TargetSizes) : SubBlockCode(pos, s) # invalid_index}
           s == CHOOSE f \in found : \A g \in found : f <= g
       IN  IF z >= Runs[Len(Runs)]
           THEN /\ code' = Append(code, Codeword(EXCEPTIONS + GreedyRun(z) - 1))
                /\ pos' = pos + Runs[GreedyRun(z)]
           ELSE IF found # {}
           THEN /\ code' = Append(code, Codeword(SubBlockCode(pos, s)))
                /\ pos' = pos + Minimum(TargetSizes[s], n - pos)
           ELSE /\ code' = Append(code, ExceptionCode(IF IsSmall(in[pos + 1]) THEN 0 ELSE 1,
                                                      in[pos + 1]))
                /\ pos' = pos + 1
    /\ UNCHANGED <<in, dict, encoder, pc, path, ptr, out>>

\* What one iteration of the optimal encoder offers, each a way to go on from
\* position i: all runs that fit, all sub-blocks that are targets, and an
\* exception where the single integer is none.
RunOffers(i) ==
    {[len |-> Runs[r], codeword |-> EXCEPTIONS + r - 1, cost |-> path[i].cost + 1] :
        r \in {q \in 1..Len(Runs) : Runs[q] <= RunSize(i)}}

TargetOffers(i) ==
    {[len |-> Minimum(TargetSizes[s], n - i), codeword |-> SubBlockCode(i, s),
      cost |-> path[i].cost + 1] :
        s \in {f \in 1..Len(TargetSizes) : SubBlockCode(i, f) # invalid_index}}

ExceptionOffers(i) ==
    IF SubBlockCode(i, Len(TargetSizes)) # invalid_index THEN {}
    ELSE IF IsSmall(in[i + 1])
    THEN {[len |-> 1, codeword |-> 0, cost |-> path[i].cost + 2]}
    ELSE {[len |-> 1, codeword |-> 1, cost |-> path[i].cost + 3]}

Offers(i) == RunOffers(i) \cup TargetOffers(i) \cup ExceptionOffers(i)

\* Mutant of Better: an offer has to be cheaper by two.
Better_ByTwo(j) == {o \in Offers(pos) : pos + o.len = j /\ o.cost + 1 < path[j].cost}

\* The offers that end at j and cost less than the way known so far.
Better(j) == {o \in Offers(pos) : pos + o.len = j /\ o.cost < path[j].cost}

\* Whether o is kept when q is offered too: the cheapest one is, and of those
\* that cost the same the first one, for runs come before targets.
Preferred(o, q) == o.cost < q.cost \/ (o.cost = q.cost /\ o.codeword <= q.codeword)

Relaxed ==
    [j \in 0..n |->
        IF Better(j) = {} THEN path[j]
        ELSE LET best == CHOOSE o \in Better(j) : \A q \in Better(j) : Preferred(o, q)
             IN  [parent |-> pos, codeword |-> best.codeword, cost |-> best.cost]]

\* Mutant of RelaxStep: the loop looks at the same position again.
RelaxStep_PosKept ==
    /\ pc = "encode" /\ encoder = "optimal" /\ pos < n
    /\ path' = Relaxed
    /\ UNCHANGED <<in, dict, encoder, pc, pos, code, ptr, out>>

RelaxStep ==
    /\ pc = "encode" /\ encoder = "optimal" /\ pos < n
    /\ path' = Relaxed
    /\ pos' = pos + 1
    /\ UNCHANGED <<in, dict, encoder, pc, code, ptr, out>>

\* Once every position was looked at: the greedy encoder is done, the optimal
\* one follows the path back from the end.
EncodeEnd ==
    /\ pc = "encode" /\ pos = n
    /\ IF encoder = "greedy" THEN pc' = "decode" /\ pos' = 0
                             ELSE pc' = "trace" /\ pos' = n
    /\ UNCHANGED <<in, dict, encoder, path, code, ptr, out>>

\* The codeword of one node of the path; those behind it are written already.
TraceStep ==
    /\ pc = "trace" /\ pos # 0
    /\ LET node == path[pos]
           word == IF node.codeword > 1 THEN Codeword(node.codeword)
                   ELSE ExceptionCode(node.codeword, in[node.parent + 1])
       IN  /\ code' = <<word>> \o code
           /\ pos' = node.parent
    /\ UNCHANGED <<in, dict, encoder, pc, path, ptr, out>>

TraceEnd ==
    /\ pc = "trace" /\ pos = 0
    /\ pc' = "decode"
    /\ UNCHANGED <<in, dict, encoder, pos, path, code, ptr, out>>

-----------------------------------------------------------------------------
(* Decoding.                                                               *)

DecodeStep ==
    /\ pc = "decode" /\ pos # n
    /\ LET word == code[ptr]
       IN  IF word.index > EXCEPTIONS - 1
           THEN /\ out' = Copy(dict, word.index, out, pos + 1)
                /\ pos' = pos + EntrySize(dict, word.index)
           ELSE /\ out' = [out EXCEPT ![pos + 1] = word.value]
                /\ pos' = pos + 1
    /\ ptr' = ptr + 1
    /\ UNCHANGED <<in, dict, encoder, pc, path, code>>

DecodeEnd ==
    /\ pc = "decode" /\ pos = n
    /\ pc' = "done"
    /\ UNCHANGED <<in, dict, encoder, pos, path, code, ptr, out>>

Terminated == pc = "done" /\ UNCHANGED vars

Step == GreedyStep \/ RelaxStep \/ EncodeEnd \/ TraceStep \/ TraceEnd \/ DecodeStep \/ DecodeEnd

Next == Step \/ Terminated

Spec == Init /\ [][Next]_vars /\ WF_vars(Step)

-----------------------------------------------------------------------------
(* Properties.                                                             *)

TypeOK ==
    /\ in \in Inputs /\ dict \in Dictionaries
    /\ pc \in {"encode", "trace", "decode", "done"}
    /\ pos \in 0..n
    /\ \A j \in 1..n : path[j].parent \in 0..(j - 1) /\ path[j].cost \in 0..(3 * j)
    /\ \A c \in 1..Len(code) : code[c].index \in 0..(DictSize(dict) - 1)
    /\ ptr \in 1..(Len(code) + 1)
    /\ DOMAIN out = 1..(n + Overflow)

\* What was encoded is decoded, and all of the code is read for it: the
\* decoder stops where the next part of the posting list begins.
RoundTrip ==
    /\ pc \in {"decode", "done"} => \A p \in 1..pos : out[p] = in[p]
    /\ pc = "done" => ptr = Len(code) + 1

\* copy() writes a full entry's length wherever it is called: never behind the
\* overflow of the buffer, and what it writes behind the entry is gone from
\* where a longer run relies on the zeros the buffer was filled with.
DirtBounded ==
    pc = "decode" =>
        /\ pos < n => pos + MaxEntrySize <= n + Overflow
        /\ \A p \in (pos + MaxEntrySize)..(n + Overflow) : out[p] = 0

\* Every way the optimal encoder keeps to a position it has passed is one
\* codeword that decodes to the integers between, at the cost it states.
Decoded(index, at) ==
    IF index > EXCEPTIONS - 1 THEN Entry(dict, index)
    ELSE <<ExceptionCode(index, in[at + 1]).value>>

Cost(index) == IF index > EXCEPTIONS - 1 THEN 1 ELSE 2 + index

PathSound ==
    encoder = "optimal" =>
        \A j \in 1..(IF pc = "encode" THEN pos ELSE n) :
            LET node == path[j]
            IN  /\ Decoded(node.codeword, node.parent) = SubSeq(in, node.parent + 1, j)
                /\ node.cost = path[node.parent].cost + Cost(node.codeword)

\* The fewest words of a sequence of codewords that decodes to the block b from
\* position i on, by every codeword of d it may begin with; f has them for
\* the positions that follow.
Fits(d, b, i) ==
    {index \in EXCEPTIONS..(DictSize(d) - 1) :
        /\ i + EntrySize(d, index) <= n
        /\ Entry(d, index) = SubSeq(b, i + 1, i + EntrySize(d, index))}

ExceptionCost(value) == IF IsSmall(value) THEN 2 ELSE 3

Ways(d, b, f, i) ==
    {1 + f[i + EntrySize(d, index)] : index \in Fits(d, b, i)}
        \cup {ExceptionCost(b[i + 1]) + f[i + 1]}

Shortest(d, b) ==
    LET best[i \in 0..n] ==
            IF i = n THEN 0
            ELSE CHOOSE w \in Ways(d, b, best, i) : \A v \in Ways(d, b, best, i) : w <= v
    IN  best[0]

OptimalIsShortest ==
    (encoder = "optimal" /\ pc = "trace" /\ pos = n) => path[n].cost = Shortest(dict, in)

\* No sequence of codewords that decodes to the block takes fewer words than
\* the one the optimal encoder finds.
ShortestCode == PathSound /\ OptimalIsShortest

\* Both encoders and the decoder end: the decoder's loop, which ends only when
\* it meets the end of the block exactly, does not pass it.
CodingEnds == <>(pc = "done")
=============================================================================
