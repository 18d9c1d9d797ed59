------------------------------ MODULE DintList ------------------------------
(***************************************************************************)
(* Whole lists coded with one dictionary (src/vroom_env/dint_codecs.hpp):  *)
(* single_greedy_dint and single_opt_dint encode a list of any length, the *)
(* last target of which may be shorter than its size; single_dint::decode  *)
(* reads list after list into one buffer, for decode_dint of decode.cpp,   *)
(* which lets the buffer be as it is, or for check_dint of                 *)
(* check_encoded_data.cpp, which compares it and fills it with zeros.      *)
(*                                                                         *)
(* A codeword of the output is a record: an index, and behind an escape    *)
(* the exception in one 16-bit word (index 0) or in two (index 1).         *)
(***************************************************************************)
EXTENDS DintDictionary

CONSTANTS
    TargetSizes,    \* constants::target_sizes
    SmallLimit,     \* 65536
    Lists,          \* sequences of lists that follow each other in a file
    Longest,        \* constants::max_size: the length of a list at most, and the
                    \* size of the buffer
    Dictionaries

SizesAssumption ==
    TargetSizes \in Seq(1..MaxEntrySize) /\ TargetSizes[Len(TargetSizes)] = 1 /\ SmallLimit \in Nat \ {0}
ListsAssumption ==
    \A l \in Lists : l # <<>> /\ \A k \in DOMAIN l : Len(l[k]) \in 1..Longest /\ l[k] \in Seq(Nat)
DictionariesAssumption == \A d \in Dictionaries : IsDictionary(d)

VARIABLES
    lists, dict,
    coder,          \* "greedy" or "optimal"
    program,        \* "decode" or "check"
    pc,
    k,              \* the list
    pos,            \* how far encoder or decoder has come in it
    path,           \* of single_opt_dint: the shortest way to each position
    out,            \* the codes of the lists
    ptr,            \* the codeword of the list that is read next
    decoded,        \* the buffer
    reach,          \* the last entry that was written, in the buffer or behind it
    errors          \* the lists that check_dint finds wrong

vars == <<lists, dict, coder, program, pc, k, pos, path, out, ptr, decoded, reach, errors>>

in == lists[k]
n == Len(in)

Lesser(a, b) == IF a < b THEN a ELSE b

Greater(a, b) == IF a > b THEN a ELSE b

InitialPath(length) == [i \in 0..length |-> [parent |-> IF i = 0 THEN 0 ELSE i - 1, codeword |-> 1, cost |-> 3 * i]]

Init ==
    /\ lists \in Lists /\ dict \in Dictionaries
    /\ coder \in {"greedy", "optimal"} /\ program \in {"decode", "check"}
    /\ pc = "encode" /\ k = 1 /\ pos = 0 /\ ptr = 1
    /\ path = InitialPath(n)
    /\ out = [j \in DOMAIN lists |-> <<>>]
    /\ decoded = [p \in 1..Longest |-> 0] /\ reach = 0
    /\ errors = {}

-----------------------------------------------------------------------------
(* Encoding.                                                               *)

\* The zeros from position i on, as many as the longest run.
RunSize(i) ==
    LET limit == Lesser(Runs[1], n - i)
    IN  CHOOSE z \in 0..limit : (\A j \in 1..z : in[i + j] = 0) /\ (z = limit \/ in[i + z + 1] # 0)

\* The integers that a target of the s-th size stands for at position i.
LenAt(i, s) == Lesser(TargetSizes[s], n - i)

CodeAt(i, s) == Lookup(dict, SubSeq(in, i + 1, Lesser(i + TargetSizes[s], n)))

Word(index) == [index |-> index, value |-> 0]

\* An escape and its exception.
Exception(x) == [index |-> IF x < SmallLimit THEN 0 ELSE 1, value |-> x]

\* The targets that are at position i.
Found(i) == {s \in DOMAIN TargetSizes : CodeAt(i, s) # invalid_index}

\* An iteration of single_greedy_dint::encode: the longest run, the longest
\* target, or an exception.
GreedyStep ==
    /\ pc = "encode" /\ coder = "greedy" /\ pos < n
    /\ LET s == CHOOSE f \in Found(pos) : \A g \in Found(pos) : f <= g
           r == CHOOSE q \in DOMAIN Runs : Runs[q] <= RunSize(pos) /\ \A p \in 1..(q - 1) : Runs[p] > RunSize(pos)
           put(word, len) == out' = [out EXCEPT ![k] = Append(@, word)] /\ pos' = pos + len
       IN  IF RunSize(pos) >= Runs[Len(Runs)] THEN put(Word(EXCEPTIONS + r - 1), Runs[r])
           ELSE IF Found(pos) # {} THEN put(Word(CodeAt(pos, s)), LenAt(pos, s))
           ELSE put(Exception(in[pos + 1]), 1)
    /\ UNCHANGED <<lists, dict, coder, program, pc, k, path, ptr, decoded, reach, errors>>

\* The ways on from position i: runs, targets and, if the integer is no target,
\* an exception.
Offers(i) ==
    {[len |-> Runs[r], codeword |-> EXCEPTIONS + r - 1, cost |-> 1] : r \in {q \in DOMAIN Runs : Runs[q] <= RunSize(i)}}
    \cup {[len |-> LenAt(i, s), codeword |-> CodeAt(i, s), cost |-> 1] : s \in Found(i)}
    \cup IF Len(TargetSizes) \in Found(i) THEN {}
         ELSE {[len |-> 1, codeword |-> Exception(in[i + 1]).index, cost |-> 2 + Exception(in[i + 1]).index]}

\* An iteration of single_opt_dint::encode; of better offers the first is taken.
OptStep ==
    /\ pc = "encode" /\ coder = "optimal" /\ pos < n
    /\ path' = [j \in 0..n |->
            LET better == {o \in Offers(pos) : pos + o.len = j /\ path[pos].cost + o.cost < path[j].cost}
                best == CHOOSE o \in better : \A q \in better : o.codeword <= q.codeword
            IN  IF better = {} THEN path[j]
                ELSE [parent |-> pos, codeword |-> best.codeword, cost |-> path[pos].cost + best.cost]]
    /\ pos' = pos + 1
    /\ UNCHANGED <<lists, dict, coder, program, pc, k, out, ptr, decoded, reach, errors>>

\* The nodes of the path from the end back to the begin, written the other way
\* round.
PathCode ==
    LET to[j \in 0..n] ==
            IF j = 0 THEN <<>>
            ELSE Append(to[path[j].parent], IF path[j].codeword > 1 THEN Word(path[j].codeword)
                                            ELSE Exception(in[path[j].parent + 1]))
    IN  to[n]

\* The list is encoded; encode_dint goes on to the next, or decoding begins.
EncodeEnd ==
    /\ pc = "encode" /\ pos = n
    /\ out' = IF coder = "optimal" THEN [out EXCEPT ![k] = PathCode] ELSE out
    /\ IF k < Len(lists) THEN k' = k + 1 /\ UNCHANGED pc ELSE k' = 1 /\ pc' = "decode"
    /\ pos' = 0
    /\ path' = IF k < Len(lists) THEN InitialPath(Len(lists[k + 1])) ELSE <<>>
    /\ UNCHANGED <<lists, dict, coder, program, ptr, decoded, reach, errors>>

-----------------------------------------------------------------------------
(* Decoding.                                                               *)

\* An iteration of single_dint::decode.  What copy() writes behind the end of the
\* buffer is not in it: of such writes only `reach' tells.
DecodeStep ==
    /\ pc = "decode" /\ pos # n
    /\ LET word == out[k][ptr]
       IN  IF word.index > EXCEPTIONS - 1
           THEN /\ decoded' = Copy(dict, word.index, decoded, pos + 1)
                /\ pos' = pos + EntrySize(dict, word.index)
                /\ reach' = Greater(reach, pos + MaxEntrySize)
           ELSE /\ decoded' = [decoded EXCEPT ![pos + 1] = word.value]
                /\ pos' = pos + 1
                /\ reach' = Greater(reach, pos + 1)
    /\ ptr' = ptr + 1
    /\ UNCHANGED <<lists, dict, coder, program, pc, k, path, out, errors>>

\* The zeros check_dint fills the buffer with, behind the list as far as copy()
\* may have written, also where the buffer has ended.
Reset == [p \in DOMAIN decoded |-> IF p <= n + MaxEntrySize THEN 0 ELSE decoded[p]]

\* The list is decoded, and compared and reset by check_dint.
ListEnd ==
    /\ pc = "decode" /\ pos = n
    /\ IF program = "check"
       THEN /\ errors' = IF SubSeq(decoded, 1, n) # in THEN errors \cup {k} ELSE errors
            /\ decoded' = Reset /\ reach' = Greater(reach, n + MaxEntrySize)
       ELSE UNCHANGED <<errors, decoded, reach>>
    /\ IF k < Len(lists) THEN k' = k + 1 /\ pos' = 0 /\ ptr' = 1 /\ UNCHANGED pc
       ELSE pc' = "done" /\ UNCHANGED <<k, pos, ptr>>
    /\ UNCHANGED <<lists, dict, coder, program, path, out>>

Next == GreedyStep \/ OptStep \/ EncodeEnd \/ DecodeStep \/ ListEnd

Spec == Init /\ [][Next]_vars

-----------------------------------------------------------------------------
(* Properties.                                                             *)

\* Encoder and decoder end at the end of a list exactly and read no codes but its
\* own.
TypeOK ==
    /\ pc \in {"encode", "decode", "done"} /\ k \in DOMAIN lists /\ pos \in 0..n
    /\ DOMAIN decoded = 1..Longest /\ reach \in Nat
    /\ \A j \in DOMAIN lists : \A c \in DOMAIN out[j] : out[j][c].index \in 0..(DictSize(dict) - 1)
    /\ pc = "decode" => ptr \in 1..(Len(out[k]) + 1)
    /\ pc = "decode" /\ pos = n => ptr = Len(out[k]) + 1

\* Nothing is written more than max_entry_size entries behind a list, so that
\* the buffer is not left by lists that leave as much of it free.  (A list of
\* constants::max_size integers is written behind its end.)
WritesBounded ==
    /\ \E j \in 1..k : reach <= Len(lists[j]) + (IF program = "check" THEN MaxEntrySize ELSE MaxEntrySize - 1)
    /\ (\A j \in 1..k : Len(lists[j]) + MaxEntrySize <= Longest) => reach <= Longest

\* check_dint begins every list with a buffer of zeros.
CleanBetweenLists ==
    (pc = "decode" /\ pos = 0 /\ program = "check") => \A p \in DOMAIN decoded : decoded[p] = 0

\* It finds no list wrong, whatever was decoded before.
NothingWrong == errors = {}

\* No codeword and no exception shortens a way that single_opt_dint found, so
\* that its code is the shortest.
OptimalIsShortest ==
    (pc = "encode" /\ coder = "optimal" /\ pos = n) =>
        \A i \in 0..(n - 1) :
            /\ path[i + 1].cost <= path[i].cost + (IF in[i + 1] < SmallLimit THEN 2 ELSE 3)
            /\ \A index \in EXCEPTIONS..(DictSize(dict) - 1) :
                LET j == i + EntrySize(dict, index)
                IN  j <= n /\ SubSeq(in, i + 1, j) = Entry(dict, index) => path[j].cost <= path[i].cost + 1

\* README.md: `we can decode sequentially all the lists in such file'.
DecodedLists == pc = "decode" /\ pos = n => SubSeq(decoded, 1, n) = in
=============================================================================
