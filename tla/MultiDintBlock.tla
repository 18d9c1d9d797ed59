--------------------------- MODULE MultiDintBlock ---------------------------
(***************************************************************************)
(* Coding one full block with several dictionaries that share a table      *)
(* (opt_dint_multi_dict_block of include/dint/dint_codecs.hpp): the block  *)
(* is encoded with every dictionary, in words of two bytes and in single   *)
(* bytes, the smallest code is kept behind a control byte, and the decoder *)
(* takes dictionary and width from it.                                     *)
(*                                                                         *)
(* Bytes are digits to the base Byte; a dictionary is a record of          *)
(* DintDictionary.                                                         *)
(***************************************************************************)
EXTENDS DintDictionary, Functions, SequencesExt

CONSTANTS
    BlockSize,      \* constants::block_size
    Overflow,       \* dint_block::overflow
    TargetSizes,    \* constants::target_sizes
    Byte,           \* 256
    Inputs,         \* blocks a program may encode
    MultiDictionaries   \* sequences of num_selectors dictionaries of one table

\* Numbers below which two bytes are enough, and four.
LargeLimit == Byte * Byte
NoLimit == LargeLimit * LargeLimit

\* The escapes and the runs have codewords of one byte, all others of two.
SizesAssumption ==
    /\ BlockSize \in Nat \ {0} /\ Overflow \in Nat /\ MaxEntrySize <= Overflow + 1
    /\ Byte \in Nat /\ reserved <= Byte
TargetSizesAssumption ==
    TargetSizes \in Seq(1..MaxEntrySize) /\ TargetSizes # <<>> /\ TargetSizes[Len(TargetSizes)] = 1
InputsAssumption == Inputs \subseteq [1..BlockSize -> 0..(NoLimit - 1)]
MultiDictionariesAssumption ==
    \A m \in MultiDictionaries :
        /\ m \in Seq(Range(m)) /\ m # <<>>
        /\ \A s \in 1..Len(m) :
            /\ IsDictionary(m[s]) /\ m[s].table = m[1].table /\ DictSize(m[s]) <= LargeLimit
            /\ \A t \in 1..Len(m[s].targets) :
                \E q \in 1..Len(TargetSizes) : Len(m[s].targets[t]) = TargetSizes[q]

VARIABLES
    in, dicts,
    pc,
    s, b,           \* the dictionary and the width tried: bytes of a codeword
    path,           \* the shortest way found to each position
    encoded,        \* the codes found: encoded[s, b]
    out,            \* the bytes written
    ptr, pos, buf   \* of the decoder

vars == <<in, dicts, pc, s, b, path, encoded, out, ptr, pos, buf>>

n == BlockSize
num_selectors == Len(dicts)

Lesser(x, y) == IF x < y THEN x ELSE y

InitialPath == [j \in 0..n |-> [parent |-> IF j = 0 THEN 0 ELSE j - 1, codeword |-> 1, cost |-> 3 * j]]

Init ==
    /\ in \in Inputs /\ dicts \in MultiDictionaries
    /\ pc = "encode" /\ s = 0 /\ b = 2
    /\ path = InitialPath
    /\ encoded = <<>>
    /\ out = <<>>
    /\ ptr = 0 /\ pos = 0
    /\ buf = [p \in 1..(n + Overflow) |-> 0]

-----------------------------------------------------------------------------
(* Encoding with one dictionary and width.                                 *)

\* Where prepare_for_encoding stops: `reserved' codewords before the end, and
\* at a byte in the narrow map.
MapSize(d, width) == IF width = 2 THEN DictSize(d) - reserved ELSE Lesser(DictSize(d) - reserved, Byte)

\* lookup: the last of the codewords for a sequence in the map of the width.
LookupIn(d, integers, width) ==
    LET hits == {i \in EXCEPTIONS..(DictSize(d) - 1) :
                    /\ IsRun(i) \/ i < MapSize(d, width)
                    /\ Entry(d, i) = integers}
    IN  IF hits = {} THEN invalid_index ELSE CHOOSE i \in hits : \A j \in hits : j <= i

\* The zeros from position i on, as many as the longest run.
RunLen(i) ==
    LET limit == Lesser(Runs[1], n - i)
    IN  CHOOSE z \in 0..limit : (\A j \in 1..z : in[i + j] = 0) /\ (z = limit \/ in[i + z + 1] # 0)

\* The ways on from position i: its runs, its targets, and an exception if the
\* single integer is no target.  The costs are words of two bytes whatever the
\* width.
Offers(d, width, i) ==
    LET code(t) == LookupIn(d, SubSeq(in, i + 1, i + Lesser(TargetSizes[t], n - i)), width)
    IN  {[len |-> Runs[r], codeword |-> EXCEPTIONS + r - 1, cost |-> 1] : r \in {q \in DOMAIN Runs : Runs[q] <= RunLen(i)}}
        \cup {[len |-> Lesser(TargetSizes[t], n - i), codeword |-> code(t), cost |-> 1] :
                 t \in {q \in DOMAIN TargetSizes : code(q) # invalid_index}}
        \cup IF code(Len(TargetSizes)) # invalid_index THEN {}
             ELSE IF in[i + 1] < LargeLimit THEN {[len |-> 1, codeword |-> 0, cost |-> 2]}
             ELSE {[len |-> 1, codeword |-> 1, cost |-> 3]}

\* Mutant of Better: the way known is kept unless two words are saved.
Better_ByTwo(offers, i, j) == {o \in offers : i + o.len = j /\ path[i].cost + o.cost + 1 < path[j].cost}

\* The offers that reach j and are cheaper than the way known so far.
Better(offers, i, j) == {o \in offers : i + o.len = j /\ path[i].cost + o.cost < path[j].cost}

\* One iteration: of better offers the first of those that cost the same; runs
\* come before targets.
RelaxStep ==
    /\ pc = "encode" /\ s < num_selectors /\ pos < n
    /\ LET offers == Offers(dicts[s + 1], b, pos)
       IN  path' = [j \in 0..n |->
                LET better == Better(offers, pos, j)
                    best == CHOOSE o \in better : \A q \in better : o.codeword <= q.codeword
                IN  IF better = {} THEN path[j]
                    ELSE [parent |-> pos, codeword |-> best.codeword, cost |-> path[pos].cost + best.cost]]
    /\ pos' = pos + 1
    /\ UNCHANGED <<in, dicts, pc, s, b, encoded, out, ptr, buf>>

\* What the bytes of a number count for, the lowest first.
Weights == <<1, Byte, LargeLimit, Byte * LargeLimit>>

BytesOf(value, count) == [k \in 1..count |-> (value \div Weights[k]) % Byte]

\* write_index, or an escape and its exception in two or four bytes.
Written(index, value, width) ==
    BytesOf(index, width) \o IF index >= EXCEPTIONS THEN <<>> ELSE BytesOf(value, IF index = 0 THEN 2 ELSE 4)

\* The nodes from the end back to the begin, written the other way round.
Code ==
    LET to[j \in 0..n] ==
            IF j = 0 THEN <<>>
            ELSE to[path[j].parent] \o Written(path[j].codeword, in[path[j].parent + 1], b)
    IN  to[n]

\* The call returns, and the one for the next width or dictionary is made.
EncodeEnd ==
    /\ pc = "encode" /\ s < num_selectors /\ pos = n
    /\ encoded' = [k \in DOMAIN encoded \cup {<<s, b>>} |-> IF k = <<s, b>> THEN Code ELSE encoded[k]]
    /\ IF b = 2 THEN b' = 1 /\ UNCHANGED s ELSE b' = 2 /\ s' = s + 1
    /\ path' = InitialPath /\ pos' = 0
    /\ UNCHANGED <<in, dicts, pc, out, ptr, buf>>

-----------------------------------------------------------------------------
(* The choice.                                                             *)

\* Of the two codes of a dictionary the narrow one is taken, also when they
\* have the same size.
Narrow(id) == Len(encoded[<<id, 1>>]) <= Len(encoded[<<id, 2>>])

Size(id) == Len(encoded[<<id, IF Narrow(id) THEN 1 ELSE 2>>])

\* The first dictionary of the smallest code, and the control byte for it.
WriteBest ==
    /\ pc = "encode" /\ s = num_selectors
    /\ LET ids == 0..(num_selectors - 1)
           best == CHOOSE i \in ids : (\A j \in ids : Size(i) <= Size(j)) /\ (\A j \in 0..(i - 1) : Size(i) < Size(j))
       IN  out' = IF Narrow(best) THEN <<best + num_selectors>> \o encoded[<<best, 1>>]
                  ELSE <<best>> \o encoded[<<best, 2>>]
    /\ pc' = "decode" /\ ptr' = 1
    /\ UNCHANGED <<in, dicts, s, b, path, encoded, pos, buf>>

-----------------------------------------------------------------------------
(* Decoding.                                                               *)

\* Mutant of Number: every exception is read as a small one.
Number_OfTwo(from, count) ==
    out[from + 1] + (IF count > 1 THEN out[from + 2] * Byte ELSE 0)

\* A little-endian number of one, two or four bytes.
Number(from, count) ==
    LET part(k) == IF k <= count THEN out[from + k] * Weights[k] ELSE 0
    IN  part(1) + part(2) + part(3) + part(4)

Width == IF out[1] < num_selectors THEN 2 ELSE 1

Selected == dicts[(out[1] % num_selectors) + 1]

\* One codeword: an entry is copied, or the exception behind an escape read.
DecodeStep ==
    /\ pc = "decode" /\ pos # n
    /\ LET index == Number(ptr, Width)
           bytes == IF index = 1 THEN 4 ELSE 2
       IN  IF index > EXCEPTIONS - 1
           THEN /\ buf' = Copy(Selected, index, buf, pos + 1)
                /\ pos' = pos + EntrySize(Selected, index)
                /\ ptr' = ptr + Width
           ELSE /\ buf' = [buf EXCEPT ![pos + 1] = Number(ptr + Width, bytes)]
                /\ pos' = pos + 1
                /\ ptr' = ptr + Width + bytes
    /\ UNCHANGED <<in, dicts, pc, s, b, path, encoded, out>>

DecodeEnd ==
    /\ pc = "decode" /\ pos = n
    /\ pc' = "done"
    /\ UNCHANGED <<in, dicts, s, b, path, encoded, out, ptr, pos, buf>>

Step == RelaxStep \/ EncodeEnd \/ WriteBest \/ DecodeStep \/ DecodeEnd

Terminated == pc = "done" /\ UNCHANGED vars

Next == Step \/ Terminated

Spec == Init /\ [][Next]_vars /\ WF_vars(Step)

-----------------------------------------------------------------------------
(* Properties.                                                             *)

\* Whatever dictionary and width was chosen, the decoder of that width gets the
\* block back and stops at the end of its bytes, where the next block begins.
RoundTrip ==
    /\ pc # "encode" => \A p \in 1..pos : buf[p] = in[p]
    /\ pc = "done" => ptr = Len(out)

\* Reading never leaves the bytes written, nor copying the buffer and its
\* overflow, and the control byte names a code of this block.
TypeOK ==
    /\ pc \in {"encode", "decode", "done"} /\ pos \in 0..n
    /\ \A k \in DOMAIN encoded : encoded[k] \in Seq(0..(Byte - 1))
    /\ pc # "encode" =>
        /\ out[1] < 2 * num_selectors /\ ptr <= Len(out)
        /\ Tail(out) = encoded[<<out[1] % num_selectors, Width>>]
    /\ pc = "decode" /\ pos < n => pos + MaxEntrySize <= n + Overflow

\* copy() leaves dirt behind a short entry, never where a run needs the zeros
\* the buffer was filled with.
DirtBounded == pc = "decode" => \A p \in (pos + MaxEntrySize)..(n + Overflow) : buf[p] = 0

\* No dictionary and no width would have given a smaller code.
SmallestChosen == pc = "decode" => \A k \in DOMAIN encoded : Len(out) - 1 <= Len(encoded[k])

\* The costs of the wide code are those of its bytes and cannot be improved by
\* any codeword of the map nor by an exception, so that it is the shortest; for
\* the narrow code, counted with the same costs, nothing of the kind holds.
WideIsShortest ==
    (pc = "encode" /\ s < num_selectors /\ pos = n /\ b = 2) =>
        LET d == dicts[s + 1]
        IN  /\ 2 * path[n].cost = Len(Code)
            /\ \A i \in 0..(n - 1) :
                /\ path[i + 1].cost <= path[i].cost + (IF in[i + 1] < LargeLimit THEN 2 ELSE 3)
                /\ \A index \in EXCEPTIONS..(DictSize(d) - 1) :
                    LET j == i + EntrySize(d, index)
                    IN  (IsRun(index) \/ index < MapSize(d, 2)) /\ j <= n /\ SubSeq(in, i + 1, j) = Entry(d, index)
                            => path[j].cost <= path[i].cost + 1

\* The decoder's loop, which ends only at the end of the block exactly, ends.
CodingEnds == <>(pc = "done")
=============================================================================
