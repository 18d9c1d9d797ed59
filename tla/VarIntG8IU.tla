----------------------------- MODULE VarIntG8IU -----------------------------
(***************************************************************************)
(* Varint-G8IU (VarIntG8IU.h, varint_G8IU_block in block_codecs.hpp):      *)
(* groups of a descriptor and eight bytes, in which integers of one to     *)
(* four bytes follow one another; a 0 in the descriptor is an integer's    *)
(* last byte.  A step codes one group.  What a group is not filled with    *)
(* are bytes the buffer held before.                                       *)
(***************************************************************************)
EXTENDS Naturals, Sequences, SequencesExt

CONSTANTS
    Base,       \* 256: values of a byte
    GroupBytes, \* 8
    BlockSize,  \* constants::block_size
    Inputs,     \* blocks a program may encode
    Stale       \* the byte the thread's buffer holds before

GroupAssumption == GroupBytes \in Nat \ {0} /\ GroupBytes % 2 = 0
InputsAssumption == Inputs \subseteq [1..BlockSize -> Nat]
StaleAssumption == Base \in Nat /\ Stale \in 0..(Base - 1)

VARIABLES
    in,         \* the block
    pc,
    src,        \* how many integers are encoded, then: of how many bytes groups are decoded
    code,       \* the groups: a descriptor, a sequence of bits, and bytes
    out_len,    \* bytes written by encode, then integers written by decode
    out         \* the integers, those behind the block included

vars == <<in, pc, src, code, out_len, out>>

n == BlockSize

\* An integer takes one to this many bytes, half a group.
MostBytes == GroupBytes \div 2

\* The integers the output holds before, and what is behind it.
Untouched == n + 1..n + GroupBytes

Init ==
    /\ in \in Inputs
    /\ pc = "encode" /\ src = 0 /\ code = <<>> /\ out_len = 0
    /\ out = [k \in 1..(n + GroupBytes) |-> 0]

\* getNumByteNeeded
NumByteNeeded(val) == CHOOSE b \in 1..MostBytes :
                        val < Base ^ b /\ \A a \in 1..(b - 1) : val >= Base ^ a

\* The bytes that the next k integers need.
Needed(k) == FoldLeft(LAMBDA a, b : a + b, 0, [i \in 1..k |-> NumByteNeeded(in[src + i])])

\* How many integers the next group takes.
NumInt == CHOOSE k \in 0..(n - src) : /\ Needed(k) <= GroupBytes
                                      /\ k = n - src \/ Needed(k + 1) > GroupBytes

\* The descriptor: a 0 where an integer ends.
Desc == [i \in 1..GroupBytes |-> IF \E k \in 1..NumInt : Needed(k) = i THEN 0 ELSE 1]

GroupData ==
    LET bytes == FlattenSeq([k \in 1..NumInt |->
                    [j \in 1..NumByteNeeded(in[src + k]) |-> (in[src + k] \div Base ^ (j - 1)) % Base]])
    IN  [i \in 1..GroupBytes |-> IF i <= Len(bytes) THEN bytes[i] ELSE Stale]

\* The buffer of encode, 2 * 4 * block_size bytes, and whether a group has room.
BufferBytes == 2 * MostBytes * n
HasRoom == BufferBytes - out_len >= GroupBytes + 1

\* encodeBlock
EncodeBlock ==
    /\ pc = "encode" /\ src < n /\ HasRoom
    /\ code' = Append(code, [desc |-> Desc, data |-> GroupData])
    /\ src' = src + NumInt
    /\ out_len' = out_len + GroupBytes + 1
    /\ UNCHANGED <<in, pc, out>>

BeginDecode ==
    /\ pc = "encode" /\ (src = n \/ ~HasRoom)
    /\ pc' = "decode" /\ src' = 0 /\ out_len' = 0
    /\ UNCHANGED <<in, code, out>>

\* The table of the constructor: where each integer of a descriptor ends.
Ends(desc) == SelectSeq([i \in 1..GroupBytes |-> i], LAMBDA i : desc[i] = 0)

\* No integer of a block: what the output has if it is given anything else.
Anything == Base ^ MostBytes

\* What the shuffles of decodeBlock put in place of `count' integers; for those
\* behind the last one the table has no entries, and they may become anything.
Shuffled(g, count) ==
    LET ends == Ends(g.desc)
        first(k) == IF k = 1 THEN 1 ELSE ends[k - 1] + 1
    IN  [k \in 1..count |->
            IF k > Len(ends) THEN Anything
            ELSE FoldLeftDomain(LAMBDA v, j : v + (g.data[first(k) + j - 1] * Base ^ (j - 1)),
                                0, [j \in 1..(ends[k] - first(k) + 1) |-> j])]

ReadSize(g) == Len(Ends(g.desc))

\* The integers decodeBlock stores, the second half when there are so many.
StoredBy(g) == IF ReadSize(g) > GroupBytes \div 2 THEN GroupBytes ELSE GroupBytes \div 2

Stored(to, at, values) == [k \in DOMAIN to |-> IF k \in at + 1..at + Len(values) THEN values[k - at] ELSE to[k]]

Minimum(a, b) == IF a < b THEN a ELSE b

\* While a whole group's integers have room, they are stored in the output.
Direct == out_len <= n - GroupBytes

Group == code[src + 1]

DecodeDirect ==
    /\ pc = "decode" /\ Direct
    /\ out' = Stored(out, out_len, Shuffled(Group, StoredBy(Group)))
    /\ out_len' = out_len + ReadSize(Group)
    /\ src' = src + 1
    /\ UNCHANGED <<in, pc, code>>

\* The last groups are decoded to a local buffer, of which so many are copied.
DecodeLast ==
    /\ pc = "decode" /\ ~Direct /\ out_len < n
    /\ LET needed == Minimum(ReadSize(Group), n - out_len)
       IN  /\ out' = Stored(out, out_len, Shuffled(Group, needed))
           /\ out_len' = out_len + needed
    /\ src' = src + 1
    /\ UNCHANGED <<in, pc, code>>

EndDecode ==
    /\ pc = "decode" /\ out_len = n
    /\ pc' = "done"
    /\ UNCHANGED <<in, src, code, out_len, out>>

Next == EncodeBlock \/ BeginDecode \/ DecodeDirect \/ DecodeLast \/ EndDecode

Spec == Init /\ [][Next]_vars

-----------------------------------------------------------------------------
(* Properties.                                                             *)

\* What the variables range over; a group is never without an integer.
TypeOK ==
    /\ pc \in {"encode", "decode", "done"}
    /\ src \in 0..n
    /\ \A g \in 1..Len(code) : ReadSize(code[g]) \in 1..GroupBytes
    /\ out \in [1..(n + GroupBytes) -> 0..Anything]

\* encode's loop ends for lack of room only when no integer is left
\* (`assert(srclen == 0)', block_codecs.hpp:285): a buffer of eight bytes for
\* each integer holds the groups of any block.
BufferSuffices == (pc = "encode" /\ ~HasRoom) => src = n

\* The output is one block, without room behind it (overflow is 0): nothing
\* is stored there though every group is stored whole.
NothingBehind == \A k \in Untouched : out[k] = 0

\* The block is decoded from exactly the groups it was encoded in.
RoundTrip == pc = "done" => SubSeq(out, 1, n) = in /\ src = Len(code)
=============================================================================
