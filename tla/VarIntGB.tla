------------------------------ MODULE VarIntGB ------------------------------
(***************************************************************************)
(* Group varint (varintgb.h) as varintgb_block (block_codecs.hpp) uses it: *)
(* a key with the lengths of four integers, then their bytes.  One thread  *)
(* encodes block after block with its buffer, which it made for the first  *)
(* of them, and decodes each.  A step codes a group.                       *)
(***************************************************************************)
EXTENDS Integers, Sequences, SequencesExt

CONSTANTS
    Base,   \* 256: values of a byte
    Delta,  \* template parameter: code the differences
    Runs    \* what a thread may be given: sequences of blocks

MostBytes == 4
Word == Base ^ MostBytes

BaseAssumption == Base \in Nat /\ Base > 1 /\ Delta \in BOOLEAN
RunsAssumption ==
    \A r \in Runs : \A b \in DOMAIN r : r[b] # <<>> /\ \A k \in DOMAIN r[b] : r[b][k] \in 0..(Word - 1)

VARIABLES
    blocks,     \* the blocks still to code, the current one first
    pc,
    first,      \* integers of the thread's first block, 0 before it is encoded
    size,       \* bytes of the thread's buffer, 0 before it is made
    k,          \* integers coded
    prev,       \* the last one, for differences
    buf,        \* the bytes written
    at,         \* how many of them are read
    out         \* the integers decoded

vars == <<blocks, pc, first, size, k, prev, buf, at, out>>

in == Head(blocks)
n == Len(in)

Init ==
    /\ blocks \in Runs
    /\ pc = "begin" /\ first = 0 /\ size = 0 /\ k = 0 /\ prev = 0
    /\ buf = <<>> /\ at = 0 /\ out = <<>>

\* Mutant of BeginEncode: the buffer is made for one byte an integer.
BeginEncode_Bytes ==
    /\ pc = "begin" /\ blocks # <<>>
    /\ size' = IF size = 0 THEN 2 * n ELSE size
    /\ first' = IF size = 0 THEN n ELSE first
    /\ pc' = "encode"
    /\ UNCHANGED <<blocks, k, prev, buf, at, out>>

\* varintgb_block::encode up to the coding: the buffer lives as long as the
\* thread and gets the size that this block needs if it is the first.
BeginEncode ==
    /\ pc = "begin" /\ blocks # <<>>
    /\ size' = IF size = 0 THEN 2 * n * MostBytes ELSE size
    /\ first' = IF size = 0 THEN n ELSE first
    /\ pc' = "encode"
    /\ UNCHANGED <<blocks, k, prev, buf, at, out>>

\* The value coded for the i-th integer.
ValueOf(i) == IF Delta THEN (in[i] - (IF i = k + 1 THEN prev ELSE in[i - 1])) % Word ELSE in[i]

NumBytes(v) == CHOOSE b \in 1..MostBytes : v < Base ^ b /\ \A a \in 1..(b - 1) : v >= Base ^ a

\* A key and the bytes of `count' integers.
Group(count) ==
    LET len(i) == NumBytes(ValueOf(k + i))
    IN  <<FoldLeftDomain(LAMBDA key, i : key + ((len(i) - 1) * 4 ^ (i - 1)), 0, [i \in 1..count |-> i])>>
        \o FlattenSeq([i \in 1..count |->
              [j \in 1..len(i) |-> (ValueOf(k + i) \div Base ^ (j - 1)) % Base]])

\* How many integers there are of one group: four, and in the end what is left.
Count(coded) == IF coded + 3 < n THEN 4 ELSE n - coded

\* Bytes that are written behind the end of the buffer stay there, or become
\* anything before they are copied from there.
EncodeGroup ==
    /\ pc = "encode" /\ k < n
    /\ LET written == buf \o Group(Count(k))
       IN  \/ buf' = written
           \/ /\ Len(written) > size
              /\ \E junk \in 0..(Base - 1) : buf' = [i \in DOMAIN written |-> IF i > size THEN junk ELSE written[i]]
    /\ k' = k + Count(k)
    /\ prev' = IF Delta THEN in[k'] ELSE prev
    /\ UNCHANGED <<blocks, pc, first, size, at, out>>

BeginDecode ==
    /\ pc = "encode" /\ k = n
    /\ pc' = "decode" /\ k' = 0 /\ prev' = 0 /\ at' = 0 /\ out' = <<>>
    /\ UNCHANGED <<blocks, first, size, buf>>

\* The length of a group's i-th integer.
LengthIn(key, i) == ((key \div 4 ^ (i - 1)) % 4) + 1

\* Where the i-th integer of a group is that begins behind `at'.
Start(key, i) == at + 1 + FoldLeft(LAMBDA a, b : a + b, 0, [j \in 1..(i - 1) |-> LengthIn(key, j)])

ByteAt(i) == IF i <= Len(buf) THEN buf[i] ELSE 0

\* Its value: of the bytes of a word those that the mask leaves, or the bytes
\* one by one; in a group without key bits one byte each.
ValueAt(key, i) ==
    FoldLeftDomain(LAMBDA v, j : v + (ByteAt(Start(key, i) + j) * Base ^ (j - 1)), 0,
                   [j \in 1..LengthIn(key, i) |-> j])

\* The integers that values stand for.
Summed(values) ==
    [i \in DOMAIN values |->
        IF Delta THEN FoldLeft(LAMBDA a, b : (a + b) % Word, prev, SubSeq(values, 1, i)) ELSE values[i]]

DecodeGroup ==
    /\ pc = "decode" /\ k < n
    /\ LET key == ByteAt(at + 1)
       IN  /\ out' = out \o Summed([i \in 1..Count(k) |-> ValueAt(key, i)])
           /\ at' = Start(key, Count(k) + 1)
    /\ k' = k + Count(k)
    /\ prev' = IF Delta THEN Last(out') ELSE prev
    /\ UNCHANGED <<blocks, pc, first, size, buf>>

EndDecode ==
    /\ pc = "decode" /\ k = n
    /\ pc' = "decoded"
    /\ UNCHANGED <<blocks, first, size, k, prev, buf, at, out>>

\* The thread's next block.
NextBlock ==
    /\ pc = "decoded"
    /\ blocks' = Tail(blocks) /\ pc' = "begin"
    /\ k' = 0 /\ prev' = 0 /\ buf' = <<>> /\ at' = 0 /\ out' = <<>>
    /\ UNCHANGED <<first, size>>

Next == BeginEncode \/ EncodeGroup \/ BeginDecode \/ DecodeGroup \/ EndDecode \/ NextBlock

Spec == Init /\ [][Next]_vars

-----------------------------------------------------------------------------
(* Properties.                                                             *)

\* What the variables range over; a key has two bits for each integer.
TypeOK ==
    /\ pc \in {"begin", "encode", "decode", "decoded"}
    /\ size \in Nat /\ first \in Nat /\ k \in Nat
    /\ at \in Nat /\ (Len(buf) <= size => at <= Len(buf))
    /\ \A i \in DOMAIN buf : buf[i] \in 0..255
    /\ \A i \in DOMAIN out : out[i] \in 0..(Word - 1)

\* The bytes that so many integers take at most: a key for four, and four each.
Room(count) == (count + 3) \div 4 + count * MostBytes

\* The buffer is made for the thread's first block, with twice the bytes of its
\* integers: a block that could be written there stays in it, in particular any
\* with at most as many integers as the first.  (A longer one may not, and what is
\* behind the buffer is written then.)
BufferHolds == (pc # "begin" /\ Room(n) <= 2 * first * MostBytes) => Len(buf) <= size

\* Each block that stays in the buffer decodes to what it was, from all its bytes
\* (test_block_codecs.cpp 28 and 29 ask it of every block codec it is given).
RoundTrip == (pc = "decoded" /\ Len(buf) <= size) => out = in /\ at = Len(buf)
=============================================================================
