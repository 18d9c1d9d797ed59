------------------------- MODULE InterpolativeBlock -------------------------
(***************************************************************************)
(* Interpolative coding of a block (interpolative_coding.hpp, and          *)
(* interpolative_block in block_codecs.hpp), bit by bit: the middle sum    *)
(* first, then each half between the bounds it gives.  A step is one call  *)
(* of write_interpolative or read_interpolative.                           *)
(*                                                                         *)
(* The sum of a block, where its caller does not know it, is coded by      *)
(* TightVariableByte (block_codecs.hpp): as few bytes as it needs, seven   *)
(* bits each, the low ones first; the last has its high bit set.           *)
(***************************************************************************)
EXTENDS Naturals, Sequences, SequencesExt

CONSTANTS
    PayloadBits,    \* 7: bits of an integer in a byte of TightVariableByte
    MostBytes,      \* 5, enough for a word
    WordBytes,      \* 4: bytes of a word
    Inputs,         \* blocks: sequences of integers
    Before,         \* bytes there may be in front of a block ...
    After           \* ... and behind it

TightVariableByteAssumption == PayloadBits \in Nat \ {0} /\ MostBytes \in Nat \ {0}
WordBytesAssumption == WordBytes \in Nat \ {0}

Payload == 2 ^ PayloadBits

Byte == 0..(2 * Payload - 1)

InputsAssumption == \A b \in Inputs : b \in Seq(Nat) /\ b # <<>>
BytesAssumption == Before \cup After \subseteq Seq(Byte)

ByteBits == PayloadBits + 1
WordBits == ByteBits * WordBytes

-----------------------------------------------------------------------------
(* TightVariableByte.                                                      *)

\* How many bytes a value is given.
Length(val) == CHOOSE k \in 1..MostBytes : /\ k = MostBytes \/ val < Payload ^ k
                                           /\ \A j \in 1..(k - 1) : val >= Payload ^ j

\* The bytes of one value.
EncodeSingle(val) ==
    LET k == Length(val)
    IN  [i \in 1..k |-> ((val \div Payload ^ (i - 1)) % Payload) + (IF i = k THEN Payload ELSE 0)]

\* The value whose first byte is bytes[at], and where the next one begins.
DecodeSingle(bytes, at) ==
    LET last == CHOOSE e \in at..Len(bytes) :
                    bytes[e] >= Payload /\ \A j \in at..(e - 1) : bytes[j] < Payload
    IN  [value |-> FoldLeftDomain(LAMBDA sum, i : sum + ((bytes[at + i - 1] % Payload) * Payload ^ (i - 1)),
                                  0, SubSeq(bytes, at, last)),
         next |-> last + 1]

-----------------------------------------------------------------------------

VARIABLES
    in,             \* the integers
    given,          \* sum_of_values is given, else it is uint32_t(-1)
    pc,
    calls,          \* the calls still to run, the next one first
    m_words, m_size,                \* bit_writer: m_buf and m_size
    encoded, begin, end,            \* the bytes, and where in them the block is
    m_in, m_avail, m_buf, m_pos,    \* bit_reader, m_in as the index of a byte
    out, ret                        \* what decode writes and returns

vars == <<in, given, pc, calls, m_words, m_size, encoded, begin, end, m_in, m_avail, m_buf, m_pos, out, ret>>

writer == <<m_words, m_size>>
reader == <<m_in, m_avail, m_buf, m_pos>>

n == Len(in)

CeilDiv(a, b) == (a + b - 1) \div b

\* inbuf: the sums of the first integers.
Inbuf == [k \in 1..n |-> FoldLeft(LAMBDA a, b : a + b, 0, SubSeq(in, 1, k))]

\* A call for m values, the first of which is the one at index `at'.
Call(at, m, low, high) == [at |-> at, m |-> m, low |-> low, high |-> high]

\* msb: the position of the highest bit that is set.
Msb(x) == CHOOSE b \in 0..WordBits : 2 ^ b <= x /\ x < 2 ^ (b + 1)

Init ==
    /\ in \in Inputs /\ given \in BOOLEAN
    /\ pc = "encode"
    /\ calls = <<>>
    /\ m_words = <<>> /\ m_size = 0
    /\ encoded \in Before /\ begin = Len(encoded) + 1 /\ end = 0
    /\ m_in = 0 /\ m_avail = 0 /\ m_buf = 0 /\ m_pos = 0
    /\ out = [k \in 1..Len(in) |-> 0] /\ ret = 0

-----------------------------------------------------------------------------
(* Writing.                                                                *)

\* bit_writer::write of `len' bits.  The bits above those written are zero, so
\* that or'ing is adding.
Write(w, bits, len) ==
    LET pos == w.size % WordBits
        filled == [w.words EXCEPT ![Len(w.words)] = (@ + bits * 2 ^ pos) % 2 ^ WordBits]
    IN  IF len = 0 THEN w
        ELSE [words |-> IF pos = 0 THEN Append(w.words, bits)
                        ELSE IF len > WordBits - pos
                        THEN Append(filled, bits \div 2 ^ (WordBits - pos))
                        ELSE filled,
              size |-> w.size + len]

\* write_int: the first m values take b bits, the others one more.
WriteInt(w, val, u) ==
    LET b == Msb(u)
        m == 2 ^ (b + 1) - u
    IN  IF val < m THEN Write(w, val, b)
        ELSE Write(Write(w, (val + m) \div 2, b), (val + m) % 2, 1)

BeginEncode ==
    /\ pc = "encode"
    /\ encoded' = IF given THEN encoded ELSE encoded \o EncodeSingle(Inbuf[n])
    /\ calls' = <<Call(1, n - 1, 0, Inbuf[n])>>
    /\ pc' = "write"
    /\ UNCHANGED <<in, given, writer, begin, end, reader, out, ret>>

\* The calls for both halves around the value in the middle.
Halves(c, val) ==
    LET h == c.m \div 2
    IN  <<Call(c.at, h, c.low, val), Call(c.at + h + 1, c.m - h - 1, val, c.high)>>

\* write_interpolative
WriteCall ==
    /\ pc = "write" /\ calls # <<>>
    /\ LET c == Head(calls)
           val == Inbuf[c.at + c.m \div 2]
           w == WriteInt([words |-> m_words, size |-> m_size], val - c.low, c.high - c.low + 1)
       IN  IF c.m = 0 THEN calls' = Tail(calls) /\ UNCHANGED writer
           ELSE /\ calls' = Halves(c, val) \o Tail(calls)
                /\ m_words' = w.words /\ m_size' = w.size
    /\ UNCHANGED <<in, given, pc, encoded, begin, end, reader, out, ret>>

\* The first bytes of a sequence of words.
BytesOf(words, count) ==
    [i \in 1..count |-> (words[(i - 1) \div WordBytes + 1]
                            \div 2 ^ (ByteBits * ((i - 1) % WordBytes))) % 2 ^ ByteBits]

EndEncode ==
    /\ pc = "write" /\ calls = <<>>
    /\ LET block == encoded \o BytesOf(m_words, CeilDiv(m_size, ByteBits))
       IN  \E after \in After : encoded' = block \o after /\ end' = Len(block) + 1
    /\ pc' = "decode"
    /\ UNCHANGED <<in, given, calls, writer, begin, reader, out, ret>>

-----------------------------------------------------------------------------
(* Reading.                                                                *)

ByteAt(i) == IF i <= Len(encoded) THEN encoded[i] ELSE 0

WordAt(i) == FoldLeftDomain(LAMBDA w, k : w + (ByteAt(i + k - 1) * 2 ^ (ByteBits * (k - 1))),
                            0, [k \in 1..WordBytes |-> k])

\* bit_reader::read; val is what it returns.
Read(r, len) ==
    LET more == r.avail < len
        buf == IF more THEN r.buf + WordAt(r.in) * 2 ^ r.avail ELSE r.buf
    IN  IF len = 0 THEN [r EXCEPT !.val = 0]
        ELSE [val |-> buf % 2 ^ len, buf |-> buf \div 2 ^ len,
              in |-> IF more THEN r.in + WordBytes ELSE r.in,
              avail |-> (IF more THEN r.avail + WordBits ELSE r.avail) - len,
              pos |-> r.pos + len]

\* read_int
ReadInt(r, u) ==
    LET b == Msb(u)
        m == 2 ^ (b + 1) - u
        first == Read(r, b)
        second == Read(first, 1)
    IN  IF first.val < m THEN first
        ELSE [second EXCEPT !.val = 2 * first.val + second.val - m]

\* interpolative_block::decode up to the bit_reader.
BeginDecode ==
    /\ pc = "decode"
    /\ LET sum == DecodeSingle(encoded, begin)
           high == IF given THEN Inbuf[n] ELSE sum.value
       IN  /\ m_in' = IF given THEN begin ELSE sum.next
           /\ out' = [out EXCEPT ![n] = high]
           /\ calls' = IF n > 1 THEN <<Call(1, n - 1, 0, high)>> ELSE <<>>
    /\ ret' = m_in'
    /\ pc' = "read"
    /\ UNCHANGED <<in, given, writer, encoded, begin, end, m_avail, m_buf, m_pos>>

\* read_interpolative
ReadCall ==
    /\ pc = "read" /\ calls # <<>>
    /\ LET c == Head(calls)
           r == ReadInt([val |-> 0, in |-> m_in, avail |-> m_avail, buf |-> m_buf, pos |-> m_pos],
                        c.high - c.low + 1)
           val == c.low + r.val
       IN  /\ out' = [out EXCEPT ![c.at + c.m \div 2] = val]
           /\ calls' = SelectSeq(Halves(c, val), LAMBDA half : half.m > 0) \o Tail(calls)
           /\ m_in' = r.in /\ m_avail' = r.avail /\ m_buf' = r.buf /\ m_pos' = r.pos
    /\ UNCHANGED <<in, given, pc, writer, encoded, begin, end, ret>>

\* The rest of decode: back to the integers.
EndDecode ==
    /\ pc = "read" /\ calls = <<>>
    /\ out' = [k \in 1..n |-> IF k = 1 THEN out[1] ELSE out[k] - out[k - 1]]
    /\ ret' = ret + CeilDiv(m_pos, ByteBits)
    /\ pc' = "done"
    /\ UNCHANGED <<in, given, calls, writer, encoded, begin, end, reader>>

Next ==
    \/ BeginEncode \/ WriteCall \/ EndEncode
    \/ BeginDecode \/ ReadCall \/ EndDecode

Spec == Init /\ [][Next]_vars

-----------------------------------------------------------------------------
(* Properties.                                                             *)

\* What the variables range over.
TypeOK ==
    /\ pc \in {"encode", "write", "decode", "read", "done"}
    /\ m_words \in Seq(0..(2 ^ WordBits - 1)) /\ m_size \in Nat
    /\ encoded \in Seq(Byte) /\ begin \in Nat /\ end \in Nat
    /\ m_avail \in 0..(2 * WordBits - 1) /\ m_buf \in 0..(2 ^ m_avail - 1)

\* The assertions of write_interpolative and write_int (interpolative_coding.hpp:
\* 42, 43 and 63): a call's bounds are in order and its value lies between
\* them, equal sums included.
BoundsHold ==
    pc = "write" =>
        \A i \in DOMAIN calls :
            LET c == calls[i]
            IN  c.m > 0 => /\ c.low <= c.high
                           /\ Inbuf[c.at + c.m \div 2] \in c.low..c.high

\* The reader fetches words, which need not be aligned or whole: it goes less
\* than a word beyond the block, however the bits fell into words.
ReadsLittleBeyond == (pc \in {"read", "done"} /\ m_pos > 0) => m_in < end + WordBytes

\* Whatever is in front of a block and behind it, decode gives back its
\* integers and returns where it ends, with the sum given or stored.
RoundTrip == pc = "done" => out = in /\ ret = end
=============================================================================
