-------------------------------- MODULE Qmx --------------------------------
(***************************************************************************)
(* The QMX codec (include/ds2i/qmx_codec.hpp, and include/ds2i/qmx.hpp for  *)
(* any number of integers): integers are packed in stripes of one or two   *)
(* 128-bit words, each of integers of one width; a selector byte says how  *)
(* many stripes of which width follow each other.  The selectors come      *)
(* behind the words, in reverse, and the decoder reads both ends inwards.  *)
(*                                                                         *)
(* Packing is checked for all values at once: an integer is the set of its *)
(* bits, a bit is <<i, b, p>>: bit b of the i-th source integer, now at    *)
(* position p.  Shifts and masks move and drop bits and never add them up. *)
(***************************************************************************)
EXTENDS Integers, Sequences, FiniteSets

CONSTANTS
    Sources,        \* what may be encoded: [length, groups], groups being the bit
                    \* length of the largest of every four integers
    WASTAGE,        \* room behind the lengths
    Overflow        \* qmx_block::overflow: room behind the integers decoded

SourcesAssumption ==
    \A s \in Sources : /\ s.length \in Nat \ {0}
                       /\ DOMAIN s.groups = 0..((s.length - 1) \div 4)
                       /\ \A g \in DOMAIN s.groups : s.groups[g] \in 0..32
\* A run of ones is looked for 256 integers ahead.
WastageAssumption == WASTAGE \in Nat /\ WASTAGE >= 256
RoomAssumption == Overflow \in Nat

VARIABLES
    n,          \* number of source integers
    src,        \* the bit length of each source integer
    pc,         \* the loop that is running
    len_buf,    \* widths of the integers, later the selectors
    cur,        \* where the loop is
    keys,       \* selectors written so far, at the start of len_buf
    words,      \* the 128-bit words written
    in,         \* decoder: bytes read
    key,        \* decoder: selectors read
    to          \* decoder: the integers written

vars == <<n, src, pc, len_buf, cur, keys, words, in, key, to>>

-----------------------------------------------------------------------------
(* Widths, bits and words.                                                 *)

\* The selectable widths in the order of their types, and the integers in a
\* stripe of each.
Widths   == <<0, 1, 2, 3, 4, 5, 6, 7, 8, 9, 10, 12, 16, 21, 32>>
Integers_per_stripe == <<256, 128, 64, 40, 32, 24, 20, 36, 16, 28, 12, 20, 8, 12, 4>>

Type(w) == CHOOSE t \in DOMAIN Widths : Widths[t] = w

PerStripe(w) == Integers_per_stripe[Type(w)]

WordsPerStripe(w) == IF w = 0 THEN 0 ELSE IF w \in {7, 9, 12, 21} THEN 2 ELSE 1

\* The width an integer is promoted to when its stripe does not fill.
Promoted(w) == Widths[Type(w) + 1]

\* bits_needed_for: no bits for the value 1, and one bit for 0.
bits_needed_for(length) ==
    IF length = 1 THEN 0
    ELSE CHOOSE w \in {Widths[t] : t \in 2..15} :
            w >= length /\ \A v \in {Widths[t] : t \in 2..15} : v >= length => w <= v

One == {<<-1, 0, 0>>}

\* The i-th source integer.
Value(i) == IF src[i] = 1 THEN One ELSE {<<i, b, b>> : b \in 0..(src[i] - 1)}

\* Bits that another part of the buffer happens to hold.
Garbage(from) == {<<-2, p, p>> : p \in from..31}

Shl(bits, s) == {<<x[1], x[2], x[3] + s>> : x \in {y \in bits : y[3] + s < 32}}
Shr(bits, s) == {<<x[1], x[2], x[3] - s>> : x \in {y \in bits : y[3] >= s}}
Mask(bits, w) == {x \in bits : x[3] < w}

\* A word of four 32-bit lanes; _mm_srli_epi64 shifts two lanes as one.
Lanes == 0..3
srli_epi64(word, s) ==
    [l \in Lanes |-> LET q == s % 64
                         high == IF l % 2 = 0 THEN word[l + 1] ELSE {}
                     IN  {<<x[1], x[2], x[3] - q>> : x \in {y \in word[l] : y[3] >= q}}
                           \cup {<<x[1], x[2], x[3] + 32 - q>> :
                                    x \in {y \in high : y[3] + 32 - q \in 0..31}}]
srli_epi32(word, s) == [l \in Lanes |-> Shr(word[l], s)]
slli_epi32(word, s) == [l \in Lanes |-> Shl(word[l], s)]
mask(word, w) == [l \in Lanes |-> Mask(word[l], w)]
or(a, b) == [l \in Lanes |-> a[l] \cup b[l]]

-----------------------------------------------------------------------------
(* The stripes: ints[v] is the v-th integer of the stripe.                 *)

\* One word: the integers of a lane lie above each other.
Packed(ints, w, from, upto, up) ==
    [l \in Lanes |-> UNION {Shl(ints[v], ((v - from) \div 4) * w + up) :
                                v \in {u \in from..(upto - 1) : u % 4 = l}}]

\* Mutant of SplitAt: the upper part of the split integers is one bit short.
SplitAt_OneBitShort(w) ==
    CASE w = 7  -> [first |-> 20, low |-> 5, up |-> 3]
      [] w = 9  -> [first |-> 16, low |-> 5, up |-> 4]
      [] w = 12 -> [first |-> 12, low |-> 8, up |-> 8]
      [] w = 21 -> [first |-> 8, low |-> 11, up |-> 11]

\* Two words: the last four integers of the first word keep only their lower
\* bits there; the others go to the second word, below the integers after them.
SplitAt(w) ==
    CASE w = 7  -> [first |-> 20, low |-> 4, up |-> 3]
      [] w = 9  -> [first |-> 16, low |-> 5, up |-> 4]
      [] w = 12 -> [first |-> 12, low |-> 8, up |-> 8]
      [] w = 21 -> [first |-> 8, low |-> 11, up |-> 11]

Split(ints, w) ==
    LET s == SplitAt(w)
        rest == [l \in Lanes |-> UNION {Shr(ints[v], s.low) :
                                    v \in {u \in (s.first - 4)..(s.first - 1) : u % 4 = l}}]
    IN  << Packed(ints, w, 0, s.first, 0),
           or(rest, Packed(ints, w, s.first, PerStripe(w), s.up)) >>

\* Bytes, half-words or whole words one after the other; `count' is cut off
\* where the source ends.
Plain(ints, w, count) ==
    LET per == 32 \div w
    IN  [l \in Lanes |-> UNION {Shl(Mask(ints[v], w), ((v % per) * w)) :
                                    v \in {u \in 0..(count - 1) : u \div per = l}}]

\* The words write_out makes of a stripe of which `count' integers are source.
StripeWords(ints, w, count) ==
    CASE w = 0 -> <<>>
      [] w \in {8, 16, 32} ->
            << [bytes |-> (IF count < PerStripe(w) THEN count ELSE PerStripe(w)) * (w \div 8),
                lane |-> Plain(ints, w, IF count < PerStripe(w) THEN count ELSE PerStripe(w))] >>
      [] w \in {7, 9, 12, 21} ->
            << [bytes |-> 16, lane |-> Split(ints, w)[1]], [bytes |-> 16, lane |-> Split(ints, w)[2]] >>
      [] OTHER -> << [bytes |-> 16, lane |-> Packed(ints, w, 0, PerStripe(w), 0)] >>

\* The cases of the decoder's switch: a is the word at `in', b the next one.
\* Each yields the words it stores; a word holds the integers of four lanes.
Case0 == [k \in 0..63 |-> [l \in Lanes |-> One]]
Case1(a) == [k \in 0..31 |-> mask(srli_epi64(a, k), 1)]
Case2(a) == [k \in 0..15 |-> mask(srli_epi64(a, 2 * k), 2)]
Case3(a) == [k \in 0..9 |-> mask(srli_epi64(a, 3 * k), 3)]
Case4(a) == [k \in 0..7 |-> mask(srli_epi64(a, 4 * k), 4)]
Case5(a) == [k \in 0..5 |-> mask(srli_epi64(a, 5 * k), 5)]
Case6(a) == [k \in 0..4 |-> mask(srli_epi64(a, 6 * k), 6)]

Case7(a, b) ==
    [k \in 0..8 |->
        mask(CASE k < 4 -> srli_epi32(a, 7 * k)
               [] k = 4 -> or(slli_epi32(b, 4), srli_epi32(a, 28))
               [] k > 4 -> srli_epi32(b, 3 + 7 * (k - 5)), 7)]

\* _mm_cvtepu8_epi32 takes the lowest four bytes, the shuffles move others there.
Case8(a) == [k \in 0..3 |-> [l \in Lanes |-> Mask(Shr(a[k], 8 * l), 8)]]

Case9(a, b) ==
    [k \in 0..6 |->
        mask(CASE k < 3 -> srli_epi32(a, 9 * k)
               [] k = 3 -> or(slli_epi32(b, 5), srli_epi32(a, 27))
               [] k > 3 -> srli_epi32(b, 4 + 9 * (k - 4)), 9)]

Case10(a) == [k \in 0..2 |-> mask(srli_epi64(a, 10 * k), 10)]

Case12(a, b) ==
    [k \in 0..4 |->
        mask(CASE k < 2 -> srli_epi32(a, 12 * k)
               [] k = 2 -> or(slli_epi32(b, 8), srli_epi32(a, 24))
               [] k > 2 -> srli_epi32(b, 8 + 12 * (k - 3)), 12)]

Case16(a) == [k \in 0..1 |-> [l \in Lanes |-> Mask(Shr(a[2 * k + l \div 2], 16 * (l % 2)), 16)]]

Case21(a, b) ==
    [k \in 0..2 |->
        mask(CASE k = 0 -> a
               [] k = 1 -> or(slli_epi32(b, 11), srli_epi32(a, 21))
               [] k = 2 -> srli_epi32(b, 11), 21)]

Case32(a) == [k \in 0..0 |-> a]

Stored(w, a, b) ==
    CASE w = 0 -> Case0      [] w = 1 -> Case1(a)       [] w = 2 -> Case2(a)
      [] w = 3 -> Case3(a)   [] w = 4 -> Case4(a)       [] w = 5 -> Case5(a)
      [] w = 6 -> Case6(a)   [] w = 7 -> Case7(a, b)    [] w = 8 -> Case8(a)
      [] w = 9 -> Case9(a, b) [] w = 10 -> Case10(a)    [] w = 12 -> Case12(a, b)
      [] w = 16 -> Case16(a) [] w = 21 -> Case21(a, b)  [] w = 32 -> Case32(a)

-----------------------------------------------------------------------------
(* Encoding.                                                               *)

Largest(S) == CHOOSE x \in S : \A y \in S : y <= x

\* Steps (1) to (3) of encode: the lengths, WASTAGE zeros behind them, and the
\* largest of every four as the length of all four.
GroupLengths ==
    LET needed(p) == IF p < n THEN bits_needed_for(src[p]) ELSE 0
    IN  [p \in 0..(n + WASTAGE - 1) |->
            IF p < n + 4 THEN Largest({needed(q) : q \in (4 * (p \div 4))..(4 * (p \div 4) + 3)})
            ELSE 0]

Init ==
    /\ \E s \in Sources, lone \in {0, 1} :
            /\ n = s.length
            /\ src = [i \in 0..(n - 1) |-> IF i % 4 = 2 THEN s.groups[i \div 4] ELSE lone]
    /\ pc = "align"
    /\ len_buf = GroupLengths
    /\ cur = 0
    /\ keys = 0
    /\ words = <<>>
    /\ in = 0
    /\ key = 0
    /\ to = <<>>

Filled(buf, from, count, w) ==
    [p \in DOMAIN buf |-> IF p \in from..(from + count - 1) THEN w ELSE buf[p]]

\* Close to the end plain bytes are smaller than a stripe.  (The second branch
\* for 16 bits, in the code a repetition of its condition, is never taken.)
TailWidths(buf) ==
    LET left == n - cur
        largest(k) == Largest({buf[cur + j] : j \in 0..(k - 1)})
    IN  IF left < 4
        THEN Filled(buf, cur, 8, IF largest(8) <= 8 THEN 8 ELSE IF largest(8) <= 16 THEN 16 ELSE 32)
        ELSE IF left < 8
        THEN IF largest(8) <= 8 THEN Filled(buf, cur, 8, 8) ELSE buf
        ELSE IF left < 16
        THEN IF largest(16) <= 8 THEN Filled(buf, cur, 16, 8) ELSE buf
        ELSE buf

\* All integers of the stripe that would begin here fit into its width.
StripeFills(buf, w) == \A k \in 0..((PerStripe(w) - 1) \div 4) : buf[cur + 4 * k] <= w

\* One iteration of the loop that lines the widths up in stripes: a stripe that
\* fills, or four integers promoted to the next width and looked at again.
AlignStep ==
    /\ pc = "align" /\ cur < n
    /\ LET buf == TailWidths(len_buf)
           w == buf[cur]
       IN  IF StripeFills(buf, w)
           THEN len_buf' = Filled(buf, cur, PerStripe(w), w) /\ cur' = cur + PerStripe(w)
           ELSE len_buf' = Filled(buf, cur, 4, Promoted(w)) /\ cur' = cur
    /\ UNCHANGED <<n, src, pc, keys, words, in, key, to>>

AlignEnd ==
    /\ pc = "align" /\ cur >= n
    /\ pc' = "write" /\ cur' = 0
    /\ UNCHANGED <<n, src, len_buf, keys, words, in, key, to>>

Concat(seqs) ==
    LET upto[k \in 0..Len(seqs)] == IF k = 0 THEN <<>> ELSE upto[k - 1] \o seqs[k]
    IN  upto[Len(seqs)]

\* The integers of one width that follow each other from cur on.
RunLength ==
    CHOOSE r \in 1..(n - cur) :
        /\ \A j \in 0..(r - 1) : len_buf[cur + j] = len_buf[cur]
        /\ cur + r = n \/ len_buf[cur + r] # len_buf[cur]

\* A type and, complemented, how many stripes of it.
Selector(t, batch) == (t - 1) * 16 + 16 - batch

\* write_out for the next run: its stripes, padded with zeros where the source
\* ends, and a selector for each 16 of them.  The selectors go to the start of
\* len_buf, whose lengths have been read there.
WriteRun ==
    /\ pc = "write" /\ cur < n
    /\ LET w == len_buf[cur]
           raw_count == RunLength
           per == PerStripe(w)
           count == (raw_count + per - 1) \div per
           batches == (count + 15) \div 16
           ints(s) == [v \in 0..(per - 1) |->
                        IF s * per + v < raw_count THEN Value(cur + s * per + v) ELSE {}]
       IN  /\ words' = words \o Concat([s \in 1..count |->
                                    StripeWords(ints(s - 1), w, raw_count - (s - 1) * per)])
           /\ len_buf' = [p \in DOMAIN len_buf |->
                            IF p \in keys..(keys + batches - 1)
                            THEN Selector(Type(w), IF p = keys + batches - 1
                                                   THEN count - 16 * (batches - 1) ELSE 16)
                            ELSE len_buf[p]]
           /\ keys' = keys + batches
           /\ cur' = cur + raw_count
    /\ UNCHANGED <<n, src, pc, in, key, to>>

WriteEnd ==
    /\ pc = "write" /\ cur = n
    /\ pc' = "decode"
    /\ UNCHANGED <<n, src, len_buf, cur, keys, words, in, key, to>>

-----------------------------------------------------------------------------
(* Decoding.                                                               *)

Bytes ==
    LET upto[k \in 0..Len(words)] == IF k = 0 THEN 0 ELSE upto[k - 1] + words[k].bytes
    IN  upto[Len(words)]

\* The word at an address: what was written, and behind it whatever is there.
WordAt(address) ==
    LET k == address \div 16 + 1
        present == IF k <= Len(words) THEN words[k].bytes ELSE 0
    IN  [l \in Lanes |->
            IF present >= 4 * l + 4 THEN words[k].lane[l]
            ELSE IF present <= 4 * l THEN Garbage(0)
            ELSE words[k].lane[l] \cup Garbage(8 * (present - 4 * l))]

\* The selectors lie behind the words in reverse, the last one first.
KeyAddress(k) == Bytes + keys - 1 - k

\* The loop condition `in <= keys': both ends have not met.
Decoding == pc = "decode" /\ key < keys /\ in <= KeyAddress(key)

\* One selector: as many stripes as the switch falls through.
DecodeStep ==
    /\ Decoding
    /\ LET w == Widths[len_buf[key] \div 16 + 1]
           stripes == 16 - (len_buf[key] % 16)
           size == 16 * WordsPerStripe(w)
           per == PerStripe(w)
           stored == [s \in 0..(stripes - 1) |->
                        Stored(w, WordAt(in + s * size), WordAt(in + s * size + 16))]
       IN  /\ to' = to \o [p \in 1..(stripes * per) |->
                            LET v == (p - 1) % per
                            IN  stored[(p - 1) \div per][v \div 4][v % 4]]
           /\ in' = in + stripes * size
    /\ key' = key + 1
    /\ UNCHANGED <<n, src, pc, len_buf, cur, keys, words>>

DecodeEnd ==
    /\ pc = "decode" /\ ~Decoding
    /\ pc' = "done"
    /\ UNCHANGED <<n, src, len_buf, cur, keys, words, in, key, to>>

Terminated == pc = "done" /\ UNCHANGED vars

Step == AlignStep \/ AlignEnd \/ WriteRun \/ WriteEnd \/ DecodeStep \/ DecodeEnd

Next == Step \/ Terminated

Spec == Init /\ [][Next]_vars /\ WF_vars(Step)

-----------------------------------------------------------------------------
(* Properties.                                                             *)

\* The loops stay in their ranges and a length is a width until a selector
\* takes its place: "we're going to re-use the len_buf because it can't overlap".
TypeOK ==
    /\ n \in Nat \ {0} /\ DOMAIN src = 0..(n - 1)
    /\ pc \in {"align", "write", "decode", "done"}
    /\ DOMAIN len_buf = 0..(n + WASTAGE - 1)
    /\ \A p \in keys..(n - 1) : len_buf[p] \in {Widths[t] : t \in DOMAIN Widths}
    /\ cur \in Nat /\ (pc # "align" => cur \in 0..n)
    /\ keys \in 0..n /\ (pc = "write" => keys <= cur) /\ key \in 0..keys

\* Whatever decode() has stored are the integers that were encoded, and all of
\* them in the end; what it stores behind them comes from the padding.
RoundTrip ==
    /\ \A i \in 0..(n - 1) : i < Len(to) => to[i + 1] = Value(i)
    /\ pc = "done" => Len(to) >= n /\ key = keys

\* Widths only grow, and behind the loop they are final: each integer fits into
\* the stripe it was put in, where a 0 never becomes one of the ones without bits.
StripesFit ==
    pc = "align" => \A p \in 0..(n - 1) :
        len_buf[p] >= bits_needed_for(src[p]) /\ (src[p] = 0 => len_buf[p] # 0)

\* The code fits the encoder's buffer and the decoder's overshoot its own.
BuffersSuffice ==
    /\ Bytes + keys <= 4 * Overflow + 8 * n
    /\ Len(to) <= n + Overflow

\* Promotions come to an end and the two ends of the code meet.
CodingEnds == <>(pc = "done")
=============================================================================
