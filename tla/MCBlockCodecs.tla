---------------------------- MODULE MCBlockCodecs ----------------------------
(***************************************************************************)
(* Instances of the codecs of short blocks for TLC.  `codec' is the one a  *)
(* behaviour is about; the variables of the others are not used in it.     *)
(***************************************************************************)
EXTENDS Integers, Sequences, FiniteSets

-----------------------------------------------------------------------------
(* Inputs.                                                                 *)

\* Of Qmx.  Short inputs of every mix: promotions and the rules for the end.
MixedSources ==
    UNION {{[length |-> len, groups |-> f] : f \in [0..((len - 1) \div 4) -> {1, 3, 8, 17}]} : len \in {11, 16}}

\* Every width followed by every other.
Widths == <<1, 2, 3, 4, 5, 6, 7, 8, 9, 10, 12, 16, 21, 32>>
TwoWidths ==
    {[length |-> 28, groups |-> [g \in 0..6 |-> IF g < 3 THEN Widths[x] ELSE Widths[y]]] :
        x, y \in 1..14}

\* More stripes of a width than fit one selector, and a full stripe of ones.
LongSources ==
    {[length |-> 72, groups |-> [g \in 0..17 |-> w]] : w \in {2, 7, 16, 32}}
        \cup {[length |-> 260, groups |-> [g \in 0..64 |-> 1]]}

\* Of InterpolativeBlock.  Blocks of up to four integers whose sums pass one
\* word's bits; what is in front of a block and behind it must not matter.
Sums == UNION {[1..j -> {0, 1, 3, 6}] : j \in 1..3} \cup [1..4 -> {0, 1, 12}]

\* Of VarIntG8IU.  Integers of one and two bytes, in groups of four bytes.
Bytes == [1..6 -> {0, 1, 2, 3}]

\* Of VarIntGB.  Integers of one to four bytes, those at the limits among them;
\* whole groups and the ends of lists, one after the other in either order: a short
\* block in the buffer of a long one, and a long one that the buffer of a short
\* one may hold or not.
Ints == {0, 1, 2, 4, 15}
LongBlocks == [1..4 -> Ints] \cup {<<a, 1, 3, 9, 4, 15>> : a \in Ints}
ShortBlocks == [1..1 -> Ints] \cup [1..2 -> {3, 8}]
BlockRuns == {<<b, c>> : b \in LongBlocks, c \in ShortBlocks} \cup {<<c, b>> : b \in LongBlocks, c \in ShortBlocks}

\* Of MixedBlock.  Full blocks of two integers and partial ones, of docs and of
\* freqs, integers with as many bits as the widths of FastPFor have, one more,
\* and between them.
FastPForWidths == <<0, 1, 2, 3, 4, 5, 6, 7, 8, 9, 10, 11, 12, 13, 16, 20, 32>>
Bits == {0, 1, 12, 13, 14, 16, 17, 20, 21, 28, 29, 30, 32}
SomeBlocks == {[values |-> v, sum |-> s] :
                v \in {<<a, b>> : a \in {0, 13, 32}, b \in Bits} \cup {<<b>> : b \in Bits}, s \in {7, 99}}

-----------------------------------------------------------------------------

VARIABLES
    codec, pc,
    in, src, out, code,                                                 \* of several codecs
    n, len_buf, cur, keys, words, key, to,                              \* of Qmx
    given, calls, m_words, m_size, encoded, begin, end,                 \* of InterpolativeBlock
    m_in, m_avail, m_buf, m_pos, ret,
    out_len,                                                            \* of VarIntG8IU
    blocks, first, size, k, prev, buf, at,                              \* of VarIntGB
    block, coder, type, param, best, fv, points                         \* of MixedBlock

QMX == INSTANCE Qmx WITH
            Sources <- MixedSources \cup TwoWidths \cup LongSources, WASTAGE <- 260, Overflow <- 512
Interpolative == INSTANCE InterpolativeBlock WITH
            PayloadBits <- 2, MostBytes <- 3, WordBytes <- 2,
            Inputs <- Sums, Before <- {<<>>, <<5>>}, After <- {<<>>, <<7, 7>>}
G8IU == INSTANCE VarIntG8IU WITH Base <- 2, GroupBytes <- 4, BlockSize <- 6, Inputs <- Bytes, Stale <- 1
GB == INSTANCE VarIntGB WITH Base <- 2, Delta <- FALSE, Runs <- BlockRuns
DeltaGB == INSTANCE VarIntGB WITH Base <- 2, Delta <- TRUE, Runs <- BlockRuns
Mixed == INSTANCE MixedBlock WITH
            BlockSize <- 2, WordBits <- 32, possLogs <- FastPForWidths, ExceptionBits <- 28,
            Blocks <- SomeBlocks, NoSum <- 99

ASSUME QMX!SourcesAssumption /\ QMX!WastageAssumption /\ QMX!RoomAssumption
ASSUME /\ Interpolative!TightVariableByteAssumption /\ Interpolative!WordBytesAssumption
       /\ Interpolative!InputsAssumption /\ Interpolative!BytesAssumption
ASSUME G8IU!GroupAssumption /\ G8IU!InputsAssumption /\ G8IU!StaleAssumption
ASSUME GB!BaseAssumption /\ GB!RunsAssumption /\ DeltaGB!BaseAssumption /\ DeltaGB!RunsAssumption
ASSUME Mixed!PossLogsAssumption /\ Mixed!BlocksAssumption

qmxVars == <<n, len_buf, cur, keys, words, key, to>>
interpolativeVars ==
    <<given, calls, m_words, m_size, encoded, begin, end, m_in, m_avail, m_buf, m_pos, ret>>
gbVars == <<blocks, first, size, k, prev, buf, at>>
mixedVars == <<block, coder, type, param, best, fv, points>>
mcvars == <<codec, pc, in, src, out, code, out_len, qmxVars, interpolativeVars, gbVars, mixedVars>>

Unused(v) == v = "unused"
QmxUnused ==
    /\ Unused(n) /\ Unused(len_buf) /\ Unused(cur) /\ Unused(keys)
    /\ Unused(words) /\ Unused(key) /\ Unused(to)
InterpolativeUnused ==
    /\ Unused(given) /\ Unused(calls) /\ Unused(m_words) /\ Unused(m_size)
    /\ Unused(encoded) /\ Unused(begin) /\ Unused(end)
    /\ Unused(m_in) /\ Unused(m_avail) /\ Unused(m_buf) /\ Unused(m_pos) /\ Unused(ret)
GBUnused ==
    /\ Unused(blocks) /\ Unused(first) /\ Unused(size) /\ Unused(k) /\ Unused(prev) /\ Unused(buf) /\ Unused(at)
MixedUnused ==
    /\ Unused(block) /\ Unused(coder) /\ Unused(type) /\ Unused(param)
    /\ Unused(best) /\ Unused(fv) /\ Unused(points)

MCInit ==
    \/ /\ codec = "qmx" /\ QMX!Init
       /\ Unused(out) /\ Unused(code) /\ Unused(out_len)
       /\ InterpolativeUnused /\ GBUnused /\ MixedUnused
    \/ /\ codec = "interpolative" /\ Interpolative!Init
       /\ Unused(src) /\ Unused(code) /\ Unused(out_len)
       /\ QmxUnused /\ GBUnused /\ MixedUnused
    \/ /\ codec = "G8IU" /\ G8IU!Init
       /\ QmxUnused /\ InterpolativeUnused /\ GBUnused /\ MixedUnused
    \/ /\ codec \in {"GB", "delta GB"} /\ GB!Init
       /\ Unused(in) /\ Unused(src) /\ Unused(code) /\ Unused(out_len)
       /\ QmxUnused /\ InterpolativeUnused /\ MixedUnused
    \/ /\ codec = "mixed" /\ Mixed!Init
       /\ Unused(in) /\ Unused(src) /\ Unused(out_len)
       /\ QmxUnused /\ InterpolativeUnused /\ GBUnused

OfQmx == codec = "qmx" /\ UNCHANGED <<codec, out, code, out_len, interpolativeVars, gbVars, mixedVars>>
OfInterpolative == codec = "interpolative" /\ UNCHANGED <<codec, src, code, out_len, qmxVars, gbVars, mixedVars>>
OfG8IU == codec = "G8IU" /\ UNCHANGED <<codec, qmxVars, interpolativeVars, gbVars, mixedVars>>
OfGB == codec = "GB" /\ UNCHANGED <<codec, in, src, code, out_len, qmxVars, interpolativeVars, mixedVars>>
OfDeltaGB == codec = "delta GB" /\ UNCHANGED <<codec, in, src, code, out_len, qmxVars, interpolativeVars, mixedVars>>
OfMixed == codec = "mixed" /\ UNCHANGED <<codec, in, src, out_len, qmxVars, interpolativeVars, gbVars>>

\* The programs are done.
Ended ==
    /\ IF codec \in {"GB", "delta GB"} THEN pc = "begin" /\ blocks = <<>> ELSE pc = "done"
    /\ UNCHANGED mcvars

MCNext ==
    \/ OfQmx /\ QMX!AlignStep
    \/ OfQmx /\ QMX!AlignEnd
    \/ OfQmx /\ QMX!WriteRun
    \/ OfQmx /\ QMX!WriteEnd
    \/ OfQmx /\ QMX!DecodeStep
    \/ OfQmx /\ QMX!DecodeEnd
    \/ OfInterpolative /\ Interpolative!BeginEncode
    \/ OfInterpolative /\ Interpolative!WriteCall
    \/ OfInterpolative /\ Interpolative!EndEncode
    \/ OfInterpolative /\ Interpolative!BeginDecode
    \/ OfInterpolative /\ Interpolative!ReadCall
    \/ OfInterpolative /\ Interpolative!EndDecode
    \/ OfG8IU /\ G8IU!EncodeBlock
    \/ OfG8IU /\ G8IU!BeginDecode
    \/ OfG8IU /\ G8IU!DecodeDirect
    \/ OfG8IU /\ G8IU!DecodeLast
    \/ OfG8IU /\ G8IU!EndDecode
    \/ OfGB /\ GB!BeginEncode
    \/ OfGB /\ GB!EncodeGroup
    \/ OfGB /\ GB!BeginDecode
    \/ OfGB /\ GB!DecodeGroup
    \/ OfGB /\ GB!EndDecode
    \/ OfGB /\ GB!NextBlock
    \/ OfDeltaGB /\ DeltaGB!BeginEncode
    \/ OfDeltaGB /\ DeltaGB!EncodeGroup
    \/ OfDeltaGB /\ DeltaGB!BeginDecode
    \/ OfDeltaGB /\ DeltaGB!DecodeGroup
    \/ OfDeltaGB /\ DeltaGB!EndDecode
    \/ OfDeltaGB /\ DeltaGB!NextBlock
    \/ OfMixed /\ Mixed!Try
    \/ OfMixed /\ Mixed!Choose
    \/ OfMixed /\ Mixed!EncodeShort
    \/ OfMixed /\ Mixed!FindBestB
    \/ OfMixed /\ Mixed!EncodeBest
    \/ OfMixed /\ Mixed!Decode
    \/ Ended

MCSpec == MCInit /\ [][MCNext]_mcvars

-----------------------------------------------------------------------------
(* Properties.                                                             *)

\* What the variables of every codec range over, and what its loops rely on.
TypeOK ==
    CASE codec = "qmx" -> QMX!TypeOK
      [] codec = "interpolative" -> Interpolative!TypeOK /\ Interpolative!BoundsHold
      [] codec = "G8IU" -> G8IU!TypeOK
      [] codec = "GB" -> GB!TypeOK
      [] codec = "delta GB" -> DeltaGB!TypeOK
      [] codec = "mixed" -> Mixed!TypeOK /\ Mixed!AlwaysAPoint /\ Mixed!FeaturesOfPoint

\* Every codec gives back the block it was given, whatever buffers held before
\* and whatever is behind the code, and returns where the code ends; group varint
\* does of the blocks that fit into its buffer.
RoundTrip ==
    CASE codec = "qmx" -> QMX!RoundTrip /\ QMX!StripesFit
      [] codec = "interpolative" -> Interpolative!RoundTrip
      [] codec = "G8IU" -> G8IU!RoundTrip
      [] codec = "GB" -> GB!RoundTrip
      [] codec = "delta GB" -> DeltaGB!RoundTrip
      [] codec = "mixed" -> Mixed!RoundTrip

\* The room the codecs make for code and integers is enough for what they write
\* ahead, and what they read ahead is at most what lies behind a block.  The buffer
\* of group varint has room for the blocks that the thread's first one left it.
RoomSuffices ==
    CASE codec = "qmx" -> QMX!BuffersSuffice
      [] codec = "interpolative" -> Interpolative!ReadsLittleBeyond
      [] codec = "G8IU" -> G8IU!BufferSuffices /\ G8IU!NothingBehind
      [] codec = "GB" -> GB!BufferHolds
      [] codec = "delta GB" -> DeltaGB!BufferHolds
      [] OTHER -> TRUE
=============================================================================
