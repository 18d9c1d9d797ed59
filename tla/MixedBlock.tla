----------------------------- MODULE MixedBlock -----------------------------
(***************************************************************************)
(* Transforming a block for a mixed index (mixed_block.hpp, with           *)
(* values_statistics of dec_time_prediction.hpp): compute_space_time tries *)
(* every codec and parameter, a caller chooses one of the points it        *)
(* returns, the block is encoded with it and decoded again.  A step tries  *)
(* one parameter.  Alone, optpfor_block (block_codecs.hpp) looks for its   *)
(* parameter itself.                                                       *)
(*                                                                         *)
(* Of an integer only its bits matter, so it is the number of them.  The   *)
(* codecs are modelled elsewhere; here they give back what they were       *)
(* given, if they can hold it.                                             *)
(***************************************************************************)
EXTENDS Naturals, Sequences, FiniteSets

CONSTANTS
    BlockSize,      \* mixed_block::block_size
    WordBits,       \* 32
    possLogs,       \* the widths of FastPFor's optpfor, in increasing order
    ExceptionBits,  \* 28: what Simple16, the coder of its exceptions, can hold
    Blocks,         \* [values, sum]: sum is given for docs, and NoSum for freqs
    NoSum           \* uint32_t(-1)

PossLogsAssumption ==
    /\ possLogs \in Seq(0..WordBits) /\ possLogs # <<>>
    /\ possLogs[1] = 0 /\ possLogs[Len(possLogs)] = WordBits
    /\ \A i \in 2..Len(possLogs) : possLogs[i - 1] < possLogs[i]
BlocksAssumption ==
    \A b \in Blocks : Len(b.values) \in 1..BlockSize /\ b.values \in Seq(0..WordBits)

\* enum block_type; the numbers are the bytes stored.
pfor == 0
varint == 1
interpolative == 2
Types == {pfor, varint, interpolative}

VARIABLES
    block,
    coder,          \* "mixed", or "optpfor" alone
    pc,
    type, param,    \* the loops of compute_space_time; param counts from 1
    best,           \* of findBestB: b and bsize
    fv,             \* the features: max_b, pfor_b, pfor_exceptions
    points,         \* the points: a type, a parameter and the features it was predicted for
    code,           \* the encoded block
    out             \* what is decoded from it

vars == <<block, coder, pc, type, param, best, fv, points, code, out>>

values == block.values
n == Len(values)

MaxOf(S) == CHOOSE x \in S : \A y \in S : y <= x

\* values_statistics: the bits of the largest value.
MaxB == MaxOf({values[i] : i \in 1..n})

Exceptions(b) == Cardinality({i \in 1..n : values[i] > b})

Init ==
    /\ block \in Blocks /\ coder \in {"mixed", "optpfor"}
    /\ pc = IF coder = "mixed" THEN "try" ELSE IF n < BlockSize THEN "short" ELSE "find"
    /\ type = pfor /\ param = 1
    /\ best = [b |-> 0, bsize |-> 3]
    /\ fv = [max_b |-> MaxB, pfor_b |-> 0, pfor_exceptions |-> 0]
    /\ points = {} /\ code = <<>> /\ out = <<>>

compr_params(t) == IF t = pfor THEN Len(possLogs) ELSE 1

\* uint32_t subtraction: below 0 it wraps to something larger than any width.
Minus(a, b) == IF a >= b THEN a - b ELSE 2 * WordBits + a

\* No exceptions, and the width before has none either.
Useless ==
    LET b == possLogs[param]
    IN  b > fv.max_b /\ possLogs[param - 1] >= fv.max_b

\* `exception coder can't handle this'
Uncodable == Minus(fv.max_b, possLogs[param]) > ExceptionBits

\* Whether compression_stats returns false.
Refused == \/ n # BlockSize /\ type # interpolative
           \/ type = pfor /\ (Useless \/ Uncodable)

\* Mutant of Features: the exceptions of the widths before are counted in.
Features_Added ==
    IF type # pfor \/ n # BlockSize \/ Refused THEN {fv}
    ELSE {[fv EXCEPT !.pfor_b = possLogs[param], !.pfor_exceptions = @ + Exceptions(possLogs[param])]}

\* The features compression_stats leaves.  For the full width 1 << b is
\* undefined: the shift may give 0 or 1.
Features ==
    IF n # BlockSize /\ type # interpolative THEN {fv}
    ELSE IF type # pfor \/ Refused THEN {[fv EXCEPT !.pfor_b = 0, !.pfor_exceptions = 0]}
    ELSE {[fv EXCEPT !.pfor_b = possLogs[param], !.pfor_exceptions = e] :
            e \in IF possLogs[param] < WordBits THEN {Exceptions(possLogs[param])}
                  ELSE {n, Exceptions(0)}}

\* One round of the loops: compression_stats and, unless it refuses, a point.
Try ==
    /\ pc = "try"
    /\ \E f \in Features :
        /\ fv' = f
        /\ points' = IF Refused THEN points ELSE points \cup {[type |-> type, param |-> param, fv |-> f]}
    /\ IF param < compr_params(type)
       THEN param' = param + 1 /\ UNCHANGED <<type, pc>>
       ELSE /\ param' = 1
            /\ type' = IF type < interpolative THEN type + 1 ELSE type
            /\ pc' = IF type < interpolative THEN "try" ELSE "choose"
    /\ UNCHANGED <<block, coder, best, code, out>>

\* A codec's output, with the sum that interpolative_block takes; optpfor loses
\* exceptions that are too long for their coder.
Coded(t, b) ==
    [codec |-> t, sum |-> IF t = interpolative THEN block.sum ELSE NoSum,
     values |-> IF t = pfor /\ MaxB - b > ExceptionBits THEN <<>> ELSE values]

\* encode_type writes the type of full blocks only.
TypeByte(t) == IF n < BlockSize THEN <<>> ELSE <<t>>

\* A caller's choice among the points, then block_transformer's encode_type.
Choose ==
    /\ pc = "choose"
    /\ \E p \in points :
            /\ ~(n < BlockSize /\ p.type # interpolative)
            /\ code' = [byte |-> TypeByte(p.type),
                        rest |-> Coded(p.type, IF p.type = pfor THEN possLogs[p.param] ELSE 0)]
    /\ pc' = "decode"
    /\ UNCHANGED <<block, coder, type, param, best, fv, points, out>>

-----------------------------------------------------------------------------
(* optpfor_block alone.                                                    *)

\* A partial block is coded with interpolative_block.
EncodeShort ==
    /\ pc = "short"
    /\ code' = [byte |-> <<>>, rest |-> Coded(interpolative, 0)]
    /\ pc' = "decode"
    /\ UNCHANGED <<block, coder, type, param, best, fv, points, out>>

\* The widths findBestB passes over, for the exceptions would be too long.
Skipped(i) == MaxB > ExceptionBits + possLogs[i]

\* One round of findBestB, in which tryB finds one of two costs; it stops when
\* the width becomes larger than the largest value.
FindBestB ==
    /\ pc = "find" /\ param <= Len(possLogs) /\ possLogs[param] <= MaxB
    /\ IF Skipped(param) THEN UNCHANGED best
       ELSE \E csize \in 1..2 :
                best' = IF csize <= best.bsize THEN [b |-> possLogs[param], bsize |-> csize] ELSE best
    /\ param' = param + 1
    /\ UNCHANGED <<block, coder, pc, type, fv, points, code, out>>

EncodeBest ==
    /\ pc = "find" /\ ~(param <= Len(possLogs) /\ possLogs[param] <= MaxB)
    /\ code' = [byte |-> <<>>, rest |-> Coded(pfor, best.b)]
    /\ pc' = "decode"
    /\ UNCHANGED <<block, coder, type, param, best, fv, points, out>>

-----------------------------------------------------------------------------
(* Decoding.                                                               *)

\* decode, which knows the number of values and their sum.
Decode ==
    /\ pc = "decode"
    /\ LET stored == coder = "mixed" /\ n = BlockSize
           t == IF stored THEN code.byte[1] ELSE IF n < BlockSize THEN interpolative ELSE pfor
       IN  out' = IF /\ t = code.rest.codec /\ (t = interpolative => code.rest.sum = block.sum)
                     /\ ~stored => code.byte = <<>>
                  THEN code.rest.values ELSE <<>>
    /\ pc' = "done"
    /\ UNCHANGED <<block, coder, type, param, best, fv, points, code>>

Next == Try \/ Choose \/ EncodeShort \/ FindBestB \/ EncodeBest \/ Decode

Spec == Init /\ [][Next]_vars

-----------------------------------------------------------------------------
(* Properties.                                                             *)

\* What the variables range over.
TypeOK ==
    /\ pc \in {"try", "choose", "short", "find", "decode", "done"}
    /\ type \in Types /\ param \in 1..(compr_params(type) + 1) /\ best.b \in 0..WordBits
    /\ fv.max_b \in 0..WordBits /\ fv.pfor_b \in 0..WordBits /\ fv.pfor_exceptions \in 0..n
    /\ \A p \in points : p.type \in Types /\ p.param \in 1..compr_params(p.type)

\* The caller always has a choice, of every codec for a full block.
AlwaysAPoint ==
    pc = "choose" => \A t \in Types : (n = BlockSize \/ t = interpolative) => \E p \in points : p.type = t

\* The time of a point is predicted from its own features: the width and the
\* exceptions of pfor are 0 for the other codecs, which come after it.
FeaturesOfPoint ==
    \A p \in points : p.fv.pfor_b = IF p.type = pfor THEN possLogs[p.param] ELSE 0

\* Whatever point is chosen, and whatever width optpfor_block finds the best,
\* the block decodes to what it was.
RoundTrip == pc = "done" => out = values
=============================================================================
