--------------------------- MODULE DatasetEncoder ---------------------------
(***************************************************************************)
(* The programs of src/vroom_env that encode the lists of a file, decode   *)
(* them one behind the other, and check them: encode, encode_dint and      *)
(* encode_pef of encode.cpp with the jobs of jobs.hpp, which               *)
(* semiasync_queue runs and which append to one output; decode,            *)
(* decode_dint and decode_pef of decode.cpp; check_dint.                   *)
(*                                                                         *)
(* The queue is the in-order executor that SemiasyncQueue is proved to     *)
(* implement.  A codec is its contract, so that the code of a list is the  *)
(* integers in it; DintList has what it takes.  The output of a codec is a *)
(* sequence of headers and codes, that of pef a bit vector, in which what  *)
(* begins at a bit is kept under its offset.                               *)
(***************************************************************************)
EXTENDS InOrderExecutor, Sequences, SequencesExt

CONSTANTS
    Files,      \* [docs, lists]: .docs or .freqs, its lists without the first of .docs
    W           \* 2^32

WAssumption == W \in Nat \ {0, 1}
FilesAssumption ==
    \A f \in Files : /\ Len(f.lists) = NumJobs
                     /\ \A j \in 1..NumJobs : f.lists[j] \in Seq(0..(W - 2)) /\ f.lists[j] # <<>>

VARIABLES
    file, type,     \* the arguments: type is "sequential", "dint" or "pef"
    program,        \* what reads the output: "decode" or "check"
    tmp,            \* universe and code of the jobs that are prepared
    output,         \* std::vector<uint8_t> output, of codecs
    bvb,            \* the bit vector of pef: [size, at]
    num_total_ints,
    pc,
    begin,          \* where the reader is: an index of output, an offset of bvb
    decoded,        \* what was decoded, list by list
    errors          \* the lists in which check_dint found something wrong

vars == <<added, prepared, committed, finished, file, type, program, tmp, output, bvb, num_total_ints, pc, begin, decoded, errors>>
reading == <<pc, begin, decoded, errors>>

List(j) == file.lists[j]
Sum(l) == FoldLeft(LAMBDA x, y : x + y, 0, l)
PrefixSums(l) == [i \in DOMAIN l |-> Sum(SubSeq(l, 1, i))]

Init ==
    /\ AInit
    /\ file \in Files
    /\ type \in {"sequential", "dint", "pef"}
    /\ program \in IF type = "dint" THEN {"decode", "check"} ELSE {"decode"}
    /\ tmp = <<>> /\ output = <<>> /\ num_total_ints = 0
    /\ bvb = [size |-> 0, at |-> <<>>]
    /\ pc = "encode" /\ begin = 0 /\ decoded = <<>> /\ errors = {}

-----------------------------------------------------------------------------
(* Encoding.                                                               *)

\* The value before the i-th, -1 before the first document.
Prev(l, i) == IF ~file.docs THEN 0 ELSE IF i = 1 THEN W - 1 ELSE l[i - 1]

\* *begin - prev - 1, in uint32_t.
Gaps(l) == [i \in DOMAIN l |-> (l[i] + 2 * W - Prev(l, i) - 1) % W]

\* prepare() of enc_sequence_adder, dint_sequence_adder and pef_sequence_adder;
\* pef codes the list itself, or its prefix sums where it is one of frequencies.
Prepared(l) ==
    IF type # "pef" THEN [universe |-> Sum(Gaps(l)) % W, code |-> Gaps(l)]
    ELSE IF file.docs THEN [universe |-> Last(l) + 1, code |-> l]
    ELSE [universe |-> Sum(l) + 1, code |-> PrefixSums(l)]

\* The bits of a partitioned sequence, as many as there are integers.
Bits(code) == Len(code)

HeaderBits == 64 + 32 + 32

\* Where the list behind this one will begin.
NextOffset(size, bits) == size + bits + HeaderBits

\* What commit() adds to num_total_ints.
Counted(n) == n

\* commit() of the three jobs: header, then code.
Emit(l, job) ==
    /\ num_total_ints' = num_total_ints + Counted(Len(l))
    /\ IF type # "pef"
       THEN /\ output' = output \o <<Len(l), job.universe, job.code>>
            /\ UNCHANGED bvb
       ELSE /\ LET next == NextOffset(bvb.size, Bits(job.code))
               IN  bvb' = [size |-> bvb.size + HeaderBits + Bits(job.code),
                           at |-> [o \in DOMAIN bvb.at \cup {bvb.size} |->
                                    IF o # bvb.size THEN bvb.at[o]
                                    ELSE [next |-> next, universe |-> job.universe, n |-> Len(l), code |-> job.code]]]
            /\ UNCHANGED output

\* The loops of encode_dint and encode_pef: a job for the next list.
AddJob ==
    /\ AAdd /\ type # "sequential"
    /\ UNCHANGED <<file, type, program, tmp, output, bvb, num_total_ints, reading>>

\* A thread prepares a job.
Prepare(j) ==
    /\ APrepare(j)
    /\ tmp' = [k \in DOMAIN tmp \cup {j} |-> IF k = j THEN Prepared(List(j)) ELSE tmp[k]]
    /\ UNCHANGED <<file, type, program, output, bvb, num_total_ints, reading>>

\* The program's own thread commits the next one.
Commit ==
    /\ ACommit
    /\ Emit(List(committed + 1), tmp[committed + 1])
    /\ UNCHANGED <<file, type, program, tmp, reading>>

\* The loop of encode, which does itself what a job would, and the others when
\* there are no threads.
Inline ==
    /\ AInline
    /\ Emit(List(added + 1), Prepared(List(added + 1)))
    /\ UNCHANGED <<file, type, program, tmp, reading>>

\* complete(), and the output is written.
Save ==
    /\ pc = "encode" /\ AFinish
    /\ pc' = "read"
    /\ UNCHANGED <<file, type, program, tmp, output, bvb, num_total_ints, begin, decoded, errors>>

-----------------------------------------------------------------------------
(* Decoding and checking.                                                  *)

\* What check_dint expects of a list.
Expected(l) == [i \in DOMAIN l |-> IF file.docs THEN IF i = 1 THEN l[i] ELSE l[i] - l[i - 1] - 1 ELSE (l[i] + W - 1) % W]

\* header::read and Decoder::decode, for decode as long as there is output, for
\* check_dint once for every list of the collection.
Read ==
    /\ pc = "read" /\ type # "pef"
    /\ IF program = "check" THEN Len(decoded) < NumJobs ELSE begin # Len(output)
    /\ LET n == output[begin + 1]
           code == output[begin + 3]
           list == List(Len(decoded) + 1)
       IN  /\ decoded' = Append(decoded, code)
           /\ errors' = IF program = "check" /\ (n # Len(list) \/ code # Expected(list))
                        THEN errors \cup {Len(decoded) + 1} ELSE errors
    /\ begin' = begin + 3
    /\ UNCHANGED <<added, prepared, committed, finished, file, type, program, tmp, output, bvb, num_total_ints, pc>>

\* pef::decode: move(0) and n calls of next(), the first of which goes on to
\* position 1, the last to the end of the sequence, whose value is the universe.
PefDecode(part) == [i \in 1..part.n |-> IF i < part.n THEN part.code[i + 1] ELSE part.universe]

\* One round of decode_pef, which follows the offsets; no more lists than there
\* are are kept in `decoded'.
ReadPef ==
    /\ pc = "read" /\ type = "pef" /\ begin < bvb.size
    /\ IF begin \in DOMAIN bvb.at
       THEN /\ decoded' = IF Len(decoded) < NumJobs THEN Append(decoded, PefDecode(bvb.at[begin])) ELSE decoded
            /\ begin' = bvb.at[begin].next
       ELSE UNCHANGED <<decoded, begin>>    \* anything may be read here
    /\ UNCHANGED <<added, prepared, committed, finished, file, type, program, tmp, output, bvb, num_total_ints, pc, errors>>

AtEnd == IF type = "pef" THEN begin >= bvb.size
         ELSE IF program = "check" THEN Len(decoded) = NumJobs ELSE begin = Len(output)

EndReading ==
    /\ pc = "read" /\ AtEnd
    /\ pc' = "done"
    /\ UNCHANGED <<added, prepared, committed, finished, file, type, program, tmp, output, bvb, num_total_ints, begin, decoded, errors>>

Next == \/ AddJob \/ (\E j \in 1..NumJobs : Prepare(j)) \/ Commit \/ Inline \/ Save
        \/ Read \/ ReadPef \/ EndReading

\* Workers and the programs' own thread go on as long as they can.
Spec == Init /\ [][Next]_vars /\ WF_vars(Next)

-----------------------------------------------------------------------------
(* Properties.                                                             *)

\* What the variables range over, the counters at most what the file has.
TypeOK ==
    /\ pc \in {"encode", "read", "done"}
    /\ DOMAIN tmp \subseteq 1..added /\ \A j \in DOMAIN tmp : tmp[j].universe \in 0..(W - 1)
    /\ num_total_ints <= Sum([j \in 1..NumJobs |-> Len(List(j))])
    /\ begin \in 0..(Len(output) + bvb.size) /\ errors \subseteq 1..NumJobs

\* In whatever order jobs are prepared, a list is found where the one before it
\* says, and the end of the bit vector where the last one says.
PefChain ==
    \A o \in DOMAIN bvb.at : bvb.at[o].next \in DOMAIN bvb.at \cup {bvb.size}

\* check_dint finds nothing wrong with what encode_dint wrote.
NothingWrong == errors = {}

\* The lists can be had back from what decode gives, of pef from what it reads,
\* all of them, in order, and as many integers as encode counted.
AllDecoded ==
    pc = "done" =>
        /\ Len(decoded) = NumJobs
        /\ num_total_ints = Sum([j \in 1..NumJobs |-> Len(decoded[j])])
        /\ type # "pef" =>
            \A j \in 1..NumJobs :
                List(j) = [i \in DOMAIN decoded[j] |->
                    IF file.docs THEN Sum(SubSeq(decoded[j], 1, i)) + i - 1 ELSE decoded[j][i] + 1]

\* README.md: `we can decode sequentially all the lists in such file'.
PefDecodesLists ==
    pc = "done" /\ type = "pef" => decoded = file.lists
=============================================================================
