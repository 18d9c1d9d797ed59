------------------------------- MODULE MCDint -------------------------------
(***************************************************************************)
(* Instances of what codes with dictionaries, for TLC: one full block with *)
(* a single dictionary (DintBlock) or with several (MultiDintBlock), whole *)
(* lists (DintList) and the programs that encode a data set                *)
(* (DatasetEncoder).  `part' is what a behaviour is about; the variables   *)
(* of the others are not used in it.                                       *)
(***************************************************************************)
EXTENDS DintBlock

\* Targets of up to four integers, runs of eight and of four zeros.
ScaledRuns  == <<8, 4>>
ScaledSizes == <<4, 2, 1>>

\* Blocks of 0, of a small value and of one that needs a large exception: those
\* with at most two integers that are not 0, and those whose halves are equal.
SomeInputs ==
    {i \in [1..BlockSize -> {0, 1, 2}] :
        \/ Cardinality({p \in 1..BlockSize : i[p] # 0}) <= 2
        \/ \A p \in 1..(BlockSize - 4) : i[p] = i[p + 4]}

\* No target at all; targets of every size, some of which share the table or
\* repeat a run; targets that lie on the zeros in front of the table.
ScaledDictionaries == {
    [targets |-> <<>>, table |-> <<0, 0, 0, 0>>],
    [targets |-> <<<<1>>, <<1, 0>>, <<0, 1, 0, 2>>, <<2>>, <<0, 0, 0, 0>>, <<2, 1>>>>,
     table |-> <<0, 0, 0, 0, 0, 1, 0, 2, 1>>],
    [targets |-> <<<<0>>, <<0, 1>>, <<0, 0>>, <<1, 1, 2, 0>>>>,
     table |-> <<0, 0, 0, 0, 1, 1, 2, 0>>]}

\* Two dictionaries in a table, some codewords of which are beyond a byte of
\* three bits; 70 needs a large exception.
Table == <<0, 0, 0, 0, 0, 1, 0, 0, 2, 1, 70, 1, 2, 0, 0, 0, 0>>
SomeMultiDictionaries ==
    {<<[targets |-> <<<<0>>, <<1>>, <<0, 0>>, <<2>>, <<0, 0, 0, 0>>, <<1, 0>>, <<2, 1>>, <<70>>, <<1>>, <<2>>, <<2>>, <<2>>>>, table |-> Table],
       [targets |-> <<<<70>>, <<1, 0, 0, 2>>, <<0, 1>>, <<1, 2>>, <<0>>, <<2, 0>>, <<2>>, <<2>>>>, table |-> Table]>>,
     <<[targets |-> <<>>, table |-> Table],
       [targets |-> <<<<0, 0>>, <<1, 0>>, <<0, 0, 0, 0>>, <<2, 1>>, <<1>>, <<2>>, <<0>>, <<0>>, <<1>>>>, table |-> Table]>>}
SomeMultiInputs ==
    {i \in [1..BlockSize -> {0, 1, 70}] : Cardinality({p \in 1..BlockSize : i[p] # 0}) <= 1}
        \cup {i \in [1..BlockSize -> {0, 1, 2}] : \A p \in 1..(BlockSize - 4) : i[p] = i[p + 4]}

\* A first list that leaves integers behind it, and second ones of every length:
\* any of up to three integers, and those with runs.  In a buffer of twelve a list
\* of nine is followed by less than a longest target, one of eight is not.
Second == UNION {[1..l -> {0, 1, 3}] : l \in 1..3}
            \cup {[i \in 1..l |-> IF i = p THEN v ELSE 0] : l \in {4, 5, 7, 8, 9}, p \in {1, 4, 5, 9}, v \in {1, 3}}
SomeLists ==
    {<<<<1, 0, 2, 1, 1, 2, 2, 1, 3>>, second>> : second \in Second}
        \cup {<<<<1, 0, 2, 1, 2, 2, 1, 3>>, [i \in 1..l |-> IF i = p THEN 1 ELSE 0]>> : l \in {4, 8}, p \in {1, 4}}
ListDictionaries == {
    [targets |-> <<>>, table |-> <<0, 0, 0, 0>>],
    [targets |-> <<<<1>>, <<1, 0>>, <<0, 1, 0, 2>>, <<2>>, <<0, 0, 0, 0>>, <<2, 1>>, <<0, 0>>>>,
     table |-> <<0, 0, 0, 0, 0, 1, 0, 2, 1>>],
    [targets |-> <<<<0>>, <<0, 1>>, <<0, 0>>, <<1, 1, 2, 2>>>>,
     table |-> <<0, 0, 0, 0, 1, 1, 2, 2>>]}

\* Documents from 0 on, next to each other and apart; frequencies from 1 on.
SomeFiles ==
    {[docs |-> TRUE, lists |-> <<l, m, <<2>>>>] : l, m \in {<<0>>, <<5>>, <<0, 1>>, <<1, 2, 5>>, <<0, 4>>}}
        \cup {[docs |-> FALSE, lists |-> <<l, <<3>>, m>>] : l, m \in {<<1>>, <<1, 1>>, <<2, 1, 4>>}}

VARIABLES
    part, stage,                                        \* stage: pc of the other parts
    dicts, selector, width, encoded, buf,               \* of MultiDintBlock
    lists, coder, program, k, reach, decoded, errors,   \* of DintList
    added, prepared, committed, finished,               \* of DatasetEncoder, as the following
    file, type, tmp, output, bvb, num_total_ints, begin

Multi == INSTANCE MultiDintBlock WITH
            Byte <- 8, Inputs <- SomeMultiInputs, MultiDictionaries <- SomeMultiDictionaries,
            pc <- stage, s <- selector, b <- width
List == INSTANCE DintList WITH
            SmallLimit <- 3, Lists <- SomeLists, Longest <- 12, Dictionaries <- ListDictionaries, pc <- stage
Dataset == INSTANCE DatasetEncoder WITH
            NumJobs <- 3, Files <- SomeFiles, W <- 64, pc <- stage

ASSUME /\ Multi!SizesAssumption /\ Multi!TargetSizesAssumption
       /\ Multi!InputsAssumption /\ Multi!MultiDictionariesAssumption
ASSUME List!SizesAssumption /\ List!ListsAssumption /\ List!DictionariesAssumption
ASSUME Dataset!WAssumption /\ Dataset!FilesAssumption

blockVars == <<encoder, pc, code>>
multiVars == <<dicts, selector, width, encoded, buf>>
listVars == <<lists, coder, k, reach>>
datasetVars == <<added, prepared, committed, finished, file, type, tmp, output, bvb, num_total_ints, begin>>
checkVars == <<program, decoded, errors>>                   \* of lists and data sets
codecVars == <<pos, path, ptr, out>>                        \* of all but data sets
mcvars == <<part, stage, in, dict, blockVars, multiVars, listVars, datasetVars, checkVars, codecVars>>

Unused(v) == v = "unused"
BlockUnused == Unused(encoder) /\ Unused(code) /\ Unused(pc)
MultiUnused == Unused(dicts) /\ Unused(selector) /\ Unused(width) /\ Unused(encoded) /\ Unused(buf)
ListUnused == Unused(lists) /\ Unused(coder) /\ Unused(k) /\ Unused(reach)
CheckUnused == Unused(program) /\ Unused(decoded) /\ Unused(errors)
DatasetUnused ==
    /\ Unused(added) /\ Unused(prepared) /\ Unused(committed) /\ Unused(finished) /\ Unused(file) /\ Unused(type)
    /\ Unused(tmp) /\ Unused(output) /\ Unused(bvb) /\ Unused(num_total_ints) /\ Unused(begin)

MCInit ==
    \/ /\ part = "block" /\ Init
       /\ Unused(stage) /\ MultiUnused /\ ListUnused /\ CheckUnused /\ DatasetUnused
    \/ /\ part = "multi" /\ Multi!Init
       /\ Unused(dict) /\ BlockUnused /\ ListUnused /\ CheckUnused /\ DatasetUnused
    \/ /\ part = "list" /\ List!Init
       /\ Unused(in) /\ BlockUnused /\ MultiUnused /\ DatasetUnused
    \/ /\ part = "dataset" /\ Dataset!Init
       /\ Unused(in) /\ Unused(dict) /\ BlockUnused /\ MultiUnused /\ ListUnused
       /\ Unused(pos) /\ Unused(path) /\ Unused(ptr) /\ Unused(out)

BlockPart ==
    part = "block" /\ UNCHANGED <<part, stage, multiVars, listVars, datasetVars, checkVars>>
MultiPart ==
    part = "multi" /\ UNCHANGED <<part, dict, blockVars, listVars, datasetVars, checkVars>>
ListPart ==
    part = "list" /\ UNCHANGED <<part, in, blockVars, multiVars, datasetVars>>
DatasetPart ==
    part = "dataset" /\ UNCHANGED <<part, in, dict, blockVars, multiVars, listVars, codecVars>>

MCStep ==
    \/ BlockPart /\ GreedyStep
    \/ BlockPart /\ RelaxStep
    \/ BlockPart /\ EncodeEnd
    \/ BlockPart /\ TraceStep
    \/ BlockPart /\ TraceEnd
    \/ BlockPart /\ DecodeStep
    \/ BlockPart /\ DecodeEnd
    \/ MultiPart /\ Multi!RelaxStep
    \/ MultiPart /\ Multi!EncodeEnd
    \/ MultiPart /\ Multi!WriteBest
    \/ MultiPart /\ Multi!DecodeStep
    \/ MultiPart /\ Multi!DecodeEnd
    \/ ListPart /\ List!GreedyStep
    \/ ListPart /\ List!OptStep
    \/ ListPart /\ List!EncodeEnd
    \/ ListPart /\ List!DecodeStep
    \/ ListPart /\ List!ListEnd
    \/ DatasetPart /\ Dataset!AddJob
    \/ \E j \in 1..3 : DatasetPart /\ Dataset!Prepare(j)
    \/ DatasetPart /\ Dataset!Commit
    \/ DatasetPart /\ Dataset!Inline
    \/ DatasetPart /\ Dataset!Save
    \/ DatasetPart /\ Dataset!Read
    \/ DatasetPart /\ Dataset!ReadPef
    \/ DatasetPart /\ Dataset!EndReading

Ended == IF part = "block" THEN pc = "done" ELSE stage = "done"

MCNext == MCStep \/ (Ended /\ UNCHANGED mcvars)

\* The programs' loops, and the worker threads, go on as long as they can.
MCSpec == MCInit /\ [][MCNext]_mcvars /\ WF_mcvars(MCStep)

-----------------------------------------------------------------------------
(* Properties.                                                             *)

\* What the variables range over: decoders end where their input does, and what
\* copy() writes, longer than the entry is, never leaves the buffer of a block, of
\* a list is less than max_entry_size behind its end, and is never left where a
\* longer run relies on zeros.
CodersTypeOK ==
    CASE part = "block" -> TypeOK /\ DirtBounded
      [] part = "multi" -> Multi!TypeOK /\ Multi!DirtBounded
      [] part = "list" -> List!TypeOK /\ List!CleanBetweenLists /\ List!WritesBounded
      [] part = "dataset" -> Dataset!TypeOK

\* Blocks coded with any of several dictionaries, lists that follow each other
\* in a file and whole data sets are had back, and the programs that check what
\* was encoded find nothing wrong.  No shorter way of codewords is there than
\* those of the optimal encoders; of the codes of several dictionaries in two
\* widths the smallest is written.
OthersFaithful ==
    CASE part = "multi" -> Multi!RoundTrip /\ Multi!SmallestChosen /\ Multi!WideIsShortest
      [] part = "list" -> List!NothingWrong /\ List!OptimalIsShortest
      [] part = "dataset" -> Dataset!NothingWrong /\ Dataset!AllDecoded /\ Dataset!PefChain
      [] OTHER -> TRUE

\* Every encoder and decoder ends, although the decoders' loops end only when
\* they meet the end of their input exactly.
CodersEnd == <>Ended

\* README.md: `we can decode sequentially all the lists in such file'; decode
\* reads them one behind the other into a buffer.
DecodedLists == part = "list" => List!DecodedLists

\* The same of a file that encode wrote with pef.
PefDecodesLists == part = "dataset" => Dataset!PefDecodesLists
=============================================================================
