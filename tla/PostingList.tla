----------------------------- MODULE PostingList -----------------------------
(***************************************************************************)
(* A block-encoded posting list and its document_enumerator                *)
(* (include/dint/dict_posting_list.hpp; include/ds2i/block_posting_list.hpp *)
(* has the same write and enumerator).  get_blocks and write_blocks are    *)
(* block_posting_list's: the copy of get_blocks in dict_posting_list hands *)
(* the dictionary as a pointer to decode, which takes a reference, and     *)
(* cannot be instantiated.                                                 *)
(*                                                                         *)
(* The bytes behind the two tables are modelled as a sequence of coded     *)
(* parts, one for the doc gaps and one for the freqs of each block, and an *)
(* address is a number of parts.  A coder is a template parameter; its     *)
(* contract is Encode / Decode below.                                      *)
(*                                                                         *)
(* Blocks and positions are numbered from 0 as in the code, so block b has *)
(* its entry at index b + 1 of a TLA+ sequence.                            *)
(***************************************************************************)
EXTENDS Integers, Sequences, FiniteSets

CONSTANTS
    BlockSize,      \* Coder::block_size
    Universe,       \* the number of documents, m_universe
    Word,           \* 2^32: unsigned arithmetic wraps there
    Lists           \* posting lists [docs, freqs] a program may write

ASSUME BlockSizeAssumption == BlockSize \in Nat \ {0}
ASSUME UniverseAssumption == Universe \in Nat /\ Word \in Nat /\ Universe < Word

\* add_posting_list throws when there is no posting; docids increase and are
\* below the universe, freqs are positive words.
ASSUME ListsAssumption ==
    \A l \in Lists :
        /\ l.docs \in Seq(0..(Universe - 1)) /\ l.docs # <<>>
        /\ \A i \in 2..Len(l.docs) : l.docs[i - 1] < l.docs[i]
        /\ l.freqs \in [1..Len(l.docs) -> 1..(Word - 1)]

\* The uint32_t result of one addition or subtraction of two words.
UInt32(x) == IF x < 0 THEN x + Word ELSE IF x >= Word THEN x - Word ELSE x

\* uint32_t(-1)
NoSum == Word - 1

-----------------------------------------------------------------------------
(* The contract of a coder: what was encoded comes back when it is decoded *)
(* with the number of values and the sum it was encoded with.  The sum is  *)
(* the universe of interpolative_block, which codes short blocks, and      *)
(* NoSum there tells it to store the sum itself.                           *)

Encode(values, sum) == [values |-> values, sum |-> sum]

Decode(part, sum, n) ==
    IF sum = part.sum /\ n = Len(part.values)
    THEN part.values
    ELSE [i \in 1..n |-> NoSum]

-----------------------------------------------------------------------------
(* Writing.                                                                *)

Blocks(n) == (n + BlockSize - 1) \div BlockSize

BlockLen(n, b) == IF (b + 1) * BlockSize <= n THEN BlockSize ELSE n % BlockSize

\* last_doc once the first i postings are written.
LastDoc(l, i) == IF i = 0 THEN NoSum ELSE l.docs[i]

\* Mutant of BlockBase: the base is the last document, not the one after it.
BlockBase_LastDoc(l, b) == IF b = 0 THEN 0 ELSE LastDoc(l, b * BlockSize)

\* block_base of block b.
BlockBase(l, b) == IF b = 0 THEN 0 ELSE UInt32(LastDoc(l, b * BlockSize) + 1)

\* The docs_buf and the freqs_buf of block b ...
DocGaps(l, b) ==
    [i \in 1..BlockLen(Len(l.docs), b) |->
        LET p == b * BlockSize + i
        IN  UInt32(UInt32(l.docs[p] - LastDoc(l, p - 1)) - 1)]

Freqs(l, b) ==
    [i \in 1..BlockLen(Len(l.docs), b) |-> UInt32(l.freqs[b * BlockSize + i] - 1)]

\* ... its maximum, and the sum its gaps are encoded with.
BlockMax(l, b) == l.docs[b * BlockSize + BlockLen(Len(l.docs), b)]

GapsSum(max, base, size) == UInt32(UInt32(max - base) - (size - 1))

\* write()
Write(l) ==
    LET n == Len(l.docs)
        docs(b) == Encode(DocGaps(l, b),
                          GapsSum(BlockMax(l, b), BlockBase(l, b), BlockLen(n, b)))
        freqs(b) == Encode(Freqs(l, b), NoSum)
    IN  [n         |-> n,
         maxs      |-> [i \in 1..Blocks(n) |-> BlockMax(l, i - 1)],
         endpoints |-> [i \in 1..(Blocks(n) - 1) |-> 2 * i],
         data      |-> [p \in 1..(2 * Blocks(n)) |->
                            IF p % 2 = 1 THEN docs(p \div 2) ELSE freqs(p \div 2 - 1)]]

\* cur_base: where the docids of block b start, as read back from the maxima.
CurBase(s, b) == UInt32((IF b > 0 THEN s.maxs[b] ELSE NoSum) + 1)

\* get_blocks(): the parts are taken one after the other, as write() left them.
GetBlocks(s) ==
    [i \in 1..Blocks(s.n) |->
        LET size == BlockLen(s.n, i - 1)
        IN  [index |-> i - 1, max |-> s.maxs[i], size |-> size,
             doc_gaps_universe |-> GapsSum(s.maxs[i], CurBase(s, i - 1), size),
             docs |-> s.data[2 * i - 1], freqs |-> s.data[2 * i]]]

\* decode_doc_gaps and decode_freqs of a block of get_blocks().
DecodeDocGaps(block) == Decode(block.docs, block.doc_gaps_universe, block.size)
DecodeFreqs(block)   == Decode(block.freqs, NoSum, block.size)

\* write_blocks(): the blocks are copied in the order of the input, the tables
\* are in the order of the list.  The caller keeps block 0 first, for there is
\* no endpoint to find it by.
WriteBlocks(n, input) ==
    LET place(b) == CHOOSE i \in 1..Len(input) : input[i].index = b
    IN  [n         |-> n,
         maxs      |-> [i \in 1..Len(input) |-> input[place(i - 1)].max],
         endpoints |-> [i \in 1..(Len(input) - 1) |-> 2 * (place(i) - 1)],
         data      |-> [p \in 1..(2 * Len(input)) |->
                            IF p % 2 = 1 THEN input[p \div 2 + 1].docs
                                         ELSE input[p \div 2].freqs]]

\* The orders in which write_blocks can be given m blocks.
Orders(m) ==
    {order \in [1..m -> 0..(m - 1)] :
        /\ order[1] = 0
        /\ \A i, j \in 1..m : order[i] = order[j] => i = j}

Rewrite(s, order) ==
    WriteBlocks(s.n, [i \in DOMAIN order |-> GetBlocks(s)[order[i] + 1]])

-----------------------------------------------------------------------------
(* The enumerator.                                                         *)

VARIABLES
    list,           \* the posting list that was written
    stored,         \* what is stored of it
    cur,            \* the members of the enumerator
    answer,         \* what freq() returned for this posting, 0 if not asked
    asked,          \* no caller asks for a document below this any more
    call            \* the call in progress, and how many postings were behind
                    \* the enumerator when it was made

vars == <<list, stored, cur, answer, asked, call>>

block_max(b) == stored.maxs[b + 1]

NumBlocks == Blocks(stored.n)

\* Mutant of DecodeDocsBlock: the freqs of the block before stay decoded.
DecodeDocsBlock_FreqsKept(b) ==
    LET endpoint == IF b > 0 THEN stored.endpoints[b] ELSE 0
        size == BlockLen(stored.n, b)
        base == CurBase(stored, b)
        gaps == Decode(stored.data[endpoint + 1], GapsSum(block_max(b), base, size), size)
        docs == [gaps EXCEPT ![1] = UInt32(@ + base)]
    IN  [cur EXCEPT !.block = b, !.pos = 0, !.max = block_max(b), !.size = size,
                    !.docid = docs[1], !.docs = docs, !.freqs_data = endpoint + 2]

\* decode_docs_block(): the enumerator at the first posting of block b.
DecodeDocsBlock(b) ==
    LET endpoint == IF b > 0 THEN stored.endpoints[b] ELSE 0
        size == BlockLen(stored.n, b)
        base == CurBase(stored, b)
        gaps == Decode(stored.data[endpoint + 1], GapsSum(block_max(b), base, size), size)
        docs == [gaps EXCEPT ![1] = UInt32(@ + base)]
    IN  [cur EXCEPT !.block = b, !.pos = 0, !.max = block_max(b), !.size = size,
                    !.docid = docs[1], !.docs = docs, !.freqs_data = endpoint + 2,
                    !.freqs_decoded = FALSE]

position == cur.block * BlockSize + cur.pos

NoCall == [op |-> "none", bound |-> 0, from |-> 0]

\* A list is written, perhaps rewritten with its blocks in another order, and
\* an enumerator on it is constructed.
Init ==
    /\ list \in Lists
    /\ \/ stored = Write(list)
       \/ \E order \in Orders(Blocks(Len(list.docs))) : stored = Rewrite(Write(list), order)
    /\ cur = [block |-> 0, pos |-> 0, max |-> block_max(0), size |-> BlockLen(stored.n, 0),
              docid |-> list.docs[1],
              docs |-> Decode(stored.data[1],
                              GapsSum(block_max(0), 0, BlockLen(stored.n, 0)),
                              BlockLen(stored.n, 0)),
              freqs_data |-> 2, freqs_decoded |-> FALSE, freqs |-> <<>>]
    /\ answer = 0
    /\ asked = 0
    /\ call = NoCall

Idle == call = NoCall

\* The enumerator is at a posting.
Valid == cur.docid < Universe

\* How many postings are behind the enumerator.
Start == IF Valid THEN position ELSE stored.n

Reset ==
    /\ Idle
    /\ cur' = DecodeDocsBlock(0)
    /\ answer' = 0
    /\ asked' = 0
    /\ UNCHANGED <<list, stored, call>>

\* `m_cur_docid += m_docs_buf[++m_pos_in_block] + 1'
Advanced ==
    [cur EXCEPT !.pos = @ + 1, !.docid = UInt32(@ + UInt32(cur.docs[cur.pos + 2] + 1))]

\* next().  Queries stop at Universe: they never call it on an exhausted
\* enumerator.
NextDoc ==
    /\ Idle /\ Valid
    /\ cur' = IF cur.pos + 1 = cur.size
              THEN IF cur.block + 1 = NumBlocks
                   THEN [cur EXCEPT !.pos = @ + 1, !.docid = Universe]
                   ELSE DecodeDocsBlock(cur.block + 1)
              ELSE Advanced
    /\ answer' = 0
    /\ asked' = cur.docid + 1
    /\ UNCHANGED <<list, stored, call>>

\* The block next_geq skips to: the first one behind this one that may hold
\* lower_bound.
SkipTo(lower_bound) ==
    CHOOSE b \in (cur.block + 1)..(NumBlocks - 1) :
        /\ block_max(b) >= lower_bound
        /\ \A c \in (cur.block + 1)..(b - 1) : block_max(c) < lower_bound

\* next_geq() is called: blocks are skipped, the scan of ScanStep remains.
\* Queries ask for documents they have not passed: maxscore_query may ask for
\* one below docid(), but none asks for one below an earlier bound.
NextGeq(lower_bound) ==
    /\ Idle
    /\ lower_bound >= asked
    /\ cur' = IF lower_bound <= cur.max THEN cur
              ELSE IF lower_bound > block_max(NumBlocks - 1)
                   THEN [cur EXCEPT !.docid = Universe]
                   ELSE DecodeDocsBlock(SkipTo(lower_bound))
    /\ asked' = lower_bound
    /\ call' = [op |-> "next_geq", bound |-> lower_bound, from |-> Start]
    /\ UNCHANGED <<list, stored, answer>>

\* move() is called, with the precondition it asserts and a posting to go to.
Move(pos) ==
    /\ Idle /\ Valid
    /\ pos >= position /\ pos < stored.n
    /\ LET b == pos \div BlockSize
       IN  cur' = IF b # cur.block THEN DecodeDocsBlock(b) ELSE cur
    /\ asked' = IF cur.docid > asked THEN cur.docid ELSE asked
    /\ call' = [op |-> "move", bound |-> pos, from |-> Start]
    /\ UNCHANGED <<list, stored, answer>>

\* The loop that ends next_geq, or move, has not ended.
Scanning ==
    \/ call.op = "next_geq" /\ cur.docid < call.bound
    \/ call.op = "move" /\ position < call.bound

\* Mutant of ScanStep: the position is not advanced.
ScanStep_PositionKept ==
    /\ Scanning
    /\ cur' = [cur EXCEPT !.docid = UInt32(@ + UInt32(cur.docs[cur.pos + 1] + 1))]
    /\ UNCHANGED <<list, stored, answer, asked, call>>

ScanStep ==
    /\ Scanning
    /\ cur' = Advanced
    /\ UNCHANGED <<list, stored, answer, asked, call>>

Return ==
    /\ ~Idle /\ ~Scanning
    /\ answer' = 0
    /\ call' = NoCall
    /\ UNCHANGED <<list, stored, cur, asked>>

\* freq(): the freqs of a block are decoded when the first one is asked for.
Freq ==
    /\ Idle /\ Valid
    /\ cur' = IF cur.freqs_decoded THEN cur
              ELSE [cur EXCEPT !.freqs = Decode(stored.data[cur.freqs_data], NoSum, cur.size),
                               !.freqs_decoded = TRUE]
    /\ answer' = UInt32(cur'.freqs[cur.pos + 1] + 1)
    /\ UNCHANGED <<list, stored, asked, call>>

Next ==
    \/ Reset \/ NextDoc \/ Freq
    \/ \E lower_bound \in 0..Universe : NextGeq(lower_bound)
    \/ \E pos \in 0..(Universe - 1) : Move(pos)
    \/ ScanStep \/ Return

\* A call that was made is run to its end; nothing makes a caller call.
Fairness == WF_vars(ScanStep) /\ WF_vars(Return)

Spec == Init /\ [][Next]_vars /\ Fairness

-----------------------------------------------------------------------------
(* Properties.                                                             *)

TypeOK ==
    /\ list \in Lists
    /\ stored.n = Len(list.docs)
    /\ cur.block \in 0..(NumBlocks - 1)
    /\ cur.pos \in 0..cur.size
    /\ cur.size \in 1..BlockSize
    /\ cur.docid \in 0..Universe
    /\ cur.freqs_decoded \in BOOLEAN
    /\ answer \in 0..(Word - 1)
    /\ asked \in 0..Universe
    /\ call.op \in {"none", "next_geq", "move"}

\* Queries see the list that was written: in whatever order the blocks are
\* stored, whichever are skipped and whichever have their freqs decoded, the
\* enumerator is a cursor on the postings.  Past the end position() may be
\* anything, for next_geq leaves it alone there.
Cursor == INSTANCE PostingCursor WITH
    k <- (IF call.op # "none" THEN call.from ELSE Start) + 1,
    docid <- IF call.op # "none" THEN
                 IF call.from < Len(list.docs) THEN list.docs[call.from + 1] ELSE Universe
             ELSE cur.docid,
    call <- [op |-> call.op, bound |-> call.bound]

RefinesPostingCursor == Cursor!CSpec

\* What the enumerator has cached belongs to the block it is in.
CacheCurrent ==
    /\ cur.max = block_max(cur.block)
    /\ cur.size = BlockLen(stored.n, cur.block)
    /\ \A i \in 2..cur.size : cur.docs[i] = DocGaps(list, cur.block)[i]
    /\ cur.freqs_decoded => cur.freqs = Freqs(list, cur.block)

\* get_blocks() hands out the blocks of a list as it was written, so that
\* write_blocks() with them in the order of the list gives the list back.
BlocksSurvive ==
    LET written == Write(list)
        blocks == GetBlocks(written)
    IN  /\ WriteBlocks(written.n, blocks) = written
        /\ \A b \in 0..(Len(blocks) - 1) :
            /\ DecodeDocGaps(blocks[b + 1]) = DocGaps(list, b)
            /\ DecodeFreqs(blocks[b + 1]) = Freqs(list, b)

\* next_geq and move return.
CallsReturn == call.op # "none" ~> call.op = "none"

-----------------------------------------------------------------------------
(* The lists that TLC is given.                                            *)

\* Every nonempty set of documents, with freqs that differ from block to block.
Sorted(S) ==
    [i \in 1..Cardinality(S) |-> CHOOSE x \in S : Cardinality({y \in S : y <= x}) = i]

AllLists ==
    {[docs |-> Sorted(S), freqs |-> [i \in 1..Cardinality(S) |-> 1 + ((3 * i) % 7)]] :
        S \in SUBSET (0..(Universe - 1)) \ {{}}}
=============================================================================
