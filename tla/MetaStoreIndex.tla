---------------------------- MODULE MetaStoreIndex ----------------------------
(***************************************************************************)
(* The two lookup indices of MetaStore (openmeta/meta_store.cc) and the    *)
(* searches over them.  An entry id is an index from 0, as in the code.    *)
(*                                                                         *)
(* The operators take what the index depends on and nothing else: for each *)
(* entry the record [key, block, order, deleted], key being what the key's *)
(* spans read as in the store's arena.                                     *)
(***************************************************************************)
EXTENDS MetaKey, SequencesExt

Live(rows) == {id \in 0..Len(rows) - 1 : ~rows[id + 1].deleted}

\* struct EntryIdLessByBlock: (origin.block, origin.order_in_block, id).
LessByBlock(rows, a, b) ==
    LET ra == rows[a + 1]
        rb == rows[b + 1]
    IN  \/ ra.block < rb.block
        \/ ra.block = rb.block /\ ra.order < rb.order
        \/ ra.block = rb.block /\ ra.order = rb.order /\ a < b

\* struct EntryIdLessByKey: (compare_key, id).
LessByKey(rows, a, b) ==
    LET cmp == CompareViews(rows[a + 1].key, rows[b + 1].key)
    IN  cmp < 0 \/ (cmp = 0 /\ a < b)

\* std::sort() with a comparator that is a strict total order: in place i is the
\* id with i - 1 ids before it.
Sorted(ids, before) ==
    [i \in 1..Cardinality(ids) |->
        CHOOSE a \in ids : Cardinality({b \in ids : <<b, a>> \in before}) = i - 1]

SortIdsByBlock(rows) ==
    LET ids == Live(rows)
    IN  Sorted(ids, {p \in ids \X ids : LessByBlock(rows, p[1], p[2])})

SortIdsByKey_KeepsDeleted(rows) ==                               \* mutant
    LET ids == 0..Len(rows) - 1
    IN  Sorted(ids, {p \in ids \X ids : LessByKey(rows, p[1], p[2])})

SortIdsByKey(rows) ==
    LET ids == Live(rows)
    IN  Sorted(ids, {p \in ids \X ids : LessByKey(rows, p[1], p[2])})

\* rebuild_block_index(): one span per declared block; ids whose block is not
\* declared stay outside every span, and an empty block's span starts where
\* the next non-empty one does.
BlockPlaces(rows, sorted, b) == {i \in 1..Len(sorted) : rows[sorted[i] + 1].block = b}

BlockStart(rows, blocks, sorted, b) ==
    LET from == UNION {BlockPlaces(rows, sorted, c) : c \in b..blocks - 1}
    IN  IF from = {} THEN Len(sorted) ELSE FirstOf(from) - 1

BlockSpans(rows, blocks, sorted) ==
    [b \in 0..blocks - 1 |-> [start |-> BlockStart(rows, blocks, sorted, b),
                              count |-> Cardinality(BlockPlaces(rows, sorted, b))]]

\* rebuild_key_index(): maximal runs of equal keys, each named by its first id.
\* The i-th turn of the loop opens a run or makes the last one longer.
AddToRuns(rows, sorted, runs, i) ==
    LET id   == sorted[i]
        last == runs[Len(runs)]
    IN  IF runs # <<>> /\ CompareViews(rows[last.repr + 1].key, rows[id + 1].key) = 0
        THEN [runs EXCEPT ![Len(runs)].count = @ + 1]
        ELSE Append(runs, [start |-> i - 1, count |-> 1, repr |-> id])

KeyRuns(rows, sorted) ==
    LET runs[i \in 0..Len(sorted)] ==
            IF i = 0 THEN <<>> ELSE AddToRuns(rows, sorted, runs[i - 1], i)
    IN  runs[Len(sorted)]

NoIndex == [byBlock |-> <<>>, blockSpans |-> <<>>, byKey |-> <<>>, keySpans |-> <<>>]

BuildIndex(rows, blocks) ==
    LET byBlock == SortIdsByBlock(rows)
        byKey   == SortIdsByKey(rows)
    IN  [byBlock    |-> byBlock,
         blockSpans |-> BlockSpans(rows, blocks, byBlock),
         byKey      |-> byKey,
         keySpans   |-> KeyRuns(rows, byKey)]

-----------------------------------------------------------------------------
\* make_entry_id_span(): empty when the span leaves the vector.
IdSpan(ids, start, count) ==
    IF start > Len(ids) \/ count > Len(ids) - start
    THEN <<>>
    ELSE SubSeq(ids, start + 1, start + count)

\* find_all(): binary search for the run whose key equals the view.  A turn of
\* its loop looks at the middle one of runs at[1] + 1 .. at[2].
SearchRuns(rows, index, view, search, at) ==
    LET mid == at[1] + (at[2] - at[1]) \div 2
        run == index.keySpans[mid + 1]
        cmp == CompareViews(view, rows[run.repr + 1].key)
    IN  IF at[1] >= at[2] THEN <<>>
        ELSE IF cmp = 0 THEN IdSpan(index.byKey, run.start, run.count)
        ELSE IF cmp < 0 THEN search[<<at[1], mid>>]
        ELSE search[<<mid + 1, at[2]>>]

FindAll(rows, index, view) ==
    LET ends == 0..Len(index.keySpans)
        search[at \in ends \X ends] == SearchRuns(rows, index, view, search, at)
    IN  search[<<0, Len(index.keySpans)>>]

\* entries_in_block().
EntriesInBlock(index, b) ==
    IF b \in DOMAIN index.blockSpans
    THEN IdSpan(index.byBlock, index.blockSpans[b].start, index.blockSpans[b].count)
    ELSE <<>>

-----------------------------------------------------------------------------
\* What the searches are for, stated without any index.
IsExactly(ids, wanted) == ToSet(ids) = wanted /\ Len(ids) = Cardinality(wanted)

FindAllExact(rows, index, view) ==
    LET ids == FindAll(rows, index, view)
    IN  /\ IsExactly(ids, {id \in Live(rows) : rows[id + 1].key = view})
        /\ \A i, j \in 1..Len(ids) : i < j => ids[i] < ids[j]

EntriesInBlockExact(rows, index, b) ==
    LET ids == EntriesInBlock(index, b)
    IN  /\ IsExactly(ids, {id \in Live(rows) : rows[id + 1].block = b})
        /\ \A i, j \in 1..Len(ids) : i < j =>
               \/ rows[ids[i] + 1].order < rows[ids[j] + 1].order
               \/ rows[ids[i] + 1].order = rows[ids[j] + 1].order /\ ids[i] < ids[j]
=============================================================================
