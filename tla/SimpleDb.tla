------------------------------ MODULE SimpleDb ------------------------------
(***************************************************************************)
(* simpledb: a table kept as a B-tree of pages, one internal root above    *)
(* its leaves, cached by a pager and written to a file by .exit.           *)
(*                                                                         *)
(* A page is a record.  A leaf keeps its cells as a sequence of key and    *)
(* row; the row is represented by its id.  Two facts of the byte layout    *)
(* are kept because the behaviour depends on them:                         *)
(*  - row_write_to_buffer copies EMAIL_SIZE+1 bytes, one more than a cell  *)
(*    has (row.c:39): the padding byte of struct Row, whatever the stack   *)
(*    held (pad), lands in the low byte of the key of the next cell;       *)
(*  - internal_node_key adds INTERNAL_NODE_CHILD_SIZE to a uint32_t*       *)
(*    (node.c:127): key i is word 2i+4 of the body, child i is word 2i, so *)
(*    key 0 and child 2 are the same word and moving a cell moves its      *)
(*    child alone.                                                         *)
(***************************************************************************)
EXTENDS Integers, Sequences, FiniteSets, FiniteSetsExt, SequencesExt

CONSTANTS Keys,                 \* ids a user inserts
          LEAF_NODE_MAX_CELLS,  \* 55 in the code
          INTERNAL_NODE_MAX_CELLS,  \* 3
          Pads,                 \* values the padding byte may have
          Junk,                 \* values a word never written may hold
          Ascending,            \* TRUE: new ids come in ascending order
          MaxRows               \* bound: rows in the table

ASSUME DbAssumption ==
    /\ Keys \subseteq Nat
    /\ LEAF_NODE_MAX_CELLS \in Nat \ {0}
    /\ INTERNAL_NODE_MAX_CELLS \in Nat \ {0}
    /\ Pads \subseteq 0..255 /\ Pads # {} /\ Junk \subseteq Nat /\ Junk # {}
    /\ Ascending \in BOOLEAN /\ MaxRows \in Nat

RIGHT_SPLIT_COUNT == (LEAF_NODE_MAX_CELLS + 1) \div 2
LEFT_SPLIT_COUNT  == (LEAF_NODE_MAX_CELLS + 1) - RIGHT_SPLIT_COUNT

VARIABLES
    status,   \* "down", "up", "closing" (db_close running), "torn": the
              \* file mixes two trees, "undefined": a search left the tree
    pages,    \* pager->pages, from page 0
    flushed,  \* pages written by the db_close that runs
    file,     \* the pages of the database file
    pad,      \* the padding byte of main's statement.row_insert
    reply,    \* what the last statement printed: a message, rows
    accepted, \* history: how often an insert of an id printed "Executed."
    savedIds  \* history: accepted when the file was last complete

vars == <<status, pages, flushed, file, pad, reply, accepted, savedIds>>

-----------------------------------------------------------------------------
(* Nodes.                                                                  *)

Leaf(root, cells, next) ==
    [type |-> "leaf", root |-> root, parent |-> 0, cells |-> cells,
     next |-> next]

\* internal_node_key and internal_node_child on the words of the body.
KeyWord(i) == 2 * i + 4

InternalKey(node, i) == node.word[KeyWord(i)]

InternalChild(node, i) == IF i = node.num THEN node.right ELSE node.word[2 * i]

\* A page that was a leaf and is re-initialised keeps old bytes as words.
Words == 0..KeyWord(INTERNAL_NODE_MAX_CELLS)

PageLeaves(pg) == {n \in DOMAIN pg : pg[n].type = "leaf"}

MaxKey(leaf) == Last(leaf.cells).key     \* get_node_max_key

\* Binary search of leaf_node_find: the position of key or where it belongs.
\* The bounds of this search and the next never cross.
LeafFind(leaf, key) ==
    LET n == Len(leaf.cells)
        Search[r \in (0..n) \X (0..n)] ==
            LET lo == r[1]
                hi == r[2]
                m  == (lo + hi) \div 2
                at == leaf.cells[m + 1].key
            IN  IF lo >= hi THEN lo
                ELSE IF key = at THEN m
                ELSE IF key < at THEN Search[<<lo, m>>] ELSE Search[<<m + 1, hi>>]
    IN  Search[<<0, n>>]

\* Variant: > for >=.
FindChild_Strict(node, key) ==
    LET Search[r \in (0..node.num) \X (0..node.num)] ==
            LET lo == r[1]
                hi == r[2]
                m  == (lo + hi) \div 2
            IN  IF lo >= hi THEN lo
                ELSE IF InternalKey(node, m) > key THEN Search[<<lo, m>>]
                ELSE Search[<<m + 1, hi>>]
    IN  Search[<<0, node.num>>]

\* Binary search of internal_node_find_child.
FindChild(node, key) ==
    LET Search[r \in (0..node.num) \X (0..node.num)] ==
            LET lo == r[1]
                hi == r[2]
                m  == (lo + hi) \div 2
            IN  IF lo >= hi THEN lo
                ELSE IF InternalKey(node, m) >= key THEN Search[<<lo, m>>]
                ELSE Search[<<m + 1, hi>>]
    IN  Search[<<0, node.num>>]

\* table_find: the leaf page and the cell for key (the tree has two levels:
\* an internal node is never split).
FindPage(pg, key) ==
    IF pg[0].type = "leaf" THEN 0
    ELSE InternalChild(pg[0], FindChild(pg[0], key))

\* The low byte of the key of a cell overwritten by the padding byte.
Clobber(cell, p) == [cell EXCEPT !.key = 256 * (@ \div 256) + p]

\* The cells with the new one at index i (from 0).  The write of the row
\* spills into cell i + 1 unless that cell is in another node.
Spliced(cells, i, key, p, boundary) ==
    LET rest == SubSeq(cells, i + 1, Len(cells))
    IN  SubSeq(cells, 1, i)
        \o <<[key |-> key, row |-> key]>>
        \o (IF rest = <<>> \/ i + 1 = boundary THEN rest
            ELSE <<Clobber(Head(rest), p)>> \o Tail(rest))

-----------------------------------------------------------------------------
(* leaf_node_insert and what it calls, as functions on the cached pages.   *)

InsertIntoLeaf(pg, page, i, key, p) ==
    [pg EXCEPT ![page].cells = Spliced(@, i, key, p, -1)]

\* Variant: the new leaf does not take over next_leaf.
SplitLeaf_CutsChain(pg, page, i, key, p) ==
    LET all == Spliced(pg[page].cells, i, key, p, LEFT_SPLIT_COUNT)
        new == Cardinality(DOMAIN pg)
    IN  [n \in 0..new |->
           IF n = new
           THEN Leaf(FALSE, SubSeq(all, LEFT_SPLIT_COUNT + 1, Len(all)), 0)
           ELSE IF n = page
           THEN [pg[page] EXCEPT !.cells = SubSeq(all, 1, LEFT_SPLIT_COUNT),
                                 !.next = new]
           ELSE pg[n]]

\* The loop of leaf_node_split_and_insert: old node, new node.
SplitLeaf(pg, page, i, key, p) ==
    LET all == Spliced(pg[page].cells, i, key, p, LEFT_SPLIT_COUNT)
        new == Cardinality(DOMAIN pg)
    IN  [n \in 0..new |->
           IF n = new
           THEN [Leaf(FALSE, SubSeq(all, LEFT_SPLIT_COUNT + 1, Len(all)),
                      pg[page].next) EXCEPT !.parent = pg[page].parent]
           ELSE IF n = page
           THEN [pg[page] EXCEPT !.cells = SubSeq(all, 1, LEFT_SPLIT_COUNT),
                                 !.next = new]
           ELSE pg[n]]

\* create_new_root: the old root moves to a new page, page 0 becomes the
\* internal node above it and the new right leaf.
NewRoot(pg, right, junk) ==
    LET left == Cardinality(DOMAIN pg)
    IN  [n \in 0..left |->
           IF n = left THEN [pg[0] EXCEPT !.root = FALSE, !.parent = 0]
           ELSE IF n = right THEN [pg[right] EXCEPT !.parent = 0]
           ELSE IF n = 0
           THEN [type |-> "internal", root |-> TRUE, num |-> 1,
                 right |-> right,
                 word |-> [w \in Words |->
                             CASE w = 0 -> left
                               [] w = KeyWord(0) -> MaxKey(pg[0])
                               [] OTHER -> junk]]
           ELSE pg[n]]

\* update_internal_node_key
UpdateKey(node, oldKey, newKey) ==
    [node EXCEPT !.word[KeyWord(FindChild(node, oldKey))] = newKey]

\* internal_node_insert below MAX_CELLS, with the parent's keys and children
\* written in the code's order: key 0 and child 2 are one word.
InternalInsert(pg, node, child) ==
    LET max   == MaxKey(pg[child])
        index == FindChild(node, max)
        n     == node.num
        grown == [node EXCEPT !.num = n + 1]
        moved == [grown EXCEPT !.word =
                    [w \in Words |-> IF w \in (2 * index + 2)..(2 * n + 1)
                                     THEN grown.word[w - 2]
                                     ELSE grown.word[w]]]
    IN  IF max > MaxKey(pg[node.right])
        THEN [grown EXCEPT !.word[2 * n] = node.right,
                           !.word[KeyWord(n)] = MaxKey(pg[node.right]),
                           !.right = child]
        ELSE [moved EXCEPT !.word[2 * index] = child,
                           !.word[KeyWord(index)] = max]

-----------------------------------------------------------------------------
NoPages == [n \in {} |-> 0]
NoIds   == [k \in Keys |-> 0]

Said(what)    == [kind |-> what, rows |-> <<>>]
Printed(rows) == [kind |-> "rows", rows |-> rows]

Ids(count) == {k \in Keys : count[k] > 0}

Init == /\ status = "down" /\ pages = NoPages /\ flushed = 0
        /\ file = NoPages /\ pad \in Pads /\ reply = Said("none")
        /\ accepted = NoIds /\ savedIds = NoIds

\* main and db_open; the pages of the file are loaded when first used, which
\* nothing can tell from loading them here.
Open ==
    /\ status = "down"
    /\ status' = "up" /\ reply' = Said("none") /\ accepted' = savedIds
    /\ pages' = IF file = NoPages THEN [n \in {0} |-> Leaf(TRUE, <<>>, 0)]
                ELSE file
    /\ pad' \in Pads
    /\ UNCHANGED <<flushed, file, savedIds>>

-----------------------------------------------------------------------------
(* execute_insert.  The workload: any ids, or new ids in ascending order.  *)

CursorPage(k) == FindPage(pages, k)
CursorCell(k) == LeafFind(pages[CursorPage(k)], k)

\* The search for k ends in a leaf.  Otherwise internal_node_find recurses
\* on the root for ever or reads a page nobody wrote.
InTree(k) == CursorPage(k) \in DOMAIN pages /\ pages[CursorPage(k)].type = "leaf"

\* Variant: no check for a duplicate.
AtCursor_Never(k) == FALSE

AtCursor(k) == LET cells == pages[CursorPage(k)].cells
               IN  /\ CursorCell(k) < Len(cells)
                   /\ cells[CursorCell(k) + 1].key = k

Total == FoldSet(LAMBDA k, sum : sum + accepted[k], 0, Keys)

Wanted(k) == /\ status = "up" /\ InTree(k)
             /\ Total < MaxRows \/ AtCursor(k)
             /\ Ascending => \/ k \in Ids(accepted)
                             \/ \A j \in Ids(accepted) : k > j

InsertDuplicate(k) ==
    /\ Wanted(k) /\ AtCursor(k)
    /\ reply' = Said("duplicate")
    /\ UNCHANGED <<status, pages, flushed, file, pad, accepted, savedIds>>

Full(k) == Len(pages[CursorPage(k)].cells) >= LEAF_NODE_MAX_CELLS

InsertFits(k) ==
    /\ Wanted(k) /\ ~AtCursor(k) /\ ~Full(k)
    /\ pages' = InsertIntoLeaf(pages, CursorPage(k), CursorCell(k), k, pad)
    /\ reply' = Said("executed") /\ accepted' = [accepted EXCEPT ![k] = @ + 1]
    /\ UNCHANGED <<status, flushed, file, pad, savedIds>>

InsertSplitsRoot(k) ==
    /\ Wanted(k) /\ ~AtCursor(k) /\ Full(k) /\ pages[CursorPage(k)].root
    /\ LET split == SplitLeaf(pages, CursorPage(k), CursorCell(k), k, pad)
       IN  \E junk \in Junk :
             pages' = NewRoot(split, Cardinality(DOMAIN pages), junk)
    /\ reply' = Said("executed") /\ accepted' = [accepted EXCEPT ![k] = @ + 1]
    /\ UNCHANGED <<status, flushed, file, pad, savedIds>>

InsertSplitsLeaf(k) ==
    /\ Wanted(k) /\ ~AtCursor(k) /\ Full(k) /\ ~pages[CursorPage(k)].root
    /\ pages[0].num < INTERNAL_NODE_MAX_CELLS
    /\ LET old   == CursorPage(k)
           new   == Cardinality(DOMAIN pages)
           split == SplitLeaf(pages, old, CursorCell(k), k, pad)
           node  == UpdateKey(pages[0], MaxKey(pages[old]), MaxKey(split[old]))
       IN  pages' = [split EXCEPT ![0] = InternalInsert(split, node, new)]
    /\ reply' = Said("executed") /\ accepted' = [accepted EXCEPT ![k] = @ + 1]
    /\ UNCHANGED <<status, flushed, file, pad, savedIds>>

\* The process and its memory are gone; the file is as it was.
Gone == /\ pages' = NoPages /\ flushed' = 0 /\ reply' = Said("none")
        /\ accepted' = NoIds

\* "Need to implement splitting internal node", exit(EXIT_FAILURE).
InsertExits(k) ==
    /\ Wanted(k) /\ ~AtCursor(k) /\ Full(k) /\ ~pages[CursorPage(k)].root
    /\ pages[0].num >= INTERNAL_NODE_MAX_CELLS
    /\ status' = "down" /\ Gone
    /\ UNCHANGED <<file, pad, savedIds>>

InsertAstray(k) ==
    /\ status = "up" /\ ~InTree(k)
    /\ status' = "undefined" /\ Gone
    /\ UNCHANGED <<file, pad, savedIds>>

-----------------------------------------------------------------------------
(* execute_select: table_start, then cursor_advance along next_leaf.       *)

LeafRows(leaf) == [i \in 1..Len(leaf.cells) |-> leaf.cells[i].row]

\* The rows met from the start of a leaf to the end of its chain.
RowsFrom(pg, page) ==
    LET Follow[r \in PageLeaves(pg) \X (0..Cardinality(DOMAIN pg))] ==
            LET leaf == pg[r[1]]
                fuel == r[2]
            IN  IF fuel = 0 THEN <<>>
                ELSE LeafRows(leaf)
                     \o (IF leaf.next = 0 THEN <<>>
                         ELSE Follow[<<leaf.next, fuel - 1>>])
    IN  Follow[<<page, Cardinality(DOMAIN pg)>>]

TableRows(pg) ==
    LET rows == RowsFrom(pg, FindPage(pg, 0))
    IN  SubSeq(rows, LeafFind(pg[FindPage(pg, 0)], 0) + 1, Len(rows))

Select ==
    /\ status = "up" /\ InTree(0)
    /\ reply' = Printed(TableRows(pages))
    /\ UNCHANGED <<status, pages, flushed, file, pad, accepted, savedIds>>

-----------------------------------------------------------------------------
(* The end of the process: .exit runs db_close, which writes the pages in  *)
(* order; end of input or a signal ends it without.                        *)

Exit ==
    /\ status = "up"
    /\ status' = "closing"
    /\ UNCHANGED <<pages, reply, flushed, file, pad, accepted, savedIds>>

\* Variant: the last page is not written.
Flush_OneShort ==
    /\ status = "closing"
    /\ file' = [n \in DOMAIN file \cup {flushed} |->
                  IF n = flushed THEN pages[n] ELSE file[n]]
    /\ IF flushed + 2 < Cardinality(DOMAIN pages)
       THEN /\ flushed' = flushed + 1
            /\ UNCHANGED <<status, pages, reply, accepted, savedIds>>
       ELSE /\ status' = "down" /\ savedIds' = accepted /\ Gone
    /\ UNCHANGED pad

Flush ==
    /\ status = "closing"
    /\ file' = [n \in DOMAIN file \cup {flushed} |->
                  IF n = flushed THEN pages[n] ELSE file[n]]
    /\ IF flushed + 1 < Cardinality(DOMAIN pages)
       THEN /\ flushed' = flushed + 1
            /\ UNCHANGED <<status, pages, reply, accepted, savedIds>>
       ELSE /\ status' = "down" /\ savedIds' = accepted /\ Gone
    /\ UNCHANGED pad

Eof ==
    /\ status = "up"
    /\ status' = "down" /\ Gone
    /\ UNCHANGED <<file, pad, savedIds>>

\* Killed, or a failed write, during db_close.  Some pages are written, some
\* are not: the file mixes two trees and nothing detects it.
KillClosing ==
    /\ status = "closing"
    /\ status' = IF flushed = 0 THEN "down" ELSE "torn"
    /\ Gone
    /\ UNCHANGED <<file, pad, savedIds>>

Next == \/ Open \/ Select \/ Exit \/ Flush \/ Eof \/ KillClosing
        \/ \E k \in Keys : \/ InsertDuplicate(k) \/ InsertFits(k)
                           \/ InsertSplitsRoot(k) \/ InsertSplitsLeaf(k)
                           \/ InsertExits(k) \/ InsertAstray(k)

Spec == Init /\ [][Next]_vars

-----------------------------------------------------------------------------
(* Properties.                                                             *)

Leaves == PageLeaves(pages)

\* Pages are numbered from 0, page 0 is the root and the only one, a leaf
\* never has more cells than fit and points to a leaf.
WellFormed ==
    status \in {"up", "closing"} =>
        /\ DOMAIN pages = 0..(Cardinality(DOMAIN pages) - 1)
        /\ pages[0].root /\ \A n \in DOMAIN pages \ {0} : ~pages[n].root
        /\ \A n \in Leaves : /\ Len(pages[n].cells) <= LEAF_NODE_MAX_CELLS
                             /\ pages[n].next \in Leaves \cup {0}

\* The first leaf of the chain: the one no leaf points to.
FirstLeaves == {n \in Leaves : \A m \in Leaves : pages[m].next # n \/ n = 0}

\* No insert and no split loses, doubles or strands a row: the next_leaf
\* chain goes through every leaf once and carries exactly the accepted
\* rows (leaf_node_split_and_insert, node_btree.c:48-76), in any order of
\* inserts and across .exit and reopening.
RowsConserved ==
    status \in {"up", "closing"} =>
        \E first \in FirstLeaves :
            LET rows == RowsFrom(pages, first)
            IN  /\ FirstLeaves = {first}
                /\ \A k \in Keys :
                     Cardinality({i \in DOMAIN rows : rows[i] = k}) = accepted[k]

\* Outside db_close the file holds exactly the rows of the last complete
\* .exit: the paths that end the process without db_close (end of input,
\* inputs.c:17; a full internal node, node_btree.c:199) change nothing, and
\* db_close leaves no page behind (table.c:74-81).
FileMatchesSaved ==
    status \in {"down", "up"} =>
        \A k \in Keys :
            FoldSet(LAMBDA n, sum : sum +
                      Cardinality({i \in DOMAIN file[n].cells :
                                     file[n].cells[i].row = k}),
                    0, PageLeaves(file))
              = savedIds[k]

\* "the index of the child which should contain the given key"
\* (node_btree.c:145): table_find leads every stored id to its own cell.
FindsEveryRow ==
    status = "up" =>
        \A k \in Ids(accepted) :
            \E i \in DOMAIN pages[CursorPage(k)].cells :
                /\ i = CursorCell(k) + 1
                /\ pages[CursorPage(k)].cells[i] = [key |-> k, row |-> k]

\* "this method will return the position of the lowest id" (table.c:7).
StartsAtLowest ==
    (status = "up" /\ Ids(accepted) # {} /\ InTree(0)) =>
        /\ TableRows(pages) # <<>>
        /\ \A k \in Ids(accepted) : TableRows(pages)[1] <= k

\* The tree works as a table sorted by id: table_find leads every id to its
\* own cell and table_start to the lowest one, after any splits and across
\* .exit and reopening (table.c:7-31).
TableSorted == FindsEveryRow /\ StartsAtLowest

\* No insert or split of leaf_node_split_and_insert, in whatever order the
\* ids come, breaks the pages or loses, doubles or strands a row
\* (node_btree.c:39-89).
RowsKept == WellFormed /\ RowsConserved

Store == INSTANCE RowStore WITH
    run   <- CASE status \in {"torn", "undefined"} -> "broken" [] status = "down" -> "down"
               [] OTHER -> "up",
    rows  <- IF status \in {"up", "closing"}
             THEN UNION {Range(LeafRows(pages[n])) : n \in Leaves} ELSE {},
    saved <- Ids(savedIds)

\* The B-tree, the pager and the file together are the table of RowStore,
\* for ids inserted in ascending order into at most three leaves.
ImplementsStore == Store!Spec
=============================================================================
