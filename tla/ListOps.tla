------------------------------- MODULE ListOps -------------------------------
(***************************************************************************)
(* workthread/list.h: circular doubly linked lists with the list head as   *)
(* a node of the ring.  A memory m is the two pointer fields of every      *)
(* node; an operation is its assignments in the order of the code, since   *)
(* each one may read through pointers that the one before has changed.     *)
(***************************************************************************)
EXTENDS Integers, Sequences, FiniteSets

SetNext(m, x, y) == [m EXCEPT !.next[x] = y]
SetPrev(m, x, y) == [m EXCEPT !.prev[x] = y]

ListInit(m, x) == SetPrev(SetNext(m, x, x), x, x)

ListAddTail(m, head, item) ==
    LET m1 == SetPrev(SetNext(m, item, head), item, m.prev[head])
        m2 == SetNext(m1, m1.prev[head], item)
    IN  SetPrev(m2, head, item)

ListAddHead(m, head, item) ==
    LET m1 == SetPrev(SetNext(m, item, m.next[head]), item, head)
        m2 == SetPrev(m1, m1.next[head], item)
    IN  SetNext(m2, head, item)

ListAppend(m, head1, head2) ==
    LET m1 == SetNext(m, m.prev[head2], head1)
        m2 == SetPrev(m1, m1.next[head2], m1.prev[head1])
        m3 == SetNext(m2, m2.prev[head1], m2.next[head2])
        m4 == SetPrev(m3, head1, m3.prev[head2])
    IN  ListInit(m4, head2)

ListRemove(m, item) ==
    LET m1 == SetPrev(m, m.next[item], m.prev[item])
    IN  SetNext(m1, m1.prev[item], m1.next[item])

ListIsEmpty(m, head) == m.next[head] = head

-----------------------------------------------------------------------------
\* The ring of nodes for head h and the items s.
Ring(h, s) == <<h>> \o s

\* The place after k in a ring of n nodes.
After(k, n) == IF k = n THEN 1 ELSE k + 1

\* next leads along the ring and prev leads back.
Linked(m, h, s) ==
    LET r == Ring(h, s) IN
    \A k \in 1 .. Len(r) : /\ m.next[r[k]] = r[After(k, Len(r))]
                           /\ m.prev[r[After(k, Len(r))]] = r[k]
=============================================================================
