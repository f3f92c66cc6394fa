------------------------------ MODULE RowStore ------------------------------
(***************************************************************************)
(* What simpledb promises its user: a table of rows with distinct ids that *)
(* select prints in the order of the ids, kept in a file that .exit brings *)
(* up to date.  A process that ends in any other way loses what it did     *)
(* since it opened the file, and one killed while it writes the file may   *)
(* leave it broken.                                                        *)
(***************************************************************************)
EXTENDS Naturals, Sequences, FiniteSets

CONSTANT Keys     \* the ids a user inserts

VARIABLES run,    \* "down", "up" or "broken"
          rows,   \* the ids in the table of the running process
          saved,  \* the ids in the file
          reply   \* what the last statement printed

vars == <<run, rows, saved, reply>>

Said(what)    == [kind |-> what, rows |-> <<>>]
Printed(list) == [kind |-> "rows", rows |-> list]

\* The elements of a set of numbers in ascending order.
Sorted(S) == [i \in 1..Cardinality(S) |->
                CHOOSE x \in S : Cardinality({y \in S : y < x}) = i - 1]

Init == run = "down" /\ rows = {} /\ saved = {} /\ reply = Said("none")

Open == /\ run = "down"
        /\ run' = "up" /\ rows' = saved /\ reply' = Said("none")
        /\ UNCHANGED saved

Insert(k) == /\ run = "up"
             /\ rows' = rows \cup {k}
             /\ reply' = Said(IF k \in rows THEN "duplicate" ELSE "executed")
             /\ UNCHANGED <<run, saved>>

Select == /\ run = "up"
          /\ reply' = Printed(Sorted(rows))
          /\ UNCHANGED <<run, rows, saved>>

Save == /\ run = "up"
        /\ saved' = rows /\ run' = "down" /\ rows' = {} /\ reply' = Said("none")

Lose == /\ run = "up"
        /\ run' = "down" /\ rows' = {} /\ reply' = Said("none")
        /\ UNCHANGED saved

Break == /\ run = "up"
         /\ run' = "broken" /\ rows' = {} /\ reply' = Said("none")
         /\ UNCHANGED saved

Next == \/ Open \/ Select \/ Save \/ Lose \/ Break
        \/ \E k \in Keys : Insert(k)

Spec == Init /\ [][Next]_vars
=============================================================================
