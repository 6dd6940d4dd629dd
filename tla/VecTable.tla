------------------------------ MODULE VecTable ------------------------------
(***************************************************************************)
(* What a vec0 table promises to SQL: a set of rows addressed by their key.*)
(* rows is key -> row, empty while the table does not exist. Nothing is    *)
(* said of chunks, views, quantized copies or graphs, and every statement  *)
(* concerns one row: the others read as before.                            *)
(***************************************************************************)
EXTENDS Integers

CONSTANT None

VARIABLES exists, rows

vars == <<exists, rows>>

Init == ~exists /\ rows = <<>>

(* CREATE VIRTUAL TABLE, DROP TABLE. *)
Create == ~exists /\ exists' /\ rows' = <<>>
Destroy == exists /\ ~exists' /\ rows' = <<>>

(* A table with one row written, its columns as a statement sets them (None:
   left alone), or removed. *)
Written(table, key, row) ==
    [x \in DOMAIN table \cup {key} |-> IF x = key THEN row ELSE table[x]]
Changed(row, change) == [c \in DOMAIN row |-> IF change[c] = None THEN row[c] ELSE change[c]]
Removed(table, key) == [x \in DOMAIN table \ {key} |-> table[x]]

(* INSERT makes a key known, REPLACE and UPDATE keep the keys, DELETE removes one. *)
Inserts(was, is, key) == key \notin DOMAIN was /\ is = Written(was, key, is[key])
Rewrites(was, is, key) == key \in DOMAIN was /\ is = Written(was, key, is[key])
Deletes(was, is, key) == key \in DOMAIN was /\ is = Removed(was, key)

Statement ==
    LET was == rows
        is == rows'
    IN  /\ exists
        /\ exists'
        /\ \E key \in DOMAIN was \cup DOMAIN is :
             \/ key \in DOMAIN is /\ (Inserts(was, is, key) \/ Rewrites(was, is, key))
             \/ Deletes(was, is, key)

Next == Create \/ Destroy \/ Statement

Spec == Init /\ [][Next]_vars
=============================================================================
