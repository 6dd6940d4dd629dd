-------------------------------- MODULE Vec0 --------------------------------
(***************************************************************************)
(* One vec0 virtual table over its life: created, connected and            *)
(* disconnected, written by SQL statements, configured by commands,        *)
(* renamed and dropped. SQLite runs one writing statement at a time and    *)
(* rolls a failed one back, so a statement is one action, enabled when it  *)
(* succeeds. The declaration is in Vec0Columns, what statements do to the  *)
(* shadow tables in Vec0Store, how queries are answered in Vec0Query.      *)
(***************************************************************************)
EXTENDS Vec0Query, Vec0Columns

CONSTANTS
    NamesOf(_),    \* names a table is given, by CREATE and by ALTER ... RENAME
    Declarations,  \* argument lists of CREATE VIRTUAL TABLE, as tokens
    KeysOf(_),     \* keys the statements on a table use
    RowsOf(_),     \* rows [vector, part, meta, aux] they put into it; None is NULL,
                   \* or that the table has no such column
    CommandsOf(_), \* commands <<setting, value>> given to it
    Bounds(_)      \* bounds: its rows, AUTOINCREMENT rowids and chunks, as [rows,
                   \* rowid, chunk]

TableOf == [args \in Declarations |-> Declare(args).table]

(* What vec0_init leaves in a table: columns and an index of the kinds it knows
   (float metadata, compared as integers are, is left out), a chunk of at least
   one slot, a number of neighbours, and nothing beside an index that is not
   flat. *)
IsDeclared(t) ==
    /\ t.pk \in {"int", "text"}
    /\ t.meta \in {"none", "text", "integer", "boolean"}
    /\ t.index \in {"flat", "rescore", "diskann"}
    /\ {t.part, t.aux} \subseteq BOOLEAN
    /\ t.chunkSize \in Nat \ {0}
    /\ t.slots \in Nat
    /\ t.index # "flat" => t.meta = "none" /\ ~t.part

(* A row of a table: what a column it does not have holds is NULL. *)
Fits(row, t) ==
    /\ row = [vector |-> row.vector, part |-> row.part, meta |-> row.meta, aux |-> row.aux]
    /\ ~t.part => row.part = None
    /\ t.meta = "none" => row.meta = None
    /\ t.meta = "text" => row.meta \in Seq(Nat)
    /\ ~t.aux => row.aux = None

(* A statement on a table with an integer key is refused any other (see
   InsertRowid), NULL is no key, and a statement that names another column is
   not one on this table. *)
ASSUME Vec0Assumption ==
    \A args \in Declarations : Declare(args).ok =>
        /\ IsDeclared(TableOf[args])
        /\ None \notin KeysOf(TableOf[args])
        /\ TableOf[args].pk = "int" => KeysOf(TableOf[args]) \subseteq Int
        /\ \A row \in RowsOf(TableOf[args]) : Fits(row, TableOf[args])

(* No table, no connection, no contents. *)
Absent == [absent |-> TRUE]

VARIABLES
    schema,  \* [name, args] of the table in sqlite_schema, or Absent
    table,   \* vec0_vtab: what this connection knows of it, Absent if not connected
    shadow,  \* the shadow tables that exist: <<name of the table, kind>>
    store    \* their contents, Absent without a table

vars == <<schema, table, shadow, store>>

Init ==
    /\ schema = Absent
    /\ table = Absent
    /\ shadow = {}
    /\ store = Absent

------------------------------------------------------------------------------
(* The shadow tables vec0_init creates, vec0Rename renames, vec0Destroy drops:
   three lists in three functions. *)
RescoreTables == {"rescore_chunks", "rescore_vectors"}
DroppedRescoreTables == {"rescore_chunks", "rescore_vectors"}
TablesOfVectors(t) ==
    CASE t.index = "flat" -> {"vector_chunks"}
      [] t.index = "rescore" -> RescoreTables
      [] t.index = "diskann" -> {"vectors", "diskann_nodes", "diskann_buffer"}
TablesOfColumns(t) ==
    (IF t.meta # "none" THEN {"metadatachunks"} ELSE {})
        \cup (IF t.meta = "text" THEN {"metadatatext"} ELSE {})
        \cup (IF t.aux THEN {"auxiliary"} ELSE {})
CreatedTables(t) ==
    {"info", "chunks", "rowids"} \cup TablesOfVectors(t) \cup TablesOfColumns(t)

(* Mutant: the text table is forgotten. *)
RenamedTablesNoText(t) == CreatedTables(t) \ {"metadatatext"}

RenamedTables(t) ==
    {"info", "rowids", "chunks"}
        \cup (IF t.aux THEN {"auxiliary"} ELSE {})
        \cup (IF t.index = "flat" THEN {"vector_chunks"} ELSE {})
        \cup (IF t.index = "rescore" THEN {"rescore_chunks", "rescore_vectors"} ELSE {})
        \cup (IF t.index = "diskann"
              THEN {"vectors", "diskann_nodes", "diskann_buffer"} ELSE {})
        \cup (IF t.meta # "none" THEN {"metadatachunks"} ELSE {})
        \cup (IF t.meta = "text" THEN {"metadatatext"} ELSE {})

DroppedTables(t) ==
    {"chunks", "info", "rowids"}
        \cup (IF t.index = "diskann"
              THEN {"vectors", "diskann_nodes", "diskann_buffer"} ELSE {})
        \cup (IF t.index = "flat" THEN {"vector_chunks"} ELSE {})
        \cup (IF t.index = "rescore" THEN DroppedRescoreTables ELSE {})
        \cup (IF t.aux THEN {"auxiliary"} ELSE {})
        \cup (IF t.meta # "none" THEN {"metadatachunks"} ELSE {})
        \cup (IF t.meta = "text" THEN {"metadatatext"} ELSE {})

(* The command column is named after the table, so no column may be. *)
NameIsFree(n, t) == n \notin t.columns

------------------------------------------------------------------------------
(* vec0Create *)
Create(n, args) ==
    /\ schema = Absent
    /\ Declare(args).ok
    /\ NameIsFree(n, Declare(args).table)
    /\ schema' = [name |-> n, args |-> args]
    /\ table' = Declare(args).table
    /\ shadow' = shadow \cup ({n} \X CreatedTables(table'))
    /\ store' = EmptyStore(table')

(* Mutant: the shadow tables are created again. *)
ConnectCreates ==
    /\ schema # Absent
    /\ table = Absent
    /\ table' = Declare(schema.args).table
    /\ store' = EmptyStore(table')
    /\ UNCHANGED <<schema, shadow>>

(* vec0Connect: the same arguments read again; SQLite refuses a declaration in
   which two columns have one name. *)
Connect ==
    /\ schema # Absent
    /\ table = Absent
    /\ Declare(schema.args).ok
    /\ NameIsFree(schema.name, Declare(schema.args).table)
    /\ table' = Declare(schema.args).table
    /\ UNCHANGED <<schema, shadow, store>>

(* vec0Disconnect: what commands set is forgotten with the vec0_vtab. *)
Disconnect ==
    /\ table # Absent
    /\ table' = Absent
    /\ UNCHANGED <<schema, shadow, store>>

(* vec0Rename: ALTER TABLE ... RENAME on every shadow table. *)
Rename(new) ==
    /\ table # Absent
    /\ new # schema.name
    /\ {schema.name} \X RenamedTables(table) \subseteq shadow
    /\ shadow' = {IF x[1] = schema.name /\ x[2] \in RenamedTables(table)
                  THEN <<new, x[2]>> ELSE x : x \in shadow}
    /\ schema' = [schema EXCEPT !.name = new]
    /\ UNCHANGED <<table, store>>

(* vec0Destroy *)
Destroy ==
    /\ table # Absent
    /\ {schema.name} \X DroppedTables(table) \subseteq shadow
    /\ shadow' = shadow \ ({schema.name} \X DroppedTables(table))
    /\ schema' = Absent
    /\ table' = Absent
    /\ store' = Absent

------------------------------------------------------------------------------
(* What an UPDATE sets, None for a column it leaves alone. *)
Values(t, col) == {row[col] : row \in RowsOf(t)} \cup {None}
ChangesOf(t) == [vector : Values(t, "vector"), part : Values(t, "part"),
                 meta : Values(t, "meta"), aux : Values(t, "aux")]

(* A statement that succeeds, within the bounds. *)
Statement(result) ==
    /\ result.ok
    /\ Cardinality(DOMAIN result.store.rowids) <= Bounds(table).rows
    /\ result.store.rowidSeq <= Bounds(table).rowid
    /\ result.store.chunkSeq <= Bounds(table).chunk
    /\ store' = result.store
    /\ UNCHANGED <<schema, table, shadow>>

(* vec0Update: INSERT (None: no key given), INSERT OR REPLACE, UPDATE, DELETE.
   SQLite finds the row of an UPDATE or DELETE with a query of its own. *)
InsertStatement(id, row) == Statement(InsertRow(store, table, id, row))
ReplaceStatement(id, row) == Statement(ReplaceRow(store, table, id, row))

Found(id) == FilterPoint(store, table, id).rows # <<>>

(* WHERE names the key: unchanged columns are left alone. *)
UpdateByKey(id, newId, change) ==
    /\ Found(id)
    /\ Statement(UpdateRow(store, table, id, newId, change))

(* Any other WHERE: vec0Column_fullscan tells the statement only of metadata
   that it is unchanged; the other columns arrive as if they were set. *)
UpdateByScan(id, newId, change) ==
    /\ HasId(store, table, id)
    /\ ~table.part
    /\ table.index # "diskann"
    /\ Statement(UpdateRow(store, table, id, newId, change))

DeleteStatement(id) ==
    /\ Found(id)
    /\ Statement([ok |-> TRUE, store |-> DeleteRow(store, table, id)])

(* rescore_handle_command takes "oversample=" on every table and sets it where
   there is a rescore column; diskann_handle_command the three list sizes. *)
RescoreCommand(t, val) == IF t.index = "rescore" THEN [t EXCEPT !.oversampleSearch = val] ELSE t
DiskannSettings == {"searchListSize", "queryListSize", "insertListSize"}
DiskannCommand(t, field, val) == [t EXCEPT ![field] = val]
HandleCommand(field, val) ==
    /\ val >= 1
    /\ field = "oversampleSearch" \/ (table.index = "diskann" /\ field \in DiskannSettings)
    /\ table' = IF field = "oversampleSearch" THEN RescoreCommand(table, val)
                ELSE DiskannCommand(table, field, val)
    /\ UNCHANGED <<schema, shadow, store>>

(* The sets the statements draw from, empty without a connection. *)
ForTable(SetOf(_)) == IF table = Absent THEN {} ELSE SetOf(TableOf[schema.args])

Next ==
    \/ \E args \in Declarations : \E n \in NamesOf(TableOf[args]) : Create(n, args)
    \/ Connect
    \/ Disconnect
    \/ Destroy
    \/ \E new \in ForTable(NamesOf) : Rename(new)
    \/ \E command \in ForTable(CommandsOf) : HandleCommand(command[1], command[2])
    \/ \E row \in ForTable(RowsOf), id \in ForTable(KeysOf) \cup {None} : InsertStatement(id, row)
    \/ \E row \in ForTable(RowsOf), id \in ForTable(KeysOf) : ReplaceStatement(id, row)
    \/ \E id, newId \in ForTable(KeysOf), change \in ForTable(ChangesOf) :
          UpdateByKey(id, newId, change)
    \/ \E id, newId \in ForTable(KeysOf), change \in ForTable(ChangesOf) :
          UpdateByScan(id, newId, change)
    \/ \E id \in ForTable(KeysOf) : DeleteStatement(id)

Spec == Init /\ [][Next]_vars
=============================================================================
