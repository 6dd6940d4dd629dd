----------------------------- MODULE Vec0Correct -----------------------------
(***************************************************************************)
(* What it means for a vec0 table to be right: its shadow tables agree     *)
(* with one another, a statement does to the rows what SQL says, a query   *)
(* answers with the rows that satisfy it, and a declaration is read as it  *)
(* is written.                                                             *)
(***************************************************************************)
EXTENDS Vec0

CONSTANTS
    QueriesOf(_),     \* the queries [cs, orderBy] asked of a table, as a sequence
    Descriptions      \* descriptions of tables, see Render

(* What a row holds: a vector, and a text without a NUL or a bit if its metadata
   is of that kind. *)
Texts == Seq(Nat \ {0})
MetaValue(v, t) == /\ t.meta = "text" => v \in Texts
                   /\ t.meta = "boolean" => v \in {0, 1}
ValuesFit(row, t) == row.vector \in Int /\ MetaValue(row.meta, t)

(* A comparison of the metadata column with a value of its kind. *)
MetaTerm(c, t) ==
    /\ t.meta # "none"
    /\ c.op \in CompareOps
    /\ c.isIn \in BOOLEAN
    /\ t.meta = "boolean" => ~c.isIn /\ c.op \in {"EQ", "NE"} /\ c.value \in {0, 1}
    /\ t.meta = "text" => IF c.isIn THEN c.value \subseteq Texts ELSE c.value \in Texts

(* The terms of a KNN query: a k or LIMIT that is not refused, and terms its plan
   takes about columns that the table has; SQLite itself would test any other
   on the rows of the answer. Terms on the distance are asked of a flat table
   only: the other two take and drop them (see the README). *)
KnnTerm(c, t) ==
    \/ c.col = "vector" /\ c.op = "MATCH" /\ c.value \in Int
    \/ c.col = "k" /\ c.op = "EQ" /\ c.value \in 0..MaxK
    \/ c.col = "none" /\ c.op = "LIMIT" /\ c.value \in 0..MaxK
    \/ c.col = "id" /\ c.op = "EQ" /\ c.isIn
    \/ c.col = "part" /\ c.op \in CompareOps /\ t.part
    \/ c.col = "meta" /\ MetaTerm(c, t)
    \/ c.col = "distance" /\ c.op \in DistanceOps /\ t.index = "flat"
IsQuery(q, t) ==
    /\ Len(q.cs) \in Nat
    /\ MatchTerms(q.cs) # {} => \A i \in 1..Len(q.cs) : q.cs[i].usable /\ KnnTerm(q.cs[i], t)

(* vec0_parse_rescore_options takes an oversampling of 1 or more, and a command
   sets the one for searching to an integer (see HandleCommand). *)
Oversamples(t) ==
    t.index = "rescore" => /\ t.oversample \in Nat \ {0} /\ t.oversampleSearch \in Nat
                           /\ \A command \in CommandsOf(t) : command[2] \in Int

ASSUME Vec0CorrectAssumption ==
    \A args \in Declarations : Declare(args).ok =>
        /\ \A row \in RowsOf(TableOf[args]) : ValuesFit(row, TableOf[args])
        /\ Oversamples(TableOf[args])
        /\ \A n \in 1..Len(QueriesOf(TableOf[args])) :
              IsQuery(QueriesOf(TableOf[args])[n], TableOf[args])

Kept == table # Absent          \* the table is there and connected
AllTables == {TableOf[args] : args \in Declarations}
Live == DOMAIN store.rowids
Asked == QueriesOf(TableOf[schema.args])

------------------------------------------------------------------------------
(* The types of the variables; a connection or contents only for a table that
   exists. *)
TypeOK ==
    /\ schema = Absent \/ schema.args \in Declarations
    /\ schema = Absent => table = Absent
    /\ schema = Absent <=> store = Absent
    /\ shadow \subseteq (UNION {NamesOf(t) : t \in AllTables}) \X {"info", "chunks", "rowids", "vector_chunks", "rescore_chunks",
                                  "rescore_vectors", "vectors", "diskann_nodes",
                                  "diskann_buffer", "metadatachunks", "metadatatext", "auxiliary"}
    /\ schema # Absent => /\ store.rowidSeq \in Nat
                          /\ store.chunkSeq \in Nat

(* ShadowTablesFollow: the shadow tables that exist are those of the table
   under the name it has now. vec0_init, vec0Rename and vec0Destroy each have
   their own list of them. *)
ShadowTablesFollow ==
    IF schema = Absent THEN shadow = {}
    ELSE shadow = {schema.name} \X CreatedTables(TableOf[schema.args])

(* _rowids and _chunks describe the same placement. Every row of a chunked
   table has a slot of its own, marked valid and naming it; every valid slot is
   some row's; every other slot is zeroed; and no chunk is empty. *)
ChunksAgree ==
    (Kept /\ Chunked(table)) =>
        /\ \A r \in Live :
             LET at == store.rowids[r]
             IN  /\ at.chunk \in DOMAIN store.chunks
                 /\ at.offset \in store.chunks[at.chunk].validity
                 /\ store.chunks[at.chunk].rowids[at.offset] = r
        /\ \A c \in DOMAIN store.chunks :
             /\ store.chunks[c].validity # {}
             /\ \A o \in Offsets(table) :
                  LET r == store.chunks[c].rowids[o]
                  IN  IF o \in store.chunks[c].validity
                      THEN r \in Live /\ store.rowids[r].chunk = c /\ store.rowids[r].offset = o
                      ELSE r = 0

(* The tables of the columns hold something for every live row and nothing for
   a deleted one: per-chunk tables have the chunks of _chunks, per-row tables
   the rows of _rowids, the text table exactly the texts too long for their
   view, and a quantized copy is that of the full vector. *)
ColumnsAgree ==
    Kept =>
        /\ table.index = "flat" => DOMAIN store.vectors = DOMAIN store.chunks
        /\ table.index = "rescore" => DOMAIN store.coarse = DOMAIN store.chunks
        /\ table.meta # "none" => DOMAIN store.meta = DOMAIN store.chunks
        /\ table.aux => DOMAIN store.aux = Live
        /\ table.index = "rescore" =>
             /\ DOMAIN store.full = Live
             /\ \A r \in Live : store.coarse[store.rowids[r].chunk][store.rowids[r].offset]
                                    = RescoreQuantize(store.full[r])
        /\ table.meta = "text" =>
             /\ DOMAIN store.text =
                  {r \in Live : store.meta[store.rowids[r].chunk][store.rowids[r].offset].n
                                    > ViewLength}
             /\ \A r \in DOMAIN store.text :
                  TextView(store.text[r]) = store.meta[store.rowids[r].chunk][store.rowids[r].offset]

(* ShadowTablesAgree: the shadow tables of a table say the same of its rows
   (TypeOK, ChunksAgree and ColumnsAgree together). INSERT, UPDATE and DELETE
   each touch up to eight of them in as many steps, and a step that misses one
   shows only in a later statement. *)
ShadowTablesAgree == TypeOK /\ ChunksAgree /\ ColumnsAgree

------------------------------------------------------------------------------
Abstract ==
    INSTANCE VecTable WITH
        exists <- schema # Absent,
        rows <- IF schema = Absent THEN <<>> ELSE Rows(store, TableOf[schema.args])

(* ImplementsTable: seen through a full scan, a vec0 table is a table: a step
   creates it empty, drops it, or writes or removes one row and leaves every
   other row as it reads. Disconnecting, renaming and commands change no row. *)
ImplementsTable == Abstract!Spec

(* INSERT under a key no row has succeeds whatever was deleted
   before: nothing a deleted row left behind is in the way. *)
FreeKeysInsert ==
    Kept =>
        LET declared == TableOf[schema.args]
        IN  \A id \in KeysOf(declared), row \in RowsOf(declared) :
                ~HasId(store, table, id) => InsertRow(store, table, id, row).ok

(* What a statement that succeeds makes of the rows. *)
Becomes(result, rows) == result.ok => Rows(result.store, table) = rows
NewKey(id) == IF id = None THEN store.rowidSeq + 1 ELSE id
RowsAreMeant ==
    Kept =>
        LET now == Rows(store, table)
            declared == TableOf[schema.args]
        IN  /\ \A row \in RowsOf(declared), id \in KeysOf(declared) \cup {None} :
                 /\ Becomes(InsertRow(store, table, id, row),
                            Abstract!Written(now, NewKey(id), row))
                 /\ Becomes(ReplaceRow(store, table, id, row),
                            Abstract!Written(now, NewKey(id), row))
            /\ \A id \in DOMAIN now :
                 /\ Rows(DeleteRow(store, table, id), table) = Abstract!Removed(now, id)
                 /\ \A change \in ChangesOf(declared) :
                      Becomes(UpdateRow(store, table, id, id, change),
                              Abstract!Written(now, id, Abstract!Changed(now[id], change)))

(* StatementsMeanRows: an INSERT, REPLACE, UPDATE or DELETE that succeeds leaves
   exactly the rows SQL says: the new row as given, under its key or the next
   rowid; an updated row with the columns set and the others as they were. And
   an INSERT under a free key does succeed. *)
StatementsMeanRows == FreeKeysInsert /\ RowsAreMeant

------------------------------------------------------------------------------
(* The meaning of a constraint for a row, without views, chunks or plans. *)
TextOrder(a, b) ==
    CASE a = b -> 0
      [] a # b /\ IsPrefix(a, b) -> -1
      [] a # b /\ IsPrefix(b, a) -> 1
      [] OTHER -> LET i == CHOOSE j \in 1..Len(a) :
                               j <= Len(b) /\ a[j] # b[j] /\ SubSeq(a, 1, j - 1) = SubSeq(b, 1, j - 1)
                  IN  a[i] - b[i]
MetaSatisfies(t, value, c) ==
    CASE c.isIn -> value \in c.value
      [] ~c.isIn /\ t.meta = "text" -> Holds(c.op, TextOrder(value, c.value))
      [] OTHER -> Holds(c.op, value - c.value)
Satisfies(t, id, row, query, c) ==
    CASE c.col = "id" -> IF c.isIn THEN id \in c.value ELSE id = c.value
      [] c.col = "part" -> row.part # None /\ Holds(c.op, row.part - c.value)
      [] c.col = "meta" -> MetaSatisfies(t, row.meta, c)
      [] c.col = "distance" -> Holds(c.op, Distance(row.vector, query) - c.value)
      [] OTHER -> TRUE

Matching(t, rows, query, cs) ==
    {id \in DOMAIN rows : \A i \in 1..Len(cs) : Satisfies(t, id, rows[id], query, cs[i])}

(* Questions the code is known to answer otherwise (see the README): a range
   over texts when a stored one exactly fills its view, or is longer and begins
   the target; a listed text key that no row has; a missing key of a table that
   is not flat. *)
Answerable(t, rows, c) ==
    /\ (c.col = "meta" /\ t.meta = "text" /\ c.op \in DistanceOps) =>
         \A id \in DOMAIN rows :
            /\ Len(rows[id].meta) # ViewLength
            /\ Len(rows[id].meta) > ViewLength => ~IsStrictPrefix(rows[id].meta, c.value)
    /\ (c.col = "id" /\ c.isIn /\ t.pk = "text") => c.value \subseteq DOMAIN rows
    /\ (c.col = "id" /\ ~c.isIn /\ t.pk = "int" /\ t.index # "flat") => c.value \in DOMAIN rows

(* The first k of the matching rows by distance; ties in any order. With
   "every" FALSE a nearer row may be missing. *)
IsNearest(answer, rows, matching, query, k, every) ==
    LET D(id) == Distance(rows[id].vector, query)
        ids == [i \in 1..Len(answer) |-> answer[i].id]
    IN  /\ Len(answer) = AtMost(k, Cardinality(matching))
        /\ Range(ids) \subseteq matching
        /\ IsInjective(ids)
        /\ \A i \in 1..Len(answer) : answer[i].distance = D(ids[i])
        /\ \A i, j \in 1..Len(answer) : i < j => D(ids[i]) <= D(ids[j])
        /\ every => \A id \in matching \ Range(ids), i \in 1..Len(answer) : D(ids[i]) <= D(id)

(* The k of a KNN query and its vector. *)
KOf(q, plan) == q.cs[plan.args[2]].value
VectorOf(q) == LET m == MatchTerms(q.cs) IN IF m = {} THEN 0 ELSE q.cs[Largest(m)].value

IsExact(k, n) == table.index = "flat" \/ Oversampled(table, k) >= n
IsRight(q, plan, answer, rows, matching) ==
    LET listed == {IdOfRowid(store, table, answer.rows[i].rowid) : i \in 1..Len(answer.rows)}
    IN  /\ answer.ok
        /\ IF plan.plan = "knn"
           THEN IsNearest(WithIds(store, table, answer.rows), rows, matching, VectorOf(q), KOf(q, plan),
                          IsExact(KOf(q, plan), Cardinality(DOMAIN rows)))
           ELSE matching = {id \in listed : \A i \in 1..Len(q.cs) :
                               Satisfies(table, id, rows[id], 0, q.cs[i])}
AnswersRight(q, plan, rows) ==
    (plan.ok /\ \A i \in 1..Len(q.cs) : Answerable(table, rows, q.cs[i])) =>
        IsRight(q, plan, Filter(store, table, q.cs, plan), rows,
                Matching(table, rows, VectorOf(q), q.cs))
(* SelectIsRight: on a flat or rescore table a query that is planned is
   answered, and right: the k nearest of the rows that satisfy every term of
   WHERE, or all of them when there is no MATCH (SQLite tests the terms the
   plan did not take). The plan's terms are not tested again, so each filter
   (partition, rowid IN, metadata by view, boolean bitmap, distance) decides
   alone. A rescore answer is exact when oversampling reaches every row. *)
SelectIsRight ==
    (Kept /\ Chunked(table)) =>
        LET rows == Rows(store, table)
        IN  \A n \in 1..Len(Asked) :
                AnswersRight(Asked[n], BestIndex(table, Asked[n].cs, Asked[n].orderBy), rows)

------------------------------------------------------------------------------
(* GraphIsClosed: the DiskANN tables describe the rows. Every row has a vector
   and is either a node or buffered; a node's neighbours are other live nodes,
   none twice, each beside its own quantized vector; the medoid is a live row
   and is missing only from an empty table. Deleting a row repairs, hands the
   medoid over and scrubs in three separate steps. *)
GraphIsClosed ==
    (Kept /\ table.index = "diskann") =>
        LET g == store.graph
        IN  /\ DOMAIN g.vectors = Live
            /\ DOMAIN g.nodes \cup DOMAIN g.buffer = Live
            /\ DOMAIN g.nodes \cap DOMAIN g.buffer = {}
            /\ g.medoid = None <=> DOMAIN g.nodes = {}
            /\ g.medoid # None => g.medoid \in DOMAIN g.nodes
            /\ \A r \in DOMAIN g.nodes :
                 LET used == {i \in 1..g.slots : g.nodes[r][i] # None}
                 IN  /\ Neighbours(g.nodes[r]) \subseteq DOMAIN g.nodes \ {r}
                     /\ \A i \in used : g.nodes[r][i].q = Quantize(g.vectors[g.nodes[r][i].id])
                     /\ Cardinality(Neighbours(g.nodes[r])) = Cardinality(used)

EndsWell(answer, k) ==
    LET ids == [i \in 1..Len(answer.rows) |-> answer.rows[i].rowid]
    IN  /\ answer.ok
        /\ answer.ended
        /\ Range(ids) \subseteq Live
        /\ IsInjective(ids)
        /\ Len(ids) <= k
        /\ (Live # {} /\ k > 0) => ids # <<>>
(* SearchEnds: the beam search of a KNN query stops, whatever the list size,
   although a candidate may be pushed off the list and found again; what it
   returns are live rows, none twice, at most k, and at least one if there is
   any. *)
SearchEnds ==
    (Kept /\ table.index = "diskann") =>
        \A n \in 1..Len(Asked) :
            LET q == Asked[n]
                plan == BestIndex(table, q.cs, q.orderBy)
            IN  (plan.ok /\ plan.plan = "knn") =>
                    EndsWell(Filter(store, table, q.cs, plan), KOf(q, plan))

(* NoRepairNeeded: "Just remove from buffer and _vectors, no graph repair
   needed". With a buffer too, a KNN query is answered after any sequence of
   statements: deleting a buffered row leaves nothing of the graph pointing at
   it. *)
NoRepairNeeded ==
    (Kept /\ table.index = "diskann") =>
        \A n \in 1..Len(Asked) :
            LET q == Asked[n]
                plan == BestIndex(table, q.cs, q.orderBy)
            IN  (plan.ok /\ plan.plan = "knn") => Filter(store, table, q.cs, plan).ok

------------------------------------------------------------------------------
(* How a table is written. A description has the fields of a table record plus
   "order" (the arguments in reverse or not); a size or factor of 0 is left
   out, and so are a metric "default", an index "default" and a pk "none". *)
Word(w) == [type |-> "identifier", text |-> w, num |-> 0]
Digits(n) == [type |-> "digit", text |-> "", num |-> n]
Mark(m) == [type |-> m, text |-> "", num |-> 0]

Setting(key, n) == IF n = 0 THEN <<>> ELSE <<<<Word(key), Mark("eq"), Digits(n)>>>>
Choice(key, word) == <<<<Word(key), Mark("eq"), Word(word)>>>>
Listed(settings) ==
    FoldLeft(LAMBDA toks, s : IF toks = <<>> THEN s ELSE toks \o <<Mark("comma")>> \o s,
             <<>>, settings)
IndexWords(index, settings) ==
    <<Word("indexed"), Word("by"), Word(index), Mark("lparen")>>
        \o Listed(settings) \o <<Mark("rparen")>>
RenderIndex(d) ==
    CASE d.index = "default" -> <<>>
      [] d.index = "flat" -> IndexWords("flat", <<>>)
      [] d.index = "rescore" ->
           IndexWords("rescore", Choice("quantizer", d.quantizer)
                                     \o Setting("oversample", d.oversample))
      [] d.index = "diskann" ->
           IndexWords("diskann",
                      Setting("n_neighbors", d.slots) \o Choice("neighbor_quantizer", d.quantizer)
                        \o Setting("search_list_size_search", d.queryListSize)
                        \o Setting("search_list_size", d.searchListSize)
                        \o Setting("search_list_size_insert", d.insertListSize)
                        \o Setting("buffer_threshold", d.bufferThreshold))
RenderVector(d) ==
    <<Word("embedding"), Word(d.element), Mark("lbracket"), Digits(d.dimensions),
      Mark("rbracket")>>
        \o (IF d.metric = "default" THEN <<>>
            ELSE <<Word("distance_metric"), Mark("eq"), Word(d.metric)>>)
        \o RenderIndex(d)
Render(d) ==
    LET args == <<RenderVector(d)>>
                  \o (IF d.pk = "none" THEN <<>> ELSE
                      <<<<Word("id"), Word(d.pk), Word("primary"), Word("key")>>>>)
                  \o (IF d.part THEN
                      <<<<Word("tenant"), Word("integer"), Word("partition"), Word("key")>>>>
                      ELSE <<>>)
                  \o (IF d.meta = "none" THEN <<>> ELSE <<<<Word("label"), Word(d.meta)>>>>)
                  \o (IF d.aux THEN <<<<Mark("plus"), Word("note"), Word("text")>>>> ELSE <<>>)
                  \o (IF d.chunkSize = 0 THEN <<>> ELSE
                      <<<<Word("chunk_size"), Mark("eq"), Digits(d.chunkSize)>>>>)
    IN  IF d.order = "reverse" THEN Reverse(args) ELSE args

(* Which descriptions are tables at all. *)
Legal(d) ==
    /\ d.dimensions \in 1..MaxDimensions
    /\ d.chunkSize % CharBit = 0 /\ d.chunkSize <= MaxChunkSize
    /\ d.metric # "default" => d.element # "bit"
    /\ d.index \in {"rescore", "diskann"} => ~d.part /\ d.meta = "none"
    /\ (d.index \in {"rescore", "diskann"} /\ d.quantizer \in {"bit", "binary"}) =>
         d.dimensions % CharBit = 0
    /\ d.index = "rescore" => d.element = "float" /\ d.oversample <= MaxOversample
    /\ d.index = "diskann" =>
         /\ d.element # "bit"
         /\ d.slots % CharBit = 0 /\ d.slots <= MaxNeighbors
         /\ d.searchListSize > 0 => d.queryListSize = 0 /\ d.insertListSize = 0

(* Whether a DiskANN column may stand beside an auxiliary one is open: the comment
   on vec0_init's check (sqlite-vec.c:5196) says "DiskANN columns cannot coexist with
   aux/metadata/partition columns", the check below it refuses the last two and
   lets the first pass. No description is judged on that point. *)
Disputed(d) == d.index = "diskann" /\ d.aux

(* The table a description stands for. *)
GivenWord(word, default) == IF word \in {"default", "none"} THEN default ELSE word
GivenSize(n, default) == IF n = 0 THEN default ELSE n
Meant(d, t) ==
    /\ t.pk = GivenWord(d.pk, "int")
    /\ t.part = d.part /\ t.meta = d.meta /\ t.aux = d.aux
    /\ t.chunkSize = GivenSize(d.chunkSize, DefaultChunkSize)
    /\ t.element = IF d.element = "float" THEN "float32" ELSE d.element
    /\ t.dimensions = d.dimensions /\ t.metric = GivenWord(d.metric, "l2")
    /\ t.index = GivenWord(d.index, "flat")
    /\ t.index # "flat" => t.quantizer = d.quantizer
    /\ t.index = "rescore" => t.oversample = GivenSize(d.oversample, DefaultOversample)
    /\ t.index = "diskann" =>
         /\ t.slots = GivenSize(d.slots, DefaultNeighbors)
         /\ t.searchListSize = GivenSize(d.searchListSize, DefaultListSize)
         /\ t.queryListSize = d.queryListSize /\ t.insertListSize = d.insertListSize
         /\ t.bufferThreshold = d.bufferThreshold

(* ParsesAsWritten: CREATE VIRTUAL TABLE reads every declaration as the table
   it describes, in whatever order its arguments stand, and, but for the disputed
   ones, accepts it exactly when the description is a legal table. Keywords are
   matched by prefix and each argument is tried by six parsers in turn, so one can
   be taken for another. *)
ParsesAsWritten ==
    schema = Absent =>
        \A d \in Descriptions :
            LET read == Declare(Render(d))
            IN  /\ read.ok => Meant(d, read.table)
                /\ Disputed(d) \/ (read.ok <=> Legal(d))
==============================================================================
