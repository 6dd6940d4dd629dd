------------------------------ MODULE Vec0Store ------------------------------
(***************************************************************************)
(* The shadow tables of a vec0 virtual table and what INSERT, UPDATE and   *)
(* DELETE do to them (sqlite-vec.c, with the rescore and DiskANN hooks).   *)
(* A store record holds                                                    *)
(*   rowids    rowid -> [id, chunk, offset]                 (_rowids)      *)
(*   chunks    chunk -> [part, validity, rowids]            (_chunks)      *)
(*   vectors   chunk -> offset -> vector                    (_vector_chunksNN) *)
(*   coarse    chunk -> offset -> quantized vector          (_rescore_chunksNN) *)
(*   full      rowid -> vector                              (_rescore_vectorsNN) *)
(*   meta      chunk -> offset -> value, or text view       (_metadatachunksNN) *)
(*   text      rowid -> text too long for its view          (_metadatatextNN) *)
(*   aux       rowid -> value                               (_auxiliary)   *)
(*   graph     the DiskANN index, see DiskAnn                              *)
(*   rowidSeq, chunkSeq   AUTOINCREMENT high-water marks                   *)
(* A table record says what was declared: pk ("int" or "text"), part, meta *)
(* ("none", "text", "integer" or "boolean"), aux, index ("flat", "rescore" *)
(* or "diskann"), chunkSize and the index's options. A table has one       *)
(* vector column and at most one column of every other kind. Texts are     *)
(* sequences of byte values. A statement that fails is rolled back by      *)
(* SQLite, so an operator describes the successful statement and "ok" says *)
(* whether it is one.                                                      *)
(***************************************************************************)
EXTENDS DiskAnn

CONSTANT ViewLength   \* VEC0_METADATA_TEXT_VIEW_DATA_LENGTH: bytes kept in a view

ASSUME Vec0StoreAssumption == ViewLength \in Nat \ {0}

Offsets(t) == 0..(t.chunkSize - 1)
Largest(S) == CHOOSE x \in S : \A y \in S : y <= x
Smallest(S) == CHOOSE x \in S : \A y \in S : x <= y

EmptyStore(t) ==
    [rowids |-> <<>>, chunks |-> <<>>, vectors |-> <<>>, coarse |-> <<>>, full |-> <<>>,
     meta |-> <<>>, text |-> <<>>, aux |-> <<>>, graph |-> EmptyIndex(t.slots),
     rowidSeq |-> 0, chunkSeq |-> 0]

(* vec0_all_columns_diskann: such a table keeps nothing in chunks. *)
Chunked(t) == t.index # "diskann"

------------------------------------------------------------------------------
(* The rowid of a row: the integer key itself, or what _rowids.id maps to. *)
HasId(s, t, id) ==
    IF t.pk = "text" THEN \E r \in DOMAIN s.rowids : s.rowids[r].id = id
    ELSE id \in DOMAIN s.rowids
RowidFromId(s, t, id) ==
    IF t.pk = "text" THEN CHOOSE r \in DOMAIN s.rowids : s.rowids[r].id = id ELSE id
IdOfRowid(s, t, r) == IF t.pk = "text" THEN s.rowids[r].id ELSE r

(* Mutant: max(rowid) + 1 in place of AUTOINCREMENT. *)
NewRowidReused(s, t, id) ==
    IF t.pk = "text" \/ id = None THEN Largest(DOMAIN s.rowids \cup {0}) + 1 ELSE id

(* InsertRowidStep: a supplied integer, or the next AUTOINCREMENT value for a
   text key and for a NULL id. A key that is taken fails the statement, and so
   does a NULL text key. *)
NewRowid(s, t, id) == IF t.pk = "text" \/ id = None THEN s.rowidSeq + 1 ELSE id
InsertRowid(s, t, id, r) ==
    [s EXCEPT !.rowids = Put(@, r, [id |-> IF t.pk = "text" THEN id ELSE None,
                                    chunk |-> None, offset |-> None]),
              !.rowidSeq = IF r > @ THEN r ELSE @]

(* vec0_get_latest_chunk_rowid: max(rowid) of the partition's chunks. SQL
   equality never holds for a NULL key. *)
PartitionChunks(s, part) ==
    {c \in DOMAIN s.chunks : s.chunks[c].part = part /\ part # None}
LatestChunk(s, t, part) ==
    LET cs == IF t.part THEN PartitionChunks(s, part) ELSE DOMAIN s.chunks
    IN  IF cs = {} THEN None ELSE Largest(cs)

FreeOffsets(s, t, c) == Offsets(t) \ s.chunks[c].validity

ZeroMeta(t) == IF t.meta = "text" THEN [n |-> 0, data |-> <<>>] ELSE 0

(* vec0_new_chunk: a blank chunk in _chunks and in every per-column table. *)
Blank(t, zero) == [o \in Offsets(t) |-> zero]
NewRescoreChunk(s, t, c) ==
    IF t.index = "rescore" THEN [s EXCEPT !.coarse = Put(@, c, Blank(t, 0))] ELSE s
NewMetadataChunk(s, t, c) ==
    IF t.meta # "none" THEN [s EXCEPT !.meta = Put(@, c, Blank(t, ZeroMeta(t)))] ELSE s
NewChunk(s, t, part) ==
    LET c == s.chunkSeq + 1
        s1 == [s EXCEPT
                !.chunks = Put(@, c, [part |-> IF t.part THEN part ELSE None,
                                      validity |-> {}, rowids |-> Blank(t, 0)]),
                !.chunkSeq = c,
                !.vectors = IF t.index = "flat" THEN Put(@, c, Blank(t, 0)) ELSE @]
    IN  NewMetadataChunk(NewRescoreChunk(s1, t, c), t, c)

(* InsertNextAvailableStep: only the latest chunk is looked at; its first clear
   validity bit, or the first slot of a new chunk. *)
NextAvailable(s, t, part) ==
    LET latest == LatestChunk(s, t, part)
    IN  IF latest # None /\ FreeOffsets(s, t, latest) # {}
        THEN [store |-> s, chunk |-> latest, offset |-> Smallest(FreeOffsets(s, t, latest))]
        ELSE [store |-> NewChunk(s, t, part), chunk |-> s.chunkSeq + 1, offset |-> 0]

(* InsertWriteFinalStep: validity bit, vector, rowid slot, then the position. *)
WriteVector(s, c, o, v) == [s EXCEPT !.vectors[c][o] = v]
UpdatePosition(s, r, c, o) == [s EXCEPT !.rowids[r].chunk = c, !.rowids[r].offset = o]
MarkSlot(s, r, c, o) ==
    [s EXCEPT !.chunks[c].validity = @ \cup {o}, !.chunks[c].rowids[o] = r]
WriteFinal(s, t, r, c, o, v) ==
    UpdatePosition(MarkSlot(IF t.index = "flat" THEN WriteVector(s, c, o, v) ELSE s, r, c, o),
                   r, c, o)

(* rescore_quantize_float_to_bit, and rescore_on_insert / the rescore part of
   UpdateVectorColumn: the quantized copy in the chunk, the full one by rowid.
   That INSERT, and the auxiliary one below, would fail on a rowid that has a row
   already: ColumnsAgree says that a new rowid has none. *)
RescoreQuantize(v) == IF v >= 0 THEN 1 ELSE 0
RescoreWrite(s, t, r, c, o, v) ==
    IF t.index # "rescore" THEN s
    ELSE [s EXCEPT !.coarse[c][o] = RescoreQuantize(v), !.full = Put(@, r, v)]

------------------------------------------------------------------------------
TextView(txt) ==
    [n |-> Len(txt),
     data |-> SubSeq(txt, 1, IF Len(txt) < ViewLength THEN Len(txt) ELSE ViewLength)]

(* vec0_write_metadata_value: the fixed-size value in the chunk; a text that
   does not fit its view also has a row in the text table, inserted, updated or
   deleted according to the length that was there before. *)
MetadataWritable(s, t, r, c, o, v, isUpdate) ==
    LET long == Len(v) > ViewLength
        wasLong == s.meta[c][o].n > ViewLength
    IN  t.meta # "text" \/ ~long \/ (isUpdate /\ wasLong) \/ r \notin DOMAIN s.text
WriteMetadata(s, t, r, c, o, v, isUpdate) ==
    LET long == Len(v) > ViewLength
        wasLong == s.meta[c][o].n > ViewLength
    IN  CASE t.meta = "none" -> s
          [] t.meta \in {"integer", "boolean"} -> [s EXCEPT !.meta[c][o] = v]
          [] t.meta = "text" ->
               [s EXCEPT
                 !.meta[c][o] = TextView(v),
                 !.text = CASE long /\ isUpdate /\ wasLong ->
                                 IF r \in DOMAIN @ THEN Put(@, r, v) ELSE @
                            [] long /\ ~(isUpdate /\ wasLong) -> Put(@, r, v)
                            [] ~long /\ wasLong -> Without(@, r)
                            [] OTHER -> @]

WriteAux(s, t, r, v) == IF t.aux THEN [s EXCEPT !.aux = Put(@, r, v)] ELSE s

------------------------------------------------------------------------------
(* vec0Update_Insert, from the rowid step on. *)
InsertChunked(s, t, r, row) ==
    LET at == NextAvailable(s, t, row.part)
        placed == WriteFinal(at.store, t, r, at.chunk, at.offset, row.vector)
        indexed == RescoreWrite(placed, t, r, at.chunk, at.offset, row.vector)
        withAux == WriteAux(indexed, t, r, row.aux)
    IN  [ok |-> MetadataWritable(withAux, t, r, at.chunk, at.offset, row.meta, FALSE),
         store |-> WriteMetadata(withAux, t, r, at.chunk, at.offset, row.meta, FALSE)]

(* A size set for insertion alone goes before the common one. *)
InsertBeam(t) == IF t.insertListSize > 0 THEN t.insertListSize ELSE t.searchListSize
WithGraph(s, t, r, row, linked) ==
    [ok |-> linked.ok, store |-> WriteAux([s EXCEPT !.graph = linked.index], t, r, row.aux)]
InsertGraphRow(s, t, r, row) ==
    WithGraph(s, t, r, row, Insert(s.graph, r, row.vector, t.bufferThreshold, InsertBeam(t)))

InsertRow(s, t, id, row) ==
    LET r == NewRowid(s, t, id)
        s1 == InsertRowid(s, t, id, r)
        taken == IF id = None THEN t.pk = "text" ELSE HasId(s, t, id)
    IN  IF taken THEN [ok |-> FALSE, store |-> s]
        ELSE IF Chunked(t) THEN InsertChunked(s1, t, r, row) ELSE InsertGraphRow(s1, t, r, row)

------------------------------------------------------------------------------
(* The steps of vec0Update_Delete. *)
ClearValidity(s, c, o) == [s EXCEPT !.chunks[c].validity = @ \ {o}]
ClearRowid(s, c, o) == [s EXCEPT !.chunks[c].rowids[o] = 0]
ClearVectors(s, t, c, o) == IF t.index = "flat" THEN [s EXCEPT !.vectors[c][o] = 0] ELSE s
RescoreOnDelete(s, t, r, c, o) ==
    IF t.index # "rescore" THEN s
    ELSE [s EXCEPT !.coarse[c][o] = 0, !.full = Without(@, r)]
DeleteRowids(s, r) == [s EXCEPT !.rowids = Without(@, r)]
DeleteAux(s, t, r) == IF t.aux THEN [s EXCEPT !.aux = Without(@, r)] ELSE s

(* Mutant: the row of a long text stays. *)
ClearMetadataInChunk(s, t, r, c, o) ==
    IF t.meta = "none" THEN s ELSE [s EXCEPT !.meta[c][o] = ZeroMeta(t)]

(* The slot is zeroed; a long text's row goes with it. *)
ClearMetadata(s, t, r, c, o) ==
    IF t.meta = "none" THEN s
    ELSE [s EXCEPT !.meta[c][o] = ZeroMeta(t),
                   !.text = IF t.meta = "text" /\ s.meta[c][o].n > ViewLength
                            THEN Without(@, r) ELSE @]

(* A chunk whose last valid row went away leaves every per-chunk table. *)
DeleteRescoreChunk(s, c) == [s EXCEPT !.coarse = Without(@, c)]
DeleteChunkIfEmpty(s, t, c) ==
    IF s.chunks[c].validity # {} THEN s
    ELSE [DeleteRescoreChunk(s, c) EXCEPT !.chunks = Without(@, c), !.vectors = Without(@, c),
                                          !.meta = Without(@, c)]

DeleteChunked(s, t, r) ==
    LET c == s.rowids[r].chunk
        o == s.rowids[r].offset
        s1 == ClearVectors(ClearRowid(ClearValidity(s, c, o), c, o), t, c, o)
        s2 == DeleteAux(DeleteRowids(RescoreOnDelete(s1, t, r, c, o), r), t, r)
    IN  DeleteChunkIfEmpty(ClearMetadata(s2, t, r, c, o), t, c)

DeleteRow(s, t, id) ==
    LET r == RowidFromId(s, t, id)
        unlinked == [s EXCEPT !.graph = Delete(@, r, t.bufferThreshold)]
    IN  IF Chunked(t) THEN DeleteChunked(s, t, r)
        ELSE DeleteAux(DeleteRowids(unlinked, r), t, r)

(* INSERT OR REPLACE: the row that holds the key is deleted first. *)
ReplaceRow(s, t, id, row) ==
    InsertRow(IF id # None /\ HasId(s, t, id) THEN DeleteRow(s, t, id) ELSE s, t, id, row)

------------------------------------------------------------------------------
(* vec0Update_Update. A column is None when it is not being changed (a vector
   also when it is set to NULL). The key of a text-key table may not change;
   for an integer key the new value is not looked at. *)
UpdateVector(s, t, r, v) ==
    LET c == s.rowids[r].chunk
        o == s.rowids[r].offset
    IN  CASE v = None \/ t.index = "diskann" -> s
          [] v # None /\ t.index = "rescore" -> RescoreWrite(s, t, r, c, o, v)
          [] v # None /\ t.index = "flat" -> WriteVector(s, c, o, v)
UpdateAux(s, t, r, v) == IF v = None \/ r \notin DOMAIN s.aux THEN s ELSE WriteAux(s, t, r, v)

UpdateRow(s, t, id, newId, change) ==
    LET r == RowidFromId(s, t, id)
        c == s.rowids[r].chunk
        o == s.rowids[r].offset
        s1 == UpdateAux(s, t, r, change.aux)
        s2 == IF change.meta = None THEN s1
              ELSE WriteMetadata(s1, t, r, c, o, change.meta, TRUE)
    IN  [ok |-> /\ t.pk = "text" => newId = id
                /\ change.part = None
                /\ change.meta # None => MetadataWritable(s1, t, r, c, o, change.meta, TRUE)
                /\ change.vector # None => t.index # "diskann",
         store |-> UpdateVector(s2, t, r, change.vector)]

------------------------------------------------------------------------------
(* What the columns of a row read as (vec0_get_vector_data and its siblings). *)
GetVector(s, t, r) ==
    CASE t.index = "diskann" -> s.graph.vectors[r]
      [] t.index = "rescore" -> s.full[r]
      [] t.index = "flat" -> s.vectors[s.rowids[r].chunk][s.rowids[r].offset]
GetPartition(s, t, r) == IF t.part THEN s.chunks[s.rowids[r].chunk].part ELSE None
GetAux(s, t, r) == IF t.aux THEN s.aux[r] ELSE None
GetMetadata(s, t, r) ==
    LET cell == s.meta[s.rowids[r].chunk][s.rowids[r].offset]
    IN  CASE t.meta = "none" -> None
          [] t.meta = "text" -> IF cell.n > ViewLength THEN s.text[r] ELSE cell.data
          [] OTHER -> cell

(* vec0Filter_fullscan: rowids ordered by chunk and offset; a DiskANN row has
   neither, and those come as they are stored. *)
FullScan(s) ==
    Ranked(DOMAIN s.rowids, LAMBDA a, b :
        IF s.rowids[a].chunk = s.rowids[b].chunk
        THEN IF s.rowids[a].offset = s.rowids[b].offset THEN a < b
             ELSE s.rowids[a].offset < s.rowids[b].offset
        ELSE s.rowids[a].chunk < s.rowids[b].chunk)

(* The rows a SELECT over a full scan delivers, keyed by id. *)
Rows(s, t) ==
    [id \in {IdOfRowid(s, t, r) : r \in DOMAIN s.rowids} |->
        LET r == RowidFromId(s, t, id)
        IN  [vector |-> GetVector(s, t, r), part |-> GetPartition(s, t, r),
             meta |-> GetMetadata(s, t, r), aux |-> GetAux(s, t, r)]]
==============================================================================
