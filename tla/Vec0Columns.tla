----------------------------- MODULE Vec0Columns -----------------------------
(***************************************************************************)
(* What vec0_init makes of the arguments of CREATE VIRTUAL TABLE: each is  *)
(* tried as a vector column, a partition key, a primary key, an auxiliary  *)
(* column, a metadata column and a table option, in this order.            *)
(*                                                                         *)
(* An argument is the sequence of its tokens [type, text, num]: text is    *)
(* the word of an identifier and "" of punctuation, num the value of a     *)
(* digit token. A character the tokenizer refuses is a token of type       *)
(* "error", which it never gets past. Words are lower case. The operators  *)
(* keep the code's reading of a keyword: a word is taken for it when it is *)
(* a prefix of it (sqlite3_strnicmp with the word's length).               *)
(***************************************************************************)
EXTENDS Integers, Sequences, FiniteSets, SequencesExt

CONSTANTS
    MaxColumns,        \* VEC0_MAX_..._COLUMNS: columns of one kind
    MaxDimensions,     \* SQLITE_VEC_VEC0_MAX_DIMENSIONS
    CharBit,           \* 8: bits of a byte
    DefaultChunkSize,  \* 1024
    MaxChunkSize,      \* SQLITE_VEC_CHUNK_SIZE_MAX
    DefaultOversample, \* 8
    MaxOversample,     \* 128
    DefaultNeighbors,  \* VEC0_DISKANN_DEFAULT_N_NEIGHBORS
    MaxNeighbors,      \* VEC0_DISKANN_MAX_N_NEIGHBORS
    DefaultListSize    \* VEC0_DISKANN_DEFAULT_SEARCH_LIST_SIZE

(* vec0_scanner_next. Past the end, or at an error, the caller's token keeps
   what was read last; some callers look at it all the same. *)
Readable(toks, i) == i <= Len(toks) /\ \A j \in 1..i : toks[j].type # "error"
TokenAt(toks, i) ==
    LET read == {j \in 1..i : Readable(toks, j)}
    IN  toks[CHOOSE j \in read : \A k \in read : k <= j]
AtEnd(toks, i) == i > Len(toks) /\ Readable(toks, Len(toks))

Is(toks, i, type) == Readable(toks, i) /\ toks[i].type = type
(* "rc != SOME && type != X": lets any token through, and at the end one of
   that type that was read before. *)
Passes(toks, i, type) == Readable(toks, i) \/ TokenAt(toks, i).type = type

IsPrefixWord(word, keyword) ==
    Len(word) <= Len(keyword) /\ SubSeq(keyword, 1, Len(word)) = word
OneOf(word, keywords) == \E k \in keywords : IsPrefixWord(word, k)
StartsWith(word, keyword) ==
    Len(word) >= Len(keyword) /\ SubSeq(word, 1, Len(keyword)) = keyword

(* atoi at a token: punctuation has no text of its own, so it reads on. *)
NumberAt(toks, i) ==
    LET t == TokenAt(toks, i)
    IN  CASE t.type = "digit" -> t.num
          [] t.type \notin {"digit", "identifier"} /\ Is(toks, i + 1, "digit") -> toks[i + 1].num
          [] OTHER -> 0

Empty == [rc |-> "empty"]
Error == [rc |-> "error"]

------------------------------------------------------------------------------
(* vec0_parse_partition_key_definition and vec0_parse_primary_key_definition:
   name, type, keyword, "key". What follows is not looked at. *)
KeyType(word) ==
    CASE IsPrefixWord(word, "text") -> "text"
      [] ~IsPrefixWord(word, "text") /\ OneOf(word, {"int", "integer"}) -> "int"
      [] OTHER -> "none"
ParseKey(toks, keyword) ==
    IF /\ \A i \in 1..4 : Passes(toks, i, "identifier")
       /\ KeyType(TokenAt(toks, 2).text) # "none"
       /\ IsPrefixWord(TokenAt(toks, 3).text, keyword)
       /\ IsPrefixWord(TokenAt(toks, 4).text, "key")
    THEN [rc |-> "ok", name |-> toks[1].text, type |-> KeyType(TokenAt(toks, 2).text)]
    ELSE Empty
ParsePartitionKey(toks) == ParseKey(toks, "partition")
ParsePrimaryKey(toks) == ParseKey(toks, "primary")

(* vec0_parse_auxiliary_column_definition: '+', name, type. *)
ParseAuxiliary(toks) ==
    IF /\ Is(toks, 1, "plus")
       /\ Passes(toks, 2, "identifier")
       /\ Passes(toks, 3, "identifier")
       /\ OneOf(TokenAt(toks, 3).text, {"text", "int", "integer", "float", "double", "blob"})
    THEN [rc |-> "ok", name |-> TokenAt(toks, 2).text]
    ELSE Empty

(* vec0_parse_metadata_column_definition: name, type; the first kind that
   fits the word. *)
MetadataKind(word) ==
    CASE OneOf(word, {"boolean", "bool"}) -> "boolean"
      [] ~OneOf(word, {"boolean", "bool"})
           /\ OneOf(word, {"int64", "integer64", "integer", "int"}) -> "integer"
      [] OneOf(word, {"float", "double", "float64", "f64"}) -> "float"
      [] IsPrefixWord(word, "text") -> "text"
      [] OTHER -> "none"
ParseMetadata(toks) ==
    IF /\ Is(toks, 1, "identifier")
       /\ Is(toks, 2, "identifier")
       /\ MetadataKind(toks[2].text) # "none"
    THEN [rc |-> "ok", name |-> toks[1].text, kind |-> MetadataKind(toks[2].text)]
    ELSE Empty

(* vec0_parse_table_option: key = value and nothing else. *)
ParseTableOption(toks) ==
    CASE ~(Passes(toks, 1, "identifier") /\ Passes(toks, 2, "eq")) -> Empty
      [] Passes(toks, 1, "identifier") /\ Passes(toks, 2, "eq")
           /\ (Readable(toks, 3) \/ TokenAt(toks, 3).type \in {"identifier", "digit"})
           /\ AtEnd(toks, 4) ->
           [rc |-> "ok", key |-> toks[1].text, value |-> NumberAt(toks, 3)]
      [] OTHER -> Error

------------------------------------------------------------------------------
(* vec0_parse_rescore_options *)
SetRescore(toks, r, key, i) ==
    LET word == toks[i].text
        n == NumberAt(toks, i)
    IN  CASE IsPrefixWord(key, "quantizer") ->
               IF toks[i].type = "identifier" /\ OneOf(word, {"bit", "int8"})
               THEN [r EXCEPT !.config.quantizer =
                        IF IsPrefixWord(word, "bit") THEN "bit" ELSE "int8"]
               ELSE [r EXCEPT !.rc = "error"]
          [] ~IsPrefixWord(key, "quantizer") /\ IsPrefixWord(key, "oversample")
               /\ toks[i].type = "digit" /\ n \in 1..MaxOversample ->
               [r EXCEPT !.config.oversample = n]
          [] OTHER -> [r EXCEPT !.rc = "error"]
RescoreComplete(r) ==
    IF r.rc = "closed" /\ r.config.quantizer # "none" THEN r ELSE [r EXCEPT !.rc = "error"]
(* Mutant: the common size is tried before the split ones. *)
SetDiskannCommonFirst(toks, r, key, i) ==
    LET word == toks[i].text
        n == NumberAt(toks, i)
        bad == [r EXCEPT !.rc = "error"]
    IN  CASE IsPrefixWord(key, "neighbor_quantizer") ->
               [r EXCEPT !.config.quantizer = IF IsPrefixWord(word, "binary") THEN "binary" ELSE "int8"]
          [] IsPrefixWord(key, "n_neighbors") ->
               IF n > 0 /\ n % CharBit = 0 /\ n <= MaxNeighbors
               THEN [r EXCEPT !.config.slots = n] ELSE bad
          [] StartsWith(key, "search_list_size") ->
               IF n > 0 THEN [r EXCEPT !.config.searchListSize = n, !.config.common = TRUE]
               ELSE bad
          [] IsPrefixWord(key, "buffer_threshold") -> [r EXCEPT !.config.bufferThreshold = n]
          [] OTHER -> bad

(* vec0_parse_diskann_options. The two split sizes are matched by their whole
   name, before the common one whose name begins theirs. *)
SetDiskann(toks, r, key, i) ==
    LET word == toks[i].text
        n == NumberAt(toks, i)
        bad == [r EXCEPT !.rc = "error"]
    IN  CASE IsPrefixWord(key, "neighbor_quantizer") ->
               IF OneOf(word, {"binary", "int8"})
               THEN [r EXCEPT !.config.quantizer =
                        IF IsPrefixWord(word, "binary") THEN "binary" ELSE "int8"]
               ELSE bad
          [] ~IsPrefixWord(key, "neighbor_quantizer") /\ IsPrefixWord(key, "n_neighbors") ->
               IF n > 0 /\ n % CharBit = 0 /\ n <= MaxNeighbors
               THEN [r EXCEPT !.config.slots = n] ELSE bad
          [] key = "search_list_size_search" ->
               IF n > 0 THEN [r EXCEPT !.config.queryListSize = n] ELSE bad
          [] key = "search_list_size_insert" ->
               IF n > 0 THEN [r EXCEPT !.config.insertListSize = n] ELSE bad
          [] IsPrefixWord(key, "search_list_size") ->
               IF n > 0 THEN [r EXCEPT !.config.searchListSize = n, !.config.common = TRUE]
               ELSE bad
          [] IsPrefixWord(key, "buffer_threshold") -> [r EXCEPT !.config.bufferThreshold = n]
          [] OTHER -> bad
DiskannDefaults ==
    [quantizer |-> "none", slots |-> DefaultNeighbors, searchListSize |-> DefaultListSize,
     queryListSize |-> 0, insertListSize |-> 0, bufferThreshold |-> 0, common |-> FALSE]
DiskannComplete(toks, start, r) ==
    IF /\ Is(toks, start, "lparen")
       /\ r.rc = "closed"
       /\ r.config.quantizer # "none"
       /\ r.config.common => r.config.queryListSize = 0 /\ r.config.insertListSize = 0
    THEN r ELSE [r EXCEPT !.rc = "error"]

(* "key = value" separated by commas up to the ')' of an index's options, which
   rescore also takes from the end of the text. "pos" is the next token, "rc" is
   "go" until the list is closed or refused. *)
Closes(toks, i, index) == Is(toks, i, "rparen") \/ (index = "rescore" /\ AtEnd(toks, i))
SetOption(toks, r, i, index) ==
    IF index = "rescore" THEN SetRescore(toks, r, toks[i].text, i + 2)
    ELSE SetDiskann(toks, r, toks[i].text, i + 2)
AfterOption(toks, i, set, index) ==
    CASE set.rc = "error" -> set
      [] set.rc # "error" /\ Closes(toks, i, index) -> [set EXCEPT !.rc = "closed", !.pos = i + 1]
      [] set.rc # "error" /\ Is(toks, i, "comma") -> [set EXCEPT !.pos = i + 1]
      [] OTHER -> [set EXCEPT !.rc = "error"]
Options(toks, start, config, index) ==
    LET Turn(r, n) ==
            LET i == r.pos
            IN  CASE r.rc # "go" -> r
                  [] r.rc = "go" /\ Closes(toks, i, index) ->
                       [r EXCEPT !.rc = "closed", !.pos = i + 1]
                  [] r.rc = "go" /\ Is(toks, i, "identifier") /\ Is(toks, i + 1, "eq")
                       /\ Readable(toks, i + 2) ->
                       AfterOption(toks, i + 3, SetOption(toks, r, i, index), index)
                  [] OTHER -> [r EXCEPT !.rc = "error"]
    IN  FoldLeft(Turn, [rc |-> "go", pos |-> start, config |-> config],
                 [n \in 1..(Len(toks) + 1) |-> n])
ParseRescore(toks, start) ==
    RescoreComplete(
        Options(toks, start, [quantizer |-> "none", oversample |-> DefaultOversample], "rescore"))
ParseDiskann(toks, start) ==
    DiskannComplete(toks, start, Options(toks, start + 1, DiskannDefaults, "diskann"))

------------------------------------------------------------------------------
(* vec0_parse_vector_column *)
ElementType(word) ==
    CASE StartsWith(word, "float") \/ StartsWith(word, "f32") -> "float32"
      [] StartsWith(word, "int8") \/ StartsWith(word, "i8") -> "int8"
      [] StartsWith(word, "bit") -> "bit"
      [] OTHER -> "none"

NoIndex == [slots |-> DefaultNeighbors, searchListSize |-> 0, queryListSize |-> 0,
            insertListSize |-> 0, bufferThreshold |-> 0, oversample |-> 0, quantizer |-> "none"]

(* "distance_metric = word"; the last one given counts. *)
SetMetric(toks, c, i) ==
    LET word == TokenAt(toks, i + 2).text
        metric == CASE IsPrefixWord(word, "l2") -> "l2"
                    [] ~IsPrefixWord(word, "l2") /\ IsPrefixWord(word, "l1") -> "l1"
                    [] IsPrefixWord(word, "cosine") -> "cosine"
                    [] OTHER -> "none"
    IN  IF /\ c.element # "bit"
           /\ Passes(toks, i + 1, "eq")
           /\ Passes(toks, i + 2, "identifier")
           /\ metric # "none"
        THEN [c EXCEPT !.metric = metric, !.pos = i + 3] ELSE [c EXCEPT !.rc = "error"]

(* "indexed by" flat() | rescore(...) | diskann(...); ivf is not compiled in. *)
WithFlat(toks, c, i) ==
    IF Is(toks, i, "lparen") /\ Is(toks, i + 1, "rparen")
    THEN [c EXCEPT !.index = "flat", !.pos = i + 2] ELSE [c EXCEPT !.rc = "error"]
WithRescore(toks, c, i, r) ==
    IF /\ c.element = "float32"
       /\ Is(toks, i, "lparen")
       /\ r.rc = "closed"
       /\ r.config.quantizer = "bit" => c.dimensions % CharBit = 0
    THEN [c EXCEPT !.index = "rescore", !.pos = r.pos,
                   !.options.oversample = r.config.oversample,
                   !.options.quantizer = r.config.quantizer]
    ELSE [c EXCEPT !.rc = "error"]
WithDiskann(c, r) ==
    IF r.rc = "closed"
    THEN [c EXCEPT !.index = "diskann", !.pos = r.pos,
                   !.options = [o \in DOMAIN NoIndex |->
                       IF o = "oversample" THEN @.oversample ELSE r.config[o]]]
    ELSE [c EXCEPT !.rc = "error"]
SetIndex(toks, c, i) ==
    LET word == toks[i + 2].text
        named == Is(toks, i + 1, "identifier") /\ IsPrefixWord(toks[i + 1].text, "by")
                   /\ Is(toks, i + 2, "identifier")
    IN  CASE named /\ IsPrefixWord(word, "flat") -> WithFlat(toks, c, i + 3)
          [] named /\ ~IsPrefixWord(word, "flat") /\ IsPrefixWord(word, "rescore") ->
               WithRescore(toks, c, i + 3, ParseRescore(toks, i + 4))
          [] named /\ ~IsPrefixWord(word, "flat") /\ IsPrefixWord(word, "diskann") ->
               WithDiskann(c, ParseDiskann(toks, i + 3))
          [] OTHER -> [c EXCEPT !.rc = "error"]

ColumnOption(toks, c) ==
    CASE c.rc # "go" -> c
      [] c.rc = "go" /\ AtEnd(toks, c.pos) -> [c EXCEPT !.rc = "ok"]
      [] c.rc = "go" /\ Readable(toks, c.pos) ->
           CASE IsPrefixWord(toks[c.pos].text, "distance_metric") -> SetMetric(toks, c, c.pos)
             [] ~IsPrefixWord(toks[c.pos].text, "distance_metric")
                  /\ IsPrefixWord(toks[c.pos].text, "indexed") -> SetIndex(toks, c, c.pos)
             [] OTHER -> [c EXCEPT !.rc = "error"]
      [] OTHER -> [c EXCEPT !.rc = "error"]
ParseVector(toks) ==
    LET element == ElementType(toks[2].text)
        dimensions == NumberAt(toks, 4)
        column == [rc |-> "go", pos |-> 6, name |-> toks[1].text, element |-> element,
                   dimensions |-> dimensions, metric |-> "l2", index |-> "flat",
                   options |-> NoIndex]
    IN  CASE ~(Passes(toks, 1, "identifier") /\ Is(toks, 2, "identifier")) -> Empty
          [] Is(toks, 2, "identifier") /\ (element = "none" \/ ~Passes(toks, 3, "lbracket")) -> Empty
          [] Is(toks, 2, "identifier") /\ element # "none" /\ Passes(toks, 3, "lbracket")
               /\ Passes(toks, 4, "digit") /\ dimensions > 0 /\ Passes(toks, 5, "rbracket") ->
               FoldLeft(LAMBDA c, n : ColumnOption(toks, c), column,
                        [n \in 1..(Len(toks) + 1) |-> n])
          [] OTHER -> Error

------------------------------------------------------------------------------
(* vec0_init, the loop over the arguments. "columns" collects the names. *)
NoTable == [rc |-> "go", vectors |-> 0, parts |-> 0, auxes |-> 0, metas |-> 0, keys |-> 0,
            pk |-> "int", meta |-> "none", chunkSize |-> DefaultChunkSize,
            vector |-> Empty, columns |-> {}]

VectorAllowed(c) ==
    /\ c.dimensions <= MaxDimensions
    /\ c.index = "diskann" => /\ c.element # "bit"
                              /\ c.options.quantizer = "binary" => c.dimensions % CharBit = 0

Unless(d, cond, next) == IF cond THEN [d EXCEPT !.rc = "error"] ELSE next
TakeVector(d, vector) ==
    Unless(d, vector.rc = "error" \/ d.vectors >= MaxColumns \/ ~VectorAllowed(vector),
           [d EXCEPT !.vectors = @ + 1, !.vector = vector, !.columns = @ \cup {vector.name}])
TakePartition(d, part) ==
    Unless(d, d.parts >= MaxColumns, [d EXCEPT !.parts = @ + 1, !.columns = @ \cup {part.name}])
TakePrimaryKey(d, key) == Unless(d, d.keys > 0, [d EXCEPT !.keys = 1, !.pk = key.type, !.columns = @ \cup {key.name}])
TakeAuxiliary(d, aux) ==
    Unless(d, d.auxes >= MaxColumns, [d EXCEPT !.auxes = @ + 1, !.columns = @ \cup {aux.name}])
TakeMetadata(d, meta) ==
    Unless(d, d.metas >= MaxColumns, [d EXCEPT !.metas = @ + 1, !.meta = meta.kind,
                                            !.columns = @ \cup {meta.name}])
TakeOption(d, option) ==
    IF /\ option.rc = "ok"
       /\ IsPrefixWord(option.key, "chunk_size")
       /\ option.value > 0
       /\ option.value % CharBit = 0
       /\ option.value <= MaxChunkSize
    THEN [d EXCEPT !.chunkSize = option.value] ELSE [d EXCEPT !.rc = "error"]

(* The first parser that does not answer "empty" decides. *)
FirstReading(d, vector, part, key, aux, meta, option) ==
    IF vector.rc # "empty" THEN TakeVector(d, vector)
    ELSE IF part.rc = "ok" THEN TakePartition(d, part)
    ELSE IF key.rc = "ok" THEN TakePrimaryKey(d, key)
    ELSE IF aux.rc = "ok" THEN TakeAuxiliary(d, aux)
    ELSE IF meta.rc = "ok" THEN TakeMetadata(d, meta)
    ELSE TakeOption(d, option)
Argument(d, toks) ==
    IF d.rc # "go" THEN d
    ELSE FirstReading(d, ParseVector(toks), ParsePartitionKey(toks), ParsePrimaryKey(toks),
                      ParseAuxiliary(toks), ParseMetadata(toks), ParseTableOption(toks))

(* ... and the checks after it: a vector column, and no partition key or
   metadata beside an index that is not flat. SQLite refuses a declaration in
   which two columns have one name, the hidden ones included. *)
Accepted(d) ==
    /\ d.rc = "go"
    /\ d.vectors > 0
    /\ d.vector.index # "flat" => d.metas = 0 /\ d.parts = 0
NamesDiffer(d) ==
    /\ Cardinality(d.columns) = d.vectors + d.parts + d.auxes + d.metas + d.keys
    /\ d.columns \cap {"distance", "k"} = {}
    /\ d.keys = 0 => "rowid" \notin d.columns
TableRecord(d, v) ==
    [pk |-> d.pk, part |-> d.parts > 0, meta |-> d.meta, aux |-> d.auxes > 0,
     chunkSize |-> d.chunkSize, columns |-> d.columns, element |-> v.element,
     dimensions |-> v.dimensions, metric |-> v.metric, index |-> v.index,
     quantizer |-> v.options.quantizer, oversample |-> v.options.oversample,
     oversampleSearch |-> 0, slots |-> v.options.slots,
     searchListSize |-> v.options.searchListSize, queryListSize |-> v.options.queryListSize,
     insertListSize |-> v.options.insertListSize,
     bufferThreshold |-> v.options.bufferThreshold]
Declared(d) ==
    IF Accepted(d) /\ NamesDiffer(d) THEN [ok |-> TRUE, table |-> TableRecord(d, d.vector)]
    ELSE [ok |-> FALSE, table |-> Empty]
Declare(args) == Declared(FoldLeft(Argument, NoTable, args))
==============================================================================
