------------------------------- MODULE MCVec0 -------------------------------
(* One table of every kind, the rows put into it and the queries asked of it. *)
EXTENDS Vec0Correct

(* A description of which a table needs to say only what is particular to it. *)
Plain == [pk |-> "none", part |-> FALSE, meta |-> "none", aux |-> FALSE, chunkSize |-> 0,
          element |-> "float", dimensions |-> 2, metric |-> "default", index |-> "default",
          quantizer |-> "none", oversample |-> 0, slots |-> 0, searchListSize |-> 0,
          queryListSize |-> 0, insertListSize |-> 0, bufferThreshold |-> 0, order |-> "given"]

Partitioned == [Plain EXCEPT !.part = TRUE]
Labelled == [Plain EXCEPT !.meta = "text"]
Flagged == [Plain EXCEPT !.meta = "boolean"]
Noted == [Plain EXCEPT !.pk = "text", !.meta = "integer", !.aux = TRUE]
Rescoring == [Plain EXCEPT !.index = "rescore", !.quantizer = "bit", !.oversample = 1]
Graphed == [Plain EXCEPT !.index = "diskann", !.quantizer = "binary", !.searchListSize = 1]
Buffered == [Graphed EXCEPT !.bufferThreshold = 2]

(* The tables that are also renamed and given commands hold one row. *)
Small(d) == [d EXCEPT !.chunkSize = 4]
IsSmall(t) == t.chunkSize = 4
MCDeclarations ==
    {Render(d) : d \in {Partitioned, Labelled, Flagged, Noted, Rescoring, Graphed}}
        \cup {Render(Small(d)) : d \in {Partitioned, Labelled, Noted, Rescoring, Graphed}}
BufferedDeclarations == {Render(Buffered)}

(* Rowid 0 is a key like any other; four rows overflow a node of two slots. *)
MCKeysOf(t) ==
    CASE t.pk = "text" -> {"a", "b"}
      [] t.index = "diskann" -> 0..3
      [] t.meta \in {"text", "boolean"} -> {0, 1}
      [] OTHER -> 0..2

Row(vector, part, meta, aux) == [vector |-> vector, part |-> part, meta |-> meta, aux |-> aux]
MCTexts == {<<1>>, <<1, 2>>, <<1, 2, 1>>}
MCRowsOf(t) ==
    CASE t.part /\ ~IsSmall(t) -> {Row(-1, 1, None, None), Row(2, 2, None, None)}
      [] t.part /\ IsSmall(t) -> {Row(2, part, None, None) : part \in {None, 1}}
      [] t.meta = "text" -> {Row(2, None, txt, None) : txt \in MCTexts}
      [] t.meta = "boolean" -> {Row(-1, None, 0, None), Row(2, None, 1, None), Row(2, None, 0, None)}
      [] t.aux -> {Row(v, None, v, aux) : v \in {1, 2}, aux \in {"x", "y"}}
      [] OTHER -> {Row(-1, None, None, None), Row(2, None, None, None)}

MCNamesOf(t) == IF IsSmall(t) THEN {"docs", "notes"} ELSE {"docs"}
MCCommandsOf(t) ==
    IF ~IsSmall(t) THEN {<<"oversampleSearch", 3>>}
    ELSE {"searchListSize", "queryListSize", "insertListSize", "oversampleSearch"} \X {0, 2}

MCBounds(t) ==
    CASE IsSmall(t) -> [rows |-> 2, rowid |-> 1, chunk |-> 2]
      [] t.index = "diskann" /\ ~IsSmall(t) -> [rows |-> 4, rowid |-> 3, chunk |-> 0]
      [] t.meta \in {"text", "boolean"} -> [rows |-> 2, rowid |-> 1, chunk |-> 2]
      [] OTHER -> [rows |-> 3, rowid |-> 2, chunk |-> 2]

(* Every description of the columns with a plain index, and every index alone. *)
MCDescriptions ==
    [pk : {"none", "int", "text"}, part : BOOLEAN, meta : {"none", "text", "integer", "boolean"},
     aux : BOOLEAN, chunkSize : {0, 3, 4, 6}, element : {"float"}, dimensions : {2},
     metric : {"default"}, index : {"default", "rescore"}, quantizer : {"bit"},
     oversample : {0}, slots : {0}, searchListSize : {0}, queryListSize : {0},
     insertListSize : {0}, bufferThreshold : {0}, order : {"given", "reverse"}]
    \cup
    [pk : {"none"}, part : {FALSE}, meta : {"none"}, aux : {FALSE}, chunkSize : {0},
     element : {"float", "int8", "bit"}, dimensions : {0, 1, 2, 5}, metric : {"default", "cosine", "l1"},
     index : {"flat", "rescore"}, quantizer : {"bit", "int8"},
     oversample : {0, 3, 4}, slots : {0}, searchListSize : {0}, queryListSize : {0},
     insertListSize : {0}, bufferThreshold : {0}, order : {"given"}]
    \cup
    [pk : {"none"}, part : {FALSE}, meta : {"none"}, aux : BOOLEAN, chunkSize : {0},
     element : {"float", "int8", "bit"}, dimensions : {1, 2}, metric : {"default", "l2"},
     index : {"diskann"}, quantizer : {"binary", "int8"},
     oversample : {0}, slots : {0, 3, 4}, searchListSize : {0, 3}, queryListSize : {0, 1},
     insertListSize : {0, 2}, bufferThreshold : {0, 1}, order : {"given"}]

------------------------------------------------------------------------------
Term(col, op, value) ==
    [col |-> col, op |-> op, isIn |-> FALSE, usable |-> TRUE, value |-> value]
In(col, values) == [Term(col, "EQ", values) EXCEPT !.isIn = TRUE]
Match(v) == Term("vector", "MATCH", v)
K(n) == Term("k", "EQ", n)
Limit(n) == Term("none", "LIMIT", n)
Query(cs) == [cs |-> cs, orderBy |-> <<>>]
Nearest(v, k, terms) == Query(<<Match(v), K(k)>> \o terms)

(* The terms are sequences: a TLC set may not mix the values they compare with. *)
Sequence(S) == FoldSet(LAMBDA x, seq : Append(seq, x), <<>>, S)
MetaTerms(t) ==
    CASE t.meta = "text" ->
           Sequence({Term("meta", op, txt) : op \in CompareOps,
                                             txt \in MCTexts \cup {<<1, 2, 1, 1>>}})
               \o <<In("meta", {<<1>>, <<1, 2, 1>>})>>
      [] t.meta = "integer" ->
           Sequence({Term("meta", op, 1) : op \in CompareOps}) \o <<In("meta", {0, 2})>>
      [] t.meta = "boolean" ->
           Sequence({Term("meta", op, bit) : op \in {"EQ", "NE"}, bit \in {0, 1}})
      [] OTHER -> <<>>
PartTerms(t) == IF t.part THEN Sequence({Term("part", op, 1) : op \in CompareOps}) ELSE <<>>
DistanceTermsOf(t) ==
    IF t.index = "flat" THEN Sequence({Term("distance", op, 1) : op \in DistanceOps}) ELSE <<>>
IdTerms(t) ==
    CASE t.pk = "text" -> <<In("id", {"a"}), In("id", {"a", "b"})>>
      [] t.index = "diskann" -> <<>>
      [] OTHER -> <<In("id", {0, 2})>>
KeyTerms(t) == IF t.pk = "text" THEN <<Term("id", "EQ", "a")>>
               ELSE <<Term("id", "EQ", 0), Term("id", "EQ", 1)>>

MCQueriesOf(t) ==
    LET filters == MetaTerms(t) \o PartTerms(t) \o DistanceTermsOf(t) \o IdTerms(t)
        wheres == MetaTerms(t) \o KeyTerms(t)
    IN  Sequence({Nearest(v, k, <<>>) : v \in {-1, 1}, k \in {0, 1, 2, 4}})
        \o [i \in 1..Len(filters) |-> Nearest(1, 2, <<filters[i]>>)]
        \o [i \in 1..Len(wheres) |-> Query(<<wheres[i]>>)]
        \o <<Query(<<>>),
              [cs |-> <<Limit(2), Match(0)>>, orderBy |-> <<[col |-> "distance", desc |-> FALSE]>>]>>
=============================================================================
