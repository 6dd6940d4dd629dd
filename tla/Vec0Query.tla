------------------------------ MODULE Vec0Query ------------------------------
(***************************************************************************)
(* How a SELECT on a vec0 table is planned (vec0BestIndex) and answered    *)
(* (vec0Filter and what it calls), as operators on a store.                *)
(*                                                                         *)
(* A constraint of the WHERE clause is a record                            *)
(*   [col, op, isIn, usable, value]                                        *)
(* where col is "id", "vector", "part", "meta", "aux", "distance", "k" or  *)
(* "none" (LIMIT and OFFSET), isIn marks an EQ that stands for "IN (...)"  *)
(* (value is then the set of the listed values). A plan lists, in argv     *)
(* order, the constraints vec0 consumes; each is passed with omit = 1, so  *)
(* SQLite does not test it again.                                          *)
(***************************************************************************)
EXTENDS Vec0Store

CONSTANT MaxK    \* SQLITE_VEC_VEC0_K_MAX, and the cap on oversampled candidates

ASSUME Vec0QueryAssumption == MaxK \in Nat \ {0}

CompareOps == {"EQ", "GT", "LE", "LT", "GE", "NE"}
DistanceOps == {"GT", "GE", "LT", "LE"}
NotOnColumns == {"LIMIT", "OFFSET"}

AtMost(a, b) == IF a < b THEN a ELSE b
FirstN(seq, n) == SubSeq(seq, 1, AtMost(n, Len(seq)))
InOrder(S) == Ranked(S, <)

------------------------------------------------------------------------------
(* vec0BestIndex: which plan, and which constraints it takes. *)
Usable(cs) == {i \in 1..Len(cs) : cs[i].usable}
TermsOn(cs, col, ops) == {i \in Usable(cs) : cs[i].col = col /\ cs[i].op \in ops}

MatchTerms(cs) == TermsOn(cs, "vector", {"MATCH"})
LimitTerms(cs) == {i \in Usable(cs) : cs[i].op = "LIMIT"}
KTerms(cs) == TermsOn(cs, "k", {"EQ"})
RowidInTerms(cs) == {i \in TermsOn(cs, "id", {"EQ"}) : cs[i].isIn}
RowidTerms(cs) == TermsOn(cs, "id", {"EQ"}) \ RowidInTerms(cs)
ConstraintsOn(cs, col) == {i \in Usable(cs) : cs[i].col = col /\ cs[i].op \notin NotOnColumns}

(* The checks made before a KNN plan is drawn up. *)
KnnAllowed(cs, orderBy) ==
    /\ (LimitTerms(cs) = {}) # (KTerms(cs) = {})
    /\ Len(orderBy) <= 1
    /\ \A i \in 1..Len(orderBy) : orderBy[i].col = "distance" /\ ~orderBy[i].desc
    /\ ConstraintsOn(cs, "aux") = {}

(* Operators the metadata kinds support, and those of the distance column. *)
MetadataAllowed(t, c) ==
    /\ c.op \in CompareOps
    /\ c.isIn => t.meta \in {"integer", "text"}
    /\ t.meta = "boolean" => c.op \in {"EQ", "NE"}
MetadataTerms(cs) == ConstraintsOn(cs, "meta")
DistanceTerms(cs) == ConstraintsOn(cs, "distance")
PartitionTerms(cs) == TermsOn(cs, "part", CompareOps)

(* The argv of a KNN plan. *)
KnnArgs(cs) ==
    <<Largest(MatchTerms(cs)), Largest(LimitTerms(cs) \cup KTerms(cs))>>
        \o InOrder(RowidInTerms(cs)) \o InOrder(PartitionTerms(cs))
        \o InOrder(MetadataTerms(cs)) \o InOrder(DistanceTerms(cs))

BestIndex(t, cs, orderBy) ==
    LET knn == MatchTerms(cs) # {}
        ok == /\ Cardinality(MatchTerms(cs)) <= 1
              /\ Cardinality(RowidInTerms(cs)) <= 1
              /\ knn => /\ KnnAllowed(cs, orderBy)
                        /\ \A i \in MetadataTerms(cs) : MetadataAllowed(t, cs[i])
                        /\ \A i \in DistanceTerms(cs) : cs[i].op \in DistanceOps
    IN  [ok |-> ok,
         plan |-> IF knn THEN "knn" ELSE IF RowidTerms(cs) # {} THEN "point" ELSE "fullscan",
         args |-> IF ~ok THEN <<>> ELSE IF knn THEN KnnArgs(cs)
                  ELSE IF RowidTerms(cs) # {} THEN <<Largest(RowidTerms(cs))>> ELSE <<>>]

------------------------------------------------------------------------------
Holds(op, c) ==
    CASE op = "EQ" -> c = 0 [] op = "NE" -> c # 0 [] op = "GT" -> c > 0
      [] op = "GE" -> c >= 0 [] op = "LT" -> c < 0 [] op = "LE" -> c <= 0

(* strncmp: the first differing byte among the first n; a text ends in a NUL. *)
ByteAt(txt, i) == IF i <= Len(txt) THEN txt[i] ELSE 0
StrNCmp(a, b, n) ==
    LET diff == {i \in 1..n : ByteAt(a, i) # ByteAt(b, i)}
    IN  IF diff = {} THEN 0 ELSE ByteAt(a, Smallest(diff)) - ByteAt(b, Smallest(diff))

Verdict(b) == IF b THEN "keep" ELSE "drop"
Opposite(v) == CASE v = "keep" -> "drop" [] v = "drop" -> "keep" [] OTHER -> v

(* vec0_get_metadata_text_long_value, and the length test its callers make. *)
HasLongText(s, r, n) == r \in DOMAIN s.text /\ Len(s.text[r]) = n

(* vec0_metadata_filter_text for one slot: by its view when that decides the
   question, else by the full text. "error" fails the query. *)
TextEqual(s, view, r, target) ==
    LET n == view.n
        samePrefix == StrNCmp(view.data, target, AtMost(n, ViewLength)) = 0
    IN  CASE n # Len(target) \/ ~samePrefix -> "drop"
          [] n = Len(target) /\ samePrefix /\ n <= ViewLength -> "keep"
          [] OTHER -> IF HasLongText(s, r, n)
                      THEN Verdict(StrNCmp(s.text[r], target, n) = 0) ELSE "error"

TextRange(s, view, r, op, target) ==
    LET n == view.n
        cmp == StrNCmp(view.data, target, AtMost(AtMost(n, ViewLength), Len(target)))
    IN  IF n < ViewLength
        THEN Verdict(Holds(op, IF cmp = 0 THEN n - Len(target) ELSE cmp))
        ELSE IF HasLongText(s, r, n)
             THEN Verdict(Holds(op, StrNCmp(s.text[r], target, n))) ELSE "error"

TextIn(s, view, r, targets) ==
    LET verdicts == {TextEqual(s, view, r, x) : x \in targets}
    IN  IF "error" \in verdicts THEN "error" ELSE Verdict("keep" \in verdicts)

TextFilter(s, view, r, c) ==
    CASE c.isIn -> TextIn(s, view, r, c.value)
      [] ~c.isIn /\ c.op = "EQ" -> TextEqual(s, view, r, c.value)
      [] ~c.isIn /\ c.op = "NE" -> Opposite(TextEqual(s, view, r, c.value))
      [] OTHER -> TextRange(s, view, r, c.op, c.value)

(* Mutant: "!=" taken for "=". *)
BooleanFilterEqual(bit, c) == Verdict(IF c.value # 0 THEN bit # 0 ELSE bit = 0)

BooleanFilter(bit, c) ==
    Verdict(IF (c.value # 0 /\ c.op = "EQ") \/ (c.value = 0 /\ c.op = "NE")
            THEN bit # 0 ELSE bit = 0)

IntegerFilter(n, c) == Verdict(IF c.isIn THEN n \in c.value ELSE Holds(c.op, n - c.value))

(* vec0_set_metadata_filter_bitmap: a verdict for every slot of the chunk, the
   invalid ones included. *)
MetadataVerdict(s, t, chunk, o, c) ==
    CASE t.meta = "text" -> TextFilter(s, s.meta[chunk][o], s.chunks[chunk].rowids[o], c)
      [] t.meta = "boolean" -> BooleanFilter(s.meta[chunk][o], c)
      [] t.meta = "integer" -> IntegerFilter(s.meta[chunk][o], c)

------------------------------------------------------------------------------
(* min_idx: the k smallest, repeatedly; of equal ones the last slot first. *)
MinIdx(distances, candidates, k) ==
    FirstN(Ranked(candidates, LAMBDA a, b :
               \/ distances[a] < distances[b]
               \/ distances[a] = distances[b] /\ a > b), k)

(* merge_sorted_lists: the first k of two sorted lists, a before b on a tie. *)
MergeSortedLists(a, b, k) ==
    LET Take(m, i) ==
            CASE m.a = <<>> /\ m.b = <<>> -> m
              [] m.a # <<>> /\ (m.b = <<>> \/ m.a[1].distance <= m.b[1].distance) ->
                   [m EXCEPT !.a = Tail(@), !.out = Append(@, m.a[1])]
              [] OTHER -> [m EXCEPT !.b = Tail(@), !.out = Append(@, m.b[1])]
    IN  FoldLeft(Take, [a |-> a, b |-> b, out |-> <<>>], [i \in 1..k |-> i]).out

(* What vec0Filter_knn makes of its argv. *)
Chosen(cs, args, S) == {cs[args[i]] : i \in {j \in 1..Len(args) : args[j] \in S}}

(* vec0_chunks_iter: the chunks whose partition satisfies every constraint on
   it (none does when the partition is NULL), in chunk order. *)
ChunksIter(s, partition) ==
    InOrder({c \in DOMAIN s.chunks :
                \A p \in partition : s.chunks[c].part # None
                                        /\ Holds(p.op, s.chunks[c].part - p.value)})

(* The rowid IN (...) array: for a text key, the rowids of the listed ids. *)
RowidsIn(s, t, lists) ==
    UNION {{RowidFromId(s, t, id) : id \in c.value} : c \in lists}

(* The candidates of a chunk: valid, listed, and kept by every filter. *)
ChunkCandidates(s, t, chunk, rowidIn, listed, metadata) ==
    {o \in s.chunks[chunk].validity :
        /\ rowidIn # {} => s.chunks[chunk].rowids[o] \in listed
        /\ \A c \in metadata : MetadataVerdict(s, t, chunk, o, c) = "keep"}

MetadataError(s, t, chunks, metadata) ==
    \E i \in 1..Len(chunks), o \in Offsets(t), c \in metadata :
        MetadataVerdict(s, t, chunks[i], o, c) = "error"

(* The distance constraints, applied to the slots that are still in. *)
WithinDistance(far, d) == \A c \in far : Holds(c.op, d - c.value)

(* The scan both indexes share: the best of every chunk merged into the best
   so far. dist[chunk][slot] is the distance of a slot. *)
ScanChunks(s, t, chunks, rowidIn, metadata, far, k, dist) ==
    LET listed == RowidsIn(s, t, rowidIn)
        Step(best, chunk) ==
            LET near == {o \in ChunkCandidates(s, t, chunk, rowidIn, listed, metadata) :
                            WithinDistance(far, dist[chunk][o])}
                Found(order) == [i \in 1..Len(order) |->
                                    [rowid |-> s.chunks[chunk].rowids[order[i]],
                                     distance |-> dist[chunk][order[i]]]]
            IN  MergeSortedLists(best, Found(MinIdx(dist[chunk], near, AtMost(k, t.chunkSize))), k)
    IN  FoldLeft(Step, <<>>, chunks)

(* vec0Filter_knn_chunks_iter *)
FlatKnn(s, t, chunks, rowidIn, metadata, far, query, k) ==
    [ok |-> ~MetadataError(s, t, chunks, metadata), ended |-> TRUE,
     rows |-> ScanChunks(s, t, chunks, rowidIn, metadata, far, k,
                         [c \in DOMAIN s.chunks |->
                             [o \in Offsets(t) |-> Distance(s.vectors[c][o], query)]])]

(* rescore_knn: oversampled candidates by quantized distance, then the k best
   of them by the full vectors. Only partitions and rowids filter. *)
Oversampled(t, k) ==
    AtMost(k * (IF t.oversampleSearch > 0 THEN t.oversampleSearch ELSE t.oversample), MaxK)
SelectionSort(found) ==
    FoldLeft(LAMBDA s, i :
                 Swapped(s, i, CHOOSE j \in i..Len(s) :
                                   /\ \A n \in i..Len(s) : s[j].distance <= s[n].distance
                                   /\ \A n \in i..(j - 1) : s[j].distance < s[n].distance),
             found, [i \in 1..Len(found) |-> i])
Rescored(s, coarse, query, k) ==
    LET exact == [i \in 1..Len(coarse) |->
                     [coarse[i] EXCEPT !.distance = Distance(s.full[coarse[i].rowid], query)]]
    IN  [ok |-> \A i \in 1..Len(coarse) : coarse[i].rowid \in DOMAIN s.full, ended |-> TRUE,
         rows |-> FirstN(SelectionSort(exact), k)]
RescoreKnn(s, t, chunks, rowidIn, query, k) ==
    Rescored(s, ScanChunks(s, t, chunks, rowidIn, {}, {}, Oversampled(t, k),
                           [c \in DOMAIN s.chunks |->
                               [o \in Offsets(t) |->
                                   Distance(s.coarse[c][o], RescoreQuantize(query))]]),
             query, k)

(* The filters a rescore column is not given: metadata and distances. *)
ScanKnn(s, t, cs, args, chunks, rowidIn, query, k) ==
    IF t.index = "rescore" THEN RescoreKnn(s, t, chunks, rowidIn, query, k)
    ELSE FlatKnn(s, t, chunks, rowidIn, Chosen(cs, args, MetadataTerms(cs)),
                 Chosen(cs, args, DistanceTerms(cs)), query, k)

(* A size set for searching alone goes before the common one. *)
SearchBeam(t) == IF t.queryListSize > 0 THEN t.queryListSize ELSE t.searchListSize

(* vec0Filter_knn: DiskANN is dispatched first. A text id that is not in the
   table makes the whole "id IN (...)" query empty: the lookup's SQLITE_EMPTY
   is left in a shadowed rc. *)
FilterKnn(s, t, cs, args) ==
    LET query == cs[args[1]].value
        k == cs[args[2]].value
        rowidIn == Chosen(cs, args, RowidInTerms(cs))
        chunks == ChunksIter(s, Chosen(cs, args, PartitionTerms(cs)))
        unknown == t.pk = "text" /\ \E c \in rowidIn : \E id \in c.value : ~HasId(s, t, id)
        nothing == [ok |-> TRUE, ended |-> TRUE, rows |-> <<>>]
    IN  CASE t.index = "diskann" -> Knn(s.graph, query, k, SearchBeam(t))
          [] t.index # "diskann" /\ (k < 0 \/ k > MaxK) -> [nothing EXCEPT !.ok = FALSE]
          [] t.index # "diskann" /\ k \in 0..MaxK /\ (k = 0 \/ unknown) -> nothing
          [] OTHER -> ScanKnn(s, t, cs, args, chunks, rowidIn, query, k)

(* vec0Filter_point: at most one row, by its key. A flat table answers "no such
   row" with an empty result, the other two with an error. *)
FilterPoint(s, t, id) ==
    LET r == RowidFromId(s, t, id)
        there == CASE t.index = "diskann" -> r \in DOMAIN s.graph.vectors
                   [] t.index = "rescore" -> r \in DOMAIN s.full
                   [] t.index = "flat" -> r \in DOMAIN s.rowids
        empty == t.pk = "text" /\ ~HasId(s, t, id)
    IN  [ok |-> empty \/ t.index = "flat" \/ there, ended |-> TRUE,
         rows |-> IF ~empty /\ there THEN <<[rowid |-> r]>> ELSE <<>>]

(* vec0Filter_fullscan *)
FilterFullscan(s) ==
    LET scan == FullScan(s)
    IN  [ok |-> TRUE, ended |-> TRUE, rows |-> [i \in 1..Len(scan) |-> [rowid |-> scan[i]]]]

(* vec0Filter, then vec0Next until vec0Eof. *)
Filter(s, t, cs, plan) ==
    CASE plan.plan = "knn" -> FilterKnn(s, t, cs, plan.args)
      [] plan.plan = "point" -> FilterPoint(s, t, cs[plan.args[1]].value)
      [] plan.plan = "fullscan" -> FilterFullscan(s)

(* The id and distance columns of a KNN answer (vec0Column_knn). *)
WithIds(s, t, answer) ==
    [i \in 1..Len(answer) |->
        [id |-> IdOfRowid(s, t, answer[i].rowid), distance |-> answer[i].distance]]
==============================================================================
