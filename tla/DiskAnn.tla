------------------------------- MODULE DiskAnn -------------------------------
(***************************************************************************)
(* The DiskANN index of one vector column (sqlite-vec-diskann.c), as       *)
(* operators on an index record:                                           *)
(*   medoid   the entry point kept in the _info table, None when empty     *)
(*   vectors  rowid -> full-precision vector          (_vectorsNN)         *)
(*   nodes    rowid -> its neighbour slots            (_diskann_nodesNN)   *)
(*   buffer   rowid -> vector not yet in the graph    (_diskann_bufferNN)  *)
(*   slots    the column's n_neighbors: slots of a node                    *)
(* A slot is None (validity bit 0) or a neighbour's rowid with the         *)
(* quantized vector that was packed beside it when the slot was written.   *)
(* A vector is a number and its distance the L1 metric; the quantizer is   *)
(* the binary one. An operator that can fail returns a record with "ok":   *)
(* the caller turns a failure into a failed (rolled back) statement.       *)
(***************************************************************************)
EXTENDS Integers, Sequences, FiniteSets, SequencesExt

CONSTANTS
    None,             \* SQL NULL, and an empty neighbour slot
    AlphaNum,         \* alpha = AlphaNum / AlphaDen
    AlphaDen,
    MaxSearchSteps    \* bound on the iterations of the search loop

ASSUME NoneAssumption == None \notin Int
ASSUME StepsAssumption == MaxSearchSteps \in Nat

(* Replace or add one row of a table keyed by rowid; remove one row. *)
Put(f, k, v) == [x \in DOMAIN f \cup {k} |-> IF x = k THEN v ELSE f[x]]
Without(f, k) == [x \in DOMAIN f \ {k} |-> f[x]]

(* S in the order of a total order on it (SetToSortSeq, by its definition,
   enumerates the functions from positions to S). *)
Ranked(S, Before(_, _)) ==
    [i \in 1..Cardinality(S) |->
        CHOOSE x \in S : Cardinality({y \in S : Before(y, x)}) = i - 1]

(* What a sequence holds at the positions S, in order. *)
At(seq, S) == LET at == Ranked(S, <) IN [i \in 1..Cardinality(S) |-> seq[at[i]]]

Distance(a, b) == IF a > b THEN a - b ELSE b - a

(* diskann_quantize_vector, binary: one bit per component, set when > 0. *)
Quantize(v) == IF v > 0 THEN 1 ELSE 0
(* The Hamming distance of two packed vectors. *)
QuantizedDistance(p, q) == Distance(p, q)

EmptyIndex(slots) ==
    [medoid |-> None, vectors |-> <<>>, nodes |-> <<>>, buffer |-> <<>>, slots |-> slots]
EmptyNode(g) == [i \in 1..g.slots |-> None]

Slot(id, v) == [id |-> id, q |-> Quantize(v)]
Neighbours(node) == {node[i].id : i \in {j \in 1..Len(node) : node[j] # None}}
FirstFree(node) == CHOOSE i \in 1..Len(node) :
                       node[i] = None /\ \A j \in 1..(i - 1) : node[j] # None

(* Reads and writes of the shadow tables. *)
HasNode(g, rowid) == rowid \in DOMAIN g.nodes
HasVector(g, rowid) == rowid \in DOMAIN g.vectors
IsBuffered(g, rowid) == rowid \in DOMAIN g.buffer
BufferCount(g) == Cardinality(DOMAIN g.buffer)
NodeWrite(g, rowid, node) == [g EXCEPT !.nodes = Put(@, rowid, node)]
WithNodes(g, nodes) == [g EXCEPT !.nodes = nodes]
VectorWrite(g, rowid, v) == [g EXCEPT !.vectors = Put(@, rowid, v)]
BufferWrite(g, rowid, v) == [g EXCEPT !.buffer = Put(@, rowid, v)]
MedoidSet(g, rowid) == [g EXCEPT !.medoid = rowid]
NodeDelete(g, rowid) == [g EXCEPT !.nodes = Without(@, rowid)]
VectorDelete(g, rowid) == [g EXCEPT !.vectors = Without(@, rowid)]
BufferDelete(g, rowid) == [g EXCEPT !.buffer = Without(@, rowid)]

------------------------------------------------------------------------------
(* Mutant: a candidate that is listed again starts anew. *)
CandidateInsertForgets(list, capacity, rowid, d) ==
    LET kept == SelectSeq(list, LAMBDA c : c.rowid # rowid)
        before == {j \in 1..Len(kept) : kept[j].distance < d}
        fresh == [rowid |-> rowid, distance |-> d, visited |-> FALSE, confirmed |-> FALSE]
        wide == InsertAt(kept, Cardinality(before) + 1, fresh)
    IN  SubSeq(wide, 1, IF Len(wide) < capacity THEN Len(wide) ELSE capacity)

(* The candidate list of the beam search: sorted by distance, one entry per
   rowid, at most "capacity" entries. A rowid that is already listed keeps the
   smaller of its two distances; a new one goes before its equals. *)
CandidateInsert(list, capacity, rowid, d) ==
    LET known == {i \in 1..Len(list) : list[i].rowid = rowid}
        fresh == [rowid |-> rowid, distance |-> d,
                  visited |-> FALSE, confirmed |-> FALSE]
    IN  IF known # {} THEN
            LET i == CHOOSE j \in known : TRUE
                moved == [list[i] EXCEPT !.distance = d]
                before == {j \in 1..(i - 1) : list[j].distance <= d}
            IN  IF d >= list[i].distance THEN list
                ELSE InsertAt(RemoveAt(list, i), Cardinality(before) + 1, moved)
        ELSE LET full == Len(list) >= capacity
                 kept == IF full THEN Front(list) ELSE list
                 before == {j \in 1..Len(kept) : kept[j].distance < d}
             IN  IF full /\ d >= Last(list).distance THEN list
                 ELSE InsertAt(kept, Cardinality(before) + 1, fresh)

NextUnvisited(list) ==
    LET open == {i \in 1..Len(list) : ~list[i].visited}
    IN  IF open = {} THEN 0 ELSE CHOOSE i \in open : \A j \in open : i <= j

Confirm(list, rowid) ==
    [i \in 1..Len(list) |->
        IF list[i].rowid = rowid THEN [list[i] EXCEPT !.confirmed = TRUE] ELSE list[i]]

(* The hash set of visited rowids, in which 0 marks an empty place. *)
VisitedInsert(visited, rowid) == visited \cup ({rowid} \ {0})

(* List every neighbour of a visited node with its quantized distance. *)
ListNeighbours(list, capacity, query, edges) ==
    FoldLeft(LAMBDA l, n : CandidateInsert(l, capacity, n.id,
                                           QuantizedDistance(Quantize(query), n.q)),
             list, edges)

(* One turn of the search loop: visit the closest unvisited candidate, list
   its neighbours with quantized distances, then list it again with its exact
   distance and confirm it. A candidate without a node is only marked visited. *)
SearchTurn(g, query, capacity, s) ==
    LET i == NextUnvisited(s.list)
        current == s.list[i].rowid
        marked == [s.list EXCEPT ![i].visited = TRUE]
        node == g.nodes[current]
        edges == At(node, {j \in 1..g.slots : node[j] # None /\ node[j].id \notin s.visited})
        widened == ListNeighbours(marked, capacity, query, edges)
        exact == CandidateInsert(widened, capacity, current,
                                 Distance(query, g.vectors[current]))
    IN  CASE i = 0 -> s
          [] i # 0 /\ ~HasNode(g, current) -> [s EXCEPT !.list = marked]
          [] OTHER ->
               [list |-> IF HasVector(g, current) THEN Confirm(exact, current) ELSE widened,
                visited |-> VisitedInsert(s.visited, current)]

(* diskann_search: up to k confirmed candidates, found from the medoid with a
   beam of searchListSize (at least k). No medoid: no answer. A medoid whose
   vector is gone: an error. "ended": the loop ran out of unvisited candidates. *)
Seed(g, query) ==
    [rowid |-> g.medoid, distance |-> Distance(query, g.vectors[g.medoid]),
     visited |-> FALSE, confirmed |-> TRUE]
FirstConfirmed(list, k) ==
    LET found(i) == {j \in 1..i : list[j].confirmed}
    IN  At(list, {i \in found(Len(list)) : Cardinality(found(i)) <= k})
SearchResult(list, k) ==
    [ok |-> TRUE, ended |-> NextUnvisited(list) = 0, found |-> FirstConfirmed(list, k)]
SearchLoop(g, query, capacity) ==
    FoldLeft(LAMBDA s, i : SearchTurn(g, query, capacity, s),
             [list |-> <<Seed(g, query)>>, visited |-> {}], [i \in 1..MaxSearchSteps |-> i])
Search(g, query, k, searchListSize) ==
    LET capacity == IF searchListSize < k THEN k ELSE searchListSize
    IN  CASE g.medoid = None -> [ok |-> TRUE, ended |-> TRUE, found |-> <<>>]
          [] g.medoid # None /\ ~HasVector(g, g.medoid) ->
               [ok |-> FALSE, ended |-> TRUE, found |-> <<>>]
          [] OTHER ->
               SearchResult(SearchLoop(g, query, capacity).list, k)

------------------------------------------------------------------------------
(* Insertion sort by distance, equals kept in order. *)
SortByDistance(cands) ==
    FoldLeft(LAMBDA sorted, c :
                 InsertAt(sorted,
                          Cardinality({i \in 1..Len(sorted) :
                                           sorted[i].distance <= c.distance}) + 1, c),
             <<>>, cands)

(* One round of pruning takes the closest candidate still active, and it
   deactivates those it covers: alpha * d(taken, c) <= d(p, c). *)
Covers(g, a, c) ==
    /\ {a.rowid, c.rowid} \subseteq DOMAIN g.vectors
    /\ AlphaNum * Distance(g.vectors[a.rowid], g.vectors[c.rowid]) <= AlphaDen * c.distance
PruneRound(g, s) ==
    LET uncovered == {i \in 2..Len(s.active) : ~Covers(g, s.active[1], s.active[i])}
    IN  IF s.active = <<>> THEN s
        ELSE [active |-> At(s.active, uncovered), taken |-> Append(s.taken, s.active[1].rowid)]

PruneRounds(g, sorted) ==
    FoldLeft(LAMBDA s, i : PruneRound(g, s), [active |-> sorted, taken |-> <<>>],
             [i \in 1..g.slots |-> i])

(* robust_prune: drop p itself (the last candidate takes its place), sort, and
   take as many as a node has slots. *)
RobustPrune(g, p, cands) ==
    LET self == {i \in 1..Len(cands) : cands[i].rowid = p}
        others == IF self = {} THEN cands
                  ELSE LET i == CHOOSE j \in self : TRUE
                       IN  Front([cands EXCEPT ![i] = Last(cands)])
    IN  PruneRounds(g, SortByDistance(others)).taken

(* write_pruned_neighbors: the node's slots, in the order of selection. *)
WritePrunedNeighbors(g, rowid, taken) ==
    NodeWrite(g, rowid, [i \in 1..g.slots |->
        IF i <= Len(taken) /\ HasVector(g, taken[i])
        THEN Slot(taken[i], g.vectors[taken[i]]) ELSE None])

(* add_reverse_edge: the slots of node once target is its neighbour. A full node
   gives up its worst neighbour (by quantized distance) if target is strictly
   closer. *)
AddReverseEdge(g, node, target) ==
    LET slots == g.nodes[node]
        nodeQ == Quantize(g.vectors[node])
        edge == Slot(target, g.vectors[target])
        D(i) == QuantizedDistance(nodeQ, slots[i].q)
        worst == CHOOSE i \in 1..g.slots :
                     /\ \A j \in 1..g.slots : D(j) <= D(i)
                     /\ \A j \in 1..(i - 1) : D(j) < D(i)
        full == \A i \in 1..g.slots : slots[i] # None
    IN  CASE target \in Neighbours(slots) -> slots
          [] target \notin Neighbours(slots) /\ ~full ->
               [slots EXCEPT ![FirstFree(slots)] = edge]
          [] OTHER ->
               IF HasVector(g, node) /\ QuantizedDistance(nodeQ, edge.q) < D(worst)
               THEN [slots EXCEPT ![worst] = edge] ELSE slots

(* insert_graph: the first row becomes an isolated medoid; any other is linked,
   both ways, to what a search for its own vector finds. The reverse edges are
   added node by node, each from its own slots; that a node is missing is an
   error the loop ignores. *)
LinkTo(g, rowid, taken) ==
    LET pruned == WritePrunedNeighbors(g, rowid, taken)
    IN  WithNodes(pruned, [n \in DOMAIN pruned.nodes |->
            IF n \in Range(taken) THEN AddReverseEdge(pruned, n, rowid) ELSE pruned.nodes[n]])
LinkToFound(g, rowid, hit) ==
    [ok |-> hit.ok,
     index |-> IF hit.ok THEN LinkTo(g, rowid, RobustPrune(g, rowid, hit.found)) ELSE g]
InsertGraph(g, rowid, L) ==
    IF g.medoid = None
    THEN [ok |-> TRUE, index |-> MedoidSet(NodeWrite(g, rowid, EmptyNode(g)), rowid)]
    ELSE LinkToFound(g, rowid, Search(g, g.vectors[rowid], L, L))

(* flush_buffer: graph-insert every buffered row in rowid order, then empty it. *)
FlushBuffer(g, L) ==
    LET rows == Ranked(DOMAIN g.buffer, <)
        done == FoldLeft(LAMBDA r, id : IF r.ok THEN InsertGraph(r.index, id, L) ELSE r,
                         [ok |-> TRUE, index |-> g], rows)
    IN  [ok |-> done.ok,
         index |-> [g EXCEPT !.nodes = done.index.nodes, !.medoid = done.index.medoid,
                             !.buffer = <<>>]]

(* diskann_insert: write the vector, then buffer the row (flushing a buffer
   that has reached the threshold) or put it straight into the graph. *)
Insert(g, rowid, v, threshold, L) ==
    LET stored == VectorWrite(g, rowid, v)
        buffered == BufferWrite(stored, rowid, v)
    IN  IF threshold = 0 THEN InsertGraph(stored, rowid, L)
        ELSE IF BufferCount(buffered) >= threshold THEN FlushBuffer(buffered, L)
        ELSE [ok |-> TRUE, index |-> buffered]

------------------------------------------------------------------------------
(* repair_reverse_edges: each neighbour of the deleted row frees the slot that
   points at it and fills it with the first of the deleted row's other
   neighbours that it does not already have. A neighbour is repaired from its
   own slots alone; one that has no node is passed over. *)
Repaired(g, deleted, r) ==
    LET left == g.nodes[deleted]
        slots == g.nodes[r]
        hit == {i \in 1..g.slots : slots[i] # None /\ slots[i].id = deleted}
        spare == {i \in 1..g.slots : /\ left[i] # None
                                     /\ left[i].id \notin {r, deleted} \cup Neighbours(slots)
                                     /\ HasVector(g, left[i].id)}
        First(S) == CHOOSE i \in S : \A j \in S : i <= j
        id == left[First(spare)].id
    IN  IF hit = {} THEN slots
        ELSE [slots EXCEPT ![First(hit)] = IF spare = {} THEN None ELSE Slot(id, g.vectors[id])]
RepairReverseEdges(g, deleted) ==
    WithNodes(g, [r \in DOMAIN g.nodes |->
        IF r \in Neighbours(g.nodes[deleted]) THEN Repaired(g, deleted, r) ELSE g.nodes[r]])

(* medoid_handle_delete: the smallest rowid left in _vectors takes over. *)
MedoidHandleDelete(g, deleted) ==
    LET left == DOMAIN g.vectors \ {deleted}
    IN  IF g.medoid # deleted THEN g
        ELSE MedoidSet(g, IF left = {} THEN None
                          ELSE CHOOSE r \in left : \A o \in left : r <= o)

(* Mutant: only the neighbours the row itself pointed at are cleared. *)
ScrubDeletedRowidOutgoing(g, deleted) == g

(* scrub_deleted_rowid: clear every slot that still names the deleted row. *)
ScrubDeletedRowid(g, deleted) ==
    [g EXCEPT !.nodes = [r \in DOMAIN @ |-> [i \in 1..g.slots |->
        IF @[r][i] # None /\ @[r][i].id = deleted THEN None ELSE @[r][i]]]]

(* diskann_delete: a buffered row only leaves the buffer and _vectors. *)
Delete(g, rowid, threshold) ==
    LET unlinked == VectorDelete(NodeDelete(RepairReverseEdges(g, rowid), rowid), rowid)
        unflushed == threshold > 0 /\ IsBuffered(g, rowid)
    IN  CASE unflushed -> VectorDelete(BufferDelete(g, rowid), rowid)
          [] ~unflushed /\ ~HasNode(g, rowid) -> g
          [] OTHER -> ScrubDeletedRowid(MedoidHandleDelete(unlinked, rowid), rowid)

------------------------------------------------------------------------------
(* vec0Filter_knn_diskann: the graph's answer, into which every buffered row
   is merged (appended while there is room, else in place of a worse answer),
   sorted by distance. *)
MergeBuffered(found, row, d, k) ==
    LET worst == CHOOSE i \in 1..Len(found) :
                     /\ \A j \in 1..Len(found) : found[j].distance <= found[i].distance
                     /\ \A j \in 1..(i - 1) : found[j].distance < found[i].distance
        answer == [rowid |-> row, distance |-> d]
    IN  IF Len(found) < k THEN Append(found, answer)
        ELSE IF d < found[worst].distance THEN [found EXCEPT ![worst] = answer]
        ELSE found

Swapped(seq, i, j) ==
    [n \in 1..Len(seq) |-> IF n = i THEN seq[j] ELSE IF n = j THEN seq[i] ELSE seq[n]]
(* Each position in turn gives way to every later answer that is nearer. *)
SwapLater(found, i) ==
    FoldLeft(LAMBDA s, j : IF s[j].distance < s[i].distance THEN Swapped(s, i, j) ELSE s,
             found, [n \in 1..(Len(found) - i) |-> i + n])
ExchangeSort(found) == FoldLeft(SwapLater, found, [i \in 1..Len(found) |-> i])

Knn(g, query, k, L) ==
    LET hit == Search(g, query, k, L)
        graph == [i \in 1..Len(hit.found) |->
                     [rowid |-> hit.found[i].rowid, distance |-> hit.found[i].distance]]
        merged == FoldLeft(LAMBDA f, r : MergeBuffered(f, r, Distance(query, g.buffer[r]), k),
                           graph, Ranked(DOMAIN g.buffer, <))
    IN  IF k <= 0 THEN [ok |-> TRUE, ended |-> TRUE, rows |-> <<>>]
        ELSE [ok |-> hit.ok, ended |-> hit.ended, rows |-> ExchangeSort(merged)]
==============================================================================
