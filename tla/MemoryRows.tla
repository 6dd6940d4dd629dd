----------------------------- MODULE MemoryRows -----------------------------
(***************************************************************************)
(* The write path of a memory: remember and its dedup                      *)
(* (src/memory/persist.rs), edits, rollback and pins                       *)
(* (src/storage/store.rs), summaries (src/memory/summarize.rs) and the     *)
(* consolidation job (src/memory/consolidate.rs).                          *)
(*                                                                         *)
(* One row is spread over four tables: memories, memory_versions, its      *)
(* vector with metadata in vec_memories, and pins.  Every closure runs     *)
(* alone on the writer thread, but its statements commit one by one, and   *)
(* an operation with a model call in the middle reads in one step and      *)
(* writes in another.  A text stands for itself and its embedding; texts   *)
(* of the same topic are closer than dedup_threshold.  Removal is          *)
(* abstracted to its effect on these tables; module Forgetting has the     *)
(* rest.                                                                   *)
(***************************************************************************)
EXTENDS Naturals, Sequences, FiniteSets

CONSTANTS Texts,
          Topic,      \* Texts -> topic
          Outages,    \* may the embedding provider be down?
          MaxRows,    \* bound: memories ever inserted
          MaxOps,     \* bound: client calls
          MaxRuns,    \* bound: consolidation runs
          Faults,     \* what may fail, of Failures
          MaxFaults,  \* bound: failures
          NoText

ASSUME RowsAssumption ==
    /\ DOMAIN Topic = Texts
    /\ NoText \notin Texts
    /\ Outages \in BOOLEAN
    /\ {MaxRows, MaxOps, MaxRuns, MaxFaults} \subseteq Nat
    /\ Faults \subseteq {"statement", "lookup"}

VARIABLES mem,     \* table memories: id -> row
          vers,    \* table memory_versions: id -> its texts, oldest first
          vec,     \* table vec_memories: id -> vector and metadata
          pins,    \* table pins: set of ids
          lastId,  \* sqlite_sequence
          summ,    \* a summarize call waiting for the model: what it read
          cons,    \* the consolidation job
          asked,   \* history: what the last step was asked to remember
          tainted, \* history: <<id, way>>, an untrusted source has contributed to
                   \* the memory: with its vector at hand, by the text alone, or
                   \* only a version, its edit having failed after it
          hurt,    \* history: <<id, failure>>, what has failed on the memory
          ops, runs

vars == <<mem, vers, vec, pins, lastId, summ, cons, asked, tainted, hurt, ops, runs>>
tables == <<mem, vers, vec, pins, lastId>>

Ids == 1..MaxRows
Sources == {"user", "web"}   \* a trusted and an untrusted source_kind
Live == {"active", "pending"}
Ways == {"vector", "text", "version"}
Failures == {"statement", "lookup"}
NoCluster == <<"none", 0>>
NoAsk == [text |-> NoText, embedded |-> FALSE]
NoSumm == [id |-> 0, text |-> NoText]
IdleCons == [todo |-> <<>>, owners |-> <<>>, bumped |-> FALSE]

Rows == [text : Texts, status : Live \cup {"deprecated"}, trust : {"trusted", "untrusted"},
         source : Sources, pinned : BOOLEAN, ref : Nat, summary : Texts \cup {NoText},
         cluster : {"none", "id", "dedup"} \X (Ids \cup {0})]
Vectors == [text : Texts, status : Live, trust : {"trusted", "untrusted"}, pinned : BOOLEAN]
Entries == [id : Ids, text : Texts, proxy : BOOLEAN]

TypeOK ==
    /\ DOMAIN mem \subseteq Ids /\ lastId \in 0..MaxRows
    /\ \A i \in DOMAIN mem : mem[i] \in Rows
    /\ DOMAIN vers = DOMAIN mem /\ \A i \in DOMAIN vers : vers[i] \in Seq(Texts)
    /\ DOMAIN vec \subseteq DOMAIN mem /\ \A i \in DOMAIN vec : vec[i] \in Vectors
    /\ pins \subseteq DOMAIN mem
    /\ summ \in [id : Ids \cup {0}, text : Texts \cup {NoText}]
    /\ cons \in [todo : Seq(Entries), owners : Seq(Entries), bumped : BOOLEAN]
    /\ asked \in [text : Texts \cup {NoText}, embedded : BOOLEAN]
    /\ tainted \subseteq Ids \X Ways /\ hurt \subseteq Ids \X Failures
    /\ ops \in 0..MaxOps /\ runs \in 0..MaxRuns

Init ==
    /\ mem = <<>> /\ vers = <<>> /\ vec = <<>> /\ pins = {} /\ lastId = 0
    /\ summ = NoSumm /\ cons = IdleCons
    /\ asked = NoAsk /\ tainted = {} /\ hurt = {}
    /\ ops = 0 /\ runs = 0

Fails(i, failure) ==
    /\ failure \in Faults
    /\ Cardinality(hurt) < MaxFaults
    /\ hurt' = hurt \cup {<<i, failure>>}

\* n of the k statements of a closure on memory i run: all of them, or a prefix
\* when one fails or the process dies.
Statements(n, k, i) ==
    \/ n = k /\ UNCHANGED hurt
    \/ n \in 1..(k - 1) /\ Fails(i, "statement")

Call == ops < MaxOps /\ ops' = ops + 1

With(f, i, v) == [j \in DOMAIN f \cup {i} |-> IF j = i THEN v ELSE f[j]]
Without(f, i) == [j \in DOMAIN f \ {i} |-> f[j]]
Similar(x, y) == Topic[x] = Topic[y]
-----------------------------------------------------------------------------
TrustOf(src) == IF src = "user" THEN "trusted" ELSE "untrusted"

TrustAfterNewest(trust, src) == TrustOf(src)
TrustAfter(trust, src) ==
    IF trust = "untrusted" \/ TrustOf(src) = "untrusted" THEN "untrusted" ELSE "trusted"

\* An untrusted row keeps the source that made it so.
SourceAfter(row, src) == IF row.trust = "untrusted" THEN row.source ELSE src

Tainted(i, src, way) == IF TrustOf(src) = "untrusted" THEN tainted \cup {<<i, way>>} ELSE tainted

NextIdReused == CHOOSE i \in Ids \cup {MaxRows + 1} :
                    i \notin DOMAIN mem /\ \A j \in 1..(i - 1) : j \in DOMAIN mem
NextId == lastId + 1

NewRow(x, src, status) ==
    [text |-> x, status |-> status, trust |-> TrustOf(src), source |-> src,
     pinned |-> FALSE, ref |-> 0, summary |-> NoText, cluster |-> NoCluster]

\* The first n of INSERT memories, INSERT memory_versions and, with an
\* embedding, INSERT vec_memories.
Inserted(x, src, status, n) ==
    /\ NextId \in Ids
    /\ lastId' = NextId
    /\ mem' = With(mem, NextId, NewRow(x, src, status))
    /\ tainted' = Tainted(NextId, src, "vector")
    /\ vers' = With(vers, NextId, IF n >= 2 THEN <<x>> ELSE <<>>)
    /\ vec' = IF n = 3
                THEN With(vec, NextId, [text |-> x, status |-> status,
                                        trust |-> TrustOf(src), pinned |-> FALSE])
                ELSE vec
    /\ UNCHANGED pins

InsertRow(x, src, status, embedded) ==
    \E n \in 1..3 : /\ Statements(n, IF embedded THEN 3 ELSE 2, NextId)
                    /\ Inserted(x, src, status, n)

Merged(i, src, cluster) ==
    [mem EXCEPT ![i].ref = @ + 1,
                ![i].trust = TrustAfter(@, src),
                ![i].source = SourceAfter(mem[i], src),
                ![i].cluster = IF @ = NoCluster THEN cluster ELSE @]

VecTrustStale(i, trust) == vec
VecTrust(i, trust) == IF i \in DOMAIN vec THEN [vec EXCEPT ![i].trust = trust] ELSE vec

\* persist_candidate_full: the nearest vector of the tier, whatever the state of
\* its row.  A lookup that fails while stepping is a lookup that found nothing
\* (`filter_map(|r| r.ok())`).  The third statement is the self-link `refines`.
NearestActive(x) ==
    {i \in DOMAIN vec : Similar(vec[i].text, x) /\ vec[i].status = "active"}
Nearest(x) ==
    IF \E i \in DOMAIN vec : vec[i].text = x
      THEN {i \in DOMAIN vec : vec[i].text = x}
      ELSE {i \in DOMAIN vec : Similar(vec[i].text, x)}

PersistEmbedded(x, src, status) ==
    \/ /\ Nearest(x) = {}
       /\ InsertRow(x, src, status, TRUE)
    \/ /\ Nearest(x) # {}
       /\ Fails(NextId, "lookup")
       /\ Inserted(x, src, status, 3)
    \/ \E i \in Nearest(x) :
          /\ mem' = Merged(i, src, <<"id", i>>)
          /\ tainted' = Tainted(i, src, "vector")
          /\ \E n \in 1..3 :
                /\ Statements(n, 3, i)
                /\ vec' = IF n = 1 THEN vec ELSE VecTrust(i, mem'[i].trust)
          /\ UNCHANGED <<vers, pins, lastId>>

\* persist_candidate_no_vector: an identical text in a live row; the vector's
\* metadata is not touched.
SameText(x) == {i \in DOMAIN mem : mem[i].text = x /\ mem[i].status \in Live}

PersistUnembedded(x, src, status) ==
    \/ /\ SameText(x) = {}
       /\ InsertRow(x, src, status, FALSE)
    \/ \E i \in SameText(x) :
          /\ mem' = Merged(i, src, NoCluster)
          /\ tainted' = Tainted(i, src, "text")
          /\ \E n \in 1..2 : Statements(n, 2, i)
          /\ UNCHANGED <<vers, vec, pins, lastId>>

\* remember, remember_degraded: low confidence makes the row pending.
Remember(x, src, status) ==
    /\ Call
    /\ PersistEmbedded(x, src, status)
    /\ asked' = [text |-> x, embedded |-> TRUE]
    /\ UNCHANGED <<summ, cons, runs>>

RememberUnembedded(x, src, status) ==
    /\ Call /\ Outages
    /\ PersistUnembedded(x, src, status)
    /\ asked' = [text |-> x, embedded |-> FALSE]
    /\ UNCHANGED <<summ, cons, runs>>
-----------------------------------------------------------------------------
\* update_memory_with_provenance: the new version, the row, the vector's trust.
\* The embedding and the summary stay as they are.
ChainOverwritten(i, x) == <<x>>
Chain(i, x) == Append(vers[i], x)
TextAfter(i, x) == x

Rewrite(i, x, trust, source) ==
    /\ \E n \in 1..3 :
          /\ Statements(n, 3, i)
          /\ vers' = [vers EXCEPT ![i] = Chain(i, x)]
          /\ mem' = IF n = 1 THEN mem
                    ELSE [mem EXCEPT ![i].text = TextAfter(i, x), ![i].trust = trust, ![i].source = source]
          /\ vec' = IF n = 3 THEN VecTrust(i, trust) ELSE vec
    /\ asked' = NoAsk
    /\ UNCHANGED <<pins, lastId, summ, cons, runs>>

\* With a source (import conflict, ingest).  An edit that fails after its version
\* was written leaves the text in the chain, and the row as trusted as it was.
Update(i, x, src) ==
    /\ Call
    /\ Rewrite(i, x, TrustAfter(mem[i].trust, src), SourceAfter(mem[i], src))
    /\ tainted' = Tainted(i, src, IF mem' = mem THEN "version" ELSE "vector")

\* Without: rollback_memory to version v, whoever wrote it.
Rollback(i, v) ==
    /\ Call
    /\ v \in DOMAIN vers[i]
    /\ Rewrite(i, vers[i][v], mem[i].trust, mem[i].source)
    /\ UNCHANGED tainted

\* set_memory_pinned: the row, the vector, the pins table.
PinsAfter(i, b) == IF b THEN pins \cup {i} ELSE pins \ {i}

PinRow(i, b) ==
    /\ Call
    /\ mem' = [mem EXCEPT ![i].pinned = b]
    /\ \E n \in 1..3 :
          /\ Statements(n, 3, i)
          /\ vec' = IF n >= 2 /\ i \in DOMAIN vec THEN [vec EXCEPT ![i].pinned = b] ELSE vec
          /\ pins' = IF n = 3 THEN PinsAfter(i, b) ELSE pins
    /\ asked' = NoAsk
    /\ UNCHANGED <<vers, lastId, summ, cons, tainted, runs>>

\* deprecate and restore leave the vector's metadata alone.
SetStatus(i, status) ==
    /\ Call
    /\ mem' = [mem EXCEPT ![i].status = status]
    /\ asked' = NoAsk
    /\ UNCHANGED <<vers, vec, pins, lastId, summ, cons, tainted, hurt, runs>>

\* The delete phase of hard_purge.
VecPurged(i) == Without(vec, i)

Purge(i) ==
    /\ Call
    /\ mem' = Without(mem, i) /\ vers' = Without(vers, i) /\ vec' = VecPurged(i)
    /\ pins' = pins \ {i}
    /\ tainted' = {t \in tainted : t[1] # i}
    /\ asked' = NoAsk
    /\ UNCHANGED <<lastId, summ, cons, hurt, runs>>
-----------------------------------------------------------------------------
\* summarize_by_id and summarize_tier: read the text, ask the model, write the
\* summary to the id.
SummarizeRead(i) ==
    /\ Call
    /\ summ = NoSumm
    /\ summ' = [id |-> i, text |-> mem[i].text]
    /\ asked' = NoAsk
    /\ UNCHANGED <<tables, cons, tainted, hurt, runs>>

SummarizeWrite ==
    /\ summ # NoSumm
    /\ mem' = IF summ.id \in DOMAIN mem THEN [mem EXCEPT ![summ.id].summary = summ.text] ELSE mem
    /\ summ' = NoSumm
    /\ asked' = NoAsk
    /\ UNCHANGED <<vers, vec, pins, lastId, cons, tainted, hurt, ops, runs>>

\* The model call or the write fails: nothing is stored.
SummarizeFails ==
    /\ summ # NoSumm
    /\ summ' = NoSumm
    /\ asked' = NoAsk
    /\ UNCHANGED <<tables, cons, tainted, hurt, ops, runs>>
-----------------------------------------------------------------------------
\* dedup_consolidation: one read of the active rows, then one or two writes for
\* each.  Rows without a vector are compared by a hash of their text.
Entry(i) == IF i \in DOMAIN vec THEN [id |-> i, text |-> vec[i].text, proxy |-> FALSE]
                                ELSE [id |-> i, text |-> mem[i].text, proxy |-> TRUE]
Close(e, o) == e.proxy = o.proxy /\ IF e.proxy THEN e.text = o.text ELSE Similar(e.text, o.text)

ActiveIds == {i \in DOMAIN mem : mem[i].status = "active"}
InOrder(S) == CHOOSE s \in [1..Cardinality(S) -> S] :
                  \A a, b \in DOMAIN s : a < b => s[a] < s[b]

ConsolidateRead ==
    /\ cons.todo = <<>> /\ ActiveIds # {}
    /\ runs < MaxRuns /\ runs' = runs + 1
    /\ cons' = [todo |-> [n \in 1..Cardinality(ActiveIds) |-> Entry(InOrder(ActiveIds)[n])],
                owners |-> <<>>, bumped |-> FALSE]
    /\ asked' = NoAsk
    /\ UNCHANGED <<tables, summ, tainted, hurt, ops>>

Head1 == Head(cons.todo)
Owners == {n \in DOMAIN cons.owners : Close(Head1, cons.owners[n])}
Owner == cons.owners[CHOOSE n \in Owners : \A k \in Owners : n <= k]

\* bump_ref_count on the owner, then set_dedup_cluster on the newcomer.
Bumped(i) == IF i \in DOMAIN mem THEN [mem EXCEPT ![i].ref = @ + 1] ELSE mem
Tagged(i, o) == IF i \in DOMAIN mem THEN [mem EXCEPT ![i].cluster = <<"dedup", o>>] ELSE mem

ConsolidateBump ==
    /\ cons.todo # <<>> /\ Owners # {} /\ ~cons.bumped
    /\ mem' = Bumped(Owner.id)
    /\ cons' = [cons EXCEPT !.bumped = TRUE]
    /\ asked' = NoAsk
    /\ UNCHANGED <<vers, vec, pins, lastId, summ, tainted, hurt, ops, runs>>

ConsolidateTag ==
    /\ cons.todo # <<>>
    /\ \/ /\ cons.bumped
          /\ mem' = Tagged(Head1.id, Owner.id)
          /\ cons' = [cons EXCEPT !.todo = Tail(@), !.bumped = FALSE]
       \/ /\ Owners = {}
          /\ mem' = Tagged(Head1.id, Head1.id)
          /\ cons' = [cons EXCEPT !.todo = Tail(@), !.owners = Append(@, Head1)]
    /\ asked' = NoAsk
    /\ UNCHANGED <<vers, vec, pins, lastId, summ, tainted, hurt, ops, runs>>
-----------------------------------------------------------------------------
Client ==
    \/ \E x \in Texts, src \in Sources, st \in Live :
          Remember(x, src, st) \/ RememberUnembedded(x, src, st)
    \/ \E i \in DOMAIN mem :
          \/ \E x \in Texts, src \in Sources : Update(i, x, src)
          \/ \E v \in DOMAIN vers[i] : Rollback(i, v)
          \/ \E b \in BOOLEAN : PinRow(i, b)
          \/ \E st \in {"active", "deprecated"} : SetStatus(i, st)
          \/ Purge(i)
          \/ SummarizeRead(i)

Job == SummarizeWrite \/ SummarizeFails \/ ConsolidateRead \/ ConsolidateBump \/ ConsolidateTag

Next == Client \/ Job

Spec == Init /\ [][Next]_vars
-----------------------------------------------------------------------------
\* docs/recall.md: "a trusted edit, dedup collision, import conflict, rollback, or
\* summary cannot upgrade an existing untrusted row".  A memory whose text,
\* source or duplicates an untrusted source has written is untrusted, whichever
\* path it took, whoever wrote to it afterwards and wherever a statement failed.
\* One way is left open, and only by an edit that failed: its version stays in
\* the chain of a row that was not downgraded, and a rollback may make it the text.
TaintIsUntrusted ==
    \A t \in tainted : t[1] \in DOMAIN mem =>
        \/ mem[t[1]].trust = "untrusted"
        \/ t[2] = "version" /\ <<t[1], "statement">> \in hurt

\* The KNN lookup and the insert are one closure: no two vectors are close
\* enough to be duplicates, unless the lookup failed for one of them.
NoDuplicateVectors ==
    \A i, j \in DOMAIN vec :
        i # j /\ Similar(vec[i].text, vec[j].text) => {<<i, "lookup">>, <<j, "lookup">>} \cap hurt # {}

\* "The original version chain is preserved": versions are only appended.
ChainIsKept ==
    [][\A i \in DOMAIN vers \cap DOMAIN vers' :
          /\ Len(vers[i]) <= Len(vers'[i])
          /\ SubSeq(vers'[i], 1, Len(vers[i])) = vers[i]]_vars

\* The memories every closure has run to its end on: a failure on one memory
\* leaves the others whole.
Whole == {i \in DOMAIN mem : <<i, "statement">> \notin hurt}

\* A summary is of a text this very memory has had, although it is written to
\* an id read before the model call.
SummaryIsOwn ==
    \A i \in Whole : mem[i].summary # NoText =>
        \E v \in DOMAIN vers[i] : vers[i][v] = mem[i].summary

\* The head of the version chain is the text.
HeadIsText == \A i \in Whole : vers[i] # <<>> /\ vers[i][Len(vers[i])] = mem[i].text

\* Chain, text and summary of a memory belong together, unless a statement failed
\* on this memory.
VersionsAgree == HeadIsText /\ SummaryIsOwn


\* The row, the vector's metadata and the pins table, written by separate
\* statements on separate paths, agree on every memory no statement failed on: on
\* pins, and on the trust the vector leg filters on (docs/recall.md:
\* "`vec_memories.trust` is updated alongside it"), except where a collision found
\* by text during an outage downgraded the row: that path never touches the vector.
MetadataAgrees ==
    /\ TypeOK
    /\ \A i \in Whole : i \in pins <=> mem[i].pinned
    /\ \A i \in DOMAIN vec \cap Whole :
          /\ vec[i].pinned = mem[i].pinned
          /\ <<i, "text">> \notin tainted => vec[i].trust = mem[i].trust
=============================================================================
