# A TLA+ verification of agos-memory

agos-memory is a memory store for agents: one SQLite file with memories,
their version history and their vectors, a single writer thread in front of
it, a durable job queue for the slow work, and a reaper that forgets. This
directory holds TLA+ models of its core, the TLC configurations that check
them, and TLAPS proofs that the safety properties of the writer, the pool, the
queue, extraction, removal and the rows hold for every value of the constants.
The vectors are kept by sqlite-vec, a C extension of SQLite that the repository carries
and builds (`crates/sqlite-vec-src/src/`), and is modelled as well. Paths below
are relative to the repository's root; the Rust code is in `src/`.

`PROJECT.json` says, for every definition that models code, which lines it
models, and lists the runs, the mutants (deliberate bugs that the properties
must catch), the findings and the hazards.

## 1. Inventory

| component | code | state it keeps | operations |
|---|---|---|---|
| single-writer actor | `src/storage/writer.rs` | bounded channel of closures, a reply and a result channel per call, health flag | `write`, `shutdown`, `is_healthy`, the loop, dropping the last handle |
| read pool | `src/storage/pool.rs`, `read_timeout` in `store.rs` | slots with connections, a condition variable | `get`, `get_timeout`, the drop of a checked-out connection |
| job queue | `src/memory/jobs.rs` | tables `jobs`, `jobs_dead` | `enqueue`, `claim_next`, `complete`, `fail`, `requeue_dead` |
| worker | `src/memory/worker.rs` | the job it holds, the shutdown flag | the polling loop and its handlers |
| scheduler | `run_scheduler` in `src/cli/root.rs` | the last hour it fired | one tick per maintenance action per day |
| sessions | `src/memory/sessions.rs`, `src/cli/remember.rs` | tables `sessions`, `turns` | open, append, close, idle-close |
| extraction | `src/memory/extract.rs` | `meta.extracted_upto_<id>` | read fresh turns, call the model, persist candidates, move the watermark |
| token ceiling and ledger | `src/memory/mod.rs`, `src/observe/ledger.rs` | table `llm_calls` | check before the call, record after it |
| remember and dedup | `src/memory/persist.rs`, `src/memory/mod.rs` | tables `memories`, `memory_versions`, `vec_memories` | persist with and without an embedding |
| edits, rollback, pins | `src/storage/store.rs` | the same, and `pins` | `update_memory`, `rollback_memory`, `pin_memory` |
| summaries | `src/memory/summarize.rs` | `memories.summary` | read, call the model, store |
| consolidation | `src/memory/consolidate.rs` | `ref_count`, `dedup_cluster_id` | read all active rows, then bump and tag one by one |
| removal | `src/storage/store.rs` | `memories.status`, `tombstones`, `forget_audit` | deprecate, restore, hard purge (delete, vacuum, checkpoint, record) |
| TTL reaper | `src/memory/ttl_reaper.rs` | none of its own | deprecate the expired, purge those past their grace period |
| vec0: declaration | `vec0_init` and the parsers in `sqlite-vec.c` | the column definitions of a `vec0_vtab` | create, connect, disconnect, rename, destroy |
| vec0: rows | `vec0Update` and its steps in `sqlite-vec.c` | shadow tables `_chunks`, `_rowids`, `_vector_chunks`, `_metadatachunks`, `_metadatatext`, `_auxiliary` | insert, replace, update, delete, command column |
| vec0: queries | `vec0BestIndex`, `vec0Filter` in `sqlite-vec.c` | a cursor | full scan, point query, KNN with filters |
| vec0: rescore index | `sqlite-vec-rescore.c` | `_rescore_chunks`, `_rescore_vectors` | quantize, coarse scan, rescore |
| vec0: DiskANN index | `sqlite-vec-diskann.c` | `_vectors`, `_diskann_nodes`, `_diskann_buffer`, the medoid in `_info` | search, insert, buffer and flush, delete and repair |
| recall | `src/recall/` | none (reads) | query, filter, fuse, rerank, pack, explain |
| store open, migration, lock, snapshot | `src/storage/store.rs`, `schema.rs` | schema version, lock file | open, migrate, snapshot |
| import, export, ingest | `src/cli/export.rs`, `ingest.rs` | batches | parse, resolve conflicts, insert |
| servers, providers, configuration, evaluation, redaction | `src/server/`, `src/mcp/`, `src/api/`, `src/embed/`, `src/llm/`, `src/http.rs`, `src/config.rs`, `src/eval/`, `src/memory/redact.rs` | little or none | wrappers, network clients, scoring |

**How they interact.** Every change of the database is a closure sent to the
writer actor: closures run one at a time, in the order they were accepted. A
closure is *not* a transaction unless it opens one: each SQL statement
commits by itself. Reads use the pool and see whatever has been committed.
So an operation that is one closure is atomic with respect to the others
(except for a failing statement), and an operation made of several closures,
or of a read and a closure, interleaves with everything else. Clients, the
worker, the scheduler and the reaper share only the database. They are tasks of
one process: `open_store` takes an exclusive `flock` on `<db>.lock`
(`src/storage/store.rs:1607`), so a second process is refused while one runs.

sqlite-vec is called by SQLite: one SQL statement on the virtual table
becomes one or more calls of `xUpdate`, `xBestIndex` and `xFilter`, each of
which reads and writes several shadow tables. SQLite runs one writing statement
at a time and rolls back one that fails, so nothing interleaves; what is
hard is that up to eight tables must be changed together, by long functions
that handle each kind of column and index apart.

**What is hard.** A caller may stop waiting for a write that still happens.
A connection may be taken between a notification and the waiter that was
notified. A worker's `complete` or `fail` may arrive late. The reaper works
from a list read earlier. A summary or an extraction is computed from a text
read before a model call and stored after it. Statements of one closure may
fail half way. A process may die between any two writes. In sqlite-vec,
slots of deleted rows keep their contents, three functions list the shadow
tables on their own, the constraints a plan consumes are tested by nobody
else, and the edges of the graph outlive the rows they lead to unless three
steps of a delete remove them. `PROJECT.json`
lists these hazards at their lines, each with the properties that would catch
it going wrong.

## 2. Modules

| module | models | extends |
|---|---|---|
| `WriteService` | abstract: an at-most-once write service whose refusals are final and whose answers are true | |
| `WriterActor` | the writer thread, its channels, callers with timeouts, shutdown, dropped handles, panics | |
| `WriterRefinement` | the mapping from the actor to `WriteService` | `WriterActor` |
| `WriterInvariant` | the inductive invariant of the actor, in named parts | `WriterRefinement` |
| `WriterProofs` | the theorems | `WriterInvariant` |
| `ReadPool` | slots, mutex, condition variable with spurious wakeups, and the async workers that block in `get_timeout` | |
| `JobQueue` | queue, dead-letter table, workers, scheduler; the writer's FIFO between a worker and the tables | |
| `Extraction` | session commands, the extract job from claim to watermark, the token ceiling | |
| `MemoryRows`, `MCMemoryRows` | the rows, versions, vectors and pins of a memory under remember, edits, summaries and consolidation | |
| `Forgetting` | deprecation, restore, the four-write purge and the reaper | |
| `DiskAnn` | the graph: search, pruning, insertion, buffer, deletion (operators) | |
| `Vec0Store` | what each statement does to the shadow tables (operators) | `DiskAnn` |
| `Vec0Query` | planning and answering a SELECT (operators) | `Vec0Store` |
| `Vec0Columns` | how CREATE VIRTUAL TABLE is read (operators) | |
| `Vec0` | a table's life: create, connect, disconnect, rename, drop, statements, commands | `Vec0Query`, `Vec0Columns` |
| `VecTable` | abstract: a set of rows under keys | |
| `Vec0Correct`, `MCVec0` | the properties of `Vec0`, its mapping to `VecTable`; one table of every kind | `Vec0` |
| `ReadPoolProofs`, `JobQueueProofs`, `ForgettingProofs`, `ExtractionProofs`, `MemoryRowsProofs`, `Vec0Proofs` | the inductive invariants and the theorems of the module each is named after | that module (`Vec0Proofs`: `Vec0Correct`) |
| `Vec0QueryProofs` | that queries are answered right | `Vec0Proofs` |

`JobQueue`, `Extraction`, `MemoryRows` and `Forgetting` use of the writer
exactly what `WriteService` promises: a closure is one step, it takes place at
most once, and a caller that timed out cannot tell whether it will. In
`JobQueue`, where this matters most, the queue of closures is a variable and
abandoned calls stay in it. `Extraction` in turn uses what `JobQueue`
establishes: a running job has one holder.

**State and code.** A table is a function or sequence from ids to rows with
the columns that the control flow reads. A client's or job's local variables
across an `await` are the fields of its program counter (`held`, `run`,
`client`, `summ`, `cons`, `todo`). Variables marked *history* in the modules
record what has happened so that a property can refer to it; no guard reads
them but to count. A fault is a branch of an
action or an action guarded by `Strike(kind)`: a failing statement, a lost
answer, a panic, a crash. `Faults` and `MaxFaults` choose which may strike
and how often. `MemoryRows` records in `hurt` which memory a statement or a
lookup failed on (`Fails`), so that its properties can hold the others to
what they should be.

**sqlite-vec.** `Vec0` has one action per entry point; a statement is one
action, enabled when it succeeds, because SQLite serializes writers and rolls
a failed statement back. The operators of `Vec0Store` are the steps of the C
functions in their order, each on the record of shadow tables `store`; a result
carries `ok`, FALSE for an error return. `Vec0Query` keeps the split between
`vec0BestIndex`, which chooses a plan and its arguments, and `vec0Filter`,
which answers with nothing but those. Loops over slots and chunks are folds;
an allocation is assumed to succeed. `MemoryRows` uses of all this that
the nearest row under a key is found, which `SelectIsRight` establishes.

**What is abstracted.** Texts are model values with a topic; two texts are
closer than `dedup_threshold` when they share it. A turn is its length. The
outcome of a closure, a handler or a model call is a choice. Time is counted
in seconds (`JobQueue`), days (`Forgetting`), or only as "the same
millisecond" (`Extraction`). A vector of sqlite-vec is an integer, its distance
to another the absolute difference, its quantized form its sign; a text is a
sequence of bytes, a declaration a sequence of tokens.

## 3. Runs

| run | instance | distinct states |
|---|---|---|
| `Writer` | 2 writes, 2 shutdowns, queue of 2 | 21 556 |
| `ReadPool` | 4 reads (2 timed), 2 connections, 3 workers | 2 500 |
| `JobQueue` | 2 keys (one without handler, one scheduled), 2 workers, 2 attempts, 1 requeue, 1 tick, 1 fault of any kind | 383 000 |
| `Extraction` | 1 session of up to 3 turns, 2 clients, 2 workers, 2 attempts, 1 requeue, ceiling of 2 calls, 2 faults of any kind | 202 143 |
| `Forgetting` | 2 memories with a TTL, 1 client and the reaper, 2 client calls, 1 fault of any kind | 962 188 |
| `MemoryRows` | 2 rows, 3 texts in 2 topics, 4 client calls, 1 consolidation run, outages, 1 failing statement or lookup | 3 175 782 |
| `Vec0` | 11 tables, up to 4 rows and 2 chunks of 2 or 4 slots, about 20 queries of each table in every state | 15 638 |
| `JobQueueCrash`, `JobQueueScheduler`, `ForgettingRace`, `MemoryRowsLost`, `Vec0Buffered` | the smallest instance that shows the disagreement | |

What the passing runs show:

- **Writer.** The actor implements `WriteService`
  (`ImplementsWriteService`): no closure runs twice, and a result handed to a
  caller is the result of an execution (`AtMostOnce` and `AnswersAreTrue`, which
  follow from it, are proved and not run). After "queue full", "stopped" or
  "dropped" the closure has not run and never will (`RejectionIsFinal`); only a
  timeout leaves that open. Closures run in the
  order of acceptance (`Fifo`), and all those accepted before the first
  shutdown message have run when the receiver goes (`DrainedWhenStopped`). A
  caller that was told of a panic sees the writer unhealthy
  (`PanicIsVisible`). The second reply, sent on a channel of capacity
  one, stops neither the loop (`QueuedJobsLeave`) nor a caller
  (`CallsReturn`).
- **ReadPool.** A connection has one owner (`ConnectionsConserved`); while
  somebody waits, every free slot has a woken waiter on its way
  (`NoLostWakeup`); every read ends, although waiting readers block the async
  workers, because the query runs elsewhere, and a read without a timeout ends
  with a connection in spite of spurious wakeups (`ReadsEnd`).
- **JobQueue.** `complete` and `fail` update by id alone and are still only
  applied to the claim they belong to (`OnlyHolderFinishes`). Dead means
  `max_attempts` failures and done means an Ok (`OutcomesAreEarned`). A dead
  job is in `jobs_dead` even if a statement failed, and without faults the table
  is exact (`DlqAgrees`). Backoff is respected (`BackoffRespected`), a job
  settles unless a fault orphaned it
  (`JobsSettleOrOrphan`), a worker told to stop stops (`WorkersStop`).
- **Extraction.** A session is extracted by one worker at a time
  (`OneExtraction`), although nothing but the idempotency key ensures it. A
  session that fits in a prompt is shown to the model to its last turn
  (`ShortSessionsAreSeen`). What the provider bills for a session is bounded by
  the attempts of its job, one call for each, and by nothing else: the ledger
  holds no more than that and may hold less (`SpendingIsBounded`; section 4). The
  ceiling bounds what is *recorded*: no call begins once the ledger has reached
  it, and the ledger overruns it by less than one call
  (`RecordedSpendingIsCapped`, which also says that an open session has spent
  nothing). A finished session is not paid for again short of two faults
  (`ExtractedOnce`), and a closed one is extracted or dead-lettered unless a
  fault intervened (`ClosedSettles`).
- **Forgetting.** A tombstone is written once, for a row that is gone
  (`TombstonesAreTrue`), and agrees with the audit table (`LedgerAgrees`). A
  purged memory does not come back, and the reaper respects the grace period of
  rows no client touched since it listed them (`PurgesAreDueAndFinal`). A run of
  the reaper, once begun, deals with every row it listed: the expired are
  deprecated or gone, the rows past their grace period gone with their tombstone,
  whoever of the reaper and a client deletes them, unless a fault strikes or a
  client's purge of another row of the list ends the run (`RunSettlesItsRows`).
  That there is a run at all is not promised (`JobQueueScheduler`).
- **MemoryRows.** No sequence of merges, edits and rollbacks makes a row
  trusted that an untrusted source wrote to or was merged into, with one way left
  open by an edit that failed half way (`TaintIsUntrusted`; section 4). Two rows
  hold the same fact as vectors only if the lookup failed for one of them
  (`NoDuplicateVectors`). Of every memory on which no statement failed, the
  text is the head of its version chain and its summary belongs to a text it
  has had (`VersionsAgree`), and the pins table and the vector's metadata agree
  with the row (`MetadataAgrees`), whatever failed on other memories; the chain
  only grows (`ChainIsKept`).
- **Vec0.** The shadow tables agree: a row has one valid slot, its position
  names it, and every table holds something for every live row and nothing for
  another (`ShadowTablesAgree`); the tables that exist are those the table
  needs, under its name, whatever was renamed or dropped
  (`ShadowTablesFollow`). A statement that succeeds does to the rows what SQL
  says, and an insert under a free key succeeds (`StatementsMeanRows`); over a
  whole life, closing and reopening included, a vec0 table is a table
  (`ImplementsTable`, the refinement of `VecTable` by reading a full scan). On
  flat and rescore tables a query that is planned is answered by the k nearest
  of the rows that satisfy it (`SelectIsRight`), with the exceptions below. A
  DiskANN graph has no edge to a row that is gone, no stale quantized copy and
  a live medoid (`GraphIsClosed`); its search stops and returns live rows
  (`SearchEnds`): which rows is approximate by design, so nothing is said of
  it. Declarations are read as they are written, over 3 503 descriptions of
  tables and the orders of their arguments, and accepted exactly when they are
  legal; whether a DiskANN column may stand beside an auxiliary one is not
  judged, the code and its comment disagreeing (`ParsesAsWritten`, `Disputed`).

**Bounds.** The writer needs two jobs to tell orders apart and more messages
than the queue holds. Four reads over two connections and three workers give
a waiter, a newcomer and a woken waiter at once, with every worker blocked.
Two attempts reach both sides of `attempts < max`. Two workers and one
session suffice for `Extraction`, whose sessions share nothing but the list a
client enqueues; its window of two turns and room for one and a half make
both limits of the prompt bite. Two rows are enough for a merge and a
survivor, and the two topics for a text with no neighbour. Times are the
smallest for which "not yet" and "past" differ. The limits of sqlite-vec are
scaled down together: a byte has two bits, a chunk two slots (or four), a text
view two bytes, a DiskANN node two edges, k is at most 4. Three rows fill a
chunk and open the next, and four rows overflow a node, so that an edge is
replaced; keys go below, to and past the AUTOINCREMENT value and include 0,
which the visited set of the search cannot hold. Every table has one column of
a kind, and no statement touches two rows. The texts are shorter than, equal
to and longer than the view. `MaxSearchSteps` bounds the loop of the search;
`SearchEnds` says it is never reached. One fault at a time is what
the code is meant to survive; `Extraction` has two since its watermark is
only lost by two.

**Fairness.** Weak fairness, in each module, of steps the code takes by
itself: the writer thread and a caller in `write` (timeouts bound their
waits and closures end); a read (its query ends); a worker's loop and
handlers (every model call has a timeout), the writer and, in `JobQueue`, the
clock; a command already begun; a purge and a run of the reaper once begun,
which are `await`ed to their end. That a run of the reaper *begins* is not
assumed: the scheduler enqueues it under a constant key, which a finished row
keeps (`src/cli/root.rs:994`, `src/memory/jobs.rs:63`), so once in the life of a
store, and `maintain --ttl` is the operator's choice. Nothing is assumed fair
that a client chooses to do, and no fault is.

**Deadlock** is checked in `Writer`, `Extraction` and `Vec0`. In the other
modules the number of client calls is bounded, all workers may be stopped, or
all reads have ended; their configurations say `CHECK_DEADLOCK FALSE`, and
the liveness properties cover what must go on.

## 4. Findings

- `JobQueueCrash`: `claim_next` looks at queued rows only, so a job whose
  worker died stays running; `locked_at` is written and never read.
- `JobQueueScheduler`: the scheduler's key is constant and a finished row
  keeps its key, so the daily maintenance is enqueued once.
- `ForgettingRace`: the reaper purges ids it listed earlier without looking
  again; a memory restored in between is purged while active.
- `MemoryRowsLost`: the nearest-neighbour lookup of the dedup has no status
  filter, so a fact close to a deprecated memory is merged into it.
- `Vec0Buffered`: when the medoid of a DiskANN table is deleted, any row with
  a vector becomes the new one, also a buffered row that has no node. Deleting
  that row takes the path that "needs no graph repair", and the medoid is left
  without a vector: KNN queries then fail.

Smaller observations, without a run of their own:

- `shutdown` accepts further jobs behind its message, and they are refused
  as dropped (`src/storage/writer.rs:192`).
- `get_timeout` may return `None` before its time, when a woken waiter finds
  no slot (`src/storage/pool.rs:126`).
- A crash between a purge's delete and its record leaves neither row nor
  tombstone (`src/storage/store.rs:1184`).
- A merge without an embedding leaves the trust in `vec_memories` as it was
  (`src/memory/persist.rs:365`); deprecation leaves its status
  (`src/storage/store.rs:956`).
- An update keeps the summary of the old text (`src/storage/store.rs:803`).
- An edit by an untrusted source (an import conflict, an ingest) that fails after
  writing its version leaves its text in the chain of a row that was not
  downgraded (`src/storage/store.rs:763`), and a later rollback, which asks
  nobody for a source, puts that text into the trusted row (`:845`).
  `docs/recall.md` (223 to 235) says that no rollback upgrades an untrusted row;
  here it is the text that is untrusted and the row that never was.
  `TaintIsUntrusted` exempts this way and no other.
- An error while stepping the KNN lookup of the dedup is taken for "no neighbour"
  and the text is inserted beside the one it repeats
  (`src/memory/persist.rs:106`, `filter_map(|r| r.ok())`); `NoDuplicateVectors`
  exempts rows inserted after such a failure.
- A run of the reaper ends with an error at a row that a client purged after the
  listing (`src/memory/ttl_reaper.rs:61`); the rows after it wait for another run,
  which nothing brings about.
- A repeated consolidation run counts references again
  (`src/memory/consolidate.rs:96`).
- An extraction answer that is not JSON is paid for and never recorded: the parse
  returns before the row is written (`src/memory/extract.rs:158`), while
  `docs/architecture.md:125` says that every provider call appends to `llm_calls`
  and that the ceiling is enforced. Such answers are outside the ceiling, as are
  those whose row could not be written (`:171`), so the bill may pass it by as
  many calls as the job has attempts. `SpendingIsBounded` says that it is no more
  than that, `RecordedSpendingIsCapped` speaks of the recorded part alone.
- A crash between closing a session and enqueueing its extraction
  (`src/cli/remember.rs:160`) leaves the session closed and never extracted.
- The watermark moves past turns the prompt had no room for
  (`src/memory/extract.rs:75` and `:185`); of a long session these are the
  *newest* of its last fifty turns.
- The ceiling check of `remember` looks at the open session, to which nothing
  is ever charged (part of `RecordedSpendingIsCapped`).
- Removal by TTL does not exempt pinned memories, and the orphan cleanup of
  the consolidation finds nothing under the foreign key.

In sqlite-vec; the first three are what `Answerable` and the choice of queries
leave out of `SelectIsRight`:

- A `<`, `<=`, `>` or `>=` on a text column compares a text that is longer
  than the view by the length of the *stored* text only, and looks for a long
  copy of a text that exactly fills the view, which fails the query
  (`sqlite-vec.c:6864`).
- `id IN (...)` on a text key answers nothing when one of the listed keys does
  not exist: the lookup's result is left in a shadowed `rc`
  (`sqlite-vec.c:7925`). A missing key in a point query is an error on rescore
  and DiskANN tables, and no row on flat ones.
- Terms on the distance (and, for DiskANN, `rowid IN`) are consumed by the plan
  and never applied by the rescore and DiskANN paths
  (`sqlite-vec-rescore.c:345`, `sqlite-vec.c:7651`).
- A row with a NULL partition key gets a chunk of its own, since `= NULL` finds
  none, and no partition term matches it (`sqlite-vec.c:4371`).
- Slots freed in older chunks are not used again (`sqlite-vec.c:8692`).
- An UPDATE of a partitioned or DiskANN table whose WHERE does not name the key
  is refused, because the unchanged columns arrive as if they were set; a new
  value for an integer key is ignored (`sqlite-vec.c:10148`).
- A buffered row that is the medoid is returned twice by a KNN query
  (`sqlite-vec.c:7711`).
- "Mark as confirmed (vector exists, distance is exact)"
  (`sqlite-vec-diskann.c:820`): the list keeps the smaller of the quantized and
  the exact distance.
- `distance_metric=L2 distance_metric=cosine` "should error"
  (`sqlite-vec.c:3048`) and is accepted; "DiskANN columns cannot coexist with
  aux/metadata/partition columns" (`:5196`), but the check below the comment
  refuses the last two only. `ParsesAsWritten` does not judge such declarations
  (`Disputed`).
- A rename may give the table the name of a column, which `vec0_init` then
  does not check; sizes set by commands are forgotten on disconnect.

## 5. Proofs

Every theorem has the form `Spec => []P` (or `Spec => P` for an action
property or the refinement) and holds for every value of the constants the
module's `ASSUME` admits. The assumptions say what the code takes for granted:
sizes, limits and times are numbers, positive where the code makes them so
(`size.max(1)`, `max_attempts`, a turn costs at least a token, a view of a
text keeps at least a byte), the marked
subsets are subsets, the reaper is not a client. The sets of calls, jobs'
keys, workers, clients, texts and topics are arbitrary, infinite ones
included, and so are the bounds of the runs (`MaxOps`, `MaxFaults`,
`MaxRows`...), which only bound the length of a history.

None of the properties is inductive, and most of the work is in finding what
is. Each proof module defines `IInv`, proves `Init => IInv` and
`IInv /\ [Next]_vars => IInv'`, conjunct by conjunct and action by action
(`Invariance`), and derives the theorems from it. Each `IInv` was checked by
TLC on the instance of section 3 before it was proved.

### The writer (`WriterProofs`, invariant in `WriterInvariant`)

| theorem | states |
|---|---|
| `WriterTypeOK` | `Spec => []TypeOK` |
| `WriterAtMostOnce` | `Spec => []AtMostOnce` |
| `WriterAnswersAreTrue` | `Spec => []AnswersAreTrue` |
| `WriterRejectionIsFinal` | `Spec => []RejectionIsFinal` |
| `WriterFifo` | `Spec => []Fifo` |
| `WriterDrained` | `Spec => []DrainedWhenStopped` |
| `WriterPanicIsVisible` | `Spec => []PanicIsVisible` |
| `WriterImplementsWriteService` | `Spec => ImplementsWriteService` |

`AtMostOnce` holds because a job is taken from the queue once, which holds
because it was queued once, which holds because a caller leaves "sending" when
it queues. `IInv` therefore follows a message from caller to execution to
answer:

- `HandlesInv`: a call under way keeps a handle alive, so the loop does not
  see a closed channel while somebody still sends.
- `AcceptedInv`: `accepted` has no repetition and holds exactly the messages
  whose calls have got past sending.
- `QueueInv`: the queue is the part of `accepted` not yet taken.
- `LoopInv`: at each statement of the loop, which of the messages taken have
  run; it gives `Fifo` and `DrainedWhenStopped`.
- `ReplyInv`: what is in a waiting caller's reply channel, and whether the
  loop still owes it one; it gives `AnswersAreTrue`, and that a dropped call
  never ran.
- `HealthInv`: healthy means that nothing has panicked.

There is one lemma per action that it preserves `IInv`, and one per action
that it is a step or a stutter of `WriteService` under the mapping.

### The read pool (`ReadPoolProofs`)

| theorem | states |
|---|---|
| `PoolConnectionsConserved` | `Spec => []ConnectionsConserved` |
| `PoolNoLostWakeup` | `Spec => []NoLostWakeup` |

`HoldsInv` ties the pool's two views of a connection: a slot is empty exactly
when one read holds its connection, and a read holds one exactly while its
query runs. `NoLostWakeup` compares the number of free slots with the number
of woken reads and is inductive beside it; the reads on a worker are finitely
many (`WorkersInv`) even when the reads are not.

### The job queue (`JobQueueProofs`)

| theorem | states |
|---|---|
| `JobQueueTypeOK` | `Spec => []TypeOK` |
| `JobQueueOnlyHolderFinishes` | `Spec => []OnlyHolderFinishes` |
| `JobQueueOutcomesAreEarned` | `Spec => []OutcomesAreEarned` |
| `JobQueueDlqAgrees` | `Spec => []DlqAgrees` |
| `JobQueueBackoffRespected` | `Spec => BackoffRespected` |

`complete` and `fail` change a job by its id alone, and a closure whose worker
has given up waiting still runs. They are harmless because a claim is in one
place: in the hands of one worker (`HeldInv`) or in one closure of the writer's
queue (`FinishInv`), and while it is in either the job is running, so nobody
claims it again. `AnswerInv` says a worker waits for at most one closure.
`JobInv` relates attempts, failures and the time a job is due, and gives
`OutcomesAreEarned` and `BackoffRespected`; `DlqInv` is `DlqAgrees` without its
cardinalities.

### Extraction (`ExtractionProofs`)

| theorem | states |
|---|---|
| `ExtractionOneExtraction` | `Spec => []OneExtraction` |
| `ExtractionShortSessionsAreSeen` | `Spec => []ShortSessionsAreSeen` |
| `ExtractionSpendingIsBounded` | `Spec => []SpendingIsBounded` |
| `ExtractionRecordedSpendingIsCapped` | `Spec => []RecordedSpendingIsCapped` |
| `ExtractionExtractedOnce` | `Spec => ExtractedOnce` |

`SessionInv`: only closed sessions are enqueued, so an open one has no job, no
watermark and no costs. `RunInv`: an extraction has a running job to itself,
and since a closed session gets no more turns, what it read stays the whole
session. `LedgerInv`: a session has been billed at least what its ledger and the
answer in hand hold, and that answer was asked for below the ceiling.
`SpendInv`: what is billed fits what the attempts made so far allow (`Allowed`),
and an extraction that has not called yet has a whole call left; that a claim
adds exactly the price of one call is `Allowance`. `SeenInv`: the turns
below the watermark of a short session have been shown. `MarkInv` counts
faults: a job not done although its watermark is at the last turn met one, and a
second call of the model two. `RoomInv` is only there for the types: the
appends under way fit the bound `MaxTurns`. How the prompt is cut is a fold
over the turns; that it drops nothing from a short session is
`ShortPrompt`, on the lemmas about sums at the head of the module.

The proof found an error in the model which the runs had not: in `Resolve` the
condition that the session is open had become part of an implication's
hypothesis, so a command could be begun for a session nobody had opened. It is
corrected.

### Removal (`ForgettingProofs`)

| theorem | states |
|---|---|
| `ForgettingTypeOK` | `Spec => []TypeOK` |
| `ForgettingTombstonesAreTrue` | `Spec => []TombstonesAreTrue` |
| `ForgettingLedgerAgrees` | `Spec => []LedgerAgrees` |
| `ForgettingPurgesAreDueAndFinal` | `Spec => PurgesAreDueAndFinal` |

`PurgeInv`: between its delete and its record a purge has its row to itself,
because only the call that deleted the row goes on. `RowInv`: no removal is
recorded of a row that is there. `ListInv`: what the reaper has listed and no
client has touched since is still due, because the clock does not go back.

### Rows, versions, vectors and pins (`MemoryRowsProofs`)

| theorem | states |
|---|---|
| `MemoryTaintIsUntrusted` | `Spec => []TaintIsUntrusted` |
| `MemoryNoDuplicateVectors` | `Spec => []NoDuplicateVectors` |
| `MemoryVersionsAgree` | `Spec => []VersionsAgree` |
| `MemoryMetadataAgrees` | `Spec => []MetadataAgrees` |
| `MemoryChainIsKept` | `Spec => ChainIsKept` |

`IdInv`: ids are given out in order and never twice, so what a call remembers
of an id is about the memory that still has it or about one that is gone.
`SummInv`: the text a summary is waited for is among the versions of its
memory. `ConsInv`: between its two writes the consolidation job has an owner
to point to. The agreements are stated for the memories outside `hurt`; since a
closure is about one memory, its failing statement takes that one out and no
other (`HurtOnly`). The operations share their writes, so the lemmas are about those
(`RowOnlyKeeps`, `InsertKeeps`, `MergeKeeps`, `RewriteKeeps`, `PurgeKeeps`,
`PinKeeps`), each with every point at which a statement may fail, and the
actions follow from them.

### sqlite-vec (`Vec0Proofs`)

| theorem | states |
|---|---|
| `Vec0ShadowTablesAgree` | `Spec => []ShadowTablesAgree` |
| `Vec0ShadowTablesFollow` | `Spec => []ShadowTablesFollow` |
| `Vec0ImplementsTable` | `Spec => ImplementsTable`, the refinement of `VecTable` |
| `Vec0RowsAreMeant` | `Spec => []RowsAreMeant` |
| `Vec0StatementsMeanRows` | `Spec => []StatementsMeanRows`, if every declared DiskANN index has `buffer_threshold` 0 |
| `Vec0GraphIsClosed` | `Spec => []GraphIsClosed`, under the same hypothesis |
| `Vec0SearchesAnswer` | `Spec => [](SearchesStop => SearchEnds)`, under the same hypothesis |

The assumptions are that a table `vec0_init` accepts is of the kinds
`IsDeclared` lists (what the parsers make of arguments of any length is an
induction over tokens, so it is assumed here and evaluated by TLC for every
declaration of the run), that keys of a table with an integer key are
integers, that a row has the columns of its table (`Fits`), and that NULL is
neither an integer nor a key. Declarations, keys, rows, names, commands and the
number and size of chunks are arbitrary.

`IInv` says more than the properties. While no connection is open the contents
must still be those of the declared table (`SchemaInv`), and a connection knows
that table up to what commands may set (`TableInv`, `SameKind`). Rowids and
chunk numbers stay below the AUTOINCREMENT marks (`RowsShape`, `ChunksShape`),
which is why a new row or chunk displaces no other; text keys differ
(`KeysDiffer`), or a delete by key could find another row; every per-chunk table
has chunks of full size (`ColumnsShape`). An INSERT passes through a state in
which the row is known and only its slot is missing (`Ready`), a DELETE through
one in which its chunk may be empty (`Vacated`); `StoreOK` holds again when the
statement ends. The lemmas follow the steps of the C functions:
`InsertedRowIs`, `NextAvailableIs`, `RowIsWritten`, `MetadataIsWritten` and
`PlacedRowKeeps` for INSERT, `RowIsCleared`, `ClearedIsVacated` and
`EmptyChunkGoes` for DELETE, one for each of the three parts of UPDATE.
`OneList` is what keeps `vec0_init`, `vec0Rename` and `vec0Destroy` together.

For the refinement every step of a statement is shown to leave each other row
reading as it did, column by column (`SameRow`, the lemmas `...KeepsOthers`);
`RowAdded`, `RowGone` and `RowRewritten` then say what a full scan sees
(`Scanned`). In a chunked table this rests on `Placed`: no other row is in the
slot written. For DiskANN `IndexInv` is needed: every row has its vector, and
whatever pruning, linking, repairing and scrubbing do to the nodes, the vectors
of other rows stay (`InsertIsPut`, `DeleteIsWithout`). `RowsAreMeant` adds that
the row itself reads as it was given, or as changed (the lemmas `...Reads`; a
text comes back whole from its view or from the text table, `TextReads`).

`StatementsMeanRows` also says that an INSERT under a free key succeeds.
`InsertChunkedIs` shows it for chunks: the slot is there, and `Filled` rules out
a text left under the rowid. A DiskANN INSERT fails only if the search for its
neighbours does, for want of the medoid's vector; `Seeded` is the invariant that
there is one. A deleted medoid has a successor because rowids, which may be
negative, have a smallest one. The hypothesis is not for the proof's
convenience: with a buffer the medoid may pass to a row that is only buffered,
and the finding on `NoRepairNeeded` follows. `Vec0RowsAreMeant` and the
refinement hold with a buffer too.

`GraphIsClosed` rests on `FullIndex`: every row is a node with a vector, and
every node is `NodeOK`, that is, its slots name other nodes, none twice, each
beside that node's quantized vector. It is inductive only because the search
answers well, so the proof follows `diskann_search` inside. `Lists` is what
every insertion into the candidate list keeps: each rowid once, all of them
nodes, and none visited that is not confirmed, but for the one being visited
(`CandidateInsertKeeps`, `SearchTurnKeeps`, `SearchLoopKeeps`; the list size
does not matter). What is confirmed is therefore a set of nodes without
repetition (`SearchFinds`), sorting and pruning choose from it
(`SortKeepsPart`, `RobustPruneTakes`), and what is linked is again `NodeOK`:
the new node (`TakenNodeOK`), the nodes that get a reverse edge
(`ReverseEdgeOK`), those that `diskann_repair_reverse_edges` gives another
neighbour (`RepairedOK`), and all that `diskann_scrub_deleted_rowid` clears
(`ScrubbedOK`). Scrubbing is what makes the deletion right: an edge into the
deleted node that the node did not return is found by nothing else.

`SearchEnds` says of a KNN query that its search ends, and what it then answers.
The second half is proved: `SearchesStop` is exactly the first half, with the
condition that as many rows as a natural number are asked for. The answer is
not empty because a list is never empty and, when nothing on it is unvisited,
everything on it is confirmed (`SearchAnswers`); it is not longer than asked
for by `FirstFew`, and sorting it by exchange loses and repeats nothing
(`ExchangeSortKeeps`). That the search ends is left to the run: it depends on
the bound `MaxSearchSteps`, which the code does not have.

The loops of `DiskAnn` are folds over sequences of any length. `FoldLeft` is
unfolded to the function it iterates; `ChainExists` says that such a function
exists for a step that stays in a set, and `UpTo` is the induction along it.

### Queries of sqlite-vec (`Vec0QueryProofs`)

| theorem | states |
|---|---|
| `Vec0SelectIsRight` | `Spec => []SelectIsRight` |

On flat and rescore tables every planned query is answered, and with the rows
that its terms mean, for any rows, queries, chunk sizes and number of chunks
and after any statements. `Vec0CorrectAssumption` says what is asked and
stored: vectors are numbers, texts have no NUL, booleans are 0 or 1
(`ValuesFit`); the terms of a KNN query are among those that a plan takes, on
columns the table has, with a k that is not refused (`KnnTerm`); oversampling
is by a positive integer (`Oversamples`). TLC evaluates it for every
declaration and query of the run. The questions that the code answers otherwise
(§4) are left out by `Answerable` and `KnnTerm`, so they are no part of the theorem.

`IInv` knows where things are, not what they are. `ValuesInv` adds that the
cells hold values of their kind and, for texts, that a slot no row is in is
zeroed: `vec0_set_metadata_filter_bitmap` reads the invalid slots too, and a
view left behind there could fail the query (`BlankNeverFails`). Then,
from the inside out:

- a filter decides as its term means. `TextOrderIs` relates the order of two
  texts to the first byte in which they differ, so that a comparison of views,
  or of a view and a length, agrees with one of the texts; with `RowValues`
  (what a row's cell is of the row) `WantedRow` says that the partition, rowid,
  metadata and distance filters keep a row exactly if it satisfies every term;
- `Best` says of a list that it is the first k of a set by distance.
  `MinIdxIsBest`: `min_idx` of a chunk is. Merging two such lists gives one of
  the union (`Took`, `Rest`), so after the last chunk the list is one of all
  rows wanted (`ScanFinds`, an induction along the fold over chunks), because
  every row is in one slot of one chunk (`StoreOK`);
- a rescored answer is right because the selection sort sorts
  (`SelectionSorts`) and the candidates are as many as are wanted or as
  oversampling allows (`OversampledIs`, `RescoreIsNearest`): when these reach
  every row, none that is nearer has been left out;
- the arguments `vec0BestIndex` packs are those `vec0Filter` unpacks
  (`ArgvIs`), a point query finds its row (`PointFinds`), and a full scan lists
  every row (`FullScanLists`), in an order that `RankedByIs` shows to exist.

`SelectsRight` puts these together for the three plans.

### What is only model-checked

- **Liveness.** `CallsReturn`, `QueuedJobsLeave`, `ReadsEnd`,
  `JobsSettleOrOrphan`, `WorkersStop`, `ClosedSettles` and
  `RunSettlesItsRows`: fairness and `ENABLED` are beyond the prover.
- **Declarations and searches of sqlite-vec.** `ParsesAsWritten` compares what
  six parsers make of a sequence of tokens with its description, an induction
  over tokens; that every beam search ends is a part of `SearchEnds`.

The library's induction theorems take an operator as a parameter and cannot be
used here. Where a proof needs an induction (the sum over a finite set, the
increasing enumeration of one, a fold), it takes a smallest counterexample
instead, and each module begins with the facts about finite sets it needs for
that.

## 6. Not modelled

Recall, store opening and migration, import and ingest are still to come
(below). The servers and the API are wrappers over the operations modelled
here; providers are network clients whose failures appear as outages and
failed calls; configuration is the constants; redaction is a table of regular
expressions; evaluation is offline scoring.

Of sqlite-vec: the IVF index is behind `SQLITE_VEC_EXPERIMENTAL_IVF_ENABLE`,
which `build.rs` does not define. The scalar functions, the distance kernels
and `vec_each` are arithmetic without state. `sqlite3.h` and `sqlite3ext.h`
are SQLite's. Left out of what is modelled: several columns of one kind
(their loops do the same for each), float metadata (compared as integers
are), the int8 quantizers, vectors of several components, failing
allocations and damaged shadow tables, `vec0ShadowName`.

## 7. Plan

Done, in this order: the writer and its proofs, the pool, the queue, removal,
the memory rows, extraction, sqlite-vec. Next:

1. **Recall**: filter, reciprocal-rank fusion, rerank and token packing as
   operators, checked against reference definitions over bounded inputs
   (`tokens_used <= budget_tokens`, whole items, rollover between tiers, no
   ineligible row), together with `compute_line_diff` and `scheduler_tick`.
2. **Store**: open, process lock, migration and snapshot with crashes and a
   second process (`store.rs` 311–363, 1259–1304, 1605–1760; `schema.rs`
   376–402).
3. **Import and ingest**: `process_batch` with its conflict rules and retries
   (`src/cli/export.rs` 452–705), and a daily turn racing a session close.
4. Abstract specifications for the queue (at-least-once execution with a
   single holder) and for removal (live, deprecated, gone for ever), with
   refinements.
