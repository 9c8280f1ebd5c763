# Formal verification of ce-query

ce-query answers aggregate and projection queries over datasets whose shards are content-addressed
blobs on a mesh of untrusted, unreliable hosts. This directory holds TLA+ models of its coordinator,
its catalog and commands, the agent that serves it and its pure algorithms, TLC configurations that
check them on small instances, and TLAPS proofs of the properties that matter most.

    tlc -config Engine.cfg MCEngine.tla            # model-check one configuration
    tlapm EngineProofs.tla                         # check the proofs of one module

## 1. Inventory of the system

| Part (source) | State it keeps | Operations | Interacts with |
|---|---|---|---|
| Aggregate engine (`engine.rs` `run`, `map_one_shard`, `select_quorum`) | window of shard futures, outcomes by index; per shard the ranked hosts, position, calls, copies | reject / short-circuit, dispatch, call a host, fail over, verify copies, collect, reduce | planner (rankings, pruning), `MapHost`, combine |
| Projection engine (`engine.rs` `run_projection`, `project_one_shard`) | rows collected so far, truncation flag, window | as above; collect under a cap, stop early, order and limit | planner, `MapHost`, order |
| Planner (`plan.rs`) | none (pure); `ShardTask.attempt` | prune a shard by statistics, rank hosts, advance to the next host | dataset statistics |
| Partials (`combine.rs`) and query model (`query.rs`) | accumulators per group | fold a row, merge partials, finalize; evaluate a predicate | engine, hosts |
| Ordering (`order.rs`) | none | stable sort by keys, truncate | both engines |
| Catalog (`catalog.rs`) | the catalog file, a lock file, a temporary file per process | lock, load, change, save, unlock | other processes through the file system |
| Datasets (`dataset.rs`), registration (`lib.rs`) | shard list with counts and statistics | shard rows, upload, discover hosts | blob store, catalog |
| Mesh hosts (`mesh.rs`) | none per call | fetch a blob and map it; send a request and classify errors | ce-rs node |
| Agent (`main.rs` `serve_cmd`) | revocation set, permits in use, inbox | poll, refresh, spawn a request handler, reply | mesh, capabilities |
| Capabilities (`caps.rs`) | none | mint, verify a token | ce-cap |
| Join (`join.rs`) | none | partition by key, hash join | library users |
| SQL (`sql.rs`), CLI (`main.rs`) | none | parse, print | everything |

What is hard here: shard futures that finish in any order while the window refills; hosts that fail,
hang, answer late or return a wrong partial; redundant copies that are fewer than asked for; a deadline
that is only looked at between calls; caps that act while rows still arrive; several processes and
crashes on one catalog file; cells that one part of the code reads as text and another as a number;
sums that change lanes at different rows in different splits. `PROJECT.json` lists each as a hazard at its line.

What makes each part correct:

* *aggregate engine*: an answer is the exact answer or an error; a verified shard cannot be decided by
  a minority of liars; no needless failure; no host asked twice for a shard; bounded, full window;
  honest diagnostics; termination;
* *projection engine*: a filled, ordered answer that says when rows were dropped; termination;
* *catalog*: never a torn file, no lost update, no caller blocked forever;
* *planner*: skipping a shard never changes the answer; the ranking is a permutation of the hosts;
* *partials*: the result does not depend on the split into shards;
* *agent*: no permit is lost, a request that was polled is replied to, a revocation reaches an agent that
  keeps running and then binds, data goes out, to whomever, on a grant to that sender which covers the
  dataset named in the query; *mesh*: a call ends at most once, with the result that was asked for or an error;
* *registration and commands*: what is registered is one whole file; readers find the blobs;
* *join*: bucket-wise equals plain, no value lost but under a prefixed name that is taken; *ordering*: the rows returned are the top of all;
* *SQL*: the documented grammar means what it says, and no token is ignored.

## 2. Modules

| Module | Role |
|---|---|
| `Planner` | the failover chain of one shard (`ShardTask`); any ranking of the hosts is possible |
| `CostLimits` | `CostLimits::check_scan` |
| `QueryOutcome` | abstract specification of a query: at most one answer, the exact one, or an error |
| `Engine` | `run` with `map_one_shard` and `select_quorum` |
| `EngineInvariant` | the inductive invariant of `Engine` |
| `EngineProofs` | theorems about `Engine` |
| `Projection` | `run_projection` with `project_one_shard` and `order_raw_rows` |
| `ProjectionInvariant`, `ProjectionProofs` | the inductive invariant of `Projection`, and theorems about it |
| `QueryModel` | cells, predicates, group keys, column statistics and partition pruning |
| `Accumulators` | `KahanSum`, `Accum`, the folds of `Agg`, `Partial` |
| `Scan` | the data of one query: shard, observe, prune, map, merge, finalize |
| `ScanInvariant` | the inductive invariant of `Scan` |
| `QueryProofs` | theorems about `Scan` and about `Sql`, which share the predicate |
| `AtomicCatalog` | abstract specification of `Catalog::mutate`: every call takes effect at one instant |
| `Catalog` | `mutate`, `CatalogLock`, `load` and `save` at the granularity of system calls |
| `CatalogProofs` | theorems about `Catalog` |
| `Shaping` | ORDER BY and LIMIT over finalized groups (`order.rs`, `Query::shape`); used by `Scan` |
| `Caps` | scopes, minting, `verify`, `scope_allows` (`caps.rs`, `grant_cmd`) |
| `HostCall` | abstract specification of `MapHost`: a call ends at most once, with an error or an acceptable answer |
| `Agent` | `MeshMapHost`, `LocalMapHost`, the network, `serve_cmd` and `serve_map` |
| `AgentInvariant`, `AgentProofs` | the inductive invariant of `Agent`, and theorems about it |
| `Commands` | `dataset add`, `rm`, `show` and `run` over the catalog and the blob store (`main.rs`, `lib.rs`) |
| `CommandsInvariant`, `CommandsProofs` | the inductive invariant of `Commands`, and theorems about it |
| `Join` | `hash_join`, `partition_by_key`, `distributed_join`, `merge_rows` (`join.rs`) |
| `JoinInvariant`, `JoinProofs` | the inductive invariant of `Join`, and theorems about it |
| `Subsequences` | what `Iterator::filter` keeps of a sequence, named by positions, and a finite set listed in an order; used by `Commands`, `Join` and `Shaping` |
| `Counting` | lemmas on cardinalities, sums, orders and subsequences that the proof modules share |
| `Sql` | `tokenize` and the parser (`sql.rs`) |
| `SqlInvariant` | the grammar that `sql.rs` documents, and the inductive invariants of `Sql` |
| `MCEngine`, `MCProjection`, `MCScan`, `MCCatalog`, `MCAgent`, `MCCommands`, `MCJoin`, `MCSql` | small instances for TLC |

How they fit together: `Commands` takes `mutate` to be atomic, which `Catalog` shows under the stated
assumption (`ImplementsAtomicCatalog`), and a query to read every shard once, which `Engine` shows
(`ImplementsQueryOutcome`). `Engine` takes a host call to end with an acceptable answer or an error,
which `Agent` shows (`ImplementsHostCall`), and pruning to be sound and the reduce to be independent of the split,
which `Scan` examines; `Scan` composes the query model, the accumulators and `Shaping`; `Sql` builds
the predicate trees that `QueryModel` evaluates.

Definitions whose comment starts with "Fault variant" are plausible bugs of the definition that
follows them. No specification uses them; substituted for it, each makes the property it is paired
with in `PROJECT.json` fail, which shows that the property depends on that code.

### Engine

One behaviour is one call of `run`. `job` holds its inputs: the shard list, the candidate hosts, which
of them may return a wrong partial, the ranking of every content id and the `RunConfig`; it never
changes. The rest follows the code: `phase` is where `run` stands; `pending`, `inflight` and `collected`
are the iterator of tasks, the `FuturesUnordered` window and the filled slots of `outcomes`; `attempt`
is `ShardTask::attempt`; `attempts`, `copies`, and `chosen` are the locals of `map_one_shard`.

An async function runs without interruption between awaits, and the window is polled by one task, so a
shard's walk has three kinds of step: the top of its loop (`HitDeadline`, `CallHost`, `StopWalk`), the
return of the awaited call (`HostFails`, `HostReplies`, which include the verification of the copies
when the walk ends there), and the collector taking the finished future (`CollectServed`,
`CollectError`, both with the refill of the window). `Tick` lets the deadline pass between any two
steps. `RejectInvalid`, `EmptyDataset`, `NoCandidates`, `OverBudget`, `AllPruned` and `Dispatch` are
the exits and the priming of `run` in the code's order; `Finish` is the reassembly, the group cap and
the report.

Abstractions: a partial is an abstract value, two partials agree when they are equal (the code compares
their serialized bytes), and the reduce is the family of merged partials, one per shard. This is sound
as long as merging is commutative and associative, which belongs to `combine.rs` (see `Scan`). Shard positions are
kept apart from content ids because two positions may hold the same content. That pruning is sound is
an assumption of the module (`PruningAssumption`); `Scan` is where it is examined. Result ordering and `LIMIT` of aggregate queries act on the finished
result and are in `Shaping`. All error kinds of a host call are one action because the
code treats them alike.

### Projection

The same walk without redundancy, with rows instead of partials. `rows` grows by the rows of each shard
in the order the futures finish; `CollectServed` cuts it at `CollectCap` and leaves the loop when
`Enough`. `Finish` sorts with a stable sort given by its definition (the place of a row is the number of
rows that go before it) and applies the `LIMIT`. ORDER BY is an abstract rank per row: the key list,
directions and cell comparison of `order.rs` collapse into it.

### Scan

`Engine` decides which host maps which shard; `Scan` follows the rows. One behaviour registers one table
and runs one aggregate query over it. `ObserveRow` is one iteration of `compute_stats` on the shard that
`shard_rows` gives the row to (round robin; shards without rows are not uploaded); `PlanQuery` is the
pruning in `run`; `MapRow` one iteration of `map_shard`, shards in any interleaving; `MergeShard` one
iteration of `reduce`, in the order of the shards as `run` does after reassembly; `FinishQuery` and
`FinalizePanics` are `finalize`.

A cell is what the code's conversions make of a JSON value: its type, its place in the order of that
type, `as_f64`, `as_number`, and its text in a group key. The relations between the five are
`CellsAssumption`: what is neither a number nor a string has no numeric reading, a number's order is its
f64 value. So a string that reads as a number is numeric for `MIN` and for statistics and text for
comparison, and one with blanks around it is numeric for `SUM` only, as in the code. A predicate is its
syntax tree laid out as a sequence, children first, which lets evaluation and pruning be recursive
functions over positions.

A group carries all five aggregates of one column; the positions of a SELECT list do not influence each
other. f64 arithmetic is integer arithmetic followed by `ToFloat`, so it rounds as floats do, and the
checks use a mantissa of two bits (exact up to 4, `ExactUpTo`), integer sums of five bits (`IntMax` = 15 for
2^127 - 1) and JSON numbers from -8 to 12 (for -2^63 to 2^64 - 1): small enough for three rows to cross
each limit. Left out: infinities and NaN, the saturation of counts at 2^64, the division of `AVG`
(averages are compared as ratios).

`Results` in `Scan` is the answer after `Shaped`: the finalized groups in the order of their keys, sorted
by a stable sort on the ORDER BY keys and cut at LIMIT. Both orders are relations (`KeyOrder`, `RowOrder`), and
`Listed` gives each group the place that follows those before it. A cell of a result is null, a number or
a string; `cell_cmp` compares two of one type by value and others by type.

### Catalog

Each process makes one call of `mutate`. A step is one system call: creating the lock file with
`create_new`, looking at its age, removing it, reading the catalog, creating, writing and syncing the
temporary file, renaming it, removing the lock file in `Drop`. `BodyFails` and `LockUnavailable` are
I/O errors. Age is a flag of the lock file: it may become stale once its creator has crashed, has
finished, or is one of the `Slow` writers; `late` says that the 10 s of a caller are over. A crash may
come between any two steps; a power cut stops every process and may lose the data of files that were
not synced. Which writers may crash or be slow, whether the lock file can be removed and whether power
cuts happen are constants. The durability of the rename itself is not modelled (the directory is not
synced, so a power cut may restore the older, whole catalog).

### Agent

Three parties share the state. A *caller* (`MeshMapHost`, `LocalMapHost`, or other software for messages
that are not `Calls`) has one message each: `Ask`, then one of `Receive`, `RequestFails`, `LocalMap`. The
*network* (`Deliver`) delivers a message to the agent any number of times up to `MaxCopies`, late or never; a reply
may be lost, and one that comes after its caller gave up finds `call` no longer waiting. The *agent* is
the loop of `serve_cmd` (`pc`: refresh, store, poll, handle) and a task per delivery: `TaskChecks` copies
the revocation set under its lock and checks grant and query, `TaskFetches` is `get_object` with the map,
`TaskReplies` encodes, replies and gives the permit back. Reading the revocation list and storing it are two
steps, because the read is awaited. `Crash` forgets everything but what is on the chain or on the network.
`StrangerReplies` is a host that answers with anything of a decodable form.

A message is what the code looks at: whether it has the right topic, a reply token, a payload that decodes and fits, who sent it, the grant, the
dataset, the query's shape and the shard. What is stored under a shard is named by what becomes of it
(too large, garbled, more rows than a projection may return, a sum that is not finite, a reply over the
payload limit); `DatasetOf` is the dataset each shard was registered for, which no action looks at, as the agent
does not: a request brings a name, in the query, and a content id. Capability chains have one element, the only kind `mint` makes; signatures and the
resource check of the library are external (`Authorize`). Time is two facts: the refresh interval has
passed (`due`), a grant has expired. The bounds `MaxCopies`, `MaxDeliveries`, `MaxCrashes` and
`Revocable` are named in the module.

### Commands

Every process runs one command, step by step: `dataset add` reads the file (`ReadFile`, `RefuseFile`),
uploads shard by shard (`Upload`, `UploadFails`) and registers (`Register`); `rm` and `show` and `run`
look the dataset up; `run` discovers hosts and fetches the shards it loaded. `Fail` is an error or a kill
between any two steps and `RunAgain` the user trying again (`MaxRuns` = 1). A blob is identified by its
rows, so two shards of equal content are one blob.

### Join

`Init` chooses two row streams, the key columns, the hash (any function of the key text, where the code
has sha256) and the number of buckets; `JoinBucket` joins one bucket. A column name is the sequence of
its dotted parts.

### Sql

One behaviour tokenizes and parses one text, a token or a clause element per step, in the order of the
functions of `sql.rs`. A text is cut into pieces (a mark, a quote, a blank, or a run of other
characters): no definition looks inside a piece except `Upper` and the literal tables, which are
constants. The predicate is built in the layout of `QueryModel`, which evaluates it. An input is a text, what
it is meant to say, whether it is a whole query, and where its parts stand; the parser reads the text only.
Which text says what is the grammar in `SqlInvariant`: `Spaced` (tokens in a text) and `Spelled` (clauses in
the tokens).

## 3. Runs

| Run | Checks | Bounds and why they are enough |
|---|---|---|
| `engine` | `TypeOK`, `NeverSilentlyWrong`, `VerifiedOutvotesLiars`, `HonestQuorumIsServed`, `GivesUpOnlyWhenSpent`, `CallsFollowRanking`, `WindowKeptFull`, `DiagnosticsAddUp`, `Terminates`, `ImplementsQueryOutcome` | up to 4 shard positions (one pruned, two of equal content), 3 hosts under every ranking, attempt caps 0 to 4, windows 0 to 2, redundancy 0 to 3, quorums 0 to 3, up to 2 faulty hosts, every limit at its bound and one below. A window of 2 with 3 live shards is the smallest in which completion order and refill interact; 3 hosts are the smallest pool with a majority. 176 k states |
| `projection` | `AnswerIsFilled`, `OrderedAnswerIsTheTop`, `TruncationIsTold`, `Terminates` | 4 to 6 matching rows over 3 shards, LIMIT absent, 0, below, at and above what there is, ORDER BY or not, memory cap absent, below and exactly at what the first shards yield, windows 1 and 2; failover and a deadline on 2 hosts |
| `scan` | `PrunedHoldNothing`, `CountsAreExact`, `ExtremesAreExact`, `SumsAreExact`, `ResultsAreTheTop` | every table of up to 2 rows over chosen rows, and of 3 rows over fewer of them, in 1 to 3 shards: numbers with and without fraction, numeric and padded text, words, explicit null, the word "null", absent cells; all six comparisons with 4 literals, and conjunction, disjunction and negation; ORDER BY every output, the group column, a column there is none of and two keys, in both directions, under LIMIT none, 0, 1, 2. Three rows are the smallest table with two rows in one shard and one in another, and the smallest shard whose column stops being numeric and goes on with a number (every table of 3 rows over two numbers and a word, in one shard, under every comparison with a number between the two). 223 k states |
| `scan_text_pruning` | violated: see section 6 | up to 2 rows |
| `agent` | `TypeOK`, `PermitsAccounted`, `LearnedRevocationsBind`, `DataOnlyOnGrant`, `RevocationsArrive`, `RequestsAreReplied`, `ImplementsHostCall` | 15 workloads, each one call of our own and one message of other software, both of which the agent may serve. The call meets the agent, a stranger or the caller's own blob store; every kind of stored object is asked of the agent in one workload (the missing one by other software) and mapped locally in another. The message has each of the six shapes of `Shape`, and as a request each relation of sender, grant and name: no grant, a garbled one, one of an issuer that is not accepted, a bearer grant presented by its owner and by another node, another node's grant, no sender, an invalid query, a dataset whose name extends the granted one. One permit, so that the loop waits for it; two deliveries, so that a request can be there twice; one crash; one revocable key. 192 k states |
| `agent_scope` | violated: see section 6 | one call, with a grant for the name it uses |
| `commands` | `RegisteredIsOneFile`, `ReadersFindTheirBlobs`, `AnswersAreOneVersion` | two adds under one name, a removal and a query, each failing anywhere and run once more; files with repeated rows in up to 3 shards, refused adds, names with blanks. Two versions and one remover are what a reader can be confused by |
| `join` | `EveryPairOnce`, `OneBucketKeepsTheOrder`, `NoValueIsLost` | up to 2 rows on each side over every kind of key cell, on both sides rows that come from an earlier join and have a column `right.v`, the same and different key columns, 0 to 3 buckets, every hash of two key texts up to renaming. 193 k states |
| `sql` | `ParsesAsWritten`, `ReadsLeftToRight`, `EveryTokenCounts` | some 100 queries of the documented grammar with up to three terms, all operators and kinds of literal, GROUP BY and ORDER BY of up to two columns, each tight or spaced and in capitals or not (TLC evaluates that each is `WrittenOut` by the grammar), and each with every single token left out or doubled. 228 k states |
| `catalog_prompt` | `MutualExclusion`, `ImplementsAtomicCatalog` | 3 processes: two register different datasets, the third removes the first one's; nobody crashes or is slow |
| `catalog_crash` | `TypeOK`, `NeverTorn`, `EveryCallReturns` | 2 processes that may crash anywhere, one of them slow, power cuts, under fairness |
| `catalog_stale_race` | violated: see section 6 | 3 processes, of which the first crashes holding the lock |

Deadlock checking is off in every configuration because a run, a set of commands or calls, or a parse ends.

**Fairness.** `Engine` and `Projection` assume weak fairness of the coordinator (a woken future is
polled) and of host answers (a call ends: `MeshMapHost` sends a request timeout with every call).
Nothing is assumed about the clock. `Catalog` assumes that every process that has started is scheduled,
that its 10 s pass, and that an abandoned lock gets old; I/O errors and crashes are never forced.
`Agent` assumes that the runtime goes on with the loop and with every task, that a request ends (it has a
timeout) and a fetch too, that the refresh interval passes, and, as strong fairness of `RefreshRead`,
that reading the revocation list does not fail for ever; without the last no revocation need ever arrive. That a fetch ends is an assumption on the node, not
something this code sees to: `get_object` is given no timeout (`mesh.rs:220`), and as many fetches that
hang as there are permits would stop the loop for good. `RequestsAreReplied` and `RevocationsArrive` hold under it.
The network, other hosts, crashes, revocations and expiry owe nothing. `Scan`, `Commands`, `Join` and
`Sql` claim no liveness.

## 4. Proofs

`EngineProofs` (every dataset, host set, ranking and configuration; every mix of failures):

* `EngineInvariantHolds`: the inductive invariant. `IInv` has four parts: types; for every shard's walk
  that the completed calls went down the ranking one position at a time (`WalkInStep`), that every copy
  came from a distinct host called so far and that honest copies are true (`CopiesAreCalls`), and that a
  verdict is what copies and calls justify (`VerdictJustified`); that every live shard is in exactly one
  of `pending`, `inflight`, `collected` and the window is as full as it can be (`ShardsAccountedFor`);
  and that a report covers all live shards (`ReportCovers`). None of the properties is inductive alone:
  that no host is asked twice, for instance, depends on how `attempt` and `attempts` move together.
* From it: `TypeCorrect`, `WalksFollowTheirRanking`, `NoEarlySurrender`, `WindowDiscipline`,
  `AnswersAreComplete`, and the two about verification, `LiarsAreOutvoted` and `NoFalseAlarm`, which
  count copies: distinct copies come from distinct hosts, so fewer faulty hosts than copies (or than the
  quorum) leave an honest copy in every large enough group.
* `EngineImplementsQueryOutcome`: every step maps to a step of `QueryOutcome` or a stutter. The promise is
  one acceptable partial for each shard: the true one when no candidate is faulty, any otherwise.

* `DiagnosticsAreTrue`: from `ReportCounts`, which ties the two numbers of a report to the walks; the sum of
  the attempts is counted as pairs of a shard and a position, and hosts of a ranking are distinct.

The assumptions are those named in `Engine`: finite shard and host sets, well-formed jobs, and sound
pruning.

`CatalogProofs` (any number of writers, any changes):

* `CatalogNeverTorn`, `CatalogTypeCorrect`: unconditional. The invariant is that a live writer about to
  rename holds a written and synced temporary file.
* `LockExcludes`, `MutateIsAtomic`: under the assumption that nobody crashes, holds the lock for 60 s
  or loses power. The invariant says that the lock file names the one process inside and that what it
  will install is its change applied to the file as it still is. The assumption cannot be dropped:
  `catalog_stale_race` is what happens without it.

`QueryProofs`, on `Scan` (any table, number of shards, predicate tree, GROUP BY and column, any widths):

* `CanMatchIsSound`: by induction over the predicate tree. If the predicate holds for a row that the
  statistics cover then `can_match` says maybe. The assumption is that no literal is a string that reads
  as a number (`PlainLiterals`): without it the statement is false, see `scan_text_pruning`.
* `ScanInvariantHolds`: the inductive invariant. `StatsCover` says that a shard's statistics cover every
  row seen so far, a column being disqualified or ranged; `PruningDecided` ties the skipped shards to
  those statistics; `PartialsSummarize` says that the partial of a shard, and the running merge, have
  exactly the groups, counts, minima and maxima of the rows that went into them, and the sums (`SumsUp`) as
  far as rounding allows. The last is what makes
  the split into shards irrelevant: `FoldSummarizes` and `MergeSummarizes` are the monoid laws of the
  reduce, stated against sets of rows. None of the properties is inductive without it.
* `SumsUp` says of each lane what it is worth. In the integer lane the total is exact. A float sum is exact, with
  nothing compensated, while the magnitudes of what it added come to an exact float (`KahanIsExact`: among
  small integers `KahanSum` rounds nothing); without a fraction it is there only because the integers overflowed.
  Magnitudes are carried along because a sum may come back to a small value after it was rounded on the way.
* From it, for queries with plain literals (`PlainJobs`): `PruningIsSound`, `DistributedCountsAreExact`,
  `DistributedExtremesAreExact`, `DistributedSumsAreExact`. The invariant itself needs no such assumption.
* `DistributedResultsAreTheTop`: ORDER BY and LIMIT, against the cells of the whole table (`ColumnsAreTrue`). Cells
  are in a weak order, averages by cross multiplication (`CellsAreOrdered`); keys compared one after the
  other keep it (`KeysAreOrdered`); a stable sort by a weak order puts the places in one line
  (`StableSortsInLine`), and what is in one line is listed in it, each element once (`ListedInOrder`). The
  keys of the groups are in one line because labels have ranks of their own (`LabelAssumption`). Hypotheses
  besides `PlainJobs`: rounding gives numbers (`FloatsAreNumbers`; the model has no infinities), and no table
  has more rows than an exact float counts (`TablesAreSmall`), since counts are compared as f64. That
  accumulators hold numbers then is an invariant of its own (`AccumulatorsHoldNumbers`).

The assumptions are those named in `QueryModel`, `Accumulators` and `Scan`: how the readings of a cell hang together,
that `as_f64` has rounded what it reads (`RoundedAssumption`), and that floats are exact up to `ExactUpTo`.

`QueryProofs`, on `Sql` (texts of any length):

* `ParserInvariantHolds`: for a text that the grammar describes, `Progress` says how far the parser is. While it
  tokenizes, the tokens found are the first ones of the grammar and the next piece lies between the end of the
  last and the beginning of the next (`AtLex`); that a word ends where the grammar ends it rests on `NextIn`
  finding the one place that fits (`NextInIs`). Then there is one place for each stage: which token is next,
  which items of a list were read, and that the predicate means what the terms read so far mean
  (`MeansFirst`). The stages are left at the right token because a clause is followed by a later one or by
  nothing (`ClausesFollow`) and a token is one keyword at most (`OneKeyword`), so no optional clause is begun
  by mistake.
* From it: `WholeTextsAreParsed` (accepted, and every clause as written) and `WhereReadsLeftToRight`. For the
  latter: a term joined to a tree leaves the values of the tree's nodes alone (`TreeValuesAgree`), so
  the new root holds the old reading and the term's (`JoinedHolds`).
* `AcceptedQueriesAreValid`: for any text at all, with invariants of its own: no word the tokenizer emits is
  blank (`WordsInv`), and what each stage has built so far (`BuildsInv`). It is why `ParseEnd` may stand for
  `validate`, and why evaluation and pruning are defined on a parsed predicate (`IsTree`).

The assumptions are `InputsAssumption`, that a text is a sequence of characters and keywords and one called whole
is one of the grammar, and `UpperCaseAssumption`, that `to_ascii_uppercase` changes no mark. `EveryTokenCounts`
has no theorem because it is not true of every text: without `ASC`, or with another argument of `COUNT`, a query means the same.

`AgentProofs` (any messages, workloads, grants and stored objects, any number of permits, any bounds):

* `AgentInvariantHolds`: the inductive invariant. `QueuesOK` says that a delivery is in one place, once:
  on its way, in the batch, or with its task; without it an accepted request could take a second permit
  under the same name. `KnowledgeOK` orders what the agent knows between what each running task was
  accepted under and what is on the chain, also while a list that was read is not stored yet. `TasksOK`
  says that a task past its check was permitted, by a grant not revoked as of its acceptance, and holds
  the result of its own request; `RepliesOK` carries this over the network, the grant for every reply of the
  agent that is more than an error, and `AnswersOK` to the caller.
* From it: `AgentTypeCorrect`, `NoPermitLost` (by counting running tasks), `RevocationsBind`,
  `DataNeedsGrant`, and `KnowledgeIsKept`, that only a restart makes the agent forget a revocation.
  `DataNeedsGrant` is about the replies of the agent to whoever asks, our own coordinator or other software: a grant
  of that very message, from an accepted root to its sender, for all datasets or the one the *query names*.
  That the shard belongs to that dataset is not proved, and not true: see `agent_scope` in section 6.
* `AgentImplementsHostCall`: every step is a step of `HostCall` or a stutter.

The assumption is `AgentAssumption`: finitely many messages, each well formed (optional values have at
most one element), and at least two stored objects, for a stranger to confuse.

`ProjectionProofs` (any dataset, ranking, LIMIT, cap and order of arrival):

* `ProjectionInvariantHolds`: the inductive invariant. `CollectingOK` says that every live shard is
  somewhere and the window runs dry only when none is left, unless the LIMIT ended the loop, and that the
  rows held are those of the collected shards until a cap cuts some; a cap that cut is met, which is why
  the flag may be taken for "dropped".
* `ProjectionsAreHonest`: an answer has read every shard or is as long as its LIMIT, holds matching rows
  only, and lacks one only after an early stop or when `truncated` says so. It uses that pruned shards
  have no matching row (`PruningAssumption`).
* `OrderedProjectionsAreTheTop`: the answer is in order and no missing row goes before one that is there,
  unless the memory cap cut the rows. The sort is given by the place of each row, so this rests on
  `PlacesArePermuted`: the places are a permutation, by counting the rows that go no later than a row.
* `AnswersAreFilled`, `TruncationsAreTold`, `OrderedAnswersAreTheTop`: the same with repetitions counted. They
  rest on `CountInv`: while nothing was cut, each row is held as often as the collected shards have it, and
  cutting makes the rows exactly as many as the cap. Occurrences are cardinalities of sets of positions, so
  appending, cutting and sorting become unions, parts and bijections of such sets.

`CommandsProofs` (any processes, commands and files, any number of failures and retries):

* `ShardListsNameStoredBlobs`, `BlobsOutliveTheirReaders`: the shard lists of the processes and of the
  catalog name stored blobs only. Each half needs the other: a process registers what it uploaded and
  loads what was registered.
* `CommandsKeepTrack`: the inductive invariant. `CatalogIsAdded` says that every registered list is the whole
  split of a file that some `add` read under that name; `UploadsInOrder` that an add has uploaded the first
  shards of its split, and `FetchesInOrder` that a query has fetched the first shards of the list it loaded,
  and holds exactly their rows.
* From it: `DatasetsAreWholeFiles` and `AnswersReadOneFile`. That the shards of a split hold every row exactly
  as often as the file is a pairing of positions: row i of the file is row i div n of shard i mod n, and
  the empty shards that are not uploaded have none.

The assumptions are `CommandsAssumption`: `Names` covers the names of the commands, files are sequences of
rows and shard counts are natural numbers.

`JoinProofs` (any finite streams, key columns, hash function and number of buckets):

* `JoinsBucketByBucket`: the inductive invariant. `JoinedOnce` says that the result holds one row for each
  matching pair of the buckets joined so far, as often as pairs merge to it, and nothing else;
  `FirstInOrder` that the first bucket's rows are in nested-loop order. It rests on `BucketLists`: joining
  a bucket *lists* its pairs, that is, the place of a pair's row is the number of pairs before it. The
  proof follows the code: the index has a key's positions in order (`ProbedInOrder`), the probes are put
  together (`FlattenLists`), and positions in a bucket are positions in the stream, in the same order
  (`Renamed`). A matching pair has both rows in one bucket because both are hashed by the same text.
* From it: `PairsAreJoinedOnce` and `OneBucketIsInOrder`.
* `ValuesAreKept`: a merged row keeps every cell whose column is not itself called `right.<col>` for a column of
  the right row. The fold of `merge_rows` is followed column by column (`MergingGoesOn`): what has been merged stays
  where it is, because a later column gets a name of its own or a prefixed one. That the fold has a result at
  all (`MergingExists`) is shown by a least set of columns without one.

The assumptions are `JoinAssumption` (finite streams, every key text has a hash and is not the mark for "no
key") and `ColumnAssumption` (column names are sequences of strings, kept in one order by every row).

The library's induction theorems cannot be used (they take an operator as a parameter), so the induction
over trees is by least counterexample: `LeastNat` derives the least element of a non-empty set of
naturals from the well-foundedness of the subset order on finite sets.

Folds and recursive functions (a sum over a set, `FlattenSeq`, the merge of two rows) are handled the same way: a
closed form that satisfies the recursive equation, and a least set on which the two would differ. The sum of
natural numbers is an area, the cardinality of a set of cells (`SumIsArea`); that of integers is the difference of
two areas (`SignedSumIsArea`), so sums over disjoint sets of rows add up (`SumsAdd`).

Only model-checked: `EveryTokenCounts`; liveness
(`Terminates`, `EveryCallReturns`, `RevocationsArrive`, `RequestsAreReplied`) and the fairness part of
the refinements, which are out of the prover's reach.

## 5. Not modelled

* The text of a shard (NDJSON encoding and decoding): a blob is its rows, a garbled one is a kind of its own.
* The column pruning of `project_shard`: a projected row is one value.
* The division of `AVG`, the JSON form of a partial beyond what does not decode, infinities and NaN.
* `rendezvous_score`: the ranking is arbitrary, so what a change of membership moves is not asked.
* Schema migration of the catalog: one version exists.
* The argument parser, printing, `ls` and `plan`, which read and print.
* Signatures and delegated capability chains, which belong to `ce-iam-core`.
* A duplicated host call within one walk: `HostCall` ends at most once, as `Agent` shows.

What could be added: `Engine` instantiated with the partials of `Scan`.

## 6. Where the code and its documentation disagree

Three runs are expected to find a violation:

* `PrunedHoldNothing` on a column of numeric strings: statistics read the strings as numbers, the
  predicate compares them as text. With the strings 5 and 7, `col > '10'` holds for both rows and the
  shard is skipped. `PruningIsSound` shows that nothing else goes wrong in the model (which has no NaN).
* `NoLostUpdate` (`catalog_stale_race`): the check of a lock's age and its removal are two steps, so two
  processes that reclaim a crashed writer's lock can both enter.
* `GrantCoversShard` (`agent_scope`): a grant is scoped to a dataset by name. The agent compares the scope
  with the name in the query (`main.rs:509`) and then fetches the shard by its content id (`mesh.rs:220`); no step
  asks which dataset the shard belongs to, and names are local to each user's catalog. So what a scope covers is the
  name a request uses, while `caps.rs` (lines 4-5 and 14-16) speaks of the dataset. What does hold is `DataOnlyOnGrant`.

Met while modelling and visible in the models, with no run of their own:

*Engine.* The project README says (line 90) that `K=2` detects any single lying host, but redundancy is
best effort: when the other hosts fail, a single copy is accepted unverified (`engine.rs:547`, `Accepts`).
The same best effort makes `select_quorum` accept the agreement of fewer copies than `redundancy`, although its
comment asks for all of them. What does hold is `VerifiedOutvotesLiars`. A run may answer after its
deadline, which is only looked at between attempts (`HitDeadline`), and a call that never returns is
waited for (`MeshMapHost` bounds its calls, the `MapHost` trait does not); `served_by` names the first
responder, even one that was outvoted (`ServedBy`); a `LIMIT` met exactly leaves `truncated` false although
shards were not fetched (`TruncationIsTold` states what does hold); a `LIMIT` without `ORDER BY` replaces
the memory cap (`CollectCap`), although the comment at `engine.rs:359` has it always enforced: no property here
keeps the rows below the cap in that case.

*Catalog.* A live holder that needs more than 60 s looks like a crashed one and is overtaken; both processes save
and one update is lost (`catalog.rs:170`, constant `Slow`), although lines 103-104 promise that they cannot. The lock and
atomicity are claimed for `Slow = {}`; for slow holders what holds is `NeverTorn`. When a stale lock file cannot be removed, `acquire` loops without sleep or timeout
(`catalog.rs:172-173`, constant `LockSticks`), although its doc (line 145) promises a timeout.

*Sums.* `combine.rs` (lines 22-29) promises the same answer however the shards are split. An integer beyond 2^53 is
exact in the integer lane and rounded when a fraction is added, and which of them meet first depends on the
shards (`AddInt`, `AddFloat`, `MergeSum`): the rows -2^53, 0.5, 2^53 + 1 sum up to 0.5 in one shard and to 1.5 in two.
Fractions alone differ too, because the compensation is rounded as well: 1e32, -1e16, -1e32, 0.1, 1e16 come to 0 in
one shard and to 0.1 in two. `SumsAreExact` says when the split does not matter: while integers fit an i128,
or all magnitudes stay within exact floats. The comment on finalization (line 171) says that an all-integer sum becomes a JSON
integer; `json!` panics on one beyond 64 bits (`combine.rs:172`, `FinalizePanics`). A sum that is not finite is written as null, which does not decode
at the caller (`Encode`).

*Agent.* When the refresh at startup fails, the agent serves with an empty revocation set until the
next interval (`RefreshFails` after `Crash`): `LearnedRevocationsBind` speaks of what was learned. A request
without token, or one that does not parse, is dropped without a reply (`Drop`), so its caller waits for the timeout: `ImplementsHostCall` allows that end.
That a late answer is not taken for another call's rests on the tokens of the node, which `Receive` is modelled with.

*Join.* When one side comes from an earlier join, `right.<col>` may be a column of it already, and `merge_rows`
overwrites it (`join.rs:73`), although its comment (lines 66-68) says that no value is lost: left {k, v, right.v} and right
{k, v} keep one of the two `right.v`. `NoValueIsLost` says that nothing else can be lost.

*SQL.* `a!=5` without blanks lexes as the word `a!` (`LexWord`), although the doc lists `!=` as an
operator; bare `nan` and `inf` become null (`LiteralFromWord`); any word is accepted as a literal
(`Literal`), `*` as a column of a list, any argument of `COUNT` (`ParseAgg`); the module's doc says that raw columns are not
supported, and they are.
