-------------------------------- MODULE Scan --------------------------------
(***************************************************************************)
(* The life of an aggregate query's data: a table is registered in shards  *)
(* with statistics (register_dataset, shard_rows, compute_stats), shards   *)
(* are pruned (run), hosts fold their rows (map_shard) concurrently, and   *)
(* the partials are merged, finalized, ordered and limited (reduce,        *)
(* finalize, shape).  Calls, hosts and failures are in Engine; here every  *)
(* shard that is not pruned is mapped once.                                *)
(***************************************************************************)
EXTENDS Shaping, FiniteSetsExt

CONSTANTS Jobs,      \* the tables and queries considered (see JobOK)
          ExactUpTo  \* integers up to this magnitude are floats

(* The rows registered, the number of shards asked for, the WHERE          *)
(* predicate, the GROUP BY columns as a set and in their order, the        *)
(* aggregated column, ORDER BY and LIMIT.                                  *)
JobOK(j) ==
  /\ j.table \in Seq(Rows)
  /\ j.parts \in Nat \ {0}
  /\ IsPredicate(j.pred)
  /\ j.groupBy \in SUBSET Columns
  /\ j.field \in Columns
  /\ j.groupList \in Seq(Columns) /\ Range(j.groupList) = j.groupBy
  /\ j.orderBy \in Seq(OrderKeys)
  /\ j.limit \in Nat \cup {NoLimit}

ASSUME JobsAssumption == \A j \in Jobs : JobOK(j)
\* The labels of a column of job j that it groups by: strings are ranked one by one.
LabelsOf(j, column) == {Label(j.table[i], column) : i \in DOMAIN j.table}

ASSUME LabelAssumption ==
  \A j \in Jobs : \A column \in j.groupBy : \A a, b \in LabelsOf(j, column) :
    LabelRank(a) \in Int /\ (LabelRank(a) = LabelRank(b) => a = b)
ASSUME FloatAssumption == ExactUpTo \in Nat /\ \A n \in -ExactUpTo .. ExactUpTo : ToFloat(n) = n

VARIABLES
  job,       \* the inputs; never changed
  phase,     \* "register", "map", "done" or "panicked"
  observed,  \* rows whose cells are in the statistics
  stats,     \* what compute_stats knows of each shard
  pruned,    \* shards the planner skips
  folded,    \* rows that the shards' hosts have mapped
  partial,   \* the partial of each shard
  taken,     \* shards whose partials are merged
  merged,    \* the running merge
  answer     \* the finalized groups, not yet ordered

vars == <<job, phase, observed, stats, pruned, folded, partial, taken, merged, answer>>

Indices == DOMAIN job.table
ShardOf(i) == ((i - 1) % job.parts) + 1
\* Shards without rows are not uploaded.
Shards == {ShardOf(i) : i \in Indices}
Live == Shards \ pruned
Qualifies(i) == Holds(job.pred, job.table[i])

Init ==
  /\ job \in Jobs
  /\ phase = "register"
  /\ observed = {} /\ stats = [s \in Shards |-> NoStats]
  /\ pruned = {}
  /\ folded = {} /\ partial = [s \in Shards |-> EmptyPartial]
  /\ taken = {} /\ merged = EmptyPartial
  /\ answer = <<>>

\* Registration goes shard by shard, each in the order of its rows.
ObserveRow(i) ==
  /\ phase = "register" /\ i \in Indices \ observed
  /\ \A j \in Indices \ observed :
       ShardOf(i) < ShardOf(j) \/ (ShardOf(i) = ShardOf(j) /\ i <= j)
  /\ observed' = observed \cup {i}
  /\ stats' = [stats EXCEPT ![ShardOf(i)] = Observe(@, job.table[i])]
  /\ UNCHANGED <<job, phase, pruned, folded, partial, taken, merged, answer>>

PlanQuery ==
  /\ phase = "register" /\ observed = Indices
  /\ phase' = "map"
  /\ pruned' = {s \in Shards : ~CanMatch(job.pred, stats[s].numeric)}
  /\ UNCHANGED <<job, observed, stats, folded, partial, taken, merged, answer>>

\* A host takes the next row of its shard.
MapRow(i) ==
  /\ phase = "map" /\ i \in Indices \ folded /\ ShardOf(i) \in Live
  /\ \A j \in Indices \ folded : ShardOf(j) = ShardOf(i) => i <= j
  /\ folded' = folded \cup {i}
  /\ partial' = IF Qualifies(i)
                THEN [partial EXCEPT ![ShardOf(i)] =
                        FoldRow(@, job.table[i], job.groupBy, job.field)]
                ELSE partial
  /\ UNCHANGED <<job, phase, observed, stats, pruned, taken, merged, answer>>

\* run reduces when every outcome is in, in the order of the shards.
Mapped == \A i \in Indices : ShardOf(i) \in Live => i \in folded

MergeShard(s) ==
  /\ phase = "map" /\ Mapped /\ s \in Live \ taken
  /\ \A t \in Live \ taken : s <= t
  /\ taken' = taken \cup {s}
  /\ merged' = MergePartial(merged, partial[s])
  /\ UNCHANGED <<job, phase, observed, stats, pruned, folded, partial, answer>>

Reduced == phase = "map" /\ Mapped /\ taken = Live
Presentable == \A k \in DOMAIN merged : Finalizable(merged[k])

FinishQuery ==
  /\ Reduced /\ Presentable
  /\ phase' = "done"
  /\ answer' = [k \in DOMAIN merged |-> Finalize(merged[k])]
  /\ UNCHANGED <<job, observed, stats, pruned, folded, partial, taken, merged>>

FinalizePanics ==
  /\ Reduced /\ ~Presentable
  /\ phase' = "panicked"
  /\ UNCHANGED <<job, observed, stats, pruned, folded, partial, taken, merged, answer>>

\* The rows of the report: the keys of the groups returned, in their order.
Results == Shaped(answer, job)

Next ==
  \/ \E i \in Indices : ObserveRow(i) \/ MapRow(i)
  \/ PlanQuery
  \/ \E s \in Shards : MergeShard(s)
  \/ FinishQuery
  \/ FinalizePanics

Spec == Init /\ [][Next]_vars

-----------------------------------------------------------------------------
IsStats(st) ==
  /\ st.disqualified \subseteq Columns
  /\ DOMAIN st.numeric \subseteq Columns \ st.disqualified
  /\ \A c \in DOMAIN st.numeric : st.numeric[c] \in [min : Int, max : Int]

\* Partition pruning (plan.rs) is only an optimisation: a shard that is skipped
\* on its statistics holds no row that the predicate holds for.
PrunedHoldNothing ==
  \A i \in Indices : ShardOf(i) \in pruned => ~Qualifies(i)

Members(key) ==
  {i \in Indices : Qualifies(i) /\ GroupKey(job.table[i], job.groupBy) = key}

\* Splitting, pruning, mapping and merging neither lose, repeat nor misplace a row:
\* the answer has the groups of a scan of the whole table, with its counts.
CountsAreExact ==
  phase = "done" =>
    /\ DOMAIN answer = {GroupKey(job.table[i], job.groupBy) : i \in {j \in Indices : Qualifies(j)}}
    /\ \A k \in DOMAIN answer : answer[k].count = Cardinality(Members(k))

Floats(key) == {Cell(job.table[i], job.field).float : i \in Members(key)} \ {None}

\* MIN and MAX are those of the whole table's numeric cells, null when it has none,
\* whichever shards have cells of the group.
ExtremesAreExact ==
  phase = "done" => \A k \in DOMAIN answer :
    IF Floats(k) = {} THEN answer[k].min = None /\ answer[k].max = None
    ELSE /\ answer[k].min \in Floats(k) /\ answer[k].max \in Floats(k)
         /\ \A v \in Floats(k) : answer[k].min <= v /\ v <= answer[k].max

\* What each row adds to the sum and to the average: nothing when its cell is no number.
Addends(j) ==
  [i \in DOMAIN j.table |->
     LET num == Cell(j.table[i], j.field).num IN IF num = None THEN 0 ELSE num.val]
FloatAddends(j) ==
  [i \in DOMAIN j.table |->
     LET float == Cell(j.table[i], j.field).float IN IF float = None THEN 0 ELSE float]
Sizes(f) == [i \in DOMAIN f |-> Abs(f[i])]
Total(f, R) == SumFunctionOnSet(f, R)

IntegersOnly(j, R) ==
  \A i \in R : LET num == Cell(j.table[i], j.field).num IN num # None => num.lane = "int"
InFloats(j, R) == {i \in R : Cell(j.table[i], j.field).float # None}

\* SUM is exact, however the rows are split and in whichever lane it ends, as long as
\* the magnitudes stay within an i128 for integers and within exact floats otherwise;
\* so is the sum that AVG divides, and AVG counts the cells it adds.
SumsAreExact ==
  phase = "done" => \A k \in DOMAIN answer :
    LET R == Members(k)
        size == Total(Sizes(Addends(job)), R)
    IN  /\ \/ size > ExactUpTo /\ ~IntegersOnly(job, R)
           \/ size > Larger(IntMax, ExactUpTo)
           \/ answer[k].sum = Total(Addends(job), R)
        /\ IF InFloats(job, R) = {} THEN answer[k].avg = None
           ELSE /\ answer[k].avg.count = Cardinality(InFloats(job, R))
                /\ Total(Sizes(FloatAddends(job)), R) <= ExactUpTo =>
                     answer[k].avg.total = Total(FloatAddends(job), R)

\* Cells of one output column as the table gives them: counted, or compared, in the
\* rows of the group.  Sums and averages are taken as finalized (see SumsAreExact).
TrueCell(key, column) ==
  IF column \in DOMAIN key THEN TextCell(key[column])
  ELSE CASE column = "count" -> NumberCell(Cardinality(Members(key)), 1)
         [] column = "min" /\ Floats(key) # {} -> NumberCell(Min(Floats(key)), 1)
         [] column = "max" /\ Floats(key) # {} -> NumberCell(Max(Floats(key)), 1)
         [] column \in {"sum", "avg"} -> OutputCell(answer[key], column)
         [] OTHER -> NullCell

Below(a, b, column) == CellLess(TrueCell(a, column), TrueCell(b, column))

Tied(a, b, keys) ==
  \A n \in keys : LET column == job.orderBy[n].column
                 IN  ~Below(a, b, column) /\ ~Below(b, a, column)

\* May group a be listed before group b?  Up to the first ORDER BY key they differ in,
\* or in the order of their keys when they differ in none.
MayPrecede(a, b) ==
  \/ Tied(a, b, DOMAIN job.orderBy) /\ ~KeyLess(job.groupList, b, a)
  \/ \E n \in DOMAIN job.orderBy :
       LET key == job.orderBy[n]
       IN  /\ Tied(a, b, 1 .. (n - 1))
           /\ IF key.dir = "asc" THEN Below(a, b, key.column) ELSE Below(b, a, key.column)

\* ORDER BY with LIMIT returns the top of the whole table: of all its groups as many as
\* LIMIT allows, in the order asked for, ties in the order of their keys, and none left
\* out that should come before one returned, however the table was split.
ResultsAreTheTop ==
  phase = "done" =>
    LET groups == DOMAIN answer
        listed == Range(Results)
    IN  /\ Len(Results) = Cardinality(listed) /\ listed \subseteq groups
        /\ \/ listed = groups
           \/ job.limit # NoLimit /\ Len(Results) = job.limit
        /\ \A m, n \in DOMAIN Results : m < n => MayPrecede(Results[m], Results[n])
        /\ \A k \in groups \ listed, n \in DOMAIN Results : MayPrecede(Results[n], k)
=============================================================================
