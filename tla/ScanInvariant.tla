--------------------------- MODULE ScanInvariant ---------------------------
(* The inductive invariant of Scan.                                        *)
EXTENDS Scan

\* No literal of the predicate is a string that reads as a number.
PlainLiterals(p) ==
  \A i \in DOMAIN p : p[i].shape = "cmp" /\ p[i].value.kind = "text" => p[i].value.float = None

\* Statistics hold for a row: each column it has is disqualified or bounds its cell.
Covers(st, row) ==
  \A c \in DOMAIN row :
    \/ c \in st.disqualified
    \/ /\ c \in DOMAIN st.numeric /\ row[c].float # None
       /\ st.numeric[c].min <= row[c].float /\ row[c].float <= st.numeric[c].max

\* The rows among I that count for a group of job j.
RowsOfGroup(j, I, key) ==
  {i \in I : Holds(j.pred, j.table[i]) /\ GroupKey(j.table[i], j.groupBy) = key}
GroupsAmong(j, I) ==
  {GroupKey(j.table[i], j.groupBy) : i \in {n \in I : Holds(j.pred, j.table[n])}}
FloatsOfGroup(j, I, key) ==
  {Cell(j.table[i], j.field).float : i \in RowsOfGroup(j, I, key)} \ {None}

IsLeast(m, V) == IF V = {} THEN m = None ELSE m \in V /\ \A v \in V : m <= v
IsGreatest(m, V) == IF V = {} THEN m = None ELSE m \in V /\ \A v \in V : v <= m

\* sum is the accumulator of addends that come to value and, taken as magnitudes, to size.
\* In the integer lane it is exact; a float sum is, while the magnitudes stay small, and
\* without a fraction it is there only because the integers overflowed.
IsSum(sum, integersOnly, value, size) ==
  /\ value \in -size .. size
  /\ \/ sum.lane = "int" /\ integersOnly /\ sum.total = value
     \/ /\ sum.lane = "float"
        /\ integersOnly => size > IntMax
        /\ size <= ExactUpTo => sum.total = [sum |-> value, comp |-> 0]

IsFloatSum(total, value, size) ==
  /\ value \in -size .. size
  /\ size <= ExactUpTo => total = [sum |-> value, comp |-> 0]

\* acc sums the rows R as SUM and AVG do, and counts the cells that AVG divides by.
SumsUp(j, acc, R) ==
  /\ IsSum(acc.sum, IntegersOnly(j, R), Total(Addends(j), R), Total(Sizes(Addends(j)), R))
  /\ acc.avgCount = Cardinality(InFloats(j, R))
  /\ IsFloatSum(acc.avgSum, Total(FloatAddends(j), R), Total(Sizes(FloatAddends(j)), R))

SummarizesGroup(j, acc, I, key) ==
  /\ acc.count = Cardinality(RowsOfGroup(j, I, key))
  /\ IsLeast(acc.min, FloatsOfGroup(j, I, key))
  /\ IsGreatest(acc.max, FloatsOfGroup(j, I, key))
  /\ SumsUp(j, acc, RowsOfGroup(j, I, key))

\* p is what map_shard makes of the rows I, whatever their order and grouping.
Summarizes(j, p, I) ==
  /\ DOMAIN p = GroupsAmong(j, I)
  /\ \A k \in DOMAIN p : SummarizesGroup(j, p[k], I, k)

ShardRows(j, I, s) == {i \in I : ((i - 1) % j.parts) + 1 = s}

Shape ==
  /\ job \in Jobs
  /\ observed \subseteq Indices /\ folded \subseteq Indices
  /\ DOMAIN stats = Shards /\ DOMAIN partial = Shards
  /\ pruned \subseteq Shards
  /\ taken \subseteq Live

\* Statistics keep a column as numeric or as disqualified, and hold for every row seen.
StatsCover ==
  \A s \in Shards :
    /\ IsStats(stats[s])
    /\ \A i \in ShardRows(job, observed, s) : Covers(stats[s], job.table[i])

PruningDecided ==
  /\ phase = "register" => pruned = {} /\ taken = {}
  /\ phase # "register" =>
       /\ observed = Indices
       /\ pruned = {s \in Shards : ~CanMatch(job.pred, stats[s].numeric)}

PartialsSummarize ==
  /\ \A s \in Shards : Summarizes(job, partial[s], ShardRows(job, folded, s))
  /\ taken # {} => Mapped
  /\ Summarizes(job, merged, {i \in Indices : ShardOf(i) \in taken})

Answered ==
  phase = "done" =>
    /\ Mapped /\ taken = Live
    /\ answer = [k \in DOMAIN merged |-> Finalize(merged[k])]

IInv == Shape /\ StatsCover /\ PruningDecided /\ PartialsSummarize /\ Answered
=============================================================================
