----------------------------- MODULE QueryProofs -----------------------------
(***************************************************************************)
(* Theorems about what a query is and what it returns, in two parts that   *)
(* share the predicate.                                                    *)
(*                                                                         *)
(* Scan: pruning is sound for predicates of any shape, and the sharded,    *)
(* pruned and merged scan has the groups, counts, extremes and sums of a   *)
(* scan of the whole table, for every table, split and query.  What ORDER  *)
(* BY and LIMIT return of it is the top of the whole table's.              *)
(*                                                                         *)
(* Sql: every text of the documented grammar, of any length, is accepted   *)
(* and means what it says; whatever else is accepted is a valid query.     *)
(*                                                                         *)
(* A predicate is a tree of any size, so facts about it need induction.    *)
(* They rest on LeastNat: a set of naturals that is not empty has a least  *)
(* element.                                                                *)
(***************************************************************************)
EXTENDS ScanInvariant, SqlInvariant, Counting

-----------------------------------------------------------------------------
(* The recursion of Predicate::eval and can_match is well defined: a node  *)
(* looks at earlier nodes only.                                            *)

LEMMA TreeValueEquation ==
  ASSUME NEW p, IsTree(p), NEW leaves, NEW negates
  PROVE  \E value : /\ value = [i \in DOMAIN p |-> NodeValue(p[i], leaves[i], negates, value)]
                    /\ TreeValue(p, leaves, negates) = value[Len(p)]
<1> DEFINE N == Len(p)
           Step(v, i) == NodeValue(p[i], leaves[i], negates, v)
           Solved(v, m) == v = [i \in 1 .. m |-> v[i]] /\ \A i \in 1 .. m : v[i] = Step(v, i)
           Unsolved == {m \in 0 .. N : ~ \E v : Solved(v, m)}
<1>1. N \in Nat \ {0} /\ DOMAIN p = 1 .. N
  BY DEF IsTree
<1>2. ASSUME NEW i \in 1 .. N, NEW v, NEW w, \A n \in 1 .. (i - 1) : v[n] = w[n]
      PROVE  Step(v, i) = Step(w, i)
  <2>1. \/ p[i].shape \in {"true", "cmp"}
        \/ p[i].shape = "not" /\ p[i].left \in 1 .. (i - 1)
        \/ /\ p[i].shape \in {"and", "or"}
           /\ p[i].left \in 1 .. (i - 1) /\ p[i].right \in 1 .. (i - 1)
    BY <1>1 DEF IsTree
  <2> QED BY <1>2, <2>1 DEF NodeValue
<1> HIDE DEF Step
<1>3. Unsolved = {}
  <2> SUFFICES ASSUME Unsolved # {} PROVE FALSE OBVIOUS
  <2>1. Unsolved \in SUBSET Nat BY <1>1
  <2>2. PICK m \in Unsolved : \A n \in Unsolved : m <= n
    <3> HIDE DEF Unsolved
    <3> QED BY <2>1, LeastNat
  <2>3. m # 0
    <3>1. Solved([i \in 1 .. 0 |-> 0], 0) OBVIOUS
    <3> QED BY <3>1
  <2>4. m - 1 \in 0 .. N /\ m - 1 \notin Unsolved BY <1>1, <2>2, <2>3
  <2>5. PICK v : Solved(v, m - 1) BY <2>4
  <2> DEFINE w == [i \in 1 .. m |-> IF i = m THEN Step(v, m) ELSE v[i]]
  <2>6. ASSUME NEW i \in 1 .. m PROVE w[i] = Step(w, i)
    <3>1. i \in 1 .. N /\ m \in 1 .. N BY <1>1, <2>2, <2>3
    <3>2. \A n \in 1 .. (i - 1) : v[n] = w[n] BY <3>1
    <3>3. Step(v, i) = Step(w, i) BY <3>1, <3>2, <1>2
    <3>4. CASE i = m BY <3>3, <3>4
    <3>5. CASE i # m
      <4>1. i \in 1 .. (m - 1) BY <3>1, <3>5
      <4> QED BY <4>1, <3>3, <3>5, <2>5
    <3> QED BY <3>4, <3>5
  <2>7. w = [i \in 1 .. m |-> w[i]] OBVIOUS
  <2>8. Solved(w, m)
    <3> HIDE DEF w
    <3> QED BY <2>6, <2>7
  <2> QED BY <2>2, <2>8
<1>4. PICK v : Solved(v, N)
  <2>1. N \in 0 .. N /\ N \notin Unsolved BY <1>1, <1>3
  <2> QED BY <2>1
<1>5. v = [i \in DOMAIN p |-> Step(v, i)] BY <1>1, <1>4
<1> DEFINE value == CHOOSE f : f = [i \in DOMAIN p |-> Step(f, i)]
<1>6. value = [i \in DOMAIN p |-> Step(value, i)] BY <1>5
<1>7. TreeValue(p, leaves, negates) = value[N] BY DEF TreeValue, Step
<1> QED
  <2> HIDE DEF value
  <2> QED BY <1>6, <1>7 DEF Step

\* One comparison: a row that passes it has its cell in the range of its column,
\* or in a column without statistics.
LEMMA LeafSound ==
  ASSUME NEW st, IsStats(st), NEW row \in Rows, Covers(st, row),
         NEW i \in Nat, NEW node \in Nodes(i),
         node.shape = "cmp" /\ node.value.kind = "text" => node.value.float = None,
         LeafHolds(node, row)
  PROVE  LeafCanMatch(node, st.numeric)
<1> SUFFICES ASSUME node.shape = "cmp", node.field \in DOMAIN st.numeric,
                    node.value.float # None
             PROVE  RangeAllows(node.op, st.numeric[node.field], node.value.float)
  BY DEF LeafCanMatch
<1> DEFINE c == Cell(row, node.field)
           v == node.value
           range == st.numeric[node.field]
<1>1. node.op \in CmpOps /\ v \in Cells /\ Compare(node.op, c, v)
  BY DEF Nodes, LeafHolds
<1>2. v.kind = "number" /\ v.rank = v.float /\ v.float \in Int
  BY <1>1, CellsAssumption DEF CellType
<1>3. CASE node.op = "ne"
  BY <1>3 DEF RangeAllows
<1>4. CASE node.op # "ne"
  <2>1. Ordered(c, v) BY <1>1, <1>4 DEF Compare, CmpOps
  <2>2. c.kind = "number" BY <2>1, <1>2 DEF Ordered
  <2>3. node.field \in DOMAIN row /\ c = row[node.field]
    BY <2>2 DEF Cell, Null
  <2>4. c \in Cells BY <2>3 DEF Rows
  <2>5. c.float = c.rank /\ c.float \in Int
    BY <2>2, <2>4, CellsAssumption DEF CellType
  <2>6. range.min <= c.float /\ c.float <= range.max
    BY <2>3 DEF Covers, IsStats
  <2>7. range.min \in Int /\ range.max \in Int BY DEF IsStats
  <2> QED
    BY <1>1, <1>2, <1>4, <2>5, <2>6, <2>7 DEF Compare, RangeAllows, CmpOps
<1> QED BY <1>3, <1>4

\* A shard whose statistics exclude the predicate has no row that it holds for,
\* provided no literal is a string that reads as a number.
THEOREM CanMatchIsSound ==
  ASSUME NEW p, IsPredicate(p), PlainLiterals(p),
         NEW st, IsStats(st), NEW row \in Rows, Covers(st, row),
         Holds(p, row)
  PROVE  CanMatch(p, st.numeric)
<1> DEFINE leafHolds == [i \in DOMAIN p |-> LeafHolds(p[i], row)]
           leafMay == [i \in DOMAIN p |-> LeafCanMatch(p[i], st.numeric)]
<1>0. IsTree(p) BY DEF IsPredicate
<1>1. PICK holds : /\ holds = [i \in DOMAIN p |-> NodeValue(p[i], leafHolds[i], TRUE, holds)]
                   /\ TreeValue(p, leafHolds, TRUE) = holds[Len(p)]
  <2> HIDE DEF leafHolds
  <2> QED BY <1>0, TreeValueEquation
<1>2. PICK may : /\ may = [i \in DOMAIN p |-> NodeValue(p[i], leafMay[i], FALSE, may)]
                 /\ TreeValue(p, leafMay, FALSE) = may[Len(p)]
  <2> HIDE DEF leafMay
  <2> QED BY <1>0, TreeValueEquation
<1>3. Len(p) \in Nat \ {0} /\ DOMAIN p = 1 .. Len(p) /\ \A i \in DOMAIN p : p[i] \in Nodes(i)
  BY <1>0 DEF IsTree, IsPredicate
<1> DEFINE Wrong == {i \in DOMAIN p : holds[i] /\ ~may[i]}
<1>4. Wrong = {}
  <2> SUFFICES ASSUME Wrong # {} PROVE FALSE OBVIOUS
  <2>1. Wrong \in SUBSET Nat BY <1>3
  <2>2. PICK i \in Wrong : \A n \in Wrong : i <= n
    <3> HIDE DEF Wrong
    <3> QED BY <2>1, LeastNat
  <2> DEFINE node == p[i]
  <2>3. i \in DOMAIN p /\ i \in 1 .. Len(p) /\ node \in Nodes(i) /\ holds[i] /\ ~may[i]
    BY <1>3, <2>2
  <2>4. holds[i] = NodeValue(node, leafHolds[i], TRUE, holds) BY <1>1, <2>3
  <2>5. may[i] = NodeValue(node, leafMay[i], FALSE, may) BY <1>2, <2>3
  <2>6. \A n \in 1 .. (i - 1) : holds[n] => may[n]
    <3> TAKE n \in 1 .. (i - 1)
    <3>1. n \in DOMAIN p /\ n < i BY <1>3, <2>3
    <3>2. n \notin Wrong BY <3>1, <2>2, <2>1
    <3> QED BY <3>1, <3>2
  <2>7. CASE node.shape = "and"
    <3>1. node.left \in 1 .. (i - 1) /\ node.right \in 1 .. (i - 1)
      BY <2>3, <2>7 DEF Nodes
    <3>2. holds[node.left] /\ holds[node.right] BY <2>3, <2>4, <2>7 DEF NodeValue
    <3>3. may[i] = (may[node.left] /\ may[node.right]) BY <2>5, <2>7 DEF NodeValue
    <3> QED BY <3>1, <3>2, <3>3, <2>3, <2>6
  <2>8. CASE node.shape = "or"
    <3>1. node.left \in 1 .. (i - 1) /\ node.right \in 1 .. (i - 1)
      BY <2>3, <2>8 DEF Nodes
    <3>2. holds[node.left] \/ holds[node.right] BY <2>3, <2>4, <2>8 DEF NodeValue
    <3>3. may[i] = (may[node.left] \/ may[node.right]) BY <2>5, <2>8 DEF NodeValue
    <3> QED BY <3>1, <3>2, <3>3, <2>3, <2>6
  <2>9. CASE node.shape = "not"
    BY <2>3, <2>5, <2>9 DEF NodeValue
  <2>10. CASE node.shape \in {"true", "cmp"}
    <3>1. leafHolds[i] BY <2>3, <2>4, <2>10 DEF NodeValue
    <3>2. may[i] = leafMay[i] BY <2>5, <2>10 DEF NodeValue
    <3>3. LeafHolds(node, row) BY <3>1, <2>3
    <3>4. node.shape = "cmp" /\ node.value.kind = "text" => node.value.float = None
      BY <2>3 DEF PlainLiterals
    <3>5. i \in Nat BY <2>3
    <3>6. LeafCanMatch(node, st.numeric)
      <4> HIDE DEF node
      <4> QED BY <3>3, <3>4, <3>5, <2>3, LeafSound
    <3> QED BY <3>2, <3>6, <2>3
  <2> QED BY <2>3, <2>7, <2>8, <2>9, <2>10 DEF Nodes
<1>5. holds[Len(p)] BY <1>1 DEF Holds
<1>6. may[Len(p)] BY <1>3, <1>4, <1>5
<1> QED BY <1>2, <1>6 DEF CanMatch

\* compute_stats: one more row leaves the statistics well formed, true of the rows
\* seen before, and true of the new one.
LEMMA ObserveCovers ==
  ASSUME NEW st, IsStats(st), NEW row \in Rows
  PROVE  /\ IsStats(Observe(st, row))
         /\ Covers(Observe(st, row), row)
         /\ \A old \in Rows : Covers(st, old) => Covers(Observe(st, row), old)
<1> DEFINE new == Observe(st, row)
           open == DOMAIN row \ st.disqualified
           bad == {c \in open : row[c].float = None}
           good == open \ bad
<1>1. DOMAIN row \subseteq Columns /\ \A c \in DOMAIN row : row[c].float \in Int \cup {None}
  BY CellsAssumption DEF Rows, CellType
<1>2. \A old \in Rows : \A c \in DOMAIN old : old[c].float \in Int \cup {None}
  BY CellsAssumption DEF Rows, CellType
<1>3. DOMAIN new.numeric = (DOMAIN st.numeric \cup good) \ bad
  BY DEF Observe
<1>4. new.disqualified = st.disqualified \cup bad
  BY DEF Observe
<1>5. \A c \in DOMAIN new.numeric \ good : c \in DOMAIN st.numeric /\ new.numeric[c] = st.numeric[c]
  BY DEF Observe
<1>6. ASSUME NEW c \in good, c \in DOMAIN st.numeric
      PROVE  /\ new.numeric[c] = [min |-> Smaller(st.numeric[c].min, row[c].float),
                                  max |-> Larger(st.numeric[c].max, row[c].float)]
             /\ new.numeric[c].min = Smaller(st.numeric[c].min, row[c].float)
             /\ new.numeric[c].max = Larger(st.numeric[c].max, row[c].float)
  BY <1>6 DEF Observe
<1>7. ASSUME NEW c \in good, c \notin DOMAIN st.numeric
      PROVE  /\ new.numeric[c] = [min |-> row[c].float, max |-> row[c].float]
             /\ new.numeric[c].min = row[c].float
             /\ new.numeric[c].max = row[c].float
  BY <1>7 DEF Observe
<1>8. \A c \in good : row[c].float \in Int
  BY <1>1
<1> HIDE DEF new
<1>9. IsStats(new)
  <2>1. new.disqualified \subseteq Columns
    BY <1>1, <1>4 DEF IsStats
  <2>2. DOMAIN new.numeric \subseteq Columns \ new.disqualified
    BY <1>1, <1>3, <1>4 DEF IsStats
  <2>3. ASSUME NEW c \in DOMAIN new.numeric PROVE new.numeric[c] \in [min : Int, max : Int]
    <3>1. CASE c \notin good BY <1>5, <3>1 DEF IsStats
    <3>2. CASE c \in good /\ c \in DOMAIN st.numeric
      <4>1. st.numeric[c].min \in Int /\ st.numeric[c].max \in Int BY <3>2 DEF IsStats
      <4>2. row[c].float \in Int BY <1>8, <3>2
      <4>3. /\ Smaller(st.numeric[c].min, row[c].float) \in Int
            /\ Larger(st.numeric[c].max, row[c].float) \in Int
        BY <4>1, <4>2 DEF Smaller, Larger
      <4>4. new.numeric[c] = [min |-> Smaller(st.numeric[c].min, row[c].float),
                              max |-> Larger(st.numeric[c].max, row[c].float)]
        BY <1>6, <3>2
      <4> QED BY <4>3, <4>4
    <3>3. CASE c \in good /\ c \notin DOMAIN st.numeric
      <4>1. row[c].float \in Int BY <1>8, <3>3
      <4>2. new.numeric[c] = [min |-> row[c].float, max |-> row[c].float] BY <1>7, <3>3
      <4> QED BY <4>1, <4>2
    <3> QED BY <3>1, <3>2, <3>3
  <2> QED BY <2>1, <2>2, <2>3 DEF IsStats
<1>10. ASSUME NEW c \in good
       PROVE  /\ c \in DOMAIN new.numeric /\ row[c].float # None
              /\ new.numeric[c].min <= row[c].float /\ row[c].float <= new.numeric[c].max
              /\ c \in DOMAIN st.numeric => /\ new.numeric[c].min <= st.numeric[c].min
                                            /\ st.numeric[c].max <= new.numeric[c].max
  <2>1. c \in DOMAIN new.numeric /\ row[c].float # None BY <1>3
  <2>2. row[c].float \in Int BY <1>8
  <2>3. CASE c \in DOMAIN st.numeric
    <3>1. st.numeric[c].min \in Int /\ st.numeric[c].max \in Int BY <2>3 DEF IsStats
    <3>2. /\ new.numeric[c].min = Smaller(st.numeric[c].min, row[c].float)
          /\ new.numeric[c].max = Larger(st.numeric[c].max, row[c].float)
      BY <1>6, <2>3
    <3> QED BY <2>1, <2>2, <3>1, <3>2 DEF Smaller, Larger
  <2>4. CASE c \notin DOMAIN st.numeric
    <3>1. new.numeric[c].min = row[c].float /\ new.numeric[c].max = row[c].float
      BY <1>7, <2>4
    <3> QED BY <2>1, <2>2, <2>4, <3>1
  <2> QED BY <2>3, <2>4
<1>11. Covers(new, row)
  <2>1. \A c \in DOMAIN row : c \in new.disqualified \/ c \in good BY <1>4
  <2> QED BY <2>1, <1>10 DEF Covers
<1>12. ASSUME NEW old \in Rows, Covers(st, old) PROVE Covers(new, old)
  <2> SUFFICES ASSUME NEW c \in DOMAIN old, c \notin new.disqualified
               PROVE  /\ c \in DOMAIN new.numeric /\ old[c].float # None
                      /\ new.numeric[c].min <= old[c].float /\ old[c].float <= new.numeric[c].max
    BY DEF Covers
  <2>1. c \notin st.disqualified /\ c \notin bad BY <1>4
  <2>2. /\ c \in DOMAIN st.numeric /\ old[c].float # None
        /\ st.numeric[c].min <= old[c].float /\ old[c].float <= st.numeric[c].max
    BY <2>1, <1>12 DEF Covers
  <2>3. old[c].float \in Int BY <1>2, <2>2
  <2>4. st.numeric[c].min \in Int /\ st.numeric[c].max \in Int BY <2>2 DEF IsStats
  <2>5. c \in DOMAIN new.numeric BY <1>3, <2>1, <2>2
  <2>6. new.numeric[c].min \in Int /\ new.numeric[c].max \in Int
    BY <1>9, <2>5 DEF IsStats
  <2>7. CASE c \in good
    BY <2>2, <2>3, <2>4, <2>5, <2>6, <2>7, <1>10
  <2>8. CASE c \notin good
    BY <2>2, <2>5, <2>8, <1>5
  <2> QED BY <2>7, <2>8
<1> QED BY <1>9, <1>11, <1>12 DEF new

-----------------------------------------------------------------------------
(* Sums.                                                                   *)

LEMMA CellFloats ==
  ASSUME NEW row \in Rows, NEW col
  PROVE  Cell(row, col).float \in Int \cup {None}
BY CellsAssumption DEF Rows, CellType, Cell, Null

LEMMA CellNumbers ==
  ASSUME NEW row \in Rows, NEW col
  PROVE  Cell(row, col).num \in [lane : Lanes, val : Int] \cup {None}
BY CellsAssumption DEF Rows, CellType, Cell, Null

\* Among small integers a compensated sum rounds nothing.
LEMMA KahanIsExact ==
  ASSUME NEW value \in Int, NEW x \in Int,
         value \in -ExactUpTo .. ExactUpTo, x \in -ExactUpTo .. ExactUpTo,
         value + x \in -ExactUpTo .. ExactUpTo
  PROVE  KahanAdd([sum |-> value, comp |-> 0], x) = [sum |-> value + x, comp |-> 0]
<1> DEFINE t == ToFloat(value + x)
<1>1. ExactUpTo \in Nat /\ \A n \in -ExactUpTo .. ExactUpTo : ToFloat(n) = n
  BY FloatAssumption
<1>2. t = value + x /\ ToFloat(0) = 0
  BY <1>1
<1>3. value - t = -x /\ x - t = -value
  BY <1>2
<1>4. -x \in -ExactUpTo .. ExactUpTo /\ -value \in -ExactUpTo .. ExactUpTo
  BY <1>1
<1>5. ToFloat(value - t) = -x /\ ToFloat(x - t) = -value
  BY <1>1, <1>3, <1>4
<1>6. -x + x = 0 /\ -value + value = 0 /\ 0 + 0 = 0
  OBVIOUS
<1> HIDE DEF t
<1>7. ToFloat(ToFloat(value - t) + x) = 0 /\ ToFloat(ToFloat(x - t) + value) = 0
  BY <1>2, <1>5, <1>6
<1> QED BY <1>2, <1>6, <1>7 DEF KahanAdd, t

LEMMA FloatSumAdds ==
  ASSUME NEW total, NEW value \in Int, NEW size \in Int, IsFloatSum(total, value, size),
         NEW x \in Int, NEW m \in Int, x \in -m .. m
  PROVE  IsFloatSum(KahanAdd(total, x), value + x, size + m)
<1>1. ExactUpTo \in Nat /\ value \in -size .. size
  BY FloatAssumption DEF IsFloatSum
<1>2. value + x \in -(size + m) .. (size + m)
  BY <1>1
<1>3. ASSUME size + m <= ExactUpTo
      PROVE  KahanAdd(total, x) = [sum |-> value + x, comp |-> 0]
  <2>1. /\ size <= ExactUpTo /\ value \in -ExactUpTo .. ExactUpTo
        /\ x \in -ExactUpTo .. ExactUpTo /\ value + x \in -ExactUpTo .. ExactUpTo
    BY <1>1, <1>3
  <2>2. total = [sum |-> value, comp |-> 0]
    BY <2>1 DEF IsFloatSum
  <2> QED BY <2>1, <2>2, KahanIsExact
<1> QED BY <1>2, <1>3 DEF IsFloatSum

LEMMA FloatSumsMerge ==
  ASSUME NEW a, NEW value \in Int, NEW size \in Int, IsFloatSum(a, value, size),
         NEW b, NEW x \in Int, NEW m \in Int, IsFloatSum(b, x, m)
  PROVE  IsFloatSum(KahanMerge(a, b), value + x, size + m)
<1>1. value \in -size .. size /\ x \in -m .. m
  BY DEF IsFloatSum
<1>2. value + x \in -(size + m) .. (size + m)
  BY <1>1
<1>3. ASSUME size + m <= ExactUpTo
      PROVE  KahanMerge(a, b) = [sum |-> value + x, comp |-> 0]
  <2>1. m <= ExactUpTo
    BY <1>1, <1>3, FloatAssumption
  <2>2. b.sum = x /\ b.comp = 0
    BY <2>1 DEF IsFloatSum
  <2>3. IsFloatSum(KahanAdd(a, x), value + x, size + m)
    BY <1>1, FloatSumAdds
  <2>4. KahanAdd(a, x) = [sum |-> value + x, comp |-> 0]
    BY <1>3, <2>3 DEF IsFloatSum
  <2>5. ToFloat(0 + 0) = 0
    BY FloatAssumption
  <2> QED BY <2>2, <2>4, <2>5 DEF KahanMerge
<1> QED BY <1>2, <1>3 DEF IsFloatSum

\* Promoting an integer sum starts an exact float sum.
LEMMA PromotedIsExact ==
  ASSUME NEW value \in Int, NEW size \in Int, value \in -size .. size
  PROVE  IsFloatSum(Promoted(value), value, size)
<1> SUFFICES ASSUME size <= ExactUpTo PROVE Promoted(value) = [sum |-> value, comp |-> 0]
  BY DEF IsFloatSum
<1>1. ExactUpTo \in Nat /\ value \in -ExactUpTo .. ExactUpTo
  BY FloatAssumption
<1>2. ToFloat(value) = value
  BY <1>1, FloatAssumption
<1>3. 0 \in -ExactUpTo .. ExactUpTo /\ 0 + value = value
  BY <1>1
<1>4. KahanAdd([sum |-> 0, comp |-> 0], value) = [sum |-> 0 + value, comp |-> 0]
  BY <1>1, <1>3, KahanIsExact
<1> QED BY <1>2, <1>3, <1>4 DEF Promoted, KahanZero

\* An integer in the float lane is rounded on its way in.
LEMMA RoundedAdds ==
  ASSUME NEW total, NEW value \in Int, NEW size \in Int, IsFloatSum(total, value, size),
         NEW x \in Int, NEW m \in Int, x \in -m .. m
  PROVE  IsFloatSum(KahanAdd(total, ToFloat(x)), value + x, size + m)
<1>1. value \in -size .. size
  BY DEF IsFloatSum
<1>2. value + x \in -(size + m) .. (size + m)
  BY <1>1
<1>3. ASSUME size + m <= ExactUpTo
      PROVE  KahanAdd(total, ToFloat(x)) = [sum |-> value + x, comp |-> 0]
  <2>1. x \in -ExactUpTo .. ExactUpTo
    BY <1>1, <1>3, FloatAssumption
  <2>2. ToFloat(x) = x
    BY <2>1, FloatAssumption
  <2>3. IsFloatSum(KahanAdd(total, x), value + x, size + m)
    BY FloatSumAdds
  <2> QED BY <1>3, <2>2, <2>3 DEF IsFloatSum
<1> QED BY <1>2, <1>3 DEF IsFloatSum

LEMMA IntegerAdds ==
  ASSUME NEW acc, NEW integersOnly \in BOOLEAN, NEW value \in Int, NEW size \in Int,
         IsSum(acc, integersOnly, value, size),
         NEW x \in Int, NEW m \in Int, x \in -m .. m
  PROVE  IsSum(AddInt(acc, x), integersOnly, value + x, size + m)
<1>1. IntMax \in Nat /\ m \in Nat /\ value \in -size .. size
  BY WidthAssumption DEF IsSum
<1>2. value + x \in -(size + m) .. (size + m)
  BY <1>1
<1>3. CASE acc.lane = "int" /\ FitsInt(acc.total + x)
  <2>1. AddInt(acc, x) = IntSum(acc.total + x)
    BY <1>3 DEF AddInt
  <2> QED BY <1>2, <1>3, <2>1 DEF IsSum, IntSum
<1>4. CASE acc.lane = "int" /\ ~FitsInt(acc.total + x)
  <2>1. AddInt(acc, x) = FloatSum(KahanAdd(Promoted(value), ToFloat(x))) /\ acc.total = value
    BY <1>4 DEF AddInt, IsSum
  <2>2. IsFloatSum(KahanAdd(Promoted(value), ToFloat(x)), value + x, size + m)
    BY <1>1, PromotedIsExact, RoundedAdds
  <2>3. size + m > IntMax
    BY <1>1, <1>2, <1>4, <2>1 DEF FitsInt
  <2> QED BY <1>2, <2>1, <2>2, <2>3 DEF IsSum, IsFloatSum, FloatSum
<1>5. CASE acc.lane = "float"
  <2>1. AddInt(acc, x) = FloatSum(KahanAdd(acc.total, ToFloat(x)))
    BY <1>5 DEF AddInt
  <2>2. IsFloatSum(acc.total, value, size) /\ (integersOnly => size > IntMax)
    BY <1>5 DEF IsSum, IsFloatSum
  <2>3. IsFloatSum(KahanAdd(acc.total, ToFloat(x)), value + x, size + m)
    BY <2>2, RoundedAdds
  <2>4. integersOnly => size + m > IntMax
    BY <1>1, <2>2
  <2> QED BY <1>2, <2>1, <2>3, <2>4 DEF IsSum, IsFloatSum, FloatSum
<1> QED BY <1>3, <1>4, <1>5 DEF IsSum

\* What a fraction, or a float sum, is added to.
LEMMA InTheFloatLane ==
  ASSUME NEW acc, NEW integersOnly \in BOOLEAN, NEW value \in Int, NEW size \in Int,
         IsSum(acc, integersOnly, value, size)
  PROVE  IsFloatSum(IF acc.lane = "int" THEN Promoted(acc.total) ELSE acc.total, value, size)
<1>1. value \in -size .. size
  BY DEF IsSum
<1>2. IsFloatSum(Promoted(value), value, size)
  BY <1>1, PromotedIsExact
<1>3. acc.lane = "int" => acc.total = value
  BY DEF IsSum
<1>4. acc.lane # "int" => IsFloatSum(acc.total, value, size)
  BY DEF IsSum, IsFloatSum
<1> QED BY <1>2, <1>3, <1>4

LEMMA FractionAdds ==
  ASSUME NEW acc, NEW integersOnly \in BOOLEAN, NEW value \in Int, NEW size \in Int,
         IsSum(acc, integersOnly, value, size),
         NEW x \in Int, NEW m \in Int, x \in -m .. m
  PROVE  IsSum(AddFloat(acc, x), FALSE, value + x, size + m)
<1> DEFINE total == IF acc.lane = "int" THEN Promoted(acc.total) ELSE acc.total
<1>1. AddFloat(acc, x) = FloatSum(KahanAdd(total, x))
  BY DEF AddFloat
<1>2. IsFloatSum(total, value, size)
  BY InTheFloatLane
<1> HIDE DEF total
<1>3. IsFloatSum(KahanAdd(total, x), value + x, size + m)
  BY <1>2, FloatSumAdds
<1> QED BY <1>1, <1>3 DEF IsSum, IsFloatSum, FloatSum

LEMMA SumsMerge ==
  ASSUME NEW a, NEW integersOnlyA \in BOOLEAN, NEW value \in Int, NEW size \in Int,
         IsSum(a, integersOnlyA, value, size),
         NEW b, NEW integersOnlyB \in BOOLEAN, NEW x \in Int, NEW m \in Int,
         IsSum(b, integersOnlyB, x, m)
  PROVE  IsSum(MergeSum(a, b), integersOnlyA /\ integersOnlyB, value + x, size + m)
<1>1. IntMax \in Nat /\ value \in -size .. size /\ x \in -m .. m
  BY WidthAssumption DEF IsSum
<1>2. CASE b.lane = "int"
  <2>1. MergeSum(a, b) = AddInt(a, x) /\ integersOnlyB
    BY <1>2 DEF MergeSum, IsSum
  <2>2. IsSum(AddInt(a, x), integersOnlyA, value + x, size + m)
    BY <1>1, IntegerAdds
  <2>3. (integersOnlyA /\ integersOnlyB) = integersOnlyA
    BY <2>1
  <2> QED BY <2>1, <2>2, <2>3
<1>3. CASE b.lane # "int"
  <2> DEFINE total == IF a.lane = "int" THEN Promoted(a.total) ELSE a.total
  <2>1. MergeSum(a, b) = FloatSum(KahanMerge(total, b.total))
    BY <1>3 DEF MergeSum
  <2>2. IsFloatSum(total, value, size)
    BY InTheFloatLane
  <2>3. IsFloatSum(b.total, x, m) /\ (integersOnlyB => m > IntMax)
    BY <1>3 DEF IsSum, IsFloatSum
  <2> HIDE DEF total
  <2>4. IsFloatSum(KahanMerge(total, b.total), value + x, size + m)
    BY <2>2, <2>3, FloatSumsMerge
  <2>5. integersOnlyB => size + m > IntMax
    BY <1>1, <2>3
  <2> QED BY <2>1, <2>4, <2>5 DEF IsSum, IsFloatSum, FloatSum
<1> QED BY <1>2, <1>3

\* The sums of two sets of rows that have none in common.
TotalAdds(F, R, T) ==
  /\ Total(F, R \cup T) = Total(F, R) + Total(F, T)
  /\ Total(F, R) \in Int /\ Total(F, T) \in Int

LEMMA TotalsAdd ==
  ASSUME NEW j, NEW R, NEW T, IsFiniteSet(R), IsFiniteSet(T), R \cap T = {},
         R \cup T \subseteq DOMAIN j.table, \A i \in R \cup T : j.table[i] \in Rows
  PROVE  /\ TotalAdds(Addends(j), R, T) /\ TotalAdds(Sizes(Addends(j)), R, T)
         /\ TotalAdds(FloatAddends(j), R, T) /\ TotalAdds(Sizes(FloatAddends(j)), R, T)
<1>1. ASSUME NEW F, DOMAIN F = DOMAIN j.table, \A i \in R \cup T : F[i] \in Int
      PROVE  TotalAdds(F, R, T) /\ TotalAdds(Sizes(F), R, T)
  <2>1. \A i \in R \cup T : Sizes(F)[i] \in Int
    BY <1>1 DEF Sizes, Abs
  <2>2. TotalAdds(F, R, T)
    BY <1>1, SumsAdd DEF Total, TotalAdds
  <2>3. TotalAdds(Sizes(F), R, T)
    BY <2>1, SumsAdd DEF Total, TotalAdds
  <2> QED BY <2>2, <2>3
<1>2. DOMAIN Addends(j) = DOMAIN j.table /\ \A i \in R \cup T : Addends(j)[i] \in Int
  <2>1. ASSUME NEW i \in R \cup T PROVE Addends(j)[i] \in Int
    <3>1. Cell(j.table[i], j.field).num \in [lane : Lanes, val : Int] \cup {None}
      BY CellNumbers
    <3> QED BY <3>1 DEF Addends
  <2> QED BY <2>1 DEF Addends
<1>3. DOMAIN FloatAddends(j) = DOMAIN j.table /\ \A i \in R \cup T : FloatAddends(j)[i] \in Int
  <2>1. ASSUME NEW i \in R \cup T PROVE FloatAddends(j)[i] \in Int
    <3>1. Cell(j.table[i], j.field).float \in Int \cup {None}
      BY CellFloats
    <3> QED BY <3>1 DEF FloatAddends
  <2> QED BY <2>1 DEF FloatAddends
<1> QED BY <1>1, <1>2, <1>3

LEMMA TotalOfOne ==
  ASSUME NEW j, NEW i \in DOMAIN j.table, j.table[i] \in Rows
  PROVE  LET num == Cell(j.table[i], j.field).num
             float == Cell(j.table[i], j.field).float
             x == IF num = None THEN 0 ELSE num.val
             y == IF float = None THEN 0 ELSE float
         IN  /\ Total(Addends(j), {i}) = x /\ Total(Sizes(Addends(j)), {i}) = Abs(x)
             /\ Total(FloatAddends(j), {i}) = y /\ Total(Sizes(FloatAddends(j)), {i}) = Abs(y)
<1> DEFINE x == Addends(j)[i]
           y == FloatAddends(j)[i]
<1>1. x \in Int /\ y \in Int
  BY CellNumbers, CellFloats DEF Addends, FloatAddends
<1>2. Sizes(Addends(j))[i] = Abs(x) /\ Sizes(FloatAddends(j))[i] = Abs(y)
  BY DEF Sizes, Addends, FloatAddends
<1>3. Abs(x) \in Int /\ Abs(y) \in Int
  BY <1>1 DEF Abs
<1>4. /\ Total(Addends(j), {i}) = x /\ Total(Sizes(Addends(j)), {i}) = Abs(x)
      /\ Total(FloatAddends(j), {i}) = y /\ Total(Sizes(FloatAddends(j)), {i}) = Abs(y)
  BY <1>1, <1>2, <1>3, SumOfOne DEF Total
<1> QED BY <1>4 DEF Addends, FloatAddends

LEMMA ZeroSumsUp ==
  ASSUME NEW j
  PROVE  SumsUp(j, Zero, {})
<1>1. \A F : Total(F, {}) = 0
  BY SumOfNothing DEF Total
<1>2. InFloats(j, {}) = {} /\ IntegersOnly(j, {}) = TRUE
  BY DEF InFloats, IntegersOnly
<1>3. Zero.sum = IntSum(0) /\ Zero.avgSum = KahanZero /\ Zero.avgCount = 0
  BY DEF Zero
<1> QED
  BY <1>1, <1>2, <1>3, FS_EmptySet DEF SumsUp, IsSum, IsFloatSum, IntSum, KahanZero

\* Folding a row adds its cell to the sums.
LEMMA FoldSumsUp ==
  ASSUME NEW j, NEW acc, NEW R, NEW i, IsFiniteSet(R), i \notin R,
         R \cup {i} \subseteq DOMAIN j.table, \A n \in R \cup {i} : j.table[n] \in Rows,
         SumsUp(j, acc, R)
  PROVE  SumsUp(j, Fold(acc, j.table[i], j.field), R \cup {i})
<1> DEFINE num == Cell(j.table[i], j.field).num
           float == Cell(j.table[i], j.field).float
           x == IF num = None THEN 0 ELSE num.val
           y == IF float = None THEN 0 ELSE float
           new == Fold(acc, j.table[i], j.field)
<1>1. /\ new.sum = IF num = None THEN acc.sum ELSE FoldSum(acc.sum, num)
      /\ new.avgSum = IF float = None THEN acc.avgSum ELSE KahanAdd(acc.avgSum, float)
      /\ new.avgCount = IF float = None THEN acc.avgCount ELSE acc.avgCount + 1
  BY DEF Fold
<1>2. num \in [lane : Lanes, val : Int] \cup {None} /\ float \in Int \cup {None}
  BY CellNumbers, CellFloats
<1>3. x \in Int /\ y \in Int /\ x \in -Abs(x) .. Abs(x) /\ y \in -Abs(y) .. Abs(y)
      /\ Abs(x) \in Int /\ Abs(y) \in Int
  BY <1>2, NoneAssumption DEF Abs
<1>4. IsFiniteSet({i}) /\ R \cap {i} = {}
  BY FS_Singleton
<1>5. /\ Total(Addends(j), {i}) = x /\ Total(Sizes(Addends(j)), {i}) = Abs(x)
      /\ Total(FloatAddends(j), {i}) = y /\ Total(Sizes(FloatAddends(j)), {i}) = Abs(y)
  BY TotalOfOne
<1>6. IntegersOnly(j, R \cup {i}) = (IntegersOnly(j, R) /\ (num # None => num.lane = "int"))
  BY DEF IntegersOnly
<1>7. /\ IsFiniteSet(InFloats(j, R)) /\ i \notin InFloats(j, R)
      /\ InFloats(j, R \cup {i}) = InFloats(j, R) \cup (IF float = None THEN {} ELSE {i})
  BY FS_Subset DEF InFloats
<1>8. /\ TotalAdds(Addends(j), R, {i}) /\ TotalAdds(Sizes(Addends(j)), R, {i})
      /\ TotalAdds(FloatAddends(j), R, {i}) /\ TotalAdds(Sizes(FloatAddends(j)), R, {i})
  BY <1>4, TotalsAdd
<1> HIDE DEF num, float, x, y, new
<1>9. IsSum(new.sum, IntegersOnly(j, R \cup {i}), Total(Addends(j), R \cup {i}),
            Total(Sizes(Addends(j)), R \cup {i}))
  <2> DEFINE value == Total(Addends(j), R)
             size == Total(Sizes(Addends(j)), R)
             pure == IntegersOnly(j, R)
  <2>1. /\ Total(Addends(j), R \cup {i}) = value + x
        /\ Total(Sizes(Addends(j)), R \cup {i}) = size + Abs(x)
        /\ value \in Int /\ size \in Int
    BY <1>5, <1>8 DEF TotalAdds
  <2>2. IsSum(acc.sum, pure, value, size) /\ pure \in BOOLEAN
    BY DEF SumsUp, IntegersOnly
  <2> HIDE DEF value, size, pure
  <2>3. CASE num = None
    <3>1. x = 0 /\ Abs(x) = 0 /\ value + 0 = value /\ size + 0 = size
      BY <2>1, <2>3 DEF x, Abs
    <3>2. IntegersOnly(j, R \cup {i}) = pure
      BY <1>6, <2>2, <2>3 DEF pure
    <3> QED BY <1>1, <2>1, <2>2, <2>3, <3>1, <3>2
  <2>4. CASE num # None /\ num.lane = "int"
    <3>1. new.sum = AddInt(acc.sum, x)
      BY <1>1, <2>4 DEF x, FoldSum
    <3>2. IsSum(AddInt(acc.sum, x), pure, value + x, size + Abs(x))
      BY <1>3, <2>1, <2>2, IntegerAdds
    <3>3. IntegersOnly(j, R \cup {i}) = pure
      BY <1>6, <2>2, <2>4 DEF pure
    <3> QED BY <2>1, <3>1, <3>2, <3>3
  <2>5. CASE num # None /\ num.lane # "int"
    <3>1. new.sum = AddFloat(acc.sum, x)
      BY <1>1, <2>5 DEF x, FoldSum
    <3>2. IsSum(AddFloat(acc.sum, x), FALSE, value + x, size + Abs(x))
      BY <1>3, <2>1, <2>2, FractionAdds
    <3>3. IntegersOnly(j, R \cup {i}) = FALSE
      BY <1>6, <2>5
    <3> QED BY <2>1, <3>1, <3>2, <3>3
  <2> QED BY <2>3, <2>4, <2>5
<1>10. IsFloatSum(new.avgSum, Total(FloatAddends(j), R \cup {i}),
                 Total(Sizes(FloatAddends(j)), R \cup {i}))
  <2> DEFINE value == Total(FloatAddends(j), R)
             size == Total(Sizes(FloatAddends(j)), R)
  <2>1. /\ Total(FloatAddends(j), R \cup {i}) = value + y
        /\ Total(Sizes(FloatAddends(j)), R \cup {i}) = size + Abs(y)
        /\ value \in Int /\ size \in Int
    BY <1>5, <1>8 DEF TotalAdds
  <2>2. IsFloatSum(acc.avgSum, value, size)
    BY DEF SumsUp
  <2> HIDE DEF value, size
  <2>3. CASE float = None
    <3>1. y = 0 /\ Abs(y) = 0 /\ value + 0 = value /\ size + 0 = size
      BY <2>1, <2>3 DEF y, Abs
    <3> QED BY <1>1, <2>1, <2>2, <2>3, <3>1
  <2>4. CASE float # None
    <3>1. new.avgSum = KahanAdd(acc.avgSum, y)
      BY <1>1, <2>4 DEF y
    <3>2. IsFloatSum(KahanAdd(acc.avgSum, y), value + y, size + Abs(y))
      BY <1>3, <2>1, <2>2, FloatSumAdds
    <3> QED BY <2>1, <3>1, <3>2
  <2> QED BY <2>3, <2>4
<1>11. new.avgCount = Cardinality(InFloats(j, R \cup {i}))
  <2>1. acc.avgCount = Cardinality(InFloats(j, R))
    BY DEF SumsUp
  <2>2. CASE float = None
    BY <1>1, <1>7, <2>1, <2>2
  <2>3. CASE float # None
    <3>1. Cardinality(InFloats(j, R) \cup {i}) = Cardinality(InFloats(j, R)) + 1
      BY <1>7, FS_AddElement
    <3> QED BY <1>1, <1>7, <2>1, <2>3, <3>1
  <2> QED BY <2>2, <2>3
<1>12. SumsUp(j, new, R \cup {i})
  BY <1>9, <1>10, <1>11 DEF SumsUp
<1> QED BY <1>12 DEF new

\* Merging the accumulators of different rows adds up their sums.
LEMMA MergeSumsUp ==
  ASSUME NEW j, NEW R, NEW T, IsFiniteSet(R), IsFiniteSet(T), R \cap T = {},
         R \cup T \subseteq DOMAIN j.table, \A n \in R \cup T : j.table[n] \in Rows,
         NEW a, NEW b, SumsUp(j, a, R), SumsUp(j, b, T)
  PROVE  SumsUp(j, MergeAccum(a, b), R \cup T)
<1> DEFINE new == MergeAccum(a, b)
           value == Total(Addends(j), R)          x == Total(Addends(j), T)
           size == Total(Sizes(Addends(j)), R)    m == Total(Sizes(Addends(j)), T)
           y == Total(FloatAddends(j), R)         z == Total(FloatAddends(j), T)
           k == Total(Sizes(FloatAddends(j)), R)  l == Total(Sizes(FloatAddends(j)), T)
           pureA == IntegersOnly(j, R)            pureB == IntegersOnly(j, T)
<1>1. /\ TotalAdds(Addends(j), R, T) /\ TotalAdds(Sizes(Addends(j)), R, T)
      /\ TotalAdds(FloatAddends(j), R, T) /\ TotalAdds(Sizes(FloatAddends(j)), R, T)
  BY TotalsAdd
<1>2. /\ new.sum = MergeSum(a.sum, b.sum)
      /\ new.avgSum = KahanMerge(a.avgSum, b.avgSum)
      /\ new.avgCount = a.avgCount + b.avgCount
  BY DEF MergeAccum
<1>3. /\ Total(Addends(j), R \cup T) = value + x
      /\ Total(Sizes(Addends(j)), R \cup T) = size + m
      /\ value \in Int /\ x \in Int /\ size \in Int /\ m \in Int
  BY <1>1 DEF TotalAdds
<1>4. /\ Total(FloatAddends(j), R \cup T) = y + z
      /\ Total(Sizes(FloatAddends(j)), R \cup T) = k + l
      /\ y \in Int /\ z \in Int /\ k \in Int /\ l \in Int
  BY <1>1 DEF TotalAdds
<1>5. IntegersOnly(j, R \cup T) = (pureA /\ pureB) /\ pureA \in BOOLEAN /\ pureB \in BOOLEAN
  BY DEF IntegersOnly
<1>6. /\ InFloats(j, R \cup T) = InFloats(j, R) \cup InFloats(j, T)
      /\ InFloats(j, R) \cap InFloats(j, T) = {}
      /\ IsFiniteSet(InFloats(j, R)) /\ IsFiniteSet(InFloats(j, T))
  BY FS_Subset DEF InFloats
<1>7. /\ IsSum(a.sum, pureA, value, size) /\ IsSum(b.sum, pureB, x, m)
      /\ IsFloatSum(a.avgSum, y, k) /\ IsFloatSum(b.avgSum, z, l)
      /\ a.avgCount = Cardinality(InFloats(j, R)) /\ b.avgCount = Cardinality(InFloats(j, T))
  BY DEF SumsUp
<1> HIDE DEF new, value, x, size, m, y, z, k, l, pureA, pureB
<1>8. IsSum(new.sum, pureA /\ pureB, value + x, size + m)
  BY <1>2, <1>3, <1>5, <1>7, SumsMerge
<1>9. IsFloatSum(new.avgSum, y + z, k + l)
  BY <1>2, <1>4, <1>7, FloatSumsMerge
<1>10. Cardinality(InFloats(j, R \cup T)) = Cardinality(InFloats(j, R)) + Cardinality(InFloats(j, T))
  BY <1>6, InTwoParts
<1>11. SumsUp(j, new, R \cup T)
  BY <1>2, <1>3, <1>4, <1>5, <1>7, <1>8, <1>9, <1>10 DEF SumsUp
<1> QED BY <1>11 DEF new

-----------------------------------------------------------------------------
(* Folding and merging.                                                    *)

LEMMA LeastJoins ==
  ASSUME NEW V \in SUBSET Int, NEW W \in SUBSET Int, NEW m, NEW n,
         IsLeast(m, V), IsLeast(n, W)
  PROVE  IsLeast(Least(m, n), V \cup W)
<1>1. CASE V = {}
  BY <1>1 DEF IsLeast, Least
<1>2. CASE V # {} /\ W = {}
  BY <1>2, NoneAssumption DEF IsLeast, Least
<1>3. CASE V # {} /\ W # {}
  <2>1. m \in Int /\ n \in Int /\ m \in V /\ n \in W BY <1>3 DEF IsLeast
  <2>2. Least(m, n) = Smaller(m, n) BY <2>1, NoneAssumption DEF Least
  <2> QED BY <1>3, <2>1, <2>2 DEF IsLeast, Smaller
<1> QED BY <1>1, <1>2, <1>3

LEMMA GreatestJoins ==
  ASSUME NEW V \in SUBSET Int, NEW W \in SUBSET Int, NEW m, NEW n,
         IsGreatest(m, V), IsGreatest(n, W)
  PROVE  IsGreatest(Greatest(m, n), V \cup W)
<1>1. CASE V = {}
  BY <1>1 DEF IsGreatest, Greatest
<1>2. CASE V # {} /\ W = {}
  BY <1>2, NoneAssumption DEF IsGreatest, Greatest
<1>3. CASE V # {} /\ W # {}
  <2>1. m \in Int /\ n \in Int /\ m \in V /\ n \in W BY <1>3 DEF IsGreatest
  <2>2. Greatest(m, n) = Larger(m, n) BY <2>1, NoneAssumption DEF Greatest
  <2> QED BY <1>3, <2>1, <2>2 DEF IsGreatest, Larger
<1> QED BY <1>1, <1>2, <1>3

LEMMA FloatsAreInts ==
  ASSUME NEW j, NEW I, \A i \in I : j.table[i] \in Rows, NEW key
  PROVE  FloatsOfGroup(j, I, key) \in SUBSET Int
BY CellFloats DEF FloatsOfGroup, RowsOfGroup

LEMMA AbsentGroup ==
  ASSUME NEW j, NEW I, NEW key, key \notin GroupsAmong(j, I)
  PROVE  /\ RowsOfGroup(j, I, key) = {}
         /\ SummarizesGroup(j, Zero, I, key)
<1>1. RowsOfGroup(j, I, key) = {} BY DEF RowsOfGroup, GroupsAmong
<1>2. FloatsOfGroup(j, I, key) = {} BY <1>1 DEF FloatsOfGroup
<1>3. Zero.count = 0 /\ Zero.min = None /\ Zero.max = None BY DEF Zero
<1>4. SumsUp(j, Zero, RowsOfGroup(j, I, key)) BY <1>1, ZeroSumsUp
<1> QED BY <1>1, <1>2, <1>3, <1>4, FS_EmptySet DEF SummarizesGroup, IsLeast, IsGreatest

\* map_shard takes in a row: the partial summarizes one row more.
LEMMA FoldSummarizes ==
  ASSUME NEW j, NEW I, IsFiniteSet(I), NEW i, i \notin I,
         I \cup {i} \subseteq DOMAIN j.table, \A n \in I \cup {i} : j.table[n] \in Rows,
         NEW p, Summarizes(j, p, I)
  PROVE  /\ Holds(j.pred, j.table[i]) =>
              Summarizes(j, FoldRow(p, j.table[i], j.groupBy, j.field), I \cup {i})
         /\ ~Holds(j.pred, j.table[i]) => Summarizes(j, p, I \cup {i})
<1> DEFINE row == j.table[i]
           key == GroupKey(row, j.groupBy)
           J == I \cup {i}
<1>1. CASE ~Holds(j.pred, row)
  <2>1. GroupsAmong(j, J) = GroupsAmong(j, I) BY <1>1 DEF GroupsAmong
  <2>2. \A k : RowsOfGroup(j, J, k) = RowsOfGroup(j, I, k) BY <1>1 DEF RowsOfGroup
  <2>3. \A k : FloatsOfGroup(j, J, k) = FloatsOfGroup(j, I, k) BY <2>2 DEF FloatsOfGroup
  <2> QED BY <1>1, <2>1, <2>2, <2>3 DEF Summarizes, SummarizesGroup
<1>2. CASE Holds(j.pred, row)
  <2> DEFINE q == FoldRow(p, row, j.groupBy, j.field)
             old == IF key \in DOMAIN p THEN p[key] ELSE Zero
             float == Cell(row, j.field).float
  <2>1. DOMAIN q = DOMAIN p \cup {key} BY DEF FoldRow
  <2>2. GroupsAmong(j, J) = GroupsAmong(j, I) \cup {key} BY <1>2 DEF GroupsAmong
  <2>3. ASSUME NEW k \in DOMAIN p, k # key PROVE SummarizesGroup(j, q[k], J, k)
    <3>1. q[k] = p[k] BY <2>3 DEF FoldRow
    <3>2. RowsOfGroup(j, J, k) = RowsOfGroup(j, I, k) BY <2>3 DEF RowsOfGroup
    <3>3. FloatsOfGroup(j, J, k) = FloatsOfGroup(j, I, k) BY <3>2 DEF FloatsOfGroup
    <3> QED BY <3>1, <3>2, <3>3 DEF Summarizes, SummarizesGroup
  <2>4. SummarizesGroup(j, q[key], J, key)
    <3>1. q[key] = Fold(old, row, j.field) BY DEF FoldRow
    <3>2. SummarizesGroup(j, old, I, key)
      BY AbsentGroup DEF Summarizes
    <3> HIDE DEF old
    <3>3. RowsOfGroup(j, J, key) = RowsOfGroup(j, I, key) \cup {i}
      BY <1>2 DEF RowsOfGroup
    <3>4. i \notin RowsOfGroup(j, I, key) /\ IsFiniteSet(RowsOfGroup(j, I, key))
      BY FS_Subset DEF RowsOfGroup
    <3>5. Cardinality(RowsOfGroup(j, J, key)) = Cardinality(RowsOfGroup(j, I, key)) + 1
      BY <3>3, <3>4, FS_AddElement
    <3>6. FloatsOfGroup(j, J, key) = FloatsOfGroup(j, I, key) \cup ({float} \ {None})
      BY <3>3 DEF FloatsOfGroup
    <3>7. float \in Int \cup {None} BY CellFloats
    <3>8. FloatsOfGroup(j, I, key) \in SUBSET Int BY FloatsAreInts
    <3>9. /\ q[key].count = old.count + 1
          /\ q[key].min = Least(old.min, float)
          /\ q[key].max = Greatest(old.max, float)
      BY <3>1 DEF Fold
    <3>10. IsLeast(float, {float} \ {None}) /\ IsGreatest(float, {float} \ {None})
      BY <3>7 DEF IsLeast, IsGreatest
    <3>11. IsLeast(q[key].min, FloatsOfGroup(j, J, key))
      <4> HIDE DEF q, float
      <4>1. IsLeast(old.min, FloatsOfGroup(j, I, key)) BY <3>2 DEF SummarizesGroup
      <4>2. {float} \ {None} \in SUBSET Int BY <3>7
      <4>3. IsLeast(Least(old.min, float), FloatsOfGroup(j, I, key) \cup ({float} \ {None}))
        BY <4>1, <4>2, <3>8, <3>10, LeastJoins
      <4> QED BY <4>3, <3>6, <3>9
    <3>12. IsGreatest(q[key].max, FloatsOfGroup(j, J, key))
      <4> HIDE DEF q, float
      <4>1. IsGreatest(old.max, FloatsOfGroup(j, I, key)) BY <3>2 DEF SummarizesGroup
      <4>2. {float} \ {None} \in SUBSET Int BY <3>7
      <4>3. IsGreatest(Greatest(old.max, float), FloatsOfGroup(j, I, key) \cup ({float} \ {None}))
        BY <4>1, <4>2, <3>8, <3>10, GreatestJoins
      <4> QED BY <4>3, <3>6, <3>9
    <3>13. SumsUp(j, q[key], RowsOfGroup(j, J, key))
      <4> DEFINE R == RowsOfGroup(j, I, key)
      <4>1. /\ IsFiniteSet(R) /\ i \notin R /\ R \cup {i} \subseteq DOMAIN j.table
            /\ \A n \in R \cup {i} : j.table[n] \in Rows
        BY <3>4 DEF RowsOfGroup
      <4>2. SumsUp(j, old, R) BY <3>2 DEF SummarizesGroup
      <4> HIDE DEF R
      <4>3. SumsUp(j, Fold(old, row, j.field), R \cup {i}) BY <4>1, <4>2, FoldSumsUp
      <4> QED BY <3>1, <3>3, <4>3 DEF R
    <3>14. old.count = Cardinality(RowsOfGroup(j, I, key)) BY <3>2 DEF SummarizesGroup
    <3> QED BY <3>5, <3>9, <3>11, <3>12, <3>13, <3>14 DEF SummarizesGroup
  <2> QED
    <3> HIDE DEF q
    <3>1. Summarizes(j, q, J) BY <2>1, <2>2, <2>3, <2>4 DEF Summarizes
    <3> QED BY <1>2, <3>1 DEF q
<1> QED BY <1>1, <1>2

\* Partial::merge of summaries of different rows summarizes them all.
LEMMA MergeSummarizes ==
  ASSUME NEW j, NEW I, NEW J, IsFiniteSet(I), IsFiniteSet(J), I \cap J = {},
         I \cup J \subseteq DOMAIN j.table, \A n \in I \cup J : j.table[n] \in Rows,
         NEW a, NEW b, Summarizes(j, a, I), Summarizes(j, b, J)
  PROVE  Summarizes(j, MergePartial(a, b), I \cup J)
<1> DEFINE c == MergePartial(a, b)
<1>1. DOMAIN c = DOMAIN a \cup DOMAIN b BY DEF MergePartial
<1>2. GroupsAmong(j, I \cup J) = GroupsAmong(j, I) \cup GroupsAmong(j, J) BY DEF GroupsAmong
<1>3. ASSUME NEW k \in DOMAIN c PROVE SummarizesGroup(j, c[k], I \cup J, k)
  <2>1. RowsOfGroup(j, I \cup J, k) = RowsOfGroup(j, I, k) \cup RowsOfGroup(j, J, k)
    BY DEF RowsOfGroup
  <2>2. FloatsOfGroup(j, I \cup J, k) = FloatsOfGroup(j, I, k) \cup FloatsOfGroup(j, J, k)
    BY <2>1 DEF FloatsOfGroup
  <2>3. CASE k \in DOMAIN a /\ k \in DOMAIN b
    <3>1. SummarizesGroup(j, a[k], I, k) /\ SummarizesGroup(j, b[k], J, k)
      BY <2>3 DEF Summarizes
    <3>2. c[k] = MergeAccum(a[k], b[k]) BY <2>3 DEF MergePartial
    <3>3. /\ c[k].count = a[k].count + b[k].count
          /\ c[k].min = Least(a[k].min, b[k].min)
          /\ c[k].max = Greatest(a[k].max, b[k].max)
      BY <3>2 DEF MergeAccum
    <3>4. /\ IsFiniteSet(RowsOfGroup(j, I, k)) /\ IsFiniteSet(RowsOfGroup(j, J, k))
          /\ RowsOfGroup(j, I, k) \cap RowsOfGroup(j, J, k) = {}
      BY FS_Subset DEF RowsOfGroup
    <3>5. Cardinality(RowsOfGroup(j, I \cup J, k))
            = Cardinality(RowsOfGroup(j, I, k)) + Cardinality(RowsOfGroup(j, J, k))
      <4> DEFINE S == RowsOfGroup(j, I, k)
                 T == RowsOfGroup(j, J, k)
      <4> HIDE DEF S, T
      <4>1. IsFiniteSet(S) /\ IsFiniteSet(T) /\ S \cap T = {} BY <3>4 DEF S, T
      <4>2. Cardinality(S \cup T) = Cardinality(S) + Cardinality(T) - Cardinality(S \cap T)
        BY <4>1, FS_Union
      <4>3. Cardinality(S) \in Nat /\ Cardinality(T) \in Nat /\ Cardinality(S \cap T) = 0
        BY <4>1, FS_CardinalityType, FS_EmptySet
      <4>4. Cardinality(S \cup T) = Cardinality(S) + Cardinality(T) BY <4>2, <4>3
      <4> QED BY <4>4, <2>1 DEF S, T
    <3>6. FloatsOfGroup(j, I, k) \in SUBSET Int /\ FloatsOfGroup(j, J, k) \in SUBSET Int
      BY FloatsAreInts
    <3>7. IsLeast(c[k].min, FloatsOfGroup(j, I \cup J, k))
      <4>1. /\ IsLeast(a[k].min, FloatsOfGroup(j, I, k))
            /\ IsLeast(b[k].min, FloatsOfGroup(j, J, k))
        BY <3>1 DEF SummarizesGroup
      <4>2. IsLeast(Least(a[k].min, b[k].min), FloatsOfGroup(j, I, k) \cup FloatsOfGroup(j, J, k))
        BY <4>1, <3>6, LeastJoins
      <4> QED BY <4>2, <2>2, <3>3
    <3>8. IsGreatest(c[k].max, FloatsOfGroup(j, I \cup J, k))
      <4>1. /\ IsGreatest(a[k].max, FloatsOfGroup(j, I, k))
            /\ IsGreatest(b[k].max, FloatsOfGroup(j, J, k))
        BY <3>1 DEF SummarizesGroup
      <4>2. IsGreatest(Greatest(a[k].max, b[k].max), FloatsOfGroup(j, I, k) \cup FloatsOfGroup(j, J, k))
        BY <4>1, <3>6, GreatestJoins
      <4> QED BY <4>2, <2>2, <3>3
    <3>9. SumsUp(j, c[k], RowsOfGroup(j, I \cup J, k))
      <4> DEFINE S == RowsOfGroup(j, I, k)
                 T == RowsOfGroup(j, J, k)
      <4>1. /\ S \cup T \subseteq DOMAIN j.table /\ \A n \in S \cup T : j.table[n] \in Rows
            /\ IsFiniteSet(S) /\ IsFiniteSet(T) /\ S \cap T = {}
        BY <3>4 DEF RowsOfGroup
      <4>2. SumsUp(j, a[k], S) /\ SumsUp(j, b[k], T) BY <3>1 DEF SummarizesGroup
      <4> HIDE DEF S, T
      <4>3. SumsUp(j, MergeAccum(a[k], b[k]), S \cup T) BY <4>1, <4>2, MergeSumsUp
      <4> QED BY <2>1, <3>2, <4>3 DEF S, T
    <3>10. /\ a[k].count = Cardinality(RowsOfGroup(j, I, k))
           /\ b[k].count = Cardinality(RowsOfGroup(j, J, k))
      BY <3>1 DEF SummarizesGroup
    <3> QED BY <3>3, <3>5, <3>7, <3>8, <3>9, <3>10 DEF SummarizesGroup
  <2>4. CASE k \in DOMAIN a /\ k \notin DOMAIN b
    <3>1. c[k] = a[k] /\ SummarizesGroup(j, a[k], I, k)
      BY <2>4 DEF MergePartial, Summarizes
    <3>2. RowsOfGroup(j, J, k) = {} BY <2>4, AbsentGroup DEF Summarizes
    <3>3. FloatsOfGroup(j, J, k) = {} BY <3>2 DEF FloatsOfGroup
    <3> QED BY <2>1, <2>2, <3>1, <3>2, <3>3 DEF SummarizesGroup
  <2>5. CASE k \notin DOMAIN a /\ k \in DOMAIN b
    <3>1. c[k] = b[k] /\ SummarizesGroup(j, b[k], J, k)
      BY <2>5 DEF MergePartial, Summarizes
    <3>2. RowsOfGroup(j, I, k) = {} BY <2>5, AbsentGroup DEF Summarizes
    <3>3. FloatsOfGroup(j, I, k) = {} BY <3>2 DEF FloatsOfGroup
    <3> QED BY <2>1, <2>2, <3>1, <3>2, <3>3 DEF SummarizesGroup
  <2> QED BY <1>1, <2>3, <2>4, <2>5
<1> QED
  <2> HIDE DEF c
  <2>1. Summarizes(j, c, I \cup J) BY <1>1, <1>2, <1>3 DEF Summarizes
  <2> QED BY <2>1 DEF c

LEMMA EmptySummarizes ==
  ASSUME NEW j
  PROVE  Summarizes(j, EmptyPartial, {})
<1>1. DOMAIN EmptyPartial = {} BY DEF EmptyPartial
<1>2. GroupsAmong(j, {}) = {} BY DEF GroupsAmong
<1> QED BY <1>1, <1>2 DEF Summarizes

-----------------------------------------------------------------------------
(* The invariant.                                                          *)

LEMMA TableFacts ==
  ASSUME NEW j \in Jobs
  PROVE  /\ j.parts \in Nat \ {0} /\ IsPredicate(j.pred)
         /\ DOMAIN j.table \in SUBSET Nat /\ IsFiniteSet(DOMAIN j.table)
         /\ \A i \in DOMAIN j.table : j.table[i] \in Rows
<1>1. JobOK(j) BY JobsAssumption
<1>2. j.table \in Seq(Rows) BY <1>1 DEF JobOK
<1>3. DOMAIN j.table = 1 .. Len(j.table) /\ Len(j.table) \in Nat BY <1>2
<1>4. IsFiniteSet(1 .. Len(j.table)) BY <1>3, FS_Interval
<1>5. \A i \in DOMAIN j.table : j.table[i] \in Rows BY <1>2
<1> QED BY <1>1, <1>3, <1>4, <1>5 DEF JobOK

LEMMA InitIInv == Init => IInv
<1> SUFFICES ASSUME Init PROVE IInv OBVIOUS
<1>1. Shape BY DEF Init, Shape, Live
<1>2. StatsCover
  <2>1. IsStats(NoStats)
    <3>1. DOMAIN NoStats.numeric = {} /\ NoStats.disqualified = {} BY DEF NoStats
    <3> QED BY <3>1 DEF IsStats
  <2>2. \A s : ShardRows(job, observed, s) = {} BY DEF Init, ShardRows
  <2>3. \A s \in Shards : stats[s] = NoStats BY DEF Init
  <2> QED BY <2>1, <2>2, <2>3 DEF StatsCover
<1>3. PruningDecided BY DEF Init, PruningDecided
<1>4. PartialsSummarize
  <2>1. \A s \in Shards : Summarizes(job, partial[s], ShardRows(job, folded, s))
    <3> TAKE s \in Shards
    <3>1. ShardRows(job, folded, s) = {} BY DEF Init, ShardRows
    <3>2. partial[s] = EmptyPartial BY DEF Init
    <3> QED BY <3>1, <3>2, EmptySummarizes
  <2>2. {i \in Indices : ShardOf(i) \in taken} = {} BY DEF Init
  <2>3. Summarizes(job, merged, {i \in Indices : ShardOf(i) \in taken})
    BY <2>2, EmptySummarizes DEF Init
  <2>4. taken = {} BY DEF Init
  <2> QED BY <2>1, <2>3, <2>4 DEF PartialsSummarize
<1>5. Answered BY DEF Init, Answered
<1> QED BY <1>1, <1>2, <1>3, <1>4, <1>5 DEF IInv

LEMMA NextIInv == IInv /\ [Next]_vars => IInv'
<1> SUFFICES ASSUME IInv, [Next]_vars PROVE IInv' OBVIOUS
<1> USE DEF IInv
<1>1. /\ job \in Jobs /\ Indices \in SUBSET Nat /\ IsFiniteSet(Indices)
      /\ \A i \in Indices : job.table[i] \in Rows /\ ShardOf(i) \in Shards
  BY TableFacts DEF Shape, Indices, Shards
<1>2. ASSUME NEW i \in Indices, ObserveRow(i) PROVE IInv'
  <2> DEFINE s == ShardOf(i)
             row == job.table[i]
  <2>1. /\ Indices' = Indices /\ Shards' = Shards /\ Live' = Live
        /\ observed' = observed \cup {i} /\ phase = "register"
        /\ stats' = [stats EXCEPT ![s] = Observe(@, row)]
        /\ UNCHANGED <<job, phase, pruned, folded, partial, taken, merged, answer>>
    BY <1>2 DEF ObserveRow, Indices, Shards, ShardOf, Live
  <2>2. Shape' BY <1>2, <2>1 DEF Shape
  <2>3. StatsCover'
    <3> SUFFICES ASSUME NEW t \in Shards
                 PROVE  /\ IsStats(stats'[t])
                        /\ \A n \in ShardRows(job, observed', t) : Covers(stats'[t], job.table[n])
      BY <2>1 DEF StatsCover
    <3>1. IsStats(stats[t]) /\ \A n \in ShardRows(job, observed, t) : Covers(stats[t], job.table[n])
      BY DEF StatsCover
    <3>2. \A n \in ShardRows(job, observed, t) : job.table[n] \in Rows
      BY <1>1 DEF ShardRows, Shape
    <3>3. CASE t = s
      <4>1. stats'[t] = Observe(stats[t], row) BY <2>1, <3>3 DEF Shape
      <4>2. ShardRows(job, observed', t) \subseteq ShardRows(job, observed, t) \cup {i}
        BY <2>1 DEF ShardRows
      <4>3. row \in Rows BY <1>1, <1>2
      <4> HIDE DEF row
      <4>4. /\ IsStats(Observe(stats[t], row)) /\ Covers(Observe(stats[t], row), row)
            /\ \A old \in Rows : Covers(stats[t], old) => Covers(Observe(stats[t], row), old)
        BY <3>1, <4>3, ObserveCovers
      <4> QED BY <3>1, <3>2, <4>1, <4>2, <4>4 DEF row
    <3>4. CASE t # s
      <4>1. stats'[t] = stats[t] BY <2>1, <3>4 DEF Shape
      <4>2. ShardRows(job, observed', t) \subseteq ShardRows(job, observed, t)
        BY <2>1, <3>4 DEF ShardRows, ShardOf
      <4> QED BY <3>1, <4>1, <4>2
    <3> QED BY <3>3, <3>4
  <2>4. PruningDecided' BY <2>1 DEF PruningDecided
  <2>5. PartialsSummarize'
    BY <2>1 DEF PartialsSummarize, Mapped, ShardOf, Live
  <2>6. Answered' BY <2>1 DEF Answered
  <2> QED BY <2>2, <2>3, <2>4, <2>5, <2>6
<1>3. CASE PlanQuery
  <2>1. /\ Indices' = Indices /\ Shards' = Shards
        /\ phase = "register" /\ phase' = "map" /\ observed = Indices
        /\ pruned' = {s \in Shards : ~CanMatch(job.pred, stats[s].numeric)}
        /\ UNCHANGED <<job, observed, stats, folded, partial, taken, merged, answer>>
    BY <1>3 DEF PlanQuery, Indices, Shards, ShardOf
  <2>2. Shape' BY <2>1 DEF Shape, Live, PruningDecided
  <2>3. StatsCover' BY <2>1 DEF StatsCover
  <2>4. PruningDecided' BY <2>1 DEF PruningDecided
  <2>5. PartialsSummarize'
    <3>1. taken' = {} /\ taken = {} BY <2>1 DEF PruningDecided
    <3>2. \A s \in Shards' : Summarizes(job', partial'[s], ShardRows(job', folded', s))
      BY <2>1 DEF PartialsSummarize
    <3>3. {i \in Indices' : ShardOf(i)' \in taken'} = {i \in Indices : ShardOf(i) \in taken}
      BY <3>1, <2>1 DEF ShardOf
    <3>4. Summarizes(job', merged', {i \in Indices' : ShardOf(i)' \in taken'})
      BY <2>1, <3>3 DEF PartialsSummarize
    <3> QED BY <3>1, <3>2, <3>4 DEF PartialsSummarize
  <2>6. Answered' BY <2>1 DEF Answered
  <2> QED BY <2>2, <2>3, <2>4, <2>5, <2>6
<1>4. ASSUME NEW i \in Indices, MapRow(i) PROVE IInv'
  <2> DEFINE s == ShardOf(i)
             row == job.table[i]
  <2>1. /\ Indices' = Indices /\ Shards' = Shards /\ Live' = Live
        /\ phase = "map" /\ i \notin folded /\ s \in Live
        /\ folded' = folded \cup {i}
        /\ partial' = IF Holds(job.pred, row)
                      THEN [partial EXCEPT ![s] = FoldRow(@, row, job.groupBy, job.field)]
                      ELSE partial
        /\ UNCHANGED <<job, phase, observed, stats, pruned, taken, merged, answer>>
    BY <1>4 DEF MapRow, Indices, Shards, ShardOf, Live, Qualifies
  <2>2. Shape' BY <1>4, <2>1 DEF Shape
  <2>3. StatsCover' BY <2>1 DEF StatsCover
  <2>4. PruningDecided' BY <2>1 DEF PruningDecided
  <2>5. ~Mapped /\ taken = {}
    BY <1>4, <2>1 DEF Mapped, PartialsSummarize
  <2>6. ASSUME NEW t \in Shards PROVE Summarizes(job, partial'[t], ShardRows(job, folded', t))
    <3>1. Summarizes(job, partial[t], ShardRows(job, folded, t)) BY DEF PartialsSummarize
    <3>2. CASE t = s
      <4> DEFINE I == ShardRows(job, folded, t)
      <4>1. ShardRows(job, folded', t) = I \cup {i} BY <2>1, <3>2 DEF ShardRows, ShardOf
      <4>2. i \notin I /\ I \subseteq Indices /\ IsFiniteSet(I)
        BY <1>1, <2>1, FS_Subset DEF ShardRows, Shape
      <4>3. /\ I \cup {i} \subseteq DOMAIN job.table
            /\ \A n \in I \cup {i} : job.table[n] \in Rows
        BY <1>1, <1>4, <4>2 DEF Indices
      <4>4. /\ Holds(job.pred, row) =>
                 partial'[t] = FoldRow(partial[t], row, job.groupBy, job.field)
            /\ ~Holds(job.pred, row) => partial'[t] = partial[t]
        BY <2>1, <3>2 DEF Shape
      <4> HIDE DEF I
      <4>5. /\ Holds(job.pred, row) =>
                 Summarizes(job, FoldRow(partial[t], row, job.groupBy, job.field), I \cup {i})
            /\ ~Holds(job.pred, row) => Summarizes(job, partial[t], I \cup {i})
        BY <3>1, <4>2, <4>3, FoldSummarizes DEF I
      <4> QED BY <4>1, <4>4, <4>5
    <3>3. CASE t # s
      <4>1. partial'[t] = partial[t] BY <2>1, <3>3 DEF Shape
      <4>2. ShardRows(job, folded', t) = ShardRows(job, folded, t)
        BY <2>1, <3>3 DEF ShardRows, ShardOf
      <4> QED BY <3>1, <4>1, <4>2
    <3> QED BY <3>2, <3>3
  <2>7. {n \in Indices' : ShardOf(n)' \in taken'} = {n \in Indices : ShardOf(n) \in taken}
    BY <2>1 DEF ShardOf
  <2>8. PartialsSummarize'
    <3>1. \A t \in Shards' : Summarizes(job', partial'[t], ShardRows(job', folded', t))
      BY <2>1, <2>6
    <3>2. Summarizes(job', merged', {n \in Indices' : ShardOf(n)' \in taken'})
      BY <2>1, <2>7 DEF PartialsSummarize
    <3> QED BY <2>1, <2>5, <3>1, <3>2 DEF PartialsSummarize
  <2>9. Answered' BY <2>1 DEF Answered
  <2> QED BY <2>2, <2>3, <2>4, <2>8, <2>9
<1>5. ASSUME NEW s \in Shards, MergeShard(s) PROVE IInv'
  <2>1. /\ Indices' = Indices /\ Shards' = Shards /\ Live' = Live /\ Mapped' = Mapped
        /\ phase = "map" /\ Mapped /\ s \in Live \ taken
        /\ taken' = taken \cup {s}
        /\ merged' = MergePartial(merged, partial[s])
        /\ UNCHANGED <<job, phase, observed, stats, pruned, folded, partial, answer>>
    BY <1>5 DEF MergeShard, Indices, Shards, ShardOf, Live, Mapped
  <2>2. Shape' BY <2>1 DEF Shape
  <2>3. StatsCover' BY <2>1 DEF StatsCover
  <2>4. PruningDecided' BY <2>1 DEF PruningDecided
  <2> DEFINE I == {n \in Indices : ShardOf(n) \in taken}
             J == ShardRows(job, folded, s)
  <2>5. {n \in Indices' : ShardOf(n)' \in taken'} = I \cup J
    <3>1. {n \in Indices' : ShardOf(n)' \in taken'}
            = I \cup {n \in Indices : ShardOf(n) = s}
      BY <2>1 DEF ShardOf
    <3>2. {n \in Indices : ShardOf(n) = s} = J
      BY <2>1 DEF Mapped, ShardRows, ShardOf, Shape
    <3> QED BY <3>1, <3>2
  <2>6. I \cap J = {} BY <2>1 DEF ShardRows, ShardOf
  <2>7. I \subseteq Indices /\ J \subseteq Indices BY DEF ShardRows, Shape
  <2>8. IsFiniteSet(I) /\ IsFiniteSet(J) BY <1>1, <2>7, FS_Subset
  <2>9. I \cup J \subseteq DOMAIN job.table /\ \A n \in I \cup J : job.table[n] \in Rows
    BY <1>1, <2>7 DEF Indices
  <2>10. Summarizes(job, merged, I) /\ Summarizes(job, partial[s], J)
    BY DEF PartialsSummarize
  <2>11. Summarizes(job, merged', I \cup J)
    <3> HIDE DEF I, J
    <3> QED BY <2>1, <2>6, <2>8, <2>9, <2>10, MergeSummarizes
  <2>12. PartialsSummarize'
    <3>1. Summarizes(job', merged', {n \in Indices' : ShardOf(n)' \in taken'})
      BY <2>1, <2>5, <2>11
    <3>2. \A t \in Shards' : Summarizes(job', partial'[t], ShardRows(job', folded', t))
      BY <2>1 DEF PartialsSummarize
    <3> QED BY <2>1, <3>1, <3>2 DEF PartialsSummarize
  <2>13. Answered' BY <2>1 DEF Answered
  <2> QED BY <2>2, <2>3, <2>4, <2>12, <2>13
<1>6. CASE FinishQuery \/ FinalizePanics
  <2>1. /\ Indices' = Indices /\ Shards' = Shards /\ Live' = Live /\ Mapped' = Mapped
        /\ phase = "map" /\ Mapped /\ taken = Live /\ phase' \in {"done", "panicked"}
        /\ phase' = "done" => answer' = [k \in DOMAIN merged |-> Finalize(merged[k])]
        /\ UNCHANGED <<job, observed, stats, pruned, folded, partial, taken, merged>>
    BY <1>6 DEF FinishQuery, FinalizePanics, Reduced, Indices, Shards, ShardOf, Live, Mapped
  <2>2. Shape' BY <2>1 DEF Shape
  <2>3. StatsCover' BY <2>1 DEF StatsCover
  <2>4. PruningDecided' BY <2>1 DEF PruningDecided
  <2>5. {n \in Indices' : ShardOf(n)' \in taken'} = {n \in Indices : ShardOf(n) \in taken}
    BY <2>1 DEF ShardOf
  <2>6. PartialsSummarize' BY <2>1, <2>5 DEF PartialsSummarize
  <2>7. Answered' BY <2>1 DEF Answered
  <2> QED BY <2>2, <2>3, <2>4, <2>6, <2>7
<1>7. CASE UNCHANGED vars
  <2>1. /\ UNCHANGED <<job, phase, observed, stats, pruned, folded, partial, taken, merged, answer>>
        /\ Indices' = Indices /\ Shards' = Shards /\ Live' = Live /\ Mapped' = Mapped
    BY <1>7 DEF vars, Indices, Shards, ShardOf, Live, Mapped
  <2>2. {n \in Indices' : ShardOf(n)' \in taken'} = {n \in Indices : ShardOf(n) \in taken}
    BY <2>1 DEF ShardOf
  <2>3. PartialsSummarize' BY <2>1, <2>2 DEF PartialsSummarize
  <2>4. Shape' /\ StatsCover' /\ PruningDecided' /\ Answered'
    BY <2>1 DEF Shape, StatsCover, PruningDecided, Answered
  <2> QED BY <2>3, <2>4
<1> QED BY <1>2, <1>3, <1>4, <1>5, <1>6, <1>7 DEF Next

\* The inductive invariant holds in every reachable state.
THEOREM ScanInvariantHolds == Spec => []IInv
BY InitIInv, NextIInv, PTL DEF Spec

-----------------------------------------------------------------------------
(* What follows from it.                                                   *)

\* No query compares with a string that reads as a number.
PlainJobs == \A j \in Jobs : PlainLiterals(j.pred)

LEMMA PrunedRowsFail ==
  ASSUME PlainJobs, IInv, phase # "register"
  PROVE  PrunedHoldNothing
<1> SUFFICES ASSUME NEW i \in Indices, ShardOf(i) \in pruned, Qualifies(i) PROVE FALSE
  BY DEF PrunedHoldNothing
<1> DEFINE s == ShardOf(i)
           row == job.table[i]
<1>1. /\ job \in Jobs /\ s \in Shards /\ IsPredicate(job.pred) /\ PlainLiterals(job.pred)
      /\ row \in Rows
  BY TableFacts DEF IInv, Shape, PlainJobs, Shards, Indices
<1>2. observed = Indices /\ ~CanMatch(job.pred, stats[s].numeric)
  BY DEF IInv, PruningDecided
<1>3. i \in ShardRows(job, observed, s) BY <1>2 DEF ShardRows, ShardOf
<1>4. IsStats(stats[s]) /\ Covers(stats[s], row)
  BY <1>1, <1>3 DEF IInv, StatsCover
<1>5. Holds(job.pred, row) BY DEF Qualifies
<1> QED
  <2> HIDE DEF row, s
  <2> QED BY <1>1, <1>2, <1>4, <1>5, CanMatchIsSound

\* Pruning never skips a shard that has a matching row, for any table, split and
\* predicate without strings that read as numbers among its literals.
THEOREM PruningIsSound ==
  ASSUME PlainJobs
  PROVE  Spec => []PrunedHoldNothing
<1>1. IInv => PrunedHoldNothing
  <2>1. CASE phase = "register" BY <2>1 DEF IInv, PruningDecided, PrunedHoldNothing
  <2>2. CASE phase # "register" BY <2>2, PrunedRowsFail
  <2> QED BY <2>1, <2>2
<1> QED BY <1>1, ScanInvariantHolds, PTL

LEMMA MergedIsWholeScan ==
  ASSUME PlainJobs, IInv, phase = "done"
  PROVE  /\ DOMAIN answer = GroupsAmong(job, Indices) /\ DOMAIN answer = DOMAIN merged
         /\ \A k \in DOMAIN answer :
              /\ answer[k] = Finalize(merged[k])
              /\ answer[k].count = Cardinality(RowsOfGroup(job, Indices, k))
              /\ IsLeast(answer[k].min, FloatsOfGroup(job, Indices, k))
              /\ IsGreatest(answer[k].max, FloatsOfGroup(job, Indices, k))
              /\ SumsUp(job, merged[k], RowsOfGroup(job, Indices, k))
<1> DEFINE I == {i \in Indices : ShardOf(i) \in taken}
<1>1. /\ Summarizes(job, merged, I) /\ taken = Live
      /\ answer = [k \in DOMAIN merged |-> Finalize(merged[k])]
  BY DEF IInv, PartialsSummarize, Answered
<1>2. \A i \in Indices \ I : ~Holds(job.pred, job.table[i])
  <2>1. PrunedHoldNothing BY PrunedRowsFail
  <2> QED BY <1>1, <2>1 DEF PrunedHoldNothing, Live, Shards, Qualifies
<1>3. I \subseteq Indices OBVIOUS
<1> HIDE DEF I
<1>4. GroupsAmong(job, Indices) = GroupsAmong(job, I) BY <1>2, <1>3 DEF GroupsAmong
<1>5. \A k : RowsOfGroup(job, Indices, k) = RowsOfGroup(job, I, k)
  BY <1>2, <1>3 DEF RowsOfGroup
<1>6. \A k : FloatsOfGroup(job, Indices, k) = FloatsOfGroup(job, I, k)
  BY <1>5 DEF FloatsOfGroup
<1>7. DOMAIN answer = DOMAIN merged BY <1>1
<1>8. \A k \in DOMAIN answer : /\ answer[k].count = merged[k].count
                               /\ answer[k].min = merged[k].min
                               /\ answer[k].max = merged[k].max
  BY <1>1 DEF Finalize
<1>9. \A k \in DOMAIN answer :
        answer[k] = Finalize(merged[k]) /\ SumsUp(job, merged[k], RowsOfGroup(job, Indices, k))
  BY <1>1, <1>5, <1>7 DEF Summarizes, SummarizesGroup
<1> QED BY <1>1, <1>4, <1>5, <1>6, <1>7, <1>8, <1>9 DEF Summarizes, SummarizesGroup

\* The groups and counts of the distributed answer are those of the whole table.
THEOREM DistributedCountsAreExact ==
  ASSUME PlainJobs
  PROVE  Spec => []CountsAreExact
<1>1. IInv => CountsAreExact
  <2> SUFFICES ASSUME IInv, phase = "done"
               PROVE  /\ DOMAIN answer = GroupsAmong(job, Indices)
                      /\ \A k \in DOMAIN answer :
                           answer[k].count = Cardinality(RowsOfGroup(job, Indices, k))
    BY DEF CountsAreExact, GroupsAmong, RowsOfGroup, Members, Qualifies
  <2> QED BY MergedIsWholeScan
<1> QED BY <1>1, ScanInvariantHolds, PTL

\* Its minima and maxima are those of the whole table.
THEOREM DistributedExtremesAreExact ==
  ASSUME PlainJobs
  PROVE  Spec => []ExtremesAreExact
<1>1. IInv => ExtremesAreExact
  <2> SUFFICES ASSUME IInv, phase = "done", NEW k \in DOMAIN answer
               PROVE  /\ IsLeast(answer[k].min, FloatsOfGroup(job, Indices, k))
                      /\ IsGreatest(answer[k].max, FloatsOfGroup(job, Indices, k))
    BY DEF ExtremesAreExact, Floats, FloatsOfGroup, RowsOfGroup, Members, Qualifies,
           IsLeast, IsGreatest
  <2> QED BY MergedIsWholeScan
<1> QED BY <1>1, ScanInvariantHolds, PTL

\* Its sums are those of the whole table, in whichever lane they end and however the
\* rows are split, as long as the magnitudes stay small enough; so are the sum and the
\* count that AVG divides.
THEOREM DistributedSumsAreExact ==
  ASSUME PlainJobs
  PROVE  Spec => []SumsAreExact
<1>1. IInv => SumsAreExact
  <2> SUFFICES ASSUME IInv, phase = "done", NEW k \in DOMAIN answer
               PROVE  LET R == Members(k)
                          size == Total(Sizes(Addends(job)), R)
                      IN  /\ \/ size > ExactUpTo /\ ~IntegersOnly(job, R)
                             \/ size > Larger(IntMax, ExactUpTo)
                             \/ answer[k].sum = Total(Addends(job), R)
                          /\ IF InFloats(job, R) = {} THEN answer[k].avg = None
                             ELSE /\ answer[k].avg.count = Cardinality(InFloats(job, R))
                                  /\ Total(Sizes(FloatAddends(job)), R) <= ExactUpTo =>
                                       answer[k].avg.total = Total(FloatAddends(job), R)
    BY DEF SumsAreExact
  <2> DEFINE R == Members(k)
             value == Total(Addends(job), R)
             size == Total(Sizes(Addends(job)), R)
             pure == IntegersOnly(job, R)
             y == Total(FloatAddends(job), R)
             m == Total(Sizes(FloatAddends(job)), R)
             F == InFloats(job, R)
  <2>1. Members(k) = RowsOfGroup(job, Indices, k)
    BY DEF Members, RowsOfGroup, Qualifies
  <2> DEFINE acc == merged[k]
  <2>2. answer[k] = Finalize(acc) /\ SumsUp(job, acc, R)
    BY <2>1, MergedIsWholeScan
  <2> HIDE DEF acc
  <2>3. IsFiniteSet(F) /\ value \in Int /\ size \in Int /\ y \in Int /\ m \in Int
    <3>1. /\ IsFiniteSet(R) /\ R \subseteq DOMAIN job.table
          /\ \A i \in R : job.table[i] \in Rows
      BY TableFacts, FS_Subset DEF IInv, Shape, Members, Indices
    <3>2. IsFiniteSet({}) /\ R \cap {} = {} /\ R \cup {} = R
      BY FS_EmptySet
    <3> HIDE DEF R
    <3>3. value \in Int /\ size \in Int /\ y \in Int /\ m \in Int
      BY <3>1, <3>2, TotalsAdd DEF TotalAdds
    <3>4. F \subseteq R
      BY DEF InFloats
    <3> QED BY <3>1, <3>3, <3>4, FS_Subset
  <2>4. /\ IsSum(acc.sum, pure, value, size) /\ IsFloatSum(acc.avgSum, y, m)
        /\ acc.avgCount = Cardinality(F)
    BY <2>2 DEF SumsUp
  <2>5. /\ answer[k].sum = IF acc.sum.lane = "int" THEN acc.sum.total
                           ELSE KahanTotal(acc.sum.total)
        /\ answer[k].avg = IF acc.avgCount = 0 THEN None
                           ELSE [total |-> KahanTotal(acc.avgSum), count |-> acc.avgCount]
    BY <2>2 DEF Finalize
  <2>6. F = {} <=> Cardinality(F) = 0
    <3> HIDE DEF F
    <3> QED BY <2>3, FS_EmptySet
  <2> HIDE DEF R, value, size, pure, y, m, F
  <2>7. \A n \in -ExactUpTo .. ExactUpTo : KahanTotal([sum |-> n, comp |-> 0]) = n
    BY FloatAssumption DEF KahanTotal
  <2>8. \/ size > ExactUpTo /\ ~pure
        \/ size > Larger(IntMax, ExactUpTo)
        \/ answer[k].sum = value
    <3>1. CASE acc.sum.lane = "int"
      BY <2>4, <2>5, <3>1 DEF IsSum
    <3>2. CASE acc.sum.lane # "int" /\ size <= ExactUpTo
      <4>1. acc.sum.total = [sum |-> value, comp |-> 0] /\ value \in -ExactUpTo .. ExactUpTo
        BY <2>3, <2>4, <3>2, FloatAssumption DEF IsSum
      <4> QED BY <2>5, <2>7, <3>2, <4>1
    <3>3. CASE acc.sum.lane # "int" /\ ~(size <= ExactUpTo)
      <4>1. pure => size > IntMax
        BY <2>4, <3>3 DEF IsSum
      <4>2. size > ExactUpTo
        BY <2>3, <3>3, FloatAssumption
      <4> QED BY <4>1, <4>2 DEF Larger
    <3> QED BY <3>1, <3>2, <3>3
  <2>9. m <= ExactUpTo => KahanTotal(acc.avgSum) = y
    <3> SUFFICES ASSUME m <= ExactUpTo PROVE KahanTotal(acc.avgSum) = y
      OBVIOUS
    <3>1. acc.avgSum = [sum |-> y, comp |-> 0] /\ y \in -ExactUpTo .. ExactUpTo
      BY <2>3, <2>4, FloatAssumption DEF IsFloatSum
    <3> QED BY <2>7, <3>1
  <2>10. IF F = {} THEN answer[k].avg = None
         ELSE /\ answer[k].avg.count = Cardinality(F)
              /\ m <= ExactUpTo => answer[k].avg.total = y
    BY <2>4, <2>5, <2>6, <2>9
  <2> QED BY <2>8, <2>10 DEF R, value, size, pure, y, m, F
<1> QED BY <1>1, ScanInvariantHolds, PTL

-----------------------------------------------------------------------------
(* The order of the results.                                               *)

\* R may leave elements of G tied, and ties are transitive.
WeakOrder(G, R) ==
  /\ \A a, b \in G : <<a, b>> \in R => <<b, a>> \notin R
  /\ \A a, b, c \in G : <<a, c>> \in R => <<a, b>> \in R \/ <<b, c>> \in R

IsCell(c) == c.type \in {"null", "number", "text"} /\ c.num \in Int /\ c.den \in Nat \ {0}

\* Ratios are compared by cross multiplication, cells of two types by their type.
LEMMA RatiosAreOrdered ==
  ASSUME NEW i \in Int, NEW j \in Int, NEW k \in Int,
         NEW x \in Nat \ {0}, NEW y \in Nat \ {0}, NEW z \in Nat \ {0}
  PROVE  i * z < k * x => i * y < j * x \/ j * z < k * y
<1> SUFFICES ASSUME ~(i * y < j * x), ~(j * z < k * y) PROVE ~(i * z < k * x)
  OBVIOUS
<1>1. \A a, b \in Int, c \in Nat : a <= b => a * c <= b * c
  OBVIOUS
<1>2. \A a, b \in Int, c \in Nat \ {0} : a * c <= b * c => a <= b
  OBVIOUS
<1>3. j * x <= i * y /\ k * y <= j * z
  OBVIOUS
<1>4. /\ i * y \in Int /\ j * x \in Int /\ j * z \in Int /\ k * y \in Int
      /\ i * z \in Int /\ k * x \in Int
  OBVIOUS
<1>5. (j * x) * z <= (i * y) * z /\ (k * y) * x <= (j * z) * x
  BY <1>1, <1>3, <1>4
<1>6. /\ (j * x) * z = (j * z) * x /\ (i * y) * z = (i * z) * y /\ (k * y) * x = (k * x) * y
      /\ (j * x) * z \in Int /\ (i * z) * y \in Int /\ (k * x) * y \in Int
  OBVIOUS
<1>7. (k * x) * y <= (i * z) * y
  BY <1>5, <1>6
<1>8. k * x <= i * z
  BY <1>2, <1>4, <1>7
<1> QED BY <1>4, <1>8

LEMMA CellsAreOrdered ==
  ASSUME NEW a, IsCell(a), NEW b, IsCell(b), NEW c, IsCell(c)
  PROVE  /\ CellLess(a, b) => ~CellLess(b, a)
         /\ CellLess(a, c) => CellLess(a, b) \/ CellLess(b, c)
<1>1. \A s, t \in {"null", "number", "text"} :
        TypeRank[s] \in Int /\ (TypeRank[s] = TypeRank[t] => s = t)
  BY DEF TypeRank
<1>2. CellLess(a, b) => ~CellLess(b, a)
  <2>1. CASE a.type = b.type
    <3>1. a.num * b.den \in Int /\ b.num * a.den \in Int
      BY DEF IsCell
    <3> QED BY <2>1, <3>1 DEF CellLess
  <2>2. CASE a.type # b.type
    <3>1. TypeRank[a.type] \in Int /\ TypeRank[b.type] \in Int
      BY <1>1 DEF IsCell
    <3> QED BY <2>2, <3>1 DEF CellLess
  <2> QED BY <2>1, <2>2
<1>3. CellLess(a, c) => CellLess(a, b) \/ CellLess(b, c)
  <2>1. CASE a.type = c.type /\ b.type = a.type
    <3>1. a.num * c.den < c.num * a.den => a.num * b.den < b.num * a.den \/ b.num * c.den < c.num * b.den
      BY RatiosAreOrdered DEF IsCell
    <3> QED BY <2>1, <3>1 DEF CellLess
  <2>2. CASE ~(a.type = c.type /\ b.type = a.type)
    <3>1. /\ TypeRank[a.type] \in Int /\ TypeRank[b.type] \in Int /\ TypeRank[c.type] \in Int
          /\ TypeRank[a.type] = TypeRank[b.type] => a.type = b.type
          /\ TypeRank[b.type] = TypeRank[c.type] => b.type = c.type
          /\ TypeRank[a.type] = TypeRank[c.type] => a.type = c.type
      BY <1>1 DEF IsCell
    <3>2. CASE a.type = c.type
      <4>1. TypeRank[a.type] < TypeRank[b.type] \/ TypeRank[b.type] < TypeRank[c.type]
        BY <2>2, <3>1, <3>2
      <4> QED BY <2>2, <3>2, <4>1 DEF CellLess
    <3>3. CASE a.type # c.type /\ b.type = a.type
      BY <3>3 DEF CellLess
    <3>4. CASE a.type # c.type /\ b.type = c.type
      BY <3>4 DEF CellLess
    <3>5. CASE a.type # c.type /\ b.type # a.type /\ b.type # c.type
      BY <3>1, <3>5 DEF CellLess
    <3> QED BY <3>2, <3>3, <3>4, <3>5
  <2> QED BY <2>1, <2>2
<1> QED BY <1>2, <1>3

\* Keys compared one after the other, each in a weak order, give a weak order.
LexLess(L, N, a, b) ==
  \E n \in 1 .. N : <<a, b>> \in L[n] /\ \A m \in 1 .. (n - 1) : <<b, a>> \notin L[m]

LEMMA KeysAreOrdered ==
  ASSUME NEW G, NEW N \in Nat, NEW L, \A n \in 1 .. N : WeakOrder(G, L[n]),
         NEW a \in G, NEW b \in G, NEW c \in G
  PROVE  /\ LexLess(L, N, a, b) => ~LexLess(L, N, b, a)
         /\ LexLess(L, N, a, c) => LexLess(L, N, a, b) \/ LexLess(L, N, b, c)
<1>1. LexLess(L, N, a, b) => ~LexLess(L, N, b, a)
  <2> SUFFICES ASSUME LexLess(L, N, a, b), LexLess(L, N, b, a) PROVE FALSE
    OBVIOUS
  <2>1. PICK n \in 1 .. N : <<a, b>> \in L[n] /\ \A m \in 1 .. (n - 1) : <<b, a>> \notin L[m]
    BY DEF LexLess
  <2>2. PICK m \in 1 .. N : <<b, a>> \in L[m] /\ \A k \in 1 .. (m - 1) : <<a, b>> \notin L[k]
    BY DEF LexLess
  <2>3. m < n \/ n < m \/ n = m
    OBVIOUS
  <2>4. ~(m < n)
    BY <2>1, <2>2
  <2>5. ~(n < m)
    BY <2>1, <2>2
  <2> QED BY <2>1, <2>2, <2>3, <2>4, <2>5 DEF WeakOrder
<1>2. ASSUME LexLess(L, N, a, c) PROVE LexLess(L, N, a, b) \/ LexLess(L, N, b, c)
  <2>1. PICK n \in 1 .. N : <<a, c>> \in L[n] /\ \A m \in 1 .. (n - 1) : <<c, a>> \notin L[m]
    BY <1>2 DEF LexLess
  <2> DEFINE M == {m \in 1 .. N : <<a, b>> \in L[m] \/ <<b, c>> \in L[m]}
  <2>2. n \in M
    BY <2>1 DEF WeakOrder
  <2>3. PICK m \in M : \A k \in M : m <= k
    <3>1. M \in SUBSET Nat /\ M # {}
      BY <2>2
    <3> HIDE DEF M
    <3> QED BY <3>1, LeastNat
  <2>4. m \in 1 .. N /\ m <= n /\ (<<a, b>> \in L[m] \/ <<b, c>> \in L[m])
    BY <2>2, <2>3
  <2>5. \A k \in 1 .. (m - 1) :
          k \in 1 .. N /\ <<a, b>> \notin L[k] /\ <<b, c>> \notin L[k] /\ <<c, a>> \notin L[k]
    <3> TAKE k \in 1 .. (m - 1)
    <3>1. k \in 1 .. N /\ k < m /\ k \in 1 .. (n - 1)
      BY <2>4
    <3>2. k \notin M
      BY <2>3, <2>4, <3>1
    <3> QED BY <2>1, <3>1, <3>2
  <2>6. \A k \in 1 .. (m - 1) : <<b, a>> \notin L[k] /\ <<c, b>> \notin L[k]
    BY <2>5 DEF WeakOrder
  <2> QED BY <2>4, <2>6 DEF LexLess
<1> QED BY <1>1, <1>2

\* Neither of two elements goes first by one of the first n keys.
LexTied(L, n, a, b) == \A m \in 1 .. n : <<a, b>> \notin L[m] /\ <<b, a>> \notin L[m]

\* The first key that tells two elements apart decides, and if none does they tie.
LEMMA FirstKeyDecides ==
  ASSUME NEW G, NEW N \in Nat, NEW L, \A n \in 1 .. N : WeakOrder(G, L[n]),
         NEW a \in G, NEW b \in G
  PROVE  /\ LexLess(L, N, a, b) =>
              \E n \in 1 .. N : <<a, b>> \in L[n] /\ LexTied(L, n - 1, a, b)
         /\ ~LexLess(L, N, a, b) /\ ~LexLess(L, N, b, a) => LexTied(L, N, a, b)
<1> DEFINE M == {m \in 1 .. N : <<a, b>> \in L[m] \/ <<b, a>> \in L[m]}
<1>1. ASSUME M # {}
      PROVE  \E n \in 1 .. N : n \in M /\ LexTied(L, n - 1, a, b)
  <2>1. PICK n \in M : \A m \in M : n <= m
    <3>1. M \in SUBSET Nat /\ M # {}
      BY <1>1
    <3> HIDE DEF M
    <3> QED BY <3>1, LeastNat
  <2>2. \A m \in 1 .. (n - 1) : m \in 1 .. N /\ ~(n <= m)
    OBVIOUS
  <2>3. LexTied(L, n - 1, a, b)
    BY <2>1, <2>2 DEF LexTied
  <2> QED BY <2>1, <2>3
<1>2. ASSUME NEW n \in 1 .. N, LexTied(L, n - 1, a, b)
      PROVE  /\ <<a, b>> \in L[n] => LexLess(L, N, a, b)
             /\ <<b, a>> \in L[n] => LexLess(L, N, b, a)
  BY <1>2 DEF LexLess, LexTied
<1>3. ASSUME LexLess(L, N, a, b)
      PROVE  \E n \in 1 .. N : <<a, b>> \in L[n] /\ LexTied(L, n - 1, a, b)
  <2>1. M # {}
    BY <1>3 DEF LexLess
  <2>2. PICK n \in 1 .. N : n \in M /\ LexTied(L, n - 1, a, b)
    BY <1>1, <2>1
  <2>3. ~LexLess(L, N, b, a)
    BY <1>3, KeysAreOrdered
  <2> QED BY <1>2, <2>2, <2>3
<1>4. ASSUME ~LexLess(L, N, a, b), ~LexLess(L, N, b, a) PROVE LexTied(L, N, a, b)
  <2>1. M = {}
    BY <1>1, <1>2, <1>4
  <2> QED BY <2>1 DEF LexTied
<1> QED BY <1>3, <1>4

\* A stable sort by a weak order puts the places of a sequence in one line.
LEMMA StableSortsInLine ==
  ASSUME NEW G, NEW W, WeakOrder(G, W), NEW rows \in Seq(G), NEW R,
         \A i, j \in DOMAIN rows :
           <<i, j>> \in R <=> \/ <<rows[i], rows[j]>> \in W
                              \/ <<rows[j], rows[i]>> \notin W /\ i < j
  PROVE  InLine(DOMAIN rows, R)
<1> DEFINE D == DOMAIN rows
<1>1. \A i \in D : i \in Int /\ rows[i] \in G
  OBVIOUS
<1> HIDE DEF D
<1>2. \A i \in D : <<i, i>> \notin R
  <2> TAKE i \in D
  <2>1. rows[i] \in G /\ ~(i < i)
    BY <1>1
  <2>2. <<rows[i], rows[i]>> \notin W
    BY <2>1 DEF WeakOrder
  <2> QED BY <2>1, <2>2 DEF D
<1>3. ASSUME NEW i \in D, NEW j \in D, NEW k \in D, <<i, j>> \in R, <<j, k>> \in R
      PROVE  <<i, k>> \in R
  <2> DEFINE a == rows[i]  b == rows[j]  c == rows[k]
  <2>1. a \in G /\ b \in G /\ c \in G /\ i \in Int /\ j \in Int /\ k \in Int
    BY <1>1
  <2>2. /\ <<a, b>> \in W \/ (<<b, a>> \notin W /\ i < j)
        /\ <<b, c>> \in W \/ (<<c, b>> \notin W /\ j < k)
        /\ <<a, c>> \in W \/ (<<c, a>> \notin W /\ i < k) => <<i, k>> \in R
    BY <1>3 DEF D
  <2> HIDE DEF a, b, c
  <2> QED BY <2>1, <2>2 DEF WeakOrder
<1>4. \A i, j \in D : i = j \/ <<i, j>> \in R \/ <<j, i>> \in R
  <2> TAKE i, j \in D
  <2>1. rows[i] \in G /\ rows[j] \in G /\ (i = j \/ i < j \/ j < i)
    BY <1>1
  <2>2. <<i, j>> \in R <=> <<rows[i], rows[j]>> \in W \/ (<<rows[j], rows[i]>> \notin W /\ i < j)
    BY DEF D
  <2>3. <<j, i>> \in R <=> <<rows[j], rows[i]>> \in W \/ (<<rows[i], rows[j]>> \notin W /\ j < i)
    BY DEF D
  <2> QED BY <2>1, <2>2, <2>3
<1> QED BY <1>2, <1>3, <1>4 DEF InLine, D

\* Groups with different keys differ first in some column.
LEMMA GroupsInLine ==
  ASSUME NEW groups, NEW columns, NEW U, columns \in Seq(U), NEW B, B = {columns[n] : n \in DOMAIN columns},
         \A a \in DOMAIN groups : a = [c \in B |-> a[c]],
         \A a, b \in DOMAIN groups : \A c \in B :
           LabelRank(a[c]) \in Int /\ (LabelRank(a[c]) = LabelRank(b[c]) => a[c] = b[c])
  PROVE  InLine(DOMAIN groups, KeyOrder(groups, columns))
<1> DEFINE G == DOMAIN groups
           cellAt(a, n) == LabelRank(a[columns[n]])
<1>1. \A a, b \in G : <<a, b>> \in KeyOrder(groups, columns) <=> KeyLess(columns, a, b)
  BY DEF KeyOrder
<1>2. DOMAIN columns = 1 .. Len(columns) /\ Len(columns) \in Nat
  OBVIOUS
<1>3. \A a, b \in G : \A n \in DOMAIN columns :
        cellAt(a, n) \in Int /\ (cellAt(a, n) = cellAt(b, n) <=> a[columns[n]] = b[columns[n]])
  OBVIOUS
<1>4. \A a, b \in G : KeyLess(columns, a, b) <=>
        \E n \in DOMAIN columns : cellAt(a, n) < cellAt(b, n) /\ \A m \in 1 .. (n - 1) : cellAt(a, m) = cellAt(b, m)
  <2> TAKE a, b \in G
  <2>1. \A n \in DOMAIN columns : \A m \in 1 .. (n - 1) : m \in DOMAIN columns
    BY <1>2
  <2> QED BY <1>3, <2>1 DEF KeyLess
<1>5. \A a, b \in G : a = b \/ \E n \in DOMAIN columns : cellAt(a, n) # cellAt(b, n)
  <2> TAKE a, b \in G
  <2>1. a = [c \in B |-> a[c]] /\ b = [c \in B |-> b[c]]
    OBVIOUS
  <2>2. (\A c \in B : a[c] = b[c]) => a = b
    BY <2>1
  <2> QED BY <1>3, <2>2
<1> HIDE DEF G, cellAt
<1>6. \A a \in G : <<a, a>> \notin KeyOrder(groups, columns)
  BY <1>1, <1>3, <1>4
<1>7. ASSUME NEW a \in G, NEW b \in G, NEW c \in G, KeyLess(columns, a, b), KeyLess(columns, b, c)
      PROVE  KeyLess(columns, a, c)
  <2>1. PICK n \in DOMAIN columns : cellAt(a, n) < cellAt(b, n) /\ \A m \in 1 .. (n - 1) : cellAt(a, m) = cellAt(b, m)
    BY <1>4, <1>7
  <2>2. PICK k \in DOMAIN columns : cellAt(b, k) < cellAt(c, k) /\ \A m \in 1 .. (k - 1) : cellAt(b, m) = cellAt(c, m)
    BY <1>4, <1>7
  <2>3. n \in Nat /\ k \in Nat /\ \A m \in DOMAIN columns : cellAt(a, m) \in Int /\ cellAt(b, m) \in Int /\ cellAt(c, m) \in Int
    BY <1>2, <1>3
  <2>4. CASE n < k
    <3>1. cellAt(a, n) < cellAt(c, n)
      <4>1. n \in 1 .. (k - 1)
        BY <1>2, <2>4
      <4> QED BY <2>1, <2>2, <4>1
    <3>2. \A m \in 1 .. (n - 1) : cellAt(a, m) = cellAt(c, m)
      <4> TAKE m \in 1 .. (n - 1)
      <4>1. m \in 1 .. (k - 1)
        BY <2>3, <2>4
      <4> QED BY <2>1, <2>2, <4>1
    <3> QED BY <1>4, <3>1, <3>2
  <2>5. CASE ~(n < k)
    <3>1. cellAt(a, k) < cellAt(c, k)
      <4>1. CASE k < n
        <5>1. k \in 1 .. (n - 1)
          BY <1>2, <4>1
        <5> QED BY <2>1, <2>2, <5>1
      <4>2. CASE k = n
        BY <2>1, <2>2, <2>3, <4>2
      <4> QED BY <2>3, <2>5, <4>1, <4>2
    <3>2. \A m \in 1 .. (k - 1) : cellAt(a, m) = cellAt(c, m)
      <4> TAKE m \in 1 .. (k - 1)
      <4>1. m \in 1 .. (n - 1)
        BY <2>3, <2>5
      <4> QED BY <2>1, <2>2, <4>1
    <3> QED BY <1>4, <3>1, <3>2
  <2> QED BY <2>4, <2>5
<1>8. ASSUME NEW a \in G, NEW b \in G, a # b
      PROVE  KeyLess(columns, a, b) \/ KeyLess(columns, b, a)
  <2> DEFINE M == {m \in DOMAIN columns : cellAt(a, m) # cellAt(b, m)}
  <2>1. M # {} /\ M \in SUBSET Nat
    BY <1>2, <1>5, <1>8
  <2>2. PICK n \in M : \A m \in M : n <= m
    <3> HIDE DEF M
    <3> QED BY <2>1, LeastNat
  <2>3. n \in DOMAIN columns /\ \A m \in 1 .. (n - 1) : cellAt(a, m) = cellAt(b, m)
    <3>1. n \in DOMAIN columns
      OBVIOUS
    <3>2. ASSUME NEW m \in 1 .. (n - 1) PROVE cellAt(a, m) = cellAt(b, m)
      <4>1. m \in DOMAIN columns /\ ~(n <= m)
        BY <1>2, <3>1
      <4> QED BY <2>2, <4>1
    <3> QED BY <3>1, <3>2
  <2>4. cellAt(a, n) < cellAt(b, n) \/ cellAt(b, n) < cellAt(a, n)
    BY <1>3, <2>3
  <2> QED BY <1>4, <2>3, <2>4
<1> QED BY <1>1, <1>6, <1>7, <1>8 DEF InLine, G

-----------------------------------------------------------------------------
(* Accumulators hold numbers, as long as rounding gives numbers.           *)

\* Infinities and NaN are left out of the model.
FloatsAreNumbers == \A n \in Int : ToFloat(n) \in Int

Compensated == [sum : Int, comp : Int]

SumNumbers == [lane : {"int"}, total : Int] \cup [lane : {"float"}, total : Compensated]

HoldsNumbers(acc) == acc.sum \in SumNumbers /\ acc.avgSum \in Compensated

AllNumbers(p) == \A k \in DOMAIN p : HoldsNumbers(p[k])

NumbersInv == (\A s \in DOMAIN partial : AllNumbers(partial[s])) /\ AllNumbers(merged)

LEMMA KahanHoldsNumbers ==
  ASSUME FloatsAreNumbers, NEW k \in Compensated, NEW v \in Int
  PROVE  KahanAdd(k, v) \in Compensated /\ KahanTotal(k) \in Int
<1>1. k.sum \in Int /\ k.comp \in Int /\ \A n \in Int : ToFloat(n) \in Int
  BY DEF Compensated, FloatsAreNumbers
<1> DEFINE t == ToFloat(k.sum + v)
           a == ToFloat(ToFloat(k.sum - t) + v)
           b == ToFloat(ToFloat(v - t) + k.sum)
           lost == IF Abs(k.sum) >= Abs(v) THEN a ELSE b
<1>2. t \in Int
  BY <1>1
<1> HIDE DEF t
<1>3. a \in Int /\ b \in Int
  <2>1. ToFloat(k.sum - t) \in Int /\ ToFloat(v - t) \in Int
    BY <1>1, <1>2
  <2> QED BY <1>1, <2>1
<1> HIDE DEF a, b
<1>4. lost \in Int
  BY <1>3
<1> HIDE DEF lost
<1>5. ToFloat(k.comp + lost) \in Int /\ ToFloat(k.sum + k.comp) \in Int
  BY <1>1, <1>4
<1>6. KahanAdd(k, v) = [sum |-> t, comp |-> ToFloat(k.comp + lost)]
  BY DEF KahanAdd, t, lost, a, b
<1> QED BY <1>2, <1>5, <1>6 DEF Compensated, KahanTotal

LEMMA KahansMerge ==
  ASSUME FloatsAreNumbers, NEW k \in Compensated, NEW l \in Compensated
  PROVE  KahanMerge(k, l) \in Compensated
<1> DEFINE added == KahanAdd(k, l.sum)
<1>1. l.sum \in Int /\ l.comp \in Int /\ \A n \in Int : ToFloat(n) \in Int
  BY DEF Compensated, FloatsAreNumbers
<1>2. added \in Compensated
  BY <1>1, KahanHoldsNumbers
<1>3. KahanMerge(k, l) = [added EXCEPT !.comp = ToFloat(@ + l.comp)]
  BY DEF KahanMerge
<1> HIDE DEF added
<1>4. added.comp \in Int
  BY <1>2 DEF Compensated
<1>5. ToFloat(added.comp + l.comp) \in Int
  BY <1>1, <1>4
<1> QED BY <1>2, <1>3, <1>5 DEF Compensated

LEMMA SumsHoldNumbers ==
  ASSUME FloatsAreNumbers, NEW sum \in SumNumbers, NEW x \in Int, NEW other \in SumNumbers
  PROVE  /\ AddInt(sum, x) \in SumNumbers /\ AddFloat(sum, x) \in SumNumbers
         /\ MergeSum(sum, other) \in SumNumbers
<1>1. \A n \in Int : ToFloat(n) \in Int
  BY DEF FloatsAreNumbers
<1>2. \A n \in Int : Promoted(n) \in Compensated
  <2> TAKE n \in Int
  <2>1. KahanZero \in Compensated
    BY DEF KahanZero, Compensated
  <2> QED BY <1>1, <2>1, KahanHoldsNumbers DEF Promoted
<1>3. \A n \in Int : AddInt(sum, n) \in SumNumbers
  <2> TAKE n \in Int
  <2>1. CASE sum.lane = "float"
    <3>1. sum.total \in Compensated /\ ToFloat(n) \in Int
      BY <1>1, <2>1 DEF SumNumbers
    <3>2. KahanAdd(sum.total, ToFloat(n)) \in Compensated
      BY <3>1, KahanHoldsNumbers
    <3> QED BY <2>1, <3>2 DEF AddInt, SumNumbers, FloatSum
  <2>2. CASE sum.lane = "int"
    <3>1. sum.total \in Int /\ sum.total + n \in Int /\ ToFloat(n) \in Int
      BY <1>1, <2>2 DEF SumNumbers
    <3>2. KahanAdd(Promoted(sum.total), ToFloat(n)) \in Compensated
      BY <1>2, <3>1, KahanHoldsNumbers
    <3> QED BY <2>2, <3>1, <3>2 DEF AddInt, SumNumbers, FloatSum, IntSum
  <2> QED BY <2>1, <2>2 DEF SumNumbers
<1> DEFINE total == IF sum.lane = "int" THEN Promoted(sum.total) ELSE sum.total
<1>4. total \in Compensated
  BY <1>2 DEF SumNumbers
<1>5. AddFloat(sum, x) = FloatSum(KahanAdd(total, x))
  BY DEF AddFloat
<1>6. other.lane # "int" => MergeSum(sum, other) = FloatSum(KahanMerge(total, other.total))
  BY DEF MergeSum
<1>7. other.lane = "int" => MergeSum(sum, other) = AddInt(sum, other.total) /\ other.total \in Int
  BY DEF MergeSum, SumNumbers
<1> HIDE DEF total
<1>8. AddFloat(sum, x) \in SumNumbers
  BY <1>4, <1>5, KahanHoldsNumbers DEF SumNumbers, FloatSum
<1>9. MergeSum(sum, other) \in SumNumbers
  <2>1. CASE other.lane # "int"
    <3>1. other.total \in Compensated
      BY <2>1 DEF SumNumbers
    <3>2. KahanMerge(total, other.total) \in Compensated
      BY <1>4, <3>1, KahansMerge
    <3> QED BY <1>6, <2>1, <3>2 DEF SumNumbers, FloatSum
  <2> QED BY <1>3, <1>7, <2>1
<1> QED BY <1>3, <1>8, <1>9

LEMMA FoldHoldsNumbers ==
  ASSUME FloatsAreNumbers, NEW row \in Rows, NEW field, NEW acc, HoldsNumbers(acc)
  PROVE  HoldsNumbers(Fold(acc, row, field))
<1> DEFINE num == Cell(row, field).num
           float == Cell(row, field).float
           new == Fold(acc, row, field)
<1>1. num \in [lane : Lanes, val : Int] \cup {None} /\ float \in Int \cup {None}
  BY CellNumbers, CellFloats
<1>2. /\ new.sum = IF num = None THEN acc.sum ELSE FoldSum(acc.sum, num)
      /\ new.avgSum = IF float = None THEN acc.avgSum ELSE KahanAdd(acc.avgSum, float)
  BY DEF Fold
<1>3. acc.sum \in SumNumbers /\ acc.avgSum \in Compensated
  BY DEF HoldsNumbers
<1> HIDE DEF num, float, new
<1>4. num # None => FoldSum(acc.sum, num) \in SumNumbers
  <2> SUFFICES ASSUME num # None PROVE FoldSum(acc.sum, num) \in SumNumbers
    OBVIOUS
  <2>1. num.val \in Int
    BY <1>1
  <2>2. AddInt(acc.sum, num.val) \in SumNumbers /\ AddFloat(acc.sum, num.val) \in SumNumbers
    BY <1>3, <2>1, SumsHoldNumbers
  <2> QED BY <2>2 DEF FoldSum
<1>5. float # None => KahanAdd(acc.avgSum, float) \in Compensated
  BY <1>1, <1>3, KahanHoldsNumbers
<1>6. HoldsNumbers(new)
  BY <1>2, <1>3, <1>4, <1>5 DEF HoldsNumbers
<1> QED BY <1>6 DEF new

LEMMA PartialsHoldNumbers ==
  ASSUME FloatsAreNumbers, NEW p, AllNumbers(p)
  PROVE  /\ \A row \in Rows : \A groupBy, field : AllNumbers(FoldRow(p, row, groupBy, field))
         /\ \A q : AllNumbers(q) => AllNumbers(MergePartial(p, q))
<1>1. HoldsNumbers(Zero)
  BY DEF HoldsNumbers, SumNumbers, Zero, IntSum, KahanZero, Compensated
<1>2. ASSUME NEW row \in Rows, NEW groupBy, NEW field
      PROVE  AllNumbers(FoldRow(p, row, groupBy, field))
  <2> DEFINE key == GroupKey(row, groupBy)
             old == IF key \in DOMAIN p THEN p[key] ELSE Zero
             q == FoldRow(p, row, groupBy, field)
  <2>1. q = [k \in DOMAIN p \cup {key} |-> IF k = key THEN Fold(old, row, field) ELSE p[k]]
    BY DEF FoldRow
  <2>2. HoldsNumbers(old)
    BY <1>1 DEF AllNumbers
  <2> HIDE DEF old, q, key
  <2>3. HoldsNumbers(Fold(old, row, field))
    BY <2>2, FoldHoldsNumbers
  <2>4. AllNumbers(q)
    BY <2>1, <2>3 DEF AllNumbers
  <2> QED BY <2>4 DEF q
<1>3. ASSUME NEW q, AllNumbers(q) PROVE AllNumbers(MergePartial(p, q))
  <2> DEFINE m == MergePartial(p, q)
  <2> SUFFICES ASSUME NEW k \in DOMAIN m PROVE HoldsNumbers(m[k])
    BY DEF AllNumbers
  <2>1. k \in DOMAIN p \cup DOMAIN q
    BY DEF MergePartial
  <2>2. CASE k \in DOMAIN p /\ k \in DOMAIN q
    <3> DEFINE a == p[k]  b == q[k]
    <3>1. m[k] = MergeAccum(a, b)
      BY <2>2 DEF MergePartial
    <3>2. HoldsNumbers(a) /\ HoldsNumbers(b)
      BY <1>3, <2>2 DEF AllNumbers
    <3> HIDE DEF m, a, b
    <3>3. m[k].sum = MergeSum(a.sum, b.sum) /\ m[k].avgSum = KahanMerge(a.avgSum, b.avgSum)
      BY <3>1 DEF MergeAccum
    <3>4. /\ a.sum \in SumNumbers /\ b.sum \in SumNumbers
          /\ a.avgSum \in Compensated /\ b.avgSum \in Compensated
      BY <3>2 DEF HoldsNumbers
    <3>5. MergeSum(a.sum, b.sum) \in SumNumbers
      <4>1. 0 \in Int
        OBVIOUS
      <4> QED BY <3>4, <4>1, SumsHoldNumbers
    <3>6. KahanMerge(a.avgSum, b.avgSum) \in Compensated
      BY <3>4, KahansMerge
    <3> QED BY <3>3, <3>5, <3>6 DEF HoldsNumbers
  <2>3. CASE ~(k \in DOMAIN p /\ k \in DOMAIN q)
    BY <1>3, <2>1, <2>3 DEF MergePartial, AllNumbers
  <2> QED BY <2>2, <2>3
<1> QED BY <1>2, <1>3

\* Every accumulator holds numbers, in every reachable state.
LEMMA AccumulatorsHoldNumbers ==
  ASSUME FloatsAreNumbers
  PROVE  Spec => []NumbersInv
<1>1. Init => NumbersInv
  <2> SUFFICES ASSUME Init PROVE NumbersInv
    OBVIOUS
  <2>1. DOMAIN EmptyPartial = {}
    BY DEF EmptyPartial
  <2>2. AllNumbers(EmptyPartial)
    BY <2>1 DEF AllNumbers
  <2> QED BY <2>2 DEF Init, NumbersInv
<1>2. IInv /\ NumbersInv /\ [Next]_vars => NumbersInv'
  <2> SUFFICES ASSUME IInv, NumbersInv, [Next]_vars PROVE NumbersInv'
    OBVIOUS
  <2>1. ASSUME NEW i \in Indices, MapRow(i) PROVE NumbersInv'
    <3> DEFINE s == ShardOf(i)
               new == FoldRow(partial[s], job.table[i], job.groupBy, job.field)
    <3>1. /\ merged' = merged
          /\ partial' = IF Qualifies(i) THEN [partial EXCEPT ![s] = new] ELSE partial
      BY <2>1 DEF MapRow
    <3>2. job.table[i] \in Rows
      BY TableFacts DEF IInv, Shape, Indices
    <3>3. s \in DOMAIN partial => AllNumbers(new)
      <4> SUFFICES ASSUME s \in DOMAIN partial PROVE AllNumbers(new)
        OBVIOUS
      <4>1. AllNumbers(partial[s])
        BY DEF NumbersInv
      <4> QED BY <3>2, <4>1, PartialsHoldNumbers
    <3> HIDE DEF new, s
    <3>4. \A t \in DOMAIN partial' : AllNumbers(partial'[t])
      BY <3>1, <3>3 DEF NumbersInv
    <3> QED BY <3>1, <3>4 DEF NumbersInv
  <2>2. ASSUME NEW s \in Shards, MergeShard(s) PROVE NumbersInv'
    <3>1. merged' = MergePartial(merged, partial[s]) /\ partial' = partial
      BY <2>2 DEF MergeShard
    <3>2. s \in DOMAIN partial
      BY DEF IInv, Shape
    <3>3. AllNumbers(merged) /\ AllNumbers(partial[s])
      BY <3>2 DEF NumbersInv
    <3>4. AllNumbers(MergePartial(merged, partial[s]))
      BY <3>3, PartialsHoldNumbers
    <3> QED BY <3>1, <3>4 DEF NumbersInv
  <2>3. CASE UNCHANGED <<partial, merged>>
    BY <2>3 DEF NumbersInv
  <2>4. CASE (\E i \in Indices : ObserveRow(i)) \/ PlanQuery \/ FinishQuery \/ FinalizePanics \/ UNCHANGED vars
    <3>1. UNCHANGED <<partial, merged>>
      BY <2>4 DEF ObserveRow, PlanQuery, FinishQuery, FinalizePanics, vars
    <3> QED BY <2>3, <3>1
  <2> QED BY <2>1, <2>2, <2>4 DEF Next
<1> QED BY <1>1, <1>2, ScanInvariantHolds, PTL DEF Spec

-----------------------------------------------------------------------------
(* What the groups are ordered by.                                         *)

\* A count is exact as a float.
TablesAreSmall == \A j \in Jobs : Len(j.table) <= ExactUpTo

LEMMA LeastIsMin ==
  ASSUME NEW V \in SUBSET Int, V # {}, NEW m
  PROVE  /\ IsLeast(m, V) => m \in Int /\ m = Min(V)
         /\ IsGreatest(m, V) => m \in Int /\ m = Max(V)
<1>1. ASSUME IsLeast(m, V) PROVE m \in Int /\ m = Min(V)
  <2>1. m \in V /\ \A v \in V : m <= v
    BY <1>1 DEF IsLeast
  <2>2. Min(V) \in V /\ \A v \in V : Min(V) <= v
    BY <2>1 DEF Min
  <2> HIDE DEF Min
  <2>3. m <= Min(V) /\ Min(V) <= m /\ m \in Int /\ Min(V) \in Int
    BY <2>1, <2>2
  <2> QED BY <2>3
<1>2. ASSUME IsGreatest(m, V) PROVE m \in Int /\ m = Max(V)
  <2>1. m \in V /\ \A v \in V : v <= m
    BY <1>2 DEF IsGreatest
  <2>2. Max(V) \in V /\ \A v \in V : v <= Max(V)
    BY <2>1 DEF Max
  <2>3. m <= Max(V) /\ Max(V) <= m /\ m \in Int /\ Max(V) \in Int
    BY <2>1, <2>2
  <2> QED BY <2>3
<1> QED BY <1>1, <1>2

\* The labels of a group's key come from a row, and have ranks.
LEMMA LabelsAreRanked ==
  ASSUME NEW j \in Jobs, NEW a \in GroupsAmong(j, DOMAIN j.table),
         NEW b \in GroupsAmong(j, DOMAIN j.table)
  PROVE  /\ DOMAIN a = j.groupBy /\ a = [c \in j.groupBy |-> a[c]]
         /\ \A c \in j.groupBy :
              LabelRank(a[c]) \in Int /\ (LabelRank(a[c]) = LabelRank(b[c]) => a[c] = b[c])
<1>1. PICK i \in DOMAIN j.table : a = GroupKey(j.table[i], j.groupBy)
  BY DEF GroupsAmong
<1>2. PICK n \in DOMAIN j.table : b = GroupKey(j.table[n], j.groupBy)
  BY DEF GroupsAmong
<1>3. DOMAIN a = j.groupBy /\ a = [c \in j.groupBy |-> a[c]]
  BY <1>1 DEF GroupKey
<1>4. ASSUME NEW c \in j.groupBy
      PROVE  LabelRank(a[c]) \in Int /\ (LabelRank(a[c]) = LabelRank(b[c]) => a[c] = b[c])
  <2>1. a[c] = Label(j.table[i], c) /\ b[c] = Label(j.table[n], c)
    BY <1>1, <1>2 DEF GroupKey
  <2>2. a[c] \in LabelsOf(j, c) /\ b[c] \in LabelsOf(j, c)
    BY <2>1 DEF LabelsOf
  <2> QED BY <2>2, LabelAssumption
<1> QED BY <1>3, <1>4

\* A cell of a group that is exact, rounded or not.
LEMMA FloatsAreRounded ==
  ASSUME IInv, NEW k, NEW m \in FloatsOfGroup(job, Indices, k)
  PROVE  m \in Int /\ ToFloat(m) = m
<1>1. PICK i \in Indices : m = Cell(job.table[i], job.field).float /\ m # None
  BY DEF FloatsOfGroup, RowsOfGroup
<1>2. job.table[i] \in Rows
  BY TableFacts DEF IInv, Shape, Indices
<1>3. Cell(job.table[i], job.field) \in Cells
  BY <1>1, <1>2 DEF Cell, Null, Rows
<1>4. m \in Int
  BY <1>1, <1>2, CellFloats
<1> QED BY <1>1, <1>3, <1>4, RoundedAssumption

\* The finalized columns of a group are cells, and those that TrueCell states of the table.
LEMMA ColumnsAreTrue ==
  ASSUME PlainJobs, FloatsAreNumbers, TablesAreSmall, IInv, NumbersInv, phase = "done",
         NEW k \in DOMAIN answer, NEW column
  PROVE  TrueCell(k, column) = RowCell(answer, k, column) /\ IsCell(RowCell(answer, k, column))
<1> DEFINE R == RowsOfGroup(job, Indices, k)
           V == FloatsOfGroup(job, Indices, k)
           acc == merged[k]
           group == answer[k]
<1>1. Members(k) = R /\ Floats(k) = V
  BY DEF Members, Floats, FloatsOfGroup, RowsOfGroup, Qualifies
<1>2. /\ group = Finalize(acc) /\ group.count = Cardinality(R)
      /\ IsLeast(group.min, V) /\ IsGreatest(group.max, V)
      /\ SumsUp(job, acc, R)
      /\ k \in GroupsAmong(job, Indices) /\ k \in DOMAIN merged
  BY MergedIsWholeScan
<1>3. job \in Jobs /\ Indices = DOMAIN job.table
  BY DEF IInv, Shape, Indices
<1>4. /\ IsFiniteSet(R) /\ Cardinality(R) \in Nat /\ Cardinality(R) <= ExactUpTo
  <2>1. JobOK(job) BY <1>3, JobsAssumption
  <2>2. /\ Indices = 1 .. Len(job.table) /\ Len(job.table) \in Nat
        /\ Len(job.table) <= ExactUpTo
    BY <1>3, <2>1 DEF JobOK, TablesAreSmall
  <2>3. IsFiniteSet(Indices) /\ Cardinality(Indices) = Len(job.table)
    BY <2>2, FS_Interval
  <2>4. R \subseteq Indices
    BY DEF RowsOfGroup
  <2> HIDE DEF R
  <2>5. IsFiniteSet(R) /\ Cardinality(R) <= Cardinality(Indices) /\ Cardinality(R) \in Nat
    BY <2>3, <2>4, FS_Subset, FS_CardinalityType
  <2> QED BY <2>2, <2>3, <2>5, FloatAssumption
<1>5. V \in SUBSET Int /\ \A m \in V : m \in Int /\ ToFloat(m) = m
  BY FloatsAreRounded
<1>6. HoldsNumbers(acc)
  BY <1>2 DEF NumbersInv, AllNumbers
<1> HIDE DEF R, V, acc, group
<1>7. \A n \in Int, d \in Nat \ {0} : IsCell(NumberCell(n, d))
  BY DEF IsCell, NumberCell
<1>8. IsCell(NullCell)
  BY DEF IsCell, NullCell
<1>9. CASE column \in DOMAIN k
  <2>1. TrueCell(k, column) = TextCell(k[column]) /\ RowCell(answer, k, column) = TextCell(k[column])
    BY <1>9 DEF TrueCell, RowCell
  <2>2. DOMAIN k = job.groupBy
    BY <1>2, <1>3, LabelsAreRanked
  <2>3. LabelRank(k[column]) \in Int
    BY <1>2, <1>3, <1>9, <2>2, LabelsAreRanked
  <2>4. IsCell(TextCell(k[column]))
    BY <2>3 DEF IsCell, TextCell
  <2> QED BY <2>1, <2>4
<1>10. CASE column \notin DOMAIN k /\ column = "count"
  <2>1. group.count = Cardinality(R) /\ group.count # None /\ ToFloat(group.count) = group.count
    BY <1>2, <1>4, FloatAssumption, NoneAssumption
  <2>2. RowCell(answer, k, column) = NumberCell(Cardinality(R), 1)
    BY <1>10, <2>1 DEF RowCell, Outputs, OutputCell, group
  <2>3. TrueCell(k, column) = NumberCell(Cardinality(R), 1)
    BY <1>1, <1>10 DEF TrueCell
  <2> QED BY <1>4, <1>7, <2>2, <2>3
<1>11. CASE column \notin DOMAIN k /\ column = "min"
  <2>1. RowCell(answer, k, column) = IF group.min = None THEN NullCell ELSE NumberCell(ToFloat(group.min), 1)
    BY <1>11 DEF RowCell, Outputs, OutputCell, group
  <2>2. TrueCell(k, column) = IF V # {} THEN NumberCell(Min(V), 1) ELSE NullCell
    BY <1>1, <1>11 DEF TrueCell
  <2>3. CASE V = {}
    BY <1>2, <1>8, <2>1, <2>2, <2>3 DEF IsLeast
  <2>4. CASE V # {}
    <3>1. group.min \in Int /\ group.min = Min(V) /\ group.min \in V
      BY <1>2, <1>5, <2>4, LeastIsMin DEF IsLeast
    <3>2. RowCell(answer, k, column) = NumberCell(group.min, 1)
      BY <1>5, <2>1, <3>1, NoneAssumption
    <3> QED BY <1>7, <2>2, <2>4, <3>1, <3>2
  <2> QED BY <2>3, <2>4
<1>12. CASE column \notin DOMAIN k /\ column = "max"
  <2>1. RowCell(answer, k, column) = IF group.max = None THEN NullCell ELSE NumberCell(ToFloat(group.max), 1)
    BY <1>12 DEF RowCell, Outputs, OutputCell, group
  <2>2. TrueCell(k, column) = IF V # {} THEN NumberCell(Max(V), 1) ELSE NullCell
    BY <1>1, <1>12 DEF TrueCell
  <2>3. CASE V = {}
    BY <1>2, <1>8, <2>1, <2>2, <2>3 DEF IsGreatest
  <2>4. CASE V # {}
    <3>1. group.max \in Int /\ group.max = Max(V) /\ group.max \in V
      BY <1>2, <1>5, <2>4, LeastIsMin DEF IsGreatest
    <3>2. RowCell(answer, k, column) = NumberCell(group.max, 1)
      BY <1>5, <2>1, <3>1, NoneAssumption
    <3> QED BY <1>7, <2>2, <2>4, <3>1, <3>2
  <2> QED BY <2>3, <2>4
<1>13. CASE column \notin DOMAIN k /\ column = "sum"
  <2>1. /\ RowCell(answer, k, column) = OutputCell(group, column)
        /\ TrueCell(k, column) = OutputCell(group, column)
    BY <1>13 DEF RowCell, Outputs, TrueCell, group
  <2>2. OutputCell(group, column) =
          IF group.sum = None THEN NullCell ELSE NumberCell(ToFloat(group.sum), 1)
    BY <1>13 DEF OutputCell
  <2>3. group.sum \in Int
    <3>1. group.sum = IF acc.sum.lane = "int" THEN acc.sum.total ELSE KahanTotal(acc.sum.total)
      BY <1>2 DEF Finalize
    <3>2. CASE acc.sum.lane = "int"
      BY <1>6, <3>1, <3>2 DEF HoldsNumbers, SumNumbers
    <3>3. CASE acc.sum.lane # "int"
      <4>1. acc.sum.total \in Compensated
        BY <1>6, <3>3 DEF HoldsNumbers, SumNumbers
      <4>2. 0 \in Int /\ KahanTotal(acc.sum.total) \in Int
        BY <4>1, KahanHoldsNumbers
      <4> QED BY <3>1, <3>3, <4>2
    <3> QED BY <3>2, <3>3
  <2>4. ToFloat(group.sum) \in Int
    BY <2>3 DEF FloatsAreNumbers
  <2> QED BY <1>7, <1>8, <2>1, <2>2, <2>4
<1>14. CASE column \notin DOMAIN k /\ column = "avg"
  <2>1. /\ RowCell(answer, k, column) = OutputCell(group, column)
        /\ TrueCell(k, column) = OutputCell(group, column)
    BY <1>14 DEF RowCell, Outputs, TrueCell, group
  <2>2. OutputCell(group, column) =
          IF group.avg = None THEN NullCell ELSE NumberCell(group.avg.total, group.avg.count)
    BY <1>14 DEF OutputCell
  <2>3. group.avg = IF acc.avgCount = 0 THEN None
                    ELSE [total |-> KahanTotal(acc.avgSum), count |-> acc.avgCount]
    BY <1>2 DEF Finalize
  <2>4. acc.avgCount \in Nat
    <3>1. InFloats(job, R) \subseteq R
      BY DEF InFloats
    <3> QED BY <1>2, <1>4, <3>1, FS_Subset, FS_CardinalityType DEF SumsUp
  <2>5. KahanTotal(acc.avgSum) \in Int
    BY <1>6, KahanHoldsNumbers DEF HoldsNumbers
  <2> QED BY <1>7, <1>8, <2>1, <2>2, <2>3, <2>4, <2>5
<1>15. CASE column \notin DOMAIN k /\ column \notin Outputs
  BY <1>8, <1>15 DEF RowCell, TrueCell, Outputs
<1> QED BY <1>9, <1>10, <1>11, <1>12, <1>13, <1>14, <1>15 DEF Outputs

-----------------------------------------------------------------------------
(* ORDER BY.                                                               *)

\* The groups that an ORDER BY key tells apart, and the keys one after the other.
KeyTells(groups, key) ==
  {pair \in (DOMAIN groups) \X (DOMAIN groups) :
     LessUnder(key, RowCell(groups, pair[1], key.column), RowCell(groups, pair[2], key.column))}
KeysTell(groups, orderBy) == [n \in DOMAIN orderBy |-> KeyTells(groups, orderBy[n])]

\* Each key orders the groups, and cmp_by_keys takes the keys one after the other.
LEMMA KeysOrderGroups ==
  ASSUME NEW groups, NEW orderBy, NEW N \in Nat, DOMAIN orderBy = 1 .. N,
         \A k \in DOMAIN groups : \A n \in 1 .. N : IsCell(RowCell(groups, k, orderBy[n].column))
  PROVE  /\ \A n \in 1 .. N : WeakOrder(DOMAIN groups, KeysTell(groups, orderBy)[n])
         /\ \A a, b \in DOMAIN groups :
              Precedes(groups, orderBy, a, b) <=> LexLess(KeysTell(groups, orderBy), N, a, b)
<1> DEFINE G == DOMAIN groups
           L == KeysTell(groups, orderBy)
           cellAt(k, n) == RowCell(groups, k, orderBy[n].column)
<1>1. \A n \in 1 .. N : \A a, b \in G : <<a, b>> \in L[n] <=> LessUnder(orderBy[n], cellAt(a, n), cellAt(b, n))
  BY DEF KeysTell, KeyTells
<1>2. ASSUME NEW n \in 1 .. N PROVE WeakOrder(G, L[n])
  <2>1. ASSUME NEW a \in G, NEW b \in G, NEW c \in G
        PROVE  /\ <<a, b>> \in L[n] => <<b, a>> \notin L[n]
               /\ <<a, c>> \in L[n] => <<a, b>> \in L[n] \/ <<b, c>> \in L[n]
    <3> DEFINE x == cellAt(a, n)  y == cellAt(b, n)  z == cellAt(c, n)
    <3>1. IsCell(x) /\ IsCell(y) /\ IsCell(z)
      OBVIOUS
    <3>2. /\ <<a, b>> \in L[n] <=> LessUnder(orderBy[n], x, y)
          /\ <<b, a>> \in L[n] <=> LessUnder(orderBy[n], y, x)
          /\ <<a, c>> \in L[n] <=> LessUnder(orderBy[n], x, z)
          /\ <<b, c>> \in L[n] <=> LessUnder(orderBy[n], y, z)
      BY <1>1
    <3> HIDE DEF x, y, z, L
    <3>3. /\ CellLess(x, y) => ~CellLess(y, x)
          /\ CellLess(x, z) => CellLess(x, y) \/ CellLess(y, z)
          /\ CellLess(z, x) => CellLess(z, y) \/ CellLess(y, x)
      BY <3>1, CellsAreOrdered
    <3> QED BY <3>2, <3>3 DEF LessUnder
  <2> QED BY <2>1 DEF WeakOrder
<1>3. ASSUME NEW a \in G, NEW b \in G
      PROVE  Precedes(groups, orderBy, a, b) <=> LexLess(L, N, a, b)
  <2>1. \A n \in 1 .. N : \A m \in 1 .. (n - 1) : m \in 1 .. N
    OBVIOUS
  <2>2. LexLess(L, N, a, b) <=>
          \E n \in 1 .. N : /\ LessUnder(orderBy[n], cellAt(a, n), cellAt(b, n))
                           /\ \A m \in 1 .. (n - 1) : ~LessUnder(orderBy[m], cellAt(b, m), cellAt(a, m))
    <3> HIDE DEF L, cellAt
    <3> QED BY <1>1, <2>1 DEF LexLess
  <2> QED BY <2>2 DEF Precedes
<1> QED BY <1>2, <1>3

\* Group a is listed before group b: by the ORDER BY keys, or by their own when those tie.
GoesFirst(groups, columns, orderBy, a, b) ==
  \/ Precedes(groups, orderBy, a, b)
  \/ ~Precedes(groups, orderBy, b, a) /\ KeyLess(columns, a, b)

\* rows is all the groups, each once, each before those it goes first of.
ListsGroups(groups, columns, orderBy, rows) ==
  /\ rows \in Seq(DOMAIN groups)
  /\ \A k \in DOMAIN groups : \E i \in DOMAIN rows : rows[i] = k
  /\ \A i, j \in DOMAIN rows : rows[i] = rows[j] => i = j
  /\ \A i, j \in DOMAIN rows : i < j => GoesFirst(groups, columns, orderBy, rows[i], rows[j])

\* order_rows after finalize.
LEMMA GroupsAreListed ==
  ASSUME NEW groups, IsFiniteSet(DOMAIN groups),
         NEW columns, InLine(DOMAIN groups, KeyOrder(groups, columns)),
         NEW orderBy, NEW N \in Nat, DOMAIN orderBy = 1 .. N,
         NEW L, \A n \in 1 .. N : WeakOrder(DOMAIN groups, L[n]),
         \A a, b \in DOMAIN groups : Precedes(groups, orderBy, a, b) <=> LexLess(L, N, a, b)
  PROVE  ListsGroups(groups, columns, orderBy, OrderRows(groups, InKeyOrder(groups, columns), orderBy))
<1> DEFINE G == DOMAIN groups
           K == KeyOrder(groups, columns)
           keyed == InKeyOrder(groups, columns)
           RO == RowOrder(groups, keyed, orderBy)
           places == Listed(DOMAIN keyed, RO)
           rows == OrderRows(groups, keyed, orderBy)
           W == {pair \in G \X G : Precedes(groups, orderBy, pair[1], pair[2])}
<1>1. WeakOrder(G, W)
  <2>1. \A a, b \in G : <<a, b>> \in W <=> LexLess(L, N, a, b)
    OBVIOUS
  <2>2. ASSUME NEW a \in G, NEW b \in G, NEW c \in G
        PROVE  /\ LexLess(L, N, a, b) => ~LexLess(L, N, b, a)
               /\ LexLess(L, N, a, c) => LexLess(L, N, a, b) \/ LexLess(L, N, b, c)
    BY KeysAreOrdered
  <2> HIDE DEF W, G
  <2> QED BY <2>1, <2>2 DEF WeakOrder
<1>2. IsListing(keyed, G, K)
  BY ListedInOrder DEF InKeyOrder
<1>3. /\ keyed \in Seq(G) /\ \A k \in G : \E i \in DOMAIN keyed : keyed[i] = k
      /\ \A i, j \in DOMAIN keyed : i < j => <<keyed[i], keyed[j]>> \in K
      /\ \A i, j \in DOMAIN keyed : keyed[i] = keyed[j] => i = j
  BY <1>2 DEF IsListing
<1> HIDE DEF keyed
<1>4. DOMAIN keyed = 1 .. Len(keyed) /\ Len(keyed) \in Nat /\ \A i \in DOMAIN keyed : keyed[i] \in G
  BY <1>3
<1>5. \A i, j \in DOMAIN keyed :
        <<i, j>> \in RO <=>
          <<keyed[i], keyed[j]>> \in W \/ (<<keyed[j], keyed[i]>> \notin W /\ i < j)
  BY <1>4 DEF RowOrder
<1>6. InLine(DOMAIN keyed, RO)
  <2> HIDE DEF W, RO, G
  <2> QED BY <1>1, <1>3, <1>5, StableSortsInLine
<1>7. IsFiniteSet(DOMAIN keyed) /\ Cardinality(DOMAIN keyed) = Len(keyed)
  BY <1>4, IndicesAreFinite
<1>8. IsListing(places, DOMAIN keyed, RO)
  BY <1>6, <1>7, ListedInOrder
<1>9. /\ places \in Seq(DOMAIN keyed) /\ Len(places) = Len(keyed)
      /\ \A i \in DOMAIN keyed : \E j \in DOMAIN places : places[j] = i
      /\ \A i, j \in DOMAIN places : i < j => <<places[i], places[j]>> \in RO
      /\ \A i, j \in DOMAIN places : places[i] = places[j] => i = j
  BY <1>7, <1>8 DEF IsListing
<1>10. rows = [i \in DOMAIN keyed |-> keyed[places[i]]]
  BY DEF OrderRows
<1> HIDE DEF places, RO, rows, G
<1>11. DOMAIN places = DOMAIN keyed /\ \A i \in DOMAIN keyed : places[i] \in DOMAIN keyed
  BY <1>4, <1>9
<1>12. DOMAIN rows = DOMAIN keyed /\ \A i \in DOMAIN keyed : rows[i] = keyed[places[i]]
  BY <1>10
<1>13. rows \in Seq(G)
  BY <1>4, <1>10, <1>11
<1>14. \A k \in G : \E i \in DOMAIN rows : rows[i] = k
  BY <1>3, <1>9, <1>11, <1>12
<1>15. \A i, j \in DOMAIN rows : rows[i] = rows[j] => i = j
  BY <1>3, <1>9, <1>11, <1>12
<1>16. ASSUME NEW i \in DOMAIN rows, NEW j \in DOMAIN rows, i < j
       PROVE  GoesFirst(groups, columns, orderBy, rows[i], rows[j])
  <2> DEFINE a == rows[i]  b == rows[j]  m == places[i]  n == places[j]
  <2>1. /\ m \in DOMAIN keyed /\ n \in DOMAIN keyed /\ <<m, n>> \in RO
        /\ a = keyed[m] /\ b = keyed[n] /\ a \in G /\ b \in G
    BY <1>4, <1>9, <1>11, <1>12, <1>16
  <2> HIDE DEF a, b, m, n
  <2>2. <<a, b>> \in W \/ (<<b, a>> \notin W /\ m < n)
    BY <1>5, <2>1
  <2>3. m < n => <<a, b>> \in K
    BY <1>3, <2>1
  <2>4. <<a, b>> \in K => KeyLess(columns, a, b)
    BY DEF KeyOrder
  <2>5. /\ <<a, b>> \in W => Precedes(groups, orderBy, a, b)
        /\ <<b, a>> \notin W => ~Precedes(groups, orderBy, b, a)
    BY <2>1
  <2>6. GoesFirst(groups, columns, orderBy, a, b)
    BY <2>2, <2>3, <2>4, <2>5 DEF GoesFirst
  <2> QED BY <2>6 DEF a, b
<1> QED BY <1>13, <1>14, <1>15, <1>16 DEF ListsGroups, G, rows, keyed

\* In the order asked for, groups are listed as MayPrecede states of the table.
LEMMA GoingFirstIsAllowed ==
  ASSUME PlainJobs, FloatsAreNumbers, TablesAreSmall, IInv, NumbersInv, phase = "done",
         InLine(DOMAIN answer, KeyOrder(answer, job.groupList)),
         NEW N \in Nat, DOMAIN job.orderBy = 1 .. N,
         \A n \in 1 .. N : job.orderBy[n] \in OrderKeys,
         NEW a \in DOMAIN answer, NEW b \in DOMAIN answer,
         GoesFirst(answer, job.groupList, job.orderBy, a, b)
  PROVE  MayPrecede(a, b)
<1> DEFINE G == DOMAIN answer
           L == KeysTell(answer, job.orderBy)
           key(n) == job.orderBy[n]
<1>1. /\ \A n \in 1 .. N : WeakOrder(G, L[n])
      /\ \A x, y \in G : Precedes(answer, job.orderBy, x, y) <=> LexLess(L, N, x, y)
  <2>1. \A k \in DOMAIN answer : \A n \in 1 .. N : IsCell(RowCell(answer, k, job.orderBy[n].column))
    BY ColumnsAreTrue
  <2> QED BY <2>1, KeysOrderGroups
<1>2. \A n \in 1 .. N : \A x, y \in G :
        <<x, y>> \in L[n] <=>
          LessUnder(key(n), RowCell(answer, x, key(n).column), RowCell(answer, y, key(n).column))
  BY DEF KeysTell, KeyTells
<1>3. \A n \in 1 .. N : \A x, y \in G :
        CellLess(RowCell(answer, x, key(n).column), RowCell(answer, y, key(n).column)) <=>
          Below(x, y, key(n).column)
  BY ColumnsAreTrue DEF Below
<1>4. \A n \in 1 .. N : \A x, y \in G :
        <<x, y>> \in L[n] <=> IF key(n).dir = "desc" THEN Below(y, x, key(n).column)
                               ELSE Below(x, y, key(n).column)
  BY <1>2, <1>3 DEF LessUnder
<1>5. \A n \in 1 .. N : key(n).dir \in {"asc", "desc"}
  BY DEF OrderKeys, Directions
<1> HIDE DEF L, G
<1>6. a \in G /\ b \in G
  BY DEF G
<1>7. ASSUME NEW n \in 0 .. N, LexTied(L, n, a, b) PROVE Tied(a, b, 1 .. n)
  <2>1. \A m \in 1 .. n : m \in 1 .. N /\ <<a, b>> \notin L[m] /\ <<b, a>> \notin L[m]
    BY <1>7 DEF LexTied
  <2> QED BY <1>4, <1>6, <2>1 DEF Tied
<1>8. CASE LexLess(L, N, a, b)
  <2>1. PICK n \in 1 .. N : <<a, b>> \in L[n] /\ LexTied(L, n - 1, a, b)
    BY <1>1, <1>6, <1>8, FirstKeyDecides
  <2>2. n - 1 \in 0 .. N
    OBVIOUS
  <2>3. Tied(a, b, 1 .. (n - 1))
    BY <1>7, <2>1, <2>2
  <2>4. IF key(n).dir = "asc" THEN Below(a, b, key(n).column) ELSE Below(b, a, key(n).column)
    BY <1>4, <1>5, <1>6, <2>1
  <2> QED BY <2>3, <2>4 DEF MayPrecede
<1>9. CASE ~LexLess(L, N, a, b)
  <2>1. ~LexLess(L, N, b, a) /\ KeyLess(job.groupList, a, b)
    BY <1>1, <1>6, <1>9 DEF GoesFirst
  <2>2. LexTied(L, N, a, b)
    BY <1>1, <1>6, <1>9, <2>1, FirstKeyDecides
  <2>3. Tied(a, b, DOMAIN job.orderBy)
    <3>1. N \in 0 .. N
      OBVIOUS
    <3> QED BY <1>7, <2>2, <3>1
  <2>4. ~KeyLess(job.groupList, b, a)
    <3>1. <<a, b>> \in KeyOrder(answer, job.groupList)
      BY <2>1 DEF KeyOrder
    <3>2. <<b, a>> \notin KeyOrder(answer, job.groupList)
      BY <3>1 DEF InLine
    <3> QED BY <3>2 DEF KeyOrder
  <2> QED BY <2>3, <2>4 DEF MayPrecede
<1> QED BY <1>8, <1>9

\* The groups of a finite table are finitely many, and their keys put them in one line.
LEMMA GroupsOfATable ==
  ASSUME PlainJobs, IInv, phase = "done"
  PROVE  IsFiniteSet(DOMAIN answer) /\ InLine(DOMAIN answer, KeyOrder(answer, job.groupList))
<1> DEFINE G == DOMAIN answer
           Q == {n \in Indices : Holds(job.pred, job.table[n])}
           f == [i \in Q |-> GroupKey(job.table[i], job.groupBy)]
<1>1. G = GroupsAmong(job, Indices)
  BY MergedIsWholeScan
<1>2. job \in Jobs /\ Indices = DOMAIN job.table /\ JobOK(job)
  BY JobsAssumption DEF IInv, Shape, Indices
<1>3. IsFiniteSet(G)
  <2>1. IsFiniteSet(Indices) /\ Q \subseteq Indices
    BY <1>2, TableFacts
  <2>2. G = {f[i] : i \in Q}
    BY <1>1 DEF GroupsAmong
  <2> HIDE DEF G
  <2>3. f \in [Q -> G] /\ \A k \in G : \E i \in Q : f[i] = k
    BY <2>2
  <2>4. f \in Surjection(Q, G)
    BY <2>3 DEF Surjection
  <2>5. IsFiniteSet(Q)
    BY <2>1, FS_Subset
  <2> HIDE DEF Q, f
  <2> QED BY <2>4, <2>5, FS_Surjection
<1>4. /\ job.groupList \in Seq(Columns)
      /\ job.groupBy = {job.groupList[n] : n \in DOMAIN job.groupList}
  BY <1>2 DEF JobOK, Range
<1>5. \A a \in G : a = [c \in job.groupBy |-> a[c]]
  BY <1>1, <1>2, LabelsAreRanked
<1>6. \A a, b \in G : \A c \in job.groupBy :
        LabelRank(a[c]) \in Int /\ (LabelRank(a[c]) = LabelRank(b[c]) => a[c] = b[c])
  BY <1>1, <1>2, LabelsAreRanked
<1>7. InLine(G, KeyOrder(answer, job.groupList))
  BY <1>4, <1>5, <1>6, GroupsInLine
<1> QED BY <1>3, <1>7

\* ORDER BY with LIMIT over the distributed groups gives the top of the whole table's, as
\* long as no table has more rows than an exact float counts and rounding gives numbers.
THEOREM DistributedResultsAreTheTop ==
  ASSUME PlainJobs, FloatsAreNumbers, TablesAreSmall
  PROVE  Spec => []ResultsAreTheTop
<1>1. ASSUME IInv, NumbersInv, phase = "done"
      PROVE  LET groups == DOMAIN answer
                 listed == Range(Results)
             IN  /\ Len(Results) = Cardinality(listed) /\ listed \subseteq groups
                 /\ \/ listed = groups
                    \/ job.limit # NoLimit /\ Len(Results) = job.limit
                 /\ \A m, n \in DOMAIN Results : m < n => MayPrecede(Results[m], Results[n])
                 /\ \A k \in groups \ listed, n \in DOMAIN Results : MayPrecede(Results[n], k)
  <2> DEFINE groups == DOMAIN answer
             listed == Range(Results)
             rows == OrderRows(answer, InKeyOrder(answer, job.groupList), job.orderBy)
             N == Len(job.orderBy)
             M == Len(Results)
  <2>1. job \in Jobs /\ JobOK(job)
    BY <1>1, JobsAssumption DEF IInv, Shape
  <2>2. /\ N \in Nat /\ DOMAIN job.orderBy = 1 .. N
        /\ \A n \in 1 .. N : job.orderBy[n] \in OrderKeys
        /\ job.limit \in Nat \cup {NoLimit}
    BY <2>1 DEF JobOK
  <2>3. IsFiniteSet(groups) /\ InLine(groups, KeyOrder(answer, job.groupList))
    BY <1>1, GroupsOfATable
  <2>4. ListsGroups(answer, job.groupList, job.orderBy, rows)
    <3>1. \A k \in groups : \A n \in 1 .. N : IsCell(RowCell(answer, k, job.orderBy[n].column))
      BY <1>1, ColumnsAreTrue
    <3>2. /\ \A n \in 1 .. N : WeakOrder(groups, KeysTell(answer, job.orderBy)[n])
          /\ \A a, b \in groups :
               Precedes(answer, job.orderBy, a, b) <=> LexLess(KeysTell(answer, job.orderBy), N, a, b)
      BY <2>2, <3>1, KeysOrderGroups
    <3> QED BY <2>2, <2>3, <3>2, GroupsAreListed
  <2>5. Results = ApplyLimit(rows, job.limit)
    BY DEF Results, Shaped
  <2> HIDE DEF rows, N
  <2>6. /\ rows \in Seq(groups) /\ \A k \in groups : \E i \in DOMAIN rows : rows[i] = k
        /\ \A i, j \in DOMAIN rows : rows[i] = rows[j] => i = j
        /\ \A i, j \in DOMAIN rows : i < j =>
             GoesFirst(answer, job.groupList, job.orderBy, rows[i], rows[j])
    BY <2>4 DEF ListsGroups
  <2>7. Len(rows) \in Nat /\ DOMAIN rows = 1 .. Len(rows) /\ \A i \in DOMAIN rows : rows[i] \in groups
    BY <2>6
  <2>8. \A i, j \in DOMAIN rows : i < j => MayPrecede(rows[i], rows[j])
    BY <1>1, <2>2, <2>3, <2>6, <2>7, GoingFirstIsAllowed
  <2>9. /\ Results \in Seq(groups) /\ M \in Nat /\ M <= Len(rows)
        /\ \A i \in 1 .. M : Results[i] = rows[i]
        /\ M = Len(rows) \/ (job.limit # NoLimit /\ M = job.limit)
    <3>1. CASE job.limit = NoLimit \/ Len(rows) <= job.limit
      BY <2>5, <2>6, <2>7, <3>1 DEF ApplyLimit
    <3>2. CASE ~(job.limit = NoLimit \/ Len(rows) <= job.limit)
      <4>1. job.limit \in Nat /\ job.limit < Len(rows) /\ Results = SubSeq(rows, 1, job.limit)
        BY <2>2, <2>5, <2>7, <3>2 DEF ApplyLimit
      <4> QED BY <2>6, <2>7, <3>2, <4>1
    <3> QED BY <3>1, <3>2
  <2>10. /\ DOMAIN Results = 1 .. M /\ Results \in [1 .. M -> groups]
         /\ \A i \in 1 .. M : i \in DOMAIN rows
    BY <2>7, <2>9
  <2>11. listed = {Results[i] : i \in 1 .. M}
    BY <2>10 DEF Range
  <2> HIDE DEF M, listed, groups
  <2>12. M = Cardinality(listed)
    <3>1. Results \in [1 .. M -> listed] /\ \A k \in listed : \E i \in 1 .. M : Results[i] = k
      BY <2>10, <2>11
    <3>2. \A i, j \in 1 .. M : Results[i] = Results[j] => i = j
      BY <2>6, <2>9, <2>10
    <3>3. M \in Nat
      BY <2>9
    <3> QED BY <3>1, <3>2, <3>3, ListedOnce
  <2>13. listed \subseteq groups
    BY <2>10, <2>11
  <2>14. listed = groups \/ (job.limit # NoLimit /\ M = job.limit)
    <3>1. M = Len(rows) => groups \subseteq listed
      BY <2>6, <2>7, <2>9, <2>11
    <3> QED BY <2>9, <2>13, <3>1
  <2>15. \A m, n \in DOMAIN Results : m < n => MayPrecede(Results[m], Results[n])
    <3> TAKE m, n \in DOMAIN Results
    <3>1. m \in 1 .. M /\ n \in 1 .. M
      BY <2>10
    <3>2. m \in DOMAIN rows /\ n \in DOMAIN rows /\ Results[m] = rows[m] /\ Results[n] = rows[n]
      BY <2>9, <2>10, <3>1
    <3> QED BY <2>8, <3>2
  <2>16. ASSUME NEW k \in groups \ listed, NEW n \in DOMAIN Results PROVE MayPrecede(Results[n], k)
    <3>1. PICK i \in DOMAIN rows : rows[i] = k
      BY <2>6
    <3>2. i \notin 1 .. M
      BY <2>9, <2>11, <3>1
    <3>3. n \in 1 .. M /\ n \in DOMAIN rows /\ Results[n] = rows[n]
      BY <2>9, <2>10
    <3>4. n < i
      <4>1. M \in Nat
        BY <2>9
      <4>2. i \in Nat \ {0}
        BY <2>7
      <4>3. n \in 1 .. M
        BY <3>3
      <4> QED BY <3>2, <4>1, <4>2, <4>3
    <3> QED BY <2>8, <3>1, <3>3, <3>4
  <2> QED BY <2>12, <2>13, <2>14, <2>15, <2>16 DEF M, listed, groups
<1>2. IInv /\ NumbersInv => ResultsAreTheTop
  BY <1>1 DEF ResultsAreTheTop
<1> QED BY <1>2, ScanInvariantHolds, AccumulatorsHoldNumbers, PTL

-----------------------------------------------------------------------------
(* The predicate of a WHERE clause, as the parser builds it.               *)

\* The children of a node come before it.
LEMMA TreeNodes ==
  ASSUME NEW p, IsTree(p), NEW i \in DOMAIN p
  PROVE  /\ i \in 1 .. Len(p) /\ i \in Nat
         /\ \/ p[i].shape \in {"true", "cmp"}
            \/ p[i].shape = "not" /\ p[i].left \in 1 .. (i - 1)
            \/ /\ p[i].shape \in {"and", "or"}
               /\ p[i].left \in 1 .. (i - 1) /\ p[i].right \in 1 .. (i - 1)
BY DEF IsTree

\* v is what a row makes of each node of a tree.
Evaluates(v, p, row) ==
  \A i \in DOMAIN p : v[i] = NodeValue(p[i], LeafHolds(p[i], row), TRUE, v)

LEMMA HoldsEquation ==
  ASSUME NEW p, IsTree(p), NEW row
  PROVE  \E v : /\ Evaluates(v, p, row)
                /\ Holds(p, row) = v[Len(p)]
<1> DEFINE leaves == [i \in DOMAIN p |-> LeafHolds(p[i], row)]
<1>1. PICK v : /\ v = [i \in DOMAIN p |-> NodeValue(p[i], leaves[i], TRUE, v)]
               /\ TreeValue(p, leaves, TRUE) = v[Len(p)]
  <2> HIDE DEF leaves
  <2> QED BY TreeValueEquation
<1>2. ASSUME NEW i \in DOMAIN p
      PROVE  v[i] = NodeValue(p[i], LeafHolds(p[i], row), TRUE, v)
  <2>1. v[i] = NodeValue(p[i], leaves[i], TRUE, v) BY <1>1
  <2>2. leaves[i] = LeafHolds(p[i], row) OBVIOUS
  <2> HIDE DEF leaves
  <2> QED BY <2>1, <2>2
<1>3. Holds(p, row) = v[Len(p)] BY <1>1 DEF Holds
<1> QED BY <1>2, <1>3 DEF Evaluates

\* The nodes at the beginning of a tree have the values they have by themselves.
LEMMA TreeValuesAgree ==
  ASSUME NEW p, IsTree(p), NEW row, NEW v, NEW w,
         Evaluates(v, p, row), Evaluates(w, p, row)
  PROVE  \A i \in DOMAIN p : w[i] = v[i]
<1> DEFINE Wrong == {i \in DOMAIN p : w[i] # v[i]}
<1> SUFFICES ASSUME Wrong # {} PROVE FALSE OBVIOUS
<1>1. DOMAIN p = 1 .. Len(p) /\ Len(p) \in Nat BY DEF IsTree
<1>2. Wrong \in SUBSET Nat BY <1>1
<1>3. PICK i \in Wrong : \A m \in Wrong : i <= m
  <2> HIDE DEF Wrong
  <2> QED BY <1>2, LeastNat
<1>4. i \in DOMAIN p /\ i \in Nat /\ w[i] # v[i] BY <1>1, <1>3
<1>5. ASSUME NEW m \in 1 .. (i - 1) PROVE w[m] = v[m]
  <2>1. m \in DOMAIN p /\ m < i /\ m \in Nat BY <1>1, <1>4
  <2>2. m \notin Wrong BY <2>1, <1>3, <1>4
  <2> QED BY <2>1, <2>2
<1> DEFINE a == p[i]
<1>6. /\ v[i] = NodeValue(a, LeafHolds(a, row), TRUE, v)
      /\ w[i] = NodeValue(a, LeafHolds(a, row), TRUE, w)
  BY <1>4 DEF Evaluates
<1>7. \/ a.shape \in {"true", "cmp"}
      \/ a.shape = "not" /\ a.left \in 1 .. (i - 1)
      \/ a.shape \in {"and", "or"} /\ a.left \in 1 .. (i - 1) /\ a.right \in 1 .. (i - 1)
  BY <1>4, TreeNodes
<1> HIDE DEF a
<1> QED BY <1>4, <1>5, <1>6, <1>7 DEF NodeValue

\* A comparison, or its negation, as parse_term lays it out.
TermNodes(cmp, negate) == IF negate THEN <<cmp, [shape |-> "not", left |-> 1]>> ELSE <<cmp>>

\* q is p and a term, joined.
IsJoined(q, p, cmp, negate, how) ==
  LET L == Len(p)
      N == IF negate THEN L + 3 ELSE L + 2
  IN  /\ L \in Nat \ {0} /\ Len(q) = N /\ DOMAIN q = 1 .. N
      /\ q \in Seq({q[i] : i \in DOMAIN q})
      /\ \A i \in 1 .. L : q[i] = p[i]
      /\ q[L + 1] = cmp
      /\ negate => q[L + 2] = [shape |-> "not", left |-> L + 1]
      /\ q[N] = [shape |-> how, left |-> L, right |-> N - 1]

LEMMA JoinedNodes ==
  ASSUME NEW p, IsTree(p), NEW cmp, cmp.shape = "cmp", NEW negate \in BOOLEAN,
         NEW how \in {"and", "or"}
  PROVE  IsJoined(Joined(p, TermNodes(cmp, negate), how), p, cmp, negate, how)
<1> DEFINE L == Len(p)
           N == IF negate THEN L + 3 ELSE L + 2
           q == Joined(p, TermNodes(cmp, negate), how)
           t == TermNodes(cmp, negate)
           moved == IF negate THEN <<cmp, [shape |-> "not", left |-> L + 1]>> ELSE <<cmp>>
           all == p \o moved
           top == [shape |-> how, left |-> L, right |-> Len(all)]
           S == {p[i] : i \in DOMAIN p} \cup {moved[i] : i \in DOMAIN moved} \cup {top}
<1>1. L \in Nat \ {0} /\ p \in Seq(S)
  <2>1. p \in Seq({p[i] : i \in DOMAIN p}) /\ L \in Nat \ {0} BY DEF IsTree
  <2>2. {p[i] : i \in DOMAIN p} \subseteq S OBVIOUS
  <2> HIDE DEF S
  <2> QED BY <2>1, <2>2
<1>2. Shifted(t, L) = moved
  <2>1. CASE negate
    <3> DEFINE neg == [shape |-> "not", left |-> 1]
    <3>1. t = <<cmp, neg>> /\ DOMAIN t = {1, 2} /\ t[1] = cmp /\ t[2] = neg
      BY <2>1 DEF TermNodes
    <3>2. [neg EXCEPT !.left = @ + L] = [shape |-> "not", left |-> L + 1]
      BY <1>1
    <3>3. neg.shape = "not" OBVIOUS
    <3> HIDE DEF neg, t
    <3>4. Shifted(t, L) = [i \in {1, 2} |-> IF i = 2 THEN [neg EXCEPT !.left = @ + L] ELSE cmp]
      BY <3>1, <3>3 DEF Shifted
    <3>5. moved = [i \in {1, 2} |-> IF i = 2 THEN [shape |-> "not", left |-> L + 1] ELSE cmp]
      BY <2>1
    <3> QED BY <3>2, <3>4, <3>5
  <2>2. CASE ~negate
    <3>1. t = <<cmp>> /\ DOMAIN t = {1} /\ t[1] = cmp BY <2>2 DEF TermNodes
    <3> HIDE DEF t
    <3>2. Shifted(t, L) = [i \in {1} |-> cmp] BY <3>1 DEF Shifted
    <3>3. moved = [i \in {1} |-> cmp] BY <2>2
    <3> QED BY <3>2, <3>3
  <2> QED BY <2>1, <2>2
<1>3. q = Append(all, top)
  <2>1. Shifted(TermNodes(cmp, negate), Len(p)) = moved BY <1>2
  <2>2. how # "none" OBVIOUS
  <2> HIDE DEF moved
  <2> QED BY <2>1, <2>2 DEF Joined
<1>4. /\ moved \in Seq(S) /\ Len(moved) = (IF negate THEN 2 ELSE 1) /\ moved[1] = cmp
      /\ negate => moved[2] = [shape |-> "not", left |-> L + 1]
  <2> DEFINE neg == [shape |-> "not", left |-> L + 1]
  <2>1. CASE negate
    <3>1. moved = <<cmp, neg>> BY <2>1
    <3> HIDE DEF moved, neg
    <3>2. cmp \in S /\ neg \in S
      <4>1. cmp = moved[1] /\ neg = moved[2] /\ DOMAIN moved = {1, 2} BY <3>1
      <4> QED BY <4>1
    <3> HIDE DEF S, moved, neg
    <3>3. <<cmp, neg>> \in Seq(S) /\ Len(<<cmp, neg>>) = 2 BY <3>2
    <3>4. moved[1] = cmp /\ moved[2] = neg BY <3>1
    <3> QED BY <2>1, <3>1, <3>3, <3>4 DEF neg
  <2>2. CASE ~negate
    <3>1. moved = <<cmp>> BY <2>2
    <3>2. cmp \in S
      <4>1. cmp = moved[1] /\ DOMAIN moved = {1} BY <3>1
      <4> HIDE DEF moved
      <4> QED BY <4>1
    <3> HIDE DEF S, moved
    <3> QED BY <2>2, <3>1, <3>2
  <2> QED BY <2>1, <2>2
<1>5. top \in S OBVIOUS
<1> DEFINE M == Len(moved)
<1>6. /\ all \in Seq(S) /\ Len(all) = L + M /\ M \in {1, 2} /\ N = L + M + 1
      /\ \A i \in 1 .. L : all[i] = p[i]
      /\ \A i \in 1 .. M : all[L + i] = moved[i]
  <2>1. M \in {1, 2} /\ N = L + M + 1 BY <1>1, <1>4
  <2> HIDE DEF moved, S
  <2>2. p \in Seq(S) /\ moved \in Seq(S) /\ M = Len(moved) /\ L = Len(p) BY <1>1, <1>4
  <2>3. all \in Seq(S) /\ Len(all) = L + M BY <2>2
  <2>4. \A i \in 1 .. L : all[i] = p[i] BY <2>2
  <2>5. \A i \in 1 .. M : all[L + i] = moved[i] BY <2>2
  <2> QED BY <2>1, <2>3, <2>4, <2>5
<1>7. top = [shape |-> how, left |-> L, right |-> N - 1]
  <2>1. Len(all) = N - 1 BY <1>1, <1>6
  <2> HIDE DEF all
  <2> QED BY <2>1
<1>8. /\ q \in Seq(S) /\ Len(q) = N /\ DOMAIN q = 1 .. N
      /\ \A i \in 1 .. (L + M) : q[i] = all[i]
      /\ q[N] = top
  <2> HIDE DEF top, all, S, moved
  <2> QED BY <1>1, <1>3, <1>5, <1>6
<1>9. q[L + 1] = cmp /\ (negate => q[L + 2] = [shape |-> "not", left |-> L + 1])
  <2>1. q[L + 1] = moved[1]
    <3>1. L + 1 \in 1 .. (L + M) /\ 1 \in 1 .. M BY <1>1, <1>6
    <3> HIDE DEF moved, all
    <3> QED BY <1>6, <1>8, <3>1
  <2>2. ASSUME negate PROVE q[L + 2] = moved[2]
    <3>1. M = 2 BY <1>4, <2>2
    <3>2. L + 2 \in 1 .. (L + M) /\ 2 \in 1 .. M BY <1>1, <3>1
    <3> HIDE DEF moved, all
    <3> QED BY <1>6, <1>8, <3>2
  <2> HIDE DEF moved
  <2> QED BY <2>1, <2>2, <1>4
<1>10. \A i \in 1 .. L : q[i] = p[i]
  <2>1. \A i \in 1 .. L : i \in 1 .. (L + M) BY <1>1, <1>6
  <2> HIDE DEF all, moved
  <2> QED BY <1>6, <1>8, <2>1
<1>11. q \in Seq({q[i] : i \in DOMAIN q})
  <2> HIDE DEF S
  <2> QED BY <1>8
<1> HIDE DEF t, top, q
<1> QED BY <1>1, <1>7, <1>8, <1>9, <1>10, <1>11 DEF IsJoined, q

\* A term by itself.
LEMMA TermHoldsAlone ==
  ASSUME NEW cmp, cmp.shape = "cmp", NEW negate \in BOOLEAN
  PROVE  /\ IsTree(TermNodes(cmp, negate))
         /\ \A row : Holds(TermNodes(cmp, negate), row) = (negate # LeafHolds(cmp, row))
<1> DEFINE t == TermNodes(cmp, negate)
<1>1. IsTree(t)
  <2>1. CASE negate
    <3> DEFINE neg == [shape |-> "not", left |-> 1]
    <3>1. t = <<cmp, neg>> BY <2>1 DEF TermNodes
    <3>2. Len(t) = 2 /\ DOMAIN t = {1, 2} /\ t[1] = cmp /\ t[2] = neg BY <3>1
    <3>3. neg.shape = "not" /\ neg.left \in 1 .. (2 - 1) OBVIOUS
    <3>4. t \in Seq({t[i] : i \in DOMAIN t})
      <4>1. {t[i] : i \in DOMAIN t} = {cmp, neg} BY <3>2
      <4> HIDE DEF neg
      <4> QED BY <3>1, <4>1
    <3> HIDE DEF t, neg
    <3> QED BY <3>2, <3>3, <3>4 DEF IsTree
  <2>2. CASE ~negate
    <3>1. t = <<cmp>> BY <2>2 DEF TermNodes
    <3>2. Len(t) = 1 /\ DOMAIN t = {1} /\ t[1] = cmp BY <3>1
    <3>4. t \in Seq({t[i] : i \in DOMAIN t})
      <4>1. {t[i] : i \in DOMAIN t} = {cmp} BY <3>2
      <4> QED BY <3>1, <4>1
    <3> HIDE DEF t
    <3> QED BY <3>2, <3>4 DEF IsTree
  <2> QED BY <2>1, <2>2
<1>2. ASSUME NEW row PROVE Holds(t, row) = (negate # LeafHolds(cmp, row))
  <2>1. PICK v : /\ Evaluates(v, t, row)
                 /\ Holds(t, row) = v[Len(t)]
    <3> HIDE DEF t
    <3> QED BY <1>1, HoldsEquation
  <2>2. LeafHolds(cmp, row) \in BOOLEAN BY DEF LeafHolds
  <2>3. t[1] = cmp /\ 1 \in DOMAIN t BY DEF TermNodes
  <2>4. v[1] = LeafHolds(cmp, row)
    <3> HIDE DEF t
    <3> QED BY <2>1, <2>3 DEF NodeValue, Evaluates
  <2>5. CASE negate
    <3> DEFINE neg == [shape |-> "not", left |-> 1]
    <3>1. Len(t) = 2 /\ 2 \in DOMAIN t /\ t[2] = neg BY <2>5 DEF TermNodes
    <3>2. v[2] = NodeValue(neg, LeafHolds(neg, row), TRUE, v)
      <4> HIDE DEF t, neg
      <4> QED BY <2>1, <3>1 DEF Evaluates
    <3>3. v[2] = ~v[1] BY <3>2 DEF NodeValue
    <3> HIDE DEF t
    <3> QED BY <2>1, <2>2, <2>4, <2>5, <3>1, <3>3
  <2>6. CASE ~negate
    <3>1. Len(t) = 1 BY <2>6 DEF TermNodes
    <3> HIDE DEF t
    <3> QED BY <2>1, <2>2, <2>4, <2>6, <3>1
  <2> QED BY <2>5, <2>6
<1> QED BY <1>1, <1>2

\* A term is joined to all that was read before it.
LEMMA JoinedHolds ==
  ASSUME NEW p, IsTree(p), NEW cmp, cmp.shape = "cmp", NEW negate \in BOOLEAN,
         NEW how \in {"and", "or"}
  PROVE  LET q == Joined(p, TermNodes(cmp, negate), how)
         IN  /\ IsTree(q)
             /\ \A row : Holds(q, row) = (IF how = "and"
                                          THEN Holds(p, row) /\ (negate # LeafHolds(cmp, row))
                                          ELSE Holds(p, row) \/ (negate # LeafHolds(cmp, row)))
<1> DEFINE q == Joined(p, TermNodes(cmp, negate), how)
           L == Len(p)
           N == IF negate THEN L + 3 ELSE L + 2
           neg == [shape |-> "not", left |-> L + 1]
           top == [shape |-> how, left |-> L, right |-> N - 1]
<1>1. /\ L \in Nat \ {0} /\ Len(q) = N /\ DOMAIN q = 1 .. N
      /\ q \in Seq({q[i] : i \in DOMAIN q})
      /\ \A i \in 1 .. L : q[i] = p[i]
      /\ q[L + 1] = cmp /\ (negate => q[L + 2] = neg) /\ q[N] = top
  <2>1. IsJoined(q, p, cmp, negate, how) BY JoinedNodes
  <2> HIDE DEF q
  <2> QED BY <2>1 DEF IsJoined
<1>2. DOMAIN p = 1 .. L BY DEF IsTree
<1>3. /\ neg.shape = "not" /\ neg.left = L + 1
      /\ top.shape = how /\ top.left = L /\ top.right = N - 1
  OBVIOUS
<1>4. N \in Nat /\ L + 1 < N /\ (negate => N = L + 3) /\ (~negate => N = L + 2)
  BY <1>1
<1> HIDE DEF q, N, neg, top
<1>5. IsTree(q)
  <2>1. ASSUME NEW i \in 1 .. N
        PROVE  \/ q[i].shape \in {"true", "cmp"}
               \/ q[i].shape = "not" /\ q[i].left \in 1 .. (i - 1)
               \/ /\ q[i].shape \in {"and", "or"}
                  /\ q[i].left \in 1 .. (i - 1) /\ q[i].right \in 1 .. (i - 1)
    <3>1. CASE i \in 1 .. L
      <4>1. q[i] = p[i] /\ i \in DOMAIN p BY <1>1, <1>2, <3>1
      <4> QED BY <4>1, TreeNodes
    <3>2. CASE i = L + 1 BY <1>1, <3>2
    <3>3. CASE negate /\ i = L + 2
      <4>1. L + 1 \in 1 .. (i - 1) BY <1>1, <3>3
      <4> QED BY <1>1, <1>3, <3>3, <4>1
    <3>4. CASE i = N
      <4>1. L \in 1 .. (i - 1) /\ N - 1 \in 1 .. (i - 1) BY <1>1, <1>4, <3>4
      <4> QED BY <1>1, <1>3, <3>4, <4>1
    <3>5. i \in 1 .. L \/ i = L + 1 \/ (negate /\ i = L + 2) \/ i = N
      <4>1. i \in Nat /\ i >= 1 /\ i <= N /\ L \in Nat /\ N \in Nat BY <1>1, <1>4
      <4>2. CASE negate
        <5>1. N = L + 3 BY <1>4, <4>2
        <5> QED BY <4>1, <4>2, <5>1
      <4>3. CASE ~negate
        <5>1. N = L + 2 BY <1>4, <4>3
        <5> QED BY <4>1, <5>1
      <4> QED BY <4>2, <4>3
    <3> QED BY <3>1, <3>2, <3>3, <3>4, <3>5
  <2> QED BY <1>1, <1>4, <2>1 DEF IsTree
<1>6. ASSUME NEW row
      PROVE  Holds(q, row) = (IF how = "and"
                              THEN Holds(p, row) /\ (negate # LeafHolds(cmp, row))
                              ELSE Holds(p, row) \/ (negate # LeafHolds(cmp, row)))
  <2>1. PICK v : /\ Evaluates(v, p, row)
                 /\ Holds(p, row) = v[Len(p)]
    BY HoldsEquation
  <2>2. PICK w : /\ Evaluates(w, q, row)
                 /\ Holds(q, row) = w[Len(q)]
    BY <1>5, HoldsEquation
  <2>3. w[L] = v[L]
    <3>1. ASSUME NEW i \in DOMAIN p
          PROVE  w[i] = NodeValue(p[i], LeafHolds(p[i], row), TRUE, w)
      <4>1. i \in DOMAIN q /\ q[i] = p[i] BY <1>1, <1>2, <1>4
      <4> QED BY <2>2, <4>1 DEF Evaluates
    <3>2. Evaluates(w, p, row) BY <3>1 DEF Evaluates
    <3>3. \A i \in DOMAIN p : w[i] = v[i]
      BY <2>1, <3>2, TreeValuesAgree
    <3> QED BY <1>1, <1>2, <3>3
  <2>4. LeafHolds(cmp, row) \in BOOLEAN BY DEF LeafHolds
  <2>5. w[L + 1] = LeafHolds(cmp, row)
    <3>1. L + 1 \in DOMAIN q BY <1>1, <1>4
    <3>2. w[L + 1] = NodeValue(cmp, LeafHolds(cmp, row), TRUE, w) BY <1>1, <2>2, <3>1 DEF Evaluates
    <3> QED BY <3>2 DEF NodeValue
  <2>6. w[N - 1] = (negate # LeafHolds(cmp, row))
    <3>1. CASE negate
      <4>1. N - 1 = L + 2 /\ L + 2 \in DOMAIN q BY <1>1, <1>4, <3>1
      <4>2. w[L + 2] = NodeValue(neg, LeafHolds(neg, row), TRUE, w)
        BY <1>1, <2>2, <3>1, <4>1 DEF Evaluates
      <4>3. w[L + 2] = ~w[L + 1] BY <1>3, <4>2 DEF NodeValue
      <4> QED BY <2>4, <2>5, <3>1, <4>1, <4>3
    <3>2. CASE ~negate
      <4>1. N - 1 = L + 1 BY <1>1, <1>4, <3>2
      <4> QED BY <2>4, <2>5, <3>2, <4>1
    <3> QED BY <3>1, <3>2
  <2>7. N \in DOMAIN q BY <1>1, <1>4
  <2>8. w[N] = NodeValue(top, LeafHolds(top, row), TRUE, w)
    BY <1>1, <2>2, <2>7 DEF Evaluates
  <2>9. Holds(p, row) = w[L] /\ Holds(q, row) = w[N] BY <1>1, <2>1, <2>2, <2>3
  <2>10. CASE how = "and"
    <3>1. w[N] = (w[L] /\ w[N - 1]) BY <1>3, <2>8, <2>10 DEF NodeValue
    <3> QED BY <2>6, <2>9, <2>10, <3>1
  <2>11. CASE how = "or"
    <3>1. w[N] = (w[L] \/ w[N - 1]) BY <1>3, <2>8, <2>11 DEF NodeValue
    <3> QED BY <2>6, <2>9, <2>11, <3>1
  <2> QED BY <2>10, <2>11
<1> QED BY <1>5, <1>6 DEF q

-----------------------------------------------------------------------------
(* What the terms of a text mean, and what the parser joins.               *)

\* The reading of a list of terms is well defined.
LEMMA ReadUpToEquation ==
  ASSUME NEW terms, Len(terms) \in Nat, DOMAIN terms = 1 .. Len(terms), NEW row,
         NEW n \in 1 .. Len(terms)
  PROVE  ReadUpTo(terms, row)[n] =
           IF n = 1 THEN TermHolds(terms[1], row)
           ELSE IF terms[n].join = "and"
           THEN ReadUpTo(terms, row)[n - 1] /\ TermHolds(terms[n], row)
           ELSE ReadUpTo(terms, row)[n - 1] \/ TermHolds(terms[n], row)
<1> DEFINE N == Len(terms)
           Step(v, i) == IF i = 1 THEN TermHolds(terms[1], row)
                         ELSE IF terms[i].join = "and" THEN v[i - 1] /\ TermHolds(terms[i], row)
                         ELSE v[i - 1] \/ TermHolds(terms[i], row)
           Solved(v, m) == v = [i \in 1 .. m |-> v[i]] /\ \A i \in 1 .. m : v[i] = Step(v, i)
           Unsolved == {m \in 0 .. N : ~ \E v : Solved(v, m)}
<1>1. ASSUME NEW i \in 1 .. N, NEW v, NEW w, \A m \in 1 .. (i - 1) : v[m] = w[m]
      PROVE  Step(v, i) = Step(w, i)
  <2>1. i # 1 => i - 1 \in 1 .. (i - 1) OBVIOUS
  <2> QED BY <1>1, <2>1
<1> HIDE DEF Step
<1>2. Unsolved = {}
  <2> SUFFICES ASSUME Unsolved # {} PROVE FALSE OBVIOUS
  <2>1. Unsolved \in SUBSET Nat OBVIOUS
  <2>2. PICK m \in Unsolved : \A k \in Unsolved : m <= k
    <3> HIDE DEF Unsolved
    <3> QED BY <2>1, LeastNat
  <2>3. m # 0
    <3>1. Solved([i \in 1 .. 0 |-> 0], 0) OBVIOUS
    <3> QED BY <3>1
  <2>4. m - 1 \in 0 .. N /\ m - 1 \notin Unsolved BY <2>2, <2>3
  <2>5. PICK v : Solved(v, m - 1) BY <2>4
  <2> DEFINE w == [i \in 1 .. m |-> IF i = m THEN Step(v, m) ELSE v[i]]
  <2>6. ASSUME NEW i \in 1 .. m PROVE w[i] = Step(w, i)
    <3>1. i \in 1 .. N /\ m \in 1 .. N BY <2>2, <2>3
    <3>2. \A k \in 1 .. (i - 1) : v[k] = w[k] BY <3>1
    <3>3. Step(v, i) = Step(w, i) BY <3>1, <3>2, <1>1
    <3>4. CASE i = m BY <3>3, <3>4
    <3>5. CASE i # m
      <4>1. i \in 1 .. (m - 1) BY <3>1, <3>5
      <4> QED BY <4>1, <3>3, <3>5, <2>5
    <3> QED BY <3>4, <3>5
  <2>7. w = [i \in 1 .. m |-> w[i]] OBVIOUS
  <2>8. Solved(w, m)
    <3> HIDE DEF w
    <3> QED BY <2>6, <2>7
  <2> QED BY <2>2, <2>8
<1>3. PICK v : Solved(v, N)
  <2>1. N \in 0 .. N /\ N \notin Unsolved BY <1>2
  <2> QED BY <2>1
<1>4. v = [i \in DOMAIN terms |-> Step(v, i)] BY <1>3
<1> DEFINE read == CHOOSE f : f = [i \in DOMAIN terms |-> Step(f, i)]
<1>5. read = [i \in DOMAIN terms |-> Step(read, i)] BY <1>4
<1>6. ReadUpTo(terms, row) = read BY DEF ReadUpTo, Step
<1>7. read[n] = Step(read, n)
  <2> HIDE DEF read
  <2> QED BY <1>5
<1> QED
  <2> HIDE DEF read
  <2> QED BY <1>6, <1>7 DEF Step

\* The terms of a WHERE clause.
AreTerms(terms) ==
  /\ Len(terms) \in Nat /\ DOMAIN terms = 1 .. Len(terms)
  /\ \A n \in DOMAIN terms : terms[n].negate \in BOOLEAN

Comparison(term) ==
  [shape |-> "cmp", field |-> term.field, op |-> term.op, value |-> term.value]

LEMMA ComparisonHolds ==
  ASSUME NEW term, NEW row
  PROVE  /\ Comparison(term).shape = "cmp"
         /\ TermHolds(term, row) = (term.negate # LeafHolds(Comparison(term), row))
<1> DEFINE cmp == Comparison(term)
<1>1. cmp.shape = "cmp" /\ cmp.field = term.field /\ cmp.op = term.op /\ cmp.value = term.value
  BY DEF Comparison
<1> HIDE DEF cmp
<1>2. LeafHolds(cmp, row) = Compare(term.op, Cell(row, term.field), term.value)
  BY <1>1 DEF LeafHolds, Compare
<1>3. TermHolds(term, row) = (term.negate # LeafHolds(cmp, row))
  BY <1>2, Zenon DEF TermHolds
<1> QED BY <1>1, <1>3 DEF cmp

\* The first term by itself.
LEMMA FirstTermMeans ==
  ASSUME NEW terms, AreTerms(terms), 1 \in DOMAIN terms, NEW p,
         p = Joined(<<>>, TermNodes(Comparison(terms[1]), terms[1].negate), "none")
  PROVE  MeansFirst(p, terms, 1)
<1> DEFINE cmp == Comparison(terms[1])
           negate == terms[1].negate
<1>1. cmp.shape = "cmp" /\ negate \in BOOLEAN BY ComparisonHolds DEF AreTerms
<1>2. p = TermNodes(cmp, negate) BY DEF Joined
<1> HIDE DEF cmp, negate
<1>3. IsTree(p) /\ \A row : Holds(p, row) = (negate # LeafHolds(cmp, row))
  BY <1>1, <1>2, TermHoldsAlone
<1>4. ASSUME NEW row \in Rows PROVE Holds(p, row) = ReadUpTo(terms, row)[1]
  <2>1. TermHolds(terms[1], row) = (negate # LeafHolds(cmp, row))
    BY ComparisonHolds DEF cmp, negate
  <2>2. ReadUpTo(terms, row)[1] = TermHolds(terms[1], row)
    BY ReadUpToEquation DEF AreTerms
  <2> QED BY <1>3, <2>1, <2>2
<1> QED BY <1>3, <1>4 DEF MeansFirst

\* Each further term.
LEMMA NextTermMeans ==
  ASSUME NEW terms, AreTerms(terms), NEW n \in Nat, n >= 1, n + 1 \in DOMAIN terms,
         NEW p, MeansFirst(p, terms, n), terms[n + 1].join \in {"and", "or"},
         NEW q, q = Joined(p, TermNodes(Comparison(terms[n + 1]), terms[n + 1].negate),
                           terms[n + 1].join)
  PROVE  MeansFirst(q, terms, n + 1)
<1> DEFINE cmp == Comparison(terms[n + 1])
           negate == terms[n + 1].negate
           how == terms[n + 1].join
<1>1. cmp.shape = "cmp" /\ negate \in BOOLEAN /\ how \in {"and", "or"}
  BY ComparisonHolds DEF AreTerms
<1>2. q = Joined(p, TermNodes(cmp, negate), how) OBVIOUS
<1>3. IsTree(p) BY DEF MeansFirst
<1>4. /\ IsTree(q)
      /\ \A row : Holds(q, row) = (IF how = "and"
                                   THEN Holds(p, row) /\ (negate # LeafHolds(cmp, row))
                                   ELSE Holds(p, row) \/ (negate # LeafHolds(cmp, row)))
  <2> HIDE DEF cmp, negate, how
  <2> QED BY <1>1, <1>2, <1>3, JoinedHolds
<1>5. ASSUME NEW row \in Rows PROVE Holds(q, row) = ReadUpTo(terms, row)[n + 1]
  <2>1. TermHolds(terms[n + 1], row) = (negate # LeafHolds(cmp, row))
    BY ComparisonHolds
  <2>2. Holds(p, row) = ReadUpTo(terms, row)[n] BY DEF MeansFirst
  <2>3. n + 1 \in 1 .. Len(terms) /\ n + 1 # 1 /\ (n + 1) - 1 = n BY DEF AreTerms
  <2>4. ReadUpTo(terms, row)[n + 1] =
          IF how = "and" THEN ReadUpTo(terms, row)[(n + 1) - 1] /\ TermHolds(terms[n + 1], row)
          ELSE ReadUpTo(terms, row)[(n + 1) - 1] \/ TermHolds(terms[n + 1], row)
    BY <2>3, ReadUpToEquation DEF AreTerms
  <2> HIDE DEF cmp, negate, how
  <2>5. ReadUpTo(terms, row)[n + 1] =
          IF how = "and" THEN ReadUpTo(terms, row)[n] /\ TermHolds(terms[n + 1], row)
          ELSE ReadUpTo(terms, row)[n] \/ TermHolds(terms[n + 1], row)
    BY <2>3, <2>4
  <2> QED BY <1>1, <1>4, <2>1, <2>2, <2>5
<1> QED BY <1>4, <1>5 DEF MeansFirst

\* All of them.
LEMMA LastTermMeans ==
  ASSUME NEW terms, AreTerms(terms), terms # <<>>, NEW p, MeansFirst(p, terms, Len(terms))
  PROVE  MeansAll(p, terms)
<1>1. ASSUME NEW row \in Rows PROVE Holds(p, row) = Reading(terms, row)
  <2>1. Holds(p, row) = ReadUpTo(terms, row)[Len(terms)] BY DEF MeansFirst
  <2>2. Holds(p, row) \in BOOLEAN
    <3>1. PICK v : Evaluates(v, p, row) /\ Holds(p, row) = v[Len(p)]
      BY HoldsEquation DEF MeansFirst
    <3>2. Len(p) \in DOMAIN p BY DEF MeansFirst, IsTree
    <3>3. v[Len(p)] = NodeValue(p[Len(p)], LeafHolds(p[Len(p)], row), TRUE, v)
      BY <3>1, <3>2 DEF Evaluates
    <3> QED BY <3>1, <3>3 DEF NodeValue, LeafHolds
  <2> QED BY <2>1, <2>2 DEF Reading
<1> QED BY <1>1 DEF MeansFirst, MeansAll

\* No WHERE clause: every row.
LEMMA NoTermsMean ==
  MeansAll(<<[shape |-> "true"]>>, <<>>)
<1> DEFINE node == [shape |-> "true"]
           p == <<node>>
<1>1. Len(p) = 1 /\ DOMAIN p = {1} /\ p[1] = node OBVIOUS
<1>2. node.shape = "true" OBVIOUS
<1>3. p \in Seq({p[i] : i \in DOMAIN p})
  <2>1. {p[i] : i \in DOMAIN p} = {node} BY <1>1
  <2> HIDE DEF node
  <2> QED BY <2>1
<1>4. IsTree(p)
  <2> HIDE DEF p, node
  <2> QED BY <1>1, <1>2, <1>3 DEF IsTree
<1>5. ASSUME NEW row \in Rows PROVE Holds(p, row) = Reading(<<>>, row)
  <2> HIDE DEF p, node
  <2>1. PICK v : Evaluates(v, p, row) /\ Holds(p, row) = v[Len(p)]
    BY <1>4, HoldsEquation
  <2>2. v[1] = NodeValue(node, LeafHolds(node, row), TRUE, v)
    BY <1>1, <2>1 DEF Evaluates
  <2>3. v[1] = TRUE BY <1>2, <2>2 DEF NodeValue, LeafHolds
  <2> QED BY <1>1, <2>1, <2>3 DEF Reading
<1> QED BY <1>4, <1>5 DEF MeansAll

-----------------------------------------------------------------------------
(* Sequences read from the left, keywords, and what follows a clause.      *)

LEMMA FirstGrows ==
  ASSUME NEW S, NEW s \in Seq(S)
  PROVE  /\ First(s, 0) = <<>> /\ First(s, Len(s)) = s
         /\ \A n \in 0 .. (Len(s) - 1) :
              n + 1 \in DOMAIN s /\ Append(First(s, n), s[n + 1]) = First(s, n + 1)
<1>1. First(s, 0) = <<>> BY DEF First
<1>2. First(s, Len(s)) = s BY DEF First
<1>3. ASSUME NEW n \in 0 .. (Len(s) - 1)
      PROVE  n + 1 \in DOMAIN s /\ Append(First(s, n), s[n + 1]) = First(s, n + 1)
  <2>1. n \in Nat /\ n + 1 \in 1 .. Len(s) /\ DOMAIN s = 1 .. Len(s) BY <1>3
  <2> DEFINE a == First(s, n)  b == First(s, n + 1)  c == Append(a, s[n + 1])
  <2>2. a \in Seq(S) /\ Len(a) = n /\ \A m \in 1 .. n : a[m] = s[m] BY <2>1 DEF First
  <2>3. b \in Seq(S) /\ Len(b) = n + 1 /\ \A m \in 1 .. (n + 1) : b[m] = s[m] BY <2>1 DEF First
  <2>4. c \in Seq(S) /\ Len(c) = n + 1 /\ \A m \in 1 .. (n + 1) : c[m] = s[m]
    <3>1. s[n + 1] \in S BY <2>1
    <3> HIDE DEF a
    <3>2. c \in Seq(S) /\ Len(c) = n + 1 BY <2>2, <3>1
    <3>3. \A m \in 1 .. n : c[m] = a[m] BY <2>2
    <3>4. c[n + 1] = s[n + 1] BY <2>2
    <3> HIDE DEF c
    <3> QED BY <2>1, <2>2, <3>2, <3>3, <3>4
  <2>5. b = c
    <3> HIDE DEF b, c
    <3> QED BY <2>1, <2>3, <2>4
  <2> QED BY <2>1, <2>5
<1> QED BY <1>1, <1>2, <1>3

LEMMA NotEmpty ==
  ASSUME NEW S, NEW s \in Seq(S), s # <<>>
  PROVE  Len(s) \in Nat /\ Len(s) > 0 /\ 1 \in DOMAIN s /\ 0 \in 0 .. (Len(s) - 1)
<1> DEFINE N == Len(s)
<1>1. N \in Nat /\ N # 0 /\ DOMAIN s = 1 .. N OBVIOUS
<1> HIDE DEF N
<1>2. N > 0 /\ 1 \in 1 .. N /\ 0 \in 0 .. (N - 1) BY <1>1
<1> QED BY <1>1, <1>2 DEF N

LEMMA UpperKeepsMarks ==
  ASSUME NEW m \in Marks \cup {"!"}
  PROVE  Upper(<<m>>) = <<m>>
<1>1. m \notin DOMAIN UpperCase BY UpperCaseAssumption
<1>2. Upper(<<m>>) = [n \in {1} |-> m] BY <1>1 DEF Upper
<1> QED BY <1>2

\* A token is one keyword, and then no mark.
LEMMA OneKeyword ==
  ASSUME NEW ts, NEW i, NEW k, KeywordAt(ts, i, k)
  PROVE  /\ \A l : l # k => ~KeywordAt(ts, i, l)
         /\ \A m \in Marks : m # k => ~WordAt(ts, i, <<m>>)
<1>1. IsWordIn(ts, i) /\ Upper(ts[i].text) = <<k>> BY DEF KeywordAt
<1>2. ASSUME NEW l, l # k PROVE ~KeywordAt(ts, i, l)
  <2>1. <<k>> # <<l>> BY <1>2
  <2> QED BY <1>1, <2>1 DEF KeywordAt
<1>3. ASSUME NEW m \in Marks, m # k PROVE ~WordAt(ts, i, <<m>>)
  <2>1. <<k>> # <<m>> BY <1>3
  <2>2. Upper(<<m>>) = <<m>> BY UpperKeepsMarks
  <2> QED BY <1>1, <2>1, <2>2 DEF WordAt
<1> QED BY <1>2, <1>3

\* The parser looks at its tokens as the grammar does.
LEMMA SeesTokens ==
  ASSUME NEW i
  PROVE  /\ \A k : Kw(i, k) = KeywordAt(toks, i, k)
         /\ \A w : Is(i, w) = WordAt(toks, i, w)
         /\ \A w : NameAt(toks, i, w) => Bare(i) /\ Word(i) = w
         /\ IsWord(i) = IsWordIn(toks, i)
<1>1. IsWord(i) = IsWordIn(toks, i) BY DEF IsWord, Here, IsWordIn
<1>2. ASSUME NEW k PROVE Kw(i, k) = KeywordAt(toks, i, k) BY <1>1 DEF Kw, KeywordAt
<1>3. ASSUME NEW w PROVE Is(i, w) = WordAt(toks, i, w) BY <1>1 DEF Is, WordAt
<1>4. ASSUME NEW w, NameAt(toks, i, w) PROVE Bare(i) /\ Word(i) = w
  BY <1>1, <1>4 DEF NameAt, WordAt, Bare, Word
<1> QED BY <1>1, <1>2, <1>3, <1>4

\* A clause is followed by another one or by nothing.
Follows(ts, i, keywords) == i > Len(ts) \/ \E k \in keywords : KeywordAt(ts, i, k)

LEMMA ClausesFollow ==
  ASSUME NEW ts, NEW s, NEW lay, Spelled(ts, s, lay)
  PROVE  /\ Follows(ts, lay.limit, {"LIMIT"})
         /\ Follows(ts, lay.orderBy, {"ORDER", "LIMIT"})
         /\ Follows(ts, lay.groupBy, {"GROUP", "ORDER", "LIMIT"})
<1>1. lay.limit \in Nat /\ LimitSpelled(ts, s, lay) /\ OrderSpelled(ts, s, lay) /\ GroupSpelled(ts, s, lay)
  BY DEF Spelled
<1>2. Follows(ts, lay.limit, {"LIMIT"})
  <2>1. Len(ts) = lay.limit - 1 => lay.limit > Len(ts) BY <1>1
  <2> QED BY <1>1, <2>1 DEF LimitSpelled, Follows
<1>3. Follows(ts, lay.orderBy, {"ORDER", "LIMIT"})
  BY <1>1, <1>2 DEF OrderSpelled, Follows
<1>4. Follows(ts, lay.groupBy, {"GROUP", "ORDER", "LIMIT"})
  BY <1>1, <1>3 DEF GroupSpelled, Follows
<1> QED BY <1>2, <1>3, <1>4

LEMMA NothingElse ==
  ASSUME NEW ts, Len(ts) \in Nat, DOMAIN ts = 1 .. Len(ts), NEW i, i \in Nat,
         NEW keywords, Follows(ts, i, keywords)
  PROVE  /\ \A l : l \notin keywords => ~KeywordAt(ts, i, l)
         /\ \A m \in Marks : m \notin keywords => ~WordAt(ts, i, <<m>>)
<1>1. CASE i > Len(ts)
  <2>1. ~IsWordIn(ts, i) BY <1>1 DEF IsWordIn
  <2> QED BY <2>1 DEF KeywordAt, WordAt
<1>2. CASE ~(i > Len(ts))
  <2>1. PICK k \in keywords : KeywordAt(ts, i, k) BY <1>2 DEF Follows
  <2> QED BY <2>1, OneKeyword
<1> QED BY <1>1, <1>2

-----------------------------------------------------------------------------
(* The parser on a text of the grammar.                                    *)

LEMMA TextFacts ==
  ASSUME WrittenOut(input)
  PROVE  /\ Len(layout.tokens) \in Nat /\ DOMAIN layout.tokens = 1 .. Len(layout.tokens)
         /\ Spelled(layout.tokens, says, layout)
         /\ layout.from \in Nat /\ layout.groupBy \in Nat /\ layout.orderBy \in Nat
         /\ layout.limit \in Nat
<1>1. Spelled(layout.tokens, says, layout) BY DEF WrittenOut, says, layout
<1>2. layout.tokens \in Seq([kind : {"word", "str"}, text : Seq(STRING)])
  BY DEF WrittenOut, Spaced, layout
<1>3. Len(layout.tokens) \in Nat /\ DOMAIN layout.tokens = 1 .. Len(layout.tokens) BY <1>2
<1> QED BY <1>1, <1>3 DEF Spelled

\* What a step of the parser leaves alone.
Onward == UNCHANGED <<input, at, toks>> 

LEMMA OnwardKeeps ==
  ASSUME Onward
  PROVE  input' = input /\ toks' = toks /\ says' = says /\ layout' = layout
BY DEF Onward, says, layout

LEMMA NextItemSteps ==
  ASSUME NEW i, NEW next, NextItem(i, next)
  PROVE  /\ Onward
         /\ WordAt(toks, i, Comma) => pos' = i + 1 /\ stage' = stage
         /\ ~WordAt(toks, i, Comma) => pos' = i /\ stage' = next
<1>1. Is(i, <<",">>) = WordAt(toks, i, Comma) BY SeesTokens DEF Comma
<1> QED BY <1>1 DEF NextItem, GoOn, Onward

LEMMA SelectStep ==
  ASSUME WrittenOut(input), toks = layout.tokens, AtSelect, ParseSelect
  PROVE  Onward /\ (AtColumns' \/ AtAggregates' \/ AtFrom')
<1> DEFINE s == says  f == layout.from
<1>1. SelectSpelled(toks, s, f) /\ KeywordAt(toks, f, "FROM") /\ f \in Nat
  BY TextFacts DEF Spelled
<1>2. pos = 1 /\ join = "none" /\ query = NoQuery BY DEF AtSelect
<1>3. Kw(pos, "SELECT") BY <1>1, <1>2, SeesTokens DEF SelectSpelled
<1>4. /\ UNCHANGED join
      /\ IF Is(2, <<"*">>)
         THEN GoOn(3, "from") /\ query' = [query EXCEPT !.projected = TRUE]
         ELSE IF Bare(2) /\ Is(3, <<"(">>)
         THEN GoOn(2, "aggregates") /\ UNCHANGED query
         ELSE GoOn(2, "columns") /\ query' = [query EXCEPT !.projected = TRUE]
  <2>1. pos + 1 = 2 /\ pos + 2 = 3 BY <1>2
  <2> QED BY <1>3, <2>1 DEF ParseSelect
<1>5. Onward BY <1>4 DEF GoOn, Onward
<1>6. says' = says /\ layout' = layout BY <1>5, OnwardKeeps
<1>7. NoQuery = Built(<<>>, FALSE, <<>>, <<>>, <<>>, <<>>, <<>>, Unlimited)
  BY DEF NoQuery, Built
<1>8. [query EXCEPT !.projected = TRUE] = Built(<<>>, TRUE, <<>>, <<>>, <<>>, <<>>, <<>>, Unlimited)
  <2> DEFINE e == <<>>  no == FALSE  yes == TRUE
  <2>1. query = Built(e, no, e, e, e, e, e, Unlimited) BY <1>2, <1>7
  <2> HIDE DEF e, no, yes
  <2>2. [query EXCEPT !.projected = yes] = Built(e, yes, e, e, e, e, e, Unlimited)
    BY <2>1 DEF Built
  <2> QED BY <2>2 DEF e, yes
<1>9. s.columns \in Seq(Seq(STRING)) /\ s.aggregates \in Seq([func : Seq(STRING), arg : Seq(STRING)])
  BY <1>1 DEF SelectSpelled
<1>10. CASE /\ s.projected = TRUE /\ s.columns = <<>> /\ s.aggregates = <<>>
            /\ WordAt(toks, 2, <<"*">>) /\ f = 3
  <2>1. Is(2, <<"*">>) BY <1>10, SeesTokens
  <2>2. pos' = f /\ stage' = "from" /\ query' = [query EXCEPT !.projected = TRUE]
    BY <1>4, <1>10, <2>1 DEF GoOn
  <2>3. AtFrom' BY <1>2, <1>4, <1>6, <1>8, <1>10, <2>2 DEF AtFrom
  <2> QED BY <1>5, <2>3
<1>11. CASE /\ s.projected = TRUE /\ s.columns # <<>> /\ s.aggregates = <<>>
            /\ s.columns[1] # <<"*">> /\ NamesAt(toks, 2, s.columns)
            /\ f = 2 * Len(s.columns) + 1
  <2>1. 1 \in DOMAIN s.columns /\ Len(s.columns) \in Nat /\ Len(s.columns) >= 1 BY <1>9, <1>11
  <2>2. NameAt(toks, 2, s.columns[1]) /\ (1 < Len(s.columns) => WordAt(toks, 3, Comma))
    <3>1. 2 + 2 * (1 - 1) = 2 /\ 2 + 2 * 1 - 1 = 3 OBVIOUS
    <3>2. /\ NameAt(toks, 2 + 2 * (1 - 1), s.columns[1])
          /\ 1 < Len(s.columns) => WordAt(toks, 2 + 2 * 1 - 1, Comma)
      BY <1>11, <2>1 DEF NamesAt
    <3> QED BY <3>1, <3>2
  <2>3. ~Is(2, <<"*">>)
    <3>1. ~WordAt(toks, 2, <<"*">>) BY <1>11, <2>2 DEF NameAt, WordAt
    <3> QED BY <3>1, SeesTokens
  <2>4. ~Is(3, <<"(">>)
    <3>1. CASE Len(s.columns) = 1
      <4>1. KeywordAt(toks, 3, "FROM") BY <1>1, <1>11, <3>1
      <4>2. ~WordAt(toks, 3, <<"(">>) BY <4>1, OneKeyword DEF Marks
      <4> QED BY <4>2, SeesTokens
    <3>2. CASE Len(s.columns) # 1
      <4>0. 1 < Len(s.columns)
        <5> DEFINE N == Len(s.columns)
        <5>1. N \in Nat /\ N >= 1 /\ N # 1 BY <2>1, <3>2
        <5> HIDE DEF N
        <5>2. 1 < N BY <5>1
        <5> QED BY <5>2 DEF N
      <4>1. WordAt(toks, 3, Comma) BY <2>2, <4>0
      <4>2. Comma # <<"(">> BY DEF Comma
      <4>3. ~WordAt(toks, 3, <<"(">>) BY <4>1, <4>2 DEF WordAt
      <4> QED BY <4>3, SeesTokens
    <3> QED BY <3>1, <3>2
  <2>5. pos' = 2 /\ stage' = "columns" /\ query' = [query EXCEPT !.projected = TRUE]
    BY <1>4, <2>3, <2>4 DEF GoOn
  <2>6. First(s.columns, 0) = <<>> BY <1>9, FirstGrows
  <2>7. AtColumns'
    <3>1. 0 \in 0 .. (Len(s.columns) - 1) /\ 2 * 0 + 2 = 2 BY <2>1
    <3>2. query' = Built(<<>>, TRUE, First(s.columns, 0), <<>>, <<>>, <<>>, <<>>, Unlimited)
      BY <1>8, <2>5, <2>6
    <3>3. \E n \in 0 .. (Len(s.columns) - 1) :
            /\ pos' = 2 * n + 2
            /\ query' = Built(<<>>, TRUE, First(s.columns, n), <<>>, <<>>, <<>>, <<>>, Unlimited)
      BY <2>5, <3>1, <3>2
    <3>4. stage' = "columns" /\ join' = "none" BY <1>2, <1>4, <2>5
    <3> QED BY <1>6, <1>11, <3>3, <3>4 DEF AtColumns
  <2> QED BY <1>5, <2>7
<1>12. CASE /\ s.projected = FALSE /\ s.columns = <<>> /\ s.aggregates # <<>>
            /\ \A n \in DOMAIN s.aggregates :
                 /\ AggregateAt(toks, 5 * n - 3, s.aggregates[n])
                 /\ n < Len(s.aggregates) => WordAt(toks, 5 * n + 1, Comma)
            /\ f = 5 * Len(s.aggregates) + 1
  <2>1. 1 \in DOMAIN s.aggregates /\ Len(s.aggregates) \in Nat /\ Len(s.aggregates) >= 1
    BY <1>9, <1>12
  <2>2. AggregateAt(toks, 2, s.aggregates[1])
    <3>1. 5 * 1 - 3 = 2 OBVIOUS
    <3>2. AggregateAt(toks, 5 * 1 - 3, s.aggregates[1]) BY <1>12, <2>1
    <3> QED BY <3>1, <3>2
  <2>3. /\ IsWordIn(toks, 2) /\ ~IsOperator(toks[2].text)
        /\ Upper(toks[2].text) \in Functions /\ WordAt(toks, 3, <<"(">>)
    <3>1. 2 + 1 = 3 OBVIOUS
    <3> QED BY <2>2, <3>1 DEF AggregateAt
  <2>4. Bare(2) /\ Is(3, <<"(">>) BY <2>3, SeesTokens DEF Bare
  <2>5. ~Is(2, <<"*">>)
    <3>1. Upper(<<"*">>) = <<"*">> BY UpperKeepsMarks DEF Marks
    <3>2. <<"*">> \notin Functions BY DEF Functions
    <3>3. ~WordAt(toks, 2, <<"*">>) BY <2>3, <3>1, <3>2 DEF WordAt
    <3> QED BY <3>3, SeesTokens
  <2>6. pos' = 2 /\ stage' = "aggregates" /\ query' = query
    BY <1>4, <2>4, <2>5 DEF GoOn
  <2>7. First(s.aggregates, 0) = <<>> BY <1>9, FirstGrows
  <2>8. AtAggregates'
    <3>1. 0 \in 0 .. (Len(s.aggregates) - 1) /\ 5 * 0 + 2 = 2 BY <2>1
    <3>2. query' = Built(First(s.aggregates, 0), FALSE, <<>>, <<>>, <<>>, <<>>, <<>>, Unlimited)
      BY <1>2, <1>7, <2>6, <2>7
    <3>3. \E n \in 0 .. (Len(s.aggregates) - 1) :
            /\ pos' = 5 * n + 2
            /\ query' = Built(First(s.aggregates, n), FALSE, <<>>, <<>>, <<>>, <<>>, <<>>, Unlimited)
      BY <2>6, <3>1, <3>2
    <3>4. stage' = "aggregates" /\ join' = "none" BY <1>2, <1>4, <2>6
    <3> QED BY <1>6, <1>12, <3>3, <3>4 DEF AtAggregates
  <2> QED BY <1>5, <2>8
<1> QED
  <2> HIDE DEF f, s
  <2> QED BY <1>1, <1>10, <1>11, <1>12 DEF SelectSpelled

LEMMA ColumnStep ==
  ASSUME WrittenOut(input), toks = layout.tokens, AtColumns, ParseColumn
  PROVE  Onward /\ (AtColumns' \/ AtFrom')
<1> DEFINE s == says  f == layout.from  names == s.columns
<1>1. SelectSpelled(toks, s, f) /\ KeywordAt(toks, f, "FROM") /\ f \in Nat
  BY TextFacts DEF Spelled
<1>2. /\ stage = "columns" /\ join = "none" /\ s.aggregates = <<>> /\ s.projected = TRUE
      /\ names \in Seq(Seq(STRING))
  BY <1>1 DEF AtColumns, SelectSpelled
<1>3. PICK n \in 0 .. (Len(names) - 1) :
        /\ pos = 2 * n + 2
        /\ query = Built(<<>>, TRUE, First(names, n), <<>>, <<>>, <<>>, <<>>, Unlimited)
  BY DEF AtColumns
<1>4. n \in Nat /\ Len(names) \in Nat /\ n < Len(names) /\ names # <<>> BY <1>2, <1>3
<1>5. NamesAt(toks, 2, names) /\ f = 2 * Len(names) + 1
  BY <1>1, <1>4 DEF SelectSpelled
<1>6. n + 1 \in DOMAIN names /\ Append(First(names, n), names[n + 1]) = First(names, n + 1)
      /\ First(names, Len(names)) = names
  BY <1>2, <1>3, FirstGrows
<1>7. NameAt(toks, pos, names[n + 1]) /\ (n + 1 < Len(names) => WordAt(toks, pos + 1, Comma))
  <2>1. 2 + 2 * ((n + 1) - 1) = pos /\ 2 + 2 * (n + 1) - 1 = pos + 1 BY <1>3, <1>4
  <2>2. /\ NameAt(toks, 2 + 2 * ((n + 1) - 1), names[n + 1])
        /\ n + 1 < Len(names) => WordAt(toks, 2 + 2 * (n + 1) - 1, Comma)
    BY <1>5, <1>6 DEF NamesAt
  <2> QED BY <2>1, <2>2
<1>8. Bare(pos) /\ Word(pos) = names[n + 1] BY <1>7, SeesTokens
<1>9. /\ query' = [query EXCEPT !.columns = Append(@, Word(pos))]
      /\ NextItem(pos + 1, "from") /\ join' = join
  BY <1>8 DEF ParseColumn
<1>10. query' = Built(<<>>, TRUE, First(names, n + 1), <<>>, <<>>, <<>>, <<>>, Unlimited)
  <2> DEFINE e == <<>>  yes == TRUE  old == First(names, n)  new == First(names, n + 1)
             word == Word(pos)
  <2>1. query = Built(e, yes, old, e, e, e, e, Unlimited) BY <1>3
  <2>2. Append(old, word) = new BY <1>6, <1>8
  <2>3. query' = [query EXCEPT !.columns = Append(@, word)] BY <1>9
  <2> HIDE DEF e, yes, old, new, word
  <2>4. query.columns = old BY <2>1 DEF Built
  <2>5. query' = [query EXCEPT !.columns = new] BY <2>2, <2>3, <2>4
  <2>6. query' = Built(e, yes, new, e, e, e, e, Unlimited) BY <2>1, <2>5 DEF Built
  <2> QED BY <2>6 DEF e, yes, new
<1>11. Onward BY <1>9, NextItemSteps
<1>12. says' = says /\ layout' = layout BY <1>11, OnwardKeeps
<1>13. CASE n + 1 < Len(names)
  <2>1. pos' = (pos + 1) + 1 /\ stage' = "columns" BY <1>2, <1>7, <1>9, <1>13, NextItemSteps
  <2>2. n + 1 \in 0 .. (Len(names) - 1) /\ pos' = 2 * (n + 1) + 2 BY <1>3, <1>4, <1>13, <2>1
  <2> QED BY <1>2, <1>9, <1>10, <1>11, <1>12, <2>1, <2>2 DEF AtColumns
<1>14. CASE ~(n + 1 < Len(names))
  <2>1. n + 1 = Len(names) /\ pos + 1 = f BY <1>3, <1>4, <1>5, <1>14
  <2>2. ~WordAt(toks, pos + 1, Comma) BY <1>1, <2>1, OneKeyword DEF Comma, Marks
  <2>3. pos' = f /\ stage' = "from" BY <1>9, <2>1, <2>2, NextItemSteps
  <2>4. query' = Built(s.aggregates, s.projected, s.columns, <<>>, <<>>, <<>>, <<>>, Unlimited)
    BY <1>2, <1>6, <1>10, <2>1
  <2> QED BY <1>2, <1>9, <1>11, <1>12, <2>3, <2>4 DEF AtFrom
<1> QED BY <1>13, <1>14

LEMMA TermsFacts ==
  ASSUME WrittenOut(input)
  PROVE  /\ AreTerms(says.terms) /\ Len(says.terms) \in Nat
         /\ Len(says.terms) = 0 => says.terms = <<>>
         /\ \A n \in DOMAIN says.terms : says.terms[n].join \in {"none", "and", "or"}
<1> DEFINE terms == says.terms
           T == [join : {"none", "and", "or"}, negate : BOOLEAN, field : Seq(STRING),
                 op : CmpOps, value : {terms[n].value : n \in DOMAIN terms}]
<1>1. WhereSpelled(layout.tokens, says, layout) BY TextFacts DEF Spelled
<1>2. terms \in Seq(T) BY <1>1 DEF WhereSpelled
<1>3. Len(terms) \in Nat /\ DOMAIN terms = 1 .. Len(terms) /\ (Len(terms) = 0 => terms = <<>>)
      /\ \A n \in DOMAIN terms : terms[n] \in T
  <2> HIDE DEF T
  <2> QED BY <1>2
<1>4. \A n \in DOMAIN terms : terms[n].join \in {"none", "and", "or"} /\ terms[n].negate \in BOOLEAN
  BY <1>3
<1> HIDE DEF terms
<1> QED BY <1>3, <1>4 DEF AreTerms, terms

LEMMA AggregateStep ==
  ASSUME WrittenOut(input), toks = layout.tokens, AtAggregates, ParseAgg
  PROVE  Onward /\ (AtAggregates' \/ AtFrom')
<1> DEFINE s == says  f == layout.from  aggs == s.aggregates
<1>1. SelectSpelled(toks, s, f) /\ KeywordAt(toks, f, "FROM") /\ f \in Nat
  BY TextFacts DEF Spelled
<1>2. /\ stage = "aggregates" /\ join = "none" /\ s.columns = <<>> /\ s.projected = FALSE
      /\ aggs \in Seq([func : Seq(STRING), arg : Seq(STRING)])
  BY <1>1 DEF AtAggregates, SelectSpelled
<1>3. PICK n \in 0 .. (Len(aggs) - 1) :
        /\ pos = 5 * n + 2
        /\ query = Built(First(aggs, n), FALSE, <<>>, <<>>, <<>>, <<>>, <<>>, Unlimited)
  BY DEF AtAggregates
<1>4. n \in Nat /\ Len(aggs) \in Nat /\ n < Len(aggs) /\ aggs # <<>> BY <1>2, <1>3
<1>5. /\ \A m \in DOMAIN aggs : /\ AggregateAt(toks, 5 * m - 3, aggs[m])
                                /\ m < Len(aggs) => WordAt(toks, 5 * m + 1, Comma)
      /\ f = 5 * Len(aggs) + 1
  BY <1>1, <1>2, <1>4 DEF SelectSpelled
<1>6. n + 1 \in DOMAIN aggs /\ Append(First(aggs, n), aggs[n + 1]) = First(aggs, n + 1)
      /\ First(aggs, Len(aggs)) = aggs
  BY <1>2, <1>3, FirstGrows
<1> DEFINE agg == aggs[n + 1]
<1>7. AggregateAt(toks, pos, agg) /\ (n + 1 < Len(aggs) => WordAt(toks, pos + 4, Comma))
  <2>1. 5 * (n + 1) - 3 = pos /\ 5 * (n + 1) + 1 = pos + 4 BY <1>3, <1>4
  <2>2. /\ AggregateAt(toks, 5 * (n + 1) - 3, aggs[n + 1])
        /\ n + 1 < Len(aggs) => WordAt(toks, 5 * (n + 1) + 1, Comma)
    BY <1>5, <1>6
  <2> QED BY <2>1, <2>2
<1>8. agg \in [func : Seq(STRING), arg : Seq(STRING)]
  <2> DEFINE S == [func : Seq(STRING), arg : Seq(STRING)]
  <2>1. aggs \in Seq(S) /\ n + 1 \in DOMAIN aggs BY <1>2, <1>6
  <2> HIDE DEF S
  <2>2. aggs[n + 1] \in S BY <2>1
  <2> QED BY <2>2 DEF S
<1> HIDE DEF agg
<1>9. /\ Bare(pos) /\ Is(pos + 1, <<"(">>) /\ IsWord(pos + 2) /\ Is(pos + 3, <<")">>)
      /\ Upper(Word(pos)) = agg.func /\ agg.func \in Functions
      /\ Word(pos + 2) = toks[pos + 2].text
  <2>1. Word(pos) = toks[pos].text /\ Word(pos + 2) = toks[pos + 2].text BY DEF Word
  <2>2. IsWord(pos) /\ IsWord(pos + 2) BY <1>7, SeesTokens DEF AggregateAt
  <2>3. Is(pos + 1, <<"(">>) /\ Is(pos + 3, <<")">>) BY <1>7, SeesTokens DEF AggregateAt
  <2> QED BY <1>7, <2>1, <2>2, <2>3 DEF AggregateAt, Bare
<1>10. /\ agg.func # <<"COUNT">> => Word(pos + 2) # <<"*">>
       /\ agg.arg = IF agg.func = <<"COUNT">> THEN <<>> ELSE Word(pos + 2)
  BY <1>7, <1>9 DEF AggregateAt
<1>11. agg = [func |-> agg.func, arg |-> agg.arg] BY <1>8
<1>12. /\ query' = [query EXCEPT !.aggregates = Append(@, agg)]
       /\ NextItem(pos + 4, "from") /\ join' = join
  BY <1>9, <1>10, <1>11 DEF ParseAgg
<1>13. query' = Built(First(aggs, n + 1), FALSE, <<>>, <<>>, <<>>, <<>>, <<>>, Unlimited)
  <2> DEFINE e == <<>>  no == FALSE  old == First(aggs, n)  new == First(aggs, n + 1)
  <2>1. query = Built(old, no, e, e, e, e, e, Unlimited) BY <1>3
  <2>2. Append(old, agg) = new BY <1>6 DEF agg
  <2> HIDE DEF e, no, old, new
  <2>3. query.aggregates = old BY <2>1 DEF Built
  <2>4. query' = [query EXCEPT !.aggregates = new] BY <1>12, <2>2, <2>3
  <2>5. query' = Built(new, no, e, e, e, e, e, Unlimited) BY <2>1, <2>4 DEF Built
  <2> QED BY <2>5 DEF e, no, new
<1>14. Onward BY <1>12, NextItemSteps
<1>15. says' = says /\ layout' = layout BY <1>14, OnwardKeeps
<1>16. CASE n + 1 < Len(aggs)
  <2>1. pos' = (pos + 4) + 1 /\ stage' = "aggregates" BY <1>2, <1>7, <1>12, <1>16, NextItemSteps
  <2>2. n + 1 \in 0 .. (Len(aggs) - 1) /\ pos' = 5 * (n + 1) + 2 BY <1>3, <1>4, <1>16, <2>1
  <2> QED BY <1>2, <1>12, <1>13, <1>14, <1>15, <2>1, <2>2 DEF AtAggregates
<1>17. CASE ~(n + 1 < Len(aggs))
  <2>1. n + 1 = Len(aggs) BY <1>4, <1>17
  <2>2. pos + 4 = f
    <3>1. pos = 5 * n + 2 /\ f = 5 * (n + 1) + 1 /\ n \in Nat BY <1>3, <1>4, <1>5, <2>1
    <3> HIDE DEF f
    <3> QED BY <3>1
  <2>3. ~WordAt(toks, pos + 4, Comma) BY <1>1, <2>2, OneKeyword DEF Comma, Marks
  <2>4. pos' = f /\ stage' = "from" BY <1>12, <2>2, <2>3, NextItemSteps
  <2>5. query' = Built(s.aggregates, s.projected, s.columns, <<>>, <<>>, <<>>, <<>>, Unlimited)
    BY <1>2, <1>6, <1>13, <2>1
  <2> QED BY <1>2, <1>12, <1>14, <1>15, <2>4, <2>5 DEF AtFrom
<1> QED BY <1>16, <1>17

LEMMA FromStep ==
  ASSUME WrittenOut(input), toks = layout.tokens, AtFrom, ParseFrom
  PROVE  Onward /\ (AtTerm' \/ AtGroup')
<1> DEFINE s == says  f == layout.from  terms == s.terms
<1>1. /\ KeywordAt(toks, f, "FROM") /\ NameAt(toks, f + 1, s.dataset) /\ f \in Nat
      /\ WhereSpelled(toks, s, layout) /\ layout.groupBy \in Nat
  BY TextFacts DEF Spelled
<1>2. /\ pos = f /\ join = "none"
      /\ query = Built(s.aggregates, s.projected, s.columns, <<>>, <<>>, <<>>, <<>>, Unlimited)
  BY DEF AtFrom
<1>3. Kw(pos, "FROM") /\ Bare(pos + 1) /\ Word(pos + 1) = s.dataset BY <1>1, <1>2, SeesTokens
<1>4. /\ join' = join
      /\ IF Kw(pos + 2, "WHERE")
         THEN GoOn(pos + 3, "term") /\ query' = [query EXCEPT !.dataset = s.dataset]
         ELSE /\ GoOn(pos + 2, "group")
              /\ query' = [query EXCEPT !.dataset = s.dataset, !.pred = <<[shape |-> "true"]>>]
  BY <1>3 DEF ParseFrom
<1>5. Onward BY <1>4 DEF GoOn, Onward
<1>6. says' = says /\ layout' = layout BY <1>5, OnwardKeeps
<1>7. CASE terms = <<>>
  <2>1. layout.groupBy = f + 2 BY <1>1, <1>7 DEF WhereSpelled
  <2>2. ~Kw(pos + 2, "WHERE")
    <3>1. Follows(toks, f + 2, {"GROUP", "ORDER", "LIMIT"}) BY <2>1, TextFacts, ClausesFollow
    <3>2. ~KeywordAt(toks, f + 2, "WHERE")
      <4>1. f + 2 \in Nat /\ Len(toks) \in Nat /\ DOMAIN toks = 1 .. Len(toks) BY <1>1, TextFacts
      <4>2. "WHERE" \notin {"GROUP", "ORDER", "LIMIT"} OBVIOUS
      <4> QED BY <3>1, <4>1, <4>2, NothingElse
    <3> QED BY <1>2, <3>2, SeesTokens
  <2>3. /\ pos' = layout.groupBy /\ stage' = "group"
        /\ query' = [query EXCEPT !.dataset = s.dataset, !.pred = <<[shape |-> "true"]>>]
    BY <1>2, <1>4, <2>1, <2>2 DEF GoOn
  <2> DEFINE pred == <<[shape |-> "true"]>>
  <2>4. query' = Built(s.aggregates, s.projected, s.columns, s.dataset, pred, <<>>, <<>>, Unlimited)
    <3> DEFINE e == <<>>  a == s.aggregates  p == s.projected  c == s.columns  d == s.dataset
    <3>1. query = Built(a, p, c, e, e, e, e, Unlimited) BY <1>2
    <3>2. query' = [query EXCEPT !.dataset = d, !.pred = pred] BY <2>3
    <3> HIDE DEF e, a, p, c, d, pred
    <3>3. query' = Built(a, p, c, d, pred, e, e, Unlimited) BY <3>1, <3>2 DEF Built
    <3> QED BY <3>3 DEF e, a, p, c, d
  <2> HIDE DEF pred
  <2>5. query'.pred = pred BY <2>4 DEF Built
  <2>6. MeansAll(pred, terms) BY <1>7, NoTermsMean DEF pred
  <2> QED BY <1>5, <1>6, <2>3, <2>4, <2>5, <2>6 DEF AtGroup, Filtered
<1>8. CASE terms # <<>>
  <2>1. /\ KeywordAt(toks, f + 2, "WHERE") /\ layout.terms[1] = (f + 2) + 1
        /\ Len(terms) \in Nat /\ Len(terms) > 0
    <3>1. Len(terms) \in Nat /\ (Len(terms) = 0 => terms = <<>>) BY TermsFacts
    <3>2. Len(terms) > 0
      <4> DEFINE N == Len(terms)
      <4>1. N \in Nat /\ N # 0 BY <1>8, <3>1
      <4> HIDE DEF N
      <4>2. N > 0 BY <4>1
      <4> QED BY <4>2 DEF N
    <3>3. KeywordAt(toks, f + 2, "WHERE") /\ layout.terms[1] = (f + 2) + 1
      BY <1>1, <1>8 DEF WhereSpelled
    <3> QED BY <3>1, <3>2, <3>3
  <2>2. Kw(pos + 2, "WHERE") BY <1>2, <2>1, SeesTokens
  <2>3. pos' = pos + 3 /\ stage' = "term" /\ query' = [query EXCEPT !.dataset = s.dataset]
    BY <1>4, <2>2 DEF GoOn
  <2>4. query' = Built(s.aggregates, s.projected, s.columns, s.dataset, <<>>, <<>>, <<>>, Unlimited)
    <3> DEFINE e == <<>>  a == s.aggregates  p == s.projected  c == s.columns  d == s.dataset
    <3>1. query = Built(a, p, c, e, e, e, e, Unlimited) BY <1>2
    <3>2. query' = [query EXCEPT !.dataset = d] BY <2>3
    <3> HIDE DEF e, a, p, c, d
    <3>3. query' = Built(a, p, c, d, e, e, e, Unlimited) BY <3>1, <3>2 DEF Built
    <3> QED BY <3>3 DEF e, a, p, c, d
  <2>5. query'.pred = <<>> BY <2>4 DEF Built
  <2>6. 0 \in 0 .. (Len(terms) - 1) /\ pos' = layout.terms[0 + 1] BY <1>1, <1>2, <2>1, <2>3
  <2>7. \E n \in 0 .. (Len(terms) - 1) :
          /\ pos' = layout.terms[n + 1]
          /\ n = 0 => join' = "none" /\ query'.pred = <<>>
          /\ n > 0 => join' = terms[n + 1].join /\ MeansFirst(query'.pred, terms, n)
    BY <1>2, <1>4, <2>5, <2>6
  <2> QED BY <1>5, <1>6, <2>3, <2>4, <2>5, <2>7 DEF AtTerm
<1> QED BY <1>7, <1>8

\* What the grammar says of one term of a WHERE clause, and of what follows it.
LEMMA TermPlaces ==
  ASSUME WrittenOut(input), NEW n \in Nat, n < Len(says.terms)
  PROVE  LET ts == layout.tokens
             here == layout.terms[n + 1]
             next == layout.terms[n + 2]
             term == says.terms[n + 1]
         IN  /\ n + 1 \in DOMAIN says.terms /\ here \in Nat /\ next \in Nat
             /\ term.negate \in BOOLEAN
             /\ TermAt(ts, here, term)
             /\ next = AfterTerm(here, term) + 1
             /\ n + 1 < Len(says.terms) =>
                  \/ says.terms[n + 2].join = "and" /\ KeywordAt(ts, next - 1, "AND")
                  \/ says.terms[n + 2].join = "or" /\ KeywordAt(ts, next - 1, "OR")
             /\ n + 1 = Len(says.terms) => layout.groupBy = next - 1
<1> DEFINE terms == says.terms  N == Len(terms)
<1>1. WhereSpelled(layout.tokens, says, layout) BY TextFacts DEF Spelled
<1>2. AreTerms(terms) /\ N \in Nat BY TermsFacts
<1>3. n + 1 \in 1 .. N /\ n + 2 \in 1 .. (N + 1) /\ n + 1 \in 1 .. (N + 1) BY <1>2
<1>4. DOMAIN terms = 1 .. N BY <1>2 DEF AreTerms
<1>5. terms # <<>>
  <2>1. DOMAIN <<>> = {} OBVIOUS
  <2> QED BY <1>3, <1>4, <2>1
<1>6. layout.terms \in [1 .. (N + 1) -> Nat] BY <1>1 DEF WhereSpelled
<1>7. layout.terms[n + 1] \in Nat /\ layout.terms[n + 2] \in Nat
  <2> HIDE DEF N
  <2> QED BY <1>3, <1>6
<1>8. /\ TermAt(layout.tokens, layout.terms[n + 1], terms[n + 1])
      /\ layout.terms[(n + 1) + 1] = AfterTerm(layout.terms[n + 1], terms[n + 1]) + 1
      /\ n + 1 < N =>
           \/ /\ terms[(n + 1) + 1].join = "and"
              /\ KeywordAt(layout.tokens, layout.terms[(n + 1) + 1] - 1, "AND")
           \/ /\ terms[(n + 1) + 1].join = "or"
              /\ KeywordAt(layout.tokens, layout.terms[(n + 1) + 1] - 1, "OR")
      /\ layout.groupBy = layout.terms[N + 1] - 1
  <2>1. \A m \in DOMAIN terms :
          /\ TermAt(layout.tokens, layout.terms[m], terms[m])
          /\ layout.terms[m + 1] = AfterTerm(layout.terms[m], terms[m]) + 1
          /\ m < Len(terms) =>
               \/ terms[m + 1].join = "and" /\ KeywordAt(layout.tokens, layout.terms[m + 1] - 1, "AND")
               \/ terms[m + 1].join = "or" /\ KeywordAt(layout.tokens, layout.terms[m + 1] - 1, "OR")
    BY <1>1, <1>5 DEF WhereSpelled
  <2>2. layout.groupBy = layout.terms[Len(terms) + 1] - 1 BY <1>1, <1>5 DEF WhereSpelled
  <2>3. n + 1 \in DOMAIN terms BY <1>3, <1>4
  <2> HIDE DEF terms
  <2> QED BY <2>1, <2>2, <2>3
<1>9. (n + 1) + 1 = n + 2 OBVIOUS
<1>10. terms[n + 1].negate \in BOOLEAN BY <1>2, <1>3, <1>4 DEF AreTerms
<1> HIDE DEF terms, N
<1> QED BY <1>3, <1>4, <1>7, <1>8, <1>9, <1>10 DEF terms, N

\* parse_term reads what the grammar calls a term.
LEMMA TermRead ==
  ASSUME NEW i \in Nat, NEW term, term.negate \in BOOLEAN, TermAt(toks, i, term),
         pos = i, ParseTerm
  PROVE  LET after == AfterTerm(i, term)
         IN  /\ after \in Nat
             /\ query' = [query EXCEPT !.pred = Joined(@, TermNodes(Comparison(term), term.negate), join)]
             /\ join' = IF Kw(after, "AND") THEN "and"
                        ELSE IF Kw(after, "OR") THEN "or" ELSE join
             /\ IF Kw(after, "AND") \/ Kw(after, "OR")
                THEN GoOn(after + 1, "term") ELSE GoOn(after, "group")
<1> DEFINE f == IF term.negate THEN i + 1 ELSE i
<1>1. /\ term.negate = KeywordAt(toks, i, "NOT") /\ NameAt(toks, f, term.field)
      /\ IsWordIn(toks, f + 1) /\ toks[f + 1].text \in DOMAIN OpOf
      /\ OpOf[toks[f + 1].text] = term.op
      /\ f + 2 \in DOMAIN toks /\ term.value = ValueOf(toks[f + 2])
  BY DEF TermAt
<1>2. Kw(pos, "NOT") = term.negate BY <1>1, SeesTokens
<1>3. f \in Nat /\ f = (IF Kw(pos, "NOT") THEN pos + 1 ELSE pos) BY <1>2
<1>4. AfterTerm(i, term) = f + 3 BY DEF AfterTerm
<1> HIDE DEF f
<1>5. Bare(f) /\ Word(f) = term.field BY <1>1, SeesTokens
<1>6. IsWord(f + 1) /\ Word(f + 1) = toks[f + 1].text BY <1>1, SeesTokens DEF Word
<1>7. Here(f + 2) BY <1>1 DEF Here
<1>8. Literal(f + 2) = term.value
  <2>1. IsWord(f + 2) = (toks[f + 2].kind = "word") BY <1>7 DEF IsWord
  <2> QED BY <1>1, <2>1 DEF Literal, ValueOf, Word
<1> DEFINE cmp == [shape |-> "cmp", field |-> Word(f), op |-> OpOf[Word(f + 1)],
                   value |-> Literal(f + 2)]
           nodes == IF Kw(pos, "NOT") THEN <<cmp, [shape |-> "not", left |-> 1]>> ELSE <<cmp>>
<1>9. cmp = Comparison(term) BY <1>1, <1>5, <1>6, <1>8 DEF Comparison
<1>10. nodes = TermNodes(Comparison(term), term.negate)
  <2> HIDE DEF cmp
  <2> QED BY <1>2, <1>9 DEF TermNodes
<1>11. /\ query' = [query EXCEPT !.pred = Joined(@, nodes, join)]
       /\ join' = IF Kw(f + 3, "AND") THEN "and" ELSE IF Kw(f + 3, "OR") THEN "or" ELSE join
       /\ IF Kw(f + 3, "AND") \/ Kw(f + 3, "OR") THEN GoOn(f + 4, "term") ELSE GoOn(f + 3, "group")
  BY <1>1, <1>3, <1>5, <1>6, <1>7 DEF ParseTerm
<1>12. (f + 3) + 1 = f + 4 /\ f + 3 \in Nat BY <1>3
<1> HIDE DEF nodes
<1> QED BY <1>4, <1>10, <1>11, <1>12

LEMMA TermStep ==
  ASSUME WrittenOut(input), toks = layout.tokens, AtTerm, ParseTerm
  PROVE  Onward /\ (AtTerm' \/ AtGroup')
<1> DEFINE s == says  terms == s.terms  N == Len(terms)
<1>1. /\ stage = "term"
      /\ query = Built(s.aggregates, s.projected, s.columns, s.dataset, query.pred, <<>>, <<>>, Unlimited)
  BY DEF AtTerm
<1>2. PICK n \in 0 .. (N - 1) :
        /\ pos = layout.terms[n + 1]
        /\ n = 0 => join = "none" /\ query.pred = <<>>
        /\ n > 0 => join = terms[n + 1].join /\ MeansFirst(query.pred, terms, n)
  BY DEF AtTerm
<1>3. AreTerms(terms) /\ N \in Nat /\ n \in Nat /\ n < N BY <1>2, TermsFacts
<1> DEFINE term == terms[n + 1]  after == layout.terms[n + 2] - 1
<1>4. /\ n + 1 \in DOMAIN terms /\ pos \in Nat /\ layout.terms[n + 2] \in Nat
      /\ term.negate \in BOOLEAN /\ TermAt(toks, pos, term)
      /\ layout.terms[n + 2] = AfterTerm(pos, term) + 1
      /\ n + 1 < N => \/ terms[n + 2].join = "and" /\ KeywordAt(toks, after, "AND")
                      \/ terms[n + 2].join = "or" /\ KeywordAt(toks, after, "OR")
      /\ n + 1 = N => layout.groupBy = after
  BY <1>2, <1>3, TermPlaces
<1> HIDE DEF term
<1> DEFINE nodes == TermNodes(Comparison(term), term.negate)
<1>5. /\ AfterTerm(pos, term) \in Nat
      /\ query' = [query EXCEPT !.pred = Joined(@, nodes, join)]
      /\ join' = IF Kw(AfterTerm(pos, term), "AND") THEN "and"
                 ELSE IF Kw(AfterTerm(pos, term), "OR") THEN "or" ELSE join
      /\ IF Kw(AfterTerm(pos, term), "AND") \/ Kw(AfterTerm(pos, term), "OR")
         THEN GoOn(AfterTerm(pos, term) + 1, "term") ELSE GoOn(AfterTerm(pos, term), "group")
  BY <1>4, TermRead
<1>6. after \in Nat /\ after = AfterTerm(pos, term) /\ after + 1 = layout.terms[n + 2]
  BY <1>4, <1>5
<1> HIDE DEF after, nodes
<1>7. /\ query' = [query EXCEPT !.pred = Joined(@, nodes, join)]
      /\ join' = IF Kw(after, "AND") THEN "and" ELSE IF Kw(after, "OR") THEN "or" ELSE join
      /\ IF Kw(after, "AND") \/ Kw(after, "OR") THEN GoOn(after + 1, "term") ELSE GoOn(after, "group")
  BY <1>5, <1>6
<1> DEFINE pred == Joined(query.pred, nodes, join)
<1>8. query' = Built(s.aggregates, s.projected, s.columns, s.dataset, pred, <<>>, <<>>, Unlimited)
  <2> DEFINE e == <<>>  a == s.aggregates  p == s.projected  c == s.columns  d == s.dataset
             old == query.pred
  <2>1. query = Built(a, p, c, d, old, e, e, Unlimited) BY <1>1
  <2>2. query' = [query EXCEPT !.pred = pred] BY <1>7
  <2> HIDE DEF e, a, p, c, d, old, pred
  <2>3. query' = Built(a, p, c, d, pred, e, e, Unlimited) BY <2>1, <2>2 DEF Built
  <2> QED BY <2>3 DEF e, a, p, c, d
<1>9. MeansFirst(pred, terms, n + 1)
  <2>1. CASE n = 0
    <3>1. pred = Joined(<<>>, TermNodes(Comparison(terms[1]), terms[1].negate), "none")
      BY <1>2, <2>1 DEF nodes, term
    <3>2. 1 \in DOMAIN terms /\ n + 1 = 1 BY <1>4, <2>1
    <3> HIDE DEF pred, terms
    <3> QED BY <1>3, <3>1, <3>2, FirstTermMeans
  <2>2. CASE n > 0
    <3>1. n >= 1 /\ n \in Nat /\ n - 1 \in Nat /\ n - 1 < N BY <1>3, <2>2
    <3>2. terms[n + 1].join \in {"and", "or"}
      <4>1. (n - 1) + 1 = n /\ (n - 1) + 2 = n + 1 BY <3>1
      <4>2. (n - 1) + 1 < Len(says.terms) BY <1>3, <4>1
      <4>3. says.terms[(n - 1) + 2].join \in {"and", "or"} BY <3>1, <4>2, TermPlaces
      <4> QED BY <4>1, <4>3
    <3>3. MeansFirst(query.pred, terms, n) /\ join = terms[n + 1].join BY <1>2, <2>2
    <3>4. pred = Joined(query.pred, TermNodes(Comparison(terms[n + 1]), terms[n + 1].negate),
                        terms[n + 1].join)
      BY <3>3 DEF nodes, term
    <3> HIDE DEF pred, terms
    <3> QED BY <1>3, <1>4, <3>1, <3>2, <3>3, <3>4, NextTermMeans
  <2> QED BY <1>3, <2>1, <2>2
<1> HIDE DEF pred
<1>10. query'.pred = pred BY <1>8 DEF Built
<1>11. Onward BY <1>7 DEF GoOn, Onward
<1>12. says' = says /\ layout' = layout BY <1>11, OnwardKeeps
<1>13. CASE n + 1 < N
  <2>1. (Kw(after, "AND") \/ Kw(after, "OR")) /\ join' = terms[n + 2].join
    <3>1. \A k : Kw(after, k) = KeywordAt(toks, after, k) BY SeesTokens
    <3>2. KeywordAt(toks, after, "OR") => ~KeywordAt(toks, after, "AND")
      BY OneKeyword
    <3> QED BY <1>4, <1>7, <1>13, <3>1, <3>2
  <2>2. pos' = layout.terms[n + 2] /\ stage' = "term" BY <1>6, <1>7, <2>1 DEF GoOn
  <2> DEFINE m == n + 1
  <2>3. m \in 0 .. (N - 1) /\ m + 1 = n + 2 /\ m > 0 /\ m # 0 BY <1>3, <1>13
  <2>4. MeansFirst(pred, terms, m) BY <1>9
  <2> HIDE DEF m
  <2>5. \E k \in 0 .. (N - 1) :
          /\ pos' = layout.terms[k + 1]
          /\ k = 0 => join' = "none" /\ query'.pred = <<>>
          /\ k > 0 => join' = terms[k + 1].join /\ MeansFirst(query'.pred, terms, k)
    BY <1>10, <2>1, <2>2, <2>3, <2>4
  <2> QED BY <1>8, <1>10, <1>11, <1>12, <2>2, <2>5 DEF AtTerm
<1>14. CASE ~(n + 1 < N)
  <2>1. n + 1 = N /\ after = layout.groupBy BY <1>3, <1>4, <1>14
  <2>2. ~Kw(after, "AND") /\ ~Kw(after, "OR")
    <3>1. Follows(toks, after, {"GROUP", "ORDER", "LIMIT"}) BY <2>1, TextFacts, ClausesFollow
    <3>2. Len(toks) \in Nat /\ DOMAIN toks = 1 .. Len(toks) BY TextFacts
    <3>3. "AND" \notin {"GROUP", "ORDER", "LIMIT"} /\ "OR" \notin {"GROUP", "ORDER", "LIMIT"}
      OBVIOUS
    <3>4. ~KeywordAt(toks, after, "AND") /\ ~KeywordAt(toks, after, "OR")
      BY <1>6, <3>1, <3>2, <3>3, NothingElse
    <3> QED BY <3>4, SeesTokens
  <2>3. pos' = layout.groupBy /\ stage' = "group" BY <1>7, <2>1, <2>2 DEF GoOn
  <2>4. MeansAll(pred, terms)
    <3>1. MeansFirst(pred, terms, Len(terms)) BY <1>9, <2>1
    <3>2. terms # <<>>
      <4>1. DOMAIN <<>> = {} OBVIOUS
      <4> QED BY <1>4, <4>1
    <3> HIDE DEF terms
    <3> QED BY <1>3, <3>1, <3>2, LastTermMeans
  <2> QED BY <1>8, <1>10, <1>11, <1>12, <2>3, <2>4 DEF AtGroup, Filtered
<1> QED BY <1>13, <1>14

LEMMA FromNothing == 0 + 1 = 1 /\ \A g \in Nat : g + 2 = g + 2 + 2 * 0
OBVIOUS

LEMMA GroupStep ==
  ASSUME WrittenOut(input), toks = layout.tokens, AtGroup,
         ParseClause("group", "GROUP", "group columns", "order")
  PROVE  Onward /\ (AtGroupColumns' \/ AtOrder')
<1> DEFINE s == says  g == layout.groupBy  names == s.groupBy
<1>1. GroupSpelled(toks, s, layout) /\ g \in Nat /\ names \in Seq(Seq(STRING))
  BY TextFacts DEF Spelled, GroupSpelled
<1>2. /\ pos = g /\ MeansAll(query.pred, s.terms)
      /\ query = Built(s.aggregates, s.projected, s.columns, s.dataset, query.pred, <<>>, <<>>, Unlimited)
  BY DEF AtGroup, Filtered
<1>3. IF ~Kw(pos, "GROUP") THEN GoOn(pos, "order") /\ UNCHANGED <<join, query>>
      ELSE IF Kw(pos + 1, "BY") THEN GoOn(pos + 2, "group columns") /\ UNCHANGED <<join, query>>
      ELSE Refuse
  BY DEF ParseClause
<1>4. CASE names = <<>>
  <2>1. layout.orderBy = g BY <1>1, <1>4 DEF GroupSpelled
  <2>2. ~Kw(pos, "GROUP")
    <3>1. Follows(toks, g, {"ORDER", "LIMIT"}) BY <2>1, TextFacts, ClausesFollow
    <3>2. Len(toks) \in Nat /\ DOMAIN toks = 1 .. Len(toks) BY TextFacts
    <3>3. "GROUP" \notin {"ORDER", "LIMIT"} OBVIOUS
    <3>4. ~KeywordAt(toks, g, "GROUP") BY <1>1, <3>1, <3>2, <3>3, NothingElse
    <3> QED BY <1>2, <3>4, SeesTokens
  <2>3. GoOn(pos, "order") /\ query' = query BY <1>3, <2>2
  <2>4. Onward BY <2>3 DEF GoOn, Onward
  <2>5. says' = says /\ layout' = layout BY <2>4, OnwardKeeps
  <2>6. pos' = layout.orderBy /\ stage' = "order" BY <1>2, <2>1, <2>3 DEF GoOn
  <2> QED BY <1>2, <1>4, <2>3, <2>4, <2>5, <2>6 DEF AtOrder, Filtered
<1>5. CASE names # <<>>
  <2>1. KeywordAt(toks, g, "GROUP") /\ KeywordAt(toks, g + 1, "BY")
    BY <1>1, <1>5 DEF GroupSpelled
  <2>2. Kw(pos, "GROUP") /\ Kw(pos + 1, "BY") BY <1>2, <2>1, SeesTokens
  <2>3. GoOn(pos + 2, "group columns") /\ query' = query BY <1>3, <2>2
  <2>4. Onward BY <2>3 DEF GoOn, Onward
  <2>5. says' = says /\ layout' = layout BY <2>4, OnwardKeeps
  <2>6. First(names, 0) = <<>> BY <1>1, FirstGrows
  <2>10. 0 \in 0 .. (Len(names) - 1) BY <1>1, <1>5, NotEmpty
  <2>7. pos' = g + 2 + 2 * 0 /\ stage' = "group columns"
    <3>1. pos' = pos + 2 /\ stage' = "group columns" BY <2>3 DEF GoOn
    <3> QED BY <1>1, <1>2, <3>1, FromNothing
  <2>8. Filtered(layout.groupBy + 2 + 2 * 0, First(says.groupBy, 0), <<>>, Unlimited)'
    BY <1>2, <2>3, <2>5, <2>6, <2>7 DEF Filtered
  <2>9. \E n \in 0 .. (Len(says'.groupBy) - 1) :
          Filtered(layout.groupBy + 2 + 2 * n, First(says.groupBy, n), <<>>, Unlimited)'
    BY <2>5, <2>8, <2>10
  <2> QED BY <2>4, <2>7, <2>9 DEF AtGroupColumns
<1> QED BY <1>4, <1>5

LEMMA GroupColumnStep ==
  ASSUME WrittenOut(input), toks = layout.tokens, AtGroupColumns, ParseGroupColumn
  PROVE  Onward /\ (AtGroupColumns' \/ AtOrder')
<1> DEFINE s == says  g == layout.groupBy  names == s.groupBy
<1>1. GroupSpelled(toks, s, layout) /\ g \in Nat /\ names \in Seq(Seq(STRING))
  BY TextFacts DEF Spelled, GroupSpelled
<1>2. PICK n \in 0 .. (Len(names) - 1) : Filtered(g + 2 + 2 * n, First(names, n), <<>>, Unlimited)
  BY DEF AtGroupColumns
<1>3. /\ pos = g + 2 + 2 * n /\ MeansAll(query.pred, s.terms) /\ stage = "group columns"
      /\ query = Built(s.aggregates, s.projected, s.columns, s.dataset, query.pred,
                       First(names, n), <<>>, Unlimited)
  BY <1>2 DEF Filtered, AtGroupColumns
<1>4. n \in Nat /\ Len(names) \in Nat /\ n < Len(names) /\ names # <<>> BY <1>1, <1>2
<1>5. NamesAt(toks, g + 2, names) /\ layout.orderBy = g + 2 * Len(names) + 1
  BY <1>1, <1>4 DEF GroupSpelled
<1>6. n + 1 \in DOMAIN names /\ Append(First(names, n), names[n + 1]) = First(names, n + 1)
      /\ First(names, Len(names)) = names
  BY <1>1, <1>2, FirstGrows
<1>7. NameAt(toks, pos, names[n + 1]) /\ (n + 1 < Len(names) => WordAt(toks, pos + 1, Comma))
  <2>1. (g + 2) + 2 * ((n + 1) - 1) = pos /\ (g + 2) + 2 * (n + 1) - 1 = pos + 1
    <3>1. g \in Nat /\ n \in Nat /\ pos = g + 2 + 2 * n BY <1>1, <1>3, <1>4
    <3> HIDE DEF g
    <3> QED BY <3>1
  <2>2. /\ NameAt(toks, (g + 2) + 2 * ((n + 1) - 1), names[n + 1])
        /\ n + 1 < Len(names) => WordAt(toks, (g + 2) + 2 * (n + 1) - 1, Comma)
    BY <1>5, <1>6 DEF NamesAt
  <2> QED BY <2>1, <2>2
<1>8. Bare(pos) /\ Word(pos) = names[n + 1] BY <1>7, SeesTokens
<1>9. /\ query' = [query EXCEPT !.groupBy = Append(@, Word(pos))]
      /\ NextItem(pos + 1, "order")
  BY <1>8 DEF ParseGroupColumn
<1>10. query' = Built(s.aggregates, s.projected, s.columns, s.dataset, query.pred,
                      First(names, n + 1), <<>>, Unlimited)
  <2> DEFINE e == <<>>  a == s.aggregates  p == s.projected  c == s.columns  d == s.dataset
             w == query.pred  old == First(names, n)  new == First(names, n + 1)  word == Word(pos)
  <2>1. query = Built(a, p, c, d, w, old, e, Unlimited) BY <1>3
  <2>2. Append(old, word) = new BY <1>6, <1>8
  <2>3. query' = [query EXCEPT !.groupBy = Append(@, word)] BY <1>9
  <2> HIDE DEF e, a, p, c, d, w, old, new, word
  <2>4. query.groupBy = old BY <2>1 DEF Built
  <2>5. query' = [query EXCEPT !.groupBy = new] BY <2>2, <2>3, <2>4
  <2>6. query' = Built(a, p, c, d, w, new, e, Unlimited) BY <2>1, <2>5 DEF Built
  <2> QED BY <2>6 DEF e, a, p, c, d, w, new
<1>11. query'.pred = query.pred BY <1>10 DEF Built
<1>12. Onward BY <1>9, NextItemSteps
<1>13. says' = says /\ layout' = layout BY <1>12, OnwardKeeps
<1>14. CASE n + 1 < Len(names)
  <2>1. pos' = (pos + 1) + 1 /\ stage' = "group columns" BY <1>3, <1>7, <1>9, <1>14, NextItemSteps
  <2>2. pos' = g + 2 + 2 * (n + 1)
    <3>1. g \in Nat /\ n \in Nat /\ pos = g + 2 + 2 * n BY <1>1, <1>3, <1>4
    <3> HIDE DEF g
    <3>2. (pos + 1) + 1 = g + 2 + 2 * (n + 1) BY <3>1
    <3> QED BY <2>1, <3>2
  <2> DEFINE m == n + 1
  <2>3. m \in 0 .. (Len(names) - 1) BY <1>4, <1>14
  <2>4. Filtered(layout.groupBy + 2 + 2 * m, First(says.groupBy, m), <<>>, Unlimited)'
    BY <1>3, <1>10, <1>11, <1>13, <2>2 DEF Filtered
  <2> HIDE DEF m
  <2>5. \E k \in 0 .. (Len(says'.groupBy) - 1) :
          Filtered(layout.groupBy + 2 + 2 * k, First(says.groupBy, k), <<>>, Unlimited)'
    BY <1>13, <2>3, <2>4
  <2> QED BY <1>12, <2>1, <2>5 DEF AtGroupColumns
<1>15. CASE ~(n + 1 < Len(names))
  <2>1. n + 1 = Len(names) BY <1>4, <1>15
  <2>2. pos + 1 = layout.orderBy
    <3>1. layout.orderBy = g + 2 * (n + 1) + 1 BY <1>5, <2>1
    <3>2. g \in Nat /\ n \in Nat /\ pos = g + 2 + 2 * n BY <1>1, <1>3, <1>4
    <3> HIDE DEF g
    <3> QED BY <3>1, <3>2
  <2>3. ~WordAt(toks, pos + 1, Comma)
    <3>1. Follows(toks, pos + 1, {"ORDER", "LIMIT"}) BY <2>2, TextFacts, ClausesFollow
    <3>2. Len(toks) \in Nat /\ DOMAIN toks = 1 .. Len(toks) /\ pos + 1 \in Nat BY <2>2, TextFacts
    <3>3. "," \notin {"ORDER", "LIMIT"} /\ "," \in Marks BY DEF Marks
    <3> QED BY <3>1, <3>2, <3>3, NothingElse DEF Comma
  <2>4. pos' = layout.orderBy /\ stage' = "order" BY <1>9, <2>2, <2>3, NextItemSteps
  <2> QED BY <1>3, <1>6, <1>10, <1>11, <1>12, <1>13, <2>1, <2>4 DEF AtOrder, Filtered
<1> QED BY <1>14, <1>15

LEMMA OrderStep ==
  ASSUME WrittenOut(input), toks = layout.tokens, AtOrder,
         ParseClause("order", "ORDER", "order keys", "limit")
  PROVE  Onward /\ (AtOrderKeys' \/ AtLimit')
<1> DEFINE s == says  o == layout.orderBy  keys == s.orderBy
           K == [column : Seq(STRING), dir : {"asc", "desc"}]
<1>1. OrderSpelled(toks, s, layout) /\ o \in Nat /\ keys \in Seq(K)
  BY TextFacts DEF Spelled, OrderSpelled
<1> HIDE DEF K
<1>2. /\ pos = o /\ MeansAll(query.pred, s.terms)
      /\ query = Built(s.aggregates, s.projected, s.columns, s.dataset, query.pred, s.groupBy,
                       <<>>, Unlimited)
  BY DEF AtOrder, Filtered
<1>3. IF ~Kw(pos, "ORDER") THEN GoOn(pos, "limit") /\ UNCHANGED <<join, query>>
      ELSE IF Kw(pos + 1, "BY") THEN GoOn(pos + 2, "order keys") /\ UNCHANGED <<join, query>>
      ELSE Refuse
  BY DEF ParseClause
<1>4. CASE keys = <<>>
  <2>1. layout.limit = o BY <1>1, <1>4 DEF OrderSpelled
  <2>2. ~Kw(pos, "ORDER")
    <3>1. Follows(toks, o, {"LIMIT"}) BY <2>1, TextFacts, ClausesFollow
    <3>2. Len(toks) \in Nat /\ DOMAIN toks = 1 .. Len(toks) BY TextFacts
    <3>3. "ORDER" \notin {"LIMIT"} OBVIOUS
    <3>4. ~KeywordAt(toks, o, "ORDER") BY <1>1, <3>1, <3>2, <3>3, NothingElse
    <3> QED BY <1>2, <3>4, SeesTokens
  <2>3. GoOn(pos, "limit") /\ query' = query BY <1>3, <2>2
  <2>4. Onward BY <2>3 DEF GoOn, Onward
  <2>5. says' = says /\ layout' = layout BY <2>4, OnwardKeeps
  <2>6. pos' = layout.limit /\ stage' = "limit" BY <1>2, <2>1, <2>3 DEF GoOn
  <2> QED BY <1>2, <1>4, <2>3, <2>4, <2>5, <2>6 DEF AtLimit, Filtered
<1>5. CASE keys # <<>>
  <2>1. KeywordAt(toks, o, "ORDER") /\ KeywordAt(toks, o + 1, "BY") /\ layout.keys[1] = o + 2
    BY <1>1, <1>5 DEF OrderSpelled
  <2>2. Kw(pos, "ORDER") /\ Kw(pos + 1, "BY") BY <1>2, <2>1, SeesTokens
  <2>3. GoOn(pos + 2, "order keys") /\ query' = query BY <1>3, <2>2
  <2>4. Onward BY <2>3 DEF GoOn, Onward
  <2>5. says' = says /\ layout' = layout BY <2>4, OnwardKeeps
  <2>6. First(keys, 0) = <<>> BY <1>1, FirstGrows
  <2>7. 0 \in 0 .. (Len(keys) - 1) BY <1>1, <1>5, NotEmpty
  <2>8. pos' = layout.keys[0 + 1] /\ stage' = "order keys"
    <3>1. pos' = layout.keys[1] /\ stage' = "order keys" BY <1>2, <2>1, <2>3 DEF GoOn
    <3> QED BY <3>1, FromNothing
  <2>9. Filtered(layout.keys[0 + 1], says.groupBy, First(says.orderBy, 0), Unlimited)'
    BY <1>2, <2>3, <2>5, <2>6, <2>8 DEF Filtered
  <2>10. \E n \in 0 .. (Len(says'.orderBy) - 1) :
           Filtered(layout.keys[n + 1], says.groupBy, First(says.orderBy, n), Unlimited)'
    BY <2>5, <2>7, <2>9
  <2> QED BY <2>4, <2>8, <2>10 DEF AtOrderKeys
<1> QED BY <1>4, <1>5

\* What the grammar says of one key of ORDER BY, and of what follows it.
LEMMA KeyPlaces ==
  ASSUME WrittenOut(input), NEW n \in Nat, n < Len(says.orderBy)
  PROVE  LET ts == layout.tokens
             here == layout.keys[n + 1]
             end == layout.keys[n + 2] - 1
             key == says.orderBy[n + 1]
         IN  /\ here \in Nat /\ layout.keys[n + 2] \in Nat
             /\ key = [column |-> key.column, dir |-> key.dir]
             /\ OrderKeyAt(ts, here, key, end)
             /\ n + 1 < Len(says.orderBy) => WordAt(ts, end, Comma)
             /\ n + 1 = Len(says.orderBy) => layout.limit = end
<1> DEFINE keys == says.orderBy  N == Len(keys)
           K == [column : Seq(STRING), dir : {"asc", "desc"}]
<1>1. OrderSpelled(layout.tokens, says, layout) BY TextFacts DEF Spelled
<1>2. keys \in Seq(K) BY <1>1 DEF OrderSpelled
<1>3. N \in Nat /\ DOMAIN keys = 1 .. N
  <2> HIDE DEF K
  <2> QED BY <1>2
<1>4. n + 1 \in 1 .. N /\ n + 2 \in 1 .. (N + 1) /\ n + 1 \in 1 .. (N + 1)
  <2>1. n < N OBVIOUS
  <2> HIDE DEF N
  <2> QED BY <1>3, <2>1
<1>5. keys[n + 1] \in K
  <2> HIDE DEF K
  <2> QED BY <1>2, <1>3, <1>4
<1>6. keys # <<>>
  <2>1. DOMAIN <<>> = {} OBVIOUS
  <2> QED BY <1>3, <1>4, <2>1
<1>7. layout.keys \in [1 .. (N + 1) -> Nat] BY <1>1 DEF OrderSpelled
<1>8. layout.keys[n + 1] \in Nat /\ layout.keys[n + 2] \in Nat
  <2> HIDE DEF N
  <2> QED BY <1>4, <1>7
<1>9. /\ OrderKeyAt(layout.tokens, layout.keys[n + 1], keys[n + 1], layout.keys[(n + 1) + 1] - 1)
      /\ n + 1 < N => WordAt(layout.tokens, layout.keys[(n + 1) + 1] - 1, Comma)
      /\ layout.limit = layout.keys[N + 1] - 1
  <2>1. \A m \in DOMAIN keys :
          /\ OrderKeyAt(layout.tokens, layout.keys[m], keys[m], layout.keys[m + 1] - 1)
          /\ m < Len(keys) => WordAt(layout.tokens, layout.keys[m + 1] - 1, Comma)
    BY <1>1, <1>6 DEF OrderSpelled
  <2>2. layout.limit = layout.keys[Len(keys) + 1] - 1 BY <1>1, <1>6 DEF OrderSpelled
  <2>3. n + 1 \in DOMAIN keys BY <1>3, <1>4
  <2> HIDE DEF keys
  <2> QED BY <2>1, <2>2, <2>3
<1>10. (n + 1) + 1 = n + 2 OBVIOUS
<1>11. keys[n + 1] = [column |-> keys[n + 1].column, dir |-> keys[n + 1].dir] BY <1>5
<1> HIDE DEF keys, N
<1> QED BY <1>4, <1>8, <1>9, <1>10, <1>11 DEF keys, N

LEMMA OrderKeyStep ==
  ASSUME WrittenOut(input), toks = layout.tokens, AtOrderKeys, ParseOrderKey
  PROVE  Onward /\ (AtOrderKeys' \/ AtLimit')
<1> DEFINE s == says  keys == s.orderBy
           K == [column : Seq(STRING), dir : {"asc", "desc"}]
<1>1. keys \in Seq(K) BY TextFacts DEF Spelled, OrderSpelled
<1> HIDE DEF K
<1>2. PICK n \in 0 .. (Len(keys) - 1) :
        Filtered(layout.keys[n + 1], s.groupBy, First(keys, n), Unlimited)
  BY DEF AtOrderKeys
<1>3. /\ pos = layout.keys[n + 1] /\ MeansAll(query.pred, s.terms) /\ stage = "order keys"
      /\ query = Built(s.aggregates, s.projected, s.columns, s.dataset, query.pred,
                       s.groupBy, First(keys, n), Unlimited)
  BY <1>2 DEF Filtered, AtOrderKeys
<1>4. n \in Nat /\ Len(keys) \in Nat /\ n < Len(keys) BY <1>1, <1>2
<1> DEFINE key == keys[n + 1]  end == layout.keys[n + 2] - 1
<1>5. Append(First(keys, n), key) = First(keys, n + 1) /\ First(keys, Len(keys)) = keys
  BY <1>1, <1>2, FirstGrows
<1>6. /\ pos \in Nat /\ layout.keys[n + 2] \in Nat
      /\ key = [column |-> key.column, dir |-> key.dir]
      /\ OrderKeyAt(toks, pos, key, end)
      /\ n + 1 < Len(keys) => WordAt(toks, end, Comma)
      /\ n + 1 = Len(keys) => layout.limit = end
  BY <1>3, <1>4, KeyPlaces
<1>7. end + 1 = layout.keys[n + 2] BY <1>6
<1>8. n + 1 < Len(keys) \/ Follows(toks, end, {"LIMIT"})
  <2>1. n + 1 < Len(keys) \/ n + 1 = Len(keys) BY <1>4
  <2> QED BY <1>6, <2>1, TextFacts, ClausesFollow
<1> HIDE DEF key, end
<1> DEFINE told == Kw(pos + 1, "ASC") \/ Kw(pos + 1, "DESC")
           dir == IF Kw(pos + 1, "DESC") THEN "desc" ELSE "asc"
<1>9. NameAt(toks, pos, key.column) BY <1>6 DEF OrderKeyAt
<1>10. Bare(pos) /\ Word(pos) = key.column BY <1>9, SeesTokens
<1>11. dir = key.dir /\ end = (IF told THEN pos + 2 ELSE pos + 1)
  <2>1. \A k : Kw(pos + 1, k) = KeywordAt(toks, pos + 1, k) BY SeesTokens
  <2>2. CASE key.dir = "asc" /\ end = pos + 1
    <3>1. ~KeywordAt(toks, end, "ASC") /\ ~KeywordAt(toks, end, "DESC")
      <4>1. CASE n + 1 < Len(keys)
        <5>1. WordAt(toks, end, Comma) BY <1>6, <4>1
        <5>2. "," \in Marks /\ "," # "ASC" /\ "," # "DESC" BY DEF Marks
        <5> QED BY <5>1, <5>2, OneKeyword DEF Comma
      <4>2. CASE Follows(toks, end, {"LIMIT"})
        <5>1. Len(toks) \in Nat /\ DOMAIN toks = 1 .. Len(toks) /\ end \in Nat BY <1>6, <2>2, TextFacts
        <5>2. "ASC" \notin {"LIMIT"} /\ "DESC" \notin {"LIMIT"} OBVIOUS
        <5> QED BY <4>2, <5>1, <5>2, NothingElse
      <4> QED BY <1>8, <4>1, <4>2
    <3> QED BY <2>1, <2>2, <3>1
  <2>3. CASE key.dir = "asc" /\ KeywordAt(toks, pos + 1, "ASC") /\ end = pos + 2
    <3>1. ~KeywordAt(toks, pos + 1, "DESC") BY <2>3, OneKeyword
    <3> QED BY <2>1, <2>3, <3>1
  <2>4. CASE key.dir = "desc" /\ KeywordAt(toks, pos + 1, "DESC") /\ end = pos + 2
    BY <2>1, <2>4
  <2> QED BY <1>6, <2>2, <2>3, <2>4 DEF OrderKeyAt
<1>12. /\ query' = [query EXCEPT !.orderBy = Append(@, key)]
       /\ NextItem(end, "limit")
  <2>1. /\ query' = [query EXCEPT !.orderBy = Append(@, [column |-> Word(pos), dir |-> dir])]
        /\ NextItem(IF told THEN pos + 2 ELSE pos + 1, "limit")
    BY <1>10 DEF ParseOrderKey
  <2>2. [column |-> Word(pos), dir |-> dir] = key BY <1>6, <1>10, <1>11
  <2> HIDE DEF told, dir
  <2> QED BY <1>11, <2>1, <2>2
<1> HIDE DEF told, dir
<1>13. query' = Built(s.aggregates, s.projected, s.columns, s.dataset, query.pred,
                      s.groupBy, First(keys, n + 1), Unlimited)
  <2> DEFINE a == s.aggregates  p == s.projected  c == s.columns  d == s.dataset
             w == query.pred  g == s.groupBy  old == First(keys, n)  new == First(keys, n + 1)
  <2>1. query = Built(a, p, c, d, w, g, old, Unlimited) BY <1>3
  <2>2. Append(old, key) = new BY <1>5
  <2> HIDE DEF a, p, c, d, w, g, old, new
  <2>3. query.orderBy = old BY <2>1 DEF Built
  <2>4. query' = [query EXCEPT !.orderBy = new] BY <1>12, <2>2, <2>3
  <2>5. query' = Built(a, p, c, d, w, g, new, Unlimited) BY <2>1, <2>4 DEF Built
  <2> QED BY <2>5 DEF a, p, c, d, w, g, new
<1>14. query'.pred = query.pred BY <1>13 DEF Built
<1>15. Onward BY <1>12, NextItemSteps
<1>16. says' = says /\ layout' = layout BY <1>15, OnwardKeeps
<1>17. CASE n + 1 < Len(keys)
  <2>1. pos' = end + 1 /\ stage' = "order keys" BY <1>3, <1>6, <1>12, <1>17, NextItemSteps
  <2> DEFINE m == n + 1
  <2>2. m \in 0 .. (Len(keys) - 1) /\ m + 1 = n + 2 BY <1>4, <1>17
  <2>3. pos' = layout.keys[m + 1] BY <1>7, <2>1, <2>2
  <2>4. Filtered(layout.keys[m + 1], says.groupBy, First(says.orderBy, m), Unlimited)'
    BY <1>3, <1>13, <1>14, <1>16, <2>3 DEF Filtered
  <2> HIDE DEF m
  <2>5. \E k \in 0 .. (Len(says'.orderBy) - 1) :
          Filtered(layout.keys[k + 1], says.groupBy, First(says.orderBy, k), Unlimited)'
    BY <1>16, <2>2, <2>4
  <2> QED BY <1>15, <2>1, <2>5 DEF AtOrderKeys
<1>18. CASE ~(n + 1 < Len(keys))
  <2>1. n + 1 = Len(keys) BY <1>4, <1>18
  <2>2. end = layout.limit /\ Follows(toks, end, {"LIMIT"}) BY <1>6, <1>8, <1>18, <2>1
  <2>3. ~WordAt(toks, end, Comma)
    <3>1. Len(toks) \in Nat /\ DOMAIN toks = 1 .. Len(toks) /\ end \in Nat BY <2>2, TextFacts
    <3>2. "," \notin {"LIMIT"} /\ "," \in Marks BY DEF Marks
    <3> QED BY <2>2, <3>1, <3>2, NothingElse DEF Comma
  <2>4. pos' = layout.limit /\ stage' = "limit" BY <1>12, <2>2, <2>3, NextItemSteps
  <2> QED BY <1>3, <1>5, <1>13, <1>14, <1>15, <1>16, <2>1, <2>4 DEF AtLimit, Filtered
<1> QED BY <1>17, <1>18

LEMMA LimitStep ==
  ASSUME WrittenOut(input), toks = layout.tokens, AtLimit, ParseLimit
  PROVE  Onward /\ AtEnd'
<1> DEFINE s == says  l == layout.limit
<1>1. /\ LimitSpelled(toks, s, layout) /\ l \in Nat
      /\ Len(toks) \in Nat /\ DOMAIN toks = 1 .. Len(toks)
  BY TextFacts DEF Spelled
<1>2. /\ pos = l /\ MeansAll(query.pred, s.terms)
      /\ query = Built(s.aggregates, s.projected, s.columns, s.dataset, query.pred, s.groupBy,
                       s.orderBy, Unlimited)
  BY DEF AtLimit, Filtered
<1>3. CASE s.limit = Unlimited /\ Len(toks) = l - 1
  <2>1. l \notin DOMAIN toks /\ l = Len(toks) + 1
    <3> DEFINE N == Len(toks)
    <3>1. N \in Nat /\ N = l - 1 /\ l \in Nat BY <1>1, <1>3
    <3> HIDE DEF N, l
    <3>2. l \notin 1 .. N /\ l = N + 1 BY <3>1
    <3> QED BY <1>1, <3>2 DEF N
  <2>2. ~Kw(pos, "LIMIT")
    <3>1. ~KeywordAt(toks, l, "LIMIT") BY <2>1 DEF KeywordAt, IsWordIn
    <3> QED BY <1>2, <3>1, SeesTokens
  <2>3. GoOn(pos, "end") /\ query' = query BY <2>2 DEF ParseLimit
  <2>4. Onward BY <2>3 DEF GoOn, Onward
  <2>5. says' = says /\ layout' = layout /\ toks' = toks BY <2>4, OnwardKeeps
  <2>6. pos' = Len(toks) + 1 /\ stage' = "end" BY <1>2, <2>1, <2>3 DEF GoOn
  <2> QED BY <1>2, <1>3, <2>3, <2>4, <2>5, <2>6 DEF AtEnd, Filtered
<1>4. CASE /\ KeywordAt(toks, l, "LIMIT") /\ Len(toks) = l + 1
           /\ \E w \in DOMAIN LimitOf : NameAt(toks, l + 1, w) /\ LimitOf[w] = s.limit
  <2>1. PICK w \in DOMAIN LimitOf : NameAt(toks, l + 1, w) /\ LimitOf[w] = s.limit BY <1>4
  <2>2. Kw(pos, "LIMIT") /\ Bare(pos + 1) /\ Word(pos + 1) = w
    <3>1. Kw(pos, "LIMIT") BY <1>2, <1>4, SeesTokens
    <3>2. NameAt(toks, pos + 1, w) BY <1>2, <2>1
    <3> QED BY <3>1, <3>2, SeesTokens
  <2>3. GoOn(pos + 2, "end") /\ query' = [query EXCEPT !.limit = s.limit]
    BY <2>1, <2>2 DEF ParseLimit
  <2>4. Onward BY <2>3 DEF GoOn, Onward
  <2>5. says' = says /\ layout' = layout /\ toks' = toks BY <2>4, OnwardKeeps
  <2>6. pos' = Len(toks) + 1 /\ stage' = "end"
    <3>1. pos' = pos + 2 /\ stage' = "end" BY <2>3 DEF GoOn
    <3> DEFINE N == Len(toks)
    <3>2. N = l + 1 /\ pos = l /\ l \in Nat BY <1>1, <1>2, <1>4
    <3> HIDE DEF N, l
    <3>3. pos + 2 = N + 1 BY <3>2
    <3> QED BY <3>1, <3>3 DEF N
  <2>7. query' = Built(s.aggregates, s.projected, s.columns, s.dataset, query.pred, s.groupBy,
                       s.orderBy, s.limit)
    <3> DEFINE a == s.aggregates  p == s.projected  c == s.columns  d == s.dataset
               w1 == query.pred  g == s.groupBy  o == s.orderBy  new == s.limit
    <3>1. query = Built(a, p, c, d, w1, g, o, Unlimited) BY <1>2
    <3>2. query' = [query EXCEPT !.limit = new] BY <2>3
    <3> HIDE DEF a, p, c, d, w1, g, o, new
    <3>3. query' = Built(a, p, c, d, w1, g, o, new) BY <3>1, <3>2 DEF Built
    <3> QED BY <3>3 DEF a, p, c, d, w1, g, o, new
  <2>8. query'.pred = query.pred BY <2>7 DEF Built
  <2> QED BY <1>2, <2>4, <2>5, <2>6, <2>7, <2>8 DEF AtEnd, Filtered
<1> QED BY <1>1, <1>3, <1>4 DEF LimitSpelled

LEMMA EndStep ==
  ASSUME WrittenOut(input), toks = layout.tokens, AtEnd, ParseEnd
  PROVE  Onward /\ AtEnd'
<1> DEFINE s == says
<1>1. GroupSpelled(toks, s, layout) /\ Len(toks) \in Nat BY TextFacts DEF Spelled
<1>2. /\ pos = Len(toks) + 1 /\ MeansAll(query.pred, s.terms)
      /\ query = Built(s.aggregates, s.projected, s.columns, s.dataset, query.pred, s.groupBy,
                       s.orderBy, s.limit)
  BY DEF AtEnd, Filtered
<1>3. AllRead /\ (query.projected => query.groupBy = <<>>)
  <2>1. query.projected = s.projected /\ query.groupBy = s.groupBy BY <1>2 DEF Built
  <2>2. s.projected => s.groupBy = <<>> BY <1>1 DEF GroupSpelled
  <2>3. AllRead
    <3> DEFINE N == Len(toks)
    <3>1. N \in Nat /\ pos = N + 1 BY <1>1, <1>2
    <3> HIDE DEF N
    <3>2. pos > N BY <3>1
    <3> QED BY <3>2 DEF N, AllRead
  <2> QED BY <2>1, <2>2, <2>3
<1>4. GoOn(pos, "done") /\ query' = query BY <1>3 DEF ParseEnd
<1>5. Onward BY <1>4 DEF GoOn, Onward
<1>6. says' = says /\ toks' = toks BY <1>5, OnwardKeeps
<1>7. pos' = Len(toks) + 1 /\ stage' = "done" BY <1>2, <1>4 DEF GoOn
<1> QED BY <1>2, <1>4, <1>5, <1>6, <1>7 DEF AtEnd, Filtered

-----------------------------------------------------------------------------
(* The tokenizer on a text of the grammar.                                 *)

\* NextIn finds the one place that fits.
LEMMA NextInIs ==
  ASSUME Len(text) \in Nat, NEW S, NEW i \in Nat, NEW n \in i .. (Len(text) + 1),
         n > Len(text) \/ text[n] \in S, \A m \in i .. (n - 1) : text[m] \notin S
  PROVE  NextIn(S, i) = n
<1> DEFINE N == Len(text)
           Fits(j) == /\ j > N \/ text[j] \in S
                      /\ \A m \in i .. (j - 1) : text[m] \notin S
<1>1. N \in Nat /\ n \in i .. (N + 1) OBVIOUS
<1>2. Fits(n) OBVIOUS
<1>3. NextIn(S, i) = CHOOSE j \in i .. (N + 1) : Fits(j) BY DEF NextIn
<1>4. ASSUME NEW j \in i .. (N + 1), Fits(j) PROVE j = n
  <2> HIDE DEF N
  <2>1. j \in Nat /\ n \in Nat /\ j <= N + 1 /\ n <= N + 1 /\ i <= j /\ i <= n BY <1>1
  <2>2. CASE j < n
    <3>1. ~(j > N) /\ j \in i .. (n - 1) BY <1>1, <2>1, <2>2
    <3> QED BY <1>2, <1>4, <3>1
  <2>3. CASE n < j
    <3>1. ~(n > N) /\ n \in i .. (j - 1) BY <1>1, <2>1, <2>3
    <3> QED BY <1>2, <1>4, <3>1
  <2> QED BY <2>1, <2>2, <2>3
<1> HIDE DEF Fits, N
<1> QED BY <1>1, <1>2, <1>3, <1>4

LEMMA PairStarts ==
  ASSUME NEW t \in Seq(STRING), NEW i \in 1 .. Len(t), PairIn(t, i)
  PROVE  t[i] \in {"<", ">", "!"}
<1>1. i < Len(t) /\ SubSeq(t, i, i + 1) \in Pairs BY DEF PairIn
<1>2. SubSeq(t, i, i + 1)[1] = t[i] BY <1>1
<1>3. \A p \in Pairs : p[1] \in {"<", ">", "!"} BY DEF Pairs
<1> QED BY <1>1, <1>2, <1>3

\* Where tokenize stands between two tokens.
LEMMA LexPlaces ==
  ASSUME WrittenOut(input), NEW k \in 0 .. Len(layout.tokens),
         at \in layout.ends[k + 1] .. layout.begins[k + 1]
  PROVE  LET N == Len(layout.tokens)
             end == layout.ends[k + 2]
         IN  /\ text \in Seq(STRING) /\ Len(text) \in Nat /\ at \in 1 .. (Len(text) + 1)
             /\ at > Len(text) => k = N
             /\ at <= Len(text) /\ text[at] # Blank =>
                  /\ k \in 0 .. (N - 1) /\ at < end /\ end \in 1 .. (Len(text) + 1)
                  /\ end \in layout.ends[k + 2] .. layout.begins[k + 2]
                  /\ \/ IsString(text, layout.tokens[k + 1], at, end)
                     \/ IsOneWord(text, layout.tokens[k + 1], at, end)
             /\ at <= Len(text) /\ text[at] = Blank =>
                  at + 1 \in layout.ends[k + 1] .. layout.begins[k + 1]
<1> DEFINE N == Len(layout.tokens)  B == layout.begins  E == layout.ends
           Z == Len(text)  ts == layout.tokens
<1>0. Spaced(text, layout) BY DEF WrittenOut, text, layout
<1>1. text \in Seq(STRING) /\ Z \in Nat /\ N \in Nat
  BY <1>0, TextFacts DEF Spaced
<1>2. /\ \A n \in 1 .. (N + 1) : B[n] \in 1 .. (Z + 1) /\ E[n] \in 1 .. (Z + 1)
      /\ B[N + 1] = Z + 1
      /\ \A n \in 1 .. (N + 1) :
           E[n] <= B[n] /\ \A m \in E[n] .. (B[n] - 1) : text[m] = Blank
      /\ \A n \in 1 .. N :
           /\ B[n] < E[n + 1]
           /\ IsString(text, ts[n], B[n], E[n + 1]) \/ IsOneWord(text, ts[n], B[n], E[n + 1])
  <2>1. B \in [1 .. (N + 1) -> 1 .. (Z + 1)] /\ E \in [1 .. (N + 1) -> 1 .. (Z + 1)]
    BY <1>0 DEF Spaced
  <2>2. \A n \in 1 .. (N + 1) : B[n] \in 1 .. (Z + 1) /\ E[n] \in 1 .. (Z + 1)
    <3> HIDE DEF N, Z, B, E
    <3> QED BY <2>1
  <2> QED BY <1>0, <2>2 DEF Spaced
<1>3. k \in 0 .. N /\ at \in E[k + 1] .. B[k + 1] OBVIOUS
<1> HIDE DEF N, B, E, Z, ts
<1>4. k \in Nat /\ k + 1 \in 1 .. (N + 1) /\ (k + 1) + 1 = k + 2 /\ (k < N \/ k = N) BY <1>1, <1>3
<1>5. B[k + 1] \in 1 .. (Z + 1) /\ E[k + 1] \in 1 .. (Z + 1) BY <1>2, <1>4
<1>6. at \in 1 .. (Z + 1) /\ at \in Nat BY <1>1, <1>3, <1>5
<1>7. CASE k = N
  <2>1. B[k + 1] = Z + 1 BY <1>2, <1>7
  <2>2. ASSUME at <= Z PROVE text[at] = Blank /\ at + 1 \in E[k + 1] .. B[k + 1]
    <3>1. at \in E[k + 1] .. (B[k + 1] - 1) /\ at + 1 \in E[k + 1] .. B[k + 1]
      BY <1>1, <1>3, <1>5, <1>6, <2>1, <2>2
    <3> QED BY <1>2, <1>4, <3>1
  <2> QED BY <1>1, <1>6, <1>7, <2>2 DEF N, B, E, Z, ts
<1>8. CASE k < N
  <2>1. k + 1 \in 1 .. N /\ k + 2 \in 1 .. (N + 1) /\ k \in 0 .. (N - 1) BY <1>1, <1>4, <1>8
  <2>2. /\ B[k + 1] < E[k + 2]
        /\ \/ IsString(text, ts[k + 1], B[k + 1], E[k + 2])
           \/ IsOneWord(text, ts[k + 1], B[k + 1], E[k + 2])
    BY <1>2, <1>4, <2>1
  <2>3. E[k + 2] \in 1 .. (Z + 1) /\ B[k + 2] \in 1 .. (Z + 1) /\ E[k + 2] <= B[k + 2]
    BY <1>2, <2>1
  <2>4. E[k + 2] \in E[k + 2] .. B[k + 2] BY <1>1, <2>3
  <2>5. B[k + 1] <= Z /\ at <= Z BY <1>1, <1>3, <1>5, <2>2, <2>3
  <2>6. CASE at = B[k + 1]
    <3>1. text[at] # Blank
      <4>1. at \in 1 .. Z /\ at \in at .. (E[k + 2] - 1) BY <1>1, <1>6, <2>2, <2>3, <2>5, <2>6
      <4>2. CASE text[at] \in Quotes BY <4>2 DEF Quotes, Blank
      <4>3. CASE text[at] \in Marks BY <4>3 DEF Marks, Blank
      <4>4. CASE PairIn(text, at)
        <5>1. text[at] \in {"<", ">", "!"} BY <1>1, <4>1, <4>4, PairStarts DEF Z
        <5> QED BY <5>1 DEF Blank
      <4>5. CASE text[at] \notin Stops BY <4>5 DEF Stops
      <4> QED BY <2>2, <2>6, <4>1, <4>2, <4>3, <4>4, <4>5 DEF IsString, IsOneWord
    <3> QED BY <1>1, <1>6, <2>1, <2>2, <2>3, <2>4, <2>5, <2>6, <3>1 DEF N, B, E, Z, ts
  <2>7. CASE at # B[k + 1]
    <3>1. at \in E[k + 1] .. (B[k + 1] - 1) /\ at + 1 \in E[k + 1] .. B[k + 1]
      BY <1>1, <1>3, <1>5, <1>6, <2>7
    <3>2. text[at] = Blank BY <1>2, <1>4, <3>1
    <3>3. ~(at > Z) BY <1>1, <1>6, <2>5
    <3> QED BY <1>1, <1>6, <3>1, <3>2, <3>3 DEF N, B, E, Z, ts
  <2> QED BY <2>6, <2>7
<1> QED BY <1>4, <1>7, <1>8

\* The token that a text has next, once it is emitted.
LEMMA TokenFound ==
  ASSUME WrittenOut(input), stage = "lex", pos = 1, join = "none", query = NoQuery,
         NEW k \in 0 .. (Len(layout.tokens) - 1), toks = First(layout.tokens, k),
         layout.ends[k + 2] \in layout.ends[k + 2] .. layout.begins[k + 2],
         Emit(layout.tokens[k + 1], layout.ends[k + 2])
  PROVE  UNCHANGED input /\ AtLex'
<1> DEFINE ts == layout.tokens  S == [kind : {"word", "str"}, text : Seq(STRING)]
<1>1. ts \in Seq(S) BY DEF WrittenOut, Spaced, layout
<1>2. Len(ts) \in Nat BY TextFacts
<1> HIDE DEF S
<1>3. Append(First(ts, k), ts[k + 1]) = First(ts, k + 1) BY <1>1, FirstGrows
<1>4. toks' = First(ts, k + 1) /\ at' = layout.ends[k + 2] BY <1>3 DEF Emit
<1>5. UNCHANGED <<input, pos, stage, join, query>> BY DEF Emit
<1>6. layout' = layout BY <1>5 DEF layout
<1> DEFINE n == k + 1
<1>7. n \in 0 .. Len(ts) /\ n + 1 = k + 2 BY <1>2
<1>8. at' \in layout'.ends[n + 1] .. layout'.begins[n + 1] BY <1>4, <1>6, <1>7
<1>9. toks' = First(layout'.tokens, n) BY <1>4, <1>6
<1> HIDE DEF n
<1> QED BY <1>5, <1>6, <1>7, <1>8, <1>9 DEF AtLex

LEMMA LexStep ==
  ASSUME WrittenOut(input), AtLex, Tokenize
  PROVE  UNCHANGED input /\ (AtLex' \/ (toks' = layout'.tokens /\ AtSelect'))
<1> DEFINE ts == layout.tokens  N == Len(ts)  S == [kind : {"word", "str"}, text : Seq(STRING)]
<1>1. PICK k \in 0 .. N : toks = First(ts, k) /\ at \in layout.ends[k + 1] .. layout.begins[k + 1]
  BY DEF AtLex
<1>2. stage = "lex" /\ pos = 1 /\ join = "none" /\ query = NoQuery BY DEF AtLex
<1> DEFINE tok == ts[k + 1]  end == layout.ends[k + 2]
<1>3. /\ text \in Seq(STRING) /\ Len(text) \in Nat /\ at \in 1 .. (Len(text) + 1)
      /\ at > Len(text) => k = N
      /\ at <= Len(text) /\ text[at] # Blank =>
           /\ k \in 0 .. (N - 1) /\ at < end /\ end \in 1 .. (Len(text) + 1)
           /\ end \in layout.ends[k + 2] .. layout.begins[k + 2]
           /\ IsString(text, tok, at, end) \/ IsOneWord(text, tok, at, end)
      /\ at <= Len(text) /\ text[at] = Blank =>
           at + 1 \in layout.ends[k + 1] .. layout.begins[k + 1]
  BY <1>1, LexPlaces
<1>4. PairAt = PairIn(text, at) BY DEF PairAt, PairIn
<1>5. ASSUME at <= Len(text), PairAt PROVE text[at] \in {"<", ">", "!"}
  <2>1. at \in 1 .. Len(text)
    <3> DEFINE Z == Len(text)
    <3>1. Z \in Nat /\ at \in 1 .. (Z + 1) /\ at <= Z BY <1>3, <1>5
    <3> HIDE DEF Z
    <3>2. at \in 1 .. Z BY <3>1
    <3> QED BY <3>2 DEF Z
  <2> QED BY <1>3, <1>4, <1>5, <2>1, PairStarts
\* Whatever the token is, it is emitted.
<1>6. ASSUME at <= Len(text), text[at] # Blank, Emit(tok, end) PROVE UNCHANGED input /\ AtLex'
  BY <1>1, <1>2, <1>3, <1>6, TokenFound
<1>7. CASE SkipBlank
  <2>1. at <= Len(text) /\ text[at] = Blank /\ at' = at + 1
        /\ UNCHANGED <<input, toks, pos, stage, join, query>>
    BY <1>7 DEF SkipBlank, Lexing
  <2>2. layout' = layout BY <2>1 DEF layout
  <2>3. at' \in layout'.ends[k + 1] .. layout'.begins[k + 1] BY <1>3, <2>1, <2>2
  <2> QED BY <1>1, <1>2, <2>1, <2>2, <2>3 DEF AtLex
<1>8. CASE LexString
  <2>1. at <= Len(text) /\ text[at] \in Quotes BY <1>8 DEF LexString, Lexing
  <2>2. text[at] # Blank BY <2>1 DEF Quotes, Blank
  <2>3. IsString(text, tok, at, end)
    <3>1. ~PairIn(text, at) BY <1>4, <1>5, <2>1 DEF Quotes
    <3>2. text[at] \notin Marks BY <2>1 DEF Quotes, Marks
    <3>3. text[at] \in Stops BY <2>1 DEF Stops
    <3>4. at \in at .. (end - 1) BY <1>3, <2>1, <2>2
    <3> QED BY <1>3, <2>1, <2>2, <3>1, <3>2, <3>3, <3>4 DEF IsOneWord
  <2> DEFINE close == end - 1  Z == Len(text)
  <2>4. /\ at + 1 <= close /\ close <= Z /\ close \in Nat /\ at + 1 \in Nat /\ text[close] = text[at]
        /\ \A m \in (at + 1) .. (close - 1) : text[m] # text[at]
        /\ close + 1 = end /\ tok = Token("str", at + 1, close)
    <3>1. /\ at + 1 < end /\ text[end - 1] = text[at]
          /\ \A m \in (at + 1) .. (end - 2) : text[m] # text[at]
          /\ tok = [kind |-> "str", text |-> SubSeq(text, at + 1, end - 2)]
      BY <2>3 DEF IsString
    <3>2. Z \in Nat /\ at \in 1 .. (Z + 1) /\ end \in 1 .. (Z + 1) BY <1>3, <2>1, <2>2
    <3> HIDE DEF end, Z, tok
    <3>3. /\ at + 1 <= close /\ close <= Z /\ close \in Nat /\ at + 1 \in Nat /\ close - 1 = end - 2
          /\ close + 1 = end
      BY <3>1, <3>2
    <3>4. tok = Token("str", at + 1, close) BY <3>1, <3>3 DEF Token
    <3> QED BY <3>1, <3>3, <3>4
  <2>5. NextIn({text[at]}, at + 1) = close
    <3>1. close \in (at + 1) .. (Z + 1)
      <4>1. Z \in Nat BY <1>3
      <4> HIDE DEF close, Z
      <4> QED BY <2>4, <4>1
    <3>2. text[close] \in {text[at]} /\ \A m \in (at + 1) .. (close - 1) : text[m] \notin {text[at]}
      BY <2>4
    <3> HIDE DEF close
    <3> QED BY <1>3, <2>4, <3>1, <3>2, NextInIs
  <2>6. ~(close > Z)
    <3>1. Z \in Nat BY <1>3
    <3> HIDE DEF close, Z
    <3> QED BY <2>4, <3>1
  <2>7. Emit(Token("str", at + 1, close), close + 1)
    <3> HIDE DEF close
    <3> QED BY <1>8, <2>5, <2>6 DEF LexString
  <2>8. Emit(tok, end)
    <3> HIDE DEF close, tok, end
    <3> QED BY <2>4, <2>7
  <2> QED BY <1>6, <2>1, <2>2, <2>8
<1>9. CASE LexMark
  <2>1. CASE PairAt /\ Emit(Token("word", at, at + 2), at + 2)
    <3>1. at <= Len(text) BY <1>9 DEF LexMark, Lexing
    <3>2. text[at] \in {"<", ">", "!"} BY <1>5, <2>1, <3>1
    <3>3. text[at] # Blank /\ text[at] \notin Quotes BY <3>2 DEF Blank, Quotes
    <3>4. tok = [kind |-> "word", text |-> SubSeq(text, at, end - 1)] /\ end = at + 2
      BY <1>3, <1>4, <2>1, <3>1, <3>3 DEF IsString, IsOneWord
    <3>5. Emit(tok, end) BY <2>1, <3>4 DEF Token
    <3> QED BY <1>6, <3>1, <3>3, <3>5
  <2>2. CASE ~PairAt /\ text[at] \in Marks /\ Emit(Token("word", at, at + 1), at + 1)
    <3>1. at <= Len(text) BY <1>9 DEF LexMark, Lexing
    <3>2. text[at] # Blank /\ text[at] \notin Quotes /\ text[at] \in Stops
      BY <2>2 DEF Blank, Quotes, Marks, Stops
    <3>3. at \in at .. (end - 1) BY <1>3, <3>1, <3>2
    <3>4. tok = [kind |-> "word", text |-> SubSeq(text, at, end - 1)] /\ end = at + 1
      BY <1>3, <1>4, <2>2, <3>1, <3>2, <3>3 DEF IsString, IsOneWord
    <3>5. Emit(tok, end) BY <2>2, <3>4 DEF Token
    <3> QED BY <1>6, <3>1, <3>2, <3>5
  <2> QED BY <1>9, <2>1, <2>2 DEF LexMark
<1>10. CASE LexWord
  <2>1. at <= Len(text) /\ ~PairAt /\ text[at] \notin Stops
    BY <1>10 DEF LexWord, Lexing, Stops
  <2>2. text[at] # Blank /\ text[at] \notin Quotes /\ text[at] \notin Marks BY <2>1 DEF Stops
  <2>3. /\ \A m \in at .. (end - 1) : text[m] \notin Stops
        /\ end > Len(text) \/ text[end] \in Stops
        /\ tok = Token("word", at, end)
    BY <1>3, <1>4, <2>1, <2>2 DEF IsString, IsOneWord, Token
  <2>4. NextIn(Stops, at) = end
    <3>1. at \in Nat /\ end \in at .. (Len(text) + 1)
      <4> DEFINE Z == Len(text)
      <4>1. Z \in Nat /\ at \in 1 .. (Z + 1) /\ at < end /\ end \in 1 .. (Z + 1)
        BY <1>3, <2>1, <2>2
      <4> HIDE DEF Z, end
      <4>2. at \in Nat /\ end \in at .. (Z + 1) BY <4>1
      <4> QED BY <4>2 DEF Z
    <3> HIDE DEF end
    <3> QED BY <1>3, <2>3, <3>1, NextInIs
  <2>5. Emit(Token("word", at, end), end)
    <3> HIDE DEF end
    <3> QED BY <1>10, <2>4 DEF LexWord, Stops
  <2>6. Emit(tok, end) BY <2>3, <2>5
  <2> QED BY <1>6, <2>1, <2>2, <2>6
<1>11. CASE LexEnd
  <2>1. at > Len(text) /\ stage' = "select" /\ UNCHANGED <<input, at, toks, pos, join, query>>
    BY <1>11 DEF LexEnd
  <2>2. k = N BY <1>3, <2>1
  <2>3. First(ts, N) = ts
    <3>1. ts \in Seq(S) BY DEF WrittenOut, Spaced, layout
    <3> HIDE DEF S
    <3> QED BY <3>1, FirstGrows
  <2>4. toks' = layout'.tokens BY <1>1, <2>1, <2>2, <2>3 DEF layout
  <2> QED BY <1>2, <2>1, <2>4 DEF AtSelect
<1> QED BY <1>7, <1>8, <1>9, <1>10, <1>11 DEF Tokenize

-----------------------------------------------------------------------------
(* The invariant.                                                          *)

\* What is done depends on what is read next.
LEMMA StageSteps ==
  ASSUME ParserNext
  PROVE  \/ stage = "lex" /\ Tokenize
         \/ stage = "select" /\ ParseSelect
         \/ stage = "columns" /\ ParseColumn
         \/ stage = "aggregates" /\ ParseAgg
         \/ stage = "from" /\ ParseFrom
         \/ stage = "term" /\ ParseTerm
         \/ stage = "group" /\ ParseClause("group", "GROUP", "group columns", "order")
         \/ stage = "group columns" /\ ParseGroupColumn
         \/ stage = "order" /\ ParseClause("order", "ORDER", "order keys", "limit")
         \/ stage = "order keys" /\ ParseOrderKey
         \/ stage = "limit" /\ ParseLimit
         \/ stage = "end" /\ ParseEnd
<1>1. Tokenize => stage = "lex"
  BY DEF Tokenize, SkipBlank, LexString, LexMark, LexWord, LexEnd, Lexing
<1>2. /\ ParseSelect => stage = "select"
      /\ ParseColumn => stage = "columns"
      /\ ParseAgg => stage = "aggregates"
      /\ ParseFrom => stage = "from"
      /\ ParseTerm => stage = "term"
      /\ ParseClause("group", "GROUP", "group columns", "order") => stage = "group"
      /\ ParseGroupColumn => stage = "group columns"
      /\ ParseClause("order", "ORDER", "order keys", "limit") => stage = "order"
      /\ ParseOrderKey => stage = "order keys"
      /\ ParseLimit => stage = "limit"
      /\ ParseEnd => stage = "end"
  BY DEF ParseSelect, ParseColumn, ParseAgg, ParseFrom, ParseTerm, ParseClause,
         ParseGroupColumn, ParseOrderKey, ParseLimit, ParseEnd
<1> QED BY <1>1, <1>2 DEF ParserNext, Parse

\* A place in the query that is being read.
Parsing ==
  \/ AtSelect \/ AtColumns \/ AtAggregates \/ AtFrom \/ AtTerm \/ AtGroup
  \/ AtGroupColumns \/ AtOrder \/ AtOrderKeys \/ AtLimit \/ AtEnd

LEMMA ParsingStages ==
  /\ AtLex => stage = "lex"
  /\ AtSelect => stage = "select"
  /\ AtColumns => stage = "columns"
  /\ AtAggregates => stage = "aggregates"
  /\ AtFrom => stage = "from"
  /\ AtTerm => stage = "term"
  /\ AtGroup => stage = "group"
  /\ AtGroupColumns => stage = "group columns"
  /\ AtOrder => stage = "order"
  /\ AtOrderKeys => stage = "order keys"
  /\ AtLimit => stage = "limit"
  /\ AtEnd => stage \in {"end", "done"}
BY DEF AtLex, AtSelect, AtColumns, AtAggregates, AtFrom, AtTerm, AtGroup, AtGroupColumns,
       AtOrder, AtOrderKeys, AtLimit, AtEnd

LEMMA ParsingStep ==
  ASSUME WrittenOut(input), toks = layout.tokens, Parsing, ParserNext
  PROVE  Onward /\ Parsing'
<1>1. CASE AtSelect
  <2>1. ParseSelect BY <1>1, ParsingStages, StageSteps
  <2> QED BY <1>1, <2>1, SelectStep DEF Parsing
<1>2. CASE AtColumns
  <2>1. ParseColumn BY <1>2, ParsingStages, StageSteps
  <2> QED BY <1>2, <2>1, ColumnStep DEF Parsing
<1>3. CASE AtAggregates
  <2>1. ParseAgg BY <1>3, ParsingStages, StageSteps
  <2> QED BY <1>3, <2>1, AggregateStep DEF Parsing
<1>4. CASE AtFrom
  <2>1. ParseFrom BY <1>4, ParsingStages, StageSteps
  <2> QED BY <1>4, <2>1, FromStep DEF Parsing
<1>5. CASE AtTerm
  <2>1. ParseTerm BY <1>5, ParsingStages, StageSteps
  <2> QED BY <1>5, <2>1, TermStep DEF Parsing
<1>6. CASE AtGroup
  <2>1. ParseClause("group", "GROUP", "group columns", "order")
    BY <1>6, ParsingStages, StageSteps
  <2> QED BY <1>6, <2>1, GroupStep DEF Parsing
<1>7. CASE AtGroupColumns
  <2>1. ParseGroupColumn BY <1>7, ParsingStages, StageSteps
  <2> QED BY <1>7, <2>1, GroupColumnStep DEF Parsing
<1>8. CASE AtOrder
  <2>1. ParseClause("order", "ORDER", "order keys", "limit")
    BY <1>8, ParsingStages, StageSteps
  <2> QED BY <1>8, <2>1, OrderStep DEF Parsing
<1>9. CASE AtOrderKeys
  <2>1. ParseOrderKey BY <1>9, ParsingStages, StageSteps
  <2> QED BY <1>9, <2>1, OrderKeyStep DEF Parsing
<1>10. CASE AtLimit
  <2>1. ParseLimit BY <1>10, ParsingStages, StageSteps
  <2> QED BY <1>10, <2>1, LimitStep DEF Parsing
<1>11. CASE AtEnd
  <2>1. ParseEnd BY <1>11, ParsingStages, StageSteps
  <2> QED BY <1>11, <2>1, EndStep DEF Parsing
<1> QED BY <1>1, <1>2, <1>3, <1>4, <1>5, <1>6, <1>7, <1>8, <1>9, <1>10, <1>11 DEF Parsing

LEMMA InputStays ==
  ASSUME ParserNext
  PROVE  input' = input
BY DEF ParserNext, Tokenize, Parse, SkipBlank, LexString, LexMark, LexWord, LexEnd, Emit,
       Refuse, ParseSelect, ParseColumn, ParseAgg, ParseFrom, ParseTerm, ParseClause,
       ParseGroupColumn, ParseOrderKey, ParseLimit, ParseEnd, GoOn, NextItem

LEMMA ParserInvInit == ParserInit => ParserInv
<1> SUFFICES ASSUME ParserInit PROVE ParserInv OBVIOUS
<1>1. /\ input \in Inputs /\ at = 1 /\ toks = <<>> /\ pos = 1 /\ stage = "lex" /\ join = "none"
      /\ query = NoQuery
  BY DEF ParserInit
<1>2. ASSUME input.whole PROVE AtLex
  <2>1. WrittenOut(input) BY <1>1, <1>2, InputsAssumption
  <2> DEFINE ts == layout.tokens  N == Len(ts)  S == [kind : {"word", "str"}, text : Seq(STRING)]
             B == layout.begins  E == layout.ends  Z == Len(text)
  <2>2. ts \in Seq(S) /\ E[1] = 1
        /\ B \in [1 .. (N + 1) -> 1 .. (Z + 1)] /\ E \in [1 .. (N + 1) -> 1 .. (Z + 1)]
        /\ \A k \in 1 .. (N + 1) : E[k] <= B[k]
    BY <2>1 DEF WrittenOut, Spaced, layout, text
  <2>3. Z \in Nat /\ N \in Nat
    <3>1. text \in Seq(STRING) BY <2>1 DEF WrittenOut, Spaced, text
    <3> QED BY <3>1, <2>1, TextFacts
  <2>4. First(ts, 0) = <<>>
    <3> HIDE DEF S
    <3> QED BY <2>2, FirstGrows
  <2>5. 1 \in E[1] .. B[1]
    <3> HIDE DEF N, B, E, Z
    <3>1. 1 \in 1 .. (N + 1) BY <2>3
    <3>2. B[1] \in 1 .. (Z + 1) /\ E[1] <= B[1] BY <2>2, <3>1
    <3> QED BY <2>2, <2>3, <3>2
  <2>6. at \in E[0 + 1] .. B[0 + 1] BY <1>1, <2>5, FromNothing
  <2>7. 0 \in 0 .. N BY <2>3
  <2> HIDE DEF N, B, E, ts
  <2> QED BY <1>1, <2>4, <2>6, <2>7 DEF AtLex, N, B, E, ts
<1> QED BY <1>1, <1>2 DEF ParserInv, Progress

LEMMA ParserInvNext == ParserInv /\ [ParserNext]_parserVars => ParserInv'
<1> SUFFICES ASSUME ParserInv, [ParserNext]_parserVars PROVE ParserInv' OBVIOUS
<1>1. CASE UNCHANGED parserVars
  BY <1>1 DEF parserVars, ParserInv, Progress, AtLex, AtSelect, AtColumns, AtAggregates, AtFrom,
     AtTerm, AtGroup, AtGroupColumns, AtOrder, AtOrderKeys, AtLimit, AtEnd, Filtered, says, layout
<1>2. CASE ParserNext
  <2>1. input' = input /\ input \in Inputs BY <1>2, InputStays DEF ParserInv
  <2>2. ASSUME input.whole PROVE Progress'
    <3>1. WrittenOut(input) BY <2>1, <2>2, InputsAssumption
    <3>2. CASE AtLex
      <4>1. Tokenize BY <1>2, <3>2, ParsingStages, StageSteps
      <4> QED BY <3>1, <3>2, <4>1, LexStep DEF Progress
    <3>3. CASE toks = layout.tokens /\ Parsing
      <4>1. Onward /\ Parsing' BY <1>2, <3>1, <3>3, ParsingStep
      <4>2. toks' = layout'.tokens BY <3>3, <4>1, OnwardKeeps
      <4> QED BY <4>1, <4>2 DEF Progress, Parsing
    <3> QED BY <2>2, <3>2, <3>3 DEF ParserInv, Progress, Parsing
  <2> QED BY <2>1, <2>2 DEF ParserInv
<1> QED BY <1>1, <1>2

\* The invariant of the parser.
THEOREM ParserInvariantHolds == ParserSpec => []ParserInv
<1>1. ParserInit => ParserInv BY ParserInvInit
<1>2. ParserInv /\ [ParserNext]_parserVars => ParserInv' BY ParserInvNext
<1> QED BY <1>1, <1>2, PTL DEF ParserSpec

\* Whatever texts of the documented grammar are considered, however they are spaced, cased
\* and quoted, and however long their lists are: sql.rs accepts each of them, and every
\* clause of the query it builds is what the text says.
THEOREM WholeTextsAreParsed == ParserSpec => []ParsesAsWritten
<1>1. ParserInv => ParsesAsWritten
  <2> SUFFICES ASSUME ParserInv, input.whole
               PROVE  stage # "refused" /\ (stage = "done" => SaysTheSame)
    BY DEF ParsesAsWritten
  <2>1. Progress BY DEF ParserInv
  <2>2. stage # "refused" BY <2>1, ParsingStages DEF Progress
  <2>3. ASSUME stage = "done" PROVE SaysTheSame
    <3>1. AtEnd BY <2>1, <2>3, ParsingStages DEF Progress
    <3>2. query = Built(says.aggregates, says.projected, says.columns, says.dataset, query.pred,
                        says.groupBy, says.orderBy, says.limit)
      BY <3>1 DEF AtEnd, Filtered
    <3>3. DOMAIN query = {"dataset", "aggregates", "projected", "columns", "pred", "groupBy",
                          "orderBy", "limit"}
      BY <3>2 DEF Built
    <3>4. /\ query.dataset = says.dataset /\ query.aggregates = says.aggregates
          /\ query.projected = says.projected /\ query.columns = says.columns
          /\ query.groupBy = says.groupBy /\ query.orderBy = says.orderBy
          /\ query.limit = says.limit
      BY <3>2 DEF Built
    <3> QED BY <3>3, <3>4 DEF SaysTheSame, says
  <2> QED BY <2>2, <2>3
<1> QED BY <1>1, ParserInvariantHolds, PTL

\* However many terms a WHERE clause has: AND and OR bind alike and to the left, and NOT
\* negates one comparison, on every row.
THEOREM WhereReadsLeftToRight == ParserSpec => []ReadsLeftToRight
<1>1. ParserInv => ReadsLeftToRight
  <2> SUFFICES ASSUME ParserInv, input.whole, stage = "done" PROVE ReadsTheSame
    BY DEF ReadsLeftToRight
  <2>1. AtEnd BY ParsingStages DEF ParserInv, Progress
  <2>2. MeansAll(query.pred, says.terms) BY <2>1 DEF AtEnd, Filtered
  <2> QED BY <2>2 DEF MeansAll, ReadsTheSame, says
<1> QED BY <1>1, ParserInvariantHolds, PTL

-----------------------------------------------------------------------------
(* What is built from any text.                                            *)

LEMMA ListGrows ==
  ASSUME NEW s, IsList(s), NEW x
  PROVE  IsList(Append(s, x)) /\ Append(s, x) # <<>>
<1> DEFINE t == Append(s, x)  S == {s[n] : n \in DOMAIN s} \cup {x}
<1>1. s \in Seq(S)
  <2>1. s \in Seq({s[n] : n \in DOMAIN s}) /\ {s[n] : n \in DOMAIN s} \subseteq S BY DEF IsList
  <2> HIDE DEF S
  <2> QED BY <2>1
<1>2. x \in S OBVIOUS
<1> HIDE DEF S
<1>3. t \in Seq(S) /\ Len(t) = Len(s) + 1 /\ Len(s) \in Nat BY <1>1, <1>2
<1>4. t # <<>> BY <1>3
<1> HIDE DEF t
<1>5. t \in Seq({t[n] : n \in DOMAIN t}) BY <1>3
<1> QED BY <1>4, <1>5 DEF IsList, t

LEMMA EmptyList == IsList(<<>>)
BY DEF IsList

\* What an assignment to a clause of a query leaves alone.
LEMMA ClauseSet ==
  ASSUME NEW q, DOMAIN q = Clauses, NEW x
  PROVE  /\ LET r == [q EXCEPT !.projected = x]
            IN  /\ DOMAIN r = Clauses /\ r.projected = x /\ r.aggregates = q.aggregates
                /\ r.pred = q.pred /\ r.groupBy = q.groupBy /\ r.dataset = q.dataset
         /\ LET r == [q EXCEPT !.columns = x]
            IN  /\ DOMAIN r = Clauses /\ r.projected = q.projected
                /\ r.aggregates = q.aggregates /\ r.pred = q.pred /\ r.groupBy = q.groupBy /\ r.dataset = q.dataset
         /\ LET r == [q EXCEPT !.aggregates = x]
            IN  /\ DOMAIN r = Clauses /\ r.projected = q.projected /\ r.aggregates = x
                /\ r.pred = q.pred /\ r.groupBy = q.groupBy /\ r.dataset = q.dataset
         /\ LET r == [q EXCEPT !.dataset = x]
            IN  /\ DOMAIN r = Clauses /\ r.projected = q.projected
                /\ r.aggregates = q.aggregates /\ r.pred = q.pred /\ r.groupBy = q.groupBy /\ r.dataset = x
         /\ LET r == [q EXCEPT !.pred = x]
            IN  /\ DOMAIN r = Clauses /\ r.projected = q.projected
                /\ r.aggregates = q.aggregates /\ r.pred = x /\ r.groupBy = q.groupBy /\ r.dataset = q.dataset
         /\ LET r == [q EXCEPT !.groupBy = x]
            IN  /\ DOMAIN r = Clauses /\ r.projected = q.projected
                /\ r.aggregates = q.aggregates /\ r.pred = q.pred /\ r.groupBy = x /\ r.dataset = q.dataset
         /\ LET r == [q EXCEPT !.orderBy = x]
            IN  /\ DOMAIN r = Clauses /\ r.projected = q.projected
                /\ r.aggregates = q.aggregates /\ r.pred = q.pred /\ r.groupBy = q.groupBy /\ r.dataset = q.dataset
         /\ LET r == [q EXCEPT !.limit = x]
            IN  /\ DOMAIN r = Clauses /\ r.projected = q.projected
                /\ r.aggregates = q.aggregates /\ r.pred = q.pred /\ r.groupBy = q.groupBy /\ r.dataset = q.dataset
<1>1. {"projected", "columns", "aggregates", "dataset", "pred", "groupBy", "orderBy", "limit"}
        \subseteq DOMAIN q
  BY DEF Clauses
<1> QED BY <1>1


LEMMA NextItemStages ==
  ASSUME NEW i, NEW next, NextItem(i, next)
  PROVE  stage' \in {stage, next}
BY DEF NextItem, GoOn

LEMMA RefuseBuilds ==
  ASSUME BuildsInv, Refuse
  PROVE  BuildsInv'
BY DEF BuildsInv, Refuse

LEMMA LexBuilds ==
  ASSUME BuildsInv, stage = "lex", Tokenize
  PROVE  BuildsInv'
<1>1. CASE Refuse BY <1>1, RefuseBuilds
<1>2. CASE ~Refuse
  <2>1. stage' \in {"lex", "select"} /\ join' = join /\ query' = query
    BY <1>2 DEF Tokenize, SkipBlank, LexString, LexMark, LexWord, LexEnd, Emit
  <2> QED BY <2>1 DEF BuildsInv
<1> QED BY <1>1, <1>2

LEMMA SelectBuilds ==
  ASSUME BuildsInv, stage = "select", ParseSelect
  PROVE  BuildsInv'
<1>1. CASE Refuse BY <1>1, RefuseBuilds
<1>2. CASE ~Refuse
  <2>1. /\ DOMAIN query = Clauses /\ IsList(query.aggregates) /\ join = "none"
        /\ query.pred = <<>> /\ query.projected = FALSE /\ query.aggregates = <<>>
    BY DEF BuildsInv
  <2>2. /\ join' = join
        /\ \/ stage' = "aggregates" /\ query' = query
           \/ /\ stage' \in {"from", "columns"}
              /\ query' = [query EXCEPT !.projected = TRUE]
    BY <1>2 DEF ParseSelect, GoOn
  <2>3. CASE stage' = "aggregates" /\ query' = query
    BY <2>1, <2>2, <2>3 DEF BuildsInv
  <2>4. CASE stage' \in {"from", "columns"} /\ query' = [query EXCEPT !.projected = TRUE]
    <3>1. /\ DOMAIN query' = Clauses /\ query'.projected = TRUE /\ query'.aggregates = <<>>
          /\ query'.pred = <<>>
      BY <2>1, <2>4, ClauseSet
    <3>2. SelectsOneKind(query') BY <3>1 DEF SelectsOneKind
    <3> QED BY <2>1, <2>2, <2>4, <3>1, <3>2, EmptyList DEF BuildsInv
  <2> QED BY <2>2, <2>3, <2>4
<1> QED BY <1>1, <1>2

LEMMA ColumnBuilds ==
  ASSUME BuildsInv, stage = "columns", ParseColumn
  PROVE  BuildsInv'
<1>1. CASE Refuse BY <1>1, RefuseBuilds
<1>2. CASE ~Refuse
  <2>1. /\ DOMAIN query = Clauses /\ IsList(query.aggregates) /\ join = "none"
        /\ query.pred = <<>> /\ query.projected = TRUE /\ query.aggregates = <<>>
    BY DEF BuildsInv
  <2>2. /\ query' = [query EXCEPT !.columns = Append(query.columns, Word(pos))]
        /\ NextItem(pos + 1, "from") /\ join' = join
    BY <1>2 DEF ParseColumn
  <2>3. stage' \in {"columns", "from"} BY <2>2, NextItemStages
  <2>4. /\ DOMAIN query' = Clauses /\ query'.projected = TRUE /\ query'.aggregates = <<>>
        /\ query'.pred = <<>>
    BY <2>1, <2>2, ClauseSet
  <2>5. SelectsOneKind(query') BY <2>4 DEF SelectsOneKind
  <2> QED BY <2>1, <2>2, <2>3, <2>4, <2>5, EmptyList DEF BuildsInv
<1> QED BY <1>1, <1>2

LEMMA AggregateBuilds ==
  ASSUME BuildsInv, stage = "aggregates", ParseAgg
  PROVE  BuildsInv'
<1>1. CASE Refuse BY <1>1, RefuseBuilds
<1>2. CASE ~Refuse
  <2>1. /\ DOMAIN query = Clauses /\ IsList(query.aggregates) /\ join = "none"
        /\ query.pred = <<>> /\ query.projected = FALSE
    BY DEF BuildsInv
  <2>2. PICK agg : /\ query' = [query EXCEPT !.aggregates = Append(query.aggregates, agg)]
                   /\ NextItem(pos + 4, "from") /\ join' = join
    BY <1>2 DEF ParseAgg
  <2>3. stage' \in {"aggregates", "from"} BY <2>2, NextItemStages
  <2>4. /\ DOMAIN query' = Clauses /\ query'.projected = FALSE
        /\ query'.aggregates = Append(query.aggregates, agg) /\ query'.pred = <<>>
    BY <2>1, <2>2, ClauseSet
  <2>5. IsList(query'.aggregates) /\ query'.aggregates # <<>> BY <2>1, <2>4, ListGrows
  <2>6. SelectsOneKind(query') BY <2>4, <2>5 DEF SelectsOneKind
  <2> QED BY <2>1, <2>2, <2>3, <2>4, <2>5, <2>6 DEF BuildsInv
<1> QED BY <1>1, <1>2

\* From the end of WHERE on: the next stage, whatever it is, and the same query but for
\* one of the later clauses.
Later == {"group", "group columns", "order", "order keys", "limit", "end"}

LEMMA LaterBuilds ==
  ASSUME BuildsInv, stage \in Later, stage' \in Later,
         DOMAIN query' = Clauses, query'.projected = query.projected,
         query'.aggregates = query.aggregates, query'.pred = query.pred,
         query'.dataset = query.dataset
  PROVE  BuildsInv'
<1>1. /\ IsTree(query.pred) /\ SelectsOneKind(query) /\ IsList(query.aggregates)
      /\ NotBlank(query.dataset)
  BY DEF BuildsInv, Later
<1>2. SelectsOneKind(query') BY <1>1 DEF SelectsOneKind
<1>3. stage' \notin {"lex", "select", "columns", "aggregates", "from", "term", "done"} BY DEF Later
<1> QED BY <1>1, <1>2, <1>3 DEF BuildsInv

LEMMA FromBuilds ==
  ASSUME WordsInv, BuildsInv, stage = "from", ParseFrom
  PROVE  BuildsInv'
<1>1. CASE Refuse BY <1>1, RefuseBuilds
<1>2. CASE ~Refuse
  <2>1. /\ DOMAIN query = Clauses /\ IsList(query.aggregates) /\ join = "none"
        /\ query.pred = <<>> /\ SelectsOneKind(query)
    BY DEF BuildsInv
  <2> DEFINE all == <<[shape |-> "true"]>>  named == [query EXCEPT !.dataset = Word(pos + 1)]
  <2>2. /\ join' = join
        /\ \/ stage' = "term" /\ query' = named
           \/ /\ stage' = "group"
              /\ query' = [query EXCEPT !.dataset = Word(pos + 1), !.pred = all]
    BY <1>2 DEF ParseFrom, GoOn
  <2>3. /\ DOMAIN named = Clauses /\ named.projected = query.projected
        /\ named.aggregates = query.aggregates /\ named.pred = <<>> /\ NotBlank(named.dataset)
    <3>1. NotBlank(Word(pos + 1))
      BY <1>2 DEF ParseFrom, Bare, IsWord, Here, Word, WordsInv
    <3> QED BY <2>1, <3>1, ClauseSet
  <2>4. CASE stage' = "term" /\ query' = named
    <3>1. SelectsOneKind(query') BY <2>1, <2>3, <2>4 DEF SelectsOneKind
    <3> HIDE DEF named
    <3> QED BY <2>1, <2>2, <2>3, <2>4, <3>1 DEF BuildsInv
  <2>5. CASE stage' = "group" /\ query' = [query EXCEPT !.dataset = Word(pos + 1), !.pred = all]
    <3> HIDE DEF all
    <3>1. query' = [named EXCEPT !.pred = all] BY <2>5
    <3> HIDE DEF named
    <3>2. /\ DOMAIN query' = Clauses /\ query'.projected = query.projected
          /\ query'.aggregates = query.aggregates /\ query'.pred = all
          /\ NotBlank(query'.dataset)
      BY <2>3, <3>1, ClauseSet
    <3>3. SelectsOneKind(query') BY <2>1, <3>2 DEF SelectsOneKind
    <3>4. IsTree(all) BY NoTermsMean DEF MeansAll, all
    <3> QED BY <2>1, <2>5, <3>2, <3>3, <3>4 DEF BuildsInv
  <2> QED BY <2>2, <2>4, <2>5
<1> QED BY <1>1, <1>2

LEMMA TermBuilds ==
  ASSUME BuildsInv, stage = "term", ParseTerm
  PROVE  BuildsInv'
<1>1. CASE Refuse BY <1>1, RefuseBuilds
<1>2. CASE ~Refuse
  <2>1. /\ DOMAIN query = Clauses /\ IsList(query.aggregates) /\ SelectsOneKind(query)
        /\ NotBlank(query.dataset)
        /\ \/ join = "none" /\ query.pred = <<>>
           \/ join \in {"and", "or"} /\ IsTree(query.pred)
    BY DEF BuildsInv
  <2> DEFINE negate == Kw(pos, "NOT")
             i == IF negate THEN pos + 1 ELSE pos
             cmp == [shape |-> "cmp", field |-> Word(i), op |-> OpOf[Word(i + 1)],
                     value |-> Literal(i + 2)]
             nodes == IF negate THEN <<cmp, [shape |-> "not", left |-> 1]>> ELSE <<cmp>>
             more == Kw(i + 3, "AND") \/ Kw(i + 3, "OR")
             pred == Joined(query.pred, nodes, join)
  <2>2. /\ query' = [query EXCEPT !.pred = pred]
        /\ join' = IF Kw(i + 3, "AND") THEN "and" ELSE IF Kw(i + 3, "OR") THEN "or" ELSE join
        /\ IF more THEN GoOn(i + 4, "term") ELSE GoOn(i + 3, "group")
    BY <1>2 DEF ParseTerm
  <2>3. negate \in BOOLEAN /\ cmp.shape = "cmp" BY DEF Kw, IsWord, Here
  <2>4. nodes = TermNodes(cmp, negate) BY DEF TermNodes
  <2>5. \/ stage' = "term" /\ join' \in {"and", "or"}
        \/ stage' = "group"
    <3> HIDE DEF i
    <3> QED BY <2>2 DEF GoOn
  <2> HIDE DEF cmp, nodes, negate, i, more
  <2>6. IsTree(pred)
    <3>1. CASE join = "none"
      <4>1. pred = nodes BY <3>1 DEF Joined
      <4> HIDE DEF pred
      <4> QED BY <2>3, <2>4, <4>1, TermHoldsAlone
    <3>2. CASE join \in {"and", "or"} /\ IsTree(query.pred)
      <4>1. pred = Joined(query.pred, TermNodes(cmp, negate), join) BY <2>4
      <4> HIDE DEF pred
      <4> QED BY <2>3, <3>2, <4>1, JoinedHolds
    <3> QED BY <2>1, <3>1, <3>2
  <2> HIDE DEF pred
  <2>7. /\ DOMAIN query' = Clauses /\ query'.projected = query.projected
        /\ query'.aggregates = query.aggregates /\ query'.pred = pred
        /\ query'.dataset = query.dataset
    BY <2>1, <2>2, ClauseSet
  <2>8. SelectsOneKind(query') BY <2>1, <2>7 DEF SelectsOneKind
  <2>9. stage' \in {"term", "group"} BY <2>5
  <2> QED BY <2>1, <2>5, <2>6, <2>7, <2>8, <2>9 DEF BuildsInv
<1> QED BY <1>1, <1>2

LEMMA ClauseBuilds ==
  ASSUME BuildsInv, NEW here \in Later, NEW first, NEW items \in Later, NEW next \in Later,
         ParseClause(here, first, items, next)
  PROVE  BuildsInv'
<1>1. CASE Refuse BY <1>1, RefuseBuilds
<1>2. CASE ~Refuse
  <2>1. stage = here /\ stage' \in {items, next} /\ query' = query
    BY <1>2 DEF ParseClause, GoOn
  <2>2. DOMAIN query = Clauses BY DEF BuildsInv
  <2> QED BY <2>1, <2>2, LaterBuilds
<1> QED BY <1>1, <1>2

LEMMA GroupColumnBuilds ==
  ASSUME BuildsInv, stage = "group columns", ParseGroupColumn
  PROVE  BuildsInv'
<1>1. CASE Refuse BY <1>1, RefuseBuilds
<1>2. CASE ~Refuse
  <2>1. /\ query' = [query EXCEPT !.groupBy = Append(query.groupBy, Word(pos))]
        /\ NextItem(pos + 1, "order")
    BY <1>2 DEF ParseGroupColumn
  <2>2. stage' \in {"group columns", "order"} BY <2>1, NextItemStages
  <2>3. DOMAIN query = Clauses BY DEF BuildsInv
  <2>4. /\ DOMAIN query' = Clauses /\ query'.projected = query.projected
        /\ query'.aggregates = query.aggregates /\ query'.pred = query.pred
        /\ query'.dataset = query.dataset
    BY <2>1, <2>3, ClauseSet
  <2>5. stage \in Later /\ stage' \in Later BY <2>2 DEF Later
  <2> QED BY <2>4, <2>5, LaterBuilds
<1> QED BY <1>1, <1>2

LEMMA OrderKeyBuilds ==
  ASSUME BuildsInv, stage = "order keys", ParseOrderKey
  PROVE  BuildsInv'
<1>1. CASE Refuse BY <1>1, RefuseBuilds
<1>2. CASE ~Refuse
  <2>1. PICK key, i : /\ query' = [query EXCEPT !.orderBy = Append(query.orderBy, key)]
                      /\ NextItem(i, "limit")
    BY <1>2 DEF ParseOrderKey
  <2>2. stage' \in {"order keys", "limit"} BY <2>1, NextItemStages
  <2>3. DOMAIN query = Clauses BY DEF BuildsInv
  <2>4. /\ DOMAIN query' = Clauses /\ query'.projected = query.projected
        /\ query'.aggregates = query.aggregates /\ query'.pred = query.pred
        /\ query'.dataset = query.dataset
    BY <2>1, <2>3, ClauseSet
  <2>5. stage \in Later /\ stage' \in Later BY <2>2 DEF Later
  <2> QED BY <2>4, <2>5, LaterBuilds
<1> QED BY <1>1, <1>2

LEMMA LimitBuilds ==
  ASSUME BuildsInv, stage = "limit", ParseLimit
  PROVE  BuildsInv'
<1>1. CASE Refuse BY <1>1, RefuseBuilds
<1>2. CASE ~Refuse
  <2>1. /\ stage' = "end"
        /\ query' = query \/ \E n : query' = [query EXCEPT !.limit = n]
    BY <1>2 DEF ParseLimit, GoOn
  <2>2. DOMAIN query = Clauses BY DEF BuildsInv
  <2>3. /\ DOMAIN query' = Clauses /\ query'.projected = query.projected
        /\ query'.aggregates = query.aggregates /\ query'.pred = query.pred
        /\ query'.dataset = query.dataset
    <3>1. CASE query' = query BY <2>2, <3>1
    <3>2. CASE \E n : query' = [query EXCEPT !.limit = n]
      <4>1. PICK n : query' = [query EXCEPT !.limit = n] BY <3>2
      <4> QED BY <2>2, <4>1, ClauseSet
    <3> QED BY <2>1, <3>1, <3>2
  <2>4. stage \in Later /\ stage' \in Later BY <2>1 DEF Later
  <2> QED BY <2>3, <2>4, LaterBuilds
<1> QED BY <1>1, <1>2

LEMMA EndBuilds ==
  ASSUME BuildsInv, stage = "end", ParseEnd
  PROVE  BuildsInv'
<1>1. CASE Refuse BY <1>1, RefuseBuilds
<1>2. CASE ~Refuse
  <2>1. stage' = "done" /\ query' = query /\ (query.projected => query.groupBy = <<>>)
    BY <1>2 DEF ParseEnd, GoOn
  <2> QED BY <2>1 DEF BuildsInv
<1> QED BY <1>1, <1>2

\* The next stop is found, and not before the piece one looks from.
LEMMA NextInFound ==
  ASSUME Len(text) \in Nat, NEW S, NEW i \in 1 .. Len(text), text[i] \notin S
  PROVE  NextIn(S, i) \in (i + 1) .. (Len(text) + 1)
<1> DEFINE N == Len(text)
           Stop == {n \in i .. (N + 1) : n > N \/ text[n] \in S}
<1>1. N \in Nat /\ i \in 1 .. N OBVIOUS
<1>2. Stop # {} /\ Stop \in SUBSET Nat
  <2>1. N + 1 \in Stop BY <1>1
  <2> QED BY <1>1, <2>1
<1>3. PICK n \in Stop : \A m \in Stop : n <= m
  <2> HIDE DEF Stop
  <2> QED BY <1>2, LeastNat
<1>4. \A m \in i .. (n - 1) : text[m] \notin S
  <2> SUFFICES ASSUME NEW m \in i .. (n - 1), text[m] \in S PROVE FALSE OBVIOUS
  <2>1. n \in i .. (N + 1) BY <1>3
  <2>2. m \in i .. (N + 1) /\ m < n BY <1>1, <2>1
  <2>3. m \in Stop BY <2>2
  <2> QED BY <1>1, <1>3, <2>1, <2>2, <2>3
<1>5. n \in i .. (N + 1) /\ (n > N \/ text[n] \in S) BY <1>3
<1>6. NextIn(S, i) = n
  <2> HIDE DEF Stop
  <2>1. i \in Nat BY <1>1
  <2> QED BY <1>4, <1>5, <2>1, NextInIs
<1>7. n # i BY <1>1, <1>5
<1>8. n \in (i + 1) .. (N + 1)
  <2> HIDE DEF N, Stop
  <2> QED BY <1>1, <1>5, <1>7
<1> QED BY <1>6, <1>8

\* A token that is emitted joins the others.
LEMMA EmitKeepsWords ==
  ASSUME WordsInv, NEW tok, NEW next \in 1 .. (Len(text) + 1),
         tok.kind = "word" => NotBlank(tok.text), Emit(tok, next)
  PROVE  WordsInv'
<1>1. input' = input /\ at' = next /\ toks' = Append(toks, tok) BY DEF Emit
<1>2. IsList(toks') BY <1>1, ListGrows DEF WordsInv
<1>3. Len(toks) \in Nat /\ DOMAIN toks = 1 .. Len(toks) BY DEF WordsInv, IsList
<1>4. /\ DOMAIN toks' = 1 .. (Len(toks) + 1) /\ toks'[Len(toks) + 1] = tok
      /\ \A i \in 1 .. Len(toks) : toks'[i] = toks[i]
  <2> DEFINE S == {toks[n] : n \in DOMAIN toks} \cup {tok}
  <2>1. toks \in Seq(S)
    <3>1. toks \in Seq({toks[n] : n \in DOMAIN toks}) BY DEF WordsInv, IsList
    <3>2. {toks[n] : n \in DOMAIN toks} \subseteq S OBVIOUS
    <3> HIDE DEF S
    <3> QED BY <3>1, <3>2
  <2>2. tok \in S OBVIOUS
  <2> HIDE DEF S
  <2> QED BY <1>1, <2>1, <2>2
<1>5. ASSUME NEW i \in DOMAIN toks', toks'[i].kind = "word" PROVE NotBlank(toks'[i].text)
  <2>1. CASE i = Len(toks) + 1 BY <1>4, <1>5, <2>1
  <2>2. CASE i # Len(toks) + 1
    <3>1. i \in DOMAIN toks /\ toks'[i] = toks[i] BY <1>3, <1>4, <1>5, <2>2
    <3> QED BY <1>5, <3>1 DEF WordsInv
  <2> QED BY <2>1, <2>2
<1>6. text' = text BY <1>1 DEF text
<1> QED BY <1>1, <1>2, <1>5, <1>6 DEF WordsInv

\* A word that begins with anything but a blank.
LEMMA WordEmitted ==
  ASSUME WordsInv, text \in Seq(STRING), at \in 1 .. Len(text), text[at] # Blank,
         NEW next \in (at + 1) .. (Len(text) + 1), Emit(Token("word", at, next), next)
  PROVE  WordsInv'
<1> DEFINE w == SubSeq(text, at, next - 1)
<1>1. 1 \in DOMAIN w /\ w[1] = text[at]
  <2>1. /\ Len(text) \in Nat /\ at \in Nat /\ next \in Nat /\ at <= next - 1 /\ next - 1 <= Len(text)
        /\ next - 1 \in Nat
    OBVIOUS
  <2> QED BY <2>1
<1> HIDE DEF w
<1>2. NotBlank(w) BY <1>1 DEF NotBlank
<1>3. Token("word", at, next).text = w BY DEF Token, w
<1>4. next \in 1 .. (Len(text) + 1) OBVIOUS
<1> QED BY <1>2, <1>3, <1>4, EmitKeepsWords

LEMMA WordsInvNext == WordsInv /\ [ParserNext]_parserVars => WordsInv'
<1> SUFFICES ASSUME WordsInv, [ParserNext]_parserVars PROVE WordsInv' OBVIOUS
<1> DEFINE Z == Len(text)
<1>1. text \in Seq(STRING) /\ Z \in Nat /\ at \in 1 .. (Z + 1)
  <2>1. text \in Seq(STRING) BY InputsAssumption DEF WordsInv, text
  <2> QED BY <2>1 DEF WordsInv
<1>2. CASE UNCHANGED <<input, at, toks>> BY <1>2 DEF WordsInv, text
<1>3. ASSUME Lexing PROVE at \in 1 .. Z
  <2>1. at <= Z BY <1>3 DEF Lexing
  <2> HIDE DEF Z
  <2> QED BY <1>1, <2>1
<1>4. CASE SkipBlank
  <2>1. at \in 1 .. Z /\ input' = input /\ toks' = toks /\ at' = at + 1
    BY <1>3, <1>4 DEF SkipBlank
  <2>2. at' \in 1 .. (Z + 1)
    <3> HIDE DEF Z
    <3> QED BY <1>1, <2>1
  <2>3. text' = text BY <2>1 DEF text
  <2> QED BY <2>1, <2>2, <2>3 DEF WordsInv
<1>5. CASE LexString
  <2> DEFINE close == NextIn({text[at]}, at + 1)
  <2>1. CASE Refuse BY <1>2, <2>1 DEF Refuse
  <2>2. CASE ~(close > Z) /\ Emit(Token("str", at + 1, close), close + 1)
    <3>1. at \in 1 .. Z BY <1>3, <1>5 DEF LexString
    <3>2. close \in (at + 1) .. (Z + 1)
      <4> DEFINE Stop == {n \in (at + 1) .. (Z + 1) : n > Z \/ text[n] \in {text[at]}}
      <4>1. Stop # {} /\ Stop \in SUBSET Nat /\ at + 1 \in Nat
        <5>1. Z + 1 \in Stop
          <6>1. Z + 1 \in (at + 1) .. (Z + 1) /\ Z + 1 > Z BY <1>1, <3>1
          <6> QED BY <6>1
        <5>2. at + 1 \in Nat BY <3>1
        <5> QED BY <5>1, <5>2
      <4>2. PICK n \in Stop : \A m \in Stop : n <= m
        <5> HIDE DEF Stop
        <5> QED BY <4>1, LeastNat
      <4>3. n \in (at + 1) .. (Z + 1) /\ (n > Z \/ text[n] \in {text[at]}) BY <4>2
      <4>4. \A m \in (at + 1) .. (n - 1) : text[m] \notin {text[at]}
        <5> SUFFICES ASSUME NEW m \in (at + 1) .. (n - 1), text[m] \in {text[at]} PROVE FALSE
          OBVIOUS
        <5>1. m \in (at + 1) .. (Z + 1) /\ m < n /\ m \in Nat /\ n \in Nat
          BY <1>1, <4>1, <4>3
        <5>2. m \in Stop BY <5>1
        <5> QED BY <4>2, <5>1, <5>2
      <4> HIDE DEF Stop
      <4>5. NextIn({text[at]}, at + 1) = n BY <1>1, <4>1, <4>3, <4>4, NextInIs
      <4> QED BY <4>3, <4>5
    <3> HIDE DEF close
    <3>3. close + 1 \in 1 .. (Z + 1)
      <4> HIDE DEF Z
      <4> QED BY <1>1, <2>2, <3>1, <3>2
    <3>4. Token("str", at + 1, close).kind # "word" BY DEF Token
    <3> QED BY <2>2, <3>3, <3>4, EmitKeepsWords
  <2> QED BY <1>5, <2>1, <2>2 DEF LexString
<1>6. CASE LexMark
  <2>0. at \in 1 .. Z BY <1>3, <1>6 DEF LexMark
  <2>1. CASE PairAt /\ Emit(Token("word", at, at + 2), at + 2)
    <3>1. PairIn(text, at) /\ at < Z BY <2>1 DEF PairAt, PairIn
    <3>2. text[at] \in {"<", ">", "!"} BY <1>1, <2>0, <3>1, PairStarts
    <3>3. text[at] # Blank BY <3>2 DEF Blank
    <3>4. at + 2 \in (at + 1) .. (Z + 1)
      <4> HIDE DEF Z
      <4> QED BY <1>1, <2>0, <3>1
    <3> QED BY <1>1, <2>0, <2>1, <3>3, <3>4, WordEmitted
  <2>2. CASE text[at] \in Marks /\ Emit(Token("word", at, at + 1), at + 1)
    <3>1. text[at] # Blank BY <2>2 DEF Blank, Marks
    <3>2. at + 1 \in (at + 1) .. (Z + 1)
      <4> HIDE DEF Z
      <4> QED BY <1>1, <2>0
    <3> QED BY <1>1, <2>0, <2>2, <3>1, <3>2, WordEmitted
  <2> QED BY <1>6, <2>1, <2>2 DEF LexMark
<1>7. CASE LexWord
  <2>1. at \in 1 .. Z /\ text[at] \notin Stops BY <1>3, <1>7 DEF LexWord, Stops
  <2>2. text[at] # Blank BY <2>1 DEF Stops
  <2> DEFINE end == NextIn(Stops, at)
  <2>3. end \in (at + 1) .. (Z + 1) BY <1>1, <2>1, NextInFound
  <2>4. Emit(Token("word", at, end), end) BY <1>7 DEF LexWord, Stops
  <2> HIDE DEF end
  <2> QED BY <1>1, <2>1, <2>2, <2>3, <2>4, WordEmitted
<1>8. CASE LexEnd \/ Parse
  <2>1. UNCHANGED <<input, at, toks>>
    BY <1>8 DEF LexEnd, Parse, Refuse, ParseSelect, ParseColumn, ParseAgg, ParseFrom, ParseTerm,
       ParseClause, ParseGroupColumn, ParseOrderKey, ParseLimit, ParseEnd, GoOn, NextItem
  <2> QED BY <1>2, <2>1
<1>9. CASE UNCHANGED parserVars BY <1>2, <1>9 DEF parserVars
<1> QED BY <1>4, <1>5, <1>6, <1>7, <1>8, <1>9 DEF ParserNext, Tokenize

LEMMA BuildsInvInit == ParserInit => WordsInv /\ BuildsInv
<1> SUFFICES ASSUME ParserInit PROVE WordsInv /\ BuildsInv OBVIOUS
<1>1. stage = "lex" /\ join = "none" /\ query = NoQuery BY DEF ParserInit
<1>2. /\ DOMAIN NoQuery = Clauses /\ NoQuery.pred = <<>> /\ NoQuery.projected = FALSE
      /\ NoQuery.aggregates = <<>>
  BY DEF NoQuery, Clauses
<1>3. BuildsInv BY <1>1, <1>2, EmptyList DEF BuildsInv
<1>4. WordsInv
  <2>1. input \in Inputs /\ at = 1 /\ toks = <<>> BY DEF ParserInit
  <2>2. text \in Seq(STRING) BY <2>1, InputsAssumption DEF text
  <2>3. 1 \in 1 .. (Len(text) + 1) BY <2>2
  <2> QED BY <2>1, <2>3, EmptyList DEF WordsInv
<1> QED BY <1>3, <1>4

LEMMA BuildsInvNext == WordsInv /\ BuildsInv /\ [ParserNext]_parserVars => BuildsInv'
<1> SUFFICES ASSUME WordsInv, BuildsInv, [ParserNext]_parserVars PROVE BuildsInv' OBVIOUS
<1>1. CASE UNCHANGED parserVars BY <1>1 DEF parserVars, BuildsInv
<1>2. CASE ParserNext
  <2>1. CASE stage = "lex" /\ Tokenize BY <2>1, LexBuilds
  <2>2. CASE stage = "select" /\ ParseSelect BY <2>2, SelectBuilds
  <2>3. CASE stage = "columns" /\ ParseColumn BY <2>3, ColumnBuilds
  <2>4. CASE stage = "aggregates" /\ ParseAgg BY <2>4, AggregateBuilds
  <2>5. CASE stage = "from" /\ ParseFrom BY <2>5, FromBuilds
  <2>6. CASE stage = "term" /\ ParseTerm BY <2>6, TermBuilds
  <2>7. CASE ParseClause("group", "GROUP", "group columns", "order")
    BY <2>7, ClauseBuilds DEF Later
  <2>8. CASE stage = "group columns" /\ ParseGroupColumn BY <2>8, GroupColumnBuilds
  <2>9. CASE ParseClause("order", "ORDER", "order keys", "limit")
    BY <2>9, ClauseBuilds DEF Later
  <2>10. CASE stage = "order keys" /\ ParseOrderKey BY <2>10, OrderKeyBuilds
  <2>11. CASE stage = "limit" /\ ParseLimit BY <2>11, LimitBuilds
  <2>12. CASE stage = "end" /\ ParseEnd BY <2>12, EndBuilds
  <2> QED BY <1>2, <2>1, <2>2, <2>3, <2>4, <2>5, <2>6, <2>7, <2>8, <2>9, <2>10, <2>11, <2>12,
             StageSteps
<1> QED BY <1>1, <1>2

\* Any text at all, of the grammar or not: a query that parse accepts names a dataset,
\* selects either aggregates or columns, groups no projection, and carries a predicate in
\* which every node refers to earlier nodes only, so that eval and can_match are defined
\* on it.
THEOREM AcceptedQueriesAreValid == ParserSpec => []AcceptedIsValid
<1> DEFINE Inv == WordsInv /\ BuildsInv
<1>1. ParserInit => Inv BY BuildsInvInit
<1>2. Inv /\ [ParserNext]_parserVars => Inv' BY WordsInvNext, BuildsInvNext
<1>3. Inv => AcceptedIsValid BY DEF BuildsInv, AcceptedIsValid
<1> HIDE DEF Inv
<1> QED BY <1>1, <1>2, <1>3, PTL DEF ParserSpec
=============================================================================
