---------------------------- MODULE QueryModel ----------------------------
(***************************************************************************)
(* Rows, cells, predicates and partition pruning: Predicate::eval and the  *)
(* group key of query.rs, compute_stats of dataset.rs, shard_can_match of  *)
(* plan.rs.                                                                *)
(*                                                                         *)
(* A cell is what the code's conversions make of a JSON value:             *)
(*   kind    its JSON type; json_cmp orders cells of one kind only         *)
(*   rank    its place among the cells of its kind (a number's f64 value,  *)
(*           a string's place in byte order)                               *)
(*   float   as_f64: the value of a number or of a string that parses as   *)
(*           one exactly as it stands, None for any other cell             *)
(*   num     as_number: the same for SUM, where blanks around a string are *)
(*           trimmed and integers keep a lane of their own                 *)
(*   label   its text in a GROUP BY key                                    *)
(* f64 values are integers here; infinities and NaN are left out.          *)
(***************************************************************************)
EXTENDS Integers, Sequences

CONSTANTS None,      \* the absent value of an Option
          Columns,   \* column names
          Cells,     \* the JSON values that rows and predicates hold
          EmptyLabel \* the label of an absent cell

Kinds == {"null", "bool", "number", "text", "nested"}
Lanes == {"int", "float"}
CmpOps == {"eq", "ne", "lt", "le", "gt", "ge"}

CellType == [kind : Kinds, rank : Int, float : Int \cup {None},
             num : [lane : Lanes, val : Int] \cup {None}, label : STRING]

ASSUME NoneAssumption == None \notin Int /\ None \notin [lane : Lanes, val : Int]

ASSUME CellsAssumption ==
  /\ Cells \subseteq CellType
  /\ \A c \in Cells :
       /\ c.kind = "number" => c.float = c.rank
       /\ c.kind \notin {"number", "text"} => c.float = None /\ c.num = None

Null == [kind |-> "null", rank |-> 0, float |-> None, num |-> None, label |-> "null"]

\* A row holds cells in some of the columns (schema on read).
Rows == UNION {[C -> Cells] : C \in SUBSET Columns}

Cell(row, col) == IF col \in DOMAIN row THEN row[col] ELSE Null

Label(row, col) == IF col \in DOMAIN row THEN row[col].label ELSE EmptyLabel

GroupKey(row, groupBy) == [col \in groupBy |-> Label(row, col)]

-----------------------------------------------------------------------------
(* Predicates: a tree laid out as a sequence, children before parents, the *)
(* root last.                                                              *)

Nodes(i) ==
  [shape : {"true"}]
    \cup [shape : {"cmp"}, field : Columns, op : CmpOps, value : Cells]
    \cup [shape : {"and", "or"}, left : 1 .. (i - 1), right : 1 .. (i - 1)]
    \cup [shape : {"not"}, left : 1 .. (i - 1)]

\* A tree, whatever its leaves compare.
IsTree(p) ==
  /\ Len(p) \in Nat \ {0} /\ p \in Seq({p[i] : i \in DOMAIN p})
  /\ \A i \in DOMAIN p :
       \/ p[i].shape \in {"true", "cmp"}
       \/ p[i].shape = "not" /\ p[i].left \in 1 .. (i - 1)
       \/ /\ p[i].shape \in {"and", "or"}
          /\ p[i].left \in 1 .. (i - 1) /\ p[i].right \in 1 .. (i - 1)

IsPredicate(p) == IsTree(p) /\ \A i \in DOMAIN p : p[i] \in Nodes(i)

Ordered(a, b) == a.kind = b.kind /\ a.kind # "nested"

\* CmpOp::eval: cells that are not ordered satisfy "ne" alone.
Compare(op, a, b) ==
  \/ op = "eq" /\ Ordered(a, b) /\ a.rank = b.rank
  \/ op = "ne" /\ ~(Ordered(a, b) /\ a.rank = b.rank)
  \/ op = "lt" /\ Ordered(a, b) /\ a.rank < b.rank
  \/ op = "le" /\ Ordered(a, b) /\ a.rank <= b.rank
  \/ op = "gt" /\ Ordered(a, b) /\ a.rank > b.rank
  \/ op = "ge" /\ Ordered(a, b) /\ a.rank >= b.rank

\* The value of node i from those of its children: what Predicate::eval and
\* can_match share. Only evaluation negates; pruning answers "maybe" to a Not.
NodeValue(node, leaf, negates, below) ==
  CASE node.shape = "and" -> below[node.left] /\ below[node.right]
    [] node.shape = "or"  -> below[node.left] \/ below[node.right]
    [] node.shape = "not" -> negates => ~below[node.left]
    [] OTHER -> leaf

TreeValue(p, leaves, negates) ==
  LET value[i \in DOMAIN p] == NodeValue(p[i], leaves[i], negates, value)
  IN  value[Len(p)]

LeafHolds(node, row) ==
  node.shape = "cmp" => Compare(node.op, Cell(row, node.field), node.value)

\* Predicate::eval.
Holds(p, row) == TreeValue(p, [i \in DOMAIN p |-> LeafHolds(p[i], row)], TRUE)

-----------------------------------------------------------------------------
(* Column statistics and pruning.                                          *)

NoStats == [numeric |-> <<>>, disqualified |-> {}]

Smaller(a, b) == IF a <= b THEN a ELSE b
Larger(a, b) == IF a >= b THEN a ELSE b

\* Fault variant: a column that stopped being numeric gets a new range from the next number.
ObserveForgets(st, row) ==
  LET good == {c \in DOMAIN row : row[c].float # None}
      bad  == DOMAIN row \ good
      Known(c) == IF c \in DOMAIN st.numeric THEN st.numeric[c]
                  ELSE [min |-> row[c].float, max |-> row[c].float]
  IN  [st EXCEPT !.numeric =
         [c \in (DOMAIN @ \cup good) \ bad |->
            IF c \notin good THEN @[c]
            ELSE [min |-> Smaller(Known(c).min, row[c].float),
                  max |-> Larger(Known(c).max, row[c].float)]]]

\* One row's turn in compute_stats: ranges grow, a column with a cell that is no number
\* loses its range for good.
Observe(st, row) ==
  LET open == DOMAIN row \ st.disqualified
      bad  == {c \in open : row[c].float = None}
      good == open \ bad
      Widened(c) ==
        LET v == row[c].float
        IN  IF c \in DOMAIN st.numeric
            THEN [min |-> Smaller(st.numeric[c].min, v), max |-> Larger(st.numeric[c].max, v)]
            ELSE [min |-> v, max |-> v]
  IN  [numeric |-> [c \in (DOMAIN st.numeric \cup good) \ bad |->
                      IF c \in good THEN Widened(c) ELSE st.numeric[c]],
       disqualified |-> st.disqualified \cup bad]

\* Can a value within range satisfy the comparison with v?
RangeAllows(op, range, v) ==
  \/ op = "gt" /\ range.max > v
  \/ op = "ge" /\ range.max >= v
  \/ op = "lt" /\ range.min < v
  \/ op = "le" /\ range.min <= v
  \/ op = "eq" /\ range.min <= v /\ v <= range.max
  \/ op = "ne"

LeafCanMatch(node, stats) ==
  node.shape = "cmp" =>
    \/ node.field \notin DOMAIN stats
    \/ node.value.float = None
    \/ RangeAllows(node.op, stats[node.field], node.value.float)

\* can_match.
CanMatch(p, stats) == TreeValue(p, [i \in DOMAIN p |-> LeafCanMatch(p[i], stats)], FALSE)
=============================================================================
