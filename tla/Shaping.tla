------------------------------ MODULE Shaping ------------------------------
(***************************************************************************)
(* ORDER BY and LIMIT over the finalized groups of an aggregate query:     *)
(* order.rs and Query::shape.  The groups are a function from group keys   *)
(* to what Finalize makes of their accumulators.  An output column is      *)
(* "count", "sum", "min", "max" or "avg" of the one aggregated column.     *)
(***************************************************************************)
EXTENDS Accumulators, Subsequences

CONSTANTS NoLimit,       \* a query without LIMIT
          LabelRank(_)   \* the place of a label among strings in byte order

Outputs == {"count", "sum", "min", "max", "avg"}
Directions == {"asc", "desc"}
OrderKeys == [column : Columns \cup Outputs \cup {"absent"}, dir : Directions]

\* An output cell: null, a number (as f64) or a string.  An average is a ratio.
NullCell == [type |-> "null", num |-> 0, den |-> 1]
NumberCell(n, d) == [type |-> "number", num |-> n, den |-> d]
TextCell(label) == [type |-> "text", num |-> LabelRank(label), den |-> 1]
TypeRank == [null |-> 0, bool |-> 1, number |-> 2, text |-> 3]

OutputCell(group, column) ==
  LET v == group[column]
  IN  IF v = None THEN NullCell
      ELSE IF column = "avg" THEN NumberCell(v.total, v.count)
      ELSE NumberCell(ToFloat(v), 1)

\* row_cell: a GROUP BY column hides an output of its name; a column that is neither is null.
RowCell(groups, key, column) ==
  IF column \in DOMAIN key THEN TextCell(key[column])
  ELSE IF column \in Outputs THEN OutputCell(groups[key], column)
  ELSE NullCell

\* cell_cmp is "less": a number is never compared with a string but by type.
CellLess(a, b) ==
  IF a.type = b.type THEN a.num * b.den < b.num * a.den
  ELSE TypeRank[a.type] < TypeRank[b.type]

\* Fault variant: DESC looks at cells of one type only.
LessUnderSameType(key, a, b) ==
  IF key.dir = "desc" /\ a.type = b.type THEN CellLess(b, a) ELSE CellLess(a, b)

LessUnder(key, a, b) == IF key.dir = "desc" THEN CellLess(b, a) ELSE CellLess(a, b)

\* cmp_by_keys is "less": the first key that tells the groups a and b apart decides.
Precedes(groups, orderBy, a, b) ==
  \E n \in DOMAIN orderBy :
    /\ LessUnder(orderBy[n], RowCell(groups, a, orderBy[n].column),
                             RowCell(groups, b, orderBy[n].column))
    /\ \A m \in 1 .. (n - 1) :
         ~LessUnder(orderBy[m], RowCell(groups, b, orderBy[m].column),
                                RowCell(groups, a, orderBy[m].column))

\* The order of the keys of a BTreeMap: that of their columns, one after the other.
KeyLess(columns, a, b) ==
  \E n \in DOMAIN columns :
    /\ LabelRank(a[columns[n]]) < LabelRank(b[columns[n]])
    /\ \A m \in 1 .. (n - 1) : a[columns[m]] = b[columns[m]]

KeyOrder(groups, columns) ==
  {pair \in (DOMAIN groups) \X (DOMAIN groups) : KeyLess(columns, pair[1], pair[2])}

\* finalize lists the groups in the order of their keys.
InKeyOrder(groups, columns) == Listed(DOMAIN groups, KeyOrder(groups, columns))

\* order_rows: a stable sort, so of two places that tie the earlier goes first.
RowOrder(groups, rows, orderBy) ==
  {pair \in (DOMAIN rows) \X (DOMAIN rows) :
     \/ Precedes(groups, orderBy, rows[pair[1]], rows[pair[2]])
     \/ ~Precedes(groups, orderBy, rows[pair[2]], rows[pair[1]]) /\ pair[1] < pair[2]}

OrderRows(groups, rows, orderBy) ==
  LET places == Listed(DOMAIN rows, RowOrder(groups, rows, orderBy))
  IN  [i \in DOMAIN rows |-> rows[places[i]]]

ApplyLimit(rows, limit) ==
  IF limit = NoLimit \/ Len(rows) <= limit THEN rows ELSE SubSeq(rows, 1, limit)

\* Query::shape of what finalize returns.
Shaped(groups, query) ==
  ApplyLimit(OrderRows(groups, InKeyOrder(groups, query.groupList), query.orderBy), query.limit)
=============================================================================
