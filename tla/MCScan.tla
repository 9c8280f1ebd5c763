------------------------------- MODULE MCScan -------------------------------
(* Small instances of Scan for TLC: floats with a mantissa of two bits, an  *)
(* integer sum of five bits and JSON numbers of four.                       *)
EXTENDS ScanInvariant, TLC
LOCAL INSTANCE SequencesExt

Powers == {1, 2, 4, 8, 16, 32, 64, 128, 256}

\* Round to a multiple of the power that leaves two bits, halves to even.
RoundToTwoBits(n) ==
  LET m == Abs(n)
      unit == CHOOSE p \in Powers : m < 4 * p /\ \A q \in Powers : q < p => m >= 4 * q
      down == m \div unit
      rest == 2 * (m % unit)
      near == IF rest > unit \/ (rest = unit /\ down % 2 = 1) THEN down + 1 ELSE down
  IN  IF n < 0 THEN -(near * unit) ELSE near * unit

MCJsonMin == -8

Exact(n) == LET float == RoundToTwoBits(n)
            IN  [kind |-> "number", rank |-> float, float |-> float,
                 num |-> [lane |-> "int", val |-> n], label |-> ToString(n)]
Fraction(n) == [kind |-> "number", rank |-> n, float |-> n,
                num |-> [lane |-> "float", val |-> n], label |-> ToString(n) \o ".0"]
\* A string that reads as a number, one that does so when trimmed, and a word.
NumericText(rank, n) == [kind |-> "text", rank |-> rank, float |-> RoundToTwoBits(n),
                         num |-> [lane |-> "int", val |-> n], label |-> ToString(n)]
PaddedText(rank, n) == [kind |-> "text", rank |-> rank, float |-> None,
                        num |-> [lane |-> "int", val |-> n], label |-> " " \o ToString(n)]
Word(rank, label) == [kind |-> "text", rank |-> rank, float |-> None, num |-> None,
                      label |-> label]
Nested == [kind |-> "nested", rank |-> 0, float |-> None, num |-> None, label |-> "[]"]

\* In byte order " 2" < "10" < "3" < "null" < "x": "10" comes before "3".
TwoPadded == PaddedText(0, 2)
TenText == NumericText(1, 10)
ThreeText == NumericText(2, 3)
NullText == Word(3, "null")
XText == Word(4, "x")

MCColumns == {"g", "v"}
MCCells == {Exact(n) : n \in -16 .. 16} \cup {Fraction(n) : n \in -4 .. 4}
             \cup {TwoPadded, TenText, ThreeText, NullText, XText, Null, Nested}

Only(cells) == {<<>>} \cup {"v" :> c : c \in cells}
Tagged(tags, cells) == {"g" :> t @@ "v" :> c : t \in tags, c \in cells}
Tables(n, rows) == UNION {[1 .. k -> rows] : k \in 0 .. n}

Everything == <<[shape |-> "true"]>>
Cmp(op, lit) == [shape |-> "cmp", field |-> "v", op |-> op, value |-> lit]
Joined(shape, a, b) == <<a, b, [shape |-> shape, left |-> 1, right |-> 2]>>
Negated(a) == <<a, [shape |-> "not", left |-> 1]>>

\* The place of a label in byte order, of those that the groups below have.
MCLabelRank(label) ==
  CHOOSE n \in 1 .. 6 : label = <<"", "-2", "1", "3", "null", "x">>[n]

Ranked(t, n, p, g, order, limit) ==
  [table |-> t, parts |-> n, pred |-> p, groupBy |-> g, field |-> "v",
   groupList |-> SetToSeq(g), orderBy |-> order, limit |-> limit]
Job(t, n, p, g) == Ranked(t, n, p, g, <<>>, NoLimit)

\* Sums in both lanes, across the limit of exact floats, of an i128 and of JSON, with
\* the groups of absent, null, "null" and 3 against "3".
TaggedRows ==
  Only({Exact(3)}) \cup Tagged({Null, NullText}, {Exact(1), XText})
    \cup Tagged({NullText}, {Exact(7), Fraction(2), TwoPadded})
AggregateJobs ==
  {Job(t, n, Everything, {"g"}) : n \in 1 .. 3, t \in Tables(2, TaggedRows)}
    \cup {Job(t, 2, Everything, {"g"}) : t \in [1 .. 3 -> TaggedRows]}
    \cup {Job(t, n, Everything, {}) : n \in {1, 2},
            t \in [1 .. 3 -> Only({Exact(9), Exact(-6), Fraction(1), ThreeText})]}

\* Predicates over shards of mixed columns, their literals no strings that read as numbers.
Literals == {Exact(2), NullText, Null, Nested}
Leaves == {<<Cmp(op, l)>> : op \in CmpOps, l \in Literals}
Trees ==
  {Joined(sh, Cmp("gt", Exact(1)), Cmp("lt", Exact(3))) : sh \in {"and", "or"}}
    \cup {Joined(sh, Cmp("le", Exact(1)), Cmp("ge", Exact(3))) : sh \in {"and", "or"}}
    \cup {Negated(Cmp(op, Exact(2))) : op \in {"gt", "eq"}}
MixedRows == Only({Exact(1), Exact(3), ThreeText, XText})
PruningJobs ==
  {Job(t, 1, p, {}) : p \in Leaves \cup Trees, t \in Tables(2, MixedRows)}
    \cup {Job(t, 2, p, {}) : p \in Trees, t \in [1 .. 3 -> MixedRows]}
    \cup {Job(t, 1, p, {}) : p \in Trees \cup {<<Cmp(op, Exact(2))>> : op \in CmpOps},
            t \in [1 .. 3 -> Only({Exact(1), Exact(3), XText})]}

\* Groups that tie, that have no numeric cell and whose cells are negative, under every
\* output, the group column itself, a column there is none of, and two keys.
By(column, dir) == [column |-> column, dir |-> dir]
Orders ==
  {<<By(c, d)>> : c \in Outputs \cup {"g", "absent"}, d \in Directions}
    \cup {<<By("count", "desc"), By("min", "asc")>>, <<By("max", "desc"), By("g", "desc")>>}
RankedRows ==
  Only({Exact(3)}) \cup Tagged({NullText}, {Exact(1), XText}) \cup Tagged({ThreeText}, {Exact(-2), Exact(3)})
ShapingJobs ==
  {Ranked(t, 2, Everything, {"g"}, o, l) :
     t \in [1 .. 3 -> RankedRows], o \in Orders, l \in {NoLimit, 0, 1, 2}}
  \cup {Ranked(t, 2, Everything, {"g", "v"}, <<By("count", "desc")>>, l) :
     t \in [1 .. 3 -> RankedRows], l \in {NoLimit, 2}}

MCJobs == AggregateJobs \cup PruningJobs \cup ShapingJobs

-----------------------------------------------------------------------------
(* Jobs for what the documentation says and the code does not keep.        *)

\* A column of strings compared with a string that reads as a number.
TextJobs ==
  {Job(t, 1, <<Cmp(op, l)>>, {}) : op \in CmpOps, l \in {TenText, ThreeText},
     t \in Tables(2, Only({ThreeText, TenText}))}
=============================================================================
