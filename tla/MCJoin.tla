------------------------------- MODULE MCJoin -------------------------------
(***************************************************************************)
(* Small instances of Join: up to two rows against up to two, every kind   *)
(* of key cell, joins of joins, every way to hash the key texts.           *)
(***************************************************************************)
EXTENDS JoinInvariant, TLC

k == <<"k">>
m == <<"m">>
v == <<"v">>
rv == <<"right", "v">>

(* A row keeps its columns in the order of their names.                    *)
MCColumnOrder == <<k, m, <<"right", "k">>, rv, <<"right", "right", "v">>, v>>

Num(text) == [type |-> "number", text |-> text]
Str(text) == [type |-> "string", text |-> text]
Null == [type |-> "null", text |-> "null"]

(* The number 1 and the string "1" are the same key; "null" is a string.   *)
MCKeyCells == {Num("1"), Str("1"), Str("null"), Null}
Row(column, key, value) == (column :> key) @@ (v :> Str(value))
Keyless(value) == v :> Str(value)

(* A row that comes from an earlier join has a column "right.v" already.   *)
Joined(row, value) == row @@ (rv :> Str(value))

Left ==
  {Row(k, c, "l") : c \in MCKeyCells} \cup {Keyless("l"), Joined(Row(k, Num("1"), "l"), "ll")}
Right(column) ==
  {Row(column, c, "r") : c \in MCKeyCells} \cup {Keyless("q"), Joined(Row(column, Num("1"), "r"), "rr")}

UpTo2(S) == {<<>>} \cup {<<x>> : x \in S} \cup {<<x, y>> : x, y \in S}

MCLefts == UpTo2(Left)
MCRights == UpTo2(Right(m)) \cup UpTo2(Right(k))
MCKeys == {[left |-> k, right |-> m], [left |-> k, right |-> k]}

(* Only how two keys differ matters, so one of them is fixed.              *)
MCHashes == {h \in [{"1", "null"} -> 0 .. 2] : h["1"] = 0}
MCPartitions == {0, 1, 2, 3}
=============================================================================
