-------------------------------- MODULE Join --------------------------------
(***************************************************************************)
(* The equi-join of two row streams (src/join.rs): rows are split into     *)
(* buckets by the hash of their join key, both sides alike, the buckets    *)
(* are joined one after the other and the results put together.  A row is  *)
(* a function from its columns to cells [type, text]; a column's name is   *)
(* the sequence of its parts, so that "right.v" is <<"right", "v">>.  The  *)
(* hash is any function of the key's text.                                 *)
(***************************************************************************)
EXTENDS Subsequences

SE == INSTANCE SequencesExt

CONSTANTS
  Lefts, Rights,   \* the row streams to be joined
  Keys,            \* the pairs of key columns: [left, right]
  Hashes,          \* the hash functions, from key texts to numbers
  Partitions,      \* the numbers of buckets that are asked for
  ColumnOrder,     \* all columns, in the order a row keeps them
  NoKey            \* marks a row that matches nothing

(* The streams are finite, the number of partitions is a natural number,   *)
(* and every text that serves as a key has a hash.                         *)
KeyCells(rows, column) ==
  {rows[i][column] : i \in {j \in DOMAIN rows : column \in DOMAIN rows[j]}}

ASSUME JoinAssumption ==
  /\ \A rows \in Lefts \cup Rights : rows \in Seq(SE!ToSet(rows))
  /\ Partitions \subseteq Nat
  /\ \A k \in Keys, h \in Hashes, ls \in Lefts, rs \in Rights :
       \A cell \in KeyCells(ls, k.left) \cup KeyCells(rs, k.right) :
         cell.text # NoKey /\ (cell.type # "null" => h[cell.text] \in Nat)

(* Columns are named by sequences of strings and are in one order.         *)
ASSUME ColumnAssumption ==
  /\ ColumnOrder \in Seq(Seq(STRING))
  /\ \A i, j \in DOMAIN ColumnOrder : ColumnOrder[i] = ColumnOrder[j] => i = j
  /\ \A rows \in Lefts \cup Rights : \A row \in SE!ToSet(rows) :
       DOMAIN row \subseteq SE!ToSet(ColumnOrder)

VARIABLES
  left, right,     \* the two sides
  keys, hash,      \* the key columns and the hash function
  n,               \* the number of buckets
  bucket,          \* the buckets joined so far
  out              \* the joined rows so far

vars == <<left, right, keys, hash, n, bucket, out>>

-----------------------------------------------------------------------------
(* key_str: the text of the cell; a missing or null key matches nothing.   *)
KeyStr(row, column) ==
  IF column \notin DOMAIN row THEN NoKey
  ELSE IF row[column].type = "null" THEN NoKey ELSE row[column].text

(* merge_rows: the right row's cells are added one by one, in the order of *)
(* its columns, under the prefixed name if their own is taken.             *)
RightName(column) == <<"right">> \o column
Put(row, column, cell) ==
  [c \in DOMAIN row \cup {column} |-> IF c = column THEN cell ELSE row[c]]

(* Fault variant: the right cell replaces the left one.                    *)
AddCellOver(row, column, cell) == Put(row, column, cell)

AddCell(row, column, cell) ==
  Put(row, IF column \in DOMAIN row THEN RightName(column) ELSE column, cell)

MergeRows(l, r) ==
  SE!FoldLeft(LAMBDA row, c : AddCell(row, c, r[c]),
              l, Kept(ColumnOrder, {i \in DOMAIN ColumnOrder : ColumnOrder[i] \in DOMAIN r}))

(* hash_join: an index from each key to the positions of the right rows    *)
(* that have it, probed with the left rows in their order.                 *)
Index(rows) ==
  [k \in {KeyStr(rows[i], keys.right) : i \in DOMAIN rows} \ {NoKey} |->
     Kept([i \in DOMAIN rows |-> i], {i \in DOMAIN rows : KeyStr(rows[i], keys.right) = k})]

(* Fault variant: the index is built on the left and probed with the right. *)
HashJoinFromRight(ls, rs) ==
  SE!FlattenSeq([j \in DOMAIN rs |->
    LET same == Kept(ls, {x \in DOMAIN ls :
                            /\ KeyStr(ls[x], keys.left) # NoKey
                            /\ KeyStr(ls[x], keys.left) = KeyStr(rs[j], keys.right)})
    IN [x \in DOMAIN same |-> MergeRows(same[x], rs[j])]])

HashJoin(ls, rs) ==
  LET index == Index(rs)
      Probe(l) ==
        LET k == KeyStr(l, keys.left) IN
        IF k \notin DOMAIN index THEN <<>>
        ELSE [j \in DOMAIN index[k] |-> MergeRows(l, rs[index[k][j]])]
  IN SE!FlattenSeq([i \in DOMAIN ls |-> Probe(ls[i])])

(* Fault variant: a row is hashed with its cell's type.                    *)
BucketByType(row, column) ==
  (hash[KeyStr(row, column)] + IF row[column].type = "string" THEN 1 ELSE 0) % n

(* partition_by_key: rows without a key are left out.                      *)
BucketOf(row, column) == hash[KeyStr(row, column)] % n
PartitionByKey(rows, column, b) ==
  Kept(rows, {i \in DOMAIN rows :
                KeyStr(rows[i], column) # NoKey /\ BucketOf(rows[i], column) = b})

(* At least one bucket.                                                    *)
AtLeastOne(partitions) == IF partitions = 0 THEN 1 ELSE partitions

-----------------------------------------------------------------------------
(* distributed_join                                                        *)
Init ==
  /\ left \in Lefts /\ right \in Rights
  /\ keys \in Keys /\ hash \in Hashes
  /\ \E partitions \in Partitions : n = AtLeastOne(partitions)
  /\ bucket = 0 /\ out = <<>>

JoinBucket ==
  /\ bucket < n
  /\ out' = out \o HashJoin(PartitionByKey(left, keys.left, bucket),
                            PartitionByKey(right, keys.right, bucket))
  /\ bucket' = bucket + 1
  /\ UNCHANGED <<left, right, keys, hash, n>>

Next == JoinBucket

Spec == Init /\ [][Next]_vars

-----------------------------------------------------------------------------
(* The pairs of rows whose keys agree, in the order of a nested loop.      *)
Agree(l, r) ==
  /\ keys.left \in DOMAIN l /\ keys.right \in DOMAIN r
  /\ l[keys.left].type # "null" /\ r[keys.right].type # "null"
  /\ l[keys.left].text = r[keys.right].text
MatchingPairs ==
  {p \in (DOMAIN left) \X (DOMAIN right) : Agree(left[p[1]], right[p[2]])}

Count(q, x) == Cardinality({i \in DOMAIN q : q[i] = x})

(* However the keys are hashed and however many buckets there are, the     *)
(* result is that of the plain join: one row for each pair of rows with    *)
(* equal keys, no pair left out and none joined twice.                     *)
EveryPairOnce ==
  bucket = n =>
    /\ Len(out) = Cardinality(MatchingPairs)
    /\ \A p \in MatchingPairs :
         LET row == MergeRows(left[p[1]], right[p[2]]) IN
         Count(out, row) =
           Cardinality({q \in MatchingPairs : MergeRows(left[q[1]], right[q[2]]) = row})

(* With one bucket the rows come in the order of the left side and, for    *)
(* each left row, in that of the right side.                               *)
Before(p, q) == p[1] < q[1] \/ (p[1] = q[1] /\ p[2] < q[2])
OneBucketKeepsTheOrder ==
  n = 1 /\ bucket = n =>
    \A p \in MatchingPairs :
      out[1 + Cardinality({q \in MatchingPairs : Before(q, p)})] =
        MergeRows(left[p[1]], right[p[2]])

(* Merging two rows (merge_rows) keeps every cell of the left row in its   *)
(* column and every cell of the right row under its own or, where the left *)
(* row has that column, the prefixed name, but for columns that are called *)
(* right.<col> themselves, for a column <col> of the right row.            *)
Prefixed(row) == {RightName(c) : c \in DOMAIN row}

NoValueIsLost ==
  \A l \in SE!ToSet(left), r \in SE!ToSet(right) :
    LET row == MergeRows(l, r) IN
    /\ \A c \in DOMAIN l \ Prefixed(r) : row[c] = l[c]
    /\ \A c \in DOMAIN r \ Prefixed(r) :
         row[IF c \in DOMAIN l THEN RightName(c) ELSE c] = r[c]
=============================================================================
