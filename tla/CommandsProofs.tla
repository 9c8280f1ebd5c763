--------------------------- MODULE CommandsProofs ---------------------------
(***************************************************************************)
(* Theorems about Commands, for any processes, commands and files, and     *)
(* however often they fail and are run again.                              *)
(***************************************************************************)
EXTENDS CommandsInvariant, Counting

-----------------------------------------------------------------------------
(* How a file is split.                                                    *)

(* A bucket holds rows of the file: its k-th row is the row at b + (k-1)n. *)
LEMMA BucketOfRows ==
  ASSUME NEW rows \in Seq(Rows), NEW n \in Nat, n > 0, NEW b \in 1 .. n
  PROVE  /\ Bucket(rows, n, b) \in Seq(Rows)
         /\ \A k \in Nat \ {0} :
              k \in DOMAIN Bucket(rows, n, b) <=> b + (k - 1) * n <= Len(rows)
         /\ \A k \in DOMAIN Bucket(rows, n, b) :
              /\ k \in Nat \ {0} /\ b + (k - 1) * n \in DOMAIN rows
              /\ Bucket(rows, n, b)[k] = rows[b + (k - 1) * n]
<1> DEFINE m == Len(rows) + n - b
           last == m \div n
<1>1. Len(rows) \in Nat /\ DOMAIN rows = 1 .. Len(rows) /\ m \in Nat
  OBVIOUS
<1>2. last \in Nat
  BY <1>1, DivisionIsExact
<1>3. ASSUME NEW k \in Nat \ {0}
      PROVE  /\ k <= last <=> b + (k - 1) * n <= Len(rows)
             /\ b + (k - 1) * n \in Nat \ {0}
  <2>1. k <= last <=> k * n <= m
    BY <1>1, DivisionBounds
  <2>2. (k - 1) * n = k * n - n /\ k * n \in Nat /\ (k - 1) * n \in Nat
    OBVIOUS
  <2> QED BY <1>1, <2>1, <2>2
<1>4. DOMAIN Bucket(rows, n, b) = 1 .. last
  BY DEF Bucket
<1>5. \A k \in 1 .. last : Bucket(rows, n, b)[k] = rows[b + (k - 1) * n]
  BY DEF Bucket
<1> HIDE DEF last, m
<1>6. \A k \in 1 .. last : k \in Nat \ {0} /\ b + (k - 1) * n \in DOMAIN rows
  BY <1>1, <1>2, <1>3
<1>7. Bucket(rows, n, b) \in [1 .. last -> Rows]
  <2>1. \A k \in 1 .. last : rows[b + (k - 1) * n] \in Rows
    BY <1>6
  <2> QED BY <2>1 DEF Bucket, last, m
<1>8. Bucket(rows, n, b) \in Seq(Rows)
  BY <1>2, <1>7
<1>9. \A k \in Nat \ {0} : k \in 1 .. last <=> b + (k - 1) * n <= Len(rows)
  BY <1>2, <1>3
<1> QED BY <1>4, <1>5, <1>6, <1>8, <1>9

(* The shards are the buckets that are not empty, in their order.          *)
NonEmptyBuckets(rows, n) == {b \in 1 .. n : ShardRows(rows, n)[b] # <<>>}

LEMMA SplitsIntoBuckets ==
  ASSUME NEW rows \in Seq(Rows), NEW n \in Nat, n > 0
  PROVE  /\ NonEmptyShards(rows, n) \in Seq(Seq(Rows))
         /\ Len(NonEmptyShards(rows, n)) <= n
         /\ \A i \in DOMAIN NonEmptyShards(rows, n) :
              /\ NthOf(NonEmptyBuckets(rows, n), i) \in 1 .. n
              /\ NonEmptyShards(rows, n)[i]
                   = Bucket(rows, n, NthOf(NonEmptyBuckets(rows, n), i))
              /\ NonEmptyShards(rows, n)[i] # <<>>
         /\ \A i, j \in DOMAIN NonEmptyShards(rows, n) :
              NthOf(NonEmptyBuckets(rows, n), i) = NthOf(NonEmptyBuckets(rows, n), j) => i = j
         /\ \A b \in NonEmptyBuckets(rows, n) :
              \E i \in DOMAIN NonEmptyShards(rows, n) : NthOf(NonEmptyBuckets(rows, n), i) = b
<1> DEFINE s == ShardRows(rows, n)
           K == NonEmptyBuckets(rows, n)
           sp == NonEmptyShards(rows, n)
<1>1. s \in Seq(Seq(Rows)) /\ Len(s) = n /\ DOMAIN s = 1 .. n
  <2>1. \A b \in 1 .. n : Bucket(rows, n, b) \in Seq(Rows)
    BY BucketOfRows
  <2>2. s \in [1 .. n -> Seq(Rows)]
    BY <2>1 DEF ShardRows
  <2> QED BY <2>2
<1>2. K \in SUBSET DOMAIN s /\ K \in SUBSET 1 .. n
  BY <1>1 DEF NonEmptyBuckets
<1>3. sp = Kept(s, K)
  BY DEF NonEmptyShards, NonEmptyBuckets
<1>4. \A b \in K : s[b] = Bucket(rows, n, b) /\ s[b] # <<>>
  BY DEF NonEmptyBuckets, ShardRows
<1> HIDE DEF s, K, sp
<1>5. /\ IsFiniteSet(K) /\ K \in SUBSET Nat /\ sp \in Seq(Seq(Rows))
      /\ Len(sp) = Cardinality(K) /\ Cardinality(K) <= n
  BY <1>1, <1>2, <1>3, KeptIsASequence
<1>6. /\ \A k \in 1 .. Cardinality(K) : NthOf(K, k) \in K
      /\ \A k, l \in 1 .. Cardinality(K) : k < l => NthOf(K, k) < NthOf(K, l)
      /\ \A i \in K : \E k \in 1 .. Cardinality(K) : NthOf(K, k) = i
      /\ Cardinality(K) \in Nat
  BY <1>5, NthOfCounts
<1>7. DOMAIN sp = 1 .. Cardinality(K)
  BY <1>5
<1>8. \A i \in DOMAIN sp : sp[i] = s[NthOf(K, i)]
  BY <1>3, <1>7 DEF Kept
<1>9. ASSUME NEW i \in DOMAIN sp, NEW j \in DOMAIN sp, NthOf(K, i) = NthOf(K, j)
      PROVE  i = j
  <2>1. NthOf(K, i) \in Nat
    BY <1>5, <1>6, <1>7
  <2>2. ~(i < j) /\ ~(j < i)
    BY <1>6, <1>7, <1>9, <2>1
  <2>3. i \in Nat /\ j \in Nat
    BY <1>6, <1>7
  <2> QED BY <2>2, <2>3
<1>10. \A i \in DOMAIN sp : NthOf(K, i) \in K
  BY <1>6, <1>7
<1>11. \A i \in DOMAIN sp : /\ NthOf(K, i) \in 1 .. n
                           /\ sp[i] = Bucket(rows, n, NthOf(K, i)) /\ sp[i] # <<>>
  BY <1>2, <1>4, <1>8, <1>10
<1>12. \A b \in K : \E i \in DOMAIN sp : NthOf(K, i) = b
  BY <1>6, <1>7
<1> QED BY <1>5, <1>9, <1>11, <1>12 DEF sp, K

(* The dataset that a file makes.                                          *)
Dataset(rows, n) ==
  [i \in DOMAIN NonEmptyShards(rows, n) |-> Shard(NonEmptyShards(rows, n)[i])]

LEMMA DatasetOfShards ==
  ASSUME NEW rows \in Seq(Rows), NEW n \in Nat, n > 0
  PROVE  /\ Dataset(rows, n) \in Seq([cid : Seq(Rows), rows : Nat])
         /\ Len(Dataset(rows, n)) = Len(NonEmptyShards(rows, n))
         /\ DOMAIN Dataset(rows, n) = DOMAIN NonEmptyShards(rows, n)
         /\ \A i \in DOMAIN Dataset(rows, n) :
              /\ Dataset(rows, n)[i] = Shard(NonEmptyShards(rows, n)[i])
              /\ Dataset(rows, n)[i].cid = NonEmptyShards(rows, n)[i]
              /\ Dataset(rows, n)[i].rows = Len(NonEmptyShards(rows, n)[i])
<1> DEFINE sp == NonEmptyShards(rows, n)
           ds == Dataset(rows, n)
<1>1. sp \in Seq(Seq(Rows))
  BY SplitsIntoBuckets
<1>2. ds = [i \in DOMAIN sp |-> Shard(sp[i])]
  BY DEF Dataset
<1> HIDE DEF sp, ds
<1>3. Len(sp) \in Nat /\ DOMAIN sp = 1 .. Len(sp)
  BY <1>1
<1> DEFINE T == [cid : Seq(Rows), rows : Nat]
<1>4. \A i \in DOMAIN sp : Shard(sp[i]) \in T
  BY <1>1 DEF Shard
<1> HIDE DEF T
<1>5. ds \in Seq(T) /\ Len(ds) = Len(sp) /\ DOMAIN ds = DOMAIN sp
  BY <1>2, <1>3, <1>4
<1>6. \A i \in DOMAIN ds : ds[i] = Shard(sp[i])
  BY <1>2, <1>5
<1>7. \A i \in DOMAIN ds : ds[i].cid = sp[i] /\ ds[i].rows = Len(sp[i])
  BY <1>6 DEF Shard
<1> QED BY <1>5, <1>6, <1>7 DEF sp, ds, T

(* Where the k-th row of the i-th shard was in the file.                   *)
Origin(rows, n, c) == NthOf(NonEmptyBuckets(rows, n), c[1]) + (c[2] - 1) * n

(* Every row of the file is in exactly one place of the dataset.           *)
LEMMA SplitIsPaired ==
  ASSUME NEW rows \in Seq(Rows), NEW n \in Nat, n > 0
  PROVE  /\ \A c \in Cells(Dataset(rows, n)) :
              /\ Origin(rows, n, c) \in DOMAIN rows
              /\ Dataset(rows, n)[c[1]].cid[c[2]] = rows[Origin(rows, n, c)]
         /\ \A c, d \in Cells(Dataset(rows, n)) :
              Origin(rows, n, c) = Origin(rows, n, d) => c = d
         /\ \A x \in DOMAIN rows :
              \E c \in Cells(Dataset(rows, n)) : Origin(rows, n, c) = x
<1> DEFINE K == NonEmptyBuckets(rows, n)
           ds == Dataset(rows, n)
<1>1. /\ DOMAIN ds = DOMAIN NonEmptyShards(rows, n)
      /\ \A i \in DOMAIN ds : ds[i].cid = NonEmptyShards(rows, n)[i]
  BY DatasetOfShards
<1>2. \A i \in DOMAIN ds : NthOf(K, i) \in 1 .. n /\ ds[i].cid = Bucket(rows, n, NthOf(K, i))
  BY <1>1, SplitsIntoBuckets
<1>3. \A i, j \in DOMAIN ds : NthOf(K, i) = NthOf(K, j) => i = j
  BY <1>1, SplitsIntoBuckets
<1>4. \A b \in K : \E i \in DOMAIN ds : NthOf(K, i) = b
  BY <1>1, SplitsIntoBuckets
<1>5. \A c : c \in Cells(ds) <=> /\ c = <<c[1], c[2]>> /\ c[1] \in DOMAIN ds
                                 /\ c[2] \in DOMAIN ds[c[1]].cid
  BY DEF Cells
<1>6. Len(rows) \in Nat /\ DOMAIN rows = 1 .. Len(rows)
  OBVIOUS
<1>7. \A b \in 1 .. n : b \in K <=> Bucket(rows, n, b) # <<>>
  BY DEF NonEmptyBuckets, ShardRows
<1> HIDE DEF K, ds
<1>8. ASSUME NEW c \in Cells(ds)
      PROVE  /\ c[1] \in DOMAIN ds /\ NthOf(K, c[1]) \in 1 .. n
             /\ c[2] \in Nat \ {0} /\ c[2] - 1 \in Nat
             /\ NthOf(K, c[1]) + (c[2] - 1) * n \in DOMAIN rows
             /\ ds[c[1]].cid[c[2]] = rows[NthOf(K, c[1]) + (c[2] - 1) * n]
  <2>1. c[1] \in DOMAIN ds /\ c[2] \in DOMAIN ds[c[1]].cid
    BY <1>5
  <2>2. NthOf(K, c[1]) \in 1 .. n /\ ds[c[1]].cid = Bucket(rows, n, NthOf(K, c[1]))
    BY <1>2, <2>1
  <2> DEFINE b == NthOf(K, c[1])  k == c[2]
  <2> HIDE DEF b, k
  <2>3. b \in 1 .. n /\ k \in DOMAIN Bucket(rows, n, b)
    BY <2>1, <2>2 DEF b, k
  <2>4. /\ k \in Nat \ {0} /\ b + (k - 1) * n \in DOMAIN rows
        /\ Bucket(rows, n, b)[k] = rows[b + (k - 1) * n]
    BY <2>3, BucketOfRows
  <2> QED BY <2>1, <2>2, <2>4 DEF b, k
<1>9. ASSUME NEW c \in Cells(ds), NEW d \in Cells(ds),
             NthOf(K, c[1]) + (c[2] - 1) * n = NthOf(K, d[1]) + (d[2] - 1) * n
      PROVE  c = d
  <2> DEFINE b1 == NthOf(K, c[1])  b2 == NthOf(K, d[1])  k1 == c[2] - 1  k2 == d[2] - 1
  <2>1. b1 \in 1 .. n /\ b2 \in 1 .. n /\ k1 \in Nat /\ k2 \in Nat
    BY <1>8
  <2>2. b1 + k1 * n = b2 + k2 * n
    BY <1>9
  <2>6. c[2] = k1 + 1 /\ d[2] = k2 + 1
    <3>1. c[2] \in Nat /\ d[2] \in Nat
      BY <1>8
    <3>2. \A x \in Nat : x = (x - 1) + 1
      OBVIOUS
    <3> QED BY <3>1, <3>2
  <2> HIDE DEF b1, b2, k1, k2
  <2>3. b1 = b2 /\ k1 = k2
    BY <2>1, <2>2, OneRemainder
  <2>4. c[2] = d[2]
    BY <2>3, <2>6
  <2>5. c[1] = d[1]
    BY <1>3, <1>8, <2>3 DEF b1, b2
  <2>7. c = <<c[1], c[2]>> /\ d = <<d[1], d[2]>>
    BY <1>5
  <2> QED BY <2>4, <2>5, <2>7
<1>10. ASSUME NEW x \in DOMAIN rows
       PROVE  \E c \in Cells(ds) : NthOf(K, c[1]) + (c[2] - 1) * n = x
  <2>1. x - 1 \in Nat /\ x \in Nat
    BY <1>6
  <2>2. PICK q \in Nat, r \in 0 .. (n - 1) : x - 1 = n * q + r
    BY <2>1, DivisionIsExact
  <2>3. r + 1 \in 1 .. n /\ (q + 1) - 1 = q /\ n * q = q * n /\ q + 1 \in Nat \ {0}
    BY <2>2
  <2>4. (r + 1) + ((q + 1) - 1) * n = x
    BY <2>1, <2>2, <2>3
  <2>5. q + 1 \in DOMAIN Bucket(rows, n, r + 1)
    <3>1. x <= Len(rows)
      BY <1>6
    <3> DEFINE b == r + 1  k == q + 1
    <3>2. b \in 1 .. n /\ k \in Nat \ {0} /\ b + (k - 1) * n <= Len(rows)
      BY <2>3, <2>4, <3>1
    <3> HIDE DEF b, k
    <3>3. k \in DOMAIN Bucket(rows, n, b)
      BY <3>2, BucketOfRows
    <3> QED BY <3>3 DEF b, k
  <2>6. r + 1 \in K
    <3>1. Bucket(rows, n, r + 1) # <<>>
      BY <2>5
    <3> QED BY <1>7, <2>3, <3>1
  <2>7. PICK i \in DOMAIN ds : NthOf(K, i) = r + 1
    BY <1>4, <2>6
  <2>8. <<i, q + 1>> \in Cells(ds)
    BY <1>2, <1>5, <2>5, <2>7
  <2> QED BY <2>4, <2>7, <2>8
<1> QED BY <1>8, <1>9, <1>10 DEF Origin, K, ds

(* So the dataset is the file, however it is split.                        *)
LEMMA DatasetIsTheFile ==
  ASSUME NEW rows \in Seq(Rows), NEW n \in Nat, n > 0
  PROVE  /\ IsFiniteSet(Cells(Dataset(rows, n)))
         /\ \A r \in Rows : Holds(Dataset(rows, n), r) = Occurrences(rows, r)
         /\ TotalRows(Dataset(rows, n)) = Len(rows)
         /\ Len(Dataset(rows, n)) <= n
         /\ \A i \in DOMAIN Dataset(rows, n) : Dataset(rows, n)[i].cid # <<>>
<1> DEFINE ds == Dataset(rows, n)
           C == Cells(ds)
           g == [c \in C |-> Origin(rows, n, c)]
           X == 1 .. Len(rows)
<1>1. /\ ds \in Seq([cid : Seq(Rows), rows : Nat])
      /\ \A i \in DOMAIN ds : ds[i].rows = Len(ds[i].cid)
      /\ \A i \in DOMAIN ds : ds[i].cid # <<>> /\ ds[i].cid \in Seq(Rows)
      /\ Len(ds) <= n
  <2> DEFINE sp == NonEmptyShards(rows, n)
  <2>1. /\ ds \in Seq([cid : Seq(Rows), rows : Nat])
        /\ Len(ds) = Len(sp) /\ DOMAIN ds = DOMAIN sp
        /\ \A i \in DOMAIN ds : ds[i].cid = sp[i] /\ ds[i].rows = Len(sp[i])
    BY DatasetOfShards
  <2>2. /\ sp \in Seq(Seq(Rows)) /\ Len(sp) <= n
        /\ \A i \in DOMAIN sp : sp[i] # <<>>
    BY SplitsIntoBuckets
  <2> HIDE DEF ds, sp
  <2>3. \A i \in DOMAIN sp : sp[i] \in Seq(Rows)
    BY <2>2
  <2> QED BY <2>1, <2>2, <2>3
<1>2. /\ \A c \in C : Origin(rows, n, c) \in DOMAIN rows
      /\ \A c \in C : ds[c[1]].cid[c[2]] = rows[Origin(rows, n, c)]
      /\ \A c, d \in C : Origin(rows, n, c) = Origin(rows, n, d) => c = d
      /\ \A x \in DOMAIN rows : \E c \in C : Origin(rows, n, c) = x
  BY SplitIsPaired
<1>3. Len(rows) \in Nat /\ DOMAIN rows = X
  OBVIOUS
<1>4. IsFiniteSet(X) /\ Cardinality(X) = Len(rows)
  BY <1>3, IndicesAreFinite
<1>5. /\ DOMAIN ds = 1 .. Len(ds) /\ Len(ds) \in Nat
      /\ \A i \in DOMAIN ds : DOMAIN ds[i].cid = 1 .. ds[i].rows /\ ds[i].rows \in Nat
  <2> DEFINE T == [cid : Seq(Rows), rows : Nat]
  <2>1. ds \in Seq(T)
    BY <1>1
  <2> HIDE DEF ds, T
  <2>2. DOMAIN ds = 1 .. Len(ds) /\ Len(ds) \in Nat
    BY <2>1
  <2>3. ASSUME NEW i \in DOMAIN ds
        PROVE  DOMAIN ds[i].cid = 1 .. ds[i].rows /\ ds[i].rows \in Nat
    <3> DEFINE q == ds[i].cid
    <3>1. q \in Seq(Rows) /\ ds[i].rows = Len(q)
      BY <1>1
    <3> HIDE DEF q
    <3>2. DOMAIN q = 1 .. Len(q) /\ Len(q) \in Nat
      BY <3>1
    <3> QED BY <3>1, <3>2 DEF q
  <2> QED BY <2>2, <2>3
<1>6. C = Area([i \in DOMAIN ds |-> ds[i].rows], DOMAIN ds)
  <2> HIDE DEF ds
  <2> DEFINE F == [i \in DOMAIN ds |-> ds[i].rows]
  <2>1. ASSUME NEW c PROVE c \in C <=> c \in Area(F, DOMAIN ds)
    <3>1. c \in C <=> \E i \in DOMAIN ds : \E k \in DOMAIN ds[i].cid : c = <<i, k>>
      BY DEF Cells
    <3>2. c \in Area(F, DOMAIN ds)
            <=> \E i \in DOMAIN ds : \E k \in Nat : c = <<i, k>> /\ k \in 1 .. ds[i].rows
      BY DEF Area
    <3>3. \A i \in DOMAIN ds : \A k : k \in DOMAIN ds[i].cid <=> k \in Nat /\ k \in 1 .. ds[i].rows
      BY <1>5
    <3> QED BY <3>1, <3>2, <3>3
  <2> QED BY <2>1
<1>7. \A i \in DOMAIN ds : [j \in DOMAIN ds |-> ds[j].rows][i] \in Nat
  BY <1>5
<1>8. IsFiniteSet(DOMAIN ds)
  BY <1>5, IndicesAreFinite
<1> HIDE DEF ds, C
<1>9. g \in Injection(C, X) /\ g \in [C -> X]
  BY <1>2, <1>3 DEF Injection, IsInjective
<1> HIDE DEF X
<1>10. IsFiniteSet(C)
  <2> HIDE DEF g
  <2> QED BY <1>4, <1>9, FS_Injection
<1>11. Cardinality(C) = Len(rows)
  <2>1. /\ \A c, d \in C : g[c] = g[d] => c = d
        /\ \A x \in X : \E c \in C : g[c] = x
    BY <1>2, <1>3
  <2> HIDE DEF g
  <2>2. Cardinality(X) = Cardinality(C)
    BY <1>9, <1>10, <2>1, PairedOff
  <2> QED BY <1>4, <2>2
<1>12. TotalRows(ds) = Len(rows)
  <2> DEFINE F == [i \in DOMAIN ds |-> ds[i].rows]  D == DOMAIN ds
  <2>1. TotalRows(ds) = SumFunctionOnSet(F, D)
    BY DEF TotalRows
  <2>2. IsFiniteSet(D) /\ (\A i \in D : F[i] \in Nat) /\ C = Area(F, D)
    BY <1>6, <1>7, <1>8
  <2> HIDE DEF F, D
  <2>3. SumFunctionOnSet(F, D) = Cardinality(Area(F, D))
    BY <2>2, SumIsArea
  <2> QED BY <1>11, <2>1, <2>2, <2>3
<1>13. ASSUME NEW r \in Rows
       PROVE  Holds(ds, r) = Occurrences(rows, r)
  <2> DEFINE S == {c \in C : ds[c[1]].cid[c[2]] = r}
             O == {x \in DOMAIN rows : rows[x] = r}
             h == [c \in S |-> Origin(rows, n, c)]
  <2>1. h \in [S -> O] /\ \A c, d \in S : h[c] = h[d] => c = d
    BY <1>2
  <2>2. \A x \in O : \E c \in S : h[c] = x
    BY <1>2
  <2>3. S \in SUBSET C
    OBVIOUS
  <2>4. Holds(ds, r) = Cardinality(S) /\ Occurrences(rows, r) = Cardinality(O)
    BY DEF Holds, Occurrences, C
  <2> HIDE DEF S, O, h
  <2>5. IsFiniteSet(S)
    BY <1>10, <2>3, FS_Subset
  <2> QED BY <2>1, <2>2, <2>4, <2>5, PairedOff
<1> QED BY <1>1, <1>10, <1>12, <1>13 DEF ds, C

-----------------------------------------------------------------------------
(* The invariant.                                                          *)

LEMMA AddIsTyped ==
  ASSUME Commanded, NEW p \in Processes, asked[p].kind = "add"
  PROVE  asked[p].file \in Seq(Rows) /\ asked[p].shards \in Nat
  BY CommandsAssumption DEF Commanded

(* A dataset that was added is a file, and stays added.                    *)
LEMMA AddedIsAFile ==
  ASSUME Commanded, NEW ds, NEW n, AddedAs(ds, n)
  PROVE  \E a \in Adds(n) :
           /\ pc[a] = "done" /\ asked[a].file \in Seq(Rows)
           /\ asked[a].shards \in Nat /\ asked[a].shards > 0
           /\ ds = Dataset(asked[a].file, asked[a].shards)
<1>1. PICK a \in Adds(n) : pc[a] = "done" /\ asked[a].shards > 0 /\ ds = DatasetOf(a)
  BY DEF AddedAs
<1>2. a \in Processes /\ asked[a].kind = "add"
  BY DEF Adds
<1>3. asked[a].file \in Seq(Rows) /\ asked[a].shards \in Nat
  BY <1>2, AddIsTyped
<1>4. DatasetOf(a) = Dataset(asked[a].file, asked[a].shards)
  BY DEF DatasetOf, Dataset, Split
<1> QED BY <1>1, <1>3, <1>4

LEMMA AddedIsTyped ==
  ASSUME Commanded, NEW ds, NEW n, AddedAs(ds, n)
  PROVE  /\ ds \in Seq([cid : Seq(Rows), rows : Nat])
         /\ IsFiniteSet(Cells(ds))
         /\ \A i \in DOMAIN ds : ds[i].cid \in Seq(Rows)
<1>1. PICK f \in Seq(Rows), k \in Nat : k > 0 /\ ds = Dataset(f, k)
  BY AddedIsAFile
<1> DEFINE T == [cid : Seq(Rows), rows : Nat]
<1>2. ds \in Seq(T)
  BY <1>1, DatasetOfShards
<1>3. IsFiniteSet(Cells(ds))
  BY <1>1, DatasetIsTheFile
<1>4. \A x \in T : x.cid \in Seq(Rows)
  OBVIOUS
<1> HIDE DEF T
<1>5. \A i \in DOMAIN ds : ds[i] \in T
  BY <1>2
<1> QED BY <1>2, <1>3, <1>4, <1>5 DEF T

(* A command that is done stays done.                                      *)
LEMMA DoneStays ==
  ASSUME Commanded, NEW p \in Processes, Step(p)
  PROVE  /\ asked' = asked
         /\ \A a \in Processes : pc[a] = "done" => pc'[a] = "done"
<1>1. asked' = asked /\ pc[p] # "done" /\ \A a \in Processes \ {p} : pc'[a] = pc[a]
  BY DEF Step, ReadFile, RefuseFile, Upload, UploadFails, Register, RemoveDataset, Load,
         NotFound, Discover, Fetch, Answer, Fail, RunAgain, Goto, Commanded
<1> QED BY <1>1

LEMMA AddedStays ==
  ASSUME asked' = asked, \A a \in Processes : pc[a] = "done" => pc'[a] = "done",
         NEW ds, NEW n, AddedAs(ds, n)
  PROVE  \E a \in Adds(n)' :
           pc'[a] = "done" /\ asked'[a].shards > 0 /\ ds = DatasetOf(a)'
<1>1. PICK a \in Adds(n) : pc[a] = "done" /\ asked[a].shards > 0 /\ ds = DatasetOf(a)
  BY DEF AddedAs
<1>2. a \in Processes /\ a \in Adds(n)'
  BY DEF Adds
<1>3. DatasetOf(a)' = DatasetOf(a)
  BY DEF DatasetOf, Split
<1> QED BY <1>1, <1>2, <1>3

(* A process that is left alone keeps its invariant.                       *)
LEMMA LeftAlone ==
  ASSUME NEW q \in Processes, ProcessInv(q), asked' = asked,
         \A a \in Processes : pc[a] = "done" => pc'[a] = "done",
         pc'[q] = pc[q], todo'[q] = todo[q], shards'[q] = shards[q], got'[q] = got[q]
  PROVE  ProcessInv(q)'
<1>1. Split(q)' = Split(q)
  BY DEF Split
<1>2. StartsEmpty(q)'
  BY DEF ProcessInv, StartsEmpty
<1>3. UploadsInOrder(q)'
  BY <1>1 DEF ProcessInv, UploadsInOrder
<1>4. HasAVersion(q)'
  <2>1. AddedAs(shards[q], asked[q].name.name) =>
          \E a \in Adds(asked[q].name.name)' :
            pc'[a] = "done" /\ asked'[a].shards > 0 /\ shards[q] = DatasetOf(a)'
    BY AddedStays
  <2> QED BY <2>1 DEF ProcessInv, HasAVersion, AddedAs
<1>5. FetchesInOrder(q)'
  <2>1. Fetched(q)' = Fetched(q) /\ FetchedCells(q)' = FetchedCells(q)
    BY DEF Fetched, FetchedCells, Cells
  <2>2. FetchesInOrder(q) BY DEF ProcessInv
  <2> QED BY <2>1, <2>2 DEF FetchesInOrder, Occurrences
<1> QED BY <1>2, <1>3, <1>4, <1>5 DEF ProcessInv

LEMMA InitIInv == Init => IInv
<1> SUFFICES ASSUME Init PROVE IInv
  OBVIOUS
<1>1. Commanded /\ CatalogIsAdded
  BY DEF Init, Commanded, CatalogIsAdded
<1>2. \A p \in Processes : ProcessInv(p)
  BY DEF Init, ProcessInv, StartsEmpty, UploadsInOrder, HasAVersion, FetchesInOrder
<1> QED BY <1>1, <1>2 DEF IInv

-----------------------------------------------------------------------------
(* What a step does to the process that takes it.                          *)

(* Steps after which nothing is claimed of the process.                    *)
LEMMA IdleStep ==
  ASSUME Commanded, NEW p \in Processes, ProcessInv(p),
         RefuseFile(p) \/ UploadFails(p) \/ NotFound(p) \/ Fail(p) \/ RunAgain(p)
           \/ RemoveDataset(p) \/ Register(p)
  PROVE  ProcessInv(p)'
<1>1. CASE RefuseFile(p) \/ UploadFails(p) \/ NotFound(p) \/ Fail(p)
  <2>1. pc'[p] = "failed"
    BY <1>1 DEF RefuseFile, UploadFails, NotFound, Fail, Goto, Commanded
  <2> QED BY <2>1 DEF ProcessInv, StartsEmpty, UploadsInOrder, HasAVersion, FetchesInOrder
<1>2. CASE RunAgain(p)
  <2>1. pc'[p] = "start" /\ shards'[p] = <<>> /\ got'[p] = <<>>
    BY <1>2 DEF RunAgain, Goto, Commanded
  <2> QED BY <2>1 DEF ProcessInv, StartsEmpty, UploadsInOrder, HasAVersion, FetchesInOrder
<1>3. CASE RemoveDataset(p) \/ Register(p)
  <2>1. pc'[p] = "done" /\ asked'[p].kind # "run"
    BY <1>3 DEF RemoveDataset, Register, Goto, Commanded, ProcessInv, UploadsInOrder
  <2> QED BY <2>1 DEF ProcessInv, StartsEmpty, UploadsInOrder, HasAVersion, FetchesInOrder
<1> QED BY <1>1, <1>2, <1>3

LEMMA ReadFileStep ==
  ASSUME Commanded, NEW p \in Processes, ProcessInv(p), ReadFile(p)
  PROVE  ProcessInv(p)'
<1> DEFINE T == [cid : Seq(Rows), rows : Nat]
           S == Seq(Rows)
<1>1. /\ asked' = asked /\ pc'[p] = "upload" /\ todo'[p] = Split(p)
      /\ shards'[p] = <<>> /\ asked[p].kind = "add" /\ asked[p].name.legal
      /\ asked[p].shards > 0
  BY DEF ReadFile, Split, ValidName, Goto, Commanded, ProcessInv, StartsEmpty
<1>2. Split(p)' = Split(p)
  BY <1>1 DEF Split
<1>3. Split(p) \in Seq(S)
  BY <1>1, AddIsTyped, SplitsIntoBuckets DEF Split
<1>4. <<>> \in Seq(T) /\ Len(<<>>) = 0 /\ DOMAIN <<>> = {}
  OBVIOUS
<1> HIDE DEF T, S
<1>5. Len(Split(p)) \in Nat /\ DOMAIN Split(p) = 1 .. Len(Split(p))
  BY <1>3
<1>6. \A i \in DOMAIN Split(p) : Split(p)[i] = Split(p)[0 + i]
  BY <1>5
<1>7. 0 + Len(Split(p)) = Len(Split(p))
  BY <1>5
<1>8. UploadsInOrder(p)'
  BY <1>1, <1>2, <1>3, <1>4, <1>6, <1>7 DEF UploadsInOrder, T, S
<1> QED BY <1>1, <1>8 DEF ProcessInv, StartsEmpty, HasAVersion, FetchesInOrder

LEMMA UploadKeepsTrack ==
  ASSUME Commanded, NEW p \in Processes, ProcessInv(p), Upload(p)
  PROVE  ProcessInv(p)'
<1> DEFINE T == [cid : Seq(Rows), rows : Nat]
           S == Seq(Rows)
           done == shards[p]
           left == todo[p]
           split == Split(p)
<1>1. /\ asked' = asked /\ pc[p] = "upload" /\ pc'[p] = "upload"
      /\ left # <<>> /\ shards'[p] = Append(done, Shard(Head(left))) /\ todo'[p] = Tail(left)
  BY DEF Upload, Commanded
<1>2. /\ asked[p].kind = "add" /\ asked[p].name.legal /\ asked[p].shards > 0
      /\ left \in Seq(S) /\ done \in Seq(T)
      /\ Len(done) + Len(left) = Len(split)
      /\ \A i \in DOMAIN done : done[i] = Shard(split[i])
      /\ \A i \in DOMAIN left : left[i] = split[Len(done) + i]
  BY <1>1 DEF ProcessInv, UploadsInOrder
<1>3. Split(p)' = split
  BY <1>1 DEF Split
<1>4. \A q \in S : Shard(q) \in T
  BY DEF Shard
<1> HIDE DEF T, S, done, left, split
<1>5. /\ Len(done) \in Nat /\ DOMAIN done = 1 .. Len(done)
      /\ Len(left) \in Nat \ {0} /\ DOMAIN left = 1 .. Len(left)
      /\ Head(left) = left[1] /\ Head(left) \in S
      /\ Tail(left) \in Seq(S) /\ Len(Tail(left)) = Len(left) - 1
      /\ DOMAIN Tail(left) = 1 .. Len(left) - 1
      /\ \A i \in 1 .. Len(left) - 1 : Tail(left)[i] = left[i + 1]
  BY <1>1, <1>2
<1>6. /\ shards'[p] \in Seq(T) /\ Len(shards'[p]) = Len(done) + 1
      /\ DOMAIN shards'[p] = 1 .. Len(done) + 1
      /\ \A i \in 1 .. Len(done) : shards'[p][i] = done[i]
      /\ shards'[p][Len(done) + 1] = Shard(Head(left))
  <2> DEFINE x == Shard(Head(left))
  <2>1. x \in T
    BY <1>4, <1>5
  <2> HIDE DEF x
  <2>2. /\ Append(done, x) \in Seq(T) /\ Len(Append(done, x)) = Len(done) + 1
        /\ DOMAIN Append(done, x) = 1 .. Len(done) + 1
        /\ \A i \in 1 .. Len(done) : Append(done, x)[i] = done[i]
        /\ Append(done, x)[Len(done) + 1] = x
    BY <1>2, <1>5, <2>1
  <2> QED BY <1>1, <2>2 DEF x
<1>7. ASSUME NEW i \in DOMAIN shards'[p] PROVE shards'[p][i] = Shard(split[i])
  <2>1. CASE i \in 1 .. Len(done)
    BY <1>2, <1>5, <1>6, <2>1
  <2>2. CASE i = Len(done) + 1
    BY <1>2, <1>5, <1>6, <2>2
  <2> QED BY <1>5, <1>6, <2>1, <2>2
<1>8. ASSUME NEW i \in DOMAIN todo'[p] PROVE todo'[p][i] = split[Len(shards'[p]) + i]
  <2>1. i \in 1 .. Len(left) - 1 /\ i + 1 \in DOMAIN left
    BY <1>1, <1>5
  <2>2. todo'[p][i] = split[Len(done) + (i + 1)]
    BY <1>1, <1>2, <1>5, <2>1
  <2>3. Len(done) + (i + 1) = Len(shards'[p]) + i
    BY <1>5, <1>6, <2>1
  <2> QED BY <2>2, <2>3
<1>9. Len(shards'[p]) + Len(todo'[p]) = Len(split) /\ todo'[p] \in Seq(S)
  BY <1>1, <1>2, <1>5, <1>6
<1>10. UploadsInOrder(p)'
  <2>1. asked'[p].kind = "add" /\ asked'[p].name.legal /\ asked'[p].shards > 0
    BY <1>1, <1>2
  <2> QED BY <1>3, <1>6, <1>7, <1>8, <1>9, <2>1 DEF UploadsInOrder, T, S
<1> QED BY <1>1, <1>2, <1>10 DEF ProcessInv, StartsEmpty, HasAVersion, FetchesInOrder

LEMMA LoadStep ==
  ASSUME Commanded, CatalogIsAdded, NEW p \in Processes, ProcessInv(p), Load(p)
  PROVE  ProcessInv(p)'
<1> DEFINE n == asked[p].name.name
<1>1. /\ asked' = asked /\ pc[p] = "start" /\ catalog[n] # Absent
      /\ shards'[p] = catalog[n] /\ got' = got
      /\ pc'[p] = IF asked[p].kind = "show" THEN "done" ELSE "discover"
      /\ asked[p].kind \in {"run", "show"}
      /\ \A a \in Processes : pc[a] = "done" => pc'[a] = "done"
  BY DEF Load, Found, Goto, Commanded
<1>2. n \in Names
  BY CommandsAssumption DEF Commanded
<1>3. AddedAs(shards[p], n)'
  <2>1. AddedAs(catalog[n], n)
    BY <1>1, <1>2 DEF CatalogIsAdded
  <2>2. \E a \in Adds(n)' :
          pc'[a] = "done" /\ asked'[a].shards > 0 /\ catalog[n] = DatasetOf(a)'
    BY <1>1, <2>1, AddedStays
  <2> QED BY <1>1, <2>2 DEF AddedAs
<1>4. HasAVersion(p)'
  BY <1>1, <1>3 DEF HasAVersion
<1>5. got'[p] = <<>>
  BY <1>1 DEF ProcessInv, StartsEmpty
<1> QED BY <1>1, <1>4, <1>5 DEF ProcessInv, StartsEmpty, UploadsInOrder, FetchesInOrder

LEMMA DiscoverStep ==
  ASSUME Commanded, NEW p \in Processes, ProcessInv(p), Discover(p)
  PROVE  ProcessInv(p)'
<1> DEFINE ds == shards[p]
           n == asked[p].name.name
           S == Seq(Rows)
<1>1. /\ asked' = asked /\ pc[p] = "discover" /\ pc'[p] \in {"failed", "fetch"}
      /\ shards' = shards /\ got' = got /\ todo'[p] = [i \in DOMAIN ds |-> ds[i].cid]
      /\ \A a \in Processes : pc[a] = "done" => pc'[a] = "done"
  BY DEF Discover, Goto, Commanded
<1>2. asked[p].kind = "run" /\ AddedAs(ds, n) /\ got[p] = <<>>
  BY <1>1 DEF ProcessInv, HasAVersion, StartsEmpty
<1>3. HasAVersion(p)'
  <2>1. \E a \in Adds(n)' :
          pc'[a] = "done" /\ asked'[a].shards > 0 /\ ds = DatasetOf(a)'
    BY <1>1, <1>2, AddedStays
  <2> QED BY <1>1, <1>2, <2>1 DEF HasAVersion, AddedAs
<1>4. /\ Len(ds) \in Nat /\ DOMAIN ds = 1 .. Len(ds)
      /\ \A i \in DOMAIN ds : ds[i].cid \in S
  <2> DEFINE T == [cid : Seq(Rows), rows : Nat]
  <2>1. ds \in Seq(T) /\ \A i \in DOMAIN ds : ds[i].cid \in S
    BY <1>2, AddedIsTyped
  <2> HIDE DEF T, ds
  <2> QED BY <2>1
<1>5. todo'[p] \in Seq(S) /\ Len(todo'[p]) = Len(ds) /\ DOMAIN todo'[p] = DOMAIN ds
  <2> HIDE DEF ds, S
  <2> QED BY <1>1, <1>4
<1>6. Fetched(p)' = 0
  BY <1>1, <1>4, <1>5 DEF Fetched
<1>7. \A i \in DOMAIN todo'[p] : todo'[p][i] = shards'[p][0 + i].cid
  BY <1>1, <1>4, <1>5
<1>8. ASSUME NEW r \in Rows
      PROVE  Occurrences(got[p], r)'
               = Cardinality({c \in FetchedCells(p) : shards[p][c[1]].cid[c[2]] = r})'
  <2>1. FetchedCells(p)' = {}
    <3>1. \A c \in Cells(ds) : c[1] \in DOMAIN ds
      BY DEF Cells
    <3>2. Cells(shards[p])' = Cells(ds)
      BY <1>1 DEF Cells
    <3>3. \A c \in Cells(ds) : ~(c[1] <= 0)
      BY <1>4, <3>1
    <3> QED BY <1>6, <3>2, <3>3 DEF FetchedCells
  <2>2. Occurrences(got[p], r)' = Cardinality({})
    BY <1>1, <1>2 DEF Occurrences
  <2>3. {c \in FetchedCells(p) : shards[p][c[1]].cid[c[2]] = r}' = {}
    BY <2>1
  <2> QED BY <2>2, <2>3
<1>9. FetchesInOrder(p)'
  <2>1. got'[p] \in Seq(Rows)
    BY <1>1, <1>2
  <2> QED BY <1>1, <1>5, <1>6, <1>7, <1>8, <2>1 DEF FetchesInOrder
<1> QED BY <1>1, <1>3, <1>9 DEF ProcessInv, StartsEmpty, UploadsInOrder

LEMMA AnswerStep ==
  ASSUME Commanded, NEW p \in Processes, ProcessInv(p), Answer(p)
  PROVE  ProcessInv(p)'
<1> DEFINE n == asked[p].name.name
<1>1. /\ asked' = asked /\ pc[p] = "fetch" /\ todo[p] = <<>> /\ pc'[p] = "done"
      /\ todo' = todo /\ shards' = shards /\ got' = got
      /\ \A a \in Processes : pc[a] = "done" => pc'[a] = "done"
  BY DEF Answer, Goto, Commanded
<1>2. asked[p].kind = "run" /\ AddedAs(shards[p], n) /\ FetchesInOrder(p)
  BY <1>1 DEF ProcessInv, HasAVersion
<1>3. HasAVersion(p)'
  <2>1. \E a \in Adds(n)' :
          pc'[a] = "done" /\ asked'[a].shards > 0 /\ shards[p] = DatasetOf(a)'
    BY <1>1, <1>2, AddedStays
  <2> QED BY <1>1, <1>2, <2>1 DEF HasAVersion, AddedAs
<1>4. FetchesInOrder(p)'
  <2>1. Fetched(p)' = Fetched(p) /\ FetchedCells(p)' = FetchedCells(p)
    BY <1>1 DEF Fetched, FetchedCells, Cells
  <2> QED BY <1>1, <1>2, <2>1 DEF FetchesInOrder, Occurrences
<1> QED BY <1>1, <1>3, <1>4 DEF ProcessInv, StartsEmpty, UploadsInOrder

(* Reading the next shard adds its rows to the rows read.                  *)
LEMMA FetchStep ==
  ASSUME Commanded, NEW p \in Processes, ProcessInv(p), Fetch(p)
  PROVE  ProcessInv(p)'
<1> DEFINE n == asked[p].name.name
           ds == shards[p]
           left == todo[p]
           S == Seq(Rows)
           j == Fetched(p)
           q == Head(left)
<1>1. /\ asked' = asked /\ pc[p] = "fetch" /\ left # <<>> /\ pc' = pc
      /\ todo'[p] = Tail(left) /\ shards' = shards /\ got'[p] = got[p] \o q
      /\ \A a \in Processes : pc[a] = "done" => pc'[a] = "done"
  BY DEF Fetch, Commanded
<1>2. /\ asked[p].kind = "run" /\ AddedAs(ds, n)
      /\ j \in Nat /\ left \in Seq(S) /\ got[p] \in S
      /\ \A i \in DOMAIN left : left[i] = ds[j + i].cid
      /\ \A r \in Rows :
           Occurrences(got[p], r)
             = Cardinality({c \in FetchedCells(p) : ds[c[1]].cid[c[2]] = r})
  BY <1>1 DEF ProcessInv, HasAVersion, FetchesInOrder
<1>3. HasAVersion(p)'
  <2>1. \E a \in Adds(n)' :
          pc'[a] = "done" /\ asked'[a].shards > 0 /\ ds = DatasetOf(a)'
    BY <1>1, <1>2, AddedStays
  <2> QED BY <1>1, <1>2, <2>1 DEF HasAVersion, AddedAs
<1>4. /\ Len(ds) \in Nat /\ DOMAIN ds = 1 .. Len(ds) /\ IsFiniteSet(Cells(ds))
      /\ \A i \in DOMAIN ds : ds[i].cid \in S
  <2> DEFINE T == [cid : Seq(Rows), rows : Nat]
  <2>1. ds \in Seq(T) /\ IsFiniteSet(Cells(ds)) /\ \A i \in DOMAIN ds : ds[i].cid \in S
    BY <1>2, AddedIsTyped
  <2> HIDE DEF T, ds
  <2> QED BY <2>1
<1>5. /\ Len(left) \in Nat \ {0} /\ DOMAIN left = 1 .. Len(left)
      /\ q = left[1] /\ q \in S
      /\ Tail(left) \in Seq(S) /\ Len(Tail(left)) = Len(left) - 1
      /\ DOMAIN Tail(left) = 1 .. Len(left) - 1
      /\ \A i \in 1 .. Len(left) - 1 : Tail(left)[i] = left[i + 1]
  <2> HIDE DEF S, left
  <2> QED BY <1>1, <1>2
<1>6. j = Len(ds) - Len(left)
  BY DEF Fetched
<1>7. j + 1 \in DOMAIN ds /\ q = ds[j + 1].cid
  <2>1. 1 \in DOMAIN left
    BY <1>5
  <2>2. j + 1 \in 1 .. Len(ds)
    <3>1. \A a, b, c \in Nat : b # 0 /\ a = c - b => a + 1 \in 1 .. c
      OBVIOUS
    <3>2. j \in Nat /\ Len(left) \in Nat /\ Len(left) # 0 /\ Len(ds) \in Nat
      BY <1>2, <1>4, <1>5
    <3> HIDE DEF j, left, ds
    <3> QED BY <1>6, <3>1, <3>2
  <2> QED BY <1>2, <1>4, <1>5, <2>1, <2>2
<1>8. Fetched(p)' = j + 1
  <2>1. Fetched(p)' = Len(ds) - (Len(left) - 1)
    BY <1>1, <1>5 DEF Fetched
  <2>2. \A a, b, c \in Nat : a = c - b => c - (b - 1) = a + 1
    OBVIOUS
  <2>3. j \in Nat /\ Len(left) \in Nat /\ Len(ds) \in Nat
    BY <1>2, <1>4, <1>5
  <2> HIDE DEF j, left, ds
  <2> QED BY <1>6, <2>1, <2>2, <2>3
<1>9. ASSUME NEW i \in DOMAIN todo'[p] PROVE todo'[p][i] = shards'[p][Fetched(p)' + i].cid
  <2>1. i \in 1 .. Len(left) - 1 /\ i + 1 \in DOMAIN left
    BY <1>1, <1>5
  <2>2. todo'[p][i] = ds[j + (i + 1)].cid
    BY <1>1, <1>2, <1>5, <2>1
  <2>3. j + (i + 1) = (j + 1) + i
    BY <1>2, <2>1
  <2> QED BY <1>1, <1>8, <2>2, <2>3
<1>10. Cells(shards[p])' = Cells(ds)
  BY <1>1 DEF Cells
<1>11. \A c \in Cells(ds) : c[1] \in DOMAIN ds /\ c[2] \in DOMAIN ds[c[1]].cid
  BY DEF Cells
<1>12. \A i \in DOMAIN ds : \A k \in DOMAIN ds[i].cid : <<i, k>> \in Cells(ds)
  BY DEF Cells
<1>13. \A c \in Cells(ds) : c = <<c[1], c[2]>>
  BY DEF Cells
<1>14. ASSUME NEW r \in Rows
       PROVE  Occurrences(got[p], r)'
                = Cardinality({c \in FetchedCells(p) : shards[p][c[1]].cid[c[2]] = r})'
  <2> DEFINE old == {c \in FetchedCells(p) : ds[c[1]].cid[c[2]] = r}
             new == {c \in Cells(ds) : c[1] = j + 1 /\ ds[c[1]].cid[c[2]] = r}
             W == Where(q, {r})
             h == [k \in W |-> <<j + 1, k>>]
  <2>1. {c \in FetchedCells(p) : shards[p][c[1]].cid[c[2]] = r}' = old \cup new
    <3>1. \A c \in Cells(ds) : c[1] <= j + 1 <=> c[1] <= j \/ c[1] = j + 1
      BY <1>2, <1>4, <1>11
    <3>2. {c \in FetchedCells(p) : shards[p][c[1]].cid[c[2]] = r}'
            = {c \in Cells(ds) : c[1] <= j + 1 /\ ds[c[1]].cid[c[2]] = r}
      BY <1>1, <1>8, <1>10 DEF FetchedCells
    <3> QED BY <3>1, <3>2 DEF FetchedCells
  <2>2. old \cap new = {}
    BY <1>2 DEF FetchedCells
  <2>3. old \in SUBSET Cells(ds)
    BY DEF FetchedCells
  <2>4. IsFiniteSet(W)
    BY <1>5, WhereIsFinite
  <2>5. /\ h \in [W -> new]
        /\ \A k, l \in W : h[k] = h[l] => k = l
        /\ \A c \in new : \E k \in W : h[k] = c
    BY <1>7, <1>11, <1>12, <1>13 DEF Where
  <2> HIDE DEF old, new, W, h
  <2>6. IsFiniteSet(new) /\ Cardinality(new) = Cardinality(W)
    BY <2>4, <2>5, PairedOff
  <2>7. IsFiniteSet(old)
    BY <1>4, <2>3, FS_Subset
  <2>8. Cardinality(old \cup new) = Cardinality(old) + Cardinality(new)
    BY <2>2, <2>6, <2>7, InTwoParts
  <2>9. \A s : Occurrences(s, r) = Cardinality(Where(s, {r}))
    BY DEF Occurrences, Where
  <2>10. Cardinality(Where(got[p] \o q, {r}))
           = Cardinality(Where(got[p], {r})) + Cardinality(W)
    BY <1>2, <1>5, WhereConcatenated DEF W
  <2>11. Occurrences(got[p], r)' = Cardinality(Where(got[p] \o q, {r}))
    BY <1>1, <2>9 DEF Occurrences
  <2>12. Cardinality(Where(got[p], {r})) = Cardinality(old)
    BY <1>2, <2>9 DEF old
  <2> QED BY <2>1, <2>6, <2>8, <2>10, <2>11, <2>12
<1>15. FetchesInOrder(p)'
  <2>1. got'[p] \in Seq(Rows) /\ todo'[p] \in Seq(Seq(Rows)) /\ Fetched(p)' \in Nat
    BY <1>1, <1>2, <1>5, <1>8
  <2> QED BY <1>1, <1>9, <1>14, <2>1 DEF FetchesInOrder
<1> QED BY <1>1, <1>3, <1>15 DEF ProcessInv, StartsEmpty, UploadsInOrder

-----------------------------------------------------------------------------
(* All steps together.                                                     *)

(* The catalog gets a dataset only from an upload that has stored it all.  *)
LEMMA RegisteredIsWhole ==
  ASSUME Commanded, NEW p \in Processes, ProcessInv(p), Register(p)
  PROVE  shards[p] = DatasetOf(p) /\ p \in Adds(asked[p].name.name) /\ asked[p].shards > 0
<1> DEFINE T == [cid : Seq(Rows), rows : Nat]
           S == Seq(Rows)
           ds == shards[p]
           split == Split(p)
<1>1. /\ asked[p].kind = "add" /\ asked[p].name.legal /\ asked[p].shards > 0
      /\ todo[p] = <<>> /\ ds \in Seq(T) /\ Len(ds) + Len(todo[p]) = Len(split)
      /\ \A i \in DOMAIN ds : ds[i] = Shard(split[i])
  BY DEF Register, ProcessInv, UploadsInOrder
<1>2. split \in Seq(S)
  BY <1>1, AddIsTyped, SplitsIntoBuckets DEF Split
<1>3. DatasetOf(p) = [i \in DOMAIN split |-> Shard(split[i])]
  BY DEF DatasetOf
<1> HIDE DEF T, S, ds, split
<1>4. DOMAIN ds = 1 .. Len(ds) /\ Len(ds) \in Nat /\ DOMAIN split = 1 .. Len(split)
      /\ ds = [i \in DOMAIN ds |-> ds[i]]
  BY <1>1, <1>2
<1>5. DOMAIN ds = DOMAIN split
  BY <1>1, <1>4
<1>6. ds = DatasetOf(p)
  BY <1>1, <1>3, <1>4, <1>5
<1> QED BY <1>1, <1>6 DEF ds, Adds

LEMMA CatalogStep ==
  ASSUME IInv, NEW p \in Processes, Step(p)
  PROVE  CatalogIsAdded'
<1>1. Commanded /\ CatalogIsAdded /\ ProcessInv(p)
  BY DEF IInv
<1>2. /\ asked' = asked
      /\ \A a \in Processes : pc[a] = "done" => pc'[a] = "done"
  BY <1>1, DoneStays
<1>3. ASSUME NEW n \in Names, catalog[n] # Absent, catalog'[n] = catalog[n]
      PROVE  AddedAs(catalog[n], n)'
  <2>1. AddedAs(catalog[n], n)
    BY <1>1, <1>3 DEF CatalogIsAdded
  <2>2. \E a \in Adds(n)' :
          pc'[a] = "done" /\ asked'[a].shards > 0 /\ catalog[n] = DatasetOf(a)'
    BY <1>2, <2>1, AddedStays
  <2> QED BY <1>3, <2>2 DEF AddedAs
<1>4. CASE Register(p)
  <2> DEFINE m == asked[p].name.name
  <2>1. /\ shards[p] = DatasetOf(p) /\ p \in Adds(m) /\ asked[p].shards > 0
    BY <1>1, <1>4, RegisteredIsWhole
  <2>2. m \in Names
    BY <1>1, CommandsAssumption DEF Commanded
  <2>3. /\ catalog' = [catalog EXCEPT ![m] = shards[p]] /\ pc'[p] = "done"
    BY <1>1, <1>4 DEF Register, Goto, Commanded
  <2>4. DatasetOf(p)' = DatasetOf(p) /\ p \in Adds(m)'
    BY <1>2, <2>1 DEF DatasetOf, Split, Adds
  <2>5. ASSUME NEW n \in Names, catalog'[n] # Absent PROVE AddedAs(catalog[n], n)'
    <3>1. CASE n = m
      <4>1. catalog'[n] = DatasetOf(p)'
        BY <1>1, <2>1, <2>3, <2>4, <3>1 DEF Commanded
      <4>2. p \in Adds(n)' /\ pc'[p] = "done" /\ asked'[p].shards > 0
        BY <1>2, <2>1, <2>3, <2>4, <3>1
      <4> QED BY <4>1, <4>2 DEF AddedAs
    <3>2. CASE n # m
      <4>1. catalog'[n] = catalog[n]
        BY <1>1, <2>3, <3>2 DEF Commanded
      <4> QED BY <1>3, <2>5, <4>1
    <3> QED BY <3>1, <3>2
  <2> QED BY <2>5 DEF CatalogIsAdded
<1>5. CASE RemoveDataset(p)
  <2> DEFINE m == asked[p].name.name
  <2>1. catalog' = [catalog EXCEPT ![m] = Absent]
    BY <1>5 DEF RemoveDataset
  <2>2. \A n \in Names : catalog'[n] # Absent => catalog'[n] = catalog[n]
    BY <1>1, <2>1 DEF Commanded
  <2> QED BY <1>3, <2>2 DEF CatalogIsAdded
<1>6. CASE ~Register(p) /\ ~RemoveDataset(p)
  <2>1. catalog' = catalog
    BY <1>6 DEF Step, ReadFile, RefuseFile, Upload, UploadFails, Load, NotFound, Discover,
                Fetch, Answer, Fail, RunAgain
  <2> QED BY <1>3, <2>1 DEF CatalogIsAdded
<1> QED BY <1>4, <1>5, <1>6

LEMMA CommandedStep ==
  ASSUME Commanded, NEW p \in Processes, Step(p)
  PROVE  Commanded'
  BY DEF Step, ReadFile, RefuseFile, Upload, UploadFails, Register, RemoveDataset, Load,
         NotFound, Discover, Fetch, Answer, Fail, RunAgain, Goto, Commanded

LEMMA NextIInv == IInv /\ [Next]_vars => IInv'
<1> SUFFICES ASSUME IInv, [Next]_vars PROVE IInv'
  OBVIOUS
<1>1. Commanded /\ CatalogIsAdded /\ \A q \in Processes : ProcessInv(q)
  BY DEF IInv
<1>2. ASSUME NEW p \in Processes, Step(p) PROVE IInv'
  <2>1. Commanded' /\ CatalogIsAdded'
    BY <1>1, <1>2, CommandedStep, CatalogStep
  <2>2. ProcessInv(p)'
    <3>1. CASE RefuseFile(p) \/ UploadFails(p) \/ NotFound(p) \/ Fail(p) \/ RunAgain(p)
                 \/ RemoveDataset(p) \/ Register(p)
      BY <1>1, <3>1, IdleStep
    <3>2. CASE ReadFile(p)
      BY <1>1, <3>2, ReadFileStep
    <3>3. CASE Upload(p)
      BY <1>1, <3>3, UploadKeepsTrack
    <3>4. CASE Load(p)
      BY <1>1, <3>4, LoadStep
    <3>5. CASE Discover(p)
      BY <1>1, <3>5, DiscoverStep
    <3>6. CASE Fetch(p)
      BY <1>1, <3>6, FetchStep
    <3>7. CASE Answer(p)
      BY <1>1, <3>7, AnswerStep
    <3> QED BY <1>2, <3>1, <3>2, <3>3, <3>4, <3>5, <3>6, <3>7 DEF Step
  <2>3. ASSUME NEW q \in Processes, q # p PROVE ProcessInv(q)'
    <3>1. pc'[q] = pc[q] /\ todo'[q] = todo[q] /\ shards'[q] = shards[q] /\ got'[q] = got[q]
      BY <1>1, <1>2, <2>3
         DEF Step, ReadFile, RefuseFile, Upload, UploadFails, Register, RemoveDataset, Load,
             NotFound, Discover, Fetch, Answer, Fail, RunAgain, Goto, Commanded
    <3>2. /\ asked' = asked
          /\ \A a \in Processes : pc[a] = "done" => pc'[a] = "done"
      BY <1>1, <1>2, DoneStays
    <3> QED BY <1>1, <3>1, <3>2, LeftAlone
  <2> QED BY <2>1, <2>2, <2>3 DEF IInv
<1>3. CASE UNCHANGED vars
  <2>1. /\ asked' = asked /\ pc' = pc /\ todo' = todo /\ shards' = shards /\ got' = got
        /\ catalog' = catalog
    BY <1>3 DEF vars
  <2>2. Commanded'
    BY <1>1, <2>1 DEF Commanded
  <2>3. \A q \in Processes : ProcessInv(q)'
    BY <1>1, <2>1, LeftAlone
  <2>4. CatalogIsAdded'
    <3>1. ASSUME NEW n \in Names, catalog[n] # Absent PROVE AddedAs(catalog[n], n)'
      <4>1. AddedAs(catalog[n], n)
        BY <1>1, <3>1 DEF CatalogIsAdded
      <4>2. \E a \in Adds(n)' :
              pc'[a] = "done" /\ asked'[a].shards > 0 /\ catalog[n] = DatasetOf(a)'
        BY <2>1, <4>1, AddedStays
      <4> QED BY <2>1, <4>2 DEF AddedAs
    <3> QED BY <2>1, <3>1 DEF CatalogIsAdded
  <2> QED BY <2>2, <2>3, <2>4 DEF IInv
<1> QED BY <1>2, <1>3 DEF Next

THEOREM CommandsKeepTrack == Spec => []IInv
<1> QED BY InitIInv, NextIInv, PTL DEF Spec

(* Whatever is in the catalog is one file that somebody added under that   *)
(* name, every row as often as the file has it, in no more shards than     *)
(* were asked for and none of them empty: what RegisteredIsOneFile says,   *)
(* for any file and number of shards and however uploads fail.             *)
THEOREM DatasetsAreWholeFiles == Spec => []RegisteredIsOneFile
<1>1. IInv => RegisteredIsOneFile
  <2> SUFFICES ASSUME IInv, NEW n \in Names, catalog[n] # Absent
               PROVE  \E p \in Adds(n) :
                        /\ \A r \in Rows : Holds(catalog[n], r) = Occurrences(asked[p].file, r)
                        /\ TotalRows(catalog[n]) = Len(asked[p].file)
                        /\ Len(catalog[n]) <= asked[p].shards
                        /\ \A i \in DOMAIN catalog[n] : catalog[n][i].cid # <<>>
    BY DEF RegisteredIsOneFile
  <2>1. Commanded /\ AddedAs(catalog[n], n)
    BY DEF IInv, CatalogIsAdded
  <2>2. PICK a \in Adds(n) :
          /\ asked[a].file \in Seq(Rows) /\ asked[a].shards \in Nat /\ asked[a].shards > 0
          /\ catalog[n] = Dataset(asked[a].file, asked[a].shards)
    BY <2>1, AddedIsAFile
  <2> QED BY <2>2, DatasetIsTheFile
<1> QED BY <1>1, CommandsKeepTrack, PTL

(* A query that ends well has read one file that was added under the name  *)
(* it was asked for, every row as often as the file has it, whoever adds,  *)
(* replaces or removes datasets meanwhile: AnswersAreOneVersion.           *)
THEOREM AnswersReadOneFile == Spec => []AnswersAreOneVersion
<1>1. IInv => AnswersAreOneVersion
  <2> SUFFICES ASSUME IInv, NEW p \in Processes, asked[p].kind = "run", pc[p] = "done"
               PROVE  \E a \in Adds(asked[p].name.name) :
                        /\ pc[a] = "done"
                        /\ \A r \in Rows : Occurrences(got[p], r) = Occurrences(asked[a].file, r)
    BY DEF AnswersAreOneVersion
  <2> DEFINE ds == shards[p]
             n == asked[p].name.name
  <2>1. Commanded /\ AddedAs(ds, n) /\ FetchesInOrder(p)
    BY DEF IInv, ProcessInv, HasAVersion
  <2>2. PICK a \in Adds(n) :
          /\ pc[a] = "done" /\ asked[a].file \in Seq(Rows)
          /\ asked[a].shards \in Nat /\ asked[a].shards > 0
          /\ ds = Dataset(asked[a].file, asked[a].shards)
    BY <2>1, AddedIsAFile
  <2>3. \A r \in Rows : Holds(ds, r) = Occurrences(asked[a].file, r)
    BY <2>2, DatasetIsTheFile
  <2>4. FetchedCells(p) = Cells(ds)
    <3> DEFINE T == [cid : Seq(Rows), rows : Nat]
    <3>1. ds \in Seq(T)
      BY <2>1, AddedIsTyped
    <3>2. todo[p] = <<>> /\ Fetched(p) = Len(ds) - Len(todo[p])
      BY <2>1 DEF FetchesInOrder, Fetched
    <3> HIDE DEF T, ds
    <3>3. Len(ds) \in Nat /\ DOMAIN ds = 1 .. Len(ds)
      BY <3>1
    <3>4. Fetched(p) = Len(ds)
      BY <3>2, <3>3
    <3>5. \A c \in Cells(ds) : c[1] \in DOMAIN ds
      BY DEF Cells
    <3>6. \A c \in Cells(ds) : c[1] <= Fetched(p)
      BY <3>3, <3>4, <3>5
    <3> QED BY <3>6 DEF FetchedCells, ds
  <2>5. \A r \in Rows : Occurrences(got[p], r) = Holds(ds, r)
    BY <2>1, <2>4 DEF FetchesInOrder, Holds
  <2> QED BY <2>2, <2>3, <2>5
<1> QED BY <1>1, CommandsKeepTrack, PTL

-----------------------------------------------------------------------------
(* The blobs.                                                              *)

(* What a shard list may name: shards whose content is in the store.       *)
Stored == {Shard(q) : q \in blobs}

(* Every shard list, a process's own or one in the catalog, names stored   *)
(* shards only.  A process uploads before it appends, registers what it    *)
(* uploaded, and loads what was registered, so that the clauses on         *)
(* processes and on the catalog hold each other up.                        *)
StoredOnly ==
  /\ asked \in Commands
  /\ shards \in [Processes -> Seq(Stored)]
  /\ catalog \in [Names -> Seq(Stored) \cup {Absent}]

LEMMA InitStoredOnly == Init => StoredOnly
<1> SUFFICES ASSUME Init PROVE StoredOnly
  OBVIOUS
<1>1. <<>> \in Seq(Stored)
  OBVIOUS
<1>2. QED BY <1>1 DEF Init, StoredOnly

(* The store only grows, and with it what a shard list may name.           *)
LEMMA StoreGrows ==
  ASSUME StoredOnly, blobs \subseteq blobs'
  PROVE  /\ shards \in [Processes -> Seq(Stored')]
         /\ catalog \in [Names -> Seq(Stored') \cup {Absent}]
<1>1. Stored \subseteq Stored'
  BY DEF Stored, Shard
<1>2. Seq(Stored) \subseteq Seq(Stored')
  BY <1>1
<1>3. QED BY <1>2 DEF StoredOnly

LEMMA UploadStep ==
  ASSUME StoredOnly, NEW p \in Processes, Upload(p)
  PROVE  StoredOnly'
<1> DEFINE q == Head(todo[p])
<1>1. /\ asked' = asked /\ blobs' = blobs \cup {q} /\ catalog' = catalog
      /\ shards' = [shards EXCEPT ![p] = Append(@, Shard(q))]
  BY DEF Upload
<1>2. /\ shards \in [Processes -> Seq(Stored')]
      /\ catalog \in [Names -> Seq(Stored') \cup {Absent}]
  BY <1>1, StoreGrows
<1>3. Shard(q) \in Stored'
  BY <1>1 DEF Stored, Shard
<1>4. Append(shards[p], Shard(q)) \in Seq(Stored')
  BY <1>2, <1>3
<1>5. QED BY <1>1, <1>2, <1>4 DEF StoredOnly

(* Steps that leave the shard lists alone, whatever they do to the store.  *)
LEMMA QuietStep ==
  ASSUME StoredOnly, blobs \subseteq blobs', UNCHANGED <<asked, shards, catalog>>
  PROVE  StoredOnly'
  BY StoreGrows DEF StoredOnly

(* Steps that change a shard list and leave the store alone.               *)
LEMMA ListStep ==
  ASSUME StoredOnly, NEW p \in Processes,
         Register(p) \/ RemoveDataset(p) \/ Load(p) \/ RunAgain(p)
  PROVE  StoredOnly'
<1>1. blobs' = blobs
  BY DEF Register, RemoveDataset, Load, RunAgain
<1>2. Stored' = Stored
  BY <1>1 DEF Stored, Shard
<1>3. CASE Register(p)
  BY <1>2, <1>3 DEF Register, StoredOnly
<1>4. CASE RemoveDataset(p)
  BY <1>2, <1>4 DEF RemoveDataset, StoredOnly
<1>5. CASE RunAgain(p)
  <2>1. <<>> \in Seq(Stored)
    OBVIOUS
  <2>2. QED BY <1>2, <1>5, <2>1 DEF RunAgain, StoredOnly
<1>6. CASE Load(p)
  <2> DEFINE n == asked[p].name.name
  <2>1. /\ catalog[n] # Absent /\ UNCHANGED <<asked, catalog>>
        /\ shards' = [shards EXCEPT ![p] = catalog[n]]
    BY <1>6 DEF Load, Found
  <2>2. n \in Names
    BY CommandsAssumption DEF StoredOnly
  <2>3. catalog[n] \in Seq(Stored)
    BY <2>1, <2>2 DEF StoredOnly
  <2>4. QED BY <1>2, <2>1, <2>3 DEF StoredOnly
<1>7. QED BY <1>3, <1>4, <1>5, <1>6

LEMMA NextStoredOnly == StoredOnly /\ [Next]_vars => StoredOnly'
<1> SUFFICES ASSUME StoredOnly, [Next]_vars PROVE StoredOnly'
  OBVIOUS
<1>1. ASSUME NEW p \in Processes, Step(p)
      PROVE  StoredOnly'
  <2>1. CASE Upload(p)
    BY <2>1, UploadStep
  <2>2. CASE UploadFails(p)
    <3>1. blobs \subseteq blobs' /\ UNCHANGED <<asked, shards, catalog>>
      BY <2>2 DEF UploadFails
    <3>2. QED BY <3>1, QuietStep
  <2>3. CASE Register(p) \/ RemoveDataset(p) \/ Load(p) \/ RunAgain(p)
    BY <2>3, ListStep
  <2>4. CASE \/ ReadFile(p) \/ RefuseFile(p) \/ NotFound(p) \/ Discover(p)
             \/ Fetch(p) \/ Answer(p) \/ Fail(p)
    <3>1. UNCHANGED <<asked, shards, catalog, blobs>>
      BY <2>4 DEF ReadFile, RefuseFile, NotFound, Discover, Fetch, Answer, Fail
    <3>2. QED BY <3>1, QuietStep
  <2>5. QED BY <1>1, <2>1, <2>2, <2>3, <2>4 DEF Step
<1>2. CASE UNCHANGED vars
  BY <1>2, QuietStep DEF vars
<1>3. QED BY <1>1, <1>2 DEF Next

THEOREM ShardListsNameStoredBlobs == Spec => []StoredOnly
<1>1. QED BY InitStoredOnly, NextStoredOnly, PTL DEF Spec

(* A reader finds the blobs of the dataset it loaded, and the catalog      *)
(* names none that are missing, whoever adds, removes, replaces, fails or  *)
(* is killed meanwhile: what ReadersFindTheirBlobs says of Commands.       *)
THEOREM BlobsOutliveTheirReaders == Spec => []ReadersFindTheirBlobs
<1>1. StoredOnly => ReadersFindTheirBlobs
  <2> SUFFICES ASSUME StoredOnly PROVE ReadersFindTheirBlobs
    OBVIOUS
  <2>1. ASSUME NEW list \in Seq(Stored), NEW i \in DOMAIN list
        PROVE  list[i].cid \in blobs
    <3>1. list[i] \in Stored
      BY <2>1
    <3>2. QED BY <3>1 DEF Stored, Shard
  <2>2. QED BY <2>1 DEF StoredOnly, ReadersFindTheirBlobs
<1>2. QED BY <1>1, ShardListsNameStoredBlobs, PTL
=============================================================================
