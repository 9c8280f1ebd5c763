----------------------------- MODULE JoinProofs -----------------------------
(***************************************************************************)
(* Theorems about Join, for any row streams, key columns, hash function    *)
(* and number of buckets.  A join is seen as the list of its pairs of      *)
(* positions in the order of a nested loop.                                *)
(***************************************************************************)
EXTENDS JoinInvariant, Counting

-----------------------------------------------------------------------------
(* Pairs of positions in the order of a nested loop.                       *)

Loop(C) == {x \in C \X C : Before(x[1], x[2])}

(* The place of p among the pairs of C.                                    *)
At(C, p) == 1 + Cardinality({q \in C : Before(q, p)})

LEMMA LoopIsInLine ==
  ASSUME NEW C \in SUBSET (Nat \X Nat)
  PROVE  InLine(C, Loop(C)) /\ \A p, q \in C : <<p, q>> \in Loop(C) <=> Before(p, q)
<1>1. \A p, q \in C : <<p, q>> \in Loop(C) <=> Before(p, q)
  BY DEF Loop
<1>2. \A p \in C : ~Before(p, p)
  BY DEF Before
<1>3. \A p, q, s \in C : Before(p, q) /\ Before(q, s) => Before(p, s)
  <2> SUFFICES ASSUME NEW p \in C, NEW q \in C, NEW s \in C, Before(p, q), Before(q, s)
               PROVE  Before(p, s)
    OBVIOUS
  <2>1. /\ p[1] \in Nat /\ p[2] \in Nat /\ q[1] \in Nat /\ q[2] \in Nat
        /\ s[1] \in Nat /\ s[2] \in Nat
    OBVIOUS
  <2> QED BY <2>1 DEF Before
<1>4. \A p, q \in C : p = q \/ Before(p, q) \/ Before(q, p)
  <2> SUFFICES ASSUME NEW p \in C, NEW q \in C PROVE p = q \/ Before(p, q) \/ Before(q, p)
    OBVIOUS
  <2>1. /\ p[1] \in Nat /\ p[2] \in Nat /\ q[1] \in Nat /\ q[2] \in Nat
        /\ p = <<p[1], p[2]>> /\ q = <<q[1], q[2]>>
    OBVIOUS
  <2>2. p[1] = q[1] /\ p[2] = q[2] => p = q
    BY <2>1
  <2>3. p[1] < q[1] \/ q[1] < p[1] \/ (p[1] = q[1] /\ (p[2] < q[2] \/ q[2] < p[2] \/ p[2] = q[2]))
    BY <2>1
  <2> QED BY <2>2, <2>3 DEF Before
<1> HIDE DEF Loop
<1> QED BY <1>1, <1>2, <1>3, <1>4 DEF InLine

LEMMA LoopNumbers ==
  ASSUME NEW C \in SUBSET (Nat \X Nat), IsFiniteSet(C)
  PROVE  /\ \A p \in C : At(C, p) \in 1 .. Cardinality(C)
         /\ \A p, q \in C : At(C, p) = At(C, q) => p = q
         /\ \A k \in 1 .. Cardinality(C) : \E p \in C : At(C, p) = k
<1>1. InLine(C, Loop(C)) /\ \A p, q \in C : <<p, q>> \in Loop(C) <=> Before(p, q)
  BY LoopIsInLine
<1>2. Numbered(C, Loop(C))
  BY <1>1, OrderNumbers
<1>3. \A p \in C : At(C, p) = Place(C, Loop(C), p)
  <2>1. \A p \in C : {q \in C : Before(q, p)} = Earlier(C, Loop(C), p)
    BY <1>1 DEF Earlier
  <2> QED BY <2>1 DEF At, Place
<1> HIDE DEF At, Place
<1> QED BY <1>2, <1>3 DEF Numbered

(* The list s has val of each pair of C, in the order of the loop.         *)
Lists(s, C, val) ==
  /\ C \in SUBSET (Nat \X Nat) /\ IsFiniteSet(C)
  /\ Len(s) = Cardinality(C)
  /\ \A p \in C : s[At(C, p)] = val[p]

(* The same list by other names for the pairs, given in the same order.    *)
LEMMA Renamed ==
  ASSUME NEW s, NEW C, NEW val, Lists(s, C, val), NEW D \in SUBSET (Nat \X Nat),
         NEW f \in [C -> D], \A d \in D : \E c \in C : f[c] = d,
         \A p, q \in C : Before(p, q) => Before(f[p], f[q]),
         NEW wal, \A p \in C : val[p] = wal[f[p]]
  PROVE  Lists(s, D, wal)
<1>1. C \in SUBSET (Nat \X Nat) /\ IsFiniteSet(C) /\ Len(s) = Cardinality(C)
      /\ \A p \in C : s[At(C, p)] = val[p]
  BY DEF Lists
<1>2. \A p, q \in C : p = q \/ Before(p, q) \/ Before(q, p)
  BY <1>1, LoopIsInLine DEF InLine
<1>3. \A p, q \in D : ~(Before(p, q) /\ Before(q, p)) /\ ~Before(p, p)
  <2> SUFFICES ASSUME NEW p \in D, NEW q \in D
               PROVE  ~(Before(p, q) /\ Before(q, p)) /\ ~Before(p, p)
    OBVIOUS
  <2>1. p[1] \in Nat /\ p[2] \in Nat /\ q[1] \in Nat /\ q[2] \in Nat
    OBVIOUS
  <2> QED BY <2>1 DEF Before
<1> HIDE DEF Before
<1>4. \A p, q \in C : Before(p, q) <=> Before(f[p], f[q])
  BY <1>2, <1>3
<1>5. \A p, q \in C : f[p] = f[q] => p = q
  BY <1>2, <1>3
<1>6. IsFiniteSet(D) /\ Cardinality(D) = Cardinality(C)
  BY <1>1, <1>5, PairedOff
<1>7. ASSUME NEW p \in C PROVE At(D, f[p]) = At(C, p)
  <2> DEFINE E == {q \in C : Before(q, p)}
             F == {q \in D : Before(q, f[p])}
             g == [q \in E |-> f[q]]
  <2>1. g \in [E -> F] /\ (\A q, t \in E : g[q] = g[t] => q = t) /\ \A t \in F : \E q \in E : g[q] = t
    BY <1>4, <1>5
  <2>2. E \in SUBSET C
    OBVIOUS
  <2>3. At(D, f[p]) = 1 + Cardinality(F) /\ At(C, p) = 1 + Cardinality(E)
    BY DEF At
  <2> HIDE DEF E, F, g
  <2>4. IsFiniteSet(E)
    BY <1>1, <2>2, FS_Subset
  <2>5. Cardinality(F) = Cardinality(E)
    BY <2>1, <2>4, PairedOff
  <2> QED BY <2>3, <2>5
<1>8. ASSUME NEW d \in D PROVE s[At(D, d)] = wal[d]
  <2>1. PICK p \in C : f[p] = d
    OBVIOUS
  <2> QED BY <1>1, <1>7, <2>1
<1> QED BY <1>1, <1>6, <1>8 DEF Lists

(* How often a value is in the list.                                       *)
Valued(C, val, x) == {p \in C : val[p] = x}

LEMMA CountListed ==
  ASSUME NEW T, NEW s \in Seq(T), NEW C, NEW val, Lists(s, C, val), NEW x
  PROVE  Cardinality(Where(s, {x})) = Cardinality(Valued(C, val, x))
<1>1. C \in SUBSET (Nat \X Nat) /\ IsFiniteSet(C) /\ Len(s) = Cardinality(C)
      /\ (\A p \in C : s[At(C, p)] = val[p]) /\ DOMAIN s = 1 .. Cardinality(C)
  BY DEF Lists
<1>2. /\ \A p \in C : At(C, p) \in 1 .. Cardinality(C)
      /\ \A p, q \in C : At(C, p) = At(C, q) => p = q
      /\ \A k \in 1 .. Cardinality(C) : \E p \in C : At(C, p) = k
  BY <1>1, LoopNumbers
<1> DEFINE P == Valued(C, val, x)
           I == Where(s, {x})
           f == [p \in P |-> At(C, p)]
<1> HIDE DEF At
<1>3. f \in [P -> I] /\ (\A p, q \in P : f[p] = f[q] => p = q) /\ \A i \in I : \E p \in P : f[p] = i
  BY <1>1, <1>2 DEF Where, Valued
<1>4. P \in SUBSET C
  BY DEF Valued
<1> HIDE DEF P, I, f
<1>5. IsFiniteSet(P)
  BY <1>1, <1>4, FS_Subset
<1>6. Cardinality(I) = Cardinality(P)
  BY <1>3, <1>5, PairedOff
<1> QED BY <1>6 DEF I, P

-----------------------------------------------------------------------------
(* Concatenations.                                                         *)

LEMMA Concatenated ==
  ASSUME NEW T, NEW a \in Seq(T), NEW b \in Seq(T)
  PROVE  /\ a \o b \in Seq(T) /\ Len(a \o b) = Len(a) + Len(b)
         /\ DOMAIN (a \o b) = 1 .. Len(a) + Len(b)
         /\ a \o b = [x \in DOMAIN (a \o b) |-> (a \o b)[x]]
         /\ \A x \in 1 .. Len(a) : (a \o b)[x] = a[x]
         /\ \A j \in 1 .. Len(b) : (a \o b)[Len(a) + j] = b[j]
<1> DEFINE c == a \o b
<1>1. /\ Len(a) \in Nat /\ Len(b) \in Nat /\ DOMAIN a = 1 .. Len(a)
      /\ DOMAIN b = 1 .. Len(b) /\ DOMAIN c = 1 .. Len(a) + Len(b)
      /\ Len(c) = Len(a) + Len(b)
  OBVIOUS
<1>2. c \in Seq(T)
  OBVIOUS
<1>3. c = [x \in DOMAIN c |-> c[x]]
  <2> HIDE DEF c
  <2> QED BY <1>2
<1>4. \A x \in 1 .. Len(a) : c[x] = a[x]
  OBVIOUS
<1>5. \A j \in 1 .. Len(b) : c[Len(a) + j] = b[j]
  OBVIOUS
<1> QED BY <1>1, <1>2, <1>3, <1>4, <1>5

(* The pairs of a sequence of sequences: which sequence, and where in it.  *)
Places(ss) == UNION {{i} \X DOMAIN ss[i] : i \in DOMAIN ss}
PlacesUpTo(ss, m) == {p \in Places(ss) : p[1] <= m}

LEMMA PlacesAreCounted ==
  ASSUME NEW T, NEW ss \in Seq(Seq(T))
  PROVE  /\ IsFiniteSet(Places(ss)) /\ Places(ss) \in SUBSET (Nat \X Nat)
         /\ \A m \in Nat : Cardinality(PlacesUpTo(ss, m)) \in Nat
         /\ Cardinality(PlacesUpTo(ss, 0)) = 0
         /\ PlacesUpTo(ss, Len(ss)) = Places(ss)
         /\ \A i \in DOMAIN ss :
              Cardinality(PlacesUpTo(ss, i)) = Cardinality(PlacesUpTo(ss, i - 1)) + Len(ss[i])
         /\ \A i \in DOMAIN ss, j \in Nat : j \in DOMAIN ss[i] =>
              At(Places(ss), <<i, j>>) = Cardinality(PlacesUpTo(ss, i - 1)) + j
<1> DEFINE P == Places(ss)
           F == [i \in DOMAIN ss |-> Len(ss[i])]
           S == Seq(T)
<1>1. /\ Len(ss) \in Nat /\ DOMAIN ss = 1 .. Len(ss)
      /\ \A i \in DOMAIN ss : ss[i] \in S
  <2> HIDE DEF S
  <2>1. ss \in Seq(S)
    BY DEF S
  <2> QED BY <2>1
<1>2. \A i \in DOMAIN ss : Len(ss[i]) \in Nat /\ DOMAIN ss[i] = 1 .. Len(ss[i])
  BY <1>1
<1>3. \A p : p \in P <=> \E i \in DOMAIN ss : \E j \in DOMAIN ss[i] : p = <<i, j>>
  BY DEF Places
<1>4. P = Area(F, DOMAIN ss)
  <2>1. ASSUME NEW p PROVE p \in P <=> p \in Area(F, DOMAIN ss)
    <3>1. p \in Area(F, DOMAIN ss)
            <=> \E i \in DOMAIN ss : \E j \in Nat : p = <<i, j>> /\ j \in 1 .. Len(ss[i])
      BY DEF Area
    <3>2. \A i \in DOMAIN ss : \A j : j \in DOMAIN ss[i] <=> j \in Nat /\ j \in 1 .. Len(ss[i])
      BY <1>2
    <3> QED BY <1>3, <3>1, <3>2
  <2> QED BY <2>1
<1>5. IsFiniteSet(P)
  <2> DEFINE D == DOMAIN ss
  <2>1. IsFiniteSet(D) /\ \A i \in D : F[i] \in Nat
    BY <1>1, <1>2, IndicesAreFinite
  <2> HIDE DEF D, F, P
  <2>2. IsFiniteSet(Area(F, D))
    BY <2>1, AreaIsFinite
  <2> QED BY <1>4, <2>2 DEF D
<1>6. P \in SUBSET (Nat \X Nat)
  BY <1>1, <1>2, <1>3
<1>7. \A p \in P : p = <<p[1], p[2]>> /\ p[1] \in DOMAIN ss /\ p[2] \in DOMAIN ss[p[1]]
  BY <1>3
<1>8. \A i \in DOMAIN ss : \A j \in DOMAIN ss[i] : <<i, j>> \in P
  BY <1>3
<1> HIDE DEF P, F, S
<1>9. \A m : PlacesUpTo(ss, m) = {p \in P : p[1] <= m}
  BY DEF PlacesUpTo, P
<1>10. \A m : IsFiniteSet(PlacesUpTo(ss, m)) /\ Cardinality(PlacesUpTo(ss, m)) \in Nat
  <2> TAKE m
  <2>1. PlacesUpTo(ss, m) \in SUBSET P
    BY <1>9
  <2> QED BY <1>5, <2>1, FS_Subset, FS_CardinalityType
<1>11. PlacesUpTo(ss, 0) = {} /\ PlacesUpTo(ss, Len(ss)) = P
  <2>1. \A p \in P : ~(p[1] <= 0) /\ p[1] <= Len(ss)
    BY <1>1, <1>7
  <2> QED BY <1>9, <2>1
<1>12. ASSUME NEW i \in DOMAIN ss, NEW j \in 0 .. Len(ss[i])
       PROVE  /\ IsFiniteSet({p \in P : p[1] = i /\ p[2] <= j})
              /\ Cardinality({p \in P : p[1] = i /\ p[2] <= j}) = j
  <2> DEFINE L == {p \in P : p[1] = i /\ p[2] <= j}
             f == [l \in 1 .. j |-> <<i, l>>]
  <2>1. j \in Nat /\ 1 .. j \subseteq DOMAIN ss[i]
    BY <1>2
  <2>2. f \in [1 .. j -> L] /\ \A k, l \in 1 .. j : f[k] = f[l] => k = l
    BY <1>8, <2>1
  <2>3. ASSUME NEW p \in L PROVE \E l \in 1 .. j : f[l] = p
    <3>1. p = <<i, p[2]>> /\ p[2] \in 1 .. j
      BY <1>2, <1>7, <2>1
    <3> QED BY <3>1
  <2> HIDE DEF L, f
  <2>4. IsFiniteSet(L) /\ Cardinality(L) = j
    BY <2>1, <2>2, <2>3, ListedOnce
  <2> QED BY <2>4 DEF L
<1>13. ASSUME NEW i \in DOMAIN ss, NEW j \in 0 .. Len(ss[i])
       PROVE  Cardinality(PlacesUpTo(ss, i - 1) \cup {p \in P : p[1] = i /\ p[2] <= j})
                = Cardinality(PlacesUpTo(ss, i - 1)) + j
  <2> DEFINE A == PlacesUpTo(ss, i - 1)  B == {p \in P : p[1] = i /\ p[2] <= j}
  <2>1. A \cap B = {}
    BY <1>1, <1>9
  <2>2. IsFiniteSet(A) /\ IsFiniteSet(B) /\ Cardinality(B) = j
    BY <1>10, <1>12
  <2> HIDE DEF A, B
  <2>3. Cardinality(A \cup B) = Cardinality(A) + Cardinality(B)
    BY <2>1, <2>2, InTwoParts
  <2> QED BY <2>2, <2>3 DEF A, B
<1>14. ASSUME NEW i \in DOMAIN ss
       PROVE  Cardinality(PlacesUpTo(ss, i)) = Cardinality(PlacesUpTo(ss, i - 1)) + Len(ss[i])
  <2>1. PlacesUpTo(ss, i) = PlacesUpTo(ss, i - 1) \cup {p \in P : p[1] = i /\ p[2] <= Len(ss[i])}
    <3>1. \A p \in P : p[1] <= i <=> p[1] <= i - 1 \/ p[1] = i
      BY <1>1, <1>7
    <3>2. \A p \in P : p[1] = i => p[2] <= Len(ss[i])
      BY <1>2, <1>7
    <3> QED BY <1>9, <3>1, <3>2
  <2>2. Len(ss[i]) \in 0 .. Len(ss[i])
    BY <1>2
  <2>3. Cardinality(PlacesUpTo(ss, i - 1) \cup {p \in P : p[1] = i /\ p[2] <= Len(ss[i])})
          = Cardinality(PlacesUpTo(ss, i - 1)) + Len(ss[i])
    BY <1>13, <2>2
  <2> QED BY <2>1, <2>3, Zenon
<1>15. ASSUME NEW i \in DOMAIN ss, NEW j \in Nat, j \in DOMAIN ss[i]
       PROVE  At(P, <<i, j>>) = Cardinality(PlacesUpTo(ss, i - 1)) + j
  <2>1. {p \in P : Before(p, <<i, j>>)}
          = PlacesUpTo(ss, i - 1) \cup {p \in P : p[1] = i /\ p[2] <= j - 1}
    <3>1. \A p \in P : Before(p, <<i, j>>) <=> p[1] <= i - 1 \/ (p[1] = i /\ p[2] <= j - 1)
      <4> TAKE p \in P
      <4>1. p[1] \in Nat /\ p[2] \in Nat /\ i \in Nat
        BY <1>1, <1>6
      <4> QED BY <4>1 DEF Before
    <3> QED BY <1>9, <3>1
  <2>2. j - 1 \in 0 .. Len(ss[i])
    BY <1>2, <1>15
  <2>3. Cardinality({p \in P : Before(p, <<i, j>>)}) = Cardinality(PlacesUpTo(ss, i - 1)) + (j - 1)
    BY <1>13, <2>1, <2>2
  <2>4. Cardinality(PlacesUpTo(ss, i - 1)) \in Nat
    BY <1>10
  <2> QED BY <2>3, <2>4 DEF At
<1>16. Cardinality(PlacesUpTo(ss, 0)) = 0
  BY <1>11, FS_EmptySet
<1> QED BY <1>5, <1>6, <1>10, <1>11, <1>14, <1>15, <1>16 DEF P

LEMMA FlattenLists ==
  ASSUME NEW T, NEW ss \in Seq(Seq(T))
  PROVE  /\ SE!FlattenSeq(ss) \in Seq(T)
         /\ Lists(SE!FlattenSeq(ss), Places(ss), [p \in Places(ss) |-> ss[p[1]][p[2]]])
<1> DEFINE P == Places(ss)
           N == Len(ss)
           size(m) == Cardinality(PlacesUpTo(ss, m))
           place(x) == CHOOSE p \in P : At(P, p) = x
           word == [x \in 1 .. size(N) |-> ss[place(x)[1]][place(x)[2]]]
           g == [i \in 1 .. N |-> [x \in 1 .. size(i) |-> word[x]]]
           Solves(h) == h = [i \in 1 .. N |-> IF i = 1 THEN ss[i] ELSE h[i - 1] \o ss[i]]
           f == CHOOSE h : Solves(h)
<1>1. /\ N \in Nat /\ DOMAIN ss = 1 .. N
      /\ \A i \in 1 .. N : ss[i] \in Seq(T)
  <2> DEFINE S == Seq(T)
  <2>1. ss \in Seq(S)
    OBVIOUS
  <2> HIDE DEF S
  <2>2. N \in Nat /\ DOMAIN ss = 1 .. N /\ \A i \in 1 .. N : ss[i] \in S
    BY <2>1
  <2> QED BY <2>2 DEF S
<1>2. \A i \in 1 .. N : Len(ss[i]) \in Nat /\ DOMAIN ss[i] = 1 .. Len(ss[i])
  BY <1>1
<1>3. /\ IsFiniteSet(P) /\ P \in SUBSET (Nat \X Nat)
      /\ \A m \in Nat : size(m) \in Nat
      /\ size(0) = 0 /\ size(N) = Cardinality(P)
      /\ \A i \in 1 .. N : size(i) = size(i - 1) + Len(ss[i])
      /\ \A i \in 1 .. N, j \in Nat : j \in DOMAIN ss[i] => At(P, <<i, j>>) = size(i - 1) + j
  BY <1>1, PlacesAreCounted
<1>4. /\ \A p \in P : At(P, p) \in 1 .. size(N)
      /\ \A p, q \in P : At(P, p) = At(P, q) => p = q
      /\ \A x \in 1 .. size(N) : \E p \in P : At(P, p) = x
  BY <1>3, LoopNumbers
<1>5. /\ \A p \in P : p[1] \in 1 .. N /\ p[2] \in DOMAIN ss[p[1]]
      /\ \A i \in 1 .. N : \A j \in DOMAIN ss[i] : <<i, j>> \in P
  BY <1>1 DEF Places
<1>6. SE!FlattenSeq(ss) = IF N = 0 THEN ss ELSE f[N]
  BY DEF SE!FlattenSeq
<1>10. ASSUME NEW i \in 0 .. N PROVE size(i) <= size(N)
  <2>1. PlacesUpTo(ss, i) \in SUBSET P
    BY DEF PlacesUpTo
  <2>2. Cardinality(PlacesUpTo(ss, i)) <= Cardinality(P)
    <3> HIDE DEF P
    <3> QED BY <1>3, <2>1, FS_Subset
  <2> QED BY <1>3, <2>2
<1> HIDE DEF P, size, f
<1>7. \A p \in P : place(At(P, p)) = p
  BY <1>4
<1>8. \A p \in P : word[At(P, p)] = ss[p[1]][p[2]]
  BY <1>4, <1>7
<1>9. word \in [1 .. size(N) -> T]
  <2>1. ASSUME NEW x \in 1 .. size(N) PROVE word[x] \in T
    <3>1. PICK p \in P : At(P, p) = x
      BY <1>4
    <3>2. word[x] = ss[p[1]][p[2]]
      BY <1>8, <3>1
    <3>3. p[1] \in 1 .. N /\ p[2] \in 1 .. Len(ss[p[1]]) /\ ss[p[1]] \in Seq(T)
      BY <1>1, <1>2, <1>5
    <3> QED BY <3>2, <3>3
  <2> QED BY <2>1
<1> HIDE DEF word
<1> DEFINE prefix(i) == [x \in 1 .. size(i) |-> word[x]]
<1>11. ASSUME NEW i \in 0 .. N
       PROVE  /\ size(i) \in Nat /\ prefix(i) \in Seq(T) /\ Len(prefix(i)) = size(i)
              /\ DOMAIN prefix(i) = 1 .. size(i)
              /\ \A x \in 1 .. size(i) : prefix(i)[x] = word[x]
  <2>1. size(i) \in Nat /\ size(N) \in Nat /\ size(i) <= size(N)
    BY <1>1, <1>3, <1>10
  <2>2. prefix(i) \in [1 .. size(i) -> T]
    BY <1>9, <2>1
  <2> QED BY <2>1, <2>2
<1>12. ASSUME NEW i \in 1 .. N
       PROVE  prefix(i) = prefix(i - 1) \o ss[i]
  <2> DEFINE a == prefix(i - 1)
             b == ss[i]
             c == a \o b
  <2>1. i - 1 \in 0 .. N /\ i \in 0 .. N /\ i \in Nat
    BY <1>1
  <2>2. /\ a \in Seq(T) /\ Len(a) = size(i - 1) /\ b \in Seq(T)
        /\ \A x \in 1 .. size(i - 1) : a[x] = word[x]
    BY <1>1, <1>11, <2>1
  <2>3. size(i) = Len(a) + Len(b)
    BY <1>3, <2>2
  <2>4. \A j \in 1 .. Len(b) : b[j] = word[Len(a) + j]
    <3> TAKE j \in 1 .. Len(b)
    <3> DEFINE p == <<i, j>>
    <3>1. j \in Nat /\ j \in DOMAIN ss[i]
      BY <1>2
    <3>2. p \in P /\ p[1] = i /\ p[2] = j /\ At(P, p) = size(i - 1) + j
      BY <1>3, <1>5, <3>1
    <3> HIDE DEF p
    <3>3. word[size(i - 1) + j] = ss[i][j]
      BY <1>8, <3>2
    <3> QED BY <2>2, <3>3
  <2> HIDE DEF a, b, prefix
  <2>5. /\ c \in Seq(T) /\ DOMAIN c = 1 .. Len(a) + Len(b) /\ c = [x \in DOMAIN c |-> c[x]]
        /\ \A x \in 1 .. Len(a) : c[x] = a[x]
        /\ \A j \in 1 .. Len(b) : c[Len(a) + j] = b[j]
    <3>1. a \in Seq(T) /\ b \in Seq(T)
      BY <2>2
    <3>2. c \in Seq(T)
      BY <3>1, Concatenated
    <3>3. DOMAIN c = 1 .. Len(a) + Len(b)
      BY <3>1, Concatenated
    <3>4. c = [x \in DOMAIN c |-> c[x]]
      BY <3>1, Concatenated
    <3>5. \A x \in 1 .. Len(a) : c[x] = a[x]
      BY <3>1, Concatenated
    <3>6. \A j \in 1 .. Len(b) : c[Len(a) + j] = b[j]
      BY <3>1, Concatenated
    <3> QED BY <3>2, <3>3, <3>4, <3>5, <3>6
  <2>6. ASSUME NEW x \in 1 .. size(i) PROVE c[x] = word[x]
    <3>1. Len(a) \in Nat /\ Len(b) \in Nat
      BY <2>2
    <3>2. CASE x <= Len(a)
      BY <2>2, <2>5, <3>1, <3>2
    <3>3. CASE ~(x <= Len(a))
      <4> DEFINE j == x - Len(a)
      <4>1. j \in 1 .. Len(b) /\ Len(a) + j = x
        BY <2>3, <3>1, <3>3
      <4> HIDE DEF j
      <4> QED BY <2>4, <2>5, <4>1
    <3> QED BY <3>2, <3>3
  <2>7. DOMAIN c = 1 .. size(i)
    BY <2>3, <2>5
  <2> HIDE DEF c
  <2>8. c = [x \in 1 .. size(i) |-> word[x]]
    BY <2>5, <2>6, <2>7
  <2> QED BY <2>8 DEF prefix, a, b, c
<1>13. \A i \in 1 .. N : g[i] = IF i = 1 THEN ss[i] ELSE g[i - 1] \o ss[i]
  <2> TAKE i \in 1 .. N
  <2>1. g[i] = prefix(i)
    OBVIOUS
  <2>2. CASE i = 1
    <3>1. prefix(0) = <<>>
      BY <1>3
    <3>2. <<>> \o ss[1] = ss[1]
      BY <1>1, <2>2
    <3>3. prefix(1) = prefix(0) \o ss[1]
      <4> HIDE DEF prefix
      <4>1. prefix(i) = prefix(i - 1) \o ss[i]
        BY <1>12
      <4>2. i - 1 = 0
        BY <2>2
      <4> QED BY <2>2, <4>1, <4>2
    <3> HIDE DEF prefix
    <3> QED BY <2>1, <2>2, <3>1, <3>2, <3>3
  <2>3. CASE i # 1
    <3>1. i - 1 \in 1 .. N
      BY <1>1, <2>3
    <3>2. g[i - 1] = prefix(i - 1)
      BY <3>1
    <3> HIDE DEF prefix
    <3> QED BY <1>12, <2>1, <2>3, <3>2
  <2> QED BY <2>2, <2>3
<1>14. Solves(g)
  <2>1. g = [i \in 1 .. N |-> g[i]]
    OBVIOUS
  <2> HIDE DEF g
  <2> QED BY <1>13, <2>1
<1>15. Solves(f)
  <2> DEFINE Q(h) == Solves(h)
  <2>1. \E h : Q(h)
    BY <1>14
  <2> HIDE DEF Q
  <2>2. Q(CHOOSE h : Q(h))
    BY <2>1
  <2> QED BY <2>2 DEF Q, f
<1> DEFINE Wrong == {i \in 1 .. N : f[i] # g[i]}
<1>16. Wrong = {}
  <2> SUFFICES ASSUME Wrong # {} PROVE FALSE
    OBVIOUS
  <2> HIDE DEF g, f
  <2>1. Wrong \in SUBSET Nat
    BY <1>1
  <2>2. PICK i \in Wrong : \A k \in Wrong : i <= k
    <3> HIDE DEF Wrong
    <3> QED BY <2>1, LeastNat
  <2>3. i \in 1 .. N /\ f[i] # g[i] /\ i \in Nat
    BY <1>1
  <2>4. f[i] = IF i = 1 THEN ss[i] ELSE f[i - 1] \o ss[i]
    BY <1>15, <2>3
  <2>5. i # 1
    BY <1>13, <2>3, <2>4
  <2>6. i - 1 \in 1 .. N /\ ~(i <= i - 1)
    BY <1>1, <2>3, <2>5
  <2>7. f[i - 1] = g[i - 1]
    BY <2>2, <2>6
  <2> QED BY <1>13, <2>3, <2>4, <2>5, <2>7
<1>17. N # 0 => SE!FlattenSeq(ss) = word
  <2> SUFFICES ASSUME N # 0 PROVE SE!FlattenSeq(ss) = word
    OBVIOUS
  <2>1. N \in 1 .. N
    BY <1>1
  <2>2. f[N] = g[N]
    <3> HIDE DEF g
    <3> QED BY <1>16, <2>1
  <2>3. g[N] = word
    BY <1>9, <2>1
  <2> QED BY <1>6, <2>2, <2>3
<1>18. N = 0 => SE!FlattenSeq(ss) = <<>> /\ P = {} /\ size(N) = 0
  BY <1>1, <1>3, <1>5, <1>6
<1>19. SE!FlattenSeq(ss) \in Seq(T) /\ Len(SE!FlattenSeq(ss)) = size(N)
       /\ \A p \in P : SE!FlattenSeq(ss)[At(P, p)] = ss[p[1]][p[2]]
  <2>1. CASE N = 0
    <3>1. <<>> \in Seq(T) /\ Len(<<>>) = 0
      OBVIOUS
    <3> QED BY <1>18, <2>1, <3>1
  <2>2. CASE N # 0
    <3>1. size(N) \in Nat
      BY <1>1, <1>3
    <3>2. word \in Seq(T) /\ Len(word) = size(N)
      BY <1>9, <3>1
    <3> QED BY <1>8, <1>17, <2>2, <3>2
  <2> QED BY <2>1, <2>2
<1>20. Lists(SE!FlattenSeq(ss), P, [p \in P |-> ss[p[1]][p[2]]])
  BY <1>3, <1>19 DEF Lists
<1> QED BY <1>19, <1>20 DEF P

(* A list's elements are the values it lists.                              *)
LEMMA ListedValues ==
  ASSUME NEW T, NEW s \in Seq(T), NEW C, NEW val, Lists(s, C, val)
  PROVE  s \in Seq({val[p] : p \in C})
<1>1. C \in SUBSET (Nat \X Nat) /\ IsFiniteSet(C) /\ Len(s) = Cardinality(C)
      /\ (\A p \in C : s[At(C, p)] = val[p]) /\ DOMAIN s = 1 .. Cardinality(C)
      /\ s = [i \in DOMAIN s |-> s[i]] /\ Len(s) \in Nat
  BY DEF Lists
<1>2. \A k \in 1 .. Cardinality(C) : \E p \in C : At(C, p) = k
  BY <1>1, LoopNumbers
<1> DEFINE V == {val[p] : p \in C}
<1>3. \A i \in DOMAIN s : s[i] \in V
  BY <1>1, <1>2
<1> HIDE DEF V
<1>4. s \in [1 .. Len(s) -> V]
  BY <1>1, <1>3
<1> QED BY <1>1, <1>4 DEF V

-----------------------------------------------------------------------------
(* The join of two streams.                                                *)

KeysMatch(l, r) ==
  KeyStr(l, keys.left) # NoKey /\ KeyStr(l, keys.left) = KeyStr(r, keys.right)
Matches(ls, rs) == {p \in (DOMAIN ls) \X (DOMAIN rs) : KeysMatch(ls[p[1]], rs[p[2]])}

(* The positions of the right rows that match the i-th left row.           *)
Partners(ls, rs, i) == {m \in DOMAIN rs : KeysMatch(ls[i], rs[m])}

(* Probing the index with a left row gives its partners in their order.    *)
LEMMA ProbedInOrder ==
  ASSUME NEW U, NEW ls \in Seq(U), NEW V, NEW rs \in Seq(V)
  PROVE  HashJoin(ls, rs) =
           SE!FlattenSeq([i \in DOMAIN ls |->
             [j \in 1 .. Cardinality(Partners(ls, rs, i)) |->
                MergeRows(ls[i], rs[NthOf(Partners(ls, rs, i), j)])]])
<1> DEFINE index == Index(rs)
           key(i) == KeyStr(ls[i], keys.left)
           M(i) == Partners(ls, rs, i)
           probe(i) == IF key(i) \notin DOMAIN index THEN <<>>
                       ELSE [j \in DOMAIN index[key(i)] |-> MergeRows(ls[i], rs[index[key(i)][j]])]
           ids == [m \in DOMAIN rs |-> m]
           K(k) == {m \in DOMAIN rs : KeyStr(rs[m], keys.right) = k}
<1>1. HashJoin(ls, rs) = SE!FlattenSeq([i \in DOMAIN ls |-> probe(i)])
  BY DEF HashJoin
<1>2. /\ DOMAIN index = {KeyStr(rs[m], keys.right) : m \in DOMAIN rs} \ {NoKey}
      /\ \A k \in DOMAIN index : index[k] = Kept(ids, K(k))
  BY DEF Index
<1>3. ids \in Seq(Nat) /\ DOMAIN ids = DOMAIN rs /\ DOMAIN rs \in SUBSET Nat
  OBVIOUS
<1>4. ASSUME NEW k \in DOMAIN index
      PROVE  /\ DOMAIN index[k] = 1 .. Cardinality(K(k))
             /\ \A j \in 1 .. Cardinality(K(k)) : index[k][j] = NthOf(K(k), j)
  <2>1. K(k) \in SUBSET DOMAIN ids
    BY <1>3
  <2>2. index[k] = Kept(ids, K(k))
    BY <1>2
  <2> HIDE DEF K, ids, index
  <2>3. IsFiniteSet(K(k)) /\ K(k) \in SUBSET Nat
    BY <1>3, <2>1, KeptIsASequence
  <2>4. \A j \in 1 .. Cardinality(K(k)) : NthOf(K(k), j) \in K(k)
    BY <2>3, NthOfCounts
  <2>5. DOMAIN index[k] = 1 .. Cardinality(K(k))
        /\ \A j \in 1 .. Cardinality(K(k)) : index[k][j] = ids[NthOf(K(k), j)]
    BY <2>2 DEF Kept
  <2>6. \A m \in K(k) : ids[m] = m
    BY <1>3, <2>1 DEF ids
  <2> QED BY <2>4, <2>5, <2>6
<1>5. ASSUME NEW i \in DOMAIN ls
      PROVE  probe(i) = [j \in 1 .. Cardinality(M(i)) |-> MergeRows(ls[i], rs[NthOf(M(i), j)])]
  <2>1. CASE key(i) \in DOMAIN index
    <3>1. key(i) # NoKey
      BY <1>2, <2>1
    <3>2. M(i) = K(key(i))
      BY <3>1 DEF Partners, KeysMatch
    <3> HIDE DEF K, index, M, key
    <3> QED BY <1>4, <2>1, <3>2
  <2>2. CASE key(i) \notin DOMAIN index
    <3>1. M(i) = {}
      BY <1>2, <2>2 DEF Partners, KeysMatch
    <3>2. Cardinality(M(i)) = 0
      BY <3>1, FS_EmptySet
    <3> HIDE DEF M, key, index
    <3> QED BY <2>2, <3>2
  <2> QED BY <2>1, <2>2
<1>6. [i \in DOMAIN ls |-> probe(i)]
        = [i \in DOMAIN ls |->
             [j \in 1 .. Cardinality(M(i)) |-> MergeRows(ls[i], rs[NthOf(M(i), j)])]]
  <2> HIDE DEF probe, M
  <2> QED BY <1>5
<1> QED BY <1>1, <1>6

LEMMA HashJoinLists ==
  ASSUME NEW U, NEW ls \in Seq(U), NEW V, NEW rs \in Seq(V)
  PROVE  /\ \E W : HashJoin(ls, rs) \in Seq(W)
         /\ Lists(HashJoin(ls, rs), Matches(ls, rs),
                  [p \in Matches(ls, rs) |-> MergeRows(ls[p[1]], rs[p[2]])])
<1> DEFINE M(i) == Partners(ls, rs, i)
           merge(p) == MergeRows(ls[p[1]], rs[p[2]])
           T == {merge(p) : p \in (DOMAIN ls) \X (DOMAIN rs)}
           ss == [i \in DOMAIN ls |->
                    [j \in 1 .. Cardinality(M(i)) |-> MergeRows(ls[i], rs[NthOf(M(i), j)])]]
           C == Places(ss)
           D == Matches(ls, rs)
           val == [p \in C |-> ss[p[1]][p[2]]]
           wal == [p \in D |-> MergeRows(ls[p[1]], rs[p[2]])]
           f == [p \in C |-> <<p[1], NthOf(M(p[1]), p[2])>>]
<1>1. /\ Len(ls) \in Nat /\ DOMAIN ls = 1 .. Len(ls)
      /\ Len(rs) \in Nat /\ DOMAIN rs = 1 .. Len(rs)
  OBVIOUS
<1>2. \A i \in DOMAIN ls : M(i) \in SUBSET DOMAIN rs /\ IsFiniteSet(M(i)) /\ M(i) \in SUBSET Nat
  <2> TAKE i \in DOMAIN ls
  <2>1. M(i) \in SUBSET DOMAIN rs
    BY DEF Partners
  <2> HIDE DEF M
  <2> QED BY <2>1, KeptIsASequence
<1> HIDE DEF M
<1>3. ASSUME NEW i \in DOMAIN ls
      PROVE  /\ Cardinality(M(i)) \in Nat
             /\ \A j \in 1 .. Cardinality(M(i)) : NthOf(M(i), j) \in M(i)
             /\ \A j, k \in 1 .. Cardinality(M(i)) : j < k => NthOf(M(i), j) < NthOf(M(i), k)
             /\ \A m \in M(i) : \E j \in 1 .. Cardinality(M(i)) : NthOf(M(i), j) = m
  BY <1>2, NthOfCounts
<1>4. ASSUME NEW i \in DOMAIN ls, NEW m \in M(i)
      PROVE  MergeRows(ls[i], rs[m]) \in T
  <2> DEFINE p == <<i, m>>
  <2>1. p \in (DOMAIN ls) \X (DOMAIN rs) /\ p[1] = i /\ p[2] = m
    BY <1>2
  <2> HIDE DEF p
  <2> QED BY <2>1
<1> HIDE DEF T, D
<1>5. \A i \in DOMAIN ls : ss[i] \in Seq(T) /\ DOMAIN ss[i] = 1 .. Cardinality(M(i))
        /\ \A j \in 1 .. Cardinality(M(i)) : ss[i][j] = MergeRows(ls[i], rs[NthOf(M(i), j)])
  <2> TAKE i \in DOMAIN ls
  <2> DEFINE q == [j \in 1 .. Cardinality(M(i)) |-> MergeRows(ls[i], rs[NthOf(M(i), j)])]
  <2>1. q \in [1 .. Cardinality(M(i)) -> T]
    BY <1>3, <1>4
  <2>2. q \in Seq(T)
    <3> DEFINE c == Cardinality(M(i))
    <3>1. c \in Nat /\ q \in [1 .. c -> T]
      BY <1>3, <2>1
    <3> HIDE DEF c, q
    <3> QED BY <3>1
  <2>3. ss[i] = q
    OBVIOUS
  <2>4. DOMAIN q = 1 .. Cardinality(M(i))
        /\ \A j \in 1 .. Cardinality(M(i)) : q[j] = MergeRows(ls[i], rs[NthOf(M(i), j)])
    OBVIOUS
  <2> HIDE DEF q, ss
  <2> QED BY <2>2, <2>3, <2>4
<1>6. ss \in Seq(Seq(T)) /\ DOMAIN ss = DOMAIN ls
  <2> DEFINE S == Seq(T)
  <2>1. DOMAIN ss = DOMAIN ls /\ ss = [i \in DOMAIN ls |-> ss[i]]
    OBVIOUS
  <2>2. \A i \in DOMAIN ls : ss[i] \in S
    BY <1>5
  <2> HIDE DEF S, ss
  <2>3. ss \in Seq(S)
    BY <1>1, <2>1, <2>2
  <2> QED BY <2>1, <2>3 DEF S
<1>7. HashJoin(ls, rs) = SE!FlattenSeq(ss)
  BY ProbedInOrder DEF M
<1> HIDE DEF ss
<1>8. HashJoin(ls, rs) \in Seq(T) /\ Lists(HashJoin(ls, rs), C, val)
  BY <1>6, <1>7, FlattenLists
<1>9. \A p : p \in C <=> \E i \in DOMAIN ls : \E j \in 1 .. Cardinality(M(i)) : p = <<i, j>>
  <2>1. \A i \in DOMAIN ls : DOMAIN ss[i] = 1 .. Cardinality(M(i)) /\ Cardinality(M(i)) \in Nat
    BY <1>3, <1>5
  <2> HIDE DEF ss
  <2>2. \A p : p \in Places(ss) <=> \E i \in DOMAIN ss : \E j \in DOMAIN ss[i] : p = <<i, j>>
    BY DEF Places
  <2> QED BY <1>6, <2>1, <2>2
<1> HIDE DEF C
<1>10. \A p : p \in D <=> \E i \in DOMAIN ls : \E m \in M(i) : p = <<i, m>>
  BY DEF D, M, Matches, Partners
<1>11. D \in SUBSET (Nat \X Nat)
  BY <1>1, <1>2, <1>10
<1>12. f \in [C -> D]
  BY <1>3, <1>9, <1>10
<1>13. \A d \in D : \E c \in C : f[c] = d
  <2> TAKE d \in D
  <2>1. PICK i \in DOMAIN ls : \E m \in M(i) : d = <<i, m>>
    BY <1>10
  <2>4. PICK m \in M(i) : d = <<i, m>>
    BY <2>1
  <2>2. PICK j \in 1 .. Cardinality(M(i)) : NthOf(M(i), j) = m
    BY <1>3
  <2>3. <<i, j>> \in C
    BY <1>9
  <2> QED BY <2>4, <2>2, <2>3
<1>14. ASSUME NEW p \in C, NEW q \in C, Before(p, q) PROVE Before(f[p], f[q])
  <2>5. PICK i \in DOMAIN ls : \E j \in 1 .. Cardinality(M(i)) : p = <<i, j>>
    BY <1>9
  <2>1. PICK j \in 1 .. Cardinality(M(i)) : p = <<i, j>>
    BY <2>5
  <2>6. PICK k \in DOMAIN ls : \E l \in 1 .. Cardinality(M(k)) : q = <<k, l>>
    BY <1>9
  <2>2. PICK l \in 1 .. Cardinality(M(k)) : q = <<k, l>>
    BY <2>6
  <2>3. f[p] = <<i, NthOf(M(i), j)>> /\ f[q] = <<k, NthOf(M(k), l)>>
    BY <2>1, <2>2
  <2>4. i < k \/ (i = k /\ j < l)
    BY <1>14, <2>1, <2>2 DEF Before
  <2> QED BY <1>3, <2>3, <2>4 DEF Before
<1>15. \A p \in C : val[p] = wal[f[p]]
  <2> TAKE p \in C
  <2>4. PICK i \in DOMAIN ls : \E j \in 1 .. Cardinality(M(i)) : p = <<i, j>>
    BY <1>9
  <2>1. PICK j \in 1 .. Cardinality(M(i)) : p = <<i, j>>
    BY <2>4
  <2>2. val[p] = MergeRows(ls[i], rs[NthOf(M(i), j)])
    BY <1>5, <2>1
  <2> DEFINE d == <<i, NthOf(M(i), j)>>
  <2>3. f[p] = d /\ d[1] = i /\ d[2] = NthOf(M(i), j) /\ d \in D
    BY <1>12, <2>1
  <2> HIDE DEF d, f
  <2> QED BY <2>2, <2>3
<1> HIDE DEF f, val, wal
<1>16. Lists(HashJoin(ls, rs), D, wal)
  <2> DEFINE s == HashJoin(ls, rs)
  <2>1. Lists(s, C, val)
    BY <1>8
  <2>2. \A p, q \in C : Before(p, q) => Before(f[p], f[q])
    BY <1>14
  <2> HIDE DEF s, D
  <2>3. Lists(s, D, wal)
    BY <2>1, <2>2, <1>11, <1>12, <1>13, <1>15, Renamed
  <2> QED BY <2>3 DEF s
<1>17. wal = [p \in Matches(ls, rs) |-> MergeRows(ls[p[1]], rs[p[2]])] /\ D = Matches(ls, rs)
  BY DEF wal, D
<1>18. \E W : HashJoin(ls, rs) \in Seq(W)
  BY <1>8
<1>19. Lists(HashJoin(ls, rs), Matches(ls, rs),
              [p \in Matches(ls, rs) |-> MergeRows(ls[p[1]], rs[p[2]])])
  <2> HIDE DEF wal, D
  <2> QED BY <1>16, <1>17, Zenon
<1> HIDE DEF T, C, D, wal, f, val, ss, M
<1> QED BY <1>18, <1>19

-----------------------------------------------------------------------------
(* One bucket.                                                             *)

(* The keys of two rows of the streams match when their cells agree.       *)
LEMMA MatchIsAgreement ==
  ASSUME Chosen, NEW i \in DOMAIN left, NEW j \in DOMAIN right
  PROVE  KeysMatch(left[i], right[j]) <=> Agree(left[i], right[j])
<1>1. ASSUME keys.left \in DOMAIN left[i] PROVE left[i][keys.left].text # NoKey
  <2>1. left[i][keys.left] \in KeyCells(left, keys.left)
    BY <1>1 DEF KeyCells
  <2> QED BY <2>1, JoinAssumption DEF Chosen
<1>2. ASSUME keys.right \in DOMAIN right[j] PROVE right[j][keys.right].text # NoKey
  <2>1. right[j][keys.right] \in KeyCells(right, keys.right)
    BY <1>2 DEF KeyCells
  <2> QED BY <2>1, JoinAssumption DEF Chosen
<1> QED BY <1>1, <1>2 DEF KeysMatch, KeyStr, Agree

LEMMA StreamsAreSequences ==
  ASSUME Chosen
  PROVE  /\ left \in Seq(SE!ToSet(left)) /\ right \in Seq(SE!ToSet(right))
         /\ DOMAIN left \in SUBSET Nat /\ DOMAIN right \in SUBSET Nat
         /\ IsFiniteSet(MatchingPairs) /\ MatchingPairs \in SUBSET (Nat \X Nat)
<1>1. left \in Seq(SE!ToSet(left)) /\ right \in Seq(SE!ToSet(right))
  BY JoinAssumption DEF Chosen
<1>2. /\ DOMAIN left = 1 .. Len(left) /\ Len(left) \in Nat
      /\ DOMAIN right = 1 .. Len(right) /\ Len(right) \in Nat
  BY <1>1
<1>3. IsFiniteSet(DOMAIN left) /\ IsFiniteSet(DOMAIN right)
  BY <1>2, FS_Interval
<1>4. IsFiniteSet((DOMAIN left) \X (DOMAIN right))
  BY <1>3, FS_Product
<1>5. MatchingPairs \in SUBSET ((DOMAIN left) \X (DOMAIN right))
  BY DEF MatchingPairs
<1>6. IsFiniteSet(MatchingPairs)
  BY <1>4, <1>5, FS_Subset
<1> QED BY <1>1, <1>2, <1>5, <1>6

(* Joining a bucket gives the rows of its pairs.                           *)
LEMMA BucketLists ==
  ASSUME Chosen, NEW b \in Nat
  PROVE  LET joined == HashJoin(PartitionByKey(left, keys.left, b),
                                PartitionByKey(right, keys.right, b))
         IN  /\ \E W : joined \in Seq(W)
             /\ Lists(joined, PairsOf(b), [p \in PairsOf(b) |-> Merged(p)])
<1> DEFINE K(rows, column) == {i \in DOMAIN rows :
                KeyStr(rows[i], column) # NoKey /\ BucketOf(rows[i], column) = b}
           KL == K(left, keys.left)
           KR == K(right, keys.right)
           ls == PartitionByKey(left, keys.left, b)
           rs == PartitionByKey(right, keys.right, b)
           s == HashJoin(ls, rs)
           C == Matches(ls, rs)
           D == PairsOf(b)
           val == [p \in C |-> MergeRows(ls[p[1]], rs[p[2]])]
           wal == [p \in D |-> Merged(p)]
           f == [p \in C |-> <<NthOf(KL, p[1]), NthOf(KR, p[2])>>]
           U == SE!ToSet(left)
           V == SE!ToSet(right)
<1>1. left \in Seq(U) /\ right \in Seq(V) /\ DOMAIN left \in SUBSET Nat /\ DOMAIN right \in SUBSET Nat
  BY StreamsAreSequences
<1>2. ls = Kept(left, KL) /\ rs = Kept(right, KR)
  BY DEF PartitionByKey
<1>3. KL \in SUBSET DOMAIN left /\ KR \in SUBSET DOMAIN right
  OBVIOUS
<1>4. \A i \in DOMAIN left : i \in KL <=>
        KeyStr(left[i], keys.left) # NoKey /\ BucketOf(left[i], keys.left) = b
  OBVIOUS
<1>5. \A j \in DOMAIN right : j \in KR <=>
        KeyStr(right[j], keys.right) # NoKey /\ BucketOf(right[j], keys.right) = b
  OBVIOUS
<1> HIDE DEF K, KL, KR, U, V
<1>6. ls \in Seq(U) /\ IsFiniteSet(KL) /\ KL \in SUBSET Nat /\ Len(ls) = Cardinality(KL)
  BY <1>1, <1>2, <1>3, KeptIsASequence
<1>7. rs \in Seq(V) /\ IsFiniteSet(KR) /\ KR \in SUBSET Nat /\ Len(rs) = Cardinality(KR)
  BY <1>1, <1>2, <1>3, KeptIsASequence
<1>8. /\ DOMAIN ls = 1 .. Cardinality(KL)
      /\ \A i \in DOMAIN ls : ls[i] = left[NthOf(KL, i)]
  BY <1>2 DEF Kept
<1>9. /\ DOMAIN rs = 1 .. Cardinality(KR)
      /\ \A j \in DOMAIN rs : rs[j] = right[NthOf(KR, j)]
  BY <1>2 DEF Kept
<1>10. /\ \A i \in DOMAIN ls : NthOf(KL, i) \in KL
       /\ \A i, j \in DOMAIN ls : i < j => NthOf(KL, i) < NthOf(KL, j)
       /\ \A i \in KL : \E j \in DOMAIN ls : NthOf(KL, j) = i
  <2>1. /\ \A k \in 1 .. Cardinality(KL) : NthOf(KL, k) \in KL
        /\ \A k, l \in 1 .. Cardinality(KL) : k < l => NthOf(KL, k) < NthOf(KL, l)
        /\ \A i \in KL : \E k \in 1 .. Cardinality(KL) : NthOf(KL, k) = i
    BY <1>6, NthOfCounts
  <2> HIDE DEF ls
  <2> QED BY <2>1, <1>8
<1>11. /\ \A i \in DOMAIN rs : NthOf(KR, i) \in KR
       /\ \A i, j \in DOMAIN rs : i < j => NthOf(KR, i) < NthOf(KR, j)
       /\ \A i \in KR : \E j \in DOMAIN rs : NthOf(KR, j) = i
  <2>1. /\ \A k \in 1 .. Cardinality(KR) : NthOf(KR, k) \in KR
        /\ \A k, l \in 1 .. Cardinality(KR) : k < l => NthOf(KR, k) < NthOf(KR, l)
        /\ \A i \in KR : \E k \in 1 .. Cardinality(KR) : NthOf(KR, k) = i
    BY <1>7, NthOfCounts
  <2> HIDE DEF rs
  <2> QED BY <2>1, <1>9
<1> HIDE DEF ls, rs
<1>12. (\E W : s \in Seq(W)) /\ Lists(s, C, val)
  BY <1>6, <1>7, HashJoinLists
<1>13. \A p : p \in C <=> \E i \in DOMAIN ls, j \in DOMAIN rs :
         p = <<i, j>> /\ Agree(left[NthOf(KL, i)], right[NthOf(KR, j)])
  <2>1. \A p : p \in C <=> \E i \in DOMAIN ls, j \in DOMAIN rs :
          p = <<i, j>> /\ KeysMatch(ls[i], rs[j])
    BY DEF Matches
  <2>2. \A i \in DOMAIN ls, j \in DOMAIN rs :
          KeysMatch(ls[i], rs[j]) <=> Agree(left[NthOf(KL, i)], right[NthOf(KR, j)])
    BY <1>3, <1>8, <1>9, <1>10, <1>11, MatchIsAgreement
  <2> QED BY <2>1, <2>2
<1>14. \A p : p \in D <=> \E i \in KL, j \in KR : p = <<i, j>> /\ Agree(left[i], right[j])
  <2>1. \A p : p \in D <=> \E i \in DOMAIN left, j \in DOMAIN right :
          p = <<i, j>> /\ Agree(left[i], right[j]) /\ BucketOf(left[i], keys.left) = b
    BY DEF PairsOf, MatchingPairs
  <2>2. ASSUME NEW i \in DOMAIN left, NEW j \in DOMAIN right, Agree(left[i], right[j])
        PROVE  BucketOf(left[i], keys.left) = b <=> i \in KL /\ j \in KR
    <3>1. KeysMatch(left[i], right[j])
      BY <2>2, MatchIsAgreement
    <3> QED BY <3>1, <1>4, <1>5 DEF KeysMatch, BucketOf
  <2> QED BY <1>3, <2>1, <2>2
<1> HIDE DEF C, D
<1>15. D \in SUBSET (Nat \X Nat)
  BY <1>6, <1>7, <1>14
<1>16. \A p \in C : f[p] \in D
  BY <1>10, <1>11, <1>13, <1>14
<1>17. f \in [C -> D]
  BY <1>16
<1>18. \A d \in D : \E c \in C : f[c] = d
  <2> TAKE d \in D
  <2>1. PICK i \in KL, j \in KR : d = <<i, j>> /\ Agree(left[i], right[j])
    BY <1>14
  <2>2. PICK k \in DOMAIN ls : NthOf(KL, k) = i
    BY <1>10
  <2>3. PICK l \in DOMAIN rs : NthOf(KR, l) = j
    BY <1>11
  <2>4. <<k, l>> \in C
    BY <1>13, <2>1, <2>2, <2>3
  <2> QED BY <2>1, <2>2, <2>3, <2>4
<1>19. ASSUME NEW p \in C, NEW q \in C, Before(p, q) PROVE Before(f[p], f[q])
  <2>1. PICK i \in DOMAIN ls, j \in DOMAIN rs : p = <<i, j>>
    BY <1>13
  <2>2. PICK k \in DOMAIN ls, l \in DOMAIN rs : q = <<k, l>>
    BY <1>13
  <2>3. f[p] = <<NthOf(KL, i), NthOf(KR, j)>> /\ f[q] = <<NthOf(KL, k), NthOf(KR, l)>>
    BY <2>1, <2>2
  <2>4. i < k \/ (i = k /\ j < l)
    BY <1>19, <2>1, <2>2 DEF Before
  <2> QED BY <1>10, <1>11, <2>3, <2>4 DEF Before
<1>20. \A p \in C : val[p] = wal[f[p]]
  <2> TAKE p \in C
  <2>1. PICK i \in DOMAIN ls, j \in DOMAIN rs : p = <<i, j>>
    BY <1>13
  <2>2. f[p] = <<NthOf(KL, i), NthOf(KR, j)>>
    BY <2>1
  <2>3. wal[f[p]] = MergeRows(left[NthOf(KL, i)], right[NthOf(KR, j)])
    <3> HIDE DEF f
    <3> QED BY <1>16, <2>2 DEF Merged
  <2>4. val[p] = MergeRows(ls[i], rs[j])
    BY <2>1
  <2> QED BY <1>8, <1>9, <2>3, <2>4
<1>21. \A p, q \in C : Before(p, q) => Before(f[p], f[q])
  BY <1>19
<1> HIDE DEF f, val, wal, s
<1>22. Lists(s, D, wal)
  <2>1. Lists(s, C, val)
    BY <1>12
  <2> QED BY <2>1, <1>15, <1>17, <1>18, <1>20, <1>21, Renamed
<1>23. wal = [p \in PairsOf(b) |-> Merged(p)] /\ D = PairsOf(b)
  BY DEF wal, D
<1>24. Lists(s, PairsOf(b), [p \in PairsOf(b) |-> Merged(p)])
  BY <1>22, <1>23, Zenon
<1> QED BY <1>12, <1>24 DEF s, ls, rs

-----------------------------------------------------------------------------
(* All buckets.                                                            *)

(* The bucket of a pair is one of the n.                                   *)
LEMMA PairsHaveABucket ==
  ASSUME Chosen, NEW p \in MatchingPairs
  PROVE  BucketOf(left[p[1]], keys.left) \in 0 .. (n - 1)
<1> DEFINE row == left[p[1]]
           text == KeyStr(row, keys.left)
<1>1. /\ p[1] \in DOMAIN left /\ keys.left \in DOMAIN row
      /\ row[keys.left].type # "null" /\ text = row[keys.left].text
  BY DEF MatchingPairs, Agree, KeyStr
<1>2. row[keys.left] \in KeyCells(left, keys.left)
  BY <1>1 DEF KeyCells
<1>3. hash[text] \in Nat
  BY <1>1, <1>2, JoinAssumption DEF Chosen
<1> DEFINE h == hash[text]
<1>4. n \in Nat /\ n > 0
  BY DEF Chosen
<1>5. h \in Nat
  BY <1>3
<1>6. BucketOf(row, keys.left) = h % n
  BY DEF BucketOf
<1> HIDE DEF h, row
<1> QED BY <1>4, <1>5, <1>6, DivisionIsExact DEF row

(* The pairs of the buckets joined so far and those of a bucket.           *)
LEMMA PairsInParts ==
  ASSUME Chosen
  PROVE  /\ IsFiniteSet(PairsJoined) /\ PairsJoined \in SUBSET MatchingPairs
         /\ IsFiniteSet(PairsOf(bucket)) /\ PairsOf(bucket) \in SUBSET MatchingPairs
         /\ PairsJoined \cap PairsOf(bucket) = {}
         /\ bucket = 0 => PairsJoined = {}
         /\ bucket = n => PairsJoined = MatchingPairs
<1>1. PairsJoined \in SUBSET MatchingPairs /\ PairsOf(bucket) \in SUBSET MatchingPairs
  BY DEF PairsJoined, PairsOf
<1>2. IsFiniteSet(PairsJoined) /\ IsFiniteSet(PairsOf(bucket))
  BY <1>1, StreamsAreSequences, FS_Subset
<1>3. n \in Nat /\ bucket \in Nat
  BY DEF Chosen
<1>4. \A p \in MatchingPairs :
        /\ BucketOf(left[p[1]], keys.left) \in Nat
        /\ BucketOf(left[p[1]], keys.left) < n
  BY <1>3, PairsHaveABucket
<1> QED BY <1>1, <1>2, <1>3, <1>4 DEF PairsJoined, PairsOf

LEMMA NothingJoinedYet == Init => IInv
<1> SUFFICES ASSUME Init PROVE IInv
  OBVIOUS
<1>1. Chosen
  BY JoinAssumption DEF Init, Chosen, AtLeastOne
<1>2. PairsJoined = {} /\ bucket = 0 /\ out = <<>>
  BY <1>1, PairsInParts DEF Init
<1>3. Cardinality({}) = 0
  BY FS_EmptySet
<1>4. \A x : Count(out, x) = 0
  <2> TAKE x
  <2>1. {i \in DOMAIN out : out[i] = x} = {}
    BY <1>2
  <2> QED BY <1>3, <2>1 DEF Count
<1>5. \A p \in MatchingPairs : {q \in PairsJoined : Merged(q) = Merged(p)} = {}
  BY <1>2
<1>6. Len(out) = 0 /\ out \in Seq({Merged(p) : p \in MatchingPairs})
  BY <1>2
<1>7. JoinedOnce
  BY <1>2, <1>3, <1>4, <1>5, <1>6 DEF JoinedOnce
<1> QED BY <1>1, <1>2, <1>7 DEF IInv, FirstInOrder

LEMMA NothingElseChanges ==
  ASSUME JoinBucket
  PROVE  /\ MatchingPairs' = MatchingPairs
         /\ PairsOf(0)' = PairsOf(0)
         /\ \A p : Merged(p)' = Merged(p)
         /\ Chosen => PairsJoined' = PairsJoined \cup PairsOf(bucket)
<1>1. /\ left' = left /\ right' = right /\ keys' = keys /\ hash' = hash /\ n' = n
      /\ bucket' = bucket + 1
  BY DEF JoinBucket
<1>2. MatchingPairs' = MatchingPairs
  BY <1>1 DEF MatchingPairs, Agree
<1>3. \A row, column : BucketOf(row, column)' = BucketOf(row, column)
  BY <1>1 DEF BucketOf, KeyStr
<1>4. PairsOf(0)' = PairsOf(0)
  BY <1>1, <1>2, <1>3 DEF PairsOf, BucketOf, KeyStr
<1>5. \A p : Merged(p)' = Merged(p)
  BY <1>1 DEF Merged
<1>6. ASSUME Chosen PROVE PairsJoined' = PairsJoined \cup PairsOf(bucket)
  <2>1. PairsJoined' = {p \in MatchingPairs : BucketOf(left[p[1]], keys.left) < bucket + 1}
    BY <1>1, <1>2 DEF PairsJoined, BucketOf, KeyStr
  <2>2. \A p \in MatchingPairs : BucketOf(left[p[1]], keys.left) \in Nat
    BY <1>6, PairsHaveABucket
  <2>3. bucket \in Nat
    BY <1>6 DEF Chosen
  <2> QED BY <2>1, <2>2, <2>3 DEF PairsJoined, PairsOf
<1> QED BY <1>2, <1>4, <1>5, <1>6

LEMMA BucketJoined == IInv /\ JoinBucket => IInv'
<1> SUFFICES ASSUME IInv, JoinBucket PROVE IInv'
  OBVIOUS
<1> DEFINE s == HashJoin(PartitionByKey(left, keys.left, bucket),
                         PartitionByKey(right, keys.right, bucket))
           B == PairsOf(bucket)
           P == PairsJoined
           R == {Merged(p) : p \in MatchingPairs}
           val == [p \in B |-> Merged(p)]
<1>1. Chosen /\ JoinedOnce /\ bucket \in Nat
  BY DEF IInv, Chosen
<1>2. Chosen'
  BY <1>1 DEF Chosen, JoinBucket
<1>3. out' = out \o s /\ bucket' = bucket + 1
  BY DEF JoinBucket
<1>4. (\E W : s \in Seq(W)) /\ Lists(s, B, val)
  BY <1>1, BucketLists
<1> HIDE DEF s
<1>5. /\ IsFiniteSet(P) /\ IsFiniteSet(B) /\ P \cap B = {}
      /\ P \in SUBSET MatchingPairs /\ B \in SUBSET MatchingPairs
      /\ bucket = 0 => P = {}
  BY <1>1, PairsInParts
<1>6. /\ MatchingPairs' = MatchingPairs /\ PairsOf(0)' = PairsOf(0)
      /\ \A p : Merged(p)' = Merged(p)
      /\ PairsJoined' = P \cup B
  BY <1>1, NothingElseChanges
<1>7. /\ out \in Seq(R) /\ Len(out) = Cardinality(P)
      /\ \A p \in MatchingPairs :
           Count(out, Merged(p)) = Cardinality({q \in P : Merged(q) = Merged(p)})
  BY <1>1 DEF JoinedOnce
<1>8. \A p \in B : val[p] = Merged(p)
  OBVIOUS
<1>9. s \in Seq(R)
  <2>1. s \in Seq({val[p] : p \in B})
    BY <1>4, ListedValues
  <2>2. {val[p] : p \in B} \subseteq R
    BY <1>5, <1>8
  <2> DEFINE V == {val[p] : p \in B}
  <2> HIDE DEF V, R
  <2> QED BY <2>1, <2>2 DEF V
<1> HIDE DEF B, P, R, val
<1>10. out' \in Seq(R) /\ Len(out') = Len(out) + Len(s)
  <2>1. out \in Seq(R)
    BY <1>7
  <2>2. out \o s \in Seq(R) /\ Len(out \o s) = Len(out) + Len(s)
    BY <1>9, <2>1
  <2> QED BY <1>3, <2>2
<1>11. Len(s) = Cardinality(B)
  BY <1>4 DEF Lists
<1>12. Len(out') = Cardinality(P \cup B)
  BY <1>5, <1>7, <1>10, <1>11, InTwoParts
<1>13. ASSUME NEW p \in MatchingPairs
       PROVE  Count(out', Merged(p)) = Cardinality({q \in P \cup B : Merged(q) = Merged(p)})
  <2> DEFINE x == Merged(p)
             PX == {q \in P : Merged(q) = x}
             BX == {q \in B : Merged(q) = x}
  <2>1. \A q : Count(q, x) = Cardinality(Where(q, {x}))
    <3> TAKE q
    <3>1. {i \in DOMAIN q : q[i] = x} = Where(q, {x})
      BY DEF Where
    <3> HIDE DEF x
    <3> QED BY <3>1 DEF Count
  <2>2. Count(out, x) = Cardinality(PX)
    BY <1>7
  <2>3. Count(s, x) = Cardinality(BX)
    <3>1. Valued(B, val, x) = BX
      BY <1>8 DEF Valued
    <3>2. Lists(s, B, val)
      BY <1>4
    <3> HIDE DEF x, BX
    <3>3. Cardinality(Where(s, {x})) = Cardinality(Valued(B, val, x))
      BY <1>9, <3>2, CountListed
    <3> QED BY <2>1, <3>1, <3>3
  <2>4. IsFiniteSet(PX) /\ IsFiniteSet(BX)
    BY <1>5, FS_Subset
  <2>5. PX \cap BX = {} /\ PX \cup BX = {q \in P \cup B : Merged(q) = x}
    BY <1>5
  <2> HIDE DEF x, PX, BX
  <2>6. Cardinality(PX \cup BX) = Cardinality(PX) + Cardinality(BX)
    BY <2>4, <2>5, InTwoParts
  <2>7. Count(out \o s, x) = Count(out, x) + Count(s, x)
    BY <1>7, <1>9, <2>1, WhereConcatenated
  <2> QED BY <1>3, <2>2, <2>3, <2>5, <2>6, <2>7 DEF x
<1>14. JoinedOnce'
  <2>1. out' \in Seq({Merged(p)' : p \in MatchingPairs'})
    BY <1>6, <1>10 DEF R
  <2>2. Len(out') = Cardinality(PairsJoined')
    BY <1>6, <1>12
  <2>3. \A p \in MatchingPairs' :
          Count(out', Merged(p)') = Cardinality({q \in PairsJoined' : Merged(q)' = Merged(p)'})
    BY <1>6, <1>13
  <2> QED BY <2>1, <2>2, <2>3 DEF JoinedOnce, Count
<1>15. FirstInOrder'
  <2>1. ASSUME bucket' = 1 PROVE bucket = 0 /\ out' = s
    <3>1. bucket = 0
      BY <1>1, <1>3, <2>1
    <3>2. Len(out) = 0
      BY <1>5, <1>7, <3>1, FS_EmptySet
    <3> QED BY <1>3, <1>7, <1>9, <3>1, <3>2
  <2>2. \A p \in B : s[1 + Cardinality({q \in B : Before(q, p)})] = Merged(p)
    BY <1>4, <1>8 DEF Lists, At
  <2> QED BY <1>6, <2>1, <2>2 DEF FirstInOrder, B
<1> QED BY <1>2, <1>14, <1>15 DEF IInv

(* Whatever the streams, the hash and the number of buckets: after every   *)
(* bucket the result has one row for each pair of rows whose keys agree in *)
(* the buckets joined so far (JoinBucket), nothing twice and nothing else, *)
(* and the first bucket's rows are in the order of a nested loop.          *)
THEOREM JoinsBucketByBucket == Spec => []IInv
<1>1. IInv /\ UNCHANGED vars => IInv'
  <2> SUFFICES ASSUME IInv, UNCHANGED vars PROVE IInv'
    OBVIOUS
  <2>1. /\ left' = left /\ right' = right /\ keys' = keys /\ hash' = hash /\ n' = n
        /\ bucket' = bucket /\ out' = out
    BY DEF vars
  <2>2. MatchingPairs' = MatchingPairs
    BY <2>1 DEF MatchingPairs, Agree
  <2>3. PairsOf(0)' = PairsOf(0) /\ PairsJoined' = PairsJoined
    BY <2>1, <2>2 DEF PairsOf, PairsJoined, BucketOf, KeyStr
  <2>4. \A p : Merged(p)' = Merged(p)
    BY <2>1 DEF Merged
  <2>5. Chosen'
    BY <2>1 DEF IInv, Chosen
  <2>6. JoinedOnce'
    BY <2>1, <2>2, <2>3, <2>4 DEF IInv, JoinedOnce, Count
  <2>7. FirstInOrder'
    BY <2>1, <2>3, <2>4 DEF IInv, FirstInOrder
  <2> QED BY <2>5, <2>6, <2>7 DEF IInv
<1>2. IInv /\ [Next]_vars => IInv'
  BY <1>1, BucketJoined DEF Next
<1> QED BY <1>2, NothingJoinedYet, PTL DEF Spec

(* However the keys are hashed and however many buckets there are, the     *)
(* join (distributed_join) has each pair of matching rows exactly once.    *)
THEOREM PairsAreJoinedOnce == Spec => []EveryPairOnce
<1>1. IInv => EveryPairOnce
  BY PairsInParts DEF IInv, JoinedOnce, EveryPairOnce, Merged
<1> QED BY <1>1, JoinsBucketByBucket, PTL

(* With one bucket (the plain hash_join) the rows are in the order of the  *)
(* left side and, for one left row, in that of the right side.             *)
THEOREM OneBucketIsInOrder == Spec => []OneBucketKeepsTheOrder
<1>1. ASSUME IInv, n = 1, bucket = n PROVE OneBucketKeepsTheOrder
  <2>1. Chosen
    BY <1>1 DEF IInv
  <2>2. \A p \in MatchingPairs : BucketOf(left[p[1]], keys.left) = 0
    BY <1>1, <2>1, PairsHaveABucket
  <2>3. PairsOf(0) = MatchingPairs
    BY <2>2 DEF PairsOf
  <2> QED BY <1>1, <2>3 DEF IInv, FirstInOrder, OneBucketKeepsTheOrder, Merged
<1>2. IInv => OneBucketKeepsTheOrder
  BY <1>1 DEF OneBucketKeepsTheOrder
<1> QED BY <1>2, JoinsBucketByBucket, PTL

-----------------------------------------------------------------------------
(* Merging two rows.                                                       *)

(* The name under which the cell of the right row's column d is merged.    *)
MergedName(l, d) == IF d \in DOMAIN l THEN RightName(d) ELSE d

LEMMA RightNamesDiffer ==
  ASSUME NEW c \in Seq(STRING), NEW d \in Seq(STRING), RightName(c) = RightName(d)
  PROVE  c = d
<1> DEFINE w == "right"
           a == <<w>>
           T == STRING \cup {w}
<1>1. c \in Seq(T) /\ d \in Seq(T)
  <2> HIDE DEF w
  <2> DEFINE S == STRING
  <2>1. c \in Seq(S) /\ d \in Seq(S) /\ S \subseteq S \cup {w}
    OBVIOUS
  <2> HIDE DEF S
  <2>2. c \in Seq(S \cup {w}) /\ d \in Seq(S \cup {w})
    BY <2>1
  <2> QED BY <2>2 DEF S
<1>2. a \o c = a \o d
  BY DEF RightName
<1>3. w \in T
  OBVIOUS
<1> HIDE DEF w, T
<1>4. a \in Seq(T) /\ Len(a) = 1
  BY <1>3
<1> HIDE DEF a
<1>5. Len(c) \in Nat /\ DOMAIN c = 1 .. Len(c) /\ Len(d) \in Nat /\ DOMAIN d = 1 .. Len(d)
      /\ c = [j \in DOMAIN c |-> c[j]] /\ d = [j \in DOMAIN d |-> d[j]]
  BY <1>1
<1>6. Len(a \o c) = Len(a) + Len(c)
  BY <1>1, <1>4, Concatenated
<1>7. Len(a \o d) = Len(a) + Len(d)
  BY <1>1, <1>4, Concatenated
<1>8. Len(c) = Len(d)
  <2>1. Len(a \o c) = Len(a \o d)
    BY <1>2
  <2>2. 1 + Len(c) = 1 + Len(d)
    BY <1>4, <1>6, <1>7, <2>1
  <2>3. \A x, y \in Nat : 1 + x = 1 + y => x = y
    OBVIOUS
  <2>4. Len(c) \in Nat /\ Len(d) \in Nat
    BY <1>5
  <2> QED BY Zenon, <2>2, <2>3, <2>4
<1>9. \A j \in 1 .. Len(c) : (a \o c)[Len(a) + j] = c[j]
  <2>1. a \in Seq(T) /\ c \in Seq(T)
    BY <1>1, <1>4
  <2> QED BY <2>1, Concatenated
<1>10. \A j \in 1 .. Len(d) : (a \o d)[Len(a) + j] = d[j]
  <2>1. a \in Seq(T) /\ d \in Seq(T)
    BY <1>1, <1>4
  <2> QED BY <2>1, Concatenated
<1>11. \A j \in 1 .. Len(c) : c[j] = d[j]
  BY <1>2, <1>8, <1>9, <1>10
<1> QED BY <1>5, <1>8, <1>11

LEMMA GreatestIsThere ==
  ASSUME NEW m \in Nat, NEW T \in SUBSET (1 .. m), T # {}
  PROVE  SE!Max(T) \in T /\ \A z \in T : z <= SE!Max(T)
<1> DEFINE K == {k \in Nat : m - k \in T}
<1>1. PICK y \in T : TRUE
  OBVIOUS
<1>2. m - y \in K
  <2>1. y \in Nat /\ y <= m /\ m - (m - y) = y
    BY <1>1
  <2> QED BY <1>1, <2>1
<1>3. PICK k \in K : \A j \in K : k <= j
  <2>1. K \in SUBSET Nat /\ K # {}
    BY <1>2
  <2> HIDE DEF K
  <2> QED BY <2>1, LeastNat
<1>4. m - k \in T /\ k \in Nat
  BY <1>3
<1>5. \A z \in T : m - k >= z
  <2> TAKE z \in T
  <2>1. z \in Nat /\ z <= m /\ m - (m - z) = z /\ m - z \in Nat
    OBVIOUS
  <2>2. m - z \in K
    BY <2>1
  <2>3. k <= m - z
    BY <1>3, <2>2
  <2> QED BY <1>4, <2>1, <2>3
<1>6. \E w \in T : \A z \in T : w >= z
  BY <1>4, <1>5
<1>7. SE!Max(T) \in T /\ \A z \in T : SE!Max(T) >= z
  BY <1>6 DEF SE!Max
<1>8. \A z \in T : SE!Max(T) >= z => z <= SE!Max(T)
  BY <1>7
<1> QED BY <1>7, <1>8

(* The columns of the right row, in the order in which they are merged.    *)
ColumnsOf(r) == Kept(ColumnOrder, {i \in DOMAIN ColumnOrder : ColumnOrder[i] \in DOMAIN r})

LEMMA ColumnsOnce ==
  ASSUME NEW r, DOMAIN r \subseteq SE!ToSet(ColumnOrder)
  PROVE  /\ \E m \in Nat : DOMAIN ColumnsOf(r) = 1 .. m
         /\ \A i \in DOMAIN ColumnsOf(r) : ColumnsOf(r)[i] \in DOMAIN r
         /\ \A i, j \in DOMAIN ColumnsOf(r) : ColumnsOf(r)[i] = ColumnsOf(r)[j] => i = j
         /\ \A c \in DOMAIN r : \E i \in DOMAIN ColumnsOf(r) : ColumnsOf(r)[i] = c
         /\ DOMAIN r \subseteq Seq(STRING)
<1> DEFINE K == {i \in DOMAIN ColumnOrder : ColumnOrder[i] \in DOMAIN r}
           N == Seq(STRING)
           cols == ColumnsOf(r)
<1>1. ColumnOrder \in Seq(N) /\ \A c \in DOMAIN r : \E i \in DOMAIN ColumnOrder : ColumnOrder[i] = c
  BY ColumnAssumption DEF SE!ToSet
<1> HIDE DEF N
<1>2. K \in SUBSET DOMAIN ColumnOrder
  OBVIOUS
<1>3. \A i \in K : ColumnOrder[i] \in DOMAIN r
  OBVIOUS
<1>4. \A c \in DOMAIN r : \E i \in K : ColumnOrder[i] = c
  BY <1>1
<1>5. \A i, j \in K : ColumnOrder[i] = ColumnOrder[j] => i = j
  BY ColumnAssumption
<1>6. cols = Kept(ColumnOrder, K)
  BY DEF ColumnsOf
<1>7. DOMAIN r \subseteq N
  BY <1>1
<1> HIDE DEF K, cols
<1>8. IsFiniteSet(K) /\ K \in SUBSET Nat
  BY <1>1, <1>2, KeptIsASequence
<1>9. /\ Cardinality(K) \in Nat
      /\ \A k \in 1 .. Cardinality(K) : NthOf(K, k) \in K
      /\ \A k, l \in 1 .. Cardinality(K) : k < l => NthOf(K, k) < NthOf(K, l)
      /\ \A i \in K : \E k \in 1 .. Cardinality(K) : NthOf(K, k) = i
  BY <1>8, NthOfCounts
<1>10. DOMAIN cols = 1 .. Cardinality(K) /\ \A i \in DOMAIN cols : cols[i] = ColumnOrder[NthOf(K, i)]
  BY <1>6 DEF Kept
<1>11. ASSUME NEW i \in DOMAIN cols, NEW j \in DOMAIN cols, cols[i] = cols[j] PROVE i = j
  <2>1. NthOf(K, i) = NthOf(K, j)
    BY <1>5, <1>9, <1>10, <1>11
  <2>2. i \in Nat /\ j \in Nat /\ NthOf(K, i) \in Nat
    <3>1. NthOf(K, i) \in K
      BY <1>9, <1>10
    <3>2. K \subseteq Nat /\ i \in 1 .. Cardinality(K) /\ j \in 1 .. Cardinality(K)
      BY <1>8, <1>10
    <3>3. NthOf(K, i) \in Nat
      BY <3>1, <3>2
    <3>4. i \in Nat /\ j \in Nat
      BY <3>2
    <3> QED BY <3>3, <3>4
  <2> QED BY <1>9, <1>10, <2>1, <2>2
<1>12. \A i \in DOMAIN cols : cols[i] \in DOMAIN r
  BY <1>3, <1>9, <1>10
<1>13. \A c \in DOMAIN r : \E i \in DOMAIN cols : cols[i] = c
  BY <1>4, <1>9, <1>10
<1>14. \E m \in Nat : DOMAIN cols = 1 .. m
  BY <1>9, <1>10
<1> QED BY <1>7, <1>11, <1>12, <1>13, <1>14 DEF cols, N

(* What merging the columns at a set T of positions has done to a left row *)
(* l, if row is the result: nothing is taken away, and a cell whose column *)
(* is no prefixed name is where it belongs.                                *)
MergedUpTo(T, l, r, row) ==
  LET cols == ColumnsOf(r) IN
  /\ DOMAIN l \subseteq DOMAIN row
  /\ \A c \in DOMAIN row :
       c \in DOMAIN l \cup Prefixed(r) \/ \E i \in T : cols[i] = c
  /\ \A c \in DOMAIN l \ Prefixed(r) : row[c] = l[c]
  /\ \A i \in T : cols[i] \notin Prefixed(r) =>
       /\ MergedName(l, cols[i]) \in DOMAIN row
       /\ row[MergedName(l, cols[i])] = r[cols[i]]

(* One more column keeps that so.                                          *)
LEMMA MergingGoesOn ==
  ASSUME NEW l, NEW r, DOMAIN r \subseteq SE!ToSet(ColumnOrder),
         NEW V \in SUBSET DOMAIN ColumnsOf(r), NEW i \in DOMAIN ColumnsOf(r), i \notin V,
         NEW was, MergedUpTo(V, l, r, was)
  PROVE  MergedUpTo(V \cup {i}, l, r, AddCell(was, ColumnsOf(r)[i], r[ColumnsOf(r)[i]]))
<1> DEFINE cols == ColumnsOf(r)
           P == Prefixed(r)
           d == cols[i]
           x == IF d \in DOMAIN was THEN RightName(d) ELSE d
           row == AddCell(was, d, r[d])
<1>1. /\ \A j \in V \cup {i} : cols[j] \in DOMAIN r
      /\ \A j \in V : cols[j] # d
      /\ DOMAIN r \subseteq Seq(STRING)
  BY ColumnsOnce
<1>2. \A c \in DOMAIN r : RightName(c) \in P
  BY DEF Prefixed
<1>3. /\ DOMAIN l \subseteq DOMAIN was
      /\ \A c \in DOMAIN was : c \in DOMAIN l \cup P \/ \E j \in V : cols[j] = c
      /\ \A c \in DOMAIN l \ P : was[c] = l[c]
      /\ \A j \in V : cols[j] \notin P =>
           /\ MergedName(l, cols[j]) \in DOMAIN was
           /\ was[MergedName(l, cols[j])] = r[cols[j]]
  BY DEF MergedUpTo
<1> HIDE DEF P, cols
<1>4. /\ DOMAIN row = DOMAIN was \cup {x}
      /\ row[x] = r[d]
      /\ \A c \in DOMAIN was : c # x => row[c] = was[c]
  BY DEF AddCell, Put
<1>5. d \in DOMAIN r /\ RightName(d) \in P
  BY <1>1, <1>2
<1>6. \A c \in DOMAIN was \ P : c # x
  BY <1>5
<1>7. d \notin P => x = MergedName(l, d)
  <2> SUFFICES ASSUME d \notin P PROVE d \in DOMAIN was <=> d \in DOMAIN l
    BY DEF MergedName
  <2> QED BY <1>1, <1>3
<1>8. ASSUME NEW j \in V, cols[j] \notin P PROVE MergedName(l, cols[j]) # x
  <2> DEFINE e == cols[j]
             y == MergedName(l, e)
  <2>1. y \in DOMAIN was /\ e \in DOMAIN r /\ e # d
    BY <1>1, <1>3, <1>8
  <2>2. CASE d \notin DOMAIN was
    BY <2>1, <2>2
  <2>3. CASE d \in DOMAIN was /\ e \in DOMAIN l
    <3>1. y = RightName(e) /\ x = RightName(d)
      BY <2>3 DEF MergedName
    <3>2. e \in Seq(STRING) /\ d \in Seq(STRING)
      BY <1>1, <1>5, <2>1
    <3>3. RightName(e) # RightName(d)
      <4> HIDE DEF d, e
      <4> QED BY <2>1, <3>2, RightNamesDiffer
    <3> HIDE DEF x
    <3> QED BY <3>1, <3>3
  <2>4. CASE d \in DOMAIN was /\ e \notin DOMAIN l
    BY <1>5, <1>8, <2>4 DEF MergedName
  <2> QED BY <2>2, <2>3, <2>4
<1> HIDE DEF x, row, d
<1>9. DOMAIN l \subseteq DOMAIN row
  BY <1>3, <1>4
<1>10. \A c \in DOMAIN row : c \in DOMAIN l \cup P \/ \E j \in V \cup {i} : cols[j] = c
  <2> TAKE c \in DOMAIN row
  <2>1. CASE c \in DOMAIN was
    BY <1>3, <2>1
  <2>2. CASE c = x
    BY <1>5, <2>2 DEF x, d
  <2> QED BY <1>4, <2>1, <2>2
<1>11. \A c \in DOMAIN l \ P : row[c] = l[c]
  BY <1>3, <1>4, <1>6
<1>12. \A j \in V \cup {i} : cols[j] \notin P =>
         /\ MergedName(l, cols[j]) \in DOMAIN row
         /\ row[MergedName(l, cols[j])] = r[cols[j]]
  <2> TAKE j \in V \cup {i}
  <2> SUFFICES ASSUME cols[j] \notin P
               PROVE  /\ MergedName(l, cols[j]) \in DOMAIN row
                      /\ row[MergedName(l, cols[j])] = r[cols[j]]
    OBVIOUS
  <2>1. CASE j \in V
    BY <1>3, <1>4, <1>8, <2>1
  <2>2. CASE j = i
    BY <1>4, <1>7, <2>2 DEF d
  <2> QED BY <2>1, <2>2
<1> QED BY <1>9, <1>10, <1>11, <1>12 DEF MergedUpTo, P, cols, row, d

(* What FoldLeft computes on the way: a row for each set of positions.     *)
Merging(l, r, V, h) ==
  h = [T \in SUBSET V |->
         IF T = {} THEN l
         ELSE AddCell(h[T \ {SE!Max(T)}], ColumnsOf(r)[SE!Max(T)], r[ColumnsOf(r)[SE!Max(T)]])]

LEMMA MergingExists ==
  ASSUME NEW l, NEW r, NEW m \in Nat
  PROVE  \E h : Merging(l, r, 1 .. m, h)
<1> DEFINE D == 1 .. m
           last(T) == SE!Max(T)
           add(row, i) == AddCell(row, ColumnsOf(r)[i], r[ColumnsOf(r)[i]])
           U == {V \in SUBSET D : ~ \E h : Merging(l, r, V, h)}
<1> SUFFICES ASSUME U # {} PROVE FALSE
  OBVIOUS
<1>1. PICK V \in U : \A W \in U : W \subseteq V => W = V
  <2>1. IsFiniteSet(D)
    BY FS_Interval
  <2> U \in SUBSET SUBSET D
    OBVIOUS
  <2> HIDE DEF U, D
  <2> QED BY <2>1, LeastSubset
<1>2. \A T \in SUBSET D : T # {} => last(T) \in T /\ \A z \in T : z <= last(T)
  BY GreatestIsThere
<1>3. V \in SUBSET D /\ ~ \E h : Merging(l, r, V, h)
  BY <1>1
<1> HIDE DEF last, add
<1>4. V # {}
  <2> SUFFICES ASSUME V = {} PROVE FALSE
    OBVIOUS
  <2> DEFINE h == [T \in SUBSET V |-> l]
  <2>1. Merging(l, r, V, h)
    <3>1. \A T \in SUBSET V : T = {}
      OBVIOUS
    <3> QED BY <3>1 DEF Merging
  <2> QED BY <1>3, <2>1
<1> DEFINE i == last(V)
           W == V \ {i}
<1>5. i \in V /\ W \in SUBSET V /\ W # V /\ W \in SUBSET D
  BY <1>2, <1>3, <1>4
<1>6. PICK g : Merging(l, r, W, g)
  <2> HIDE DEF W
  <2>1. W \notin U
    BY <1>1, <1>5
  <2> QED BY <1>5, <2>1
<1>7. ASSUME NEW T \in SUBSET V, i \in T
      PROVE  last(T) = i /\ T \ {i} \in SUBSET W /\ T # {}
  <2>1. last(T) \in T /\ i <= last(T)
    BY <1>2, <1>3, <1>7
  <2>2. last(T) <= i
    BY <1>2, <1>3, <1>4, <2>1
  <2>3. i \in Int /\ last(T) \in Int
    <3>1. i \in D /\ last(T) \in D
      BY <1>3, <1>5, <2>1
    <3> HIDE DEF i
    <3> QED BY <3>1
  <2> HIDE DEF i
  <2>4. last(T) = i
    BY <2>1, <2>2, <2>3
  <2> QED BY <1>7, <2>4
<1> HIDE DEF i
<1>8. ASSUME NEW T \in SUBSET V, i \notin T
      PROVE  T \in SUBSET W /\ (T # {} => T \ {last(T)} \in SUBSET W)
  BY <1>8
<1>9. \A T \in SUBSET W : g[T] = IF T = {} THEN l ELSE add(g[T \ {last(T)}], last(T))
  BY <1>6 DEF Merging, add, last
<1> DEFINE h == [T \in SUBSET V |-> IF i \in T THEN add(g[T \ {i}], i) ELSE g[T]]
<1>10. ASSUME NEW T \in SUBSET V
       PROVE  h[T] = IF T = {} THEN l ELSE add(h[T \ {last(T)}], last(T))
  <2>1. CASE i \in T
    <3>1. h[T] = add(g[T \ {i}], i) /\ last(T) = i /\ T # {}
      BY <1>7, <2>1
    <3>2. T \ {i} \in SUBSET V /\ i \notin T \ {i}
      OBVIOUS
    <3>3. h[T \ {i}] = g[T \ {i}]
      BY <3>2
    <3> HIDE DEF h
    <3> QED BY <3>1, <3>3
  <2>2. CASE i \notin T
    <3>1. h[T] = g[T] /\ T \in SUBSET W
      BY <1>8, <2>2
    <3>2. T # {} => T \ {last(T)} \in SUBSET V /\ i \notin T \ {last(T)}
      BY <2>2
    <3>3. T # {} => h[T \ {last(T)}] = g[T \ {last(T)}]
      BY <3>2
    <3> HIDE DEF h, W
    <3> QED BY <1>9, <3>1, <3>3
  <2> QED BY <2>1, <2>2
<1>11. Merging(l, r, V, h)
  <2>1. h = [T \in SUBSET V |-> h[T]]
    OBVIOUS
  <2> HIDE DEF h
  <2> QED BY <1>10, <2>1 DEF Merging, add, last
<1> QED BY <1>3, <1>11

(* A cell whose column is no prefixed name is merged where it belongs.     *)
LEMMA MergedCells ==
  ASSUME NEW l, NEW r, DOMAIN r \subseteq SE!ToSet(ColumnOrder)
  PROVE  /\ \A c \in DOMAIN l \ Prefixed(r) : MergeRows(l, r)[c] = l[c]
         /\ \A c \in DOMAIN r \ Prefixed(r) : MergeRows(l, r)[MergedName(l, c)] = r[c]
<1> DEFINE cols == ColumnsOf(r)
           D == DOMAIN cols
           last(T) == SE!Max(T)
           it == CHOOSE h : Merging(l, r, D, h)
           U == {T \in SUBSET D : ~MergedUpTo(T, l, r, it[T])}
<1>1. MergeRows(l, r) = it[D]
  BY Zenon DEF MergeRows, SE!FoldLeft, SE!MapThenFoldSet, ColumnsOf, Merging
<1>2. PICK m \in Nat : D = 1 .. m
  BY ColumnsOnce
<1>3. \A c \in DOMAIN r : \E i \in D : cols[i] = c
  BY ColumnsOnce
<1>4. Merging(l, r, D, it)
  BY <1>2, MergingExists
<1> HIDE DEF it
<1>5. IsFiniteSet(D)
  BY <1>2, FS_Interval
<1>6. \A T \in SUBSET D : T # {} => last(T) \in T
  BY <1>2, GreatestIsThere
<1> HIDE DEF last
<1>7. \A T \in SUBSET D :
        it[T] = IF T = {} THEN l
                ELSE AddCell(it[T \ {last(T)}], cols[last(T)], r[cols[last(T)]])
  BY <1>4 DEF Merging, last
<1>8. U = {}
  <2> SUFFICES ASSUME U # {} PROVE FALSE
    OBVIOUS
  <2>1. PICK T \in U : \A V \in U : V \subseteq T => V = T
    <3> U \in SUBSET SUBSET D
      OBVIOUS
    <3> HIDE DEF U, D
    <3> QED BY <1>5, LeastSubset
  <2>2. T \in SUBSET D /\ ~MergedUpTo(T, l, r, it[T])
    BY <2>1
  <2>3. CASE T = {}
    <3>1. it[T] = l
      BY <1>7, <2>2, <2>3
    <3>2. MergedUpTo({}, l, r, l)
      BY DEF MergedUpTo
    <3> QED BY <2>2, <2>3, <3>1, <3>2
  <2>4. CASE T # {}
    <3> DEFINE i == last(T)
               V == T \ {i}
    <3>1. i \in T /\ i \in D /\ V \in SUBSET D /\ V \subseteq T /\ V # T
      BY <1>6, <2>2, <2>4
    <3>2. it[T] = AddCell(it[V], cols[i], r[cols[i]])
      BY <1>7, <2>2, <2>4
    <3> HIDE DEF i
    <3>3. i \notin V /\ T = V \cup {i}
      BY <3>1
    <3> HIDE DEF V
    <3>4. MergedUpTo(V, l, r, it[V])
      BY <2>1, <3>1
    <3>5. MergedUpTo(V \cup {i}, l, r, AddCell(it[V], cols[i], r[cols[i]]))
      BY <3>1, <3>3, <3>4, MergingGoesOn
    <3> QED BY <2>2, <3>2, <3>3, <3>5
  <2> QED BY <2>3, <2>4
<1>9. MergedUpTo(D, l, r, MergeRows(l, r))
  BY <1>1, <1>8
<1> QED BY <1>3, <1>9 DEF MergedUpTo

(* Merging two rows (merge_rows) loses no cell of either, but of a column  *)
(* that is itself called by a prefixed name of a column of the right row.  *)
THEOREM ValuesAreKept == Spec => []NoValueIsLost
<1>1. ASSUME IInv PROVE NoValueIsLost
  <2> SUFFICES ASSUME NEW l \in SE!ToSet(left), NEW r \in SE!ToSet(right)
        PROVE  /\ \A c \in DOMAIN l \ Prefixed(r) : MergeRows(l, r)[c] = l[c]
               /\ \A c \in DOMAIN r \ Prefixed(r) :
                    MergeRows(l, r)[IF c \in DOMAIN l THEN RightName(c) ELSE c] = r[c]
    BY DEF NoValueIsLost
  <2>1. DOMAIN r \subseteq SE!ToSet(ColumnOrder)
    BY <1>1, ColumnAssumption DEF IInv, Chosen
  <2> QED BY <2>1, MergedCells DEF MergedName
<1>2. IInv => NoValueIsLost
  BY <1>1
<1> QED BY <1>2, JoinsBucketByBucket, PTL
=============================================================================
