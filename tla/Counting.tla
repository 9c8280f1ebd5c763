------------------------------ MODULE Counting ------------------------------
(***************************************************************************)
(* Facts about counting that the proofs share: least elements, sets that   *)
(* are paired off, the occurrences of a value in a sequence, sums over     *)
(* finite sets, which are recursive functions, and what filtering keeps of *)
(* a sequence.  A sum of naturals is shown to be the number of cells under *)
(* its graph; what else is needed of sums are then facts about finite sets. *)
(***************************************************************************)
EXTENDS Integers, Sequences, FiniteSetsExt, Subsequences, FiniteSetTheorems, TLAPS

-----------------------------------------------------------------------------
(* Least counterexamples.                                                  *)

(* A set of naturals that is not empty has a least element.                *)
LEMMA LeastNat ==
  ASSUME NEW T \in SUBSET Nat, T # {}
  PROVE  \E x \in T : \A y \in T : x <= y
<1> DEFINE R == StrictSubsetOrdering(Nat)
           F == FiniteSubsetsOf(Nat)
           U == {0 .. x : x \in T}
<1>1. IsWellFoundedOn(R, F)
  BY FS_StrictSubsetOrderingWellFounded
<1>2. U \subseteq F /\ U # {}
  <2>1. ASSUME NEW x \in T PROVE 0 .. x \in F
    <3>1. IsFiniteSet(0 .. x) BY FS_Interval
    <3>2. 0 .. x \in SUBSET Nat OBVIOUS
    <3> QED BY <3>1, <3>2 DEF FiniteSubsetsOf
  <2> QED BY <2>1
<1>3. \E u \in U : \A v \in U : ~(<<v, u>> \in R)
  <2> HIDE DEF R, F, U
  <2> QED BY <1>1, <1>2, WFMin
<1>4. PICK x \in T : \A y \in T : ~(<<0 .. y, 0 .. x>> \in R)
  BY <1>3
<1>5. ASSUME NEW y \in T PROVE x <= y
  <2> SUFFICES ASSUME y < x PROVE FALSE OBVIOUS
  <2>1. x \in 0 .. x /\ x \notin 0 .. y OBVIOUS
  <2>2. 0 .. y \subseteq 0 .. x /\ 0 .. y # 0 .. x BY <2>1
  <2>3. <<0 .. y, 0 .. x>> \in (SUBSET Nat) \X (SUBSET Nat) OBVIOUS
  <2>4. <<0 .. y, 0 .. x>> \in R BY <2>2, <2>3 DEF StrictSubsetOrdering
  <2> QED BY <2>4, <1>4
<1> QED BY <1>5

(* Among some subsets of a finite set there is one that contains no other. *)
LEMMA LeastSubset ==
  ASSUME NEW S, IsFiniteSet(S), NEW U \in SUBSET SUBSET S, U # {}
  PROVE  \E T \in U : \A V \in U : V \subseteq T => V = T
<1> DEFINE R == StrictSubsetOrdering(S)
           F == FiniteSubsetsOf(S)
<1>1. IsWellFoundedOn(R, F)
  BY FS_StrictSubsetOrderingWellFounded
<1>2. U \subseteq F
  BY FS_Subset DEF FiniteSubsetsOf
<1>3. PICK T \in U : \A V \in U : ~(<<V, T>> \in R)
  <2> HIDE DEF R, F
  <2> QED BY <1>1, <1>2, WFMin
<1>4. ASSUME NEW V \in U, V \subseteq T PROVE V = T
  <2>1. <<V, T>> \in (SUBSET S) \X (SUBSET S) OBVIOUS
  <2> QED BY <1>3, <1>4, <2>1 DEF StrictSubsetOrdering
<1> QED BY <1>4

-----------------------------------------------------------------------------
(* Cardinalities.                                                          *)

(* Two sets whose elements are paired off have equally many.               *)
LEMMA PairedOff ==
  ASSUME NEW S, IsFiniteSet(S), NEW T, NEW f \in [S -> T],
         \A x, y \in S : f[x] = f[y] => x = y,
         \A t \in T : \E x \in S : f[x] = t
  PROVE  IsFiniteSet(T) /\ Cardinality(T) = Cardinality(S)
<1>1. f \in Injection(S, T) BY DEF Injection, IsInjective
<1>2. f \in Surjection(S, T) BY DEF Surjection
<1>3. ExistsBijection(S, T) BY <1>1, <1>2 DEF ExistsBijection, Bijection
<1> QED BY <1>3, FS_Bijection

(* A set in two parts.                                                     *)
LEMMA InTwoParts ==
  ASSUME NEW S, IsFiniteSet(S), NEW T, IsFiniteSet(T), S \cap T = {}
  PROVE  /\ IsFiniteSet(S \cup T)
         /\ Cardinality(S \cup T) = Cardinality(S) + Cardinality(T)
         /\ Cardinality(S) \in Nat /\ Cardinality(T) \in Nat
<1>1. Cardinality(S \cap T) = 0 BY FS_EmptySet
<1>2. Cardinality(S) \in Nat /\ Cardinality(T) \in Nat BY FS_CardinalityType
<1>3. IsFiniteSet(S \cup T)
      /\ Cardinality(S \cup T) = Cardinality(S) + Cardinality(T) - Cardinality(S \cap T)
  BY FS_Union
<1> QED BY <1>1, <1>2, <1>3

(* The positions of a sequence.                                            *)
LEMMA IndicesAreFinite ==
  ASSUME NEW n \in Nat
  PROVE  IsFiniteSet(1 .. n) /\ Cardinality(1 .. n) = n
<1>1. n \in Int /\ 1 \in Int /\ n >= 0 OBVIOUS
<1>2. IsFiniteSet(1 .. n) /\ Cardinality(1 .. n) = IF 1 > n THEN 0 ELSE n - 1 + 1
  BY <1>1, FS_Interval
<1> QED BY <1>1, <1>2

(* A set listed without repetition is as large as the list is long.        *)
LEMMA ListedOnce ==
  ASSUME NEW n \in Nat, NEW T, NEW f \in [1 .. n -> T],
         \A i, j \in 1 .. n : f[i] = f[j] => i = j,
         \A t \in T : \E i \in 1 .. n : f[i] = t
  PROVE  IsFiniteSet(T) /\ Cardinality(T) = n
<1>1. IsFiniteSet(1 .. n) /\ Cardinality(1 .. n) = n BY IndicesAreFinite
<1> DEFINE S == 1 .. n
<1>2. f \in [S -> T] OBVIOUS
<1> HIDE DEF S
<1>3. Cardinality(T) = Cardinality(S) /\ IsFiniteSet(T) BY <1>1, <1>2, PairedOff DEF S
<1> QED BY <1>1, <1>3 DEF S

(* The positions of q that hold an element of W.                           *)
Where(q, W) == {i \in DOMAIN q : q[i] \in W}

LEMMA WhereIsFinite ==
  ASSUME NEW R, NEW q \in Seq(R), NEW W
  PROVE  /\ IsFiniteSet(Where(q, W)) /\ Cardinality(Where(q, W)) \in Nat
         /\ Cardinality(Where(q, W)) <= Len(q)
<1>1. Len(q) \in Nat /\ DOMAIN q = 1 .. Len(q) OBVIOUS
<1>2. IsFiniteSet(1 .. Len(q)) /\ Cardinality(1 .. Len(q)) = Len(q)
  BY <1>1, IndicesAreFinite
<1>3. Where(q, W) \in SUBSET (1 .. Len(q)) BY <1>1 DEF Where
<1>4. IsFiniteSet(Where(q, W)) /\ Cardinality(Where(q, W)) <= Cardinality(1 .. Len(q))
  BY <1>2, <1>3, FS_Subset
<1> QED BY <1>2, <1>4, FS_CardinalityType

(* Concatenation adds up how often values occur.                           *)
LEMMA WhereConcatenated ==
  ASSUME NEW R, NEW a \in Seq(R), NEW b \in Seq(R), NEW W
  PROVE  Cardinality(Where(a \o b, W))
           = Cardinality(Where(a, W)) + Cardinality(Where(b, W))
<1> DEFINE c == a \o b
           moved == {i \in DOMAIN c : i > Len(a) /\ c[i] \in W}
           f == [i \in Where(b, W) |-> i + Len(a)]
<1>1. /\ Len(a) \in Nat /\ Len(b) \in Nat /\ DOMAIN a = 1 .. Len(a)
      /\ DOMAIN b = 1 .. Len(b) /\ DOMAIN c = 1 .. Len(a) + Len(b)
  OBVIOUS
<1>2. /\ \A i \in DOMAIN a : c[i] = a[i]
      /\ \A i \in DOMAIN b : c[i + Len(a)] = b[i]
  OBVIOUS
<1> HIDE DEF c
<1>3. Where(c, W) = Where(a, W) \cup moved /\ Where(a, W) \cap moved = {}
  BY <1>1, <1>2 DEF Where
<1>4. IsFiniteSet(moved) /\ Cardinality(moved) = Cardinality(Where(b, W))
  <2>1. f \in [Where(b, W) -> moved] BY <1>1, <1>2 DEF Where
  <2>2. \A i, j \in Where(b, W) : f[i] = f[j] => i = j BY <1>1 DEF Where
  <2>3. ASSUME NEW k \in moved PROVE \E i \in Where(b, W) : f[i] = k
    <3>1. k - Len(a) \in DOMAIN b /\ (k - Len(a)) + Len(a) = k BY <1>1
    <3>2. k - Len(a) \in Where(b, W) BY <1>2, <3>1 DEF Where
    <3> QED BY <3>1, <3>2
  <2>4. IsFiniteSet(Where(b, W)) BY WhereIsFinite
  <2> HIDE DEF moved, f
  <2> QED BY <2>1, <2>2, <2>3, <2>4, PairedOff
<1>5. IsFiniteSet(Where(a, W)) BY WhereIsFinite
<1> HIDE DEF moved
<1>6. Cardinality(Where(a, W) \cup moved) = Cardinality(Where(a, W)) + Cardinality(moved)
  BY <1>3, <1>4, <1>5, InTwoParts
<1> QED BY <1>3, <1>4, <1>6 DEF c

(* The pairs of an element of S and a number up to F of that element.      *)
Area(F, S) == {p \in S \X Nat : p[2] \in 1 .. F[p[1]]}

LEMMA AreaOfOneMore ==
  ASSUME NEW F, NEW S, NEW x, x \notin S, F[x] \in Nat, IsFiniteSet(Area(F, S))
  PROVE  /\ IsFiniteSet(Area(F, S \cup {x}))
         /\ Cardinality(Area(F, S \cup {x})) = F[x] + Cardinality(Area(F, S))
         /\ Cardinality(Area(F, S)) \in Nat
<1> DEFINE column == {p \in {x} \X Nat : p[2] \in 1 .. F[x]}
           f == [n \in 1 .. F[x] |-> <<x, n>>]
<1>1. f \in [1 .. F[x] -> column] OBVIOUS
<1>2. \A m, n \in 1 .. F[x] : f[m] = f[n] => m = n OBVIOUS
<1>3. \A p \in column : \E n \in 1 .. F[x] : f[n] = p OBVIOUS
<1>4. IsFiniteSet(column) /\ Cardinality(column) = F[x]
  <2>1. IsFiniteSet(1 .. F[x]) /\ Cardinality(1 .. F[x]) = F[x] BY IndicesAreFinite
  <2> HIDE DEF column, f
  <2> QED BY <1>1, <1>2, <1>3, <2>1, PairedOff
<1>5. Area(F, S \cup {x}) = Area(F, S) \cup column BY DEF Area
<1>6. Area(F, S) \cap column = {} BY DEF Area
<1> HIDE DEF column
<1>7. /\ IsFiniteSet(Area(F, S) \cup column)
      /\ Cardinality(Area(F, S) \cup column) = Cardinality(Area(F, S)) + Cardinality(column)
      /\ Cardinality(Area(F, S)) \in Nat
  BY <1>4, <1>6, InTwoParts
<1>8. Cardinality(Area(F, S \cup {x})) = Cardinality(Area(F, S)) + F[x]
  BY Zenon, <1>4, <1>5, <1>7
<1>9. Cardinality(Area(F, S)) + F[x] = F[x] + Cardinality(Area(F, S))
  BY <1>7
<1> QED BY Zenon, <1>5, <1>7, <1>8, <1>9

LEMMA AreaIsFinite ==
  ASSUME NEW S, IsFiniteSet(S), NEW F, \A x \in S : F[x] \in Nat
  PROVE  \A T \in SUBSET S : IsFiniteSet(Area(F, T))
<1> DEFINE U == {T \in SUBSET S : ~IsFiniteSet(Area(F, T))}
<1>1. SUFFICES ASSUME U # {} PROVE FALSE
  OBVIOUS
<1>2. PICK T \in U : \A V \in U : V \subseteq T => V = T
  <2> U \in SUBSET SUBSET S OBVIOUS
  <2> HIDE DEF U
  <2> QED BY <1>1, LeastSubset
<1>3. T # {}
  <2>1. Area(F, {}) = {} BY DEF Area
  <2> QED BY <2>1, <1>2, FS_EmptySet
<1>4. PICK x \in T : TRUE BY <1>3
<1>5. IsFiniteSet(Area(F, T \ {x})) BY <1>2, <1>4
<1>6. (T \ {x}) \cup {x} = T BY <1>4
<1>7. x \notin T \ {x} /\ F[x] \in Nat BY <1>2, <1>4
<1>8. IsFiniteSet(Area(F, (T \ {x}) \cup {x}))
  <2> HIDE DEF U
  <2> QED BY <1>5, <1>7, AreaOfOneMore
<1> QED BY <1>2, <1>6, <1>8

-----------------------------------------------------------------------------
(* Sums.                                                                   *)

(* The sum of F over S is the area under F.                     *)
LEMMA SumIsArea ==
  ASSUME NEW S, IsFiniteSet(S), NEW F, \A x \in S : F[x] \in Nat
  PROVE  /\ SumFunctionOnSet(F, S) = Cardinality(Area(F, S))
         /\ SumFunctionOnSet(F, S) \in Nat
<1> DEFINE some(T) == CHOOSE x \in T : TRUE
           cells == [T \in SUBSET S |-> Cardinality(Area(F, T))]
           Solves(h) == h = [T \in SUBSET S |-> IF T = {} THEN 0
                               ELSE F[some(T)] + h[T \ {some(T)}]]
           it == CHOOSE h : Solves(h)
<1>1. SumFunctionOnSet(F, S) = it[S]
  BY Zenon DEF SumFunctionOnSet, FoldFunctionOnSet, MapThenFoldSet
<1>2. \A T \in SUBSET S : T # {} => some(T) \in T
  OBVIOUS
<1> HIDE DEF some
<1>3. ASSUME NEW T \in SUBSET S
      PROVE  cells[T] = IF T = {} THEN 0 ELSE F[some(T)] + cells[T \ {some(T)}]
  <2>1. CASE T = {}
    <3>1. Area(F, {}) = {} BY DEF Area
    <3> QED BY <2>1, <3>1, FS_EmptySet
  <2>2. CASE T # {}
    <3>1. PICK x \in T : x = some(T) BY <1>2, <2>2
    <3>2. (T \ {x}) \cup {x} = T /\ x \notin T \ {x} /\ F[x] \in Nat BY <3>1
    <3>3. IsFiniteSet(Area(F, T \ {x})) BY AreaIsFinite
    <3>4. Cardinality(Area(F, (T \ {x}) \cup {x})) = F[x] + Cardinality(Area(F, T \ {x}))
      <4> HIDE DEF cells, it, Solves
      <4> QED BY <3>2, <3>3, AreaOfOneMore
    <3> QED BY Zenon, <2>2, <3>1, <3>2, <3>4
  <2> QED BY <2>1, <2>2
<1>4. Solves(cells) BY <1>3
<1>5. Solves(it)
  <2> HIDE DEF cells
  <2> DEFINE P(h) == Solves(h)
  <2>1. \E h : P(h) BY <1>4
  <2> HIDE DEF P
  <2>2. P(CHOOSE h : P(h)) BY <2>1
  <2> QED BY <2>2 DEF P
<1> HIDE DEF cells, it
<1>6. {T \in SUBSET S : it[T] # cells[T]} = {}
  <2> DEFINE U == {T \in SUBSET S : it[T] # cells[T]}
  <2> SUFFICES ASSUME U # {} PROVE FALSE OBVIOUS
  <2>1. PICK T \in U : \A V \in U : V \subseteq T => V = T
    <3> U \in SUBSET SUBSET S OBVIOUS
    <3> HIDE DEF U
    <3> QED BY LeastSubset
  <2>2. T # {} BY <1>4, <1>5, <2>1
  <2>3. T \ {some(T)} # T /\ T \ {some(T)} \in SUBSET S BY <1>2, <2>1, <2>2
  <2>4. it[T \ {some(T)}] = cells[T \ {some(T)}] BY <2>1, <2>3
  <2>5. it[T] = F[some(T)] + it[T \ {some(T)}] BY <1>5, <2>1, <2>2
  <2>6. cells[T] = F[some(T)] + cells[T \ {some(T)}] BY <1>3, <2>1, <2>2
  <2> QED BY <2>1, <2>4, <2>5, <2>6
<1>7. it[S] = Cardinality(Area(F, S)) BY <1>6 DEF cells
<1>8. Cardinality(Area(F, S)) \in Nat BY AreaIsFinite, FS_CardinalityType
<1> QED BY <1>1, <1>7, <1>8

(* Adding one element to a sum, and an empty sum.                          *)
LEMMA SumOfOneMore ==
  ASSUME NEW S, IsFiniteSet(S), NEW F, \A y \in S : F[y] \in Nat,
         NEW x, x \notin S, F[x] \in Nat
  PROVE  SumFunctionOnSet(F, S \cup {x}) = F[x] + SumFunctionOnSet(F, S)
<1>1. IsFiniteSet(S \cup {x}) /\ \A y \in S \cup {x} : F[y] \in Nat
  BY FS_AddElement
<1>2. IsFiniteSet(Area(F, S)) BY AreaIsFinite
<1>3. Cardinality(Area(F, S \cup {x})) = F[x] + Cardinality(Area(F, S))
  BY <1>2, AreaOfOneMore
<1>4. SumFunctionOnSet(F, S \cup {x}) = Cardinality(Area(F, S \cup {x}))
  BY <1>1, SumIsArea
<1>5. SumFunctionOnSet(F, S) = Cardinality(Area(F, S)) BY SumIsArea
<1> QED BY Zenon, <1>3, <1>4, <1>5

LEMMA SumOfNothing ==
  ASSUME NEW F
  PROVE  SumFunctionOnSet(F, {}) = 0
<1>1. IsFiniteSet({}) /\ Cardinality({}) = 0 BY FS_EmptySet
<1>2. Area(F, {}) = {} BY DEF Area
<1>3. SumFunctionOnSet(F, {}) = Cardinality(Area(F, {})) BY <1>1, SumIsArea
<1> QED BY <1>1, <1>2, <1>3

-----------------------------------------------------------------------------
(* Orders and filters.                                                     *)

(* R puts the elements of P in one line.                                   *)
InLine(P, R) ==
  /\ \A p \in P : <<p, p>> \notin R
  /\ \A p, q, s \in P : <<p, q>> \in R /\ <<q, s>> \in R => <<p, s>> \in R
  /\ \A p, q \in P : p = q \/ <<p, q>> \in R \/ <<q, p>> \in R

(* Place numbers the elements of P from one up, each once and in order.    *)
Numbered(P, R) ==
  /\ \A p \in P : Place(P, R, p) \in 1 .. Cardinality(P)
  /\ \A p, q \in P : <<p, q>> \in R => Place(P, R, p) < Place(P, R, q)
  /\ \A p, q \in P : Place(P, R, p) = Place(P, R, q) => p = q
  /\ \A k \in 1 .. Cardinality(P) : \E p \in P : Place(P, R, p) = k

(* A strict total order numbers a finite set from one up, each element once and in order. *)
LEMMA OrderNumbers ==
  ASSUME NEW P, IsFiniteSet(P), NEW R, InLine(P, R)
  PROVE  Numbered(P, R)
<1> DEFINE f == [p \in P |-> Place(P, R, p)]
<1>1. Cardinality(P) \in Nat BY FS_CardinalityType
<1>2. ASSUME NEW p \in P
      PROVE  /\ IsFiniteSet(Earlier(P, R, p)) /\ Cardinality(Earlier(P, R, p)) \in Nat
             /\ Cardinality(Earlier(P, R, p)) < Cardinality(P)
  <2>1. Earlier(P, R, p) \in SUBSET P /\ Earlier(P, R, p) # P BY DEF Earlier, InLine
  <2>2. IsFiniteSet(Earlier(P, R, p)) /\ Cardinality(Earlier(P, R, p)) <= Cardinality(P)
        /\ Cardinality(P) # Cardinality(Earlier(P, R, p))
    BY <2>1, FS_Subset
  <2>3. Cardinality(Earlier(P, R, p)) \in Nat BY <2>2, FS_CardinalityType
  <2> QED BY <1>1, <2>2, <2>3
<1>3. \A p \in P : Place(P, R, p) \in 1 .. Cardinality(P) BY <1>1, <1>2 DEF Place
<1>4. ASSUME NEW p \in P, NEW q \in P, <<p, q>> \in R
      PROVE  Place(P, R, p) < Place(P, R, q)
  <2>1. Earlier(P, R, p) \in SUBSET Earlier(P, R, q) /\ Earlier(P, R, p) # Earlier(P, R, q)
    BY <1>4 DEF Earlier, InLine
  <2>2. /\ Cardinality(Earlier(P, R, p)) <= Cardinality(Earlier(P, R, q))
        /\ Cardinality(Earlier(P, R, q)) # Cardinality(Earlier(P, R, p))
    BY <2>1, <1>2, FS_Subset
  <2>3. Cardinality(Earlier(P, R, p)) \in Nat /\ Cardinality(Earlier(P, R, q)) \in Nat BY <1>2
  <2> QED BY <2>2, <2>3 DEF Place
<1>5. ASSUME NEW p \in P, NEW q \in P, Place(P, R, p) = Place(P, R, q) PROVE p = q
  <2>1. Place(P, R, p) \in Int BY <1>1, <1>3
  <2>2. ~(<<p, q>> \in R) /\ ~(<<q, p>> \in R) BY <1>4, <1>5, <2>1
  <2> QED BY <2>2 DEF InLine
<1>6. ASSUME NEW k \in 1 .. Cardinality(P) PROVE \E p \in P : Place(P, R, p) = k
  <2> DEFINE T == 1 .. Cardinality(P)
  <2>1. IsFiniteSet(T) /\ Cardinality(T) = Cardinality(P) BY <1>1, IndicesAreFinite
  <2>2. f \in Injection(P, T) BY <1>3, <1>5 DEF Injection, IsInjective
  <2> HIDE DEF T, f
  <2>3. f \in Surjection(P, T) BY <2>1, <2>2, FS_Injection
  <2>4. \E p \in P : f[p] = k BY <2>3 DEF Surjection, T
  <2> QED BY <2>4 DEF f
<1> QED BY <1>3, <1>4, <1>5, <1>6 DEF Numbered

(* s has each element of P once, in the order R.                           *)
IsListing(s, P, R) ==
  /\ s \in Seq(P) /\ Len(s) = Cardinality(P)
  /\ \A p \in P : \E k \in DOMAIN s : s[k] = p
  /\ \A k, l \in DOMAIN s : k < l => <<s[k], s[l]>> \in R
  /\ \A k, l \in DOMAIN s : s[k] = s[l] => k = l

LEMMA ListedInOrder ==
  ASSUME NEW P, IsFiniteSet(P), NEW R, InLine(P, R)
  PROVE  IsListing(Listed(P, R), P, R)
<1> DEFINE s == Listed(P, R)  N == Cardinality(P)
<1>1. N \in Nat BY FS_CardinalityType
<1>2. Numbered(P, R) BY OrderNumbers
<1>3. ASSUME NEW k \in 1 .. N PROVE s[k] \in P /\ Place(P, R, s[k]) = k
  <2>1. s[k] = CHOOSE p \in P : Place(P, R, p) = k BY DEF Listed
  <2>2. \E p \in P : Place(P, R, p) = k BY <1>2 DEF Numbered
  <2> QED BY <2>1, <2>2
<1>4. s \in [1 .. N -> P]
  <2>1. s = [k \in 1 .. N |-> s[k]] BY DEF Listed
  <2> HIDE DEF s
  <2> QED BY <1>3, <2>1
<1>5. ASSUME NEW p \in P PROVE Place(P, R, p) \in 1 .. N /\ s[Place(P, R, p)] = p
  <2>1. Place(P, R, p) \in 1 .. N BY <1>2 DEF Numbered
  <2>2. s[Place(P, R, p)] \in P /\ Place(P, R, s[Place(P, R, p)]) = Place(P, R, p) BY <1>3, <2>1
  <2> HIDE DEF s
  <2> QED BY <1>2, <2>1, <2>2 DEF Numbered
<1> HIDE DEF s, N
<1>6. s \in Seq(P) /\ Len(s) = N /\ DOMAIN s = 1 .. N BY <1>1, <1>4
<1>7. \A p \in P : \E k \in DOMAIN s : s[k] = p BY <1>5, <1>6
<1>8. ASSUME NEW k \in 1 .. N, NEW l \in 1 .. N, k < l PROVE <<s[k], s[l]>> \in R
  <2>1. s[k] \in P /\ s[l] \in P /\ Place(P, R, s[k]) = k /\ Place(P, R, s[l]) = l BY <1>3
  <2>2. s[k] # s[l] BY <1>1, <1>8, <2>1
  <2>3. <<s[l], s[k]>> \in R => l < k BY <1>2, <2>1 DEF Numbered
  <2>4. <<s[l], s[k]>> \notin R BY <1>1, <1>8, <2>3
  <2> QED BY <2>1, <2>2, <2>4 DEF InLine
<1>9. \A k, l \in 1 .. N : s[k] = s[l] => k = l
  <2> TAKE k, l \in 1 .. N
  <2>1. Place(P, R, s[k]) = k /\ Place(P, R, s[l]) = l BY <1>3
  <2> QED BY <2>1
<1> QED BY <1>6, <1>7, <1>8, <1>9 DEF IsListing, s, N

(* The numbers of a finite set are counted up one by one.                  *)
LEMMA NthOfCounts ==
  ASSUME NEW K, K \subseteq Nat, IsFiniteSet(K)
  PROVE  /\ Cardinality(K) \in Nat
         /\ \A k \in 1 .. Cardinality(K) : NthOf(K, k) \in K
         /\ \A k, l \in 1 .. Cardinality(K) : k < l => NthOf(K, k) < NthOf(K, l)
         /\ \A i \in K : \E k \in 1 .. Cardinality(K) : NthOf(K, k) = i
<1>1. Cardinality(K) \in Nat BY FS_CardinalityType
<1>3. PICK R : \A p, q \in K : <<p, q>> \in R <=> p < q
  <2> DEFINE lt == {p \in K \X K : p[1] < p[2]}
  <2>1. \A p, q \in K : <<p, q>> \in lt <=> p < q OBVIOUS
  <2> QED BY <2>1
<1>2. InLine(K, R)
  <2>1. \A p \in K : <<p, p>> \notin R BY <1>3
  <2>2. \A p, q, s \in K : <<p, q>> \in R /\ <<q, s>> \in R => <<p, s>> \in R BY <1>3
  <2>3. \A p, q \in K : p = q \/ <<p, q>> \in R \/ <<q, p>> \in R
    <3>1. \A p, q \in K : p = q \/ p < q \/ q < p OBVIOUS
    <3> QED BY <3>1, <1>3
  <2> QED BY <2>1, <2>2, <2>3 DEF InLine
<1>4. Numbered(K, R) BY <1>2, OrderNumbers
<1>5. ASSUME NEW i \in K PROVE Cardinality({j \in K : j <= i}) = Place(K, R, i)
  <2>1. {j \in K : j <= i} = Earlier(K, R, i) \cup {i}
    <3>1. \A j \in K : j <= i <=> j < i \/ j = i OBVIOUS
    <3> QED BY <1>3, <3>1 DEF Earlier
  <2>2. i \notin Earlier(K, R, i) BY <1>3 DEF Earlier
  <2>3. IsFiniteSet(Earlier(K, R, i))
    <3>1. Earlier(K, R, i) \in SUBSET K BY DEF Earlier
    <3> QED BY <3>1, FS_Subset
  <2>4. Cardinality(Earlier(K, R, i) \cup {i}) = Cardinality(Earlier(K, R, i)) + 1
    BY <2>2, <2>3, FS_AddElement
  <2>5. Cardinality(Earlier(K, R, i)) \in Nat BY <2>3, FS_CardinalityType
  <2> QED BY <2>1, <2>4, <2>5 DEF Place
<1>6. ASSUME NEW k \in 1 .. Cardinality(K)
      PROVE  NthOf(K, k) \in K /\ Place(K, R, NthOf(K, k)) = k
  <2>1. \E i \in K : Cardinality({j \in K : j <= i}) = k BY <1>4, <1>5 DEF Numbered
  <2>2. NthOf(K, k) \in K /\ Cardinality({j \in K : j <= NthOf(K, k)}) = k
    BY <2>1 DEF NthOf
  <2> QED BY <2>2, <1>5
<1>7. ASSUME NEW k \in 1 .. Cardinality(K), NEW l \in 1 .. Cardinality(K), k < l
      PROVE  NthOf(K, k) < NthOf(K, l)
  <2> DEFINE i == NthOf(K, k)  j == NthOf(K, l)
  <2>1. i \in K /\ j \in K /\ Place(K, R, i) = k /\ Place(K, R, j) = l BY <1>6
  <2> HIDE DEF i, j
  <2>2. ~(j < i) /\ i # j
    <3>1. j < i => <<j, i>> \in R BY <2>1, <1>3
    <3>2. k \in Int /\ l \in Int BY <1>1
    <3> QED BY <2>1, <3>1, <3>2, <1>4, <1>7 DEF Numbered
  <2>3. i \in Nat /\ j \in Nat BY <2>1
  <2> QED BY <2>2, <2>3 DEF i, j
<1>8. ASSUME NEW i \in K PROVE \E k \in 1 .. Cardinality(K) : NthOf(K, k) = i
  <2>1. Place(K, R, i) \in 1 .. Cardinality(K) BY <1>4 DEF Numbered
  <2>2. NthOf(K, Place(K, R, i)) = i BY <2>1, <1>4, <1>6 DEF Numbered
  <2> QED BY <2>1, <2>2
<1> QED BY <1>1, <1>6, <1>7, <1>8

(* What is kept of a sequence.                                             *)
LEMMA KeptIsASequence ==
  ASSUME NEW U, NEW s \in Seq(U), NEW K \in SUBSET DOMAIN s
  PROVE  /\ IsFiniteSet(K) /\ K \in SUBSET Nat
         /\ Kept(s, K) \in Seq(U) /\ Len(Kept(s, K)) = Cardinality(K)
         /\ Cardinality(K) <= Len(s)
<1>1. Len(s) \in Nat /\ DOMAIN s = 1 .. Len(s) OBVIOUS
<1>2. IsFiniteSet(1 .. Len(s)) /\ Cardinality(1 .. Len(s)) = Len(s) BY <1>1, IndicesAreFinite
<1> DEFINE D == 1 .. Len(s)
<1>3. K \in SUBSET D BY <1>1
<1> HIDE DEF D
<1>4. IsFiniteSet(K) /\ Cardinality(K) <= Cardinality(D) BY <1>2, <1>3, FS_Subset DEF D
<1>5. Cardinality(K) \in Nat BY <1>4, FS_CardinalityType
<1>6. K \in SUBSET Nat BY <1>1
<1>7. \A k \in 1 .. Cardinality(K) : NthOf(K, k) \in K BY <1>4, <1>6, NthOfCounts
<1>8. \A k \in 1 .. Cardinality(K) : s[NthOf(K, k)] \in U BY <1>7
<1>9. Kept(s, K) \in [1 .. Cardinality(K) -> U] BY <1>8 DEF Kept
<1> QED BY <1>2, <1>4, <1>5, <1>6, <1>9 DEF D

-----------------------------------------------------------------------------
(* Division: a number is one of n remainders and a multiple of n, and only *)
(* one.                                                                    *)
LEMMA DivisionIsExact ==
  ASSUME NEW n \in Nat, n > 0, NEW m \in Nat
  PROVE  m = n * (m \div n) + (m % n) /\ m % n \in 0 .. (n - 1) /\ m \div n \in Nat
  OBVIOUS

LEMMA DivisionBounds ==
  ASSUME NEW n \in Nat, n > 0, NEW m \in Nat, NEW k \in Nat
  PROVE  k <= m \div n <=> k * n <= m
<1>1. PICK q \in Nat, r \in 0 .. (n - 1) : q = m \div n /\ m = n * q + r
  BY DivisionIsExact
<1>2. k <= q => k * n <= q * n
  OBVIOUS
<1>3. k >= q + 1 => k * n >= (q + 1) * n
  OBVIOUS
<1>4. (q + 1) * n = n * q + n /\ q * n = n * q
  OBVIOUS
<1> QED BY <1>1, <1>2, <1>3, <1>4

LEMMA OneRemainder ==
  ASSUME NEW n \in Nat, n > 0, NEW b \in 1 .. n, NEW c \in 1 .. n,
         NEW k \in Nat, NEW l \in Nat, b + k * n = c + l * n
  PROVE  b = c /\ k = l
<1>1. k < l => (k + 1) * n <= l * n
  OBVIOUS
<1>2. l < k => (l + 1) * n <= k * n
  OBVIOUS
<1>3. (k + 1) * n = k * n + n /\ (l + 1) * n = l * n + n
  OBVIOUS
<1>4. k = l
  <2>1. k * n \in Nat /\ l * n \in Nat
    OBVIOUS
  <2> QED BY <1>1, <1>2, <1>3, <2>1
<1> QED BY <1>4
-----------------------------------------------------------------------------
(* Sums of integers: the area above zero less the area below.              *)

Rising(F, S) == [x \in S |-> IF F[x] > 0 THEN F[x] ELSE 0]
Falling(F, S) == [x \in S |-> IF F[x] < 0 THEN -F[x] ELSE 0]

LEMMA SignedSumIsArea ==
  ASSUME NEW S, IsFiniteSet(S), NEW F, \A x \in S : F[x] \in Int
  PROVE  /\ SumFunctionOnSet(F, S)
              = Cardinality(Area(Rising(F, S), S)) - Cardinality(Area(Falling(F, S), S))
         /\ IsFiniteSet(Area(Rising(F, S), S)) /\ IsFiniteSet(Area(Falling(F, S), S))
         /\ SumFunctionOnSet(F, S) \in Int
<1> DEFINE some(T) == CHOOSE x \in T : TRUE
           up == Rising(F, S)
           down == Falling(F, S)
           height(T) == Cardinality(Area(up, T)) - Cardinality(Area(down, T))
           cells == [T \in SUBSET S |-> height(T)]
           Solves(h) == h = [T \in SUBSET S |-> IF T = {} THEN 0
                               ELSE F[some(T)] + h[T \ {some(T)}]]
           it == CHOOSE h : Solves(h)
<1>1. SumFunctionOnSet(F, S) = it[S]
  BY Zenon DEF SumFunctionOnSet, FoldFunctionOnSet, MapThenFoldSet
<1>2. \A T \in SUBSET S : T # {} => some(T) \in T
  OBVIOUS
<1> HIDE DEF some
<1>3. \A x \in S : up[x] \in Nat /\ down[x] \in Nat /\ up[x] - down[x] = F[x]
  BY DEF Rising, Falling
<1> HIDE DEF up, down
<1>4. \A T \in SUBSET S : IsFiniteSet(Area(up, T)) /\ IsFiniteSet(Area(down, T))
  BY <1>3, AreaIsFinite
<1>5. \A T \in SUBSET S : Cardinality(Area(up, T)) \in Nat /\ Cardinality(Area(down, T)) \in Nat
  BY <1>4, FS_CardinalityType
<1>6. ASSUME NEW T \in SUBSET S
      PROVE  cells[T] = IF T = {} THEN 0 ELSE F[some(T)] + cells[T \ {some(T)}]
  <2>1. CASE T = {}
    <3>1. Area(up, {}) = {} /\ Area(down, {}) = {} BY DEF Area
    <3> QED BY <2>1, <3>1, FS_EmptySet
  <2>2. CASE T # {}
    <3>1. PICK x \in T : x = some(T) BY <1>2, <2>2
    <3> DEFINE R == T \ {x}
    <3>2. R \cup {x} = T /\ x \notin R /\ R \in SUBSET S /\ x \in S BY <3>1
    <3> HIDE DEF R
    <3>3. Cardinality(Area(up, R \cup {x})) = up[x] + Cardinality(Area(up, R))
      BY <1>3, <1>4, <3>2, AreaOfOneMore
    <3>4. Cardinality(Area(down, R \cup {x})) = down[x] + Cardinality(Area(down, R))
      BY <1>3, <1>4, <3>2, AreaOfOneMore
    <3> DEFINE a == Cardinality(Area(up, R))  b == Cardinality(Area(down, R))
               c == Cardinality(Area(up, T))  d == Cardinality(Area(down, T))
               u == up[x]  v == down[x]
    <3>5. /\ a \in Nat /\ b \in Nat /\ u \in Nat /\ v \in Nat /\ u - v = F[x]
          /\ c = u + a /\ d = v + b
      BY <1>3, <1>5, <3>2, <3>3, <3>4
    <3>6. cells[T] = c - d /\ cells[R] = a - b BY <3>2
    <3> HIDE DEF a, b, c, d, u, v, cells
    <3>7. cells[T] = F[x] + cells[R] BY <3>5, <3>6
    <3> QED BY <2>2, <3>1, <3>7 DEF R
  <2> QED BY <2>1, <2>2
<1>7. Solves(cells)
  <2>1. cells = [T \in SUBSET S |-> cells[T]] OBVIOUS
  <2> HIDE DEF cells
  <2> QED BY <1>6, <2>1
<1>8. Solves(it)
  <2> HIDE DEF cells
  <2> DEFINE P(h) == Solves(h)
  <2>1. \E h : P(h) BY <1>7
  <2> HIDE DEF P
  <2>2. P(CHOOSE h : P(h)) BY <2>1
  <2> QED BY <2>2 DEF P
<1>9. cells[S] = height(S) OBVIOUS
<1> HIDE DEF cells, it
<1>10. {T \in SUBSET S : it[T] # cells[T]} = {}
  <2> DEFINE U == {T \in SUBSET S : it[T] # cells[T]}
  <2> SUFFICES ASSUME U # {} PROVE FALSE OBVIOUS
  <2>1. PICK T \in U : \A V \in U : V \subseteq T => V = T
    <3> U \in SUBSET SUBSET S OBVIOUS
    <3> HIDE DEF U
    <3> QED BY LeastSubset
  <2>2. T # {} BY <1>7, <1>8, <2>1
  <2>3. T \ {some(T)} # T /\ T \ {some(T)} \in SUBSET S BY <1>2, <2>1, <2>2
  <2>4. it[T \ {some(T)}] = cells[T \ {some(T)}] BY <2>1, <2>3
  <2>5. it[T] = F[some(T)] + it[T \ {some(T)}] BY <1>8, <2>1, <2>2
  <2>6. cells[T] = F[some(T)] + cells[T \ {some(T)}] BY <1>6, <2>1, <2>2
  <2> QED BY <2>1, <2>4, <2>5, <2>6
<1>11. it[S] = height(S) BY <1>9, <1>10
<1>12. S \in SUBSET S OBVIOUS
<1>13. height(S) \in Int BY <1>5, <1>12
<1> QED BY <1>1, <1>4, <1>11, <1>12, <1>13 DEF up, down

LEMMA SumsAdd ==
  ASSUME NEW S, IsFiniteSet(S), NEW T, IsFiniteSet(T), S \cap T = {},
         NEW F, \A x \in S \cup T : F[x] \in Int
  PROVE  /\ SumFunctionOnSet(F, S \cup T) = SumFunctionOnSet(F, S) + SumFunctionOnSet(F, T)
         /\ SumFunctionOnSet(F, S) \in Int /\ SumFunctionOnSet(F, T) \in Int
<1> DEFINE R == S \cup T
           a == Area(Rising(F, S), S)   c == Area(Falling(F, S), S)
           b == Area(Rising(F, T), T)   d == Area(Falling(F, T), T)
           e == Area(Rising(F, R), R)   g == Area(Falling(F, R), R)
<1>1. IsFiniteSet(R)
  BY FS_Union
<1>2. e = a \cup b /\ a \cap b = {} /\ g = c \cup d /\ c \cap d = {}
  BY DEF Area, Rising, Falling
<1>3. /\ SumFunctionOnSet(F, S) = Cardinality(a) - Cardinality(c)
      /\ IsFiniteSet(a) /\ IsFiniteSet(c) /\ SumFunctionOnSet(F, S) \in Int
  BY SignedSumIsArea
<1>4. /\ SumFunctionOnSet(F, T) = Cardinality(b) - Cardinality(d)
      /\ IsFiniteSet(b) /\ IsFiniteSet(d) /\ SumFunctionOnSet(F, T) \in Int
  BY SignedSumIsArea
<1>5. SumFunctionOnSet(F, R) = Cardinality(e) - Cardinality(g)
  <2> HIDE DEF R
  <2> QED BY <1>1, SignedSumIsArea DEF R
<1> HIDE DEF a, b, c, d, e, g
<1>6. /\ Cardinality(a \cup b) = Cardinality(a) + Cardinality(b)
      /\ Cardinality(a) \in Nat /\ Cardinality(b) \in Nat
  BY <1>2, <1>3, <1>4, InTwoParts
<1>7. /\ Cardinality(c \cup d) = Cardinality(c) + Cardinality(d)
      /\ Cardinality(c) \in Nat /\ Cardinality(d) \in Nat
  BY <1>2, <1>3, <1>4, InTwoParts
<1>8. \A w, x, y, z \in Nat : (w + x) - (y + z) = (w - y) + (x - z)
  OBVIOUS
<1>9. SumFunctionOnSet(F, R)
        = (Cardinality(a) + Cardinality(b)) - (Cardinality(c) + Cardinality(d))
  BY <1>2, <1>5, <1>6, <1>7, Zenon
<1>10. SumFunctionOnSet(F, R) = (Cardinality(a) - Cardinality(c)) + (Cardinality(b) - Cardinality(d))
  BY <1>6, <1>7, <1>8, <1>9
<1>11. SumFunctionOnSet(F, R) = SumFunctionOnSet(F, S) + SumFunctionOnSet(F, T)
  BY <1>3, <1>4, <1>10, Zenon
<1> QED BY <1>3, <1>4, <1>11

LEMMA SumOfOne ==
  ASSUME NEW x, NEW F, F[x] \in Int
  PROVE  SumFunctionOnSet(F, {x}) = F[x]
<1> DEFINE up == Rising(F, {x})
           down == Falling(F, {x})
<1>1. IsFiniteSet({x}) /\ IsFiniteSet({}) /\ Cardinality({}) = 0
  BY FS_Singleton, FS_EmptySet
<1>2. up[x] \in Nat /\ down[x] \in Nat /\ up[x] - down[x] = F[x]
  BY DEF Rising, Falling
<1>3. SumFunctionOnSet(F, {x}) = Cardinality(Area(up, {x})) - Cardinality(Area(down, {x}))
  BY <1>1, SignedSumIsArea
<1> HIDE DEF up, down
<1>4. Area(up, {}) = {} /\ Area(down, {}) = {} /\ {x} = {} \cup {x}
  BY DEF Area
<1>5. Cardinality(Area(up, {} \cup {x})) = up[x] + Cardinality(Area(up, {}))
  BY <1>1, <1>2, <1>4, AreaOfOneMore
<1>6. Cardinality(Area(down, {} \cup {x})) = down[x] + Cardinality(Area(down, {}))
  BY <1>1, <1>2, <1>4, AreaOfOneMore
<1>7. Cardinality(Area(up, {x})) = up[x] + 0 /\ Cardinality(Area(down, {x})) = down[x] + 0
  BY <1>1, <1>4, <1>5, <1>6, Zenon
<1> QED BY <1>2, <1>3, <1>7

=============================================================================
