-------------------------- MODULE ProjectionProofs --------------------------
(***************************************************************************)
(* Theorems about Projection, for every dataset, ranking, configuration    *)
(* and order of arrival.                                                   *)
(***************************************************************************)
EXTENDS ProjectionInvariant, Counting

-----------------------------------------------------------------------------
(* The stable sort.                                                        *)

(* The positions of q that go no later than position i.                    *)
UpTo(q, i) ==
  {j \in DOMAIN q : \/ Key[q[j]] < Key[q[i]]
                    \/ Key[q[j]] = Key[q[i]] /\ j <= i}

(* The positions of a sequence are finitely many, and ranks are numbers.   *)
LEMMA PositionFacts ==
  ASSUME NEW q \in Seq(Rows)
  PROVE  /\ \A k \in DOMAIN q : Key[q[k]] \in Nat
         /\ DOMAIN q = 1 .. Len(q) /\ Len(q) \in Nat
         /\ IsFiniteSet(DOMAIN q) /\ Cardinality(DOMAIN q) = Len(q)
<1>1. DOMAIN q = 1 .. Len(q) /\ Len(q) \in Nat
  OBVIOUS
<1>2. \A k \in DOMAIN q : Key[q[k]] \in Nat
  BY <1>1, ContentAssumption
<1> DEFINE n == Len(q)
<1>3. n \in Int /\ 1 \in Int /\ n >= 0
  BY <1>1
<1> HIDE DEF n
<1>4. IsFiniteSet(1 .. n) /\ Cardinality(1 .. n) = IF 1 > n THEN 0 ELSE n - 1 + 1
  BY <1>3, FS_Interval
<1>5. IsFiniteSet(1 .. n) /\ Cardinality(1 .. n) = n
  BY <1>3, <1>4
<1>6. QED BY <1>1, <1>2, <1>5 DEF n

(* A row that goes before another gets a smaller place.                    *)
LEMMA EarlierPlace ==
  ASSUME NEW q \in Seq(Rows), NEW i \in DOMAIN q, NEW j \in DOMAIN q,
         i # j, j \in UpTo(q, i)
  PROVE  PlaceOf(q, j) < PlaceOf(q, i)
<1>1. /\ \A k \in DOMAIN q : Key[q[k]] \in Nat
      /\ DOMAIN q = 1 .. Len(q) /\ Len(q) \in Nat
  BY PositionFacts
<1>2. UpTo(q, j) \subseteq UpTo(q, i) /\ i \in UpTo(q, i) /\ i \notin UpTo(q, j)
  BY <1>1 DEF UpTo
<1>3. UpTo(q, i) \subseteq DOMAIN q /\ IsFiniteSet(DOMAIN q)
  <2>1. IsFiniteSet(DOMAIN q)
    BY PositionFacts
  <2>2. QED BY <2>1 DEF UpTo
<1>4. IsFiniteSet(UpTo(q, i))
  BY <1>3, FS_Subset
<1>5. /\ Cardinality(UpTo(q, i)) \in Nat /\ IsFiniteSet(UpTo(q, j))
      /\ Cardinality(UpTo(q, j)) <= Cardinality(UpTo(q, i))
      /\ Cardinality(UpTo(q, j)) # Cardinality(UpTo(q, i))
  BY <1>2, <1>4, FS_Subset, FS_CardinalityType
<1>6. Cardinality(UpTo(q, j)) \in Nat
  BY <1>5, FS_CardinalityType
<1>7. QED BY <1>5, <1>6 DEF PlaceOf, UpTo

(* Every row gets a place of its own, and every place is taken.            *)
LEMMA PlacesArePermuted ==
  ASSUME NEW q \in Seq(Rows)
  PROVE  /\ \A i \in DOMAIN q : PlaceOf(q, i) \in DOMAIN q
         /\ \A k \in DOMAIN q : \E i \in DOMAIN q : PlaceOf(q, i) = k
         /\ \A i, j \in DOMAIN q : PlaceOf(q, i) = PlaceOf(q, j) => i = j
         /\ \A i, j \in DOMAIN q :
              PlaceOf(q, i) < PlaceOf(q, j) => Key[q[i]] <= Key[q[j]]
<1> DEFINE place == [i \in DOMAIN q |-> PlaceOf(q, i)]
<1>1. /\ \A k \in DOMAIN q : Key[q[k]] \in Nat
      /\ DOMAIN q = 1 .. Len(q) /\ Len(q) \in Nat
  BY PositionFacts
<1>2. IsFiniteSet(DOMAIN q) /\ Cardinality(DOMAIN q) = Len(q)
  BY PositionFacts
<1>3. ASSUME NEW i \in DOMAIN q
      PROVE  PlaceOf(q, i) \in DOMAIN q
  <2>1. UpTo(q, i) \in SUBSET DOMAIN q /\ i \in UpTo(q, i)
    BY <1>1 DEF UpTo
  <2>2. IsFiniteSet(UpTo(q, i)) /\ Cardinality(UpTo(q, i)) <= Len(q)
    BY <1>2, <2>1, FS_Subset
  <2>3. Cardinality(UpTo(q, i)) \in Nat \ {0}
    BY <2>1, <2>2, FS_CardinalityType, FS_EmptySet
  <2>4. QED BY <1>1, <2>2, <2>3 DEF PlaceOf, UpTo
<1>4. ASSUME NEW i \in DOMAIN q, NEW j \in DOMAIN q, i # j
      PROVE  PlaceOf(q, i) # PlaceOf(q, j)
  <2>1. i \in UpTo(q, j) \/ j \in UpTo(q, i)
    BY <1>1, <1>4 DEF UpTo
  <2>2. PlaceOf(q, i) < PlaceOf(q, j) \/ PlaceOf(q, j) < PlaceOf(q, i)
    BY <1>4, <2>1, EarlierPlace
  <2>3. PlaceOf(q, i) \in Nat /\ PlaceOf(q, j) \in Nat
    BY <1>1, <1>3
  <2>4. QED BY <2>2, <2>3
<1>5. place \in Injection(DOMAIN q, DOMAIN q)
  <2>1. place \in [DOMAIN q -> DOMAIN q]
    BY <1>3
  <2>2. \A i, j \in DOMAIN place : place[i] = place[j] => i = j
    BY <1>4
  <2> HIDE DEF place
  <2>3. QED BY <2>1, <2>2 DEF Injection, IsInjective
<1>6. place \in Surjection(DOMAIN q, DOMAIN q)
  <2> HIDE DEF place
  <2>1. QED BY <1>2, <1>5, FS_Injection
<1>7. \A k \in DOMAIN q : \E i \in DOMAIN q : place[i] = k
  <2> HIDE DEF place
  <2>1. QED BY <1>6 DEF Surjection
<1>8. ASSUME NEW i \in DOMAIN q, NEW j \in DOMAIN q, PlaceOf(q, i) < PlaceOf(q, j)
      PROVE  Key[q[i]] <= Key[q[j]]
  <2>1. SUFFICES ASSUME Key[q[j]] < Key[q[i]] PROVE FALSE
    BY <1>1
  <2>2. j \in UpTo(q, i) /\ i # j
    BY <1>1, <2>1 DEF UpTo
  <2>3. PlaceOf(q, j) < PlaceOf(q, i)
    BY <2>2, EarlierPlace
  <2>4. PlaceOf(q, i) \in Nat /\ PlaceOf(q, j) \in Nat
    BY <1>1, <1>3
  <2>5. QED BY <1>8, <2>3, <2>4
<1>9. QED BY <1>3, <1>4, <1>7, <1>8

(* The sort keeps the rows, and under ORDER BY puts them in order.         *)
LEMMA OrderedFacts ==
  ASSUME NEW q \in Seq(Rows)
  PROVE  /\ Ordered(q) \in Seq(Rows) /\ Len(Ordered(q)) = Len(q)
         /\ RowsIn(Ordered(q)) = RowsIn(q)
         /\ job.ordered => \A i, j \in DOMAIN q :
              i < j => Key[Ordered(q)[i]] <= Key[Ordered(q)[j]]
<1>1. CASE ~job.ordered
  BY <1>1 DEF Ordered
<1>2. CASE job.ordered
  <2> DEFINE from(k) == CHOOSE i \in DOMAIN q : PlaceOf(q, i) = k
             sorted == [k \in DOMAIN q |-> q[from(k)]]
  <2>1. \A k \in DOMAIN q : from(k) \in DOMAIN q /\ PlaceOf(q, from(k)) = k
    BY PlacesArePermuted
  <2>2. DOMAIN q = 1 .. Len(q) /\ Len(q) \in Nat
    OBVIOUS
  <2> HIDE DEF from
  <2>3. sorted \in [1 .. Len(q) -> Rows]
    BY <2>1, <2>2
  <2>4. sorted \in Seq(Rows) /\ Len(sorted) = Len(q)
    BY <2>2, <2>3
  <2>5. RowsIn(sorted) \subseteq RowsIn(q)
    BY <2>1 DEF RowsIn
  <2>6. RowsIn(q) \subseteq RowsIn(sorted)
    <3>1. SUFFICES ASSUME NEW i \in DOMAIN q PROVE q[i] \in RowsIn(sorted)
      BY DEF RowsIn
    <3>2. PlaceOf(q, i) \in DOMAIN q
      BY PlacesArePermuted
    <3>3. PICK k \in DOMAIN q : k = PlaceOf(q, i)
      BY <3>2
    <3>4. from(k) = i
      BY <2>1, <3>3, PlacesArePermuted
    <3>5. QED BY <3>3, <3>4 DEF RowsIn
  <2>7. ASSUME NEW i \in DOMAIN q, NEW j \in DOMAIN q, i < j
        PROVE  Key[sorted[i]] <= Key[sorted[j]]
    BY <2>1, <2>7, PlacesArePermuted
  <2>8. Ordered(q) = sorted
    BY <1>2 DEF Ordered, from
  <2> HIDE DEF sorted
  <2>9. QED BY <2>4, <2>5, <2>6, <2>7, <2>8
<1>3. QED BY <1>1, <1>2

-----------------------------------------------------------------------------
(* Truncation.                                                             *)

(* What a cap leaves is the beginning of the sequence, cut only when it is *)
(* longer than the cap.                                                    *)
LEMMA TruncateFacts ==
  ASSUME NEW q \in Seq(Rows), NEW cap \in Caps, NEW t, t = Truncate(q, cap)
  PROVE  /\ t \in Seq(Rows) /\ Len(t) <= Len(q) /\ DOMAIN t \subseteq DOMAIN q
         /\ \A i \in DOMAIN t : t[i] = q[i]
         /\ ~Exceeds(t, cap)
         /\ ~Exceeds(q, cap) => t = q
         /\ Reaches(q, cap) => cap # NoLimit /\ Len(t) = cap
         /\ Exceeds(q, cap) => cap # NoLimit /\ Len(t) = cap
<1>1. CASE Exceeds(q, cap)
  <2>1. cap # NoLimit /\ cap \in Nat /\ cap < Len(q) /\ Len(q) \in Nat
    BY <1>1 DEF Exceeds, Caps
  <2>2. t = SubSeq(q, 1, cap)
    BY <1>1 DEF Truncate
  <2>3. t \in Seq(Rows) /\ Len(t) = cap /\ \A i \in 1 .. cap : t[i] = q[i]
    BY <2>1, <2>2
  <2>4. QED BY <1>1, <2>1, <2>3 DEF Exceeds
<1>2. CASE ~Exceeds(q, cap)
  <2>1. t = q
    BY <1>2 DEF Truncate
  <2>2. Reaches(q, cap) => cap # NoLimit /\ Len(q) = cap
    BY <1>2 DEF Reaches, Exceeds, Caps
  <2>3. QED BY <1>2, <2>1, <2>2
<1>3. QED BY <1>1, <1>2

LEMMA CapFacts ==
  ASSUME job \in Jobs
  PROVE  /\ job.limit \in Caps /\ MemCap \in Caps /\ CollectCap \in Caps
         /\ Window \in Nat \ {0} /\ Live \subseteq Shards /\ IsFiniteSet(Live)
         /\ Live \subseteq job.shards
<1>1. JobOK(job)
  BY JobsAssumption
<1>2. job.limit \in Caps /\ Conf.maxGroups \in Nat /\ Conf.inFlight \in Nat
      /\ job.shards \subseteq Shards
  BY <1>1 DEF JobOK, ConfigType, Conf
<1>3. Live \subseteq Shards /\ Live \subseteq job.shards
  BY <1>2 DEF Live
<1>4. IsFiniteSet(Live)
  BY <1>3, ShardsAssumption, FS_Subset
<1>5. QED
  BY <1>2, <1>3, <1>4 DEF MemCap, CollectCap, Caps, Window, AtLeastOne

(* The rows of pruned shards are none.                                     *)
LEMMA PrunedGatherNothing ==
  ASSUME job \in Jobs
  PROVE  Gathered(Live) = Gathered(job.shards)
<1>1. Live \subseteq job.shards
  BY CapFacts
<1>2. Gathered(Live) \subseteq Gathered(job.shards)
  BY <1>1 DEF Gathered
<1>3. ASSUME NEW s \in job.shards, s \notin Live
      PROVE  RowsIn(Matches[Cid[s]]) = {}
  BY <1>3, PruningAssumption DEF Live, RowsIn
<1>4. Gathered(job.shards) \subseteq Gathered(Live)
  BY <1>3 DEF Gathered
<1>5. QED BY <1>2, <1>4

-----------------------------------------------------------------------------
(* The invariant.                                                          *)

LEMMA InitIInv == Init => IInv
<1> SUFFICES ASSUME Init PROVE IInv
  OBVIOUS
<1>1. RunOK
  <2>1. rows \in Seq(Rows) /\ collected \subseteq Live
    BY DEF Init
  <2>2. truncated \in BOOLEAN
    BY DEF Init
  <2>3. QED BY <2>1, <2>2 DEF Init, RunOK
<1>2. CollectingOK /\ AnswerIsHonest /\ NothingBetterIsMissing
  BY DEF Init, CollectingOK, AnswerIsHonest, NothingBetterIsMissing
<1>3. QED BY <1>1, <1>2 DEF IInv

(* A step that leaves alone what the invariant speaks of, or only forgets  *)
(* the walks, keeps it.                                                    *)
LEMMA QuietStep ==
  ASSUME IInv, UNCHANGED <<job, phase, pending, inflight, collected, rows, truncated>>
  PROVE  IInv'
<1>1. UNCHANGED <<Live, CanEarlyStop, CollectCap, MemCap, Filled, RowsIn(rows),
                  Gathered(collected), Gathered(job.shards), Exceeds(rows, CollectCap)>>
  BY DEF Live, CanEarlyStop, CollectCap, MemCap, Conf, Filled, RowsIn, Gathered, Exceeds
<1>2. RunOK' /\ CollectingOK'
  BY <1>1 DEF IInv, RunOK, CollectingOK
<1>3. AnswerIsHonest' /\ NothingBetterIsMissing'
  BY <1>1 DEF IInv, AnswerIsHonest, NothingBetterIsMissing
<1>4. QED BY <1>2, <1>3 DEF IInv

LEMMA FailStep ==
  ASSUME IInv, phase' = "failed", UNCHANGED <<job, collected, rows, truncated>>
  PROVE  IInv'
<1>1. Live' = Live
  BY DEF Live
<1>2. QED
  BY <1>1 DEF IInv, RunOK, CollectingOK, AnswerIsHonest, NothingBetterIsMissing

LEMMA EmptyDatasetStep ==
  ASSUME IInv, EmptyDataset
  PROVE  IInv'
<1>1. /\ job.shards = {} /\ phase = "init" /\ phase' = "ok"
      /\ UNCHANGED <<job, pending, inflight, collected, resultVars>>
  BY DEF EmptyDataset, EndBeforeDispatch
<1>2. /\ job' \in Jobs /\ rows' = <<>> /\ ~truncated' /\ truncated' \in BOOLEAN
      /\ collected' = {} /\ Live' = {}
  BY <1>1 DEF IInv, RunOK, resultVars, Live
<1>3. RowsIn(rows') = {} /\ Gathered(job'.shards) = {}
  BY <1>1, <1>2 DEF RowsIn, Gathered
<1>4. RunOK' /\ CollectingOK'
  BY <1>1, <1>2 DEF RunOK, CollectingOK
<1>5. AnswerIsHonest' /\ NothingBetterIsMissing'
  BY <1>1, <1>2, <1>3 DEF AnswerIsHonest, NothingBetterIsMissing, RowsIn, Gathered
<1>6. QED BY <1>4, <1>5 DEF IInv

LEMMA DispatchStep ==
  ASSUME IInv, Dispatch
  PROVE  IInv'
<1>1. PICK P \in SUBSET Live :
        /\ Cardinality(P) = IF Window <= Cardinality(Live) THEN Window ELSE Cardinality(Live)
        /\ inflight' = P /\ pending' = Live \ P
  BY DEF Dispatch
<1>2. /\ phase = "init" /\ phase' = "collect"
      /\ UNCHANGED <<job, collected, resultVars>>
  BY DEF Dispatch
<1>3. /\ job \in Jobs /\ rows = <<>> /\ ~truncated /\ truncated \in BOOLEAN
      /\ collected = {}
  BY <1>2 DEF IInv, RunOK
<1>4. P = {} => Live = {}
  <2>1. IsFiniteSet(Live) /\ Window \in Nat \ {0}
    BY <1>3, CapFacts
  <2>2. Cardinality(Live) = 0 => Live = {}
    BY <2>1, FS_EmptySet
  <2>3. Cardinality(Live) \in Nat /\ (P = {} => Cardinality(P) = 0)
    BY <2>1, FS_CardinalityType, FS_EmptySet
  <2>4. QED BY <1>1, <2>1, <2>2, <2>3
<1>5. Live' = Live /\ CollectCap' = CollectCap
  BY <1>2 DEF Live, CollectCap, CanEarlyStop, MemCap, Conf
<1>6. RunOK'
  BY <1>2, <1>3, <1>5 DEF RunOK, resultVars
<1>7. CollectingOK'
  <2>1. RowsIn(rows') = {} /\ Gathered(collected') = {}
    BY <1>2, <1>3 DEF RowsIn, Gathered, resultVars
  <2>2. ~Exceeds(rows', CollectCap')
    BY <1>2, <1>3, <1>5, CapFacts DEF Exceeds, resultVars, Caps
  <2>3. QED BY <1>1, <1>2, <1>3, <1>4, <1>5, <2>1, <2>2 DEF CollectingOK, resultVars
<1>8. QED BY <1>2, <1>6, <1>7 DEF IInv, AnswerIsHonest, NothingBetterIsMissing

(* The collector takes the rows of a shard: the cap cuts them, and the     *)
(* loop ends or the window is refilled.                                    *)
LEMMA CollectServedStep ==
  ASSUME IInv, NEW s \in Shards, CollectServed(s)
  PROVE  IInv'
<1> DEFINE new == Matches[Cid[s]]
           all == rows \o new
<1>1. /\ phase = "collect" /\ s \in inflight
      /\ rows' = Truncate(all, CollectCap)
      /\ truncated' = (truncated \/ Exceeds(all, CollectCap))
      /\ (Enough(all) /\ StopFetching) \/ (~Enough(all) /\ Refill(s))
      /\ collected' = collected \cup {s}
      /\ UNCHANGED <<job, phase>>
  BY DEF CollectServed, Finished
<1>2. /\ job \in Jobs /\ rows \in Seq(Rows) /\ truncated \in BOOLEAN
      /\ pending \cup inflight \cup collected = Live
      /\ pending # {} => inflight # {}
      /\ RowsIn(rows) \subseteq Gathered(collected)
      /\ ~truncated /\ ~CanEarlyStop => Gathered(collected) \subseteq RowsIn(rows)
      /\ ~Exceeds(rows, CollectCap)
      /\ truncated => CollectCap # NoLimit /\ Len(rows) = CollectCap
  BY <1>1 DEF IInv, RunOK, CollectingOK
<1>3. /\ new \in Seq(Rows) /\ CollectCap \in Caps
      /\ UNCHANGED <<Live, CanEarlyStop, CollectCap>>
  BY <1>1, <1>2, CapFacts, ContentAssumption DEF Live, CanEarlyStop, CollectCap, MemCap, Conf
<1> HIDE DEF new
<1>4. /\ all \in Seq(Rows) /\ Len(all) = Len(rows) + Len(new)
      /\ RowsIn(all) = RowsIn(rows) \cup RowsIn(new)
  <2>1. all \in Seq(Rows) /\ Len(all) = Len(rows) + Len(new)
    BY <1>2, <1>3
  <2>2. /\ \A i \in DOMAIN rows : i \in DOMAIN all /\ all[i] = rows[i]
        /\ \A i \in DOMAIN new :
             Len(rows) + i \in DOMAIN all /\ all[Len(rows) + i] = new[i]
    BY <1>2, <1>3
  <2>3. \A i \in DOMAIN all :
          \/ i \in DOMAIN rows /\ all[i] = rows[i]
          \/ i - Len(rows) \in DOMAIN new /\ all[i] = new[i - Len(rows)]
    BY <1>2, <1>3
  <2> HIDE DEF all
  <2>4. RowsIn(all) \subseteq RowsIn(rows) \cup RowsIn(new)
    BY <2>3 DEF RowsIn
  <2>5. RowsIn(rows) \subseteq RowsIn(all) /\ RowsIn(new) \subseteq RowsIn(all)
    BY <2>2 DEF RowsIn
  <2>6. QED BY <2>1, <2>4, <2>5
<1>5. Gathered(collected') = Gathered(collected) \cup RowsIn(new)
  BY <1>1 DEF Gathered, new
<1> HIDE DEF all
<1>6. /\ rows' \in Seq(Rows) /\ ~Exceeds(rows', CollectCap)
      /\ RowsIn(rows') \subseteq RowsIn(all)
      /\ ~Exceeds(all, CollectCap) => rows' = all
      /\ Reaches(all, CollectCap) => CollectCap # NoLimit /\ Len(rows') = CollectCap
      /\ Exceeds(all, CollectCap) => CollectCap # NoLimit /\ Len(rows') = CollectCap
  BY <1>1, <1>3, <1>4, TruncateFacts DEF RowsIn
<1>7. collected' \subseteq Live
  BY <1>1, <1>2
<1>8. RunOK'
  BY <1>1, <1>2, <1>3, <1>6, <1>7 DEF RunOK
<1>9. \/ /\ pending' \cup inflight' \cup collected' = Live
         /\ pending' # {} => inflight' # {}
      \/ inflight' = {} /\ Filled'
  <2>1. CASE Enough(all) /\ StopFetching
    <3>1. inflight' = {} /\ CanEarlyStop /\ CollectCap = job.limit
      BY <2>1 DEF Enough, StopFetching, CollectCap
    <3>2. Len(rows') = job.limit
      BY <1>6, <2>1, <3>1 DEF Enough
    <3>3. QED BY <1>1, <1>3, <3>1, <3>2 DEF Filled
  <2>2. CASE pending = {} /\ inflight' = inflight \ {s} /\ pending' = pending
    BY <1>1, <1>2, <2>2
  <2>3. CASE \E n \in pending : /\ inflight' = (inflight \ {s}) \cup {n}
                               /\ pending' = pending \ {n}
    BY <1>1, <1>2, <2>3
  <2>4. QED BY <1>1, <2>1, <2>2, <2>3 DEF Refill
<1>10. ~truncated' /\ ~CanEarlyStop => Gathered(collected') \subseteq RowsIn(rows')
  BY <1>1, <1>2, <1>4, <1>5, <1>6
<1>11. truncated' => CollectCap # NoLimit /\ Len(rows') = CollectCap
  <2>1. CASE truncated
    <3>1. Reaches(all, CollectCap)
      BY <1>2, <1>3, <1>4, <2>1 DEF Reaches, Caps
    <3>2. QED BY <1>6, <3>1
  <2>2. CASE Exceeds(all, CollectCap)
    BY <1>6, <2>2
  <2>3. QED BY <1>1, <2>1, <2>2
<1>12. CollectingOK'
  BY <1>1, <1>3, <1>4, <1>5, <1>2, <1>6, <1>9, <1>10, <1>11 DEF CollectingOK
<1>13. QED BY <1>1, <1>8, <1>12 DEF IInv, AnswerIsHonest, NothingBetterIsMissing

(* The end: the rows are sorted, then the LIMIT cuts them.                 *)
LEMMA FinishStep ==
  ASSUME IInv, Finish
  PROVE  IInv'
<1> DEFINE q == Ordered(rows)
<1>1. /\ phase = "collect" /\ inflight = {} /\ phase' = "ok"
      /\ rows' = Truncate(q, job.limit)
      /\ truncated' = (truncated \/ Exceeds(rows, job.limit))
      /\ UNCHANGED <<job, collected>>
  BY DEF Finish, Drained
<1>2. /\ job \in Jobs /\ rows \in Seq(Rows) /\ truncated \in BOOLEAN
      /\ collected \subseteq Live /\ (collected = Live \/ Filled)
      /\ RowsIn(rows) \subseteq Gathered(collected)
      /\ ~truncated /\ ~CanEarlyStop => Gathered(collected) \subseteq RowsIn(rows)
      /\ ~Exceeds(rows, CollectCap)
      /\ truncated => CollectCap # NoLimit /\ Len(rows) = CollectCap
  BY <1>1 DEF IInv, RunOK, CollectingOK
<1>3. /\ job.limit \in Caps /\ MemCap \in Caps
      /\ UNCHANGED <<Live, CanEarlyStop, MemCap>>
  BY <1>1, <1>2, CapFacts DEF Live, CanEarlyStop, MemCap, Conf
<1>4. /\ q \in Seq(Rows) /\ Len(q) = Len(rows) /\ RowsIn(q) = RowsIn(rows)
      /\ job.ordered => \A i, j \in DOMAIN rows : i < j => Key[q[i]] <= Key[q[j]]
  BY <1>2, OrderedFacts
<1> HIDE DEF q
<1>5. DOMAIN q = DOMAIN rows /\ (Exceeds(q, job.limit) <=> Exceeds(rows, job.limit))
  BY <1>2, <1>4 DEF Exceeds
<1>6. /\ rows' \in Seq(Rows) /\ Len(rows') <= Len(rows) /\ DOMAIN rows' \subseteq DOMAIN rows
      /\ \A i \in DOMAIN rows' : rows'[i] = q[i]
      /\ ~Exceeds(rows, job.limit) => rows' = q
      /\ Exceeds(rows, job.limit) => job.limit # NoLimit /\ Len(rows') = job.limit
  <2>1. /\ rows' \in Seq(Rows) /\ Len(rows') <= Len(q) /\ DOMAIN rows' \subseteq DOMAIN q
        /\ \A i \in DOMAIN rows' : rows'[i] = q[i]
        /\ ~Exceeds(q, job.limit) => rows' = q
        /\ Exceeds(q, job.limit) => job.limit # NoLimit /\ Len(rows') = job.limit
    BY <1>1, <1>3, <1>4, TruncateFacts
  <2>2. QED BY <1>4, <1>5, <2>1
<1>7. RowsIn(rows') \subseteq RowsIn(rows)
  BY <1>4, <1>5, <1>6 DEF RowsIn
<1>8. /\ Gathered(collected) \subseteq Gathered(job.shards)
      /\ collected = Live => Gathered(collected) = Gathered(job.shards)
  <2>1. Gathered(collected) \subseteq Gathered(Live)
    BY <1>2 DEF Gathered
  <2>2. QED BY <1>2, <2>1, PrunedGatherNothing
<1>9. RunOK'
  BY <1>1, <1>2, <1>3, <1>6 DEF RunOK
<1>10. AnswerIsHonest'
  <2>1. collected' = Live' \/ Filled'
    <3>1. CASE Filled
      <4>1. ~Exceeds(rows, job.limit) /\ Len(rows') = Len(rows)
        BY <1>2, <1>4, <1>6, <3>1 DEF Filled, Exceeds, Caps
      <4>2. QED BY <1>1, <1>3, <3>1, <4>1 DEF Filled
    <3>2. QED BY <1>1, <1>2, <1>3, <3>1
  <2>2. RowsIn(rows') \subseteq Gathered(job.shards)
    BY <1>2, <1>7, <1>8
  <2>3. ~truncated' /\ ~CanEarlyStop => Gathered(job.shards) \subseteq RowsIn(rows')
    <3>1. SUFFICES ASSUME ~truncated', ~CanEarlyStop
                   PROVE  Gathered(job.shards) \subseteq RowsIn(rows')
      OBVIOUS
    <3>2. ~truncated /\ rows' = q
      BY <1>1, <1>6, <3>1
    <3>3. collected = Live
      BY <1>2, <3>1 DEF Filled
    <3>4. QED BY <1>2, <1>4, <1>8, <3>1, <3>2, <3>3
  <2>4. truncated' => Len(rows') \in {job.limit, MemCap} \ {NoLimit}
    <3>1. CASE Exceeds(rows, job.limit)
      BY <1>6, <3>1, <1>3, LimitAssumption DEF Caps
    <3>2. CASE ~Exceeds(rows, job.limit)
      BY <1>1, <1>2, <1>4, <1>6, <3>2 DEF CollectCap
    <3>3. QED BY <3>1, <3>2
  <2>5. QED BY <1>1, <1>3, <2>1, <2>2, <2>3, <2>4 DEF AnswerIsHonest, Gathered
<1>11. NothingBetterIsMissing'
  <2>1. SUFFICES ASSUME job.ordered
                 PROVE  NothingBetterIsMissing'
    BY <1>1 DEF NothingBetterIsMissing
  <2>2. \A i, j \in DOMAIN rows' : i < j => Key[rows'[i]] <= Key[rows'[j]]
    BY <1>4, <1>6, <2>1
  <2>3. ASSUME ~truncated' \/ MemCap = NoLimit,
               NEW r \in Gathered(job.shards) \ RowsIn(rows'), NEW i \in DOMAIN rows'
        PROVE  Key[rows'[i]] <= Key[r]
    <3>1. ~CanEarlyStop /\ CollectCap = MemCap
      BY <2>1 DEF CanEarlyStop, CollectCap
    <3>2. ~truncated
      BY <1>1, <1>2, <2>3, <3>1
    <3>3. r \in RowsIn(q)
      BY <1>2, <1>4, <1>8, <2>3, <3>1, <3>2 DEF Filled
    <3>4. PICK k \in DOMAIN q : r = q[k]
      BY <3>3 DEF RowsIn
    <3>5. k \notin DOMAIN rows'
      BY <1>6, <2>3, <3>4 DEF RowsIn
    <3>6. i < k
      BY <1>4, <1>6, <3>4, <3>5
    <3>7. QED BY <1>4, <1>5, <1>6, <2>1, <2>3, <3>4, <3>6
  <2>4. QED BY <1>1, <1>3, <2>2, <2>3 DEF NothingBetterIsMissing, Gathered
<1>12. QED BY <1>1, <1>9, <1>10, <1>11 DEF IInv, CollectingOK

-----------------------------------------------------------------------------
(* Counting rows.                                                          *)

(* Truncation drops occurrences, sorting keeps them, and concatenation     *)
(* adds them up.                                                           *)
LEMMA OccurrencesFacts ==
  ASSUME NEW q \in Seq(Rows), NEW r
  PROVE  /\ Occurrences(q, r) = Cardinality(Where(q, {r}))
         /\ Occurrences(q, r) \in Nat
         /\ IsFiniteSet({i \in DOMAIN q : q[i] = r})
<1>1. {i \in DOMAIN q : q[i] = r} = Where(q, {r})
  BY DEF Where
<1>2. QED BY <1>1, WhereIsFinite DEF Occurrences

LEMMA PrefixOccurrences ==
  ASSUME NEW q \in Seq(Rows), NEW t \in Seq(Rows), DOMAIN t \subseteq DOMAIN q,
         \A i \in DOMAIN t : t[i] = q[i], NEW r
  PROVE  Occurrences(t, r) <= Occurrences(q, r)
<1>1. {i \in DOMAIN t : t[i] = r} \in SUBSET {i \in DOMAIN q : q[i] = r}
  OBVIOUS
<1>2. QED BY <1>1, OccurrencesFacts, FS_Subset DEF Occurrences

LEMMA OrderedOccurrences ==
  ASSUME NEW q \in Seq(Rows), NEW r
  PROVE  Occurrences(Ordered(q), r) = Occurrences(q, r)
<1>1. CASE ~job.ordered
  BY <1>1 DEF Ordered
<1>2. CASE job.ordered
  <2> DEFINE from(k) == CHOOSE i \in DOMAIN q : PlaceOf(q, i) = k
             sorted == [k \in DOMAIN q |-> q[from(k)]]
             A == {i \in DOMAIN q : q[i] = r}
             B == {k \in DOMAIN sorted : sorted[k] = r}
             f == [i \in A |-> PlaceOf(q, i)]
  <2>1. \A k \in DOMAIN q : from(k) \in DOMAIN q /\ PlaceOf(q, from(k)) = k
    BY PlacesArePermuted
  <2>2. Ordered(q) = sorted
    BY <1>2 DEF Ordered
  <2> HIDE DEF from
  <2>3. \A i \in DOMAIN q : PlaceOf(q, i) \in DOMAIN q /\ from(PlaceOf(q, i)) = i
    BY <2>1, PlacesArePermuted
  <2>4. f \in [A -> B]
    BY <2>3
  <2>5. \A i, j \in A : f[i] = f[j] => i = j
    BY PlacesArePermuted
  <2>6. \A k \in B : \E i \in A : f[i] = k
    BY <2>1
  <2>7. IsFiniteSet(A)
    BY OccurrencesFacts
  <2> HIDE DEF A, B, f, sorted
  <2>8. Cardinality(B) = Cardinality(A)
    BY <2>4, <2>5, <2>6, <2>7, PairedOff
  <2>9. QED BY <2>2, <2>8 DEF Occurrences, A, B
<1>3. QED BY <1>1, <1>2

(* The matching rows of one more shard.                                    *)
LEMMA OneMoreShard ==
  ASSUME NEW S \in SUBSET Shards, NEW s \in Shards, s \notin S,
         IsFiniteSet(MatchingRows(S)), NEW W
  PROVE  /\ IsFiniteSet(MatchingRows(S \cup {s}))
         /\ Cardinality({p \in MatchingRows(S \cup {s}) : RowAt(p) \in W})
              = Cardinality({p \in MatchingRows(S) : RowAt(p) \in W})
                  + Cardinality(Where(Matches[Cid[s]], W))
<1> DEFINE q == Matches[Cid[s]]
           old == {p \in MatchingRows(S) : RowAt(p) \in W}
           new == {p \in {s} \X DOMAIN q : RowAt(p) \in W}
           f == [i \in Where(q, W) |-> <<s, i>>]
<1>1. q \in Seq(Rows) /\ DOMAIN q = 1 .. Len(q) /\ Len(q) \in Nat
  BY ContentAssumption
<1>2. /\ MatchingRows(S \cup {s}) = MatchingRows(S) \cup ({s} \X DOMAIN q)
      /\ MatchingRows(S) \cap ({s} \X DOMAIN q) = {}
  BY DEF MatchingRows
<1>3. IsFiniteSet({s} \X DOMAIN q)
  <2>1. IsFiniteSet({s}) /\ IsFiniteSet(DOMAIN q)
    BY <1>1, IndicesAreFinite, FS_Singleton
  <2> HIDE DEF q
  <2>2. QED BY <2>1, FS_Product
<1>4. IsFiniteSet(MatchingRows(S \cup {s}))
  <2> DEFINE N == {s} \X DOMAIN q
             M == MatchingRows(S)
  <2>1. IsFiniteSet(M) /\ IsFiniteSet(N) /\ M \cap N = {}
    BY <1>2, <1>3
  <2> HIDE DEF M, N
  <2>2. IsFiniteSet(M \cup N)
    BY <2>1, InTwoParts
  <2>3. QED BY <1>2, <2>2 DEF M, N
<1>5. IsFiniteSet(new) /\ Cardinality(new) = Cardinality(Where(q, W))
  <2>1. f \in [Where(q, W) -> new]
    BY DEF Where, RowAt
  <2>2. \A i, j \in Where(q, W) : f[i] = f[j] => i = j
    OBVIOUS
  <2>3. \A p \in new : \E i \in Where(q, W) : f[i] = p
    BY DEF Where, RowAt
  <2>4. IsFiniteSet(Where(q, W))
    BY <1>1, WhereIsFinite
  <2> HIDE DEF new, f, q
  <2>5. QED BY <2>1, <2>2, <2>3, <2>4, PairedOff
<1>6. IsFiniteSet(old)
  BY FS_Subset
<1>7. {p \in MatchingRows(S \cup {s}) : RowAt(p) \in W} = old \cup new /\ old \cap new = {}
  BY <1>2
<1> HIDE DEF old, new
<1>8. Cardinality(old \cup new) = Cardinality(old) + Cardinality(new)
  BY <1>5, <1>6, <1>7, InTwoParts
<1>9. QED BY <1>4, <1>5, <1>7, <1>8 DEF old, q

LEMMA MatchingRowsAreFinite ==
  ASSUME NEW S \in SUBSET Shards
  PROVE  /\ IsFiniteSet(MatchingRows(S)) /\ Cardinality(MatchingRows(S)) \in Nat
         /\ \A p \in MatchingRows(S) : RowAt(p) \in Rows
<1> DEFINE U == {T \in SUBSET S : ~IsFiniteSet(MatchingRows(T))}
<1>1. U = {}
  <2>1. SUFFICES ASSUME U # {} PROVE FALSE
    OBVIOUS
  <2>2. IsFiniteSet(S)
    BY ShardsAssumption, FS_Subset
  <2>3. PICK T \in U : \A V \in U : V \subseteq T => V = T
    <3>1. U \in SUBSET SUBSET S
      OBVIOUS
    <3> HIDE DEF U
    <3>2. QED BY <2>1, <2>2, <3>1, LeastSubset
  <2>4. T # {}
    <3>1. MatchingRows({}) = {}
      BY DEF MatchingRows
    <3>2. QED BY <2>3, <3>1, FS_EmptySet
  <2>5. PICK s \in T : TRUE
    BY <2>4
  <2>6. IsFiniteSet(MatchingRows(T \ {s})) /\ (T \ {s}) \cup {s} = T
    BY <2>3, <2>5
  <2>7. T \ {s} \in SUBSET Shards /\ s \in Shards /\ s \notin T \ {s}
    BY <2>3, <2>5
  <2>8. IsFiniteSet(MatchingRows((T \ {s}) \cup {s}))
    BY <2>6, <2>7, OneMoreShard
  <2>9. QED BY <2>3, <2>6, <2>8
<1>2. IsFiniteSet(MatchingRows(S))
  BY <1>1
<1>3. \A p \in MatchingRows(S) : RowAt(p) \in Rows
  BY ContentAssumption DEF MatchingRows, RowAt
<1>4. QED BY <1>2, <1>3, FS_CardinalityType

(* One more shard adds its length and its occurrences.                     *)
LEMMA OneMoreCounts ==
  ASSUME NEW S \in SUBSET Shards, NEW s \in Shards, s \notin S
  PROVE  /\ Cardinality(MatchingRows(S \cup {s}))
              = Cardinality(MatchingRows(S)) + Len(Matches[Cid[s]])
         /\ \A r \in Rows : OccurrencesIn(S \cup {s}, r)
              = OccurrencesIn(S, r) + Occurrences(Matches[Cid[s]], r)
<1>1. IsFiniteSet(MatchingRows(S)) /\ S \cup {s} \in SUBSET Shards
  BY MatchingRowsAreFinite
<1>2. Matches[Cid[s]] \in Seq(Rows)
  BY ContentAssumption
<1>3. ASSUME NEW r \in Rows
      PROVE  OccurrencesIn(S \cup {s}, r) = OccurrencesIn(S, r) + Occurrences(Matches[Cid[s]], r)
  <2>1. \A T : {p \in MatchingRows(T) : RowAt(p) \in {r}} = {p \in MatchingRows(T) : RowAt(p) = r}
    OBVIOUS
  <2>2. Cardinality({p \in MatchingRows(S \cup {s}) : RowAt(p) \in {r}})
          = Cardinality({p \in MatchingRows(S) : RowAt(p) \in {r}})
              + Cardinality(Where(Matches[Cid[s]], {r}))
    BY <1>1, OneMoreShard
  <2>3. QED BY <1>2, <2>1, <2>2, OccurrencesFacts DEF OccurrencesIn
<1>4. \A T \in SUBSET Shards : {p \in MatchingRows(T) : RowAt(p) \in Rows} = MatchingRows(T)
  BY MatchingRowsAreFinite
<1>5. Cardinality(Where(Matches[Cid[s]], Rows)) = Len(Matches[Cid[s]])
  <2>1. Where(Matches[Cid[s]], Rows) = 1 .. Len(Matches[Cid[s]]) /\ Len(Matches[Cid[s]]) \in Nat
    BY <1>2 DEF Where
  <2>2. QED BY <2>1, IndicesAreFinite
<1>6. Cardinality({p \in MatchingRows(S \cup {s}) : RowAt(p) \in Rows})
        = Cardinality({p \in MatchingRows(S) : RowAt(p) \in Rows})
            + Cardinality(Where(Matches[Cid[s]], Rows))
  BY <1>1, OneMoreShard
<1>7. QED BY <1>1, <1>3, <1>4, <1>5, <1>6

(* A part of the shards has no more rows than all of them, and no row is   *)
(* in a pruned one.                                                        *)
LEMMA CountsOfSubsets ==
  ASSUME NEW S \in SUBSET Shards, NEW T \in SUBSET S
  PROVE  /\ Cardinality(MatchingRows(T)) <= Cardinality(MatchingRows(S))
         /\ \A r : /\ OccurrencesIn(T, r) <= OccurrencesIn(S, r)
                   /\ OccurrencesIn(S, r) \in Nat
<1>1. MatchingRows(T) \in SUBSET MatchingRows(S)
  BY DEF MatchingRows
<1>2. IsFiniteSet(MatchingRows(S))
  BY MatchingRowsAreFinite
<1>3. ASSUME NEW r
      PROVE  OccurrencesIn(T, r) <= OccurrencesIn(S, r) /\ OccurrencesIn(S, r) \in Nat
  <2> DEFINE A == {p \in MatchingRows(S) : RowAt(p) = r}
             B == {p \in MatchingRows(T) : RowAt(p) = r}
  <2>1. A \in SUBSET MatchingRows(S) /\ B \in SUBSET A
    BY <1>1
  <2> HIDE DEF A, B
  <2>2. IsFiniteSet(A) /\ Cardinality(B) <= Cardinality(A)
    BY <1>2, <2>1, FS_Subset
  <2>3. QED BY <2>2, FS_CardinalityType DEF OccurrencesIn, A, B
<1>4. QED BY <1>1, <1>2, <1>3, FS_Subset

LEMMA PrunedHaveNoRows ==
  ASSUME job \in Jobs
  PROVE  MatchingRows(Live) = MatchingRows(job.shards)
<1>1. ASSUME NEW s \in job.shards, s \notin Live
      PROVE  DOMAIN Matches[Cid[s]] = {}
  BY <1>1, PruningAssumption DEF Live
<1>2. Live \subseteq job.shards
  BY CapFacts
<1>3. QED BY <1>1, <1>2 DEF MatchingRows

-----------------------------------------------------------------------------
(* The counting invariant.                                                 *)

LEMMA InitCountInv == Init => CountInv
  BY DEF Init, CountInv, HeldAreCounted, AnswerIsFilled, TruncationIsTold,
         OrderedAnswerIsTheTop

LEMMA QuietCountStep ==
  ASSUME CountInv, UNCHANGED <<job, phase, pending, inflight, collected, rows, truncated>>
  PROVE  CountInv'
<1>1. UNCHANGED <<CanEarlyStop, MemCap, TotalMatching>>
  BY DEF CanEarlyStop, MemCap, Conf, TotalMatching, MatchingRows
<1>2. \A r : /\ Occurrences(rows, r)' = Occurrences(rows, r)
             /\ OccurrencesIn(collected, r)' = OccurrencesIn(collected, r)
             /\ Matching(r)' = Matching(r)
  BY DEF Occurrences, OccurrencesIn, Matching, MatchingRows, RowAt
<1>3. HeldAreCounted'
  BY <1>2 DEF CountInv, HeldAreCounted, MatchingRows
<1>4. AnswerIsFilled' /\ TruncationIsTold' /\ OrderedAnswerIsTheTop'
  BY <1>1, <1>2 DEF CountInv, AnswerIsFilled, TruncationIsTold, OrderedAnswerIsTheTop
<1>5. QED BY <1>3, <1>4 DEF CountInv

LEMMA FailCountStep ==
  ASSUME phase' = "failed"
  PROVE  CountInv'
BY DEF CountInv, HeldAreCounted, AnswerIsFilled, TruncationIsTold, OrderedAnswerIsTheTop

LEMMA NoMatchingRows ==
  /\ MatchingRows({}) = {} /\ Cardinality(MatchingRows({})) = 0
  /\ \A r : OccurrencesIn({}, r) = 0 /\ Occurrences(<<>>, r) = 0
<1>1. MatchingRows({}) = {}
  BY DEF MatchingRows
<1>2. \A r : /\ {p \in MatchingRows({}) : RowAt(p) = r} = {}
             /\ {i \in DOMAIN <<>> : <<>>[i] = r} = {}
  BY <1>1
<1>3. QED BY <1>1, <1>2, FS_EmptySet DEF OccurrencesIn, Occurrences

LEMMA EmptyDatasetCountStep ==
  ASSUME IInv, EmptyDataset
  PROVE  CountInv'
<1>1. /\ job.shards = {} /\ phase = "init" /\ phase' = "ok" /\ job' = job
      /\ rows' = rows /\ truncated' = truncated
  BY DEF EmptyDataset, EndBeforeDispatch, resultVars
<1>2. job \in Jobs /\ rows = <<>> /\ ~truncated
  BY <1>1 DEF IInv, RunOK
<1>3. TotalMatching' = 0 /\ \A r : Matching(r)' = 0
  BY <1>1, NoMatchingRows DEF TotalMatching, Matching, MatchingRows, OccurrencesIn, RowAt
<1>4. /\ job.limit \in Caps /\ MemCap \in Caps
      /\ UNCHANGED <<MemCap, CanEarlyStop>>
  BY <1>1, <1>2, CapFacts DEF MemCap, CanEarlyStop, Conf
<1>5. \A c \in Caps : AtMost(0, c) = 0
  BY DEF AtMost, Caps
<1>6. AnswerIsFilled'
  <2>1. \A r \in Rows : Occurrences(rows, r)' <= Matching(r)'
    BY <1>1, <1>2, <1>3, NoMatchingRows DEF Occurrences
  <2>2. Len(rows') = 0
    BY <1>1, <1>2
  <2>3. QED BY <1>1, <1>3, <1>4, <1>5, <2>1, <2>2 DEF AnswerIsFilled
<1>7. TruncationIsTold'
  BY <1>1, <1>2, <1>3 DEF TruncationIsTold
<1>8. OrderedAnswerIsTheTop'
  BY <1>1, <1>2 DEF OrderedAnswerIsTheTop
<1>9. QED BY <1>1, <1>6, <1>7, <1>8 DEF CountInv, HeldAreCounted

LEMMA DispatchCountStep ==
  ASSUME IInv, Dispatch
  PROVE  CountInv'
<1>1. PICK P \in SUBSET Live : inflight' = P /\ pending' = Live \ P
  BY DEF Dispatch
<1>2. /\ phase = "init" /\ phase' = "collect"
      /\ UNCHANGED <<job, collected, rows, truncated>>
  BY DEF Dispatch, resultVars
<1>3. rows = <<>> /\ ~truncated /\ collected = {}
  BY <1>2 DEF IInv, RunOK
<1>4. /\ MatchingRows(collected)' = MatchingRows({})
      /\ \A r : /\ OccurrencesIn(collected, r)' = 0 /\ Occurrences(rows, r)' = 0
  BY <1>2, <1>3, NoMatchingRows DEF MatchingRows, OccurrencesIn, RowAt, Occurrences
<1>5. HeldAreCounted'
  BY <1>1, <1>2, <1>3, <1>4, NoMatchingRows DEF HeldAreCounted
<1>6. QED
  BY <1>2, <1>5 DEF CountInv, AnswerIsFilled, TruncationIsTold, OrderedAnswerIsTheTop

LEMMA CollectServedCountStep ==
  ASSUME IInv, CountInv, NEW s \in Shards, CollectServed(s)
  PROVE  CountInv'
<1> DEFINE new == Matches[Cid[s]]
           all == rows \o new
           total == Cardinality(MatchingRows(collected))
<1>1. /\ phase = "collect" /\ s \in inflight
      /\ rows' = Truncate(all, CollectCap)
      /\ truncated' = (truncated \/ Exceeds(all, CollectCap))
      /\ (Enough(all) /\ StopFetching) \/ (~Enough(all) /\ Refill(s))
      /\ collected' = collected \cup {s}
      /\ UNCHANGED <<job, phase>>
  BY DEF CollectServed, Finished
<1>2. /\ job \in Jobs /\ rows \in Seq(Rows) /\ truncated \in BOOLEAN
      /\ collected \in SUBSET Shards
      /\ truncated => CollectCap # NoLimit /\ Len(rows) = CollectCap
  BY <1>1, CapFacts DEF IInv, RunOK, CollectingOK
<1>3. /\ pending \cap inflight = {} /\ (pending \cup inflight) \cap collected = {}
      /\ \A r \in Rows : Occurrences(rows, r) <= OccurrencesIn(collected, r)
      /\ ~truncated =>
           /\ Len(rows) = total
           /\ \A r \in Rows : Occurrences(rows, r) = OccurrencesIn(collected, r)
      /\ truncated => Len(rows) < total
  BY <1>1 DEF CountInv, HeldAreCounted
<1>4. new \in Seq(Rows) /\ CollectCap \in Caps
  BY <1>2, CapFacts, ContentAssumption
<1>5. s \notin collected
  BY <1>1, <1>3
<1>6. /\ Cardinality(MatchingRows(collected)') = total + Len(new)
      /\ \A r \in Rows : OccurrencesIn(collected, r)'
           = OccurrencesIn(collected, r) + Occurrences(new, r)
  <2>1. /\ MatchingRows(collected)' = MatchingRows(collected \cup {s})
        /\ \A r : OccurrencesIn(collected, r)' = OccurrencesIn(collected \cup {s}, r)
    BY <1>1 DEF MatchingRows, OccurrencesIn, RowAt
  <2>2. QED BY <1>2, <1>5, <2>1, OneMoreCounts
<1> HIDE DEF new
<1>7. all \in Seq(Rows) /\ Len(all) = Len(rows) + Len(new)
  BY <1>2, <1>4
<1>8. \A r \in Rows : /\ Occurrences(all, r) = Occurrences(rows, r) + Occurrences(new, r)
                      /\ Occurrences(rows, r) \in Nat /\ Occurrences(new, r) \in Nat
                      /\ OccurrencesIn(collected, r) \in Nat
  <2>1. SUFFICES ASSUME NEW r \in Rows
                 PROVE  /\ Occurrences(all, r) = Occurrences(rows, r) + Occurrences(new, r)
                        /\ Occurrences(rows, r) \in Nat /\ Occurrences(new, r) \in Nat
                        /\ OccurrencesIn(collected, r) \in Nat
    OBVIOUS
  <2>2. Cardinality(Where(all, {r})) = Cardinality(Where(rows, {r})) + Cardinality(Where(new, {r}))
    BY <1>2, <1>4, WhereConcatenated
  <2> HIDE DEF all
  <2>3. QED BY <1>2, <1>4, <1>7, <2>2, OccurrencesFacts, CountsOfSubsets
<1> HIDE DEF all
<1>9. /\ rows' \in Seq(Rows) /\ Len(rows') <= Len(all) /\ DOMAIN rows' \subseteq DOMAIN all
      /\ \A i \in DOMAIN rows' : rows'[i] = all[i]
      /\ ~Exceeds(all, CollectCap) => rows' = all
      /\ Exceeds(all, CollectCap) => CollectCap # NoLimit /\ Len(rows') = CollectCap
      /\ Reaches(all, CollectCap) => CollectCap # NoLimit /\ Len(rows') = CollectCap
  BY <1>1, <1>4, <1>7, TruncateFacts
<1>10. \A r \in Rows : /\ Occurrences(rows', r) <= Occurrences(all, r)
                       /\ Occurrences(rows', r) \in Nat
  BY <1>7, <1>9, PrefixOccurrences, OccurrencesFacts
<1>11. total \in Nat /\ Len(rows) \in Nat /\ Len(new) \in Nat /\ Len(rows') \in Nat
  BY <1>2, <1>4, <1>9, MatchingRowsAreFinite
<1> HIDE DEF total
<1>12. /\ pending' \cap inflight' = {}
       /\ (pending' \cup inflight') \cap collected' = {}
  <2>1. CASE inflight' = {} /\ pending' = pending
    BY <1>1, <1>3, <2>1
  <2>2. CASE inflight' = inflight \ {s} /\ pending' = pending
    BY <1>1, <1>3, <2>2
  <2>3. CASE \E n \in pending : /\ inflight' = (inflight \ {s}) \cup {n}
                               /\ pending' = pending \ {n}
    BY <1>1, <1>3, <2>3
  <2>4. QED BY <1>1, <2>1, <2>2, <2>3 DEF StopFetching, Refill
<1>13. \A r \in Rows : Occurrences(rows', r) <= OccurrencesIn(collected, r)'
  BY <1>3, <1>6, <1>8, <1>10
<1>14. ~truncated' =>
         /\ Len(rows') = Cardinality(MatchingRows(collected)')
         /\ \A r \in Rows : Occurrences(rows', r) = OccurrencesIn(collected, r)'
  BY <1>1, <1>3, <1>6, <1>7, <1>8, <1>9
<1>15. truncated' => Len(rows') < Cardinality(MatchingRows(collected)')
  <2>1. CASE truncated
    <3>1. CollectCap # NoLimit /\ Len(rows) = CollectCap /\ Len(rows) < total
      BY <1>2, <1>3, <2>1
    <3>2. Reaches(all, CollectCap)
      BY <1>7, <1>11, <3>1 DEF Reaches
    <3>3. Len(rows') = Len(rows)
      BY <1>9, <3>1, <3>2
    <3>4. QED BY <1>6, <1>11, <3>1, <3>3
  <2>2. CASE ~truncated /\ Exceeds(all, CollectCap)
    <3>1. Len(rows') < Len(all)
      BY <1>9, <2>2 DEF Exceeds
    <3>2. QED BY <1>3, <1>6, <1>7, <2>2, <3>1
  <2>3. QED BY <1>1, <1>2, <2>1, <2>2
<1>16. HeldAreCounted'
  BY <1>12, <1>13, <1>14, <1>15 DEF HeldAreCounted, MatchingRows, Occurrences
<1>17. QED
  BY <1>1, <1>16 DEF CountInv, AnswerIsFilled, TruncationIsTold, OrderedAnswerIsTheTop

(* The end: what was held is counted against the whole dataset.            *)
LEMMA FinishCountStep ==
  ASSUME IInv, CountInv, Finish
  PROVE  CountInv'
<1> DEFINE q == Ordered(rows)
<1>1. /\ phase = "collect" /\ inflight = {} /\ phase' = "ok"
      /\ rows' = Truncate(q, job.limit)
      /\ truncated' = (truncated \/ Exceeds(rows, job.limit))
      /\ UNCHANGED <<job, collected>>
  BY DEF Finish, Drained
<1>2. /\ job \in Jobs /\ rows \in Seq(Rows) /\ truncated \in BOOLEAN
      /\ collected \subseteq Live /\ (collected = Live \/ Filled)
      /\ ~Exceeds(rows, CollectCap)
      /\ truncated => CollectCap # NoLimit /\ Len(rows) = CollectCap
  BY <1>1 DEF IInv, RunOK, CollectingOK
<1>3. /\ job.limit \in Caps /\ MemCap \in Caps
      /\ UNCHANGED <<CanEarlyStop, MemCap, TotalMatching>>
      /\ \A r : Matching(r)' = Matching(r)
  BY <1>1, <1>2, CapFacts
    DEF CanEarlyStop, MemCap, Conf, TotalMatching, Matching, MatchingRows,
        OccurrencesIn, RowAt
<1>4. /\ q \in Seq(Rows) /\ Len(q) = Len(rows)
      /\ job.ordered => \A i, j \in DOMAIN rows : i < j => Key[q[i]] <= Key[q[j]]
      /\ \A r : Occurrences(q, r) = Occurrences(rows, r)
  BY <1>2, OrderedFacts, OrderedOccurrences
<1> HIDE DEF q
<1>5. DOMAIN q = DOMAIN rows /\ (Exceeds(q, job.limit) <=> Exceeds(rows, job.limit))
  BY <1>2, <1>4 DEF Exceeds
<1>6. /\ rows' \in Seq(Rows) /\ Len(rows') <= Len(rows) /\ DOMAIN rows' \subseteq DOMAIN q
      /\ \A i \in DOMAIN rows' : rows'[i] = q[i]
      /\ ~Exceeds(rows, job.limit) => rows' = q
      /\ Exceeds(rows, job.limit) => job.limit # NoLimit /\ Len(rows') = job.limit
  BY <1>1, <1>3, <1>4, <1>5, TruncateFacts
<1>7. /\ \A r \in Rows : Occurrences(rows, r) <= OccurrencesIn(collected, r)
      /\ ~truncated =>
           /\ Len(rows) = Cardinality(MatchingRows(collected))
           /\ \A r \in Rows : Occurrences(rows, r) = OccurrencesIn(collected, r)
      /\ truncated => Len(rows) < Cardinality(MatchingRows(collected))
  BY <1>1 DEF CountInv, HeldAreCounted
<1>8. Live \in SUBSET Shards /\ collected \in SUBSET Live
  BY <1>2, CapFacts
<1>9. /\ Cardinality(MatchingRows(collected)) <= TotalMatching
      /\ Cardinality(MatchingRows(collected)) \in Nat /\ TotalMatching \in Nat
      /\ collected = Live => Cardinality(MatchingRows(collected)) = TotalMatching
  BY <1>2, <1>8, PrunedHaveNoRows, CountsOfSubsets, MatchingRowsAreFinite DEF TotalMatching
<1>10. \A r : /\ OccurrencesIn(collected, r) <= Matching(r) /\ Matching(r) \in Nat
              /\ OccurrencesIn(collected, r) \in Nat
              /\ collected = Live => OccurrencesIn(collected, r) = Matching(r)
  BY <1>2, <1>8, PrunedHaveNoRows, CountsOfSubsets DEF Matching, OccurrencesIn
<1>11. \A r : /\ Occurrences(rows', r) <= Occurrences(rows, r)
              /\ Occurrences(rows', r) \in Nat /\ Occurrences(rows, r) \in Nat
  BY <1>2, <1>4, <1>6, PrefixOccurrences, OccurrencesFacts
<1>12. Len(rows) \in Nat /\ Len(rows') \in Nat
  BY <1>2, <1>6
<1>13. \A r \in Rows : Occurrences(rows', r) <= Matching(r)
  BY <1>7, <1>10, <1>11
<1>14. CASE CanEarlyStop
  <2>1. /\ job.limit # NoLimit /\ job.limit \in Nat /\ ~job.ordered
        /\ CollectCap = job.limit
    BY <1>3, <1>14 DEF CanEarlyStop, CollectCap, Caps
  <2>2. Len(rows) <= job.limit /\ ~Exceeds(rows, job.limit) /\ Len(rows') = Len(rows)
    BY <1>2, <1>4, <1>6, <1>12, <2>1 DEF Exceeds
  <2>3. /\ Len(rows) <= Cardinality(MatchingRows(collected))
        /\ (truncated' <=> truncated)
    BY <1>1, <1>2, <1>7, <1>9, <1>12, <2>2
  <2>4. Len(rows') = AtMost(TotalMatching, job.limit)
    BY <1>2, <1>7, <1>9, <1>12, <2>1, <2>2, <2>3 DEF AtMost, Filled
  <2>5. AnswerIsFilled'
    BY <1>1, <1>3, <1>13, <1>14, <2>4 DEF AnswerIsFilled, Occurrences
  <2>6. TruncationIsTold'
    BY <1>1, <1>3, <1>7, <1>9, <1>12, <1>14, <2>2, <2>3 DEF TruncationIsTold
  <2>7. OrderedAnswerIsTheTop'
    BY <1>1, <2>1 DEF OrderedAnswerIsTheTop
  <2>8. QED BY <1>1, <2>5, <2>6, <2>7 DEF CountInv, HeldAreCounted
<1>15. CASE ~CanEarlyStop
  <2>1. CollectCap = MemCap /\ collected = Live
    BY <1>2, <1>15 DEF CollectCap, Filled
  <2>2. /\ ~truncated => Len(rows) = TotalMatching
        /\ truncated => /\ Len(rows) < TotalMatching
                        /\ MemCap # NoLimit /\ MemCap \in Nat /\ Len(rows) = MemCap
    BY <1>2, <1>3, <1>7, <1>9, <2>1 DEF Caps
  <2>3. Len(rows) = AtMost(TotalMatching, MemCap)
    BY <1>2, <1>3, <1>9, <1>12, <2>1, <2>2 DEF AtMost, Exceeds, Caps
  <2>4. Len(rows') = AtMost(Len(rows), job.limit)
    BY <1>3, <1>4, <1>6, <1>12 DEF AtMost, Exceeds, Caps
  <2>5. AnswerIsFilled'
    BY <1>1, <1>3, <1>13, <1>15, <2>3, <2>4 DEF AnswerIsFilled, Occurrences
  <2>6. TruncationIsTold'
    <3>1. Exceeds(rows, job.limit) => Len(rows') < Len(rows)
      BY <1>3, <1>6, <1>12 DEF Exceeds, Caps
    <3>2. ~truncated' => Len(rows') = TotalMatching
      BY <1>1, <1>4, <1>6, <2>2
    <3>3. truncated' => Len(rows') < TotalMatching
      BY <1>1, <1>2, <1>6, <1>9, <1>12, <2>2, <3>1
    <3>4. QED BY <1>1, <1>3, <3>2, <3>3 DEF TruncationIsTold
  <2>7. OrderedAnswerIsTheTop'
    <3>1. CASE truncated
      BY <1>1, <1>3, <2>2, <3>1 DEF OrderedAnswerIsTheTop
    <3>2. CASE ~truncated /\ job.ordered
      <4>1. \A i, j \in DOMAIN rows' : i < j => Key[rows'[i]] <= Key[rows'[j]]
        BY <1>4, <1>5, <1>6, <3>2
      <4>2. ASSUME NEW r \in Rows, Occurrences(rows', r) < Matching(r), NEW i \in DOMAIN rows'
            PROVE  Key[rows'[i]] <= Key[r]
        <5>1. Occurrences(q, r) = Matching(r)
          BY <1>4, <1>7, <1>10, <2>1, <3>2
        <5>2. PICK k \in DOMAIN q : q[k] = r /\ k \notin DOMAIN rows'
          <6>1. SUFFICES ASSUME \A k \in DOMAIN q : q[k] = r => k \in DOMAIN rows'
                         PROVE  FALSE
            OBVIOUS
          <6>2. {k \in DOMAIN q : q[k] = r} = {k \in DOMAIN rows' : rows'[k] = r}
            BY <1>6, <6>1
          <6>3. Occurrences(q, r) = Occurrences(rows', r)
            BY Zenon, <6>2 DEF Occurrences
          <6>4. QED BY <1>11, <4>2, <5>1, <6>3
        <5>3. i < k
          BY <1>4, <1>6, <5>2
        <5>4. QED BY <1>4, <1>5, <1>6, <3>2, <5>2, <5>3
      <4>3. QED BY <1>1, <1>3, <4>1, <4>2 DEF OrderedAnswerIsTheTop, Occurrences
    <3>3. CASE ~job.ordered
      BY <1>1, <3>3 DEF OrderedAnswerIsTheTop
    <3>4. QED BY <3>1, <3>2, <3>3
  <2>8. QED BY <1>1, <2>5, <2>6, <2>7 DEF CountInv, HeldAreCounted
<1>16. QED BY <1>14, <1>15

-----------------------------------------------------------------------------
(* The theorems.                                                           *)

LEMMA NextIInv == IInv /\ [Next]_vars => IInv'
<1> SUFFICES ASSUME IInv, [Next]_vars PROVE IInv'
  OBVIOUS
<1>1. CASE RejectInvalid \/ NoCandidates \/ OverBudget
  BY <1>1, FailStep DEF RejectInvalid, NoCandidates, OverBudget, EndBeforeDispatch, resultVars
<1>2. CASE EmptyDataset
  BY <1>2, EmptyDatasetStep
<1>3. CASE Dispatch
  BY <1>3, DispatchStep
<1>4. CASE \E s \in Shards : HitDeadline(s) \/ CallHost(s) \/ StopWalk(s)
  BY <1>4, QuietStep DEF HitDeadline, CallHost, StopWalk, EndWalk, resultVars
<1>5. CASE \E s \in Shards : CollectServed(s)
  BY <1>5, CollectServedStep
<1>6. CASE \E s \in Shards : CollectError(s)
  BY <1>6, FailStep DEF CollectError, resultVars
<1>7. CASE Finish
  BY <1>7, FinishStep
<1>8. CASE HostAnswers
  BY <1>8, QuietStep DEF HostAnswers, HostFails, HostReplies, EndWalk, resultVars
<1>9. CASE Tick
  BY <1>9, QuietStep DEF Tick, resultVars
<1>10. CASE UNCHANGED vars
  BY <1>10, QuietStep DEF vars, resultVars
<1>11. QED
  BY <1>1, <1>2, <1>3, <1>4, <1>5, <1>6, <1>7, <1>8, <1>9, <1>10 DEF Next, Coordinator, Start

(* The inductive invariant holds in every reachable state.                 *)
THEOREM ProjectionInvariantHolds == SafeSpec => []IInv
<1>1. QED BY InitIInv, NextIInv, PTL DEF SafeSpec

(* run_projection never stops short: an answer has read every shard that   *)
(* may hold a match or is as long as its LIMIT, invents no row, and leaves *)
(* one out only when it stopped early or says that a cap cut it.           *)
THEOREM ProjectionsAreHonest == SafeSpec => []AnswerIsHonest
<1>1. IInv => AnswerIsHonest
  BY DEF IInv
<1>2. QED BY <1>1, ProjectionInvariantHolds, PTL

(* The rows of an ordered answer are in order, and no row that is missing  *)
(* goes before one that is there, in whatever order the shards arrived,    *)
(* unless the memory cap cut the rows before the sort.                     *)
THEOREM OrderedProjectionsAreTheTop == SafeSpec => []NothingBetterIsMissing
<1>1. IInv => NothingBetterIsMissing
  BY DEF IInv
<1>2. QED BY <1>1, ProjectionInvariantHolds, PTL

LEMMA NextCountInv == IInv /\ CountInv /\ [Next]_vars => CountInv'
<1> SUFFICES ASSUME IInv, CountInv, [Next]_vars PROVE CountInv'
  OBVIOUS
<1>1. CASE RejectInvalid \/ NoCandidates \/ OverBudget
  BY <1>1, FailCountStep DEF RejectInvalid, NoCandidates, OverBudget, EndBeforeDispatch
<1>2. CASE EmptyDataset
  BY <1>2, EmptyDatasetCountStep
<1>3. CASE Dispatch
  BY <1>3, DispatchCountStep
<1>4. CASE \E s \in Shards : HitDeadline(s) \/ CallHost(s) \/ StopWalk(s)
  BY <1>4, QuietCountStep DEF HitDeadline, CallHost, StopWalk, EndWalk, resultVars
<1>5. CASE \E s \in Shards : CollectServed(s)
  BY <1>5, CollectServedCountStep
<1>6. CASE \E s \in Shards : CollectError(s)
  BY <1>6, FailCountStep DEF CollectError
<1>7. CASE Finish
  BY <1>7, FinishCountStep
<1>8. CASE HostAnswers
  BY <1>8, QuietCountStep DEF HostAnswers, HostFails, HostReplies, EndWalk, resultVars
<1>9. CASE Tick
  BY <1>9, QuietCountStep DEF Tick, resultVars
<1>10. CASE UNCHANGED vars
  BY <1>10, QuietCountStep DEF vars, resultVars
<1>11. QED
  BY <1>1, <1>2, <1>3, <1>4, <1>5, <1>6, <1>7, <1>8, <1>9, <1>10 DEF Next, Coordinator, Start

LEMMA ProjectionsAreCounted == SafeSpec => []CountInv
<1>1. QED BY InitCountInv, NextCountInv, ProjectionInvariantHolds, PTL DEF SafeSpec

(* An answer of run_projection is as long as the matching rows, the memory *)
(* cap and the LIMIT let it be, and repeats no row that matched once.      *)
THEOREM AnswersAreFilled == SafeSpec => []AnswerIsFilled
<1>1. CountInv => AnswerIsFilled
  BY DEF CountInv
<1>2. QED BY <1>1, ProjectionsAreCounted, PTL

(* The truncated flag of run_projection tells the truth in both            *)
(* directions, but for a query that may stop early, whose LIMIT ends it.   *)
THEOREM TruncationsAreTold == SafeSpec => []TruncationIsTold
<1>1. CountInv => TruncationIsTold
  BY DEF CountInv
<1>2. QED BY <1>1, ProjectionsAreCounted, PTL

(* ORDER BY with LIMIT returns the top of the whole dataset with the       *)
(* number of times each row occurs, in whatever order the shards arrived.  *)
THEOREM OrderedAnswersAreTheTop == SafeSpec => []OrderedAnswerIsTheTop
<1>1. CountInv => OrderedAnswerIsTheTop
  BY DEF CountInv
<1>2. QED BY <1>1, ProjectionsAreCounted, PTL
=============================================================================
