------------------------ MODULE ProjectionInvariant -------------------------
(***************************************************************************)
(* The inductive invariants behind the answers of Projection: IInv speaks  *)
(* of which rows occur, CountInv of how many and how often.                *)
(***************************************************************************)
EXTENDS Projection

RowsIn(q) == {q[i] : i \in DOMAIN q}

(* The matching rows of the shards in S.                                   *)
Gathered(S) == UNION {RowsIn(Matches[Cid[s]]) : s \in S}

(* The query stopped early, with as many rows as its LIMIT.                *)
Filled == CanEarlyStop /\ Len(rows) = job.limit

RunOK ==
  /\ job \in Jobs
  /\ phase \in {"init", "collect", "ok", "failed"}
  /\ rows \in Seq(Rows)
  /\ truncated \in BOOLEAN
  /\ collected \subseteq Live
  /\ phase = "init" =>
       /\ pending = {} /\ inflight = {} /\ collected = {}
       /\ rows = <<>> /\ ~truncated

(* While shards are collected every live one is somewhere and the window   *)
(* runs dry only when none is left, unless the LIMIT ended the loop; the   *)
(* rows held are rows of the collected shards, all of them until a cap     *)
(* cuts some, and a cap that cut is met.                                   *)
CollectingOK ==
  phase = "collect" =>
    /\ \/ /\ pending \cup inflight \cup collected = Live
          /\ pending # {} => inflight # {}
       \/ inflight = {} /\ Filled
    /\ RowsIn(rows) \subseteq Gathered(collected)
    /\ ~truncated /\ ~CanEarlyStop => Gathered(collected) \subseteq RowsIn(rows)
    /\ ~Exceeds(rows, CollectCap)
    /\ truncated => CollectCap # NoLimit /\ Len(rows) = CollectCap

(* An answer has read every live shard, or is as long as its LIMIT; it     *)
(* holds matching rows only; without an early stop it holds them all or    *)
(* says that it was cut; and one that was cut is as long as a cap.         *)
AnswerIsHonest ==
  phase = "ok" =>
    /\ collected = Live \/ Filled
    /\ RowsIn(rows) \subseteq Gathered(job.shards)
    /\ ~truncated /\ ~CanEarlyStop => Gathered(job.shards) \subseteq RowsIn(rows)
    /\ truncated => Len(rows) \in {job.limit, MemCap} \ {NoLimit}

(* Under ORDER BY the answer is in order, and unless the memory cap cut    *)
(* the rows to be sorted no matching row that is missing goes before one   *)
(* that is there.                                                          *)
NothingBetterIsMissing ==
  phase = "ok" /\ job.ordered =>
    /\ \A i, j \in DOMAIN rows : i < j => Key[rows[i]] <= Key[rows[j]]
    /\ ~truncated \/ MemCap = NoLimit =>
         \A r \in Gathered(job.shards) \ RowsIn(rows), i \in DOMAIN rows :
           Key[rows[i]] <= Key[r]

IInv == RunOK /\ CollectingOK /\ AnswerIsHonest /\ NothingBetterIsMissing

(* While shards are collected no shard is in two places, so none is        *)
(* counted twice; the rows held are exactly those of the collected shards  *)
(* until a cap cuts some, and fewer from then on.                          *)
HeldAreCounted ==
  phase = "collect" =>
    /\ pending \cap inflight = {} /\ (pending \cup inflight) \cap collected = {}
    /\ \A r \in Rows : Occurrences(rows, r) <= OccurrencesIn(collected, r)
    /\ ~truncated =>
         /\ Len(rows) = Cardinality(MatchingRows(collected))
         /\ \A r \in Rows : Occurrences(rows, r) = OccurrencesIn(collected, r)
    /\ truncated => Len(rows) < Cardinality(MatchingRows(collected))

CountInv ==
  HeldAreCounted /\ AnswerIsFilled /\ TruncationIsTold /\ OrderedAnswerIsTheTop
=============================================================================
