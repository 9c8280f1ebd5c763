------------------------------- MODULE Planner ------------------------------
(***************************************************************************)
(* The walk of one shard over its ranked candidate hosts (plan.rs).  A     *)
(* ranking is a sequence of distinct hosts, best first; `attempt' is the   *)
(* zero-based position of the host currently assigned, as in ShardTask.    *)
(***************************************************************************)
EXTENDS Integers, Sequences, FiniteSets

(* Every order in which a set of hosts can be ranked.  The order itself is *)
(* a hash of (shard, host): to the engine any ranking is possible.         *)
Rankings(H) ==
  {r \in [1 .. Cardinality(H) -> H] :
      \A i, j \in DOMAIN r : r[i] = r[j] => i = j}

Exhausted(attempt, ranked) == attempt >= Len(ranked)

AssignedHost(attempt, ranked) == ranked[attempt + 1]

HasNext(attempt, ranked) == attempt + 1 < Len(ranked)

(* Fault variant: a task that has no further host stays on its last one.   *)
AdvanceSticks(attempt, ranked) ==
  IF HasNext(attempt, ranked) THEN attempt + 1 ELSE attempt

(* Moves to the next-best host, or past the end when there is none.        *)
Advance(attempt, ranked) ==
  IF HasNext(attempt, ranked) THEN attempt + 1 ELSE Len(ranked)
=============================================================================
