----------------------------- MODULE Projection -----------------------------
(***************************************************************************)
(* engine::run_projection: the coordinator of a query that returns rows.   *)
(* Like run it keeps a bounded window of shard futures in flight, each     *)
(* walking its ranked hosts until one answers.  Unlike run it concatenates *)
(* what arrives, in arrival order, under a cap, may stop fetching early,   *)
(* and orders and limits the rows it holds at the end.                     *)
(*                                                                         *)
(* A row is an abstract value.  ORDER BY is given by the rank of each row  *)
(* in the order asked for; rows of equal rank compare equal on all keys.   *)
(***************************************************************************)
EXTENDS Planner, CostLimits

CONSTANTS
  Shards,     \* positions in a dataset's shard list, a set of naturals
  Cids,       \* content ids of shards
  Cid,        \* the content id at each position; two positions may share one
  Hosts,      \* every host id
  Rows,       \* projected rows
  Key,        \* rank of each row under ORDER BY
  Matches,    \* the rows of a content id that pass the WHERE predicate
  Prunable,   \* content ids whose statistics exclude the WHERE predicate
  Declared,   \* declared rows and bytes of each content id
  Jobs,       \* the runs considered (see JobOK)
  NoLimit,    \* stands for an absent LIMIT or cap
  NoHost      \* stands for a shard nobody has served

Caps == Nat \cup {NoLimit}

ConfigType ==
  [maxAttempts : Nat, inFlight : Nat, deadline : BOOLEAN, maxShards : Nat,
   maxGroups : Nat, maxScan : [Measures -> Nat]]

(* One call of run_projection: whether the query validates as a            *)
(* projection, its LIMIT and whether it has an ORDER BY, the shard list,   *)
(* the candidate hosts, the ranking of each content id, the configuration. *)
JobOK(j) ==
  /\ j.valid \in BOOLEAN
  /\ j.limit \in Caps
  /\ j.ordered \in BOOLEAN
  /\ j.shards \in SUBSET Shards
  /\ j.hosts \in SUBSET Hosts
  /\ j.rank \in [Cids -> Rankings(j.hosts)]
  /\ j.conf \in ConfigType

ASSUME ShardsAssumption == Shards \in SUBSET Nat /\ IsFiniteSet(Shards)
ASSUME HostsAssumption == IsFiniteSet(Hosts) /\ NoHost \notin Hosts
ASSUME LimitAssumption == NoLimit \notin Nat
ASSUME ContentAssumption ==
  /\ Cid \in [Shards -> Cids]
  /\ Key \in [Rows -> Nat]
  /\ Matches \in [Cids -> Seq(Rows)]
  /\ Prunable \in SUBSET Cids
  /\ Declared \in [Measures -> [Cids -> Nat]]
(* Pruning is sound: a skipped shard has no matching row.                  *)
ASSUME PruningAssumption == \A c \in Prunable : Matches[c] = <<>>
ASSUME JobsAssumption == \A j \in Jobs : JobOK(j)

VARIABLES
  job,        \* the inputs of this run; never changed
  phase,      \* "init", "collect", then "ok" or "failed"
  expired,    \* the clock has passed the deadline
  pending,    \* live shards not yet handed a future
  inflight,   \* shards whose future is in the window
  collected,  \* shards whose rows have been taken
  pc,         \* per shard: "idle", "loop", "await" or "done"
  attempt,    \* per shard: position in its ranking
  attempts,   \* per shard: host calls made
  verdict,    \* per shard: "none", "served", "unserved" or "deadline"
  rows,       \* the rows held; in the end, the rows returned
  truncated,  \* whether some were dropped
  servedBy    \* per content id: the host reported for it

walkVars == <<attempt, attempts, verdict>>
resultVars == <<rows, truncated, servedBy>>
vars == <<job, phase, expired, pending, inflight, collected, pc, walkVars,
          resultVars>>

Conf == job.conf
AtLeastOne(n) == IF n = 0 THEN 1 ELSE n
Window == AtLeastOne(Conf.inFlight)
MaxAttempts == AtLeastOne(Conf.maxAttempts)
Ranked(s) == job.rank[Cid[s]]
Live == {s \in job.shards : Cid[s] \notin Prunable}

WithinBudget ==
  WithinLimits(Conf,
    [m \in Measures |-> [s \in job.shards |-> Declared[m][Cid[s]]]],
    job.shards)

-----------------------------------------------------------------------------
(* Caps, and the shape of the result.                                      *)

MemCap == IF Conf.maxGroups = 0 THEN NoLimit ELSE Conf.maxGroups

CanEarlyStop == job.limit # NoLimit /\ ~job.ordered

(* Fault variant: the LIMIT cuts during collection under ORDER BY as well. *)
CollectCapLimit == IF job.limit # NoLimit THEN job.limit ELSE MemCap

CollectCap == IF CanEarlyStop THEN job.limit ELSE MemCap

Exceeds(q, cap) == cap # NoLimit /\ Len(q) > cap
Reaches(q, cap) == cap # NoLimit /\ Len(q) >= cap

(* Vec::truncate.                                                          *)
Truncate(q, cap) == IF Exceeds(q, cap) THEN SubSeq(q, 1, cap) ELSE q

(* Where a stable sort puts the i-th row of q.                             *)
PlaceOf(q, i) ==
  Cardinality({j \in DOMAIN q : \/ Key[q[j]] < Key[q[i]]
                                \/ Key[q[j]] = Key[q[i]] /\ j <= i})

(* The rows of q in the order asked for (order_raw_rows).                  *)
Ordered(q) ==
  IF job.ordered
  THEN [k \in DOMAIN q |-> q[CHOOSE i \in DOMAIN q : PlaceOf(q, i) = k]]
  ELSE q

-----------------------------------------------------------------------------
(* The shard walk (project_one_shard).                                     *)

AtLoopTop(s) == phase = "collect" /\ s \in inflight /\ pc[s] = "loop"

DeadlinePassed == Conf.deadline /\ expired

WalkOver(s) ==
  Exhausted(attempt[s], Ranked(s)) \/ attempts[s] >= MaxAttempts

(* How a walk that calls no further host ends.                             *)
EndWalk(s, v) ==
  /\ pc' = [pc EXCEPT ![s] = "done"]
  /\ verdict' = [verdict EXCEPT ![s] = v]
  /\ UNCHANGED <<job, phase, expired, pending, inflight, collected, attempt,
                 attempts, resultVars>>

HitDeadline(s) ==
  AtLoopTop(s) /\ DeadlinePassed /\ EndWalk(s, "deadline")

StopWalk(s) ==
  AtLoopTop(s) /\ ~DeadlinePassed /\ WalkOver(s) /\ EndWalk(s, "unserved")

CallHost(s) ==
  /\ AtLoopTop(s) /\ ~DeadlinePassed /\ ~WalkOver(s)
  /\ attempts' = [attempts EXCEPT ![s] = @ + 1]
  /\ pc' = [pc EXCEPT ![s] = "await"]
  /\ UNCHANGED <<job, phase, expired, pending, inflight, collected, attempt,
                 verdict, resultVars>>

Awaiting(s) == phase = "collect" /\ s \in inflight /\ pc[s] = "await"

HostFails(s) ==
  /\ Awaiting(s)
  /\ attempt' = [attempt EXCEPT ![s] = Advance(@, Ranked(s))]
  /\ pc' = [pc EXCEPT ![s] = "loop"]
  /\ UNCHANGED <<job, phase, expired, pending, inflight, collected,
                 attempts, verdict, resultVars>>

(* By the MapHost contract every host projects the same rows of a shard.   *)
HostReplies(s) == Awaiting(s) /\ EndWalk(s, "served")

-----------------------------------------------------------------------------
(* The coordinator (run_projection).                                       *)

EndBeforeDispatch(outcome) ==
  /\ phase = "init"
  /\ phase' = outcome
  /\ UNCHANGED <<job, expired, pending, inflight, collected, pc, walkVars,
                 resultVars>>

(* An invalid query, or one that is no projection.                         *)
RejectInvalid == ~job.valid /\ EndBeforeDispatch("failed")

EmptyDataset ==
  job.valid /\ job.shards = {} /\ EndBeforeDispatch("ok")

NoCandidates ==
  /\ job.valid /\ job.shards # {} /\ job.hosts = {}
  /\ EndBeforeDispatch("failed")

Runnable == job.valid /\ job.shards # {} /\ job.hosts # {}

OverBudget == Runnable /\ ~WithinBudget /\ EndBeforeDispatch("failed")

(* Primes the window; with every shard pruned there is nothing to wait for *)
(* and the run finishes with no rows.                                      *)
Dispatch ==
  /\ phase = "init" /\ Runnable /\ WithinBudget
  /\ phase' = "collect"
  /\ \E P \in SUBSET Live :
       /\ Cardinality(P) = IF Window <= Cardinality(Live)
                           THEN Window ELSE Cardinality(Live)
       /\ \A s \in P, t \in Live : t < s => t \in P
       /\ inflight' = P
       /\ pending' = Live \ P
       /\ pc' = [s \in Shards |-> IF s \in P THEN "loop" ELSE pc[s]]
  /\ UNCHANGED <<job, expired, collected, walkVars, resultVars>>

Finished(s) == phase = "collect" /\ s \in inflight /\ pc[s] = "done"

(* Keeps the window full: the next pending shard replaces s.               *)
Refill(s) ==
  \/ /\ pending = {}
     /\ inflight' = inflight \ {s}
     /\ UNCHANGED <<pending, pc>>
  \/ \E n \in pending :
       /\ \A m \in pending : n <= m
       /\ inflight' = (inflight \ {s}) \cup {n}
       /\ pending' = pending \ {n}
       /\ pc' = [pc EXCEPT ![n] = "loop"]

(* Leaves the loop and drops the futures still in flight.                  *)
StopFetching ==
  /\ inflight' = {}
  /\ UNCHANGED <<pending, pc>>

(* Fault variant: the loop is left once any cap is reached.                *)
EnoughAtAnyCap(q) == Reaches(q, CollectCap)

Enough(q) == CanEarlyStop /\ Reaches(q, CollectCap)

CollectServed(s) ==
  /\ Finished(s) /\ verdict[s] = "served"
  /\ LET all == rows \o Matches[Cid[s]] IN
       /\ rows' = Truncate(all, CollectCap)
       /\ truncated' = (truncated \/ Exceeds(all, CollectCap))
       /\ \/ Enough(all) /\ StopFetching
          \/ ~Enough(all) /\ Refill(s)
  /\ servedBy' = [servedBy EXCEPT ![Cid[s]] = AssignedHost(attempt[s], Ranked(s))]
  /\ collected' = collected \cup {s}
  /\ UNCHANGED <<job, phase, expired, walkVars>>

(* The first error ends the run and drops the futures still in flight.     *)
CollectError(s) ==
  /\ Finished(s) /\ verdict[s] # "served"
  /\ phase' = "failed"
  /\ inflight' = {}
  /\ UNCHANGED <<job, expired, pending, collected, pc, walkVars, resultVars>>

(* Fault variant: the collector stops once nothing is left to hand out.    *)
DrainedEarly == phase = "collect" /\ pending = {}

(* Fault variant: it waits for the rows of the pruned shards as well.      *)
DrainedAllListed == phase = "collect" /\ collected = job.shards

Drained == phase = "collect" /\ inflight = {}

Finish ==
  /\ Drained
  /\ phase' = "ok"
  /\ rows' = Truncate(Ordered(rows), job.limit)
  /\ truncated' = (truncated \/ Exceeds(rows, job.limit))
  /\ UNCHANGED <<job, expired, pending, inflight, collected, pc, walkVars,
                 servedBy>>

(* Time passes the deadline while the run is under way.                    *)
Tick ==
  /\ phase = "collect" /\ Conf.deadline /\ ~expired
  /\ expired' = TRUE
  /\ UNCHANGED <<job, phase, pending, inflight, collected, pc, walkVars,
                 resultVars>>

-----------------------------------------------------------------------------
Init ==
  /\ job \in Jobs
  /\ phase = "init"
  /\ expired = FALSE
  /\ pending = {}
  /\ inflight = {}
  /\ collected = {}
  /\ pc = [s \in Shards |-> "idle"]
  /\ attempt = [s \in Shards |-> 0]
  /\ attempts = [s \in Shards |-> 0]
  /\ verdict = [s \in Shards |-> "none"]
  /\ rows = <<>>
  /\ truncated = FALSE
  /\ servedBy = [c \in Cids |-> NoHost]

Start ==
  RejectInvalid \/ EmptyDataset \/ NoCandidates \/ OverBudget \/ Dispatch

Coordinator ==
  \/ Start
  \/ \E s \in Shards : \/ HitDeadline(s) \/ CallHost(s) \/ StopWalk(s)
                       \/ CollectServed(s) \/ CollectError(s)
  \/ Finish

HostAnswers == \E s \in Shards : HostFails(s) \/ HostReplies(s)

Next == Coordinator \/ HostAnswers \/ Tick

SafeSpec == Init /\ [][Next]_vars

(* The executor polls every future that was woken, and each host call ends *)
(* (MeshMapHost passes a request timeout to the node).                     *)
Spec == SafeSpec /\ WF_vars(Coordinator) /\ WF_vars(HostAnswers)

-----------------------------------------------------------------------------
Ended == phase \in {"ok", "failed"}

(* The matching rows of the shards in S, each at its shard and position.   *)
MatchingRows(S) == UNION {{s} \X DOMAIN Matches[Cid[s]] : s \in S}
RowAt(p) == Matches[Cid[p[1]]][p[2]]

(* How often row r occurs in q, and among all matching rows of the dataset. *)
Occurrences(q, r) == Cardinality({i \in DOMAIN q : q[i] = r})
OccurrencesIn(S, r) == Cardinality({p \in MatchingRows(S) : RowAt(p) = r})
Matching(r) == OccurrencesIn(job.shards, r)
TotalMatching == Cardinality(MatchingRows(job.shards))

AtMost(n, cap) == IF cap # NoLimit /\ cap < n THEN cap ELSE n

(* An answer holds as many rows as there are, up to the LIMIT and, under   *)
(* ORDER BY, the memory cap: stopping early never leaves it short, and it  *)
(* holds no row that does not match and none more often than it occurs.    *)
AnswerIsFilled ==
  phase = "ok" /\ job.valid =>
    /\ Len(rows) =
         IF CanEarlyStop THEN AtMost(TotalMatching, job.limit)
         ELSE AtMost(AtMost(TotalMatching, MemCap), job.limit)
    /\ \A r \in Rows : Occurrences(rows, r) <= Matching(r)

(* Under ORDER BY with a LIMIT the answer is the top of the whole dataset, *)
(* in order, whatever order the shards arrived in, unless the memory cap   *)
(* cut the rows to be sorted, and then the report says so.                 *)
OrderedAnswerIsTheTop ==
  phase = "ok" /\ job.valid /\ job.ordered =>
    \/ truncated /\ MemCap # NoLimit /\ TotalMatching > MemCap
    \/ /\ \A i, j \in DOMAIN rows : i < j => Key[rows[i]] <= Key[rows[j]]
       /\ \A r \in Rows :
            Occurrences(rows, r) < Matching(r) =>
              \A i \in DOMAIN rows : Key[rows[i]] <= Key[r]

(* Rows are never dropped without telling, except by an early stop: an     *)
(* untruncated answer of a query that cannot stop early is complete, and a *)
(* truncated one never is.                                                 *)
TruncationIsTold ==
  phase = "ok" /\ job.valid =>
    /\ ~truncated /\ ~CanEarlyStop => Len(rows) = TotalMatching
    /\ truncated => Len(rows) < TotalMatching

(* A run ends, with or without a deadline, when host calls end.            *)
Terminates == <>Ended
=============================================================================
