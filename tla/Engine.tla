------------------------------- MODULE Engine -------------------------------
(***************************************************************************)
(* engine::run: the coordinator of an aggregate query.  It rejects or      *)
(* short-circuits a query before dispatch, keeps a bounded window of shard *)
(* futures in flight, collects their outcomes in any order and reduces     *)
(* them.  Each shard future (map_one_shard) walks the shard's ranked hosts *)
(* until it holds enough copies of the shard's partial, fails over on an   *)
(* error, and verifies the copies against each other (select_quorum).      *)
(*                                                                         *)
(* A future runs without interruption between two awaits, so a walk has    *)
(* three kinds of step: leaving the top of the loop, the return of the     *)
(* awaited host call, and the collector taking the finished future.  The   *)
(* clock may pass the deadline between any two of them.                    *)
(*                                                                         *)
(* Partials are abstract values.  combine::reduce is commutative, so the   *)
(* reduced result is represented by the family of partials it merged, one  *)
(* per shard, with the identity for a shard that contributed nothing.      *)
(***************************************************************************)
EXTENDS Planner, CostLimits

CONSTANTS
  Shards,      \* positions in a dataset's shard list, a set of naturals
  Cids,        \* content ids of shards
  Cid,         \* the content id at each position; two positions may share one
  Hosts,       \* every host id
  Partials,    \* the partial aggregates a host can return
  EmptyPartial,\* the identity of the reduce
  Truth,       \* the partial an honest map of a content id yields
  GroupsOf,    \* the group keys that occur in a partial
  Prunable,    \* content ids whose statistics exclude the WHERE predicate
  Declared,    \* declared rows and bytes of each content id
  Jobs,        \* the runs considered (see JobType)
  NoReport     \* placeholder for the result of a run without one

ConfigType ==
  [maxAttempts : Nat, inFlight : Nat, redundancy : Nat, quorum : Nat,
   deadline : BOOLEAN, maxShards : Nat, maxGroups : Nat,
   maxScan : [Measures -> Nat]]

(* One call of run: whether the query validates, the shard list, the       *)
(* candidate hosts, those of them that may return a wrong partial, the     *)
(* rendezvous ranking of each content id, and the configuration.           *)
JobOK(j) ==
  /\ j.valid \in BOOLEAN
  /\ j.shards \in SUBSET Shards
  /\ j.hosts \in SUBSET Hosts
  /\ j.faulty \in SUBSET j.hosts
  /\ j.rank \in [Cids -> Rankings(j.hosts)]
  /\ j.conf \in ConfigType

ASSUME ShardsAssumption == Shards \in SUBSET Nat /\ IsFiniteSet(Shards)
ASSUME HostsAssumption == IsFiniteSet(Hosts)
ASSUME ContentAssumption ==
  /\ Cid \in [Shards -> Cids]
  /\ Truth \in [Cids -> Partials]
  /\ EmptyPartial \in Partials
  /\ Prunable \in SUBSET Cids
  /\ Declared \in [Measures -> [Cids -> Nat]]
(* Pruning is sound: a skipped shard has no matching row.                  *)
ASSUME PruningAssumption == \A c \in Prunable : Truth[c] = EmptyPartial
ASSUME JobsAssumption == \A j \in Jobs : JobOK(j)

VARIABLES
  job,        \* the inputs of this run; never changed
  phase,      \* "init", "collect", then "ok" or "failed"
  expired,    \* the clock has passed the deadline
  pending,    \* live shards not yet handed a future
  inflight,   \* shards whose future is in the window
  collected,  \* shards whose outcome is stored
  pc,         \* per shard: "idle", "loop", "await" or "done"
  attempt,    \* per shard: position in its ranking (ShardTask.attempt)
  attempts,   \* per shard: host calls made
  copies,     \* per shard: the accepted copies, in arrival order
  verdict,    \* per shard: how its walk ended
  chosen,     \* per shard: the partial it hands to the reduce
  report      \* the RunReport

walkVars == <<attempt, attempts, copies, verdict, chosen>>
vars == <<job, phase, expired, pending, inflight, collected, pc, walkVars,
          report>>

Conf == job.conf
AtLeastOne(n) == IF n = 0 THEN 1 ELSE n
Window == AtLeastOne(Conf.inFlight)
MaxAttempts == AtLeastOne(Conf.maxAttempts)
Redundancy == AtLeastOne(Conf.redundancy)

Ranked(s) == job.rank[Cid[s]]
CurrentHost(s) == AssignedHost(attempt[s], Ranked(s))

-----------------------------------------------------------------------------
(* What is decided before any host is contacted.                           *)

Live == {s \in job.shards : Cid[s] \notin Prunable}

WithinBudget ==
  WithinLimits(Conf,
    [m \in Measures |-> [s \in job.shards |-> Declared[m][Cid[s]]]],
    job.shards)

(* Fault variant: outcomes are filed by content id instead of by position. *)
ReducedByCid(S) ==
  [s \in job.shards |->
     IF s \in S /\ \A t \in S : Cid[t] = Cid[s] => t <= s
     THEN chosen[s] ELSE EmptyPartial]

(* The reduce of the partials of the shards in S.                          *)
Reduced(S) ==
  [s \in job.shards |-> IF s \in S THEN chosen[s] ELSE EmptyPartial]

ResultGroups(parts) == UNION {GroupsOf[parts[s]] : s \in DOMAIN parts}

-----------------------------------------------------------------------------
(* Verification of redundant copies (select_quorum), for a configuration k *)
(* and the copies cs of one shard.                                         *)

Copy == [host : Hosts, partial : Partials]

Verified(k, cs) == AtLeastOne(k.redundancy) > 1 /\ Len(cs) > 1

(* Copies that serialize to the same bytes as the i-th.                    *)
Agreeing(cs, i) == {j \in DOMAIN cs : cs[j].partial = cs[i].partial}

(* Fault variant: the smallest agreeing group wins.                        *)
IsBestSmallest(cs, i) ==
  \A j \in DOMAIN cs : Cardinality(Agreeing(cs, i)) <= Cardinality(Agreeing(cs, j))

(* The i-th copy is the first of the largest agreeing group.               *)
IsBest(cs, i) ==
  \A j \in DOMAIN cs :
    \/ Cardinality(Agreeing(cs, i)) > Cardinality(Agreeing(cs, j))
    \/ Cardinality(Agreeing(cs, i)) = Cardinality(Agreeing(cs, j)) /\ i <= j

(* Fault variant: a plurality is enough, whatever quorum was asked for.    *)
NeedPlurality(k, cs) == 1

(* Agreeing copies required, out of those actually gathered.               *)
Need(k, cs) ==
  IF k.quorum = 0 \/ k.quorum > Len(cs) THEN Len(cs) ELSE k.quorum

(* Some largest group is big enough and agrees on p; an unverified shard   *)
(* takes its first copy as it is.                                          *)
Accepts(k, cs, p) ==
  \/ ~Verified(k, cs) /\ p = cs[1].partial
  \/ /\ Verified(k, cs)
     /\ \E i \in DOMAIN cs :
          /\ IsBest(cs, i) /\ Cardinality(Agreeing(cs, i)) >= Need(k, cs)
          /\ p = cs[i].partial

Disagree(k, cs) ==
  /\ Verified(k, cs)
  /\ \E i \in DOMAIN cs :
       IsBest(cs, i) /\ Cardinality(Agreeing(cs, i)) < Need(k, cs)

(* How a walk that left its loop holding the copies cs ends.               *)
Settle(s, cs) ==
  /\ pc' = [pc EXCEPT ![s] = "done"]
  /\ \/ /\ cs = <<>>
        /\ verdict' = [verdict EXCEPT ![s] = "unserved"]
        /\ UNCHANGED chosen
     \/ /\ cs # <<>>
        /\ \E p \in Partials :
             Accepts(Conf, cs, p) /\ chosen' = [chosen EXCEPT ![s] = p]
        /\ verdict' = [verdict EXCEPT ![s] = "served"]
     \/ /\ Disagree(Conf, cs)
        /\ verdict' = [verdict EXCEPT ![s] = "disagreed"]
        /\ UNCHANGED chosen

-----------------------------------------------------------------------------
(* The shard walk (map_one_shard).                                         *)

AtLoopTop(s) == phase = "collect" /\ s \in inflight /\ pc[s] = "loop"

DeadlinePassed == Conf.deadline /\ expired

HitDeadline(s) ==
  /\ AtLoopTop(s) /\ DeadlinePassed
  /\ pc' = [pc EXCEPT ![s] = "done"]
  /\ verdict' = [verdict EXCEPT ![s] = "deadline"]
  /\ UNCHANGED <<job, phase, expired, pending, inflight, collected,
                 attempt, attempts, copies, chosen, report>>

(* Fault variant: the attempt cap counts the call about to be made.        *)
WalkOverEarly(s) ==
  Exhausted(attempt[s], Ranked(s)) \/ attempts[s] + 1 >= MaxAttempts

WalkOver(s) ==
  Exhausted(attempt[s], Ranked(s)) \/ attempts[s] >= MaxAttempts

CallHost(s) ==
  /\ AtLoopTop(s) /\ ~DeadlinePassed /\ ~WalkOver(s)
  /\ attempts' = [attempts EXCEPT ![s] = @ + 1]
  /\ pc' = [pc EXCEPT ![s] = "await"]
  /\ UNCHANGED <<job, phase, expired, pending, inflight, collected,
                 attempt, copies, verdict, chosen, report>>

StopWalk(s) ==
  /\ AtLoopTop(s) /\ ~DeadlinePassed /\ WalkOver(s)
  /\ Settle(s, copies[s])
  /\ UNCHANGED <<job, phase, expired, pending, inflight, collected,
                 attempt, attempts, copies, report>>

Awaiting(s) == phase = "collect" /\ s \in inflight /\ pc[s] = "await"

(* The MapHost contract: an honest host maps a shard to the same partial   *)
(* every time; a faulty one may return any partial.                        *)
MapResult(h, s) == IF h \in job.faulty THEN Partials ELSE {Truth[Cid[s]]}

(* Timeout, host error, missing blob or corrupt bytes: all are retried on  *)
(* the next host.                                                          *)
HostFails(s) ==
  /\ Awaiting(s)
  /\ attempt' = [attempt EXCEPT ![s] = Advance(@, Ranked(s))]
  /\ pc' = [pc EXCEPT ![s] = "loop"]
  /\ UNCHANGED <<job, phase, expired, pending, inflight, collected,
                 attempts, copies, verdict, chosen, report>>

HostReplies(s) ==
  /\ Awaiting(s)
  /\ \E p \in MapResult(CurrentHost(s), s) :
       LET cs == Append(copies[s], [host |-> CurrentHost(s), partial |-> p])
       IN  /\ copies' = [copies EXCEPT ![s] = cs]
           /\ \/ /\ Len(cs) >= Redundancy
                 /\ Settle(s, cs)
                 /\ UNCHANGED attempt
              \/ /\ Len(cs) < Redundancy
                 /\ attempt' = [attempt EXCEPT ![s] = Advance(@, Ranked(s))]
                 /\ IF HasNext(attempt[s], Ranked(s))
                    THEN /\ pc' = [pc EXCEPT ![s] = "loop"]
                         /\ UNCHANGED <<verdict, chosen>>
                    ELSE Settle(s, cs)
  /\ UNCHANGED <<job, phase, expired, pending, inflight, collected,
                 attempts, report>>

-----------------------------------------------------------------------------
(* The coordinator (run).                                                  *)

(* Fault variant: a second call is taken for a failover.                   *)
RedistributedByCalls(s) == attempts[s] > 1

(* More calls than accepted copies: some call failed.                      *)
Redistributed(s) == attempts[s] > Len(copies[s])

(* served_by is keyed by content id; of two positions with one content id  *)
(* the later is inserted last.                                             *)
ServedBy(S) ==
  [c \in {Cid[s] : s \in S} |->
     copies[CHOOSE s \in S : Cid[s] = c /\ \A t \in S : Cid[t] = c => t <= s]
       [1].host]

Report(S) ==
  [parts         |-> Reduced(S),
   servedBy      |-> ServedBy(S),
   totalAttempts |-> SumFunctionOnSet(attempts, S),
   redistributed |-> Cardinality({s \in S : Redistributed(s)}),
   verified      |-> Cardinality({s \in S : Verified(Conf, copies[s])})]

EndBeforeDispatch(outcome) ==
  /\ phase = "init"
  /\ phase' = outcome
  /\ UNCHANGED <<job, expired, pending, inflight, collected, pc, walkVars>>

RejectInvalid ==
  /\ ~job.valid
  /\ EndBeforeDispatch("failed") /\ UNCHANGED report

EmptyDataset ==
  /\ job.valid /\ job.shards = {}
  /\ EndBeforeDispatch("ok") /\ report' = Report({})

NoCandidates ==
  /\ job.valid /\ job.shards # {} /\ job.hosts = {}
  /\ EndBeforeDispatch("failed") /\ UNCHANGED report

Runnable == job.valid /\ job.shards # {} /\ job.hosts # {}

OverBudget ==
  /\ Runnable /\ ~WithinBudget
  /\ EndBeforeDispatch("failed") /\ UNCHANGED report

AllPruned ==
  /\ Runnable /\ WithinBudget /\ Live = {}
  /\ EndBeforeDispatch("ok") /\ report' = Report({})

(* Primes the window with the first live shards, in list order.            *)
Dispatch ==
  /\ phase = "init" /\ Runnable /\ WithinBudget /\ Live # {}
  /\ phase' = "collect"
  /\ \E P \in SUBSET Live :
       /\ Cardinality(P) = IF Window <= Cardinality(Live)
                           THEN Window ELSE Cardinality(Live)
       /\ \A s \in P, t \in Live : t < s => t \in P
       /\ inflight' = P
       /\ pending' = Live \ P
       /\ pc' = [s \in Shards |-> IF s \in P THEN "loop" ELSE pc[s]]
  /\ UNCHANGED <<job, expired, collected, walkVars, report>>

Finished(s) == phase = "collect" /\ s \in inflight /\ pc[s] = "done"

(* Fault variant: the window is not refilled after a completion.           *)
RefillNever(s) ==
  /\ inflight' = inflight \ {s}
  /\ UNCHANGED <<pending, pc>>

(* Keeps the window full: the next pending shard replaces s.               *)
Refill(s) ==
  \/ /\ pending = {}
     /\ inflight' = inflight \ {s}
     /\ UNCHANGED <<pending, pc>>
  \/ \E n \in pending :
       /\ \A m \in pending : n <= m
       /\ inflight' = (inflight \ {s}) \cup {n}
       /\ pending' = pending \ {n}
       /\ pc' = [pc EXCEPT ![n] = "loop"]

CollectServed(s) ==
  /\ Finished(s) /\ verdict[s] = "served"
  /\ collected' = collected \cup {s}
  /\ Refill(s)
  /\ UNCHANGED <<job, phase, expired, walkVars, report>>

(* The first error ends the run and drops the futures still in flight.     *)
CollectError(s) ==
  /\ Finished(s) /\ verdict[s] # "served"
  /\ phase' = "failed"
  /\ inflight' = {}
  /\ UNCHANGED <<job, expired, pending, collected, pc, walkVars, report>>

(* Fault variant: the collector stops once nothing is left to hand out.    *)
DrainedEarly == phase = "collect" /\ pending = {}

(* Fault variant: it waits for an outcome of the pruned shards as well.    *)
DrainedAllListed == phase = "collect" /\ collected = job.shards

Drained == phase = "collect" /\ inflight = {}

TooManyGroups ==
  /\ Conf.maxGroups # 0
  /\ Cardinality(ResultGroups(Reduced(collected))) > Conf.maxGroups

Finish ==
  /\ Drained
  /\ \/ /\ TooManyGroups
        /\ phase' = "failed"
        /\ UNCHANGED report
     \/ /\ ~TooManyGroups
        /\ phase' = "ok"
        /\ report' = Report(collected)
  /\ UNCHANGED <<job, expired, pending, inflight, collected, pc, walkVars>>

(* Time passes the deadline while the run is under way.                    *)
Tick ==
  /\ phase = "collect" /\ Conf.deadline /\ ~expired
  /\ expired' = TRUE
  /\ UNCHANGED <<job, phase, pending, inflight, collected, pc, walkVars,
                 report>>

-----------------------------------------------------------------------------
Init ==
  /\ job \in Jobs
  /\ phase = "init"
  /\ expired = FALSE
  /\ pending = {}
  /\ inflight = {}
  /\ collected = {}
  /\ pc = [s \in Shards |-> "idle"]
  /\ attempt = [s \in Shards |-> 0]
  /\ attempts = [s \in Shards |-> 0]
  /\ copies = [s \in Shards |-> <<>>]
  /\ verdict = [s \in Shards |-> "none"]
  /\ chosen = [s \in Shards |-> EmptyPartial]
  /\ report = NoReport

Start ==
  \/ RejectInvalid \/ EmptyDataset \/ NoCandidates
  \/ OverBudget \/ AllPruned \/ Dispatch

Coordinator ==
  \/ Start
  \/ \E s \in Shards : \/ HitDeadline(s) \/ CallHost(s) \/ StopWalk(s)
                       \/ CollectServed(s) \/ CollectError(s)
  \/ Finish

HostAnswers == \E s \in Shards : HostFails(s) \/ HostReplies(s)

Next == Coordinator \/ HostAnswers \/ Tick

(* The executor polls every future that was woken, and each host call ends *)
(* (MeshMapHost passes a request timeout to the node).                     *)
Fairness == WF_vars(Coordinator) /\ WF_vars(HostAnswers)

SafeSpec == Init /\ [][Next]_vars

Spec == SafeSpec /\ Fairness

-----------------------------------------------------------------------------
Ended == phase \in {"ok", "failed"}

TypeOK ==
  /\ job \in Jobs
  /\ phase \in {"init", "collect", "ok", "failed"}
  /\ expired \in BOOLEAN
  /\ pending \in SUBSET Shards
  /\ inflight \in SUBSET Shards
  /\ collected \in SUBSET Shards
  /\ pc \in [Shards -> {"idle", "loop", "await", "done"}]
  /\ attempt \in [Shards -> 0 .. Cardinality(Hosts)]
  /\ attempts \in [Shards -> 0 .. Cardinality(Hosts)]
  /\ copies \in [Shards -> Seq(Copy)]
  /\ verdict \in [Shards -> {"none", "served", "unserved", "deadline",
                             "disagreed"}]
  /\ chosen \in [Shards -> Partials]

(* The answer a fault-free scan of the whole dataset gives.                *)
Expected == [s \in job.shards |-> Truth[Cid[s]]]

(* When no candidate host is faulty, a run that succeeds has merged, for   *)
(* every shard of the dataset exactly once, the partial an honest map of   *)
(* it yields: no shard is lost by pruning, failover, the window or the     *)
(* reassembly of outcomes.                                                 *)
NeverSilentlyWrong ==
  phase = "ok" /\ job.faulty = {} => report.parts = Expected

(* Verification means something: a shard accepted after comparing copies   *)
(* holds the true partial as long as the faulty hosts are fewer than the   *)
(* copies gathered and, if a quorum was asked for, fewer than the quorum.  *)
VerifiedOutvotesLiars ==
  \A s \in Shards :
    /\ verdict[s] = "served" /\ Verified(Conf, copies[s])
    /\ Cardinality(job.faulty) < Len(copies[s])
    /\ Conf.quorum = 0 \/ Cardinality(job.faulty) < Conf.quorum
    => chosen[s] = Truth[Cid[s]]

HonestCopies(s) == {i \in DOMAIN copies[s] : copies[s][i].host \notin job.faulty}

(* Verification raises no false alarm: "redundant hosts disagreed" is only *)
(* reported when a copy came from a faulty host and, if a quorum was asked *)
(* for, the honest copies alone do not reach it.                           *)
HonestQuorumIsServed ==
  \A s \in Shards :
    verdict[s] = "disagreed" =>
      /\ Cardinality(HonestCopies(s)) < Len(copies[s])
      /\ Conf.quorum # 0 => Cardinality(HonestCopies(s)) < Conf.quorum

(* "Could not be served by any candidate" is only reported once the walk   *)
(* has tried as many hosts as the ranking and the attempt cap allow.       *)
GivesUpOnlyWhenSpent ==
  \A s \in Shards :
    verdict[s] = "unserved" =>
      /\ copies[s] = <<>>
      /\ \/ attempts[s] = Cardinality(job.hosts)
         \/ attempts[s] = MaxAttempts

(* The n-th call for a shard goes to the n-th host of its ranking: no host *)
(* is asked twice for one shard, whatever mix of failures and copies the   *)
(* walk went through, so redundant copies are independent.                 *)
CallsFollowRanking ==
  \A s \in Shards :
    /\ pc[s] = "await" => /\ attempts[s] = attempt[s] + 1
                          /\ attempts[s] <= Len(Ranked(s))
    /\ \A i, j \in DOMAIN copies[s] :
         copies[s][i].host = copies[s][j].host => i = j

(* The window never exceeds its bound, and it is full for as long as there *)
(* is a shard left to hand out.                                            *)
WindowKeptFull ==
  phase = "collect" =>
    /\ Cardinality(inflight) <= Window
    /\ pending # {} => Cardinality(inflight) = Window

(* The diagnostics of a report are those of the calls really made: every   *)
(* pair of a shard and a host called for it is counted once, and a shard   *)
(* counts as redistributed exactly when one of the hosts called for it     *)
(* contributed no copy.                                                    *)
HostsCalled(s) == {Ranked(s)[n] : n \in 1 .. attempts[s]}
HostsHeard(s) == {copies[s][i].host : i \in DOMAIN copies[s]}
DiagnosticsAddUp ==
  phase = "ok" =>
    /\ report.redistributed =
         Cardinality({s \in collected : HostsCalled(s) # HostsHeard(s)})
    /\ report.totalAttempts =
         Cardinality(UNION {{s} \X HostsCalled(s) : s \in collected})

(* A run ends, with or without a deadline, when host calls end.            *)
Terminates == <>Ended

(* What may be merged for each shard: a faulty candidate may make up any   *)
(* partial, honest ones have the true one.                                 *)
Right ==
  [s \in job.shards |-> IF job.faulty = {} THEN {Expected[s]} ELSE Partials]

(* run implements the abstract promise: it ends once, with one partial of  *)
(* every shard, each a right one, or with an error.                        *)
Abstract ==
  INSTANCE QueryOutcome WITH
    NoAnswer <- NoReport,
    right <- Right,
    status <- CASE phase = "ok" -> "answered"
                [] phase = "failed" -> "failed"
                [] OTHER -> "running",
    answer <- IF phase = "ok" THEN report.parts ELSE NoReport

ImplementsQueryOutcome == Abstract!Spec

=============================================================================
