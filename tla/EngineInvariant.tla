-------------------------- MODULE EngineInvariant ---------------------------
(***************************************************************************)
(* The inductive invariant behind the safety properties of Engine.  None   *)
(* of those properties is inductive alone: that a shard's copies come from *)
(* distinct hosts, say, rests on how many calls the walk has completed and *)
(* on where in the ranking it stands.                                      *)
(***************************************************************************)
EXTENDS Engine

(* Calls of the walk of s whose answer has arrived.                        *)
Completed(s) == IF pc[s] = "await" THEN attempts[s] - 1 ELSE attempts[s]

(* Calls go down the ranking one position at a time: while the walk is not *)
(* over, the number of completed calls is its position.                    *)
WalkInStep(s) ==
  /\ attempts[s] <= Cardinality(job.hosts)
  /\ attempts[s] <= MaxAttempts
  /\ pc[s] = "idle" => attempts[s] = 0 /\ copies[s] = <<>>
  /\ pc[s] \in {"idle", "loop"} => attempt[s] = attempts[s]
  /\ pc[s] = "await" => attempt[s] + 1 = attempts[s]

(* Each copy was given by one of the hosts already heard, never by one of  *)
(* them twice, and the copies of honest hosts are true.                    *)
CopiesAreCalls(s) ==
  /\ \A i \in DOMAIN copies[s] :
       \E n \in 1 .. Completed(s) : copies[s][i].host = Ranked(s)[n]
  /\ \A i, j \in DOMAIN copies[s] :
       copies[s][i].host = copies[s][j].host => i = j
  /\ \A i \in DOMAIN copies[s] :
       copies[s][i].host \notin job.faulty =>
         copies[s][i].partial = Truth[Cid[s]]

(* A verdict is what the copies and the calls justify.                     *)
VerdictJustified(s) ==
  /\ verdict[s] = "none" <=> pc[s] # "done"
  /\ verdict[s] = "unserved" =>
       /\ copies[s] = <<>>
       /\ attempts[s] = Cardinality(job.hosts) \/ attempts[s] = MaxAttempts
  /\ verdict[s] = "served" =>
       copies[s] # <<>> /\ Accepts(Conf, copies[s], chosen[s])
  /\ verdict[s] = "disagreed" => Disagree(Conf, copies[s])

WalkOK(s) == WalkInStep(s) /\ CopiesAreCalls(s) /\ VerdictJustified(s)

(* Every live shard is in exactly one place, and the window is as full as  *)
(* the shards left allow.                                                  *)
ShardsAccountedFor ==
  /\ phase = "init" =>
       /\ pending = {} /\ inflight = {} /\ collected = {}
       /\ \A s \in Shards : pc[s] = "idle"
  /\ phase = "collect" =>
       /\ pending \cup inflight \cup collected = Live
       /\ pending \cap inflight = {}
       /\ pending \cap collected = {} /\ inflight \cap collected = {}
       /\ \A s \in pending : pc[s] = "idle"
       /\ Cardinality(inflight) <= Window
       /\ pending # {} => Cardinality(inflight) = Window
  /\ \A s \in collected : pc[s] = "done" /\ verdict[s] = "served"

(* A report merges exactly the live shards.                                *)
ReportCovers ==
  phase = "ok" => collected = Live /\ report.parts = Reduced(collected)

(* A report's diagnostics count the calls and copies of those shards.      *)
ReportCounts ==
  phase = "ok" =>
    /\ report.totalAttempts = SumFunctionOnSet(attempts, collected)
    /\ report.redistributed = Cardinality({s \in collected : Redistributed(s)})

IInv ==
  /\ TypeOK
  /\ \A s \in Shards : WalkOK(s)
  /\ ShardsAccountedFor
  /\ ReportCovers
=============================================================================
