---------------------------- MODULE EngineProofs ----------------------------
(***************************************************************************)
(* Theorems about Engine, for every set of shards, hosts and jobs.         *)
(***************************************************************************)
EXTENDS EngineInvariant, Counting

-----------------------------------------------------------------------------
(* Facts about the constants.                                              *)

(* A ranking lists every candidate once, so it is as long as there are     *)
(* candidates, and no host appears at two positions.                       *)
LEMMA RankingFacts ==
  ASSUME JobOK(job), NEW s \in Shards
  PROVE  /\ Cardinality(job.hosts) \in Nat
         /\ Cardinality(Hosts) \in Nat
         /\ Cardinality(job.hosts) <= Cardinality(Hosts)
         /\ Ranked(s) \in [1 .. Cardinality(job.hosts) -> job.hosts]
         /\ Len(Ranked(s)) = Cardinality(job.hosts)
         /\ \A i, j \in 1 .. Cardinality(job.hosts) :
              Ranked(s)[i] = Ranked(s)[j] => i = j
<1>1. IsFiniteSet(job.hosts) /\ IsFiniteSet(Hosts)
  BY HostsAssumption, FS_Subset DEF JobOK
<1>2. /\ Cardinality(job.hosts) \in Nat
      /\ Cardinality(Hosts) \in Nat
      /\ Cardinality(job.hosts) <= Cardinality(Hosts)
  BY <1>1, FS_CardinalityType, FS_Subset DEF JobOK
<1>3. Ranked(s) \in Rankings(job.hosts)
  BY ContentAssumption DEF JobOK, Ranked
<1>4. Ranked(s) \in [1 .. Cardinality(job.hosts) -> job.hosts]
  BY <1>3 DEF Rankings
<1>5. Len(Ranked(s)) = Cardinality(job.hosts)
  BY <1>2, <1>4
<1>6. \A i, j \in 1 .. Cardinality(job.hosts) :
        Ranked(s)[i] = Ranked(s)[j] => i = j
  BY <1>3, <1>4 DEF Rankings
<1>7. QED BY <1>2, <1>4, <1>5, <1>6

(* The bounds a configuration sets are positive numbers.                   *)
LEMMA ConfigFacts ==
  ASSUME JobOK(job)
  PROVE  /\ MaxAttempts \in Nat \ {0}
         /\ Redundancy \in Nat \ {0}
         /\ Window \in Nat \ {0}
         /\ Conf.quorum \in Nat
  BY DEF JobOK, ConfigType, MaxAttempts, Redundancy, Window, Conf, AtLeastOne

(* Content ids of listed shards, and the finiteness of the shard list.     *)
LEMMA ShardFacts ==
  ASSUME JobOK(job)
  PROVE  /\ job.shards \in SUBSET Shards
         /\ IsFiniteSet(job.shards)
         /\ Live \in SUBSET job.shards
         /\ IsFiniteSet(Live)
<1>1. job.shards \in SUBSET Shards
  BY DEF JobOK
<1>2. IsFiniteSet(job.shards)
  BY <1>1, ShardsAssumption, FS_Subset
<1>3. Live \in SUBSET job.shards
  BY DEF Live
<1>4. IsFiniteSet(Live)
  BY <1>2, <1>3, FS_Subset
<1>5. QED BY <1>1, <1>2, <1>3, <1>4

-----------------------------------------------------------------------------
(* Init.                                                                   *)

LEMMA InitIInv == Init => IInv
<1> SUFFICES ASSUME Init PROVE IInv
  OBVIOUS
<1>1. JobOK(job) /\ job \in Jobs
  BY JobsAssumption DEF Init
<1>2. TypeOK
  <2>1. Cardinality(Hosts) \in Nat
    BY HostsAssumption, FS_CardinalityType
  <2>2. copies \in [Shards -> Seq(Copy)]
    <3>1. <<>> \in Seq(Copy)
      OBVIOUS
    <3>2. QED BY <3>1 DEF Init
  <2>3. /\ attempt \in [Shards -> 0 .. Cardinality(Hosts)]
        /\ attempts \in [Shards -> 0 .. Cardinality(Hosts)]
    BY <2>1 DEF Init
  <2>4. QED BY <1>1, <2>2, <2>3, ContentAssumption DEF Init, TypeOK
<1>3. \A s \in Shards : WalkInStep(s)
  BY <1>1, RankingFacts, ConfigFacts DEF Init, WalkInStep
<1>4. \A s \in Shards : CopiesAreCalls(s)
  BY DEF Init, CopiesAreCalls
<1>5. \A s \in Shards : VerdictJustified(s)
  BY DEF Init, VerdictJustified
<1>6. ShardsAccountedFor /\ ReportCovers
  BY DEF Init, ShardsAccountedFor, ReportCovers
<1>7. QED BY <1>2, <1>3, <1>4, <1>5, <1>6 DEF IInv, WalkOK

-----------------------------------------------------------------------------
(* Frames: what a step leaves alone keeps its part of the invariant.       *)

(* A walk none of whose state changed is still in order.                   *)
LEMMA UntouchedWalk ==
  ASSUME NEW t \in Shards, WalkOK(t), job' = job, pc'[t] = pc[t],
         attempt'[t] = attempt[t], attempts'[t] = attempts[t],
         copies'[t] = copies[t], verdict'[t] = verdict[t],
         chosen'[t] = chosen[t]
  PROVE  WalkOK(t)'
<1>1. WalkInStep(t)'
  BY DEF WalkOK, WalkInStep, MaxAttempts, Conf
<1>2. CopiesAreCalls(t)'
  BY DEF WalkOK, CopiesAreCalls, Completed, Ranked
<1>3. VerdictJustified(t)'
  BY DEF WalkOK, VerdictJustified, MaxAttempts, Conf
<1>4. QED BY <1>1, <1>2, <1>3 DEF WalkOK

(* The variables that only the coordinator changes.                        *)
CoordinatorStill ==
  UNCHANGED <<job, phase, pending, inflight, collected, report>>

(* Only the walk of s moved.                                               *)
OnlyWalk(s) ==
  \A t \in Shards \ {s} :
    /\ pc'[t] = pc[t] /\ attempt'[t] = attempt[t]
    /\ attempts'[t] = attempts[t] /\ copies'[t] = copies[t]
    /\ verdict'[t] = verdict[t] /\ chosen'[t] = chosen[t]

(* A step of the walk of s leaves the coordinator's bookkeeping in order.  *)
LEMMA WalkStep ==
  ASSUME IInv, NEW s \in Shards, phase = "collect", s \in inflight,
         CoordinatorStill, OnlyWalk(s), TypeOK', WalkOK(s)'
  PROVE  IInv'
<1>1. \A t \in Shards : WalkOK(t)'
  BY UntouchedWalk DEF IInv, OnlyWalk, CoordinatorStill
<1>2. ShardsAccountedFor'
  BY DEF IInv, TypeOK, ShardsAccountedFor, CoordinatorStill, OnlyWalk,
         Live, Window, Conf
<1>3. ReportCovers'
  BY DEF ReportCovers, CoordinatorStill
<1>4. QED BY <1>1, <1>2, <1>3 DEF IInv

(* A walk that settles on the copies cs gets a verdict they justify.       *)
LEMMA SettleVerdict ==
  ASSUME TypeOK, NEW s \in Shards, NEW cs \in Seq(Copy), Settle(s, cs),
         copies'[s] = cs, job' = job,
         cs = <<>> => \/ attempts'[s] = Cardinality(job.hosts)
                     \/ attempts'[s] = MaxAttempts
  PROVE  /\ VerdictJustified(s)'
         /\ pc' = [pc EXCEPT ![s] = "done"]
         /\ verdict' \in [Shards -> {"none", "served", "unserved", "deadline",
                                     "disagreed"}]
         /\ chosen' \in [Shards -> Partials]
         /\ \A t \in Shards \ {s} : verdict'[t] = verdict[t] /\ chosen'[t] = chosen[t]
<1>1. /\ pc' = [pc EXCEPT ![s] = "done"]
      /\ verdict' \in [Shards -> {"none", "served", "unserved", "deadline",
                                  "disagreed"}]
      /\ chosen' \in [Shards -> Partials]
      /\ \A t \in Shards \ {s} : verdict'[t] = verdict[t] /\ chosen'[t] = chosen[t]
  BY DEF Settle, TypeOK
<1>2. pc'[s] = "done"
  BY <1>1 DEF TypeOK
<1>3. VerdictJustified(s)'
  <2>1. CASE cs = <<>> /\ verdict' = [verdict EXCEPT ![s] = "unserved"]
    BY <1>2, <2>1 DEF VerdictJustified, TypeOK, MaxAttempts, Conf
  <2>2. CASE /\ cs # <<>>
             /\ \E p \in Partials :
                  Accepts(Conf, cs, p) /\ chosen' = [chosen EXCEPT ![s] = p]
             /\ verdict' = [verdict EXCEPT ![s] = "served"]
    <3>1. PICK p \in Partials :
            Accepts(Conf, cs, p) /\ chosen' = [chosen EXCEPT ![s] = p]
      BY <2>2
    <3>2. chosen'[s] = p /\ verdict'[s] = "served"
      BY <2>2, <3>1 DEF TypeOK
    <3>3. QED BY <1>2, <2>2, <3>1, <3>2 DEF VerdictJustified, Conf
  <2>3. CASE Disagree(Conf, cs) /\ verdict' = [verdict EXCEPT ![s] = "disagreed"]
    <3>1. verdict'[s] = "disagreed"
      BY <2>3 DEF TypeOK
    <3>2. QED BY <1>2, <2>3, <3>1 DEF VerdictJustified, Conf
  <2>4. QED BY <2>1, <2>2, <2>3 DEF Settle
<1>4. QED BY <1>1, <1>3

-----------------------------------------------------------------------------
(* The steps of a walk.                                                    *)

LEMMA HitDeadlineStep ==
  ASSUME IInv, NEW s \in Shards, HitDeadline(s)
  PROVE  IInv'
<1>1. /\ phase = "collect" /\ s \in inflight /\ pc[s] = "loop"
      /\ CoordinatorStill /\ OnlyWalk(s)
  BY DEF IInv, TypeOK, HitDeadline, AtLoopTop, CoordinatorStill, OnlyWalk
<1>2. TypeOK'
  BY DEF IInv, TypeOK, HitDeadline
<1>3. /\ pc'[s] = "done" /\ verdict'[s] = "deadline"
      /\ UNCHANGED <<job, attempt, attempts, copies>>
  BY DEF IInv, TypeOK, HitDeadline
<1>4. WalkOK(s)
  BY DEF IInv
<1>5. WalkInStep(s)'
  BY <1>1, <1>3, <1>4 DEF WalkOK, WalkInStep, MaxAttempts, Conf
<1>6. CopiesAreCalls(s)'
  BY <1>1, <1>3, <1>4 DEF WalkOK, CopiesAreCalls, Completed, Ranked
<1>7. VerdictJustified(s)'
  BY <1>3 DEF VerdictJustified
<1>8. QED BY <1>1, <1>2, <1>5, <1>6, <1>7, WalkStep DEF WalkOK

LEMMA CallHostStep ==
  ASSUME IInv, NEW s \in Shards, CallHost(s)
  PROVE  IInv'
<1>1. /\ phase = "collect" /\ s \in inflight /\ pc[s] = "loop"
      /\ CoordinatorStill /\ OnlyWalk(s)
  BY DEF IInv, TypeOK, CallHost, AtLoopTop, CoordinatorStill, OnlyWalk
<1>2. /\ pc'[s] = "await" /\ attempts'[s] = attempts[s] + 1
      /\ UNCHANGED <<job, attempt, copies, verdict, chosen>>
  BY DEF IInv, TypeOK, CallHost
<1>3. WalkOK(s)
  BY DEF IInv
<1>4. JobOK(job)
  BY JobsAssumption DEF IInv, TypeOK
<1>5. /\ attempt[s] = attempts[s] /\ attempts[s] \in Nat
      /\ attempts[s] < Cardinality(job.hosts)
      /\ attempts[s] < MaxAttempts
  BY <1>1, <1>3, <1>4, RankingFacts, ConfigFacts
     DEF IInv, TypeOK, CallHost, WalkOver, Exhausted, WalkOK, WalkInStep
<1>6. attempts[s] + 1 <= Cardinality(Hosts)
  BY <1>4, <1>5, RankingFacts
<1>7. TypeOK'
  BY <1>2, <1>5, <1>6, <1>4, RankingFacts DEF IInv, TypeOK, CallHost
<1>8. WalkInStep(s)'
  BY <1>2, <1>4, <1>5, RankingFacts, ConfigFacts
     DEF WalkInStep, MaxAttempts, Conf
<1>9. CopiesAreCalls(s)'
  BY <1>1, <1>2, <1>3, <1>5 DEF WalkOK, CopiesAreCalls, Completed, Ranked
<1>10. VerdictJustified(s)'
  BY <1>1, <1>2, <1>3, <1>5 DEF WalkOK, VerdictJustified, Conf
<1>11. QED BY <1>1, <1>7, <1>8, <1>9, <1>10, WalkStep DEF WalkOK

LEMMA StopWalkStep ==
  ASSUME IInv, NEW s \in Shards, StopWalk(s)
  PROVE  IInv'
<1>1. /\ phase = "collect" /\ s \in inflight /\ pc[s] = "loop"
      /\ CoordinatorStill
      /\ UNCHANGED <<job, attempt, attempts, copies>>
  BY DEF StopWalk, AtLoopTop, CoordinatorStill
<1>2. JobOK(job) /\ WalkOK(s) /\ copies[s] \in Seq(Copy)
  BY JobsAssumption DEF IInv, TypeOK
<1>3. \/ attempts[s] = Cardinality(job.hosts)
      \/ attempts[s] = MaxAttempts
  BY <1>1, <1>2, RankingFacts, ConfigFacts
     DEF IInv, TypeOK, StopWalk, WalkOver, Exhausted, WalkOK, WalkInStep
<1>4. /\ VerdictJustified(s)'
      /\ pc' = [pc EXCEPT ![s] = "done"]
      /\ verdict' \in [Shards -> {"none", "served", "unserved", "deadline",
                                  "disagreed"}]
      /\ chosen' \in [Shards -> Partials]
      /\ \A t \in Shards \ {s} : verdict'[t] = verdict[t] /\ chosen'[t] = chosen[t]
  BY <1>1, <1>2, <1>3, SettleVerdict DEF IInv, StopWalk
<1>5. pc'[s] = "done" /\ OnlyWalk(s)
  BY <1>1, <1>4 DEF IInv, TypeOK, OnlyWalk
<1>6. TypeOK'
  BY <1>1, <1>4 DEF IInv, TypeOK, StopWalk
<1>7. WalkInStep(s)'
  BY <1>1, <1>2, <1>5 DEF WalkOK, WalkInStep, MaxAttempts, Conf
<1>8. CopiesAreCalls(s)'
  BY <1>1, <1>2, <1>5 DEF WalkOK, CopiesAreCalls, Completed, Ranked
<1>9. QED BY <1>1, <1>4, <1>5, <1>6, <1>7, <1>8, WalkStep DEF WalkOK

LEMMA HostFailsStep ==
  ASSUME IInv, NEW s \in Shards, HostFails(s)
  PROVE  IInv'
<1>1. /\ phase = "collect" /\ s \in inflight /\ pc[s] = "await"
      /\ CoordinatorStill /\ OnlyWalk(s)
  BY DEF IInv, TypeOK, HostFails, Awaiting, CoordinatorStill, OnlyWalk
<1>2. /\ pc'[s] = "loop" /\ attempt'[s] = Advance(attempt[s], Ranked(s))
      /\ UNCHANGED <<job, attempts, copies, verdict, chosen>>
  BY DEF IInv, TypeOK, HostFails
<1>3. JobOK(job) /\ WalkOK(s)
  BY JobsAssumption DEF IInv, TypeOK
<1>4. /\ attempt[s] + 1 = attempts[s]
      /\ attempts[s] \in Nat /\ attempt[s] \in Nat
      /\ attempts[s] <= Cardinality(job.hosts)
  BY <1>1, <1>3 DEF IInv, TypeOK, WalkOK, WalkInStep
<1>5. attempt'[s] = attempts[s]
  BY <1>2, <1>3, <1>4, RankingFacts DEF Advance, HasNext
<1>6. TypeOK'
  BY <1>2, <1>5 DEF IInv, TypeOK, HostFails
<1>7. WalkInStep(s)'
  BY <1>2, <1>3, <1>5 DEF WalkOK, WalkInStep, MaxAttempts, Conf
<1>8. CopiesAreCalls(s)'
  BY <1>1, <1>2, <1>3, <1>4 DEF WalkOK, CopiesAreCalls, Completed, Ranked
<1>9. VerdictJustified(s)'
  BY <1>1, <1>2, <1>3 DEF WalkOK, VerdictJustified, Conf
<1>10. QED BY <1>1, <1>6, <1>7, <1>8, <1>9, WalkStep DEF WalkOK

(* A copy that arrives comes from the next host of the ranking: it differs *)
(* from those heard before, and its partial is true unless it is faulty.   *)
LEMMA NewCopy ==
  ASSUME IInv, NEW s \in Shards, Awaiting(s), NEW p \in MapResult(CurrentHost(s), s),
         job' = job, attempts' = attempts, pc'[s] # "await",
         copies'[s] = Append(copies[s], [host |-> CurrentHost(s), partial |-> p])
  PROVE  /\ copies'[s] \in Seq(Copy)
         /\ copies'[s] # <<>>
         /\ CopiesAreCalls(s)'
<1> DEFINE c == [host |-> CurrentHost(s), partial |-> p]
           n == Len(copies[s])
<1>1. JobOK(job) /\ WalkOK(s) /\ copies[s] \in Seq(Copy) /\ n \in Nat
  BY JobsAssumption DEF IInv, TypeOK
<1>2. /\ attempt[s] + 1 = attempts[s] /\ pc[s] = "await"
      /\ attempts[s] \in Nat /\ attempt[s] \in Nat
      /\ attempts[s] <= Cardinality(job.hosts)
  BY <1>1 DEF IInv, TypeOK, WalkOK, WalkInStep, Awaiting
<1>3. CurrentHost(s) = Ranked(s)[attempts[s]]
  BY <1>2 DEF CurrentHost, AssignedHost
<1>4. CurrentHost(s) \in job.hosts
  BY <1>1, <1>2, <1>3, RankingFacts
<1>5. p \in Partials
  BY ContentAssumption DEF MapResult
<1>6. c \in Copy
  BY <1>1, <1>4, <1>5 DEF Copy, JobOK
<1>7. /\ copies'[s] \in Seq(Copy) /\ copies'[s] # <<>>
      /\ DOMAIN copies'[s] = 1 .. (n + 1)
      /\ \A i \in 1 .. n : copies'[s][i] = copies[s][i]
      /\ copies'[s][n + 1] = c
  BY <1>1, <1>6
<1>8. Completed(s)' = attempts[s] /\ Ranked(s)' = Ranked(s)
  BY DEF Completed, Ranked
<1>9. Completed(s) = attempts[s] - 1
  BY <1>2 DEF Completed
<1>10. \A i \in 1 .. n :
         /\ \E k \in 1 .. (attempts[s] - 1) : copies[s][i].host = Ranked(s)[k]
         /\ copies[s][i].host \notin job.faulty =>
              copies[s][i].partial = Truth[Cid[s]]
  BY <1>1, <1>9 DEF WalkOK, CopiesAreCalls
<1>11. \A i \in 1 .. n : copies[s][i].host # CurrentHost(s)
  <2>1. SUFFICES ASSUME NEW i \in 1 .. n, NEW k \in 1 .. (attempts[s] - 1),
                        copies[s][i].host = Ranked(s)[k]
                 PROVE  copies[s][i].host # CurrentHost(s)
    BY <1>10
  <2>2. k # attempts[s] /\ k \in 1 .. Cardinality(job.hosts)
          /\ attempts[s] \in 1 .. Cardinality(job.hosts)
    BY <1>1, <1>2, RankingFacts
  <2>3. QED BY <1>1, <1>3, <2>1, <2>2, RankingFacts
<1>12. \A i \in 1 .. (n + 1) :
         \E k \in 1 .. attempts[s] : copies'[s][i].host = Ranked(s)[k]
  <2>1. TAKE i \in 1 .. (n + 1)
  <2>2. CASE i = n + 1
    BY <1>2, <1>3, <1>7, <2>2
  <2>3. CASE i \in 1 .. n
    BY <1>2, <1>7, <1>10, <2>3
  <2>4. QED BY <1>1, <2>2, <2>3
<1>13. \A i, j \in 1 .. (n + 1) :
         copies'[s][i].host = copies'[s][j].host => i = j
  BY <1>1, <1>7, <1>11 DEF WalkOK, CopiesAreCalls
<1>14. \A i \in 1 .. (n + 1) :
         copies'[s][i].host \notin job.faulty =>
           copies'[s][i].partial = Truth[Cid[s]]
  BY <1>1, <1>7, <1>10 DEF MapResult
<1>15. CopiesAreCalls(s)'
  <2>1. \A i \in DOMAIN copies'[s] :
          \E k \in 1 .. Completed(s)' : copies'[s][i].host = Ranked(s)'[k]
    BY <1>7, <1>8, <1>12
  <2>2. \A i, j \in DOMAIN copies'[s] :
          copies'[s][i].host = copies'[s][j].host => i = j
    BY <1>7, <1>13
  <2>3. \A i \in DOMAIN copies'[s] :
          copies'[s][i].host \notin job'.faulty =>
            copies'[s][i].partial = Truth[Cid[s]]
    BY <1>7, <1>14
  <2>4. QED BY <2>1, <2>2, <2>3 DEF CopiesAreCalls
<1>16. QED BY <1>7, <1>15

LEMMA HostRepliesStep ==
  ASSUME IInv, NEW s \in Shards, HostReplies(s)
  PROVE  IInv'
<1>1. PICK p \in MapResult(CurrentHost(s), s) :
        LET cs == Append(copies[s], [host |-> CurrentHost(s), partial |-> p])
        IN  /\ copies' = [copies EXCEPT ![s] = cs]
            /\ \/ /\ Len(cs) >= Redundancy
                  /\ Settle(s, cs)
                  /\ UNCHANGED attempt
               \/ /\ Len(cs) < Redundancy
                  /\ attempt' = [attempt EXCEPT ![s] = Advance(@, Ranked(s))]
                  /\ IF HasNext(attempt[s], Ranked(s))
                     THEN /\ pc' = [pc EXCEPT ![s] = "loop"]
                          /\ UNCHANGED <<verdict, chosen>>
                     ELSE Settle(s, cs)
  BY DEF HostReplies
<1> DEFINE cs == Append(copies[s], [host |-> CurrentHost(s), partial |-> p])
<1>2. /\ phase = "collect" /\ s \in inflight /\ pc[s] = "await" /\ Awaiting(s)
      /\ CoordinatorStill /\ UNCHANGED <<job, expired, attempts>>
  BY DEF HostReplies, Awaiting, CoordinatorStill
<1>3. copies'[s] = cs /\ copies' = [copies EXCEPT ![s] = cs]
  BY <1>1 DEF IInv, TypeOK
<1>4. JobOK(job) /\ WalkOK(s)
  BY JobsAssumption DEF IInv, TypeOK
<1>5. /\ attempt[s] + 1 = attempts[s]
      /\ attempts[s] \in Nat /\ attempt[s] \in Nat
      /\ attempts[s] <= Cardinality(job.hosts)
      /\ attempts[s] <= Cardinality(Hosts)
      /\ Advance(attempt[s], Ranked(s)) = attempts[s]
  BY <1>2, <1>4, RankingFacts
     DEF IInv, TypeOK, WalkOK, WalkInStep, Advance, HasNext
<1>6. attempt' \in [Shards -> 0 .. Cardinality(Hosts)]
  BY <1>1, <1>5 DEF IInv, TypeOK
<1>7. \A t \in Shards \ {s} : attempt'[t] = attempt[t] /\ copies'[t] = copies[t]
  BY <1>1, <1>3 DEF IInv, TypeOK
<1>8. CASE Settle(s, cs)
  <2>1. pc'[s] = "done"
    BY <1>8 DEF Settle, IInv, TypeOK
  <2>2. cs \in Seq(Copy) /\ cs # <<>> /\ CopiesAreCalls(s)'
    BY <1>2, <1>3, <2>1, NewCopy
  <2>3. /\ VerdictJustified(s)'
        /\ pc' = [pc EXCEPT ![s] = "done"]
        /\ verdict' \in [Shards -> {"none", "served", "unserved", "deadline",
                                    "disagreed"}]
        /\ chosen' \in [Shards -> Partials]
        /\ \A t \in Shards \ {s} : verdict'[t] = verdict[t] /\ chosen'[t] = chosen[t]
    BY <1>2, <1>3, <1>8, <2>2, SettleVerdict DEF IInv
  <2>4. OnlyWalk(s)
    BY <1>2, <1>7, <2>3 DEF IInv, TypeOK, OnlyWalk
  <2>5. TypeOK'
    BY <1>2, <1>3, <1>6, <2>2, <2>3 DEF IInv, TypeOK, HostReplies
  <2>6. WalkInStep(s)'
    BY <1>2, <1>4, <2>1 DEF WalkOK, WalkInStep, MaxAttempts, Conf
  <2>7. QED BY <1>2, <2>2, <2>3, <2>4, <2>5, <2>6, WalkStep DEF WalkOK
<1>9. CASE /\ attempt' = [attempt EXCEPT ![s] = Advance(@, Ranked(s))]
           /\ pc' = [pc EXCEPT ![s] = "loop"]
           /\ UNCHANGED <<verdict, chosen>>
  <2>1. pc'[s] = "loop" /\ attempt'[s] = attempts[s] /\ OnlyWalk(s)
    BY <1>2, <1>5, <1>7, <1>9 DEF IInv, TypeOK, OnlyWalk
  <2>2. cs \in Seq(Copy) /\ CopiesAreCalls(s)'
    BY <1>2, <1>3, <2>1, NewCopy
  <2>3. TypeOK'
    BY <1>2, <1>3, <1>6, <1>9, <2>2 DEF IInv, TypeOK, HostReplies
  <2>4. WalkInStep(s)'
    BY <1>2, <1>4, <2>1 DEF WalkOK, WalkInStep, MaxAttempts, Conf
  <2>5. verdict[s] = "none"
    BY <1>2, <1>4 DEF WalkOK, VerdictJustified
  <2>6. VerdictJustified(s)'
    BY <1>9, <2>1, <2>5 DEF VerdictJustified
  <2>7. QED BY <1>2, <2>1, <2>2, <2>3, <2>4, <2>6, WalkStep DEF WalkOK
<1>10. QED BY <1>1, <1>8, <1>9

-----------------------------------------------------------------------------
(* The steps of the coordinator.                                           *)

(* A step that touches no walk keeps every walk in order.                  *)
LEMMA QuietWalks ==
  ASSUME IInv, UNCHANGED <<job, pc, walkVars>>
  PROVE  \A t \in Shards : WalkOK(t)'
  BY UntouchedWalk DEF IInv, walkVars

(* A walk that has just been handed out starts in order.                   *)
LEMMA FreshWalk ==
  ASSUME IInv, NEW t \in Shards, pc[t] = "idle", pc'[t] = "loop",
         UNCHANGED <<job, walkVars>>
  PROVE  WalkOK(t)'
<1>1. WalkOK(t)
  BY DEF IInv
<1>2. WalkInStep(t)'
  BY <1>1 DEF WalkOK, WalkInStep, MaxAttempts, Conf, walkVars
<1>3. CopiesAreCalls(t)'
  BY <1>1 DEF WalkOK, WalkInStep, CopiesAreCalls, walkVars
<1>4. VerdictJustified(t)'
  BY <1>1 DEF WalkOK, VerdictJustified, walkVars
<1>5. QED BY <1>2, <1>3, <1>4 DEF WalkOK

(* A run that ends before dispatch merges nothing, and succeeds only when  *)
(* there is no live shard.                                                 *)
LEMMA EndBeforeDispatchStep ==
  ASSUME IInv, NEW outcome \in {"ok", "failed"}, EndBeforeDispatch(outcome),
         outcome = "ok" => Live = {} /\ report' = Report({})
  PROVE  IInv'
<1>1. /\ phase = "init" /\ phase' = outcome
      /\ UNCHANGED <<job, expired, pending, inflight, collected, pc, walkVars>>
  BY DEF EndBeforeDispatch
<1>2. TypeOK'
  BY <1>1 DEF IInv, TypeOK, walkVars
<1>3. \A t \in Shards : WalkOK(t)'
  BY <1>1, QuietWalks
<1>4. ShardsAccountedFor'
  BY <1>1 DEF IInv, ShardsAccountedFor
<1>5. ReportCovers'
  <2>1. SUFFICES ASSUME outcome = "ok"
                 PROVE  collected' = Live' /\ report'.parts = Reduced(collected)'
    BY <1>1 DEF ReportCovers
  <2>2. collected = {} /\ Live' = Live
    BY <1>1 DEF IInv, ShardsAccountedFor, Live
  <2>3. report'.parts = Reduced({})
    BY <2>1 DEF Report
  <2>4. Reduced(collected)' = Reduced({})
    BY <1>1, <2>2 DEF Reduced, walkVars
  <2>5. QED BY <1>1, <2>1, <2>2, <2>3, <2>4
<1>6. QED BY <1>2, <1>3, <1>4, <1>5 DEF IInv

LEMMA DispatchStep ==
  ASSUME IInv, Dispatch
  PROVE  IInv'
<1>1. /\ phase = "init" /\ phase' = "collect"
      /\ UNCHANGED <<job, expired, collected, walkVars, report>>
  BY DEF Dispatch
<1>2. PICK P \in SUBSET Live :
        /\ Cardinality(P) = IF Window <= Cardinality(Live)
                            THEN Window ELSE Cardinality(Live)
        /\ inflight' = P
        /\ pending' = Live \ P
        /\ pc' = [s \in Shards |-> IF s \in P THEN "loop" ELSE pc[s]]
  BY DEF Dispatch
<1>3. /\ JobOK(job) /\ collected = {}
      /\ \A s \in Shards : pc[s] = "idle"
  BY <1>1, JobsAssumption DEF IInv, TypeOK, ShardsAccountedFor
<1>4. /\ Live \in SUBSET Shards /\ Live' = Live /\ Window' = Window
      /\ IsFiniteSet(Live) /\ Window \in Nat \ {0}
  BY <1>1, <1>3, ShardFacts, ConfigFacts DEF Live, Window, Conf
<1>5. TypeOK'
  BY <1>1, <1>2, <1>3, <1>4 DEF IInv, TypeOK, walkVars
<1>6. \A t \in Shards : WalkOK(t)'
  <2>1. TAKE t \in Shards
  <2>2. CASE t \in P
    BY <1>1, <1>2, <1>3, <2>2, FreshWalk
  <2>3. CASE t \notin P
    <3>1. pc'[t] = pc[t]
      BY <1>2, <2>3
    <3>2. QED BY <1>1, <3>1, UntouchedWalk DEF IInv, walkVars
  <2>4. QED BY <2>2, <2>3
<1>7. Cardinality(P) <= Window /\ (Live \ P # {} => Cardinality(P) = Window)
  <2>1. /\ Cardinality(Live) \in Nat
        /\ Cardinality(P) = Cardinality(Live) => P = Live
    BY <1>4, FS_CardinalityType, FS_Subset
  <2>2. QED BY <1>2, <1>4, <2>1
<1>8. ShardsAccountedFor'
  BY <1>1, <1>2, <1>3, <1>4, <1>7 DEF ShardsAccountedFor
<1>9. ReportCovers'
  BY <1>1 DEF ReportCovers
<1>10. QED BY <1>5, <1>6, <1>8, <1>9 DEF IInv

LEMMA CollectServedStep ==
  ASSUME IInv, NEW s \in Shards, CollectServed(s)
  PROVE  IInv'
<1>1. /\ phase = "collect" /\ s \in inflight /\ pc[s] = "done"
      /\ verdict[s] = "served" /\ collected' = collected \cup {s}
      /\ UNCHANGED <<job, phase, expired, walkVars, report>>
  BY DEF CollectServed, Finished
<1>2. /\ JobOK(job) /\ pending \cup inflight \cup collected = Live
      /\ pending \cap inflight = {}
      /\ pending \cap collected = {} /\ inflight \cap collected = {}
      /\ \A t \in pending : pc[t] = "idle"
      /\ Cardinality(inflight) <= Window
      /\ pending # {} => Cardinality(inflight) = Window
      /\ \A t \in collected : pc[t] = "done" /\ verdict[t] = "served"
  BY <1>1, JobsAssumption DEF IInv, TypeOK, ShardsAccountedFor
<1>3. /\ IsFiniteSet(inflight) /\ Cardinality(inflight) \in Nat
      /\ IsFiniteSet(inflight \ {s})
      /\ Cardinality(inflight \ {s}) = Cardinality(inflight) - 1
  <2>1. IsFiniteSet(inflight)
    BY <1>2, ShardFacts, FS_Subset
  <2>2. QED BY <1>1, <2>1, FS_CardinalityType, FS_RemoveElement
<1>4. Live' = Live /\ Window' = Window /\ Window \in Nat /\ Live \in SUBSET Shards
  BY <1>1, <1>2, ShardFacts, ConfigFacts DEF Live, Window, Conf
<1>5. CASE /\ pending = {} /\ inflight' = inflight \ {s}
           /\ UNCHANGED <<pending, pc>>
  <2>1. TypeOK'
    BY <1>1, <1>5 DEF IInv, TypeOK, walkVars
  <2>2. \A t \in Shards : WalkOK(t)'
    BY <1>1, <1>5, QuietWalks
  <2>3. ShardsAccountedFor'
    BY <1>1, <1>2, <1>3, <1>4, <1>5 DEF ShardsAccountedFor, walkVars
  <2>4. ReportCovers'
    BY <1>1 DEF ReportCovers
  <2>5. QED BY <2>1, <2>2, <2>3, <2>4 DEF IInv
<1>6. CASE \E n \in pending : /\ inflight' = (inflight \ {s}) \cup {n}
                             /\ pending' = pending \ {n}
                             /\ pc' = [pc EXCEPT ![n] = "loop"]
  <2>1. PICK n \in pending : /\ inflight' = (inflight \ {s}) \cup {n}
                             /\ pending' = pending \ {n}
                             /\ pc' = [pc EXCEPT ![n] = "loop"]
    BY <1>6
  <2>2. n \in Shards /\ n # s /\ n \notin inflight /\ n \notin collected
          /\ pc[n] = "idle"
    BY <1>1, <1>2, <1>4
  <2>3. pc'[n] = "loop" /\ \A t \in Shards \ {n} : pc'[t] = pc[t]
    BY <2>1, <2>2 DEF IInv, TypeOK
  <2>4. TypeOK'
    BY <1>1, <2>1, <2>2 DEF IInv, TypeOK, walkVars
  <2>5. \A t \in Shards : WalkOK(t)'
    <3>1. TAKE t \in Shards
    <3>2. CASE t = n
      BY <1>1, <2>2, <2>3, <3>2, FreshWalk
    <3>3. CASE t # n
      BY <1>1, <2>3, <3>3, UntouchedWalk DEF IInv, walkVars
    <3>4. QED BY <3>2, <3>3
  <2>6. Cardinality(inflight') = Window
    <3>1. n \notin inflight \ {s} /\ Cardinality(inflight) = Window
      BY <1>2, <2>2
    <3>2. Cardinality((inflight \ {s}) \cup {n}) = Cardinality(inflight \ {s}) + 1
      BY <1>3, <3>1, FS_AddElement
    <3>3. QED BY <1>3, <2>1, <3>1, <3>2
  <2>7. ShardsAccountedFor'
    BY <1>1, <1>2, <1>4, <2>1, <2>2, <2>3, <2>6
       DEF ShardsAccountedFor, walkVars
  <2>8. ReportCovers'
    BY <1>1 DEF ReportCovers
  <2>9. QED BY <2>4, <2>5, <2>7, <2>8 DEF IInv
<1>7. QED BY <1>5, <1>6 DEF CollectServed, Refill

LEMMA CollectErrorStep ==
  ASSUME IInv, NEW s \in Shards, CollectError(s)
  PROVE  IInv'
<1>1. /\ phase' = "failed" /\ inflight' = {}
      /\ UNCHANGED <<job, expired, pending, collected, pc, walkVars, report>>
  BY DEF CollectError
<1>2. TypeOK'
  BY <1>1 DEF IInv, TypeOK, walkVars
<1>3. \A t \in Shards : WalkOK(t)'
  BY <1>1, QuietWalks
<1>4. ShardsAccountedFor' /\ ReportCovers'
  BY <1>1 DEF IInv, ShardsAccountedFor, ReportCovers, walkVars
<1>5. QED BY <1>2, <1>3, <1>4 DEF IInv

LEMMA FinishStep ==
  ASSUME IInv, Finish
  PROVE  IInv'
<1>1. /\ phase = "collect" /\ inflight = {} /\ phase' \in {"ok", "failed"}
      /\ UNCHANGED <<job, expired, pending, inflight, collected, pc, walkVars>>
      /\ phase' = "ok" => report' = Report(collected)
  BY DEF Finish, Drained
<1>2. TypeOK'
  BY <1>1 DEF IInv, TypeOK, walkVars
<1>3. \A t \in Shards : WalkOK(t)'
  BY <1>1, QuietWalks
<1>4. ShardsAccountedFor'
  BY <1>1 DEF IInv, ShardsAccountedFor, walkVars
<1>5. collected = Live
  <2>1. Window # 0
    BY JobsAssumption, ConfigFacts DEF IInv, TypeOK
  <2>2. Cardinality(inflight) = 0
    BY <1>1, FS_EmptySet
  <2>3. pending = {}
    BY <1>1, <2>1, <2>2 DEF IInv, ShardsAccountedFor
  <2>4. QED BY <1>1, <2>3 DEF IInv, ShardsAccountedFor
<1>6. ReportCovers'
  <2>1. Live' = Live /\ Reduced(collected)' = Reduced(collected)
    BY <1>1 DEF Live, Reduced, walkVars
  <2>2. Report(collected).parts = Reduced(collected)
    BY DEF Report
  <2>3. QED BY <1>1, <1>5, <2>1, <2>2 DEF ReportCovers
<1>7. QED BY <1>2, <1>3, <1>4, <1>6 DEF IInv

LEMMA TickStep ==
  ASSUME IInv, Tick
  PROVE  IInv'
<1>1. /\ phase = "collect" /\ expired' = TRUE
      /\ UNCHANGED <<job, phase, pending, inflight, collected, pc, walkVars,
                     report>>
  BY DEF Tick
<1>2. TypeOK'
  BY <1>1 DEF IInv, TypeOK, walkVars
<1>3. \A t \in Shards : WalkOK(t)'
  BY <1>1, QuietWalks
<1>4. ShardsAccountedFor' /\ ReportCovers'
  BY <1>1 DEF IInv, ShardsAccountedFor, ReportCovers, walkVars, Live, Window,
              Conf
<1>5. QED BY <1>2, <1>3, <1>4 DEF IInv

-----------------------------------------------------------------------------
(* The invariant holds in every reachable state.                           *)

LEMMA NextIInv == IInv /\ [Next]_vars => IInv'
<1> SUFFICES ASSUME IInv, [Next]_vars PROVE IInv'
  OBVIOUS
<1>1. CASE RejectInvalid
  BY <1>1, EndBeforeDispatchStep DEF RejectInvalid
<1>2. CASE EmptyDataset
  <2>1. Live = {}
    BY <1>2 DEF EmptyDataset, Live
  <2>2. QED BY <1>2, <2>1, EndBeforeDispatchStep DEF EmptyDataset
<1>3. CASE NoCandidates
  BY <1>3, EndBeforeDispatchStep DEF NoCandidates
<1>4. CASE OverBudget
  BY <1>4, EndBeforeDispatchStep DEF OverBudget
<1>5. CASE AllPruned
  BY <1>5, EndBeforeDispatchStep DEF AllPruned
<1>6. CASE Dispatch
  BY <1>6, DispatchStep
<1>7. CASE \E s \in Shards : HitDeadline(s) \/ CallHost(s) \/ StopWalk(s)
  BY <1>7, HitDeadlineStep, CallHostStep, StopWalkStep
<1>8. CASE \E s \in Shards : CollectServed(s) \/ CollectError(s)
  BY <1>8, CollectServedStep, CollectErrorStep
<1>9. CASE Finish
  BY <1>9, FinishStep
<1>10. CASE HostAnswers
  BY <1>10, HostFailsStep, HostRepliesStep DEF HostAnswers
<1>11. CASE Tick
  BY <1>11, TickStep
<1>12. CASE UNCHANGED vars
  <2>1. \A t \in Shards : WalkOK(t)'
    BY <1>12, QuietWalks DEF vars
  <2>2. TypeOK'
    BY <1>12 DEF IInv, TypeOK, vars, walkVars
  <2>3. ShardsAccountedFor' /\ ReportCovers'
    BY <1>12 DEF IInv, ShardsAccountedFor, ReportCovers, vars, walkVars,
                 Live, Window, Conf, Reduced
  <2>4. QED BY <2>1, <2>2, <2>3 DEF IInv
<1>13. QED
  BY <1>1, <1>2, <1>3, <1>4, <1>5, <1>6, <1>7, <1>8, <1>9, <1>10, <1>11, <1>12
     DEF Next, Coordinator, Start

THEOREM EngineInvariantHolds == SafeSpec => []IInv
  BY InitIInv, NextIInv, PTL DEF SafeSpec

(* Every variable keeps its type: in particular no walk ever stands beyond *)
(* the end of its ranking or makes more calls than there are hosts.        *)
THEOREM TypeCorrect == SafeSpec => []TypeOK
<1>1. IInv => TypeOK
  BY DEF IInv
<1>2. QED BY <1>1, EngineInvariantHolds, PTL

(* No host is asked twice for one shard, so redundant copies come from     *)
(* distinct hosts.                                                         *)
THEOREM WalksFollowTheirRanking == SafeSpec => []CallsFollowRanking
<1>1. IInv => CallsFollowRanking
  <2>1. SUFFICES ASSUME IInv, NEW s \in Shards
                 PROVE  /\ pc[s] = "await" => /\ attempts[s] = attempt[s] + 1
                                              /\ attempts[s] <= Len(Ranked(s))
                        /\ \A i, j \in DOMAIN copies[s] :
                             copies[s][i].host = copies[s][j].host => i = j
    BY DEF CallsFollowRanking
  <2>2. JobOK(job) /\ WalkOK(s)
    BY <2>1, JobsAssumption DEF IInv, TypeOK
  <2>3. Len(Ranked(s)) = Cardinality(job.hosts)
    BY <2>2, RankingFacts
  <2>4. QED BY <2>1, <2>2, <2>3 DEF WalkOK, WalkInStep, CopiesAreCalls
<1>2. QED BY <1>1, EngineInvariantHolds, PTL

(* A shard is only given up once every candidate, or as many as the        *)
(* attempt cap allows, has failed.                                         *)
THEOREM NoEarlySurrender == SafeSpec => []GivesUpOnlyWhenSpent
<1>1. IInv => GivesUpOnlyWhenSpent
  BY DEF IInv, WalkOK, VerdictJustified, GivesUpOnlyWhenSpent
<1>2. QED BY <1>1, EngineInvariantHolds, PTL

(* The window is bounded, and full while shards are left.                  *)
THEOREM WindowDiscipline == SafeSpec => []WindowKeptFull
<1>1. IInv => WindowKeptFull
  BY DEF IInv, ShardsAccountedFor, WindowKeptFull
<1>2. QED BY <1>1, EngineInvariantHolds, PTL

(* With no faulty candidate every partial merged is the true one.          *)
LEMMA ReportIsTrue == IInv => NeverSilentlyWrong
<1>1. SUFFICES ASSUME IInv, phase = "ok", job.faulty = {}
               PROVE  report.parts = Expected
  BY DEF NeverSilentlyWrong
<1>2. JobOK(job) /\ collected = Live /\ report.parts = Reduced(collected)
  BY <1>1, JobsAssumption DEF IInv, TypeOK, ReportCovers
<1>3. ASSUME NEW s \in job.shards
      PROVE  (IF s \in collected THEN chosen[s] ELSE EmptyPartial) = Truth[Cid[s]]
  <2>1. s \in Shards
    BY <1>2, ShardFacts
  <2>2. CASE s \in collected
    <3>1. /\ copies[s] \in Seq(Copy) /\ copies[s] # <<>>
          /\ Accepts(Conf, copies[s], chosen[s])
      BY <1>1, <2>1, <2>2
         DEF IInv, TypeOK, ShardsAccountedFor, WalkOK, VerdictJustified
    <3>2. \E i \in DOMAIN copies[s] : chosen[s] = copies[s][i].partial
      BY <3>1 DEF Accepts
    <3>3. \A i \in DOMAIN copies[s] : copies[s][i].partial = Truth[Cid[s]]
      BY <1>1, <2>1 DEF IInv, WalkOK, CopiesAreCalls
    <3>4. QED BY <2>2, <3>2, <3>3
  <2>3. CASE s \notin collected
    BY <1>2, <1>3, <2>3, PruningAssumption DEF Live
  <2>4. QED BY <2>2, <2>3
<1>4. QED BY <1>2, <1>3 DEF Reduced, Expected

(* With no faulty candidate a successful run has merged the true partial   *)
(* of every shard, once.                                                   *)
THEOREM AnswersAreComplete == SafeSpec => []NeverSilentlyWrong
  BY ReportIsTrue, EngineInvariantHolds, PTL

-----------------------------------------------------------------------------
(* Verification against faulty hosts.                                      *)

(* More copies in agreement than there are faulty hosts include an honest  *)
(* one, because no host contributed two of them.                           *)
LEMMA OutvotedLiars ==
  ASSUME NEW cs \in Seq(Copy), NEW A \in SUBSET (DOMAIN cs), NEW F, IsFiniteSet(F),
         \A i, j \in DOMAIN cs : cs[i].host = cs[j].host => i = j,
         Cardinality(F) < Cardinality(A)
  PROVE  \E j \in A : cs[j].host \notin F
<1>1. SUFFICES ASSUME \A j \in A : cs[j].host \in F
               PROVE  FALSE
  OBVIOUS
<1> DEFINE hostOf == [j \in A |-> cs[j].host]
<1>2. hostOf \in [A -> F]
  BY <1>1
<1>3. hostOf \in Injection(A, F)
  BY <1>2 DEF Injection, IsInjective
<1>4. Cardinality(A) <= Cardinality(F)
  BY <1>3, FS_Injection
<1>5. IsFiniteSet(A)
  BY <1>3, FS_Injection
<1>6. Cardinality(A) \in Nat /\ Cardinality(F) \in Nat
  BY <1>5, FS_CardinalityType
<1>7. QED BY <1>4, <1>6

(* What the walk's state says when the verdict rests on a comparison.      *)
LEMMA ComparedCopies ==
  ASSUME IInv, NEW s \in Shards
  PROVE  /\ copies[s] \in Seq(Copy)
         /\ \A i, j \in DOMAIN copies[s] :
              copies[s][i].host = copies[s][j].host => i = j
         /\ \A i \in DOMAIN copies[s] :
              copies[s][i].host \notin job.faulty =>
                copies[s][i].partial = Truth[Cid[s]]
         /\ Conf.quorum \in Nat
         /\ IsFiniteSet(job.faulty) /\ Cardinality(job.faulty) \in Nat
         /\ verdict[s] = "served" => Accepts(Conf, copies[s], chosen[s])
         /\ verdict[s] = "disagreed" => Disagree(Conf, copies[s])
<1>1. JobOK(job) /\ WalkOK(s) /\ copies[s] \in Seq(Copy)
  BY JobsAssumption DEF IInv, TypeOK
<1>2. IsFiniteSet(job.hosts)
  BY <1>1, HostsAssumption, FS_Subset DEF JobOK
<1>3. IsFiniteSet(job.faulty) /\ Cardinality(job.faulty) \in Nat
  BY <1>1, <1>2, FS_Subset, FS_CardinalityType DEF JobOK
<1>4. QED BY <1>1, <1>3, ConfigFacts
             DEF WalkOK, CopiesAreCalls, VerdictJustified

(* As long as the faulty hosts are fewer than the copies compared, and     *)
(* than the quorum if there is one, an accepted partial is the true one.   *)
THEOREM LiarsAreOutvoted == SafeSpec => []VerifiedOutvotesLiars
<1>1. IInv => VerifiedOutvotesLiars
  <2>1. SUFFICES ASSUME IInv, NEW s \in Shards,
                        verdict[s] = "served", Verified(Conf, copies[s]),
                        Cardinality(job.faulty) < Len(copies[s]),
                        Conf.quorum = 0 \/ Cardinality(job.faulty) < Conf.quorum
                 PROVE  chosen[s] = Truth[Cid[s]]
    BY DEF VerifiedOutvotesLiars
  <2> DEFINE cs == copies[s]
  <2>2. PICK i \in DOMAIN cs :
          /\ Cardinality(Agreeing(cs, i)) >= Need(Conf, cs)
          /\ chosen[s] = cs[i].partial
    BY <2>1, ComparedCopies DEF Accepts
  <2>3. Cardinality(job.faulty) < Need(Conf, cs)
    BY <2>1, ComparedCopies DEF Need
  <2>4. Agreeing(cs, i) \in SUBSET (DOMAIN cs)
    BY DEF Agreeing
  <2>5. /\ IsFiniteSet(Agreeing(cs, i))
        /\ Cardinality(Agreeing(cs, i)) \in Nat
    <3>1. DOMAIN cs = 1 .. Len(cs) /\ Len(cs) \in Nat
      BY <2>1, ComparedCopies
    <3>2. IsFiniteSet(DOMAIN cs)
      BY <3>1, FS_Interval
    <3>3. QED BY <2>4, <3>2, FS_Subset, FS_CardinalityType
  <2>6. Need(Conf, cs) \in Nat
    BY <2>1, ComparedCopies DEF Need
  <2>7. Cardinality(job.faulty) < Cardinality(Agreeing(cs, i))
    BY <2>1, <2>2, <2>3, <2>5, <2>6, ComparedCopies
  <2>8. PICK j \in Agreeing(cs, i) : cs[j].host \notin job.faulty
    BY <2>1, <2>4, <2>7, ComparedCopies, OutvotedLiars
  <2>9. cs[j].partial = cs[i].partial /\ j \in DOMAIN cs
    BY <2>8 DEF Agreeing
  <2>10. QED BY <2>1, <2>2, <2>8, <2>9, ComparedCopies
<1>2. QED BY <1>1, EngineInvariantHolds, PTL

(* Honest copies always agree, so "redundant hosts disagreed" means that   *)
(* some copy is faulty and that the honest ones do not make the quorum.    *)
THEOREM NoFalseAlarm == SafeSpec => []HonestQuorumIsServed
<1>1. IInv => HonestQuorumIsServed
  <2>1. SUFFICES ASSUME IInv, NEW s \in Shards, verdict[s] = "disagreed"
                 PROVE  /\ Cardinality(HonestCopies(s)) < Len(copies[s])
                        /\ Conf.quorum # 0 =>
                             Cardinality(HonestCopies(s)) < Conf.quorum
    BY DEF HonestQuorumIsServed
  <2> DEFINE cs == copies[s]
  <2>2. PICK i \in DOMAIN cs :
          IsBest(cs, i) /\ Cardinality(Agreeing(cs, i)) < Need(Conf, cs)
    BY <2>1, ComparedCopies DEF Disagree
  <2>3. IsFiniteSet(DOMAIN cs)
    BY <2>1, ComparedCopies, FS_Interval
  <2>4. \A k \in DOMAIN cs :
          IsFiniteSet(Agreeing(cs, k)) /\ Cardinality(Agreeing(cs, k)) \in Nat
    BY <2>3, FS_Subset, FS_CardinalityType DEF Agreeing
  <2>5. Cardinality(HonestCopies(s)) \in Nat
    BY <2>3, FS_Subset, FS_CardinalityType DEF HonestCopies
  <2>6. /\ Need(Conf, cs) \in Nat /\ Need(Conf, cs) <= Len(cs)
        /\ Conf.quorum # 0 => Need(Conf, cs) <= Conf.quorum
    BY <2>1, ComparedCopies DEF Need
  <2>7. Cardinality(HonestCopies(s)) <= Cardinality(Agreeing(cs, i))
    <3>1. CASE HonestCopies(s) = {}
      <4>1. Cardinality(HonestCopies(s)) = 0
        BY <3>1, FS_EmptySet
      <4>2. QED BY <2>2, <2>4, <4>1
    <3>2. CASE HonestCopies(s) # {}
      <4>1. PICK h \in HonestCopies(s) : TRUE
        BY <3>2
      <4>2. h \in DOMAIN cs /\ HonestCopies(s) \in SUBSET Agreeing(cs, h)
        BY <2>1, <4>1, ComparedCopies DEF HonestCopies, Agreeing
      <4>3. Cardinality(HonestCopies(s)) <= Cardinality(Agreeing(cs, h))
        BY <2>4, <4>2, FS_Subset
      <4>4. Cardinality(Agreeing(cs, h)) <= Cardinality(Agreeing(cs, i))
        BY <2>2, <2>4, <4>2 DEF IsBest
      <4>5. QED BY <2>4, <2>5, <4>2, <4>3, <4>4
    <3>3. QED BY <3>1, <3>2
  <2>8. QED BY <2>1, <2>2, <2>4, <2>5, <2>6, <2>7, ComparedCopies
<1>2. QED BY <1>1, EngineInvariantHolds, PTL

-----------------------------------------------------------------------------
(* Refinement.                                                             *)

(* What a step of a run can do to its outcome.                             *)
LEMMA OutcomeOfAStep ==
  ASSUME [Next]_vars
  PROVE  /\ job' = job
         /\ \/ phase' = phase /\ report' = report
            \/ /\ phase \in {"init", "collect"}
               /\ phase' \in {"collect", "failed"} /\ report' = report
            \/ phase \in {"init", "collect"} /\ phase' = "ok"
<1>1. CASE Start
  BY <1>1 DEF Start, RejectInvalid, EmptyDataset, NoCandidates, OverBudget,
              AllPruned, Dispatch, EndBeforeDispatch
<1>2. CASE \E s \in Shards : \/ HitDeadline(s) \/ CallHost(s) \/ StopWalk(s)
                             \/ CollectServed(s) \/ CollectError(s)
  BY <1>2 DEF HitDeadline, CallHost, StopWalk, CollectServed, CollectError,
              Finished
<1>3. CASE Finish
  BY <1>3 DEF Finish, Drained
<1>4. CASE HostAnswers
  BY <1>4 DEF HostAnswers, HostFails, HostReplies
<1>5. CASE Tick
  BY <1>5 DEF Tick
<1>6. CASE UNCHANGED vars
  BY <1>6 DEF vars
<1>7. QED BY <1>1, <1>2, <1>3, <1>4, <1>5, <1>6 DEF Next, Coordinator

(* A report that is returned has one partial for every shard of the        *)
(* dataset, and none that is wrong.                                        *)
LEMMA ReportIsAcceptable ==
  ASSUME IInv, phase = "ok"
  PROVE  report.parts \in Abstract!Acceptable
<1>1. /\ JobOK(job) /\ report.parts = Reduced(collected)
      /\ collected \subseteq Shards /\ chosen \in [Shards -> Partials]
  BY JobsAssumption DEF IInv, TypeOK, ReportCovers
<1>2. report.parts \in [job.shards -> Partials]
  BY <1>1, ContentAssumption DEF Reduced
<1>3. ASSUME NEW s \in job.shards
      PROVE  report.parts[s] \in Right[s]
  <2>1. CASE job.faulty = {}
    BY <2>1, ReportIsTrue DEF NeverSilentlyWrong, Right
  <2>2. CASE job.faulty # {}
    BY <1>2, <2>2 DEF Right
  <2>3. QED BY <2>1, <2>2
<1>4. /\ DOMAIN Right = job.shards
      /\ \A s \in job.shards : report.parts[s] \in UNION {Right[t] : t \in DOMAIN Right}
  BY <1>3 DEF Right
<1>5. report.parts \in [DOMAIN Right -> UNION {Right[t] : t \in DOMAIN Right}]
  BY <1>2, <1>4
<1>6. QED BY <1>3, <1>4, <1>5 DEF Abstract!Acceptable

(* The engine implements QueryOutcome: it answers at most once, and then   *)
(* with a right partial for every shard of the dataset.                    *)
THEOREM EngineImplementsQueryOutcome == SafeSpec => Abstract!SafeSpec
<1>1. Init => Abstract!Init
  BY DEF Init, Abstract!Init
<1>2. IInv /\ IInv' /\ [Next]_vars => [Abstract!Next]_(Abstract!vars)
  <2>1. SUFFICES ASSUME IInv, IInv', [Next]_vars
                 PROVE  Abstract!Next \/ UNCHANGED Abstract!vars
    OBVIOUS
  <2>2. job' = job /\ Right' = Right
    BY <2>1, OutcomeOfAStep DEF Right, Expected
  <2>3. CASE phase' = phase /\ report' = report
    BY <2>2, <2>3 DEF Abstract!vars
  <2>4. CASE /\ phase \in {"init", "collect"}
             /\ phase' \in {"collect", "failed"} /\ report' = report
    BY <2>2, <2>4 DEF Abstract!Next, Abstract!Fail, Abstract!vars
  <2>5. CASE phase \in {"init", "collect"} /\ phase' = "ok"
    <3>1. (IInv /\ phase = "ok" => report.parts \in Abstract!Acceptable)'
      BY ReportIsAcceptable, PTL
    <3>2. report'.parts \in Abstract!Acceptable
      BY <2>1, <2>2, <2>5, <3>1 DEF Abstract!Acceptable
    <3>3. QED BY <2>2, <2>5, <3>2 DEF Abstract!Next, Abstract!Answer
  <2>6. QED BY <2>1, <2>3, <2>4, <2>5, OutcomeOfAStep
<1>3. QED
  BY <1>1, <1>2, EngineInvariantHolds, PTL DEF SafeSpec, Abstract!SafeSpec

-----------------------------------------------------------------------------
(* Diagnostics.                                                            *)

LEMMA NextReportCounts == IInv /\ ReportCounts /\ [Next]_vars => ReportCounts'
<1> SUFFICES ASSUME IInv, ReportCounts, [Next]_vars PROVE ReportCounts'
  OBVIOUS
<1>1. ASSUME NEW S, report' = Report(S), collected = S, UNCHANGED <<collected, walkVars>>
      PROVE  ReportCounts'
  BY <1>1 DEF Report, ReportCounts, Redistributed, walkVars
<1>2. CASE EmptyDataset \/ AllPruned
  <2>1. phase = "init" /\ report' = Report({}) /\ UNCHANGED <<collected, walkVars>>
    BY <1>2 DEF EmptyDataset, AllPruned, EndBeforeDispatch
  <2>2. collected = {}
    BY <2>1 DEF IInv, ShardsAccountedFor
  <2>3. QED BY <1>1, <2>1, <2>2
<1>3. CASE Finish
  <2>1. CASE phase' = "failed"
    BY <2>1 DEF ReportCounts
  <2>2. CASE report' = Report(collected)
    BY <1>1, <1>3, <2>2 DEF Finish
  <2>3. QED BY <1>3, <2>1, <2>2 DEF Finish
<1>4. CASE phase' \in {"collect", "failed"}
  BY <1>4 DEF ReportCounts
<1>5. CASE UNCHANGED vars
  BY <1>5 DEF ReportCounts, vars, walkVars, Redistributed
<1>6. Next => EmptyDataset \/ AllPruned \/ Finish \/ phase' \in {"collect", "failed"}
  <2>1. Start => EmptyDataset \/ AllPruned \/ phase' \in {"collect", "failed"}
    BY DEF Start, RejectInvalid, NoCandidates, OverBudget, Dispatch, EndBeforeDispatch
  <2>2. \A s \in Shards :
          HitDeadline(s) \/ CallHost(s) \/ StopWalk(s) \/ CollectServed(s) \/ CollectError(s)
            => phase' \in {"collect", "failed"}
    BY DEF HitDeadline, CallHost, StopWalk, CollectServed, CollectError, Finished, AtLoopTop
  <2>3. HostAnswers \/ Tick => phase' = "collect"
    BY DEF HostAnswers, HostFails, HostReplies, Awaiting, Tick
  <2>4. QED BY <2>1, <2>2, <2>3 DEF Next, Coordinator
<1>7. QED BY <1>2, <1>3, <1>4, <1>5, <1>6

(* A finished walk heard a part of the hosts it called, one copy of each.  *)
LEMMA CalledAndHeard ==
  ASSUME IInv, NEW s \in collected
  PROVE  /\ Redistributed(s) <=> HostsCalled(s) # HostsHeard(s)
         /\ attempts[s] \in Nat
         /\ \A m, n \in 1 .. attempts[s] : Ranked(s)[m] = Ranked(s)[n] => m = n
<1>1. /\ JobOK(job) /\ s \in Shards /\ WalkOK(s) /\ pc[s] = "done"
      /\ copies[s] \in Seq(Copy) /\ attempts[s] \in Nat
  BY JobsAssumption DEF IInv, TypeOK, ShardsAccountedFor
<1>2. /\ attempts[s] <= Cardinality(job.hosts) /\ Completed(s) = attempts[s]
      /\ DOMAIN copies[s] = 1 .. Len(copies[s]) /\ Len(copies[s]) \in Nat
  BY <1>1 DEF WalkOK, WalkInStep, Completed
<1>3. \A m, n \in 1 .. attempts[s] : Ranked(s)[m] = Ranked(s)[n] => m = n
  BY <1>1, <1>2, RankingFacts
<1> DEFINE called == [n \in 1 .. attempts[s] |-> Ranked(s)[n]]
           heard == [i \in 1 .. Len(copies[s]) |-> copies[s][i].host]
<1>4. IsFiniteSet(HostsCalled(s)) /\ Cardinality(HostsCalled(s)) = attempts[s]
  <2>1. called \in [1 .. attempts[s] -> HostsCalled(s)]
    BY DEF HostsCalled
  <2>2. \A m, n \in 1 .. attempts[s] : called[m] = called[n] => m = n
    BY <1>3
  <2>3. \A h \in HostsCalled(s) : \E n \in 1 .. attempts[s] : called[n] = h
    BY DEF HostsCalled
  <2> HIDE DEF called
  <2>4. QED BY <1>1, <2>1, <2>2, <2>3, ListedOnce
<1>5. Cardinality(HostsHeard(s)) = Len(copies[s])
  <2>1. heard \in [1 .. Len(copies[s]) -> HostsHeard(s)]
    BY <1>2 DEF HostsHeard
  <2>2. \A i, j \in 1 .. Len(copies[s]) : heard[i] = heard[j] => i = j
    BY <1>1, <1>2 DEF WalkOK, CopiesAreCalls
  <2>3. \A h \in HostsHeard(s) : \E i \in 1 .. Len(copies[s]) : heard[i] = h
    BY <1>2 DEF HostsHeard
  <2> HIDE DEF heard
  <2>4. QED BY <1>2, <2>1, <2>2, <2>3, ListedOnce
<1>6. HostsHeard(s) \in SUBSET HostsCalled(s)
  BY <1>1, <1>2 DEF WalkOK, CopiesAreCalls, HostsHeard, HostsCalled
<1>7. /\ Len(copies[s]) <= attempts[s]
      /\ attempts[s] = Len(copies[s]) => HostsCalled(s) = HostsHeard(s)
  BY <1>4, <1>5, <1>6, FS_Subset
<1>8. HostsCalled(s) = HostsHeard(s) => attempts[s] = Len(copies[s])
  BY <1>4, <1>5
<1>9. attempts[s] > Len(copies[s]) <=> HostsCalled(s) # HostsHeard(s)
  BY <1>1, <1>2, <1>7, <1>8
<1>10. QED BY <1>1, <1>3, <1>9 DEF Redistributed

(* The diagnostics run returns are those of the calls it made: each pair   *)
(* of a shard and a host called for it counts once, and a shard counts as  *)
(* redistributed when some host called for it contributed nothing.         *)
THEOREM DiagnosticsAreTrue == SafeSpec => []DiagnosticsAddUp
<1>1. IInv /\ ReportCounts => DiagnosticsAddUp
  <2>1. SUFFICES ASSUME IInv, ReportCounts, phase = "ok"
                 PROVE  /\ report.redistributed =
                             Cardinality({s \in collected : HostsCalled(s) # HostsHeard(s)})
                        /\ report.totalAttempts =
                             Cardinality(UNION {{s} \X HostsCalled(s) : s \in collected})
    BY DEF DiagnosticsAddUp
  <2>2. {s \in collected : Redistributed(s)} = {s \in collected : HostsCalled(s) # HostsHeard(s)}
    BY <2>1, CalledAndHeard
  <2>3. IsFiniteSet(collected)
    BY <2>1, ShardsAssumption, FS_Subset DEF IInv, TypeOK
  <2>4. \A s \in collected : attempts[s] \in Nat
    BY <2>1, CalledAndHeard
  <2> DEFINE calls == UNION {{s} \X HostsCalled(s) : s \in collected}
             f == [p \in Area(attempts, collected) |-> <<p[1], Ranked(p[1])[p[2]]>>]
  <2>5. SumFunctionOnSet(attempts, collected) = Cardinality(Area(attempts, collected))
        /\ IsFiniteSet(Area(attempts, collected))
    BY <2>3, <2>4, SumIsArea, AreaIsFinite
  <2>6. f \in [Area(attempts, collected) -> calls]
    BY DEF Area, HostsCalled
  <2>7. \A p, q \in Area(attempts, collected) : f[p] = f[q] => p = q
    BY <2>1, CalledAndHeard DEF Area
  <2>8. ASSUME NEW c \in calls PROVE \E p \in Area(attempts, collected) : f[p] = c
    <3>1. PICK s \in collected : c \in {s} \X HostsCalled(s)
      OBVIOUS
    <3>2. PICK n \in 1 .. attempts[s] : c = <<s, Ranked(s)[n]>>
      BY <3>1 DEF HostsCalled
    <3>3. <<s, n>> \in Area(attempts, collected)
      BY <2>4, <3>1, <3>2 DEF Area
    <3>4. QED BY <3>2, <3>3
  <2> HIDE DEF calls, f
  <2>9. Cardinality(calls) = Cardinality(Area(attempts, collected))
    BY <2>5, <2>6, <2>7, <2>8, PairedOff
  <2>10. QED BY <2>1, <2>2, <2>5, <2>9 DEF ReportCounts, calls
<1>2. Init => ReportCounts
  BY DEF Init, ReportCounts
<1>3. QED BY <1>1, <1>2, NextReportCounts, EngineInvariantHolds, PTL DEF SafeSpec
=============================================================================
