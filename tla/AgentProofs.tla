---------------------------- MODULE AgentProofs -----------------------------
(***************************************************************************)
(* Theorems about Agent, for every workload, every number of permits and   *)
(* every behaviour of the network, of other hosts and of the chain.        *)
(***************************************************************************)
EXTENDS AgentInvariant, FiniteSetTheorems, TLAPS

-----------------------------------------------------------------------------
(* Facts about the constants and about the head of the batch.              *)

LEMMA PermitsAreNatural == Permits \in Nat \ {0}
  BY AgentAssumption DEF Permits

(* There are finitely many deliveries.                                     *)
LEMMA FiniteDeliveries ==
  ASSUME NEW S \in SUBSET Deliveries
  PROVE  IsFiniteSet(S) /\ Cardinality(S) \in Nat
<1>1. IsFiniteSet(Messages) /\ IsFiniteSet(1 .. MaxCopies)
  BY AgentAssumption, FS_Interval
<1>2. IsFiniteSet(Deliveries)
  BY <1>1, FS_Product DEF Deliveries
<1>3. QED BY <1>2, FS_Subset, FS_CardinalityType

(* Every message of the chosen workload is well formed.                    *)
LEMMA MessageFacts ==
  ASSUME TypeOK, NEW m \in Messages
  PROVE  IsMessage(work[m])
  BY AgentAssumption DEF TypeOK

(* What is left of the batch once its head has been handled.               *)
LEMMA BatchFacts ==
  ASSUME TypeOK, QueuesOK, batch # <<>>
  PROVE  /\ Current \in Deliveries
         /\ InBatch(Current) /\ ~InInbox(Current) /\ task[Current] = "none"
         /\ Tail(batch) \in Seq(Deliveries)
         /\ \A i \in DOMAIN Tail(batch) :
              i + 1 \in DOMAIN batch /\ Tail(batch)[i] = batch[i + 1]
         /\ \A i \in DOMAIN Tail(batch) : Tail(batch)[i] # Current
         /\ \A i, j \in DOMAIN Tail(batch) : Tail(batch)[i] = Tail(batch)[j] => i = j
<1>1. batch \in Seq(Deliveries) /\ Len(batch) \in Nat \ {0} /\ DOMAIN batch = 1 .. Len(batch)
  BY DEF TypeOK
<1>2. Current \in Deliveries /\ Current = batch[1] /\ 1 \in DOMAIN batch
  BY <1>1 DEF Current
<1>3. InBatch(Current)
  BY <1>2 DEF InBatch
<1>4. ~InInbox(Current) /\ task[Current] = "none"
  BY <1>2, <1>3 DEF QueuesOK, Waiting
<1>5. /\ Tail(batch) \in Seq(Deliveries)
      /\ DOMAIN Tail(batch) = 1 .. (Len(batch) - 1)
      /\ \A i \in 1 .. (Len(batch) - 1) : Tail(batch)[i] = batch[i + 1]
  BY <1>1
<1>6. \A i \in DOMAIN Tail(batch) : i + 1 \in DOMAIN batch /\ Tail(batch)[i] = batch[i + 1]
  BY <1>1, <1>5
<1>7. \A i, j \in DOMAIN batch : batch[i] = batch[j] => i = j
  BY DEF QueuesOK
<1>8. \A i \in DOMAIN Tail(batch) : Tail(batch)[i] # Current
  BY <1>1, <1>2, <1>5, <1>6, <1>7
<1>9. \A i, j \in DOMAIN Tail(batch) : Tail(batch)[i] = Tail(batch)[j] => i = j
  BY <1>1, <1>5, <1>6, <1>7
<1>10. QED BY <1>2, <1>3, <1>4, <1>5, <1>6, <1>8, <1>9

-----------------------------------------------------------------------------
(* Init.                                                                   *)

LEMMA InitIInv == Init => IInv
<1> SUFFICES ASSUME Init PROVE IInv
  OBVIOUS
<1>1. TypeOK
  <2>1. inbox \in Seq(Deliveries) /\ batch \in Seq(Deliveries)
    BY DEF Init
  <2>2. QED BY <2>1, PermitsAreNatural, AgentAssumption DEF Init, TypeOK
<1>2. QueuesOK
  BY DEF Init, QueuesOK, Waiting, InInbox, InBatch
<1>3. PermitsAccounted
  <2>1. {d \in Deliveries : Active(d)} = {}
    BY DEF Init, Active
  <2>2. Cardinality({d \in Deliveries : Active(d)}) = 0
    BY <2>1, FS_EmptySet
  <2>3. permits = Permits /\ Permits \in Nat
    BY PermitsAreNatural DEF Init
  <2>4. QED BY <2>2, <2>3 DEF PermitsAccounted
<1>4. KnowledgeOK
  BY DEF Init, KnowledgeOK, Active
<1>5. TasksOK /\ RepliesOK /\ AnswersOK
  BY DEF Init, TasksOK, TaskOK, HasData, RepliesOK, AnswersOK
<1>6. QED BY <1>1, <1>2, <1>3, <1>4, <1>5 DEF IInv

-----------------------------------------------------------------------------
(* The permits: every step keeps the free ones and the running tasks in    *)
(* balance.                                                                *)

Running == {d \in Deliveries : Active(d)}

LEMMA NextPermits ==
  ASSUME IInv, [Next]_vars
  PROVE  PermitsAccounted' /\ permits' \in 0 .. Permits
<1> USE DEF PermitsAccounted
<1>1. /\ Running \in SUBSET Deliveries /\ IsFiniteSet(Running)
      /\ Cardinality(Running) \in Nat
      /\ permits + Cardinality(Running) = Permits
      /\ permits \in 0 .. Permits /\ Permits \in Nat
  BY FiniteDeliveries, PermitsAreNatural DEF Running, IInv, TypeOK
<1>2. SUFFICES /\ permits' \in Nat
               /\ Cardinality(Running') \in Nat
               /\ permits' + Cardinality(Running') = Permits
  BY <1>1 DEF Running
<1>3. CASE Accept
  <2>1. /\ Current \in Deliveries /\ Current \notin Running
        /\ Running' = Running \cup {Current}
    BY <1>3, BatchFacts DEF Accept, IInv, TypeOK, Running, Active
  <2>2. Cardinality(Running') = Cardinality(Running) + 1
    BY <1>1, <2>1, FS_AddElement
  <2>3. permits > 0 /\ permits' = permits - 1
    BY <1>3 DEF Accept
  <2>4. QED BY <1>1, <2>2, <2>3
<1>4. ASSUME NEW d \in Deliveries, TaskChecks(d) \/ TaskFetches(d)
      PROVE  Running' = Running /\ permits' = permits
  BY <1>4 DEF TaskChecks, TaskFetches, Running, Active, IInv, TypeOK
<1>5. ASSUME NEW d \in Deliveries, TaskReplies(d)
      PROVE  /\ permits' \in Nat
             /\ Cardinality(Running') \in Nat
             /\ permits' + Cardinality(Running') = Permits
  <2>1. /\ d \in Running /\ Running' = Running \ {d} /\ permits' = permits + 1
    BY <1>5 DEF TaskReplies, Running, Active, IInv, TypeOK
  <2>2. Cardinality(Running') = Cardinality(Running) - 1
    BY <1>1, <2>1, FS_RemoveElement
  <2>3. Cardinality(Running') \in Nat
    BY <2>1, <1>1, FS_RemoveElement, FS_CardinalityType
  <2>4. QED BY <1>1, <2>1, <2>2, <2>3
<1>6. CASE Crash
  <2>1. Running' = {} /\ permits' = Permits
    BY <1>6 DEF Crash, Running, Active, InBatch
  <2>2. QED BY <1>1, <2>1, FS_EmptySet
<1>7. CASE UNCHANGED <<task, permits>>
  <2>1. Running' = Running /\ permits' = permits
    BY <1>7 DEF Running, Active
  <2>2. QED BY <1>1, <2>1
<1>8. QED
  <2>1. CASE \E m \in Messages : \/ Ask(m) \/ Receive(m) \/ RequestFails(m)
                                 \/ LocalMap(m) \/ Deliver(m) \/ StrangerReplies(m)
    BY <1>7, <2>1 DEF Ask, Receive, RequestFails, LocalMap, End, Deliver,
                      StrangerReplies, taskVars
  <2>2. CASE RefreshRead \/ RefreshStore \/ RefreshFails \/ RefreshNotDue
             \/ Poll \/ Drop \/ RefuseOversized \/ Sleep
    BY <1>7, <2>2 DEF RefreshRead, RefreshStore, RefreshFails, RefreshNotDue, Poll,
                      Drop, RefuseOversized, Sleep, taskVars
  <2>3. CASE (\E k \in Keys : Revoke(k)) \/ (\E g \in Expiring : Expire(g))
             \/ IntervalPasses \/ UNCHANGED vars
    BY <1>7, <2>3 DEF Revoke, Expire, IntervalPasses, vars, taskVars
  <2>4. CASE \E d \in Deliveries : Task(d)
    BY <1>1, <1>4, <1>5, <2>4 DEF Task
  <2>5. QED BY <1>3, <1>6, <2>1, <2>2, <2>3, <2>4 DEF Next, Loop

-----------------------------------------------------------------------------
(* The queues: a delivery waits in one place, once, and has no task yet.   *)

(* A step that leaves the queues alone, and gives no delivery a task that  *)
(* had none.                                                               *)
LEMMA QueuesStill ==
  ASSUME QueuesOK, UNCHANGED <<inbox, batch, copies>>,
         pc' \in {"refresh", "store", "poll"} => batch = <<>>,
         \A d \in Deliveries : task'[d] = "none" <=> task[d] = "none"
  PROVE  QueuesOK'
  BY DEF QueuesOK, Waiting, InInbox, InBatch

(* A step that takes the head off the batch, and gives a task to no other  *)
(* delivery.                                                               *)
LEMMA HeadHandled ==
  ASSUME TypeOK, QueuesOK, pc = "handle", batch # <<>>, batch' = Tail(batch),
         UNCHANGED <<inbox, copies, pc>>,
         \A d \in Deliveries \ {Current} : task'[d] = task[d]
  PROVE  QueuesOK'
<1>1. \A d \in Deliveries : InBatch(d)' => InBatch(d) /\ d # Current
  BY BatchFacts DEF InBatch
<1>2. \A d \in Deliveries : InInbox(d)' = InInbox(d)
  BY DEF InInbox
<1>3. \A d \in Deliveries : Waiting(d)' => Waiting(d) /\ d # Current
  BY <1>1, <1>2, BatchFacts DEF Waiting
<1>4. \A i, j \in DOMAIN batch' : batch'[i] = batch'[j] => i = j
  BY BatchFacts
<1>5. \A d \in Deliveries : Waiting(d)' \/ task'[d] # "none" => d[2] <= copies'[d[1]]
  <2>1. \A d \in Deliveries : Waiting(d)' \/ task'[d] # "none" => Waiting(d) \/ task[d] # "none"
    BY <1>3, BatchFacts DEF Waiting
  <2>2. QED BY <2>1 DEF QueuesOK
<1>6. QED BY <1>1, <1>2, <1>3, <1>4, <1>5 DEF QueuesOK

LEMMA NextQueues ==
  ASSUME IInv, [Next]_vars
  PROVE  QueuesOK'
<1>1. TypeOK /\ QueuesOK
  BY DEF IInv
<1>2. ASSUME NEW m \in Messages, Deliver(m)
      PROVE  QueuesOK'
  <2> DEFINE new == <<m, copies[m] + 1>>
  <2>1. /\ inbox' = Append(inbox, new) /\ copies' = [copies EXCEPT ![m] = @ + 1]
        /\ UNCHANGED <<batch, task, pc>> /\ copies[m] < MaxCopies
    BY <1>2 DEF Deliver, loopVars, taskVars
  <2>2. /\ copies \in [Messages -> 0 .. MaxCopies] /\ MaxCopies \in Nat
        /\ inbox \in Seq(Deliveries) /\ batch \in Seq(Deliveries)
    BY <1>1, AgentAssumption DEF TypeOK
  <2>3. new \in Deliveries /\ new[1] = m /\ new[2] = copies[m] + 1 /\ copies'[m] = copies[m] + 1
    BY <2>1, <2>2 DEF Deliveries
  <2>4. ~Waiting(new) /\ task[new] = "none"
    BY <1>1, <2>2, <2>3 DEF QueuesOK
  <2>5. \A d \in Deliveries : InBatch(d)' = InBatch(d)
    BY <2>1 DEF InBatch
  <2> HIDE DEF new
  <2>6. /\ DOMAIN inbox' = 1 .. (Len(inbox) + 1) /\ DOMAIN inbox = 1 .. Len(inbox)
        /\ Len(inbox) \in Nat /\ inbox'[Len(inbox) + 1] = new
        /\ \A i \in 1 .. Len(inbox) : inbox'[i] = inbox[i]
    BY <2>1, <2>2, <2>3
  <2>7. \A d \in Deliveries : InInbox(d)' <=> InInbox(d) \/ d = new
    BY <2>6 DEF InInbox
  <2>8. \A i \in 1 .. Len(inbox) : inbox[i] # new
    BY <2>4, <2>6 DEF Waiting, InInbox
  <2>9. \A i, j \in DOMAIN inbox' : inbox'[i] = inbox'[j] => i = j
    BY <1>1, <2>6, <2>8 DEF QueuesOK
  <2>10. \A d \in Deliveries : d[1] \in Messages /\ d[2] \in Nat
    BY <2>2 DEF Deliveries
  <2>11. \A d \in Deliveries :
           Waiting(d)' \/ task'[d] # "none" => d[2] <= copies'[d[1]]
    <3>1. \A n \in Messages : copies[n] \in Nat /\ copies[n] <= copies'[n]
      BY <2>1, <2>2
    <3>2. ASSUME NEW d \in Deliveries, Waiting(d) \/ task[d] # "none"
          PROVE  d[2] <= copies'[d[1]]
      <4>1. d[2] <= copies[d[1]]
        BY <1>1, <3>2 DEF QueuesOK
      <4>2. copies'[d[1]] \in Nat
        BY <2>1, <2>2, <2>10
      <4>3. QED BY <2>10, <3>1, <4>1, <4>2
    <3>3. new[2] <= copies'[new[1]]
      BY <2>2, <2>3
    <3>4. QED BY <2>1, <2>5, <2>7, <3>2, <3>3 DEF Waiting
  <2>12. QED
    BY <1>1, <2>1, <2>4, <2>5, <2>7, <2>9, <2>11 DEF QueuesOK, Waiting
<1>3. CASE Poll
  <2>1. CASE batch' = inbox /\ inbox' = <<>>
    <3>1. /\ UNCHANGED <<task, copies>> /\ pc' = "handle" /\ batch = <<>>
      BY <1>1, <1>3 DEF Poll, QueuesOK, clientVars, taskVars
    <3>2. \A d \in Deliveries : ~InBatch(d) /\ ~InInbox(d)' /\ InBatch(d)' = InInbox(d)
      BY <2>1, <3>1 DEF InBatch, InInbox
    <3>3. QED BY <1>1, <2>1, <3>1, <3>2 DEF QueuesOK, Waiting
  <2>2. CASE UNCHANGED <<batch, inbox>>
    BY <1>1, <1>3, <2>2, QueuesStill DEF Poll, clientVars, taskVars
  <2>3. QED BY <1>3, <2>1, <2>2 DEF Poll
<1>4. CASE Drop \/ RefuseOversized
  BY <1>1, <1>4, HeadHandled DEF Drop, RefuseOversized, clientVars, taskVars
<1>5. CASE Accept
  <2>1. \A d \in Deliveries \ {Current} : task'[d] = task[d]
    BY <1>1, <1>5, BatchFacts DEF Accept, TypeOK
  <2>2. QED BY <1>1, <1>5, <2>1, HeadHandled DEF Accept, clientVars
<1>6. CASE RefreshRead \/ RefreshStore \/ RefreshFails \/ RefreshNotDue \/ Sleep
  <2>1. /\ UNCHANGED <<inbox, batch, copies, task>> /\ batch = <<>>
    BY <1>1, <1>6 DEF RefreshRead, RefreshStore, RefreshFails, RefreshNotDue, Sleep,
                      clientVars, taskVars, QueuesOK
  <2>2. QED BY <1>1, <2>1, QueuesStill
<1>7. ASSUME NEW d \in Deliveries, Task(d)
      PROVE  QueuesOK'
  <2>1. /\ UNCHANGED <<inbox, batch, copies, pc>> /\ task[d] # "none"
        /\ task' \in {[task EXCEPT ![d] = s] : s \in {"fetching", "replying", "done"}}
    BY <1>7 DEF Task, TaskChecks, TaskFetches, TaskReplies, clientVars, loopVars
  <2>2. \A e \in Deliveries : task'[e] = "none" <=> task[e] = "none"
    BY <1>1, <2>1 DEF TypeOK
  <2>3. QED BY <1>1, <2>1, <2>2, QueuesStill DEF QueuesOK
<1>8. CASE Crash
  <2>1. /\ UNCHANGED <<inbox, copies>> /\ batch' = <<>>
        /\ task' = [d \in Deliveries |-> IF Active(d) \/ InBatch(d) THEN "lost" ELSE task[d]]
    BY <1>8 DEF Crash, clientVars
  <2>2. \A d \in Deliveries : ~InBatch(d)' /\ InInbox(d)' = InInbox(d)
    BY <2>1 DEF InBatch, InInbox
  <2>3. \A d \in Deliveries : InInbox(d) => task'[d] = "none"
    BY <1>1, <2>1 DEF QueuesOK, Waiting, Active
  <2>4. \A d \in Deliveries :
          InInbox(d) \/ task'[d] # "none" => Waiting(d) \/ task[d] # "none"
    BY <2>1 DEF Waiting, Active
  <2>5. QED BY <1>1, <2>1, <2>2, <2>3, <2>4 DEF QueuesOK, Waiting
<1>9. CASE UNCHANGED <<inbox, batch, copies, task, pc>>
  BY <1>1, <1>9, QueuesStill DEF QueuesOK
<1>10. QED
  <2>1. CASE \E m \in Messages : \/ Ask(m) \/ Receive(m) \/ RequestFails(m)
                                 \/ LocalMap(m) \/ StrangerReplies(m)
    BY <1>9, <2>1 DEF Ask, Receive, RequestFails, LocalMap, End, StrangerReplies,
                      clientVars, loopVars, taskVars
  <2>2. CASE (\E k \in Keys : Revoke(k)) \/ (\E g \in Expiring : Expire(g))
             \/ IntervalPasses \/ UNCHANGED vars
    BY <1>9, <2>2 DEF Revoke, Expire, IntervalPasses, vars, clientVars, loopVars, taskVars
  <2>3. QED BY <1>2, <1>3, <1>4, <1>5, <1>6, <1>7, <1>8, <2>1, <2>2 DEF Next, Loop

-----------------------------------------------------------------------------
(* What the agent knows.                                                   *)

(* What the agent knows grows in every step but a crash.                   *)
LEMMA KnowledgeGrows ==
  ASSUME IInv, [Next]_vars, crashes' = crashes
  PROVE  known \subseteq known'
<1>1. crashes \in Nat
  BY AgentAssumption DEF IInv, TypeOK
<1>2. CASE RefreshStore
  BY <1>2 DEF RefreshStore, IInv, KnowledgeOK
<1>3. CASE UNCHANGED known
  BY <1>3
<1>4. ~Crash
  BY <1>1 DEF Crash
<1>5. QED
  <2>1. CASE \E m \in Messages : \/ Ask(m) \/ Receive(m) \/ RequestFails(m)
                                 \/ LocalMap(m) \/ Deliver(m) \/ StrangerReplies(m)
    BY <1>3, <2>1 DEF Ask, Receive, RequestFails, LocalMap, End, Deliver,
                      StrangerReplies, loopVars
  <2>2. CASE RefreshRead \/ RefreshFails \/ RefreshNotDue \/ Poll \/ Drop
             \/ RefuseOversized \/ Accept \/ Sleep
    BY <1>3, <2>2 DEF RefreshRead, RefreshFails, RefreshNotDue, Poll, Drop,
                      RefuseOversized, Accept, Sleep
  <2>3. CASE \E d \in Deliveries : Task(d)
    BY <1>3, <2>3 DEF Task, TaskChecks, TaskFetches, TaskReplies, loopVars
  <2>4. CASE (\E k \in Keys : Revoke(k)) \/ (\E g \in Expiring : Expire(g))
             \/ IntervalPasses \/ UNCHANGED vars
    BY <1>3, <2>4 DEF Revoke, Expire, IntervalPasses, vars, loopVars
  <2>5. QED BY <1>2, <1>4, <2>1, <2>2, <2>3, <2>4 DEF Next, Loop

(* A step that starts no task and grows what is known and what is revoked. *)
LEMMA KnowledgeStill ==
  ASSUME KnowledgeOK, known \subseteq known', known' \subseteq chain',
         pc' = "store" => known' \subseteq fetched' /\ fetched' \subseteq chain',
         \A d \in Deliveries : Active(d)' => Active(d) /\ knownAt'[d] = knownAt[d]
  PROVE  KnowledgeOK'
  BY DEF KnowledgeOK

LEMMA NextKnowledge ==
  ASSUME IInv, [Next]_vars
  PROVE  KnowledgeOK'
<1>1. TypeOK /\ QueuesOK /\ KnowledgeOK
  BY DEF IInv
<1>2. CASE RefreshRead \/ RefreshStore \/ RefreshFails \/ RefreshNotDue
  <2>1. /\ UNCHANGED <<task, knownAt, chain>>
        /\ \/ known' = known /\ fetched' = chain
           \/ known' = fetched /\ pc' = "poll" /\ pc = "store"
           \/ known' = known /\ pc' = "poll"
    BY <1>2 DEF RefreshRead, RefreshStore, RefreshFails, RefreshNotDue, taskVars, worldVars
  <2>2. QED BY <1>1, <2>1, KnowledgeStill DEF KnowledgeOK, Active
<1>3. CASE Poll \/ Drop \/ RefuseOversized \/ Sleep
  <2>1. UNCHANGED <<task, knownAt, chain, known>> /\ pc' # "store"
    BY <1>3 DEF Poll, Drop, RefuseOversized, Sleep, taskVars, worldVars
  <2>2. QED BY <1>1, <2>1, KnowledgeStill DEF KnowledgeOK, Active
<1>4. CASE Accept
  <2>1. /\ UNCHANGED <<chain, known, pc>> /\ pc = "handle"
        /\ task' = [task EXCEPT ![Current] = "spawned"]
        /\ knownAt' = [knownAt EXCEPT ![Current] = known]
    BY <1>4 DEF Accept, worldVars
  <2>2. knownAt'[Current] = known
    BY <1>1, <1>4, <2>1, BatchFacts DEF Accept, TypeOK
  <2>3. \A d \in Deliveries \ {Current} : task'[d] = task[d] /\ knownAt'[d] = knownAt[d]
    BY <1>1, <2>1 DEF TypeOK
  <2>4. QED BY <1>1, <2>1, <2>2, <2>3 DEF KnowledgeOK, Active
<1>5. ASSUME NEW d \in Deliveries, Task(d)
      PROVE  KnowledgeOK'
  <2>1. /\ UNCHANGED <<pc, fetched, known, chain, knownAt>> /\ Active(d)
        /\ task' \in {[task EXCEPT ![d] = s] : s \in {"fetching", "replying", "done"}}
    BY <1>5 DEF Task, TaskChecks, TaskFetches, TaskReplies, Active, loopVars, worldVars
  <2>2. \A e \in Deliveries : Active(e)' => Active(e)
    BY <1>1, <2>1 DEF Active, TypeOK
  <2>3. QED BY <1>1, <2>1, <2>2, KnowledgeStill DEF KnowledgeOK
<1>6. CASE \E k \in Keys : Revoke(k)
  <2>1. chain \subseteq chain' /\ UNCHANGED <<loopVars, taskVars>>
    BY <1>6 DEF Revoke
  <2>2. QED BY <1>1, <2>1, KnowledgeStill DEF KnowledgeOK, Active, loopVars, taskVars
<1>7. CASE Crash
  <2>1. /\ known' = {} /\ pc' = "refresh"
        /\ task' = [d \in Deliveries |-> IF Active(d) \/ InBatch(d) THEN "lost" ELSE task[d]]
    BY <1>7 DEF Crash
  <2>2. \A d \in Deliveries : ~Active(d)'
    BY <2>1 DEF Active
  <2>3. QED BY <2>1, <2>2 DEF KnowledgeOK
<1>8. CASE UNCHANGED <<pc, fetched, known, chain, taskVars>>
  BY <1>1, <1>8, KnowledgeStill DEF KnowledgeOK, Active, taskVars
<1>9. QED
  <2>1. CASE \E m \in Messages : \/ Ask(m) \/ Receive(m) \/ RequestFails(m)
                                 \/ LocalMap(m) \/ Deliver(m) \/ StrangerReplies(m)
    BY <1>8, <2>1 DEF Ask, Receive, RequestFails, LocalMap, End, Deliver,
                      StrangerReplies, loopVars, worldVars
  <2>2. CASE (\E g \in Expiring : Expire(g)) \/ IntervalPasses \/ UNCHANGED vars
    BY <1>8, <2>2 DEF Expire, IntervalPasses, vars, loopVars, worldVars
  <2>3. QED BY <1>2, <1>3, <1>4, <1>5, <1>6, <1>7, <2>1, <2>2 DEF Next, Loop

-----------------------------------------------------------------------------
(* What the tasks and the replies hold.                                    *)

(* A request that passes the check under a grant is covered by it, and the *)
(* grant is not revoked as far as the task's copy of the set says.         *)
LEMMA CheckGrants ==
  ASSUME TypeOK, NEW m \in Messages, NEW revoked, Permitted(m, revoked), RequireGrant
  PROVE  Granted(m) /\ RevocationKey(work[m].grant) \notin revoked
<1> DEFINE g == work[m].grant
           who == Head(work[m].from)
<1>1. /\ work[m].from # <<>> /\ g # NoGrant
      /\ Verify(Roots, who, work[m].dataset, g, expired, revoked)
  BY DEF Permitted
<1>2. /\ work[m].from = <<who>>
      /\ (g \notin {NoGrant, Garbled} /\ g.pathPrefix # <<>>) => g.pathPrefix = <<Head(g.pathPrefix)>>
  BY <1>1, MessageFacts DEF IsMessage, IsOption
<1>3. /\ g # Garbled /\ g.issuer \in Roots /\ g.audience = who
      /\ RevocationKey(g) \notin revoked
      /\ LeafScope(g) \in {AllDatasets, work[m].dataset}
  BY <1>1 DEF Verify, Authorize, ScopeAllows
<1>4. g.pathPrefix \in {<<>>, <<AllDatasets>>, <<work[m].dataset>>}
  BY <1>1, <1>2, <1>3 DEF LeafScope, OrElse
<1>5. QED BY <1>1, <1>2, <1>3, <1>4 DEF Granted

(* What a task fetches is nothing, or the result of its request.           *)
LEMMA FetchGivesResult ==
  ASSUME NEW m
  PROVE  MapFetched(work[m].query, work[m].shard) \in {Failed, Result(m)}
  BY DEF MapFetched, Result

(* A grant, a result and a task are judged as before when nothing they    *)
(* depend on changed.                                                      *)
LEMMA JudgedAsBefore ==
  ASSUME UNCHANGED work, NEW m
  PROVE  Granted(m)' = Granted(m) /\ Result(m)' = Result(m)
  BY DEF Granted, Result, Form

LEMMA UntouchedTask ==
  ASSUME NEW d \in Deliveries, TaskOK(d), UNCHANGED work,
         task'[d] = task[d], body'[d] = body[d], knownAt'[d] = knownAt[d]
  PROVE  TaskOK(d)'
<1>1. HasData(d)' = HasData(d)
  BY DEF HasData
<1>2. QED BY <1>1, JudgedAsBefore DEF TaskOK

LEMMA NextTasks ==
  ASSUME IInv, [Next]_vars
  PROVE  TasksOK'
<1> SUFFICES ASSUME NEW e \in Deliveries PROVE TaskOK(e)'
  BY DEF TasksOK
<1>1. /\ TypeOK /\ KnowledgeOK /\ TaskOK(e)
      /\ task \in [Deliveries -> {"none", "spawned", "fetching", "replying", "done", "lost"}]
      /\ body \in [Deliveries -> Bodies \cup {NoAnswer}]
      /\ knownAt \in [Deliveries -> SUBSET Keys]
      /\ e[1] \in Messages
  BY DEF IInv, TypeOK, TasksOK, Deliveries
<1>2. CASE Accept
  <2>1. /\ UNCHANGED <<work, body>>
        /\ task' = [task EXCEPT ![Current] = "spawned"]
        /\ knownAt' = [knownAt EXCEPT ![Current] = known]
    BY <1>2 DEF Accept, clientVars
  <2>2. CASE e = Current
    <3>1. task'[e] = "spawned"
      BY <1>1, <2>1, <2>2
    <3>2. QED BY <3>1 DEF TaskOK, HasData
  <2>3. CASE e # Current
    BY <1>1, <2>1, <2>3, UntouchedTask
  <2>4. QED BY <2>2, <2>3
<1>3. ASSUME NEW d \in Deliveries, Task(d)
      PROVE  TaskOK(e)'
  <2>1. CASE e # d
    <3>1. /\ UNCHANGED <<work, knownAt>>
          /\ task'[e] = task[e] /\ body'[e] = body[e]
      BY <1>1, <1>3, <2>1 DEF Task, TaskChecks, TaskFetches, TaskReplies, clientVars
    <3>2. QED BY <1>1, <3>1, UntouchedTask
  <2>2. CASE e = d /\ TaskChecks(d)
    <3>1. /\ UNCHANGED <<work, knownAt>> /\ knownAt[e] \subseteq known
      BY <1>1, <2>2 DEF KnowledgeOK, Active, TaskChecks, clientVars
    <3>2. CASE task' = [task EXCEPT ![d] = "fetching"] /\ Permitted(d[1], known)
      <4>1. task'[e] = "fetching"
        BY <1>1, <2>2, <3>2
      <4>2. RequireGrant =>
              Granted(e[1]) /\ RevocationKey(work[e[1]].grant) \notin knownAt[e]
        BY <1>1, <2>2, <3>1, <3>2, CheckGrants
      <4>3. QED BY <3>1, <4>1, <4>2, JudgedAsBefore DEF TaskOK
    <3>3. CASE task' = [task EXCEPT ![d] = "replying"] /\ body' = [body EXCEPT ![d] = Failed]
      <4>1. task'[e] = "replying" /\ body'[e] = Failed
        BY <1>1, <2>2, <3>3
      <4>2. QED BY <4>1 DEF TaskOK, HasData
    <3>4. QED BY <2>2, <3>2, <3>3 DEF TaskChecks
  <2>3. CASE e = d /\ TaskFetches(d)
    <3>1. /\ UNCHANGED <<work, knownAt>> /\ HasData(e) /\ task'[e] = "replying"
      BY <1>1, <2>3 DEF TaskFetches, HasData, clientVars
    <3>2. body'[e] \in {Failed, Result(e[1])}
      BY <1>1, <2>3, FetchGivesResult DEF TaskFetches
    <3>3. QED BY <1>1, <3>1, <3>2, JudgedAsBefore DEF TaskOK
  <2>4. CASE e = d /\ TaskReplies(d)
    <3>1. /\ UNCHANGED <<work, knownAt, body>>
          /\ task[e] = "replying" /\ task'[e] = "done"
      BY <1>1, <2>4 DEF TaskReplies, clientVars
    <3>2. HasData(e)' => HasData(e)
      BY <3>1 DEF HasData
    <3>3. QED BY <1>1, <3>1, <3>2, JudgedAsBefore DEF TaskOK
  <2>5. QED BY <1>3, <2>1, <2>2, <2>3, <2>4 DEF Task
<1>4. CASE Crash
  <2>1. /\ UNCHANGED <<work, body, knownAt>> /\ task'[e] \in {task[e], "lost"}
    BY <1>4 DEF Crash, clientVars
  <2>2. CASE task'[e] = "lost"
    BY <2>2 DEF TaskOK, HasData
  <2>3. CASE task'[e] = task[e]
    BY <1>1, <2>1, <2>3, UntouchedTask
  <2>4. QED BY <2>1, <2>2, <2>3
<1>5. CASE UNCHANGED <<work, taskVars>>
  BY <1>1, <1>5, UntouchedTask DEF taskVars
<1>6. QED
  <2>1. CASE \E m \in Messages : \/ Ask(m) \/ Receive(m) \/ RequestFails(m)
                                 \/ LocalMap(m) \/ Deliver(m) \/ StrangerReplies(m)
    BY <1>5, <2>1 DEF Ask, Receive, RequestFails, LocalMap, End, Deliver,
                      StrangerReplies, clientVars
  <2>2. CASE RefreshRead \/ RefreshStore \/ RefreshFails \/ RefreshNotDue
             \/ Poll \/ Drop \/ RefuseOversized \/ Sleep
    BY <1>5, <2>2 DEF RefreshRead, RefreshStore, RefreshFails, RefreshNotDue, Poll,
                      Drop, RefuseOversized, Sleep, clientVars
  <2>3. CASE (\E k \in Keys : Revoke(k)) \/ (\E g \in Expiring : Expire(g))
             \/ IntervalPasses \/ UNCHANGED vars
    BY <1>5, <2>3 DEF Revoke, Expire, IntervalPasses, vars, clientVars
  <2>4. QED BY <1>2, <1>3, <1>4, <2>1, <2>2, <2>3 DEF Next, Loop

(* The workload never changes, and with it what depends on it alone.       *)
LEMMA WorkIsFixed ==
  ASSUME [Next]_vars
  PROVE  work' = work /\ Keys' = Keys /\ Expiring' = Expiring
<1>1. work' = work
  BY DEF Next, Ask, Receive, RequestFails, LocalMap, End, Deliver, StrangerReplies,
         Loop, RefreshRead, RefreshStore, RefreshFails, RefreshNotDue, Poll, Drop,
         RefuseOversized, Accept, Sleep, Task, TaskChecks, TaskFetches, TaskReplies,
         Revoke, Expire, IntervalPasses, Crash, clientVars, vars
<1>2. QED BY <1>1 DEF Keys, Grants, Expiring

(* A reply of a host that follows the protocol holds no data, or the       *)
(* result of its request, and is an error unless a grant covers it.        *)
LEMMA NextReplies ==
  ASSUME IInv, [Next]_vars
  PROVE  RepliesOK'
<1> DEFINE Fine(r) ==
      work[r.token].host # "stranger" =>
        /\ r.body.form \in NoData \/ r.body = Result(r.token)
        /\ r.body # Failed /\ RequireGrant => Granted(r.token)
<1>1. /\ TypeOK /\ UNCHANGED work /\ \A r \in replies : Fine(r)
      /\ \A d \in Deliveries : TaskOK(d) /\ d[1] \in Messages
  BY WorkIsFixed DEF IInv, RepliesOK, TasksOK, Deliveries
<1>2. SUFFICES ASSUME NEW r \in replies', r \notin replies PROVE Fine(r)
  BY <1>1, JudgedAsBefore DEF RepliesOK
<1>3. ASSUME NEW m \in Messages, StrangerReplies(m)
      PROVE  Fine(r)
  BY <1>2, <1>3 DEF StrangerReplies
<1>4. CASE RefuseOversized
  BY <1>2, <1>4 DEF RefuseOversized, Failed, NoData
<1>5. ASSUME NEW d \in Deliveries, TaskReplies(d)
      PROVE  Fine(r)
  <2>1. r.token = d[1] /\ r.body = Encode(body[d])
    BY <1>2, <1>5 DEF TaskReplies
  <2>2. task[d] = "replying" /\ body[d] \in {Failed, Result(d[1])}
    BY <1>1, <1>5 DEF TaskReplies, TaskOK
  <2>3. CASE body[d] = Failed
    BY <2>1, <2>3 DEF Encode, Failed, NoData
  <2>4. CASE body[d] = Result(d[1]) /\ body[d] # Failed
    <3>1. r.body.form \in NoData \/ r.body = Result(d[1])
      BY <2>1, <2>4 DEF Encode, NoData
    <3>2. RequireGrant => Granted(d[1])
      BY <1>1, <2>2, <2>4 DEF TaskOK, HasData
    <3>3. QED BY <2>1, <3>1, <3>2
  <2>5. QED BY <2>2, <2>3, <2>4
<1>6. CASE UNCHANGED replies
  BY <1>2, <1>6
<1> HIDE DEF Fine
<1>7. QED
  <2>1. CASE \E m \in Messages : \/ Ask(m) \/ Receive(m) \/ RequestFails(m)
                                 \/ LocalMap(m) \/ Deliver(m)
    BY <1>6, <2>1 DEF Ask, Receive, RequestFails, LocalMap, End, Deliver
  <2>2. CASE RefreshRead \/ RefreshStore \/ RefreshFails \/ RefreshNotDue
             \/ Poll \/ Drop \/ Accept \/ Sleep
    BY <1>6, <2>2 DEF RefreshRead, RefreshStore, RefreshFails, RefreshNotDue, Poll,
                      Drop, Accept, Sleep
  <2>3. CASE \E d \in Deliveries : TaskChecks(d) \/ TaskFetches(d)
    BY <1>6, <2>3 DEF TaskChecks, TaskFetches
  <2>4. CASE (\E k \in Keys : Revoke(k)) \/ (\E g \in Expiring : Expire(g))
             \/ IntervalPasses \/ Crash \/ UNCHANGED vars
    BY <1>6, <2>4 DEF Revoke, Expire, IntervalPasses, Crash, vars
  <2>5. QED BY <1>3, <1>4, <1>5, <2>1, <2>2, <2>3, <2>4 DEF Next, Loop, Task

-----------------------------------------------------------------------------
(* The answers.                                                            *)

(* A caller accepts a reply only in the form its query asks for.           *)
LEMMA AcceptedFacts ==
  ASSUME NEW q, NEW r
  PROVE  /\ Accepted(q, r) \in Errors \cup {"ok"}
         /\ Accepted(q, r) = "ok" => r.form = Form(q) /\ r.form \notin NoData
         /\ Form(q) \in {"Ok", "Rows"}
  BY DEF Accepted, Form, Errors, NoData

(* A call that was not made yet is made or refused, one that was made      *)
(* ends, and no other call changes.                                        *)
CallMoves(m) ==
  /\ \/ call[m] = "idle" /\ call'[m] \in {"waiting", "HostError"}
     \/ call[m] = "idle" /\ call'[m] = "sent" /\ m \notin Calls
     \/ call[m] = "waiting" /\ call'[m] \in Errors \cup {"ok"}
  /\ call' \in [Messages -> {"idle", "sent", "waiting", "ok"} \cup Errors]
  /\ call'[m] # "ok" => answer'[m] \in {answer[m], NoAnswer}
  /\ \A n \in Messages \ {m} : call'[n] = call[n] /\ answer'[n] = answer[n]
  /\ UNCHANGED <<work, copies, inbox, replies, loopVars, taskVars, worldVars>>

LEMMA CallStep ==
  ASSUME TypeOK, NEW m \in Messages,
         Ask(m) \/ Receive(m) \/ RequestFails(m) \/ LocalMap(m)
  PROVE  CallMoves(m)
<1>1. /\ call \in [Messages -> {"idle", "sent", "waiting", "ok"} \cup Errors]
      /\ answer \in [Messages -> Results \cup {NoAnswer}]
  BY DEF TypeOK
<1>2. CASE Ask(m)
  BY <1>1, <1>2 DEF Ask, Errors, CallMoves
<1>3. ASSUME NEW verdict \in Errors \cup {"ok"}, NEW r, End(m, verdict, r),
             call[m] = "waiting"
      PROVE  CallMoves(m)
  BY <1>1, <1>3 DEF End, CallMoves
<1>4. CASE Receive(m)
  BY <1>3, <1>4, AcceptedFacts DEF Receive
<1>5. CASE RequestFails(m)
  <2>1. \A words : ClassifyRequest(words) \in Errors
    BY DEF ClassifyRequest, Errors
  <2>2. QED BY <1>3, <1>5, <2>1 DEF RequestFails
<1>6. CASE LocalMap(m)
  <2>1. \A words : ClassifyFetch(words) \in Errors
    BY DEF ClassifyFetch, Errors
  <2>2. QED BY <1>3, <1>6, <2>1 DEF LocalMap, Errors
<1>7. QED BY <1>2, <1>4, <1>5, <1>6

(* A call that ends well took a reply to it in the right form, or mapped   *)
(* the shard itself; its answer is a result.                               *)
LEMMA EndsWell ==
  ASSUME IInv, NEW m \in Messages, call[m] # "ok", call'[m] = "ok",
         Ask(m) \/ Receive(m) \/ RequestFails(m) \/ LocalMap(m)
  PROVE  /\ call[m] = "waiting"
         /\ answer'[m] \in Results /\ answer'[m].form = Form(work[m].query)
         /\ work[m].host # "stranger" => answer'[m] = Result(m)
         /\ work[m].host = "agent" /\ RequireGrant => Granted(m)
<1>1. /\ call \in [Messages -> {"idle", "sent", "waiting", "ok"} \cup Errors]
      /\ answer \in [Messages -> Results \cup {NoAnswer}]
      /\ replies \subseteq [token : Messages, body : Bodies]
      /\ RepliesOK /\ IsMessage(work[m])
  BY MessageFacts DEF IInv, TypeOK
<1>2. ASSUME NEW verdict, NEW r, End(m, verdict, r)
      PROVE  verdict = "ok" /\ answer'[m] = r
  BY <1>1, <1>2 DEF End
<1>3. ~Ask(m)
  BY <1>1 DEF Ask
<1>4. ~RequestFails(m)
  <2>1. \A words : ClassifyRequest(words) # "ok"
    BY DEF ClassifyRequest
  <2>2. QED BY <1>2, <2>1 DEF RequestFails
<1>5. CASE Receive(m)
  <2>1. PICK reply \in replies : /\ reply.token = m
                                 /\ End(m, Accepted(work[m].query, reply.body), reply.body)
    BY <1>5 DEF Receive
  <2>2. /\ reply.body.form = Form(work[m].query) /\ reply.body.form \notin NoData
        /\ reply.body.form \in {"Ok", "Rows"}
        /\ answer'[m] = reply.body
    BY <1>2, <2>1, AcceptedFacts
  <2>3. reply.body \in Results
    BY <1>1, <2>2 DEF Bodies
  <2>4. work[m].host # "stranger" =>
          reply.body = Result(m) /\ (RequireGrant => Granted(m))
    BY <1>1, <2>1, <2>2 DEF RepliesOK, Failed
  <2>5. QED BY <1>5, <2>2, <2>3, <2>4 DEF Receive
<1>6. CASE LocalMap(m)
  <2>1. \A words : ClassifyFetch(words) # "ok"
    BY DEF ClassifyFetch
  <2>2. /\ answer'[m] = Result(m) /\ call[m] = "waiting" /\ work[m].host = "self"
    BY <1>2, <1>6, <2>1 DEF LocalMap, Result
  <2>3. Result(m) \in Results
    BY <1>1, AcceptedFacts DEF Result, Results, Forms, IsMessage
  <2>4. QED BY <2>2, <2>3 DEF Result
<1>7. QED BY <1>3, <1>4, <1>5, <1>6

LEMMA NextAnswers ==
  ASSUME IInv, [Next]_vars
  PROVE  AnswersOK'
<1>1. TypeOK /\ AnswersOK
  BY DEF IInv
<1>2. ASSUME NEW m \in Messages, Ask(m) \/ Receive(m) \/ RequestFails(m) \/ LocalMap(m)
      PROVE  AnswersOK'
  <2>1. CallMoves(m) /\ work' = work /\ call[m] # "ok"
    BY <1>1, <1>2, CallStep DEF CallMoves
  <2>2. call'[m] = "ok" /\ work[m].host = "agent" /\ RequireGrant => Granted(m)
    BY <1>2, <2>1, EndsWell
  <2>3. call'[m] # "ok" => answer'[m] = NoAnswer
    BY <1>1, <2>1 DEF AnswersOK, CallMoves
  <2>4. QED BY <1>1, <2>1, <2>2, <2>3, JudgedAsBefore DEF AnswersOK, CallMoves
<1>3. CASE UNCHANGED <<work, call, answer>>
  BY <1>1, <1>3, JudgedAsBefore DEF AnswersOK
<1>4. QED
  <2>1. CASE \E m \in Messages : Deliver(m) \/ StrangerReplies(m)
    BY <1>3, <2>1 DEF Deliver, StrangerReplies, clientVars
  <2>2. CASE Loop
    BY <1>3, <2>2 DEF Loop, RefreshRead, RefreshStore, RefreshFails, RefreshNotDue,
                      Poll, Drop, RefuseOversized, Accept, Sleep, clientVars
  <2>3. CASE \E d \in Deliveries : Task(d)
    BY <1>3, <2>3 DEF Task, TaskChecks, TaskFetches, TaskReplies, clientVars
  <2>4. CASE (\E k \in Keys : Revoke(k)) \/ (\E g \in Expiring : Expire(g))
             \/ IntervalPasses \/ Crash \/ UNCHANGED vars
    BY <1>3, <2>4 DEF Revoke, Expire, IntervalPasses, Crash, vars, clientVars
  <2>5. QED BY <1>2, <2>1, <2>2, <2>3, <2>4 DEF Next

-----------------------------------------------------------------------------
(* The types.                                                              *)

(* The types of everything but the free permits, which NextPermits gives.  *)
LEMMA NextType ==
  ASSUME IInv, [Next]_vars
  PROVE  TypeOK'
<1>1. /\ TypeOK /\ QueuesOK /\ AgentAssumption
      /\ Keys' = Keys /\ Expiring' = Expiring
  BY AgentAssumption, WorkIsFixed DEF IInv
<1>2. permits' \in 0 .. Permits
  BY NextPermits
<1>3. ASSUME NEW m \in Messages, Ask(m) \/ Receive(m) \/ RequestFails(m) \/ LocalMap(m)
      PROVE  TypeOK'
  <2>1. answer' \in [Messages -> Results \cup {NoAnswer}]
    <3>1. CASE Ask(m)
      BY <1>1, <3>1 DEF Ask, TypeOK
    <3>2. ASSUME NEW verdict, NEW r, End(m, verdict, r), call[m] = "waiting"
          PROVE  answer' \in [Messages -> Results \cup {NoAnswer}]
      <4>1. /\ answer' = [answer EXCEPT ![m] = IF verdict = "ok" THEN r ELSE NoAnswer]
            /\ call' = [call EXCEPT ![m] = verdict]
        BY <3>2 DEF End
      <4>2. CASE verdict = "ok"
        <5>1. call'[m] = "ok" /\ answer'[m] = r
          BY <1>1, <4>1, <4>2 DEF TypeOK
        <5>2. r \in Results
          BY <1>3, <3>2, <5>1, EndsWell
        <5>3. QED BY <1>1, <4>1, <5>2 DEF TypeOK
      <4>3. CASE verdict # "ok"
        BY <1>1, <4>1, <4>3 DEF TypeOK
      <4>4. QED BY <4>2, <4>3
    <3>3. QED BY <1>3, <3>1, <3>2 DEF Receive, RequestFails, LocalMap
  <2>2. QED
    BY <1>1, <1>3, <2>1, CallStep
    DEF CallMoves, TypeOK, loopVars, taskVars, worldVars
<1>4. ASSUME NEW m \in Messages, Deliver(m)
      PROVE  TypeOK'
  <2>1. copies[m] \in 0 .. MaxCopies /\ copies[m] < MaxCopies /\ MaxCopies \in Nat
    BY <1>1, <1>4 DEF Deliver, TypeOK, AgentAssumption
  <2>2. copies[m] + 1 \in 1 .. MaxCopies
    BY <2>1
  <2>3. copies' \in [Messages -> 0 .. MaxCopies]
    BY <1>1, <1>4, <2>2 DEF Deliver, TypeOK
  <2>4. <<m, copies[m] + 1>> \in Deliveries
    BY <2>2 DEF Deliveries
  <2>5. inbox' \in Seq(Deliveries)
    BY <1>1, <1>4, <2>4 DEF Deliver, TypeOK
  <2>6. QED
    BY <1>1, <1>4, <2>3, <2>5
    DEF Deliver, TypeOK, loopVars, taskVars, worldVars
<1>5. ASSUME NEW m \in Messages, StrangerReplies(m)
      PROVE  TypeOK'
  <2>1. IsMessage(work[m])
    BY <1>1, MessageFacts
  <2> DEFINE other == CHOOSE o \in DOMAIN Content : o # work[m].shard
  <2>2. other \in DOMAIN Content
    BY <1>1, <2>1 DEF IsMessage, AgentAssumption
  <2> HIDE DEF other
  <2>3. PICK form \in Forms, s \in DOMAIN Content :
          replies' = replies \cup {[token |-> m, body |-> [form |-> form, shard |-> s]]}
    BY <1>5, <2>1, <2>2 DEF StrangerReplies, Forms, IsMessage, other
  <2>4. [form |-> form, shard |-> s] \in Bodies
    BY DEF Bodies, Results
  <2>5. replies' \subseteq [token : Messages, body : Bodies]
    BY <1>1, <2>3, <2>4 DEF TypeOK
  <2>6. QED
    BY <1>1, <1>5, <2>5
    DEF StrangerReplies, TypeOK, clientVars, loopVars, taskVars, worldVars
<1>6. CASE RefreshRead \/ RefreshStore \/ RefreshFails \/ RefreshNotDue \/ Sleep
  <2>1. CASE RefreshRead
    BY <1>1, <2>1 DEF RefreshRead, TypeOK, clientVars, taskVars, worldVars
  <2>2. CASE RefreshStore
    BY <1>1, <2>2 DEF RefreshStore, TypeOK, clientVars, taskVars, worldVars
  <2>3. CASE RefreshFails \/ RefreshNotDue \/ Sleep
    BY <1>1, <2>3
    DEF RefreshFails, RefreshNotDue, Sleep, TypeOK, clientVars, taskVars, worldVars
  <2>4. QED BY <1>6, <2>1, <2>2, <2>3
<1>7. CASE Poll
  <2>1. inbox' \in Seq(Deliveries) /\ batch' \in Seq(Deliveries)
    <3>1. inbox \in Seq(Deliveries) /\ batch \in Seq(Deliveries) /\ <<>> \in Seq(Deliveries)
      BY <1>1 DEF TypeOK
    <3>2. QED BY <1>7, <3>1 DEF Poll
  <2>2. QED
    BY <1>1, <1>7, <2>1 DEF Poll, TypeOK, clientVars, taskVars, worldVars
<1>8. CASE Drop
  BY <1>1, <1>8, BatchFacts
  DEF Drop, TypeOK, clientVars, taskVars, worldVars
<1>9. CASE RefuseOversized
  <2>1. Current[1] \in Messages /\ Tail(batch) \in Seq(Deliveries)
    BY <1>1, <1>9, BatchFacts DEF RefuseOversized, Deliveries
  <2>2. Failed \in Bodies
    BY DEF Failed, Bodies
  <2>3. replies' \subseteq [token : Messages, body : Bodies]
    BY <1>1, <1>9, <2>1, <2>2 DEF RefuseOversized, TypeOK
  <2>4. QED
    BY <1>1, <1>9, <2>1, <2>3
    DEF RefuseOversized, TypeOK, clientVars, taskVars, worldVars
<1>10. CASE Accept
  BY <1>1, <1>2, <1>10, BatchFacts
  DEF Accept, TypeOK, clientVars, worldVars
<1>11. ASSUME NEW d \in Deliveries, Task(d)
      PROVE  TypeOK'
  <2>1. d[1] \in Messages /\ IsMessage(work[d[1]]) /\ TaskOK(d)
    BY <1>1, MessageFacts DEF Deliveries, IInv, TasksOK
  <2>2. {Failed, Result(d[1])} \subseteq Bodies
    BY <2>1, AcceptedFacts DEF Failed, Result, Bodies, Results, Forms, IsMessage
  <2>3. MapFetched(work[d[1]].query, work[d[1]].shard) \in Bodies
    BY <2>2, FetchGivesResult
  <2>4. CASE TaskChecks(d) \/ TaskFetches(d)
    <3>1. /\ task' \in {[task EXCEPT ![d] = s] : s \in {"fetching", "replying"}}
          /\ body' \in {body} \cup {[body EXCEPT ![d] = r] : r \in Bodies}
      BY <2>2, <2>3, <2>4 DEF TaskChecks, TaskFetches
    <3>2. QED
      BY <1>1, <2>4, <3>1
      DEF TaskChecks, TaskFetches, TypeOK, clientVars, loopVars, worldVars
  <2>5. CASE TaskReplies(d)
    <3>1. body[d] \in Bodies
      BY <2>1, <2>2, <2>5 DEF TaskReplies, TaskOK
    <3>2. \A form \in NoData : [form |-> form] \in Bodies
      BY DEF NoData, Bodies
    <3>3. Encode(body[d]) \in Bodies
      BY <3>1, <3>2 DEF Encode, NoData
    <3>4. replies' \subseteq [token : Messages, body : Bodies]
      BY <1>1, <2>1, <2>5, <3>3 DEF TaskReplies, TypeOK
    <3>5. QED
      BY <1>1, <1>2, <2>5, <3>4
      DEF TaskReplies, TypeOK, clientVars, loopVars, worldVars
  <2>6. QED BY <1>11, <2>4, <2>5 DEF Task
<1>12. CASE (\E k \in Keys : Revoke(k)) \/ (\E g \in Expiring : Expire(g))
            \/ IntervalPasses \/ UNCHANGED vars
  <2>1. CASE \E k \in Keys : Revoke(k)
    BY <1>1, <2>1 DEF Revoke, TypeOK, clientVars, loopVars, taskVars
  <2>2. CASE \E g \in Expiring : Expire(g)
    BY <1>1, <2>2 DEF Expire, TypeOK, clientVars, loopVars, taskVars
  <2>3. CASE IntervalPasses
    BY <1>1, <2>3 DEF IntervalPasses, TypeOK, clientVars, taskVars, worldVars
  <2>4. CASE UNCHANGED vars
    BY <1>1, <2>4 DEF vars, TypeOK, clientVars, loopVars, taskVars, worldVars
  <2>5. QED BY <1>12, <2>1, <2>2, <2>3, <2>4
<1>13. CASE Crash
  BY <1>1, <1>2, <1>13
  DEF Crash, TypeOK, AgentAssumption, clientVars
<1>14. QED
  BY <1>3, <1>4, <1>5, <1>6, <1>7, <1>8, <1>9, <1>10, <1>11, <1>12, <1>13 DEF Next, Loop

LEMMA NextIInv == IInv /\ [Next]_vars => IInv'
  BY NextType, NextQueues, NextPermits, NextKnowledge, NextTasks, NextReplies,
     NextAnswers DEF IInv

-----------------------------------------------------------------------------
(* The theorems.                                                           *)

(* The inductive invariant holds in every reachable state.                 *)
THEOREM AgentInvariantHolds == SafeSpec => []IInv
  BY InitIInv, NextIInv, PTL DEF SafeSpec

(* Every variable keeps its type.                                          *)
THEOREM AgentTypeCorrect == SafeSpec => []TypeOK
<1>1. IInv => TypeOK
  BY DEF IInv
<1>2. QED BY <1>1, AgentInvariantHolds, PTL

(* No refusal, no failed reply and no crash loses a permit of serve_cmd's  *)
(* limiter or makes one up.                                                *)
THEOREM NoPermitLost == SafeSpec => []PermitsAccounted
<1>1. IInv => PermitsAccounted
  BY DEF IInv
<1>2. QED BY <1>1, AgentInvariantHolds, PTL

(* A request accepted after a revocation was learned gets no data on the   *)
(* revoked grant, whenever its task looks at the set.                      *)
THEOREM RevocationsBind == SafeSpec => []LearnedRevocationsBind
<1>1. IInv => LearnedRevocationsBind
  BY DEF IInv, TasksOK, TaskOK, HasData, LearnedRevocationsBind
<1>2. QED BY <1>1, AgentInvariantHolds, PTL

(* Every reply of the agent that is more than an error, to whichever of    *)
(* the messages, went out on a grant by an accepted root, to the sender of *)
(* that message, for all datasets or the one its query names.              *)
THEOREM DataNeedsGrant == SafeSpec => []DataOnlyOnGrant
<1>1. IInv => DataOnlyOnGrant
  BY DEF IInv, RepliesOK, Granted, Withheld, DataOnlyOnGrant
<1>2. QED BY <1>1, AgentInvariantHolds, PTL

(* refresh_revocations, whose read may be slow or fail, never drops a      *)
(* revocation that the running agent knows.                                *)
THEOREM KnowledgeIsKept == SafeSpec => NothingUnlearned
<1>1. IInv /\ [Next]_vars => [crashes' = crashes => known \subseteq known']_vars
  BY KnowledgeGrows
<1>2. QED BY <1>1, AgentInvariantHolds, PTL DEF SafeSpec, NothingUnlearned

-----------------------------------------------------------------------------
(* The calls keep the promise that the engine relies on.                   *)

LEMMA PromiseInit == Init => Promise!Init
<1> SUFFICES ASSUME Init PROVE Promise!Init
  OBVIOUS
<1>1. TypeOK
  BY InitIInv DEF IInv
<1>2. ASSUME NEW m \in Calls
      PROVE  Question(m) \in [form : {"Ok", "Rows"},
                              shard : {r.shard : r \in [form : {"Ok", "Rows"}, shard : DOMAIN Content]},
                              honest : BOOLEAN]
  <2>1. m \in Messages /\ IsMessage(work[m])
    BY <1>1, AgentAssumption, MessageFacts
  <2> DEFINE answered == [form |-> "Ok", shard |-> work[m].shard]
  <2>2. answered \in [form : {"Ok", "Rows"}, shard : DOMAIN Content] /\ answered.shard = work[m].shard
    BY <2>1 DEF IsMessage
  <2> HIDE DEF answered
  <2>3. work[m].shard \in {r.shard : r \in [form : {"Ok", "Rows"}, shard : DOMAIN Content]}
    BY <2>2
  <2>4. QED BY <2>3, AcceptedFacts DEF Question
<1>3. QED BY <1>2, AgentAssumption DEF Init, Promise!Init

LEMMA PromiseStep ==
  ASSUME IInv, [Next]_vars
  PROVE  [Promise!Next]_(Promise!vars)
<1> DEFINE asked == [n \in Calls |-> Question(n)]
           stands == [n \in Calls |-> IF call[n] = "sent" THEN "waiting" ELSE call[n]]
           given == [n \in Calls |-> answer[n]]
<1>1. TypeOK /\ Calls \subseteq Messages
  BY AgentAssumption DEF IInv
<1>2. asked' = asked
  <2>1. work' = work
    BY WorkIsFixed
  <2>2. QED BY <2>1 DEF Question, Form
<1>3. ASSUME NEW m \in Messages, Ask(m) \/ Receive(m) \/ RequestFails(m) \/ LocalMap(m)
      PROVE  Promise!Next \/ UNCHANGED Promise!vars
  <2>1. CallMoves(m)
    BY <1>1, <1>3, CallStep
  <2>2. CASE m \notin Calls
    <3>1. stands' = stands /\ given' = given
      BY <1>1, <2>1, <2>2 DEF CallMoves
    <3>2. QED BY <1>2, <3>1 DEF Promise!vars
  <2>3. CASE m \in Calls
    <3>1. stands' = [stands EXCEPT ![m] = call'[m]]
      BY <1>1, <2>1, <2>3 DEF CallMoves, Errors
    <3>2. given' = [given EXCEPT ![m] = answer'[m]]
      BY <1>1, <2>1, <2>3 DEF CallMoves
    <3>3. stands[m] = call[m] /\ asked[m] = Question(m) /\ call[m] # "ok"
      BY <2>1, <2>3 DEF CallMoves
    <3>4. CASE call'[m] = "ok"
      <4>1. /\ call[m] = "waiting"
            /\ answer'[m] \in Results /\ answer'[m].form = Form(work[m].query)
            /\ work[m].host # "stranger" => answer'[m] = Result(m)
        BY <1>3, <3>3, <3>4, EndsWell
      <4>2. answer'[m] \in Promise!Acceptable(asked[m])
        <5>1. answer'[m].form \in {"Ok", "Rows"}
          BY <4>1, AcceptedFacts
        <5>2. answer'[m] \in [form : {"Ok", "Rows"}, shard : DOMAIN Content]
          BY <4>1, <5>1 DEF Results
        <5>3. /\ answer'[m].form = Question(m).form
              /\ Question(m).honest => answer'[m].shard = Question(m).shard
          <6>1. Question(m).form = Form(work[m].query) /\ Question(m).shard = work[m].shard
            BY DEF Question
          <6>2. Question(m).honest = (work[m].host # "stranger")
            BY DEF Question
          <6>3. work[m].host # "stranger" => answer'[m].shard = work[m].shard
            BY <4>1 DEF Result
          <6>4. QED BY <4>1, <6>1, <6>2, <6>3
        <5>4. QED BY <3>3, <5>2, <5>3 DEF Promise!Acceptable
      <4>3. Promise!Answer(m)
        BY <1>2, <3>1, <3>2, <3>3, <3>4, <4>1, <4>2 DEF Promise!Answer
      <4>4. QED BY <2>3, <4>3 DEF Promise!Next
    <3>5. CASE call'[m] # "ok"
      <4>1. given' = given
        <5>1. answer'[m] = answer[m]
          BY <2>1, <3>3, <3>5 DEF CallMoves, IInv, AnswersOK
        <5>2. QED BY <1>1, <2>1, <2>3, <5>1 DEF CallMoves
      <4>2. CASE call[m] = "idle" /\ call'[m] = "waiting"
        BY <1>2, <2>3, <3>1, <3>3, <4>1, <4>2 DEF Promise!Next, Promise!Ask
      <4>3. CASE call[m] \in {"idle", "waiting"} /\ call'[m] \in Errors
        BY <1>2, <2>3, <3>1, <3>3, <4>1, <4>3 DEF Promise!Next, Promise!Fail
      <4>4. QED BY <2>1, <2>3, <3>5, <4>2, <4>3 DEF CallMoves, Errors
    <3>6. QED BY <3>4, <3>5
  <2>4. QED BY <2>2, <2>3
<1>4. CASE UNCHANGED <<call, answer>>
  BY <1>2, <1>4 DEF Promise!vars
<1>5. QED
  <2>1. CASE \E m \in Messages : Deliver(m) \/ StrangerReplies(m)
    BY <1>4, <2>1 DEF Deliver, StrangerReplies, clientVars
  <2>2. CASE Loop
    BY <1>4, <2>2 DEF Loop, RefreshRead, RefreshStore, RefreshFails, RefreshNotDue,
                      Poll, Drop, RefuseOversized, Accept, Sleep, clientVars
  <2>3. CASE \E d \in Deliveries : Task(d)
    BY <1>4, <2>3 DEF Task, TaskChecks, TaskFetches, TaskReplies, clientVars
  <2>4. CASE (\E k \in Keys : Revoke(k)) \/ (\E g \in Expiring : Expire(g))
             \/ IntervalPasses \/ Crash \/ UNCHANGED vars
    BY <1>4, <2>4 DEF Revoke, Expire, IntervalPasses, Crash, vars, clientVars
  <2>5. QED BY <1>3, <2>1, <2>2, <2>3, <2>4 DEF Next

(* A call ends at most once, with an error or with an answer in the form   *)
(* of its query, which is the result of that query on that shard when the  *)
(* host follows the protocol.                                              *)
THEOREM AgentImplementsHostCall == SafeSpec => Promise!SafeSpec
  BY PromiseInit, PromiseStep, AgentInvariantHolds, PTL DEF SafeSpec, Promise!SafeSpec
=============================================================================
