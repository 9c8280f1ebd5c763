--------------------------- MODULE AgentInvariant ---------------------------
(***************************************************************************)
(* The inductive invariant of Agent.                                       *)
(***************************************************************************)
EXTENDS Agent

InInbox(d) == \E i \in DOMAIN inbox : inbox[i] = d
Waiting(d) == InInbox(d) \/ InBatch(d)

(* Every delivery is in one place: waiting once, or with its task.         *)
QueuesOK ==
  /\ \A i, j \in DOMAIN inbox : inbox[i] = inbox[j] => i = j
  /\ \A i, j \in DOMAIN batch : batch[i] = batch[j] => i = j
  /\ \A d \in Deliveries : ~(InInbox(d) /\ InBatch(d))
  /\ \A d \in Deliveries : Waiting(d) => task[d] = "none"
  /\ \A d \in Deliveries : Waiting(d) \/ task[d] # "none" => d[2] <= copies[d[1]]
  /\ pc \in {"refresh", "store", "poll"} => batch = <<>>

(* What the agent knows only grows while it runs, and comes from the chain. *)
KnowledgeOK ==
  /\ known \subseteq chain
  /\ pc = "store" => known \subseteq fetched /\ fetched \subseteq chain
  /\ \A d \in Deliveries : Active(d) => knownAt[d] \subseteq known

(* The grant of message m covers its sender and its dataset.               *)
Granted(m) ==
  LET g == work[m].grant IN
  /\ g \notin {NoGrant, Garbled}
  /\ g.issuer \in Roots /\ <<g.audience>> = work[m].from
  /\ g.pathPrefix \in {<<>>, <<AllDatasets>>, <<work[m].dataset>>}

Result(m) == [form |-> Form(work[m].query), shard |-> work[m].shard]

(* A task that is past its check, or has data to send, was permitted, and  *)
(* the data is the result of its request.                                  *)
HasData(d) ==
  task[d] = "fetching" \/ (task[d] \in {"replying", "done"} /\ body[d] # Failed)
TaskOK(d) ==
  /\ HasData(d) /\ RequireGrant =>
       Granted(d[1]) /\ RevocationKey(work[d[1]].grant) \notin knownAt[d]
  /\ task[d] \in {"replying", "done"} => body[d] \in {Failed, Result(d[1])}
TasksOK == \A d \in Deliveries : TaskOK(d)

(* The replies of hosts that follow the protocol.                          *)
NoData == {"Err", "Huge", "Unreadable"}
RepliesOK ==
  \A reply \in replies :
    work[reply.token].host # "stranger" =>
      /\ reply.body.form \in NoData \/ reply.body = Result(reply.token)
      /\ reply.body # Failed /\ RequireGrant => Granted(reply.token)

(* An accepted answer was granted, and a call that has none holds none.    *)
AnswersOK ==
  \A m \in Messages :
    /\ call[m] = "ok" /\ work[m].host = "agent" /\ RequireGrant => Granted(m)
    /\ call[m] # "ok" => answer[m] = NoAnswer

IInv ==
  /\ TypeOK /\ QueuesOK /\ PermitsAccounted /\ KnowledgeOK
  /\ TasksOK /\ RepliesOK /\ AnswersOK
=============================================================================
