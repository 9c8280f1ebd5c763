------------------------------ MODULE MCAgent -------------------------------
(***************************************************************************)
(* Small instances of Agent: a call and a message of other software, of    *)
(* which one may be delivered twice, against an agent with one permit.     *)
(***************************************************************************)
EXTENDS AgentInvariant, TLC

MCMessages == {"a", "n"}
MCCalls == {"a"}

(* Every kind of stored object, named by what it is.                       *)
Stored == {"rows", "wide", "infinite", "bulky", "large", "garbled", "missing"}
MCContent == [s \in Stored |-> s]

Sales == <<"sales">>
SalesEU == <<"sales", "-eu">>

(* The owner's grant to the coordinator for one dataset and for a limited  *)
(* time, the agent's own grants for that dataset and for all of them, a    *)
(* bearer grant, and one whose issuer the agent does not know.  Nonces are *)
(* the default, 1.                                                         *)
OwnersGrant == GrantCmd("owner", <<"coord">>, <<Sales>>, TRUE, 1)
SalesGrant == GrantCmd("agent", <<"coord">>, <<Sales>>, FALSE, 1)
AgentsGrant == GrantCmd("agent", <<"coord">>, <<>>, FALSE, 1)
BearerGrant == GrantCmd("owner", <<>>, <<Sales>>, FALSE, 1)
StrangersGrant == GrantCmd("other", <<"coord">>, <<>>, FALSE, 1)

MCRoots == {"agent", "owner"}

Aggregate == [named |-> TRUE, aggregates |-> 1, groupBy |-> 0, projection |-> FALSE]
Projection == [named |-> TRUE, aggregates |-> 0, groupBy |-> 0, projection |-> TRUE]
Grouped == [Projection EXCEPT !.groupBy = 1]

(* A request to the agent, by the coordinator or by another node.          *)
Req(grant, dataset, query, shard) ==
  [host |-> "agent", shape |-> "request", from |-> <<"coord">>, grant |-> grant,
   dataset |-> dataset, query |-> query, shard |-> shard]
By(node, m) == [m EXCEPT !.from = node]
Nobody == <<>>
OnSales(grant) == Req(grant, Sales, Aggregate, "rows")

(* One that is dropped or refused by the loop; a call on another host.     *)
Other(shape) == [OnSales(AgentsGrant) EXCEPT !.shape = shape, !.from = <<"other">>]
To(host, m) == [m EXCEPT !.host = host]
Local(shard) == To("self", Req(NoGrant, Sales, Projection, shard))

(* The call and the message of other software.                             *)
Workload(a, n) == [m \in MCMessages |-> IF m = "a" THEN a ELSE n]

MCRevocable == {<<"owner", 1>>}

(* The call meets every kind of object; the message of other software has  *)
(* every shape, and as a request every relation of sender, grant and name. *)
MCWorkloads ==
  {Workload(OnSales(OwnersGrant), Other("no_token")),
   Workload(Req(AgentsGrant, SalesEU, Projection, "wide"), Other("malformed")),
   Workload(Req(SalesGrant, SalesEU, Aggregate, "rows"), Other("oversized")),
   Workload(Req(AgentsGrant, Sales, Aggregate, "large"), Other("other_topic")),
   Workload(Req(AgentsGrant, Sales, Aggregate, "garbled"), Other("bad_payload")),
   Workload(Req(AgentsGrant, Sales, Aggregate, "infinite"),
            Req(AgentsGrant, Sales, Grouped, "rows")),
   Workload(Req(AgentsGrant, Sales, Projection, "bulky"),
            By(Nobody, OnSales(AgentsGrant))),
   Workload(To("stranger", OnSales(AgentsGrant)), OnSales(Garbled)),
   Workload(Local("wide"), OnSales(StrangersGrant)),
   Workload(Local("large"), By(<<"owner">>, OnSales(BearerGrant))),
   Workload(Local("garbled"), OnSales(BearerGrant)),
   Workload(Local("missing"), By(<<"other">>, OnSales(OwnersGrant))),
   Workload(Local("rows"), Req(SalesGrant, SalesEU, Aggregate, "rows")),
   Workload(Local("bulky"), OnSales(NoGrant)),
   Workload(Local("infinite"), Req(SalesGrant, Sales, Projection, "missing"))}

(* Where every shard was registered under the name that the queries use.   *)
MCDatasetOf == [s \in Stored |-> Sales]

-----------------------------------------------------------------------------
(* A query names a dataset as the catalog of its coordinator does, which   *)
(* every user keeps for itself: here it calls sales what the owner of the  *)
(* shards registered as sales-eu.                                          *)
LocalNames == {Workload(OnSales(OwnersGrant), Other("no_token"))}
OwnersNames == [s \in Stored |-> SalesEU]
=============================================================================
