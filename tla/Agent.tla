-------------------------------- MODULE Agent -------------------------------
(***************************************************************************)
(* Map calls over the mesh: the client half (src/mesh.rs: MeshMapHost,     *)
(* LocalMapHost), the agent that serves them (src/main.rs: serve_cmd,      *)
(* src/mesh.rs: serve_map) and the grants it checks (Caps).                *)
(*                                                                         *)
(* The agent is one loop, which refreshes the revocation set, polls the    *)
(* inbox and hands every request to a task of its own, and those tasks,    *)
(* as many at a time as there are permits.  Every await is a point where   *)
(* the others may move.  The network may lose a message, deliver it twice  *)
(* or late; the agent may crash and start again with nothing in memory.    *)
(***************************************************************************)
EXTENDS Caps, Naturals, FiniteSetsExt

CONSTANTS
  Messages,       \* the messages of a run; a message is also its reply token
  Calls,          \* those that MeshMapHost or LocalMapHost sends; other software
                  \* sends the rest
  Workloads,      \* what the messages may be: a set of functions on Messages
  Content,        \* what is stored under each shard
  DatasetOf,      \* the dataset that each shard was registered for
  Roots,          \* the capability roots the agent accepts, its own key included
  RequireGrant,   \* serve --require-grant
  MaxConcurrent,  \* serve --max-concurrent
  Refreshing,     \* serve --revocation-refresh-secs is not 0
  Revocable,      \* bound: the keys <<issuer, nonce>> that a run may revoke
  MaxCopies,      \* bound: how often the network delivers one message
  MaxDeliveries,  \* bound: how many messages it delivers in all
  MaxCrashes,     \* bound: how often the agent crashes
  NoAnswer

(* The permits of the limiter, at least one.                               *)
Permits == IF MaxConcurrent = 0 THEN 1 ELSE MaxConcurrent

Deliveries == Messages \X (1 .. MaxCopies)

(* What a message may be: nothing in the code depends on more than this.   *)
IsMessage(msg) ==
  /\ msg.shard \in DOMAIN Content
  /\ IsOption(msg.from)
  /\ msg.grant \notin {NoGrant, Garbled} => IsOption(msg.grant.pathPrefix)

ASSUME AgentAssumption ==
  /\ Calls \subseteq Messages /\ IsFiniteSet(Messages)
  /\ MaxConcurrent \in Nat /\ MaxCopies \in Nat /\ MaxCrashes \in Nat
  /\ RequireGrant \in BOOLEAN /\ Refreshing \in BOOLEAN
  /\ \A s \in DOMAIN Content : \E o \in DOMAIN Content : o # s
  /\ \A w \in Workloads : \A m \in Messages : IsMessage(w[m])

VARIABLES
  \* the callers and the network
  work,      \* the chosen workload
  call,      \* per message: how its sender stands
  answer,    \* per message: the answer its caller accepted
  inbox,     \* deliveries waiting at the agent's node
  copies,    \* per message: how often it was delivered
  replies,   \* replies that reached the caller's node: [token, body]
  \* the agent
  pc,        \* where the serve loop stands
  batch,     \* the messages of the last poll that are not handled yet
  due,       \* the refresh interval has passed
  fetched,   \* the revocation list read and not yet stored
  known,     \* the revocation set in memory
  permits,   \* free permits of the limiter
  task,      \* per delivery: where its task stands
  body,      \* per delivery: the reply its task has made
  \* the chain, the clock and the history the properties need
  chain,     \* the revocations on the chain
  expired,   \* the grants whose time has passed
  crashes,   \* how often the agent crashed
  knownAt    \* per delivery: what the agent knew when it accepted the request

(* The grants presented, their revocable keys and those with a time limit. *)
Grants == {work[m].grant : m \in Messages} \ {NoGrant, Garbled}
Keys == {RevocationKey(g) : g \in Grants} \cap Revocable
Expiring == {g \in Grants : g.expires}

clientVars == <<work, call, answer, copies>>
loopVars == <<pc, batch, due, fetched, known>>
taskVars == <<permits, task, body, knownAt>>
worldVars == <<chain, expired, crashes>>
vars == <<clientVars, inbox, replies, loopVars, taskVars, worldVars>>

-----------------------------------------------------------------------------
(* Queries, shards and replies                                             *)

(* Query::validate                                                         *)
IsProjection(q) == q.projection
Valid(q) ==
  /\ q.named
  /\ IF IsProjection(q) THEN q.aggregates = 0 /\ q.groupBy = 0
                        ELSE q.aggregates > 0

(* The form of an answer to query q.                                       *)
Form(q) == IF IsProjection(q) THEN "Rows" ELSE "Ok"

Failed == [form |-> "Err"]

(* What serve_map answers once the object is there: too large, not to be   *)
(* decoded, more rows than a projection may return, or the result.         *)
MapFetched(q, shard) ==
  IF Content[shard] \in {"large", "garbled"} \/ (IsProjection(q) /\ Content[shard] = "wide")
    THEN Failed
    ELSE [form |-> Form(q), shard |-> shard]

(* The reply as bytes: a sum that is not finite is written as null, which  *)
(* does not decode; a result may outgrow the payload limit.                *)
Encode(r) ==
  CASE r.form = "Ok" /\ Content[r.shard] = "infinite" -> [form |-> "Unreadable"]
    [] r # Failed /\ Content[r.shard] = "bulky" -> [form |-> "Huge"]
    [] OTHER -> r

(* MapError, from the words in an error's text.                            *)
Errors == {"MissingBlob", "Timeout", "HostError", "Corrupt"}
ClassifyFetch(words) ==
  IF "404" \in words THEN "MissingBlob"
  ELSE IF "timeout" \in words THEN "Timeout" ELSE "HostError"
ClassifyRequest(words) ==
  IF words \cap {"timeout", "504"} # {} THEN "Timeout" ELSE "HostError"

(* Fault variant: any reply with data is taken for an answer.                      *)
AcceptedInAnyForm(q, r) ==
  CASE r.form = "Huge" -> "HostError"
    [] r.form = "Unreadable" -> "Corrupt"
    [] r.form = "Err" -> "HostError"
    [] OTHER -> "ok"

(* What map and project make of the reply bytes to query q: an error, or   *)
(* "ok" for a reply of the form the query has.                             *)
Accepted(q, r) ==
  CASE r.form = "Huge" -> "HostError"
    [] r.form = "Unreadable" -> "Corrupt"
    [] r.form = "Err" -> "HostError"
    [] r.form = Form(q) -> "ok"
    [] r.form = "ManyRows" /\ IsProjection(q) -> "HostError"
    [] OTHER -> "Corrupt"

-----------------------------------------------------------------------------
(* The callers                                                             *)

End(m, verdict, r) ==
  /\ call' = [call EXCEPT ![m] = verdict]
  /\ answer' = [answer EXCEPT ![m] = IF verdict = "ok" THEN r ELSE NoAnswer]
  /\ UNCHANGED <<work, copies, inbox, replies, loopVars, taskVars, worldVars>>

(* send: a request over the payload limit never leaves.                    *)
Ask(m) ==
  /\ call[m] = "idle"
  /\ call' = [call EXCEPT ![m] =
                IF m \notin Calls THEN "sent"
                ELSE IF work[m].shape = "oversized" THEN "HostError" ELSE "waiting"]
  /\ UNCHANGED <<work, answer, copies, inbox, replies, loopVars, taskVars, worldVars>>

(* A reply that comes while its caller waits; a later one is dropped.      *)
Receive(m) ==
  /\ call[m] = "waiting"
  /\ \E reply \in replies :
       /\ reply.token = m
       /\ End(m, Accepted(work[m].query, reply.body), reply.body)

(* The request fails: its timeout passed, the node or the host is away.    *)
RequestFails(m) ==
  /\ call[m] = "waiting" /\ work[m].host # "self"
  /\ \E words \in {{"timeout"}, {"504"}, {}} : End(m, ClassifyRequest(words), NoAnswer)

(* LocalMapHost: the coordinator fetches the shard and maps it itself; no  *)
(* limit on projected rows here.                                           *)
LocalMap(m) ==
  LET q == work[m].query
      shard == work[m].shard IN
  /\ call[m] = "waiting" /\ work[m].host = "self"
  /\ \/ \E words \in SUBSET {"404", "timeout"} : End(m, ClassifyFetch(words), NoAnswer)
     \/ /\ Content[shard] # "missing"
        /\ End(m, CASE Content[shard] = "large" -> "HostError"
                    [] Content[shard] = "garbled" -> "Corrupt"
                    [] OTHER -> "ok",
               [form |-> Form(q), shard |-> shard])

-----------------------------------------------------------------------------
(* The network and the hosts that are not this agent                       *)

(* How many deliveries the network has made.                               *)
Delivered == MapThenSumSet(LAMBDA n : copies[n], Messages)

(* Any message sent to the agent is delivered, again and late if at all.   *)
Deliver(m) ==
  /\ work[m].host = "agent" /\ call[m] # "idle" /\ copies[m] < MaxCopies
  /\ Delivered < MaxDeliveries
  /\ ~(m \in Calls /\ work[m].shape = "oversized")
  /\ copies' = [copies EXCEPT ![m] = @ + 1]
  /\ inbox' = Append(inbox, <<m, copies[m] + 1>>)
  /\ UNCHANGED <<work, call, answer, replies, loopVars, taskVars, worldVars>>

(* Another host may answer with anything, about the shard or another one.  *)
StrangerReplies(m) ==
  /\ work[m].host = "stranger" /\ call[m] # "idle"
  /\ \E form \in {"Ok", "Rows", "ManyRows", "Unreadable"},
        s \in {work[m].shard, CHOOSE o \in DOMAIN Content : o # work[m].shard} :
       replies' = replies \cup {[token |-> m, body |-> [form |-> form, shard |-> s]]}
  /\ \A reply \in replies : reply.token # m
  /\ UNCHANGED <<clientVars, inbox, loopVars, taskVars, worldVars>>

-----------------------------------------------------------------------------
(* The serve loop                                                          *)

(* refresh_revocations: the list is read from the node ...                 *)
RefreshRead ==
  /\ pc = "refresh" /\ due
  /\ fetched' = chain
  /\ pc' = "store"
  /\ UNCHANGED <<clientVars, inbox, replies, batch, due, known, taskVars, worldVars>>

(* ... and replaces the set in memory; the interval starts again.          *)
RefreshStore ==
  /\ pc = "store"
  /\ known' = fetched
  /\ fetched' = {}
  /\ due' = FALSE
  /\ pc' = "poll"
  /\ UNCHANGED <<clientVars, inbox, replies, batch, taskVars, worldVars>>

(* Fault variant: a failed read counts as an empty list.                           *)
RefreshFailsEmpty ==
  /\ pc = "refresh" /\ due
  /\ known' = {}
  /\ due' = FALSE
  /\ pc' = "poll"
  /\ UNCHANGED <<clientVars, inbox, replies, batch, fetched, taskVars, worldVars>>

(* A failed read keeps the previous set, and the interval starts again.    *)
RefreshFails ==
  /\ pc = "refresh" /\ due
  /\ due' = FALSE
  /\ pc' = "poll"
  /\ UNCHANGED <<clientVars, inbox, replies, batch, fetched, known, taskVars, worldVars>>

RefreshNotDue ==
  /\ pc = "refresh" /\ ~due
  /\ pc' = "poll"
  /\ UNCHANGED <<clientVars, inbox, replies, batch, due, fetched, known, taskVars, worldVars>>

(* client.messages(): a poll that fails counts as an empty inbox.          *)
Poll ==
  /\ pc = "poll"
  /\ \/ batch' = inbox /\ inbox' = <<>>
     \/ UNCHANGED <<batch, inbox>>
  /\ pc' = "handle"
  /\ UNCHANGED <<clientVars, replies, due, fetched, known, taskVars, worldVars>>

Current == Head(batch)
Shape(d) == work[d[1]].shape

(* Not for this service, nobody to reply to, or not to be parsed: dropped  *)
(* without a reply.                                                        *)
Drop ==
  /\ pc = "handle" /\ batch # <<>>
  /\ Shape(Current) \in {"other_topic", "no_token", "bad_payload", "malformed"}
  /\ batch' = Tail(batch)
  /\ UNCHANGED <<clientVars, inbox, replies, pc, due, fetched, known, taskVars, worldVars>>

(* Over the payload limit: refused by the loop itself.                     *)
RefuseOversized ==
  /\ pc = "handle" /\ batch # <<>> /\ Shape(Current) = "oversized"
  /\ \/ replies' = replies \cup {[token |-> Current[1], body |-> Failed]}
     \/ UNCHANGED replies
  /\ batch' = Tail(batch)
  /\ UNCHANGED <<clientVars, inbox, pc, due, fetched, known, taskVars, worldVars>>

(* Fault variant: the request does not wait for a permit.                          *)
AcceptAtOnce ==
  /\ pc = "handle" /\ batch # <<>> /\ Shape(Current) = "request"
  /\ permits' = permits - 1
  /\ task' = [task EXCEPT ![Current] = "spawned"]
  /\ knownAt' = [knownAt EXCEPT ![Current] = known]
  /\ batch' = Tail(batch)
  /\ UNCHANGED <<clientVars, inbox, replies, pc, due, fetched, known, body, worldVars>>

(* A request gets a permit, for which the whole loop waits, and a task.    *)
Accept ==
  /\ pc = "handle" /\ batch # <<>> /\ Shape(Current) = "request"
  /\ permits > 0
  /\ permits' = permits - 1
  /\ task' = [task EXCEPT ![Current] = "spawned"]
  /\ knownAt' = [knownAt EXCEPT ![Current] = known]
  /\ batch' = Tail(batch)
  /\ UNCHANGED <<clientVars, inbox, replies, pc, due, fetched, known, body, worldVars>>

(* Fault variant: the loop goes back to the poll, past the refresh.                *)
SleepThenPoll ==
  /\ pc = "handle" /\ batch = <<>>
  /\ pc' = "poll"
  /\ UNCHANGED <<clientVars, inbox, replies, batch, due, fetched, known, taskVars, worldVars>>

(* The batch is done: sleep, then the next round.                          *)
Sleep ==
  /\ pc = "handle" /\ batch = <<>>
  /\ pc' = "refresh"
  /\ UNCHANGED <<clientVars, inbox, replies, batch, due, fetched, known, taskVars, worldVars>>

-----------------------------------------------------------------------------
(* The tasks: serve_map for one request                                    *)

(* Fault variant: the revocation set is not looked at.                             *)
PermittedThoughRevoked(m, revoked) ==
  \/ ~RequireGrant
  \/ /\ work[m].from # <<>>
     /\ work[m].grant # NoGrant
     /\ Verify(Roots, Head(work[m].from), work[m].dataset, work[m].grant, expired, {})

(* Fault variant: a sender that does not parse is taken for the holder of the grant. *)
PermittedUnnamed(m, revoked) ==
  \/ ~RequireGrant
  \/ /\ work[m].grant # NoGrant
     /\ Verify(Roots, OrElse(work[m].from, work[m].grant.audience), work[m].dataset,
               work[m].grant, expired, revoked)

(* The closure that serve_cmd passes to serve_map, with the task's copy of *)
(* the revocation set.                                                     *)
Permitted(m, revoked) ==
  \/ ~RequireGrant
  \/ /\ work[m].from # <<>>
     /\ work[m].grant # NoGrant
     /\ Verify(Roots, Head(work[m].from), work[m].dataset, work[m].grant, expired, revoked)

(* Fault variant: a refused request ends without a reply.                          *)
TaskChecksSilently(d) ==
  /\ task[d] = "spawned"
  /\ IF Permitted(d[1], known) /\ Valid(work[d[1]].query)
       THEN task' = [task EXCEPT ![d] = "fetching"] /\ UNCHANGED permits
       ELSE task' = [task EXCEPT ![d] = "none"] /\ permits' = permits + 1
  /\ UNCHANGED <<clientVars, inbox, replies, loopVars, body, knownAt, worldVars>>

(* The set is copied under its lock; grant and query are checked before    *)
(* any work is done.                                                       *)
TaskChecks(d) ==
  /\ task[d] = "spawned"
  /\ IF Permitted(d[1], known) /\ Valid(work[d[1]].query)
       THEN task' = [task EXCEPT ![d] = "fetching"] /\ UNCHANGED body
       ELSE /\ task' = [task EXCEPT ![d] = "replying"]
            /\ body' = [body EXCEPT ![d] = Failed]
  /\ UNCHANGED <<clientVars, inbox, replies, loopVars, permits, knownAt, worldVars>>

(* get_object ends, with an error or the object, and the shard is mapped.  *)
TaskFetches(d) ==
  LET m == d[1] IN
  /\ task[d] = "fetching"
  /\ task' = [task EXCEPT ![d] = "replying"]
  /\ \/ body' = [body EXCEPT ![d] = Failed]
     \/ /\ Content[work[m].shard] # "missing"
        /\ body' = [body EXCEPT ![d] = MapFetched(work[m].query, work[m].shard)]
  /\ UNCHANGED <<clientVars, inbox, replies, loopVars, permits, knownAt, worldVars>>

(* Fault variant: the permit stays with a task whose reply failed.                 *)
TaskRepliesLeaky(d) ==
  /\ task[d] = "replying"
  /\ \/ /\ replies' = replies \cup {[token |-> d[1], body |-> Encode(body[d])]}
        /\ permits' = permits + 1
     \/ UNCHANGED <<replies, permits>>
  /\ task' = [task EXCEPT ![d] = "done"]
  /\ UNCHANGED <<clientVars, inbox, loopVars, body, knownAt, worldVars>>

(* client.reply, which may fail or be lost; the permit goes back.          *)
TaskReplies(d) ==
  /\ task[d] = "replying"
  /\ \/ replies' = replies \cup {[token |-> d[1], body |-> Encode(body[d])]}
     \/ UNCHANGED replies
  /\ task' = [task EXCEPT ![d] = "done"]
  /\ permits' = permits + 1
  /\ UNCHANGED <<clientVars, inbox, loopVars, body, knownAt, worldVars>>

-----------------------------------------------------------------------------
(* The world                                                               *)

Revoke(k) ==
  /\ k \in Keys \ chain
  /\ chain' = chain \cup {k}
  /\ UNCHANGED <<clientVars, inbox, replies, loopVars, taskVars, expired, crashes>>

Expire(g) ==
  /\ g \in Expiring \ expired
  /\ expired' = expired \cup {g}
  /\ UNCHANGED <<clientVars, inbox, replies, loopVars, taskVars, chain, crashes>>

IntervalPasses ==
  /\ Refreshing /\ ~due
  /\ due' = TRUE
  /\ UNCHANGED <<clientVars, inbox, replies, pc, batch, fetched, known, taskVars, worldVars>>

(* The agent dies and is started again: what it polled and what its tasks  *)
(* did is gone, the revocation set is empty until the first refresh.       *)
Active(d) == task[d] \in {"spawned", "fetching", "replying"}
InBatch(d) == \E i \in DOMAIN batch : batch[i] = d

Crash ==
  /\ crashes < MaxCrashes
  /\ crashes' = crashes + 1
  /\ task' = [d \in Deliveries |-> IF Active(d) \/ InBatch(d) THEN "lost" ELSE task[d]]
  /\ pc' = "refresh"
  /\ batch' = <<>>
  /\ due' = TRUE
  /\ fetched' = {} /\ known' = {}
  /\ permits' = Permits
  /\ UNCHANGED <<clientVars, inbox, replies, body, knownAt, chain, expired>>

-----------------------------------------------------------------------------
Init ==
  /\ work \in Workloads
  /\ call = [m \in Messages |-> "idle"]
  /\ answer = [m \in Messages |-> NoAnswer]
  /\ inbox = <<>>
  /\ copies = [m \in Messages |-> 0]
  /\ replies = {}
  /\ pc = "refresh" /\ batch = <<>> /\ due = TRUE
  /\ fetched = {} /\ known = {}
  /\ permits = Permits
  /\ task = [d \in Deliveries |-> "none"]
  /\ body = [d \in Deliveries |-> NoAnswer]
  /\ knownAt = [d \in Deliveries |-> {}]
  /\ chain = {} /\ expired = {} /\ crashes = 0

Loop ==
  \/ RefreshRead \/ RefreshStore \/ RefreshFails \/ RefreshNotDue
  \/ Poll \/ Drop \/ RefuseOversized \/ Accept \/ Sleep

Task(d) == TaskChecks(d) \/ TaskFetches(d) \/ TaskReplies(d)

Next ==
  \/ \E m \in Messages :
       \/ Ask(m) \/ Receive(m) \/ RequestFails(m) \/ LocalMap(m)
       \/ Deliver(m) \/ StrangerReplies(m)
  \/ Loop
  \/ \E d \in Deliveries : Task(d)
  \/ \E k \in Keys : Revoke(k)
  \/ \E g \in Expiring : Expire(g)
  \/ IntervalPasses
  \/ Crash

(* The runtime goes on with the loop and with every task, a request ends   *)
(* by its timeout, time passes, and reading the revocation list does not   *)
(* fail for ever.  That get_object ends is an assumption on the node: the  *)
(* code here sets it no timeout.                                           *)
Fairness ==
  /\ WF_vars(Loop) /\ SF_vars(RefreshRead) /\ WF_vars(IntervalPasses)
  /\ WF_vars(\E d \in Deliveries : Task(d))
  /\ WF_vars(\E m \in Messages : RequestFails(m) \/ LocalMap(m))

SafeSpec == Init /\ [][Next]_vars
Spec == SafeSpec /\ Fairness

-----------------------------------------------------------------------------
Forms == {"Ok", "Rows", "ManyRows", "Unreadable"}
Results == [form : Forms, shard : DOMAIN Content]
Bodies == Results \cup [form : {"Err", "Huge", "Unreadable"}]

TypeOK ==
  /\ work \in Workloads
  /\ call \in [Messages -> {"idle", "sent", "waiting", "ok"} \cup Errors]
  /\ answer \in [Messages -> Results \cup {NoAnswer}]
  /\ inbox \in Seq(Deliveries)
  /\ copies \in [Messages -> 0 .. MaxCopies]
  /\ replies \subseteq [token : Messages, body : Bodies]
  /\ pc \in {"refresh", "store", "poll", "handle"}
  /\ batch \in Seq(Deliveries)
  /\ due \in BOOLEAN
  /\ fetched \subseteq Keys /\ known \subseteq Keys
  /\ permits \in 0 .. Permits
  /\ task \in [Deliveries -> {"none", "spawned", "fetching", "replying", "done", "lost"}]
  /\ body \in [Deliveries -> Bodies \cup {NoAnswer}]
  /\ chain \subseteq Keys
  /\ expired \subseteq Expiring
  /\ crashes \in 0 .. MaxCrashes
  /\ knownAt \in [Deliveries -> SUBSET Keys]

(* Every permit is free or belongs to a task that is running: no way       *)
(* through a task, a refusal or a crash loses one or makes one up.         *)
PermitsAccounted ==
  permits + Cardinality({d \in Deliveries : Active(d)}) = Permits

(* A request that is accepted after the agent learned of a revocation gets *)
(* no data on the revoked grant, although the task looks at the set only   *)
(* later and although refreshes replace it and fail in between.            *)
LearnedRevocationsBind ==
  \A d \in Deliveries :
    task[d] \in {"replying", "done"} /\ RequireGrant /\ body[d] # Failed =>
      RevocationKey(work[d[1]].grant) \notin knownAt[d]

(* Only a restart makes the agent forget a revocation it has learned.      *)
NothingUnlearned == [][crashes' = crashes => known \subseteq known']_vars

(* A reply of this agent that is more than an error, readable or not, went *)
(* out on a grant of the message it answers, whoever sent that message:    *)
(* issued by an accepted root, to that sender, for all datasets or exactly *)
(* the one that the query names.  Duplicates, restarts and concurrent      *)
(* tasks mix nothing up.  Whether the shard belongs to the dataset that is *)
(* named is another question: see GrantCoversShard.                        *)
Withheld(reply) == work[reply.token].host # "agent" \/ reply.body = Failed

DataOnlyOnGrant ==
  RequireGrant => \A reply \in replies :
    Withheld(reply) \/
      LET msg == work[reply.token]
          g == msg.grant IN
      /\ g \notin {NoGrant, Garbled}
      /\ g.issuer \in Roots /\ <<g.audience>> = msg.from
      /\ g.pathPrefix \in {<<>>, <<AllDatasets>>, <<msg.dataset>>}

(* What caps.rs says of a scope: a capability scoped to "sales" covers     *)
(* exactly the dataset named sales, so the data comes from a shard of a    *)
(* dataset that the grant covers.  serve_cmd compares the scope with the   *)
(* name in the query, and serve_map fetches the shard by its content id.   *)
GrantCoversShard ==
  RequireGrant => \A reply \in replies :
    Withheld(reply) \/
      LeafScope(work[reply.token].grant) \in {AllDatasets, DatasetOf[work[reply.token].shard]}

(* A revocation on the chain reaches an agent that keeps running.          *)
RevocationsArrive == \A k \in Revocable : k \in chain ~> k \in known

(* A request that was polled is replied to, unless the agent dies.         *)
RequestsAreReplied ==
  \A d \in Deliveries :
    InBatch(d) /\ Shape(d) = "request" ~> task[d] \in {"done", "lost"}

(* The calls of a run keep the promise the engine relies on.               *)
Question(m) ==
  [form |-> Form(work[m].query), shard |-> work[m].shard,
   honest |-> work[m].host # "stranger"]
Promise ==
  INSTANCE HostCall WITH
    Results <- [form : {"Ok", "Rows"}, shard : DOMAIN Content],
    question <- [m \in Calls |-> Question(m)],
    status <- [m \in Calls |-> IF call[m] = "sent" THEN "waiting" ELSE call[m]],
    answer <- [m \in Calls |-> answer[m]]
ImplementsHostCall == Promise!Spec
=============================================================================
