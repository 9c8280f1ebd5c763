------------------------------ MODULE HostCall ------------------------------
(***************************************************************************)
(* What the engine relies on when it calls a map host (src/engine.rs,      *)
(* trait MapHost): a call that was made ends, once, either with an answer  *)
(* or with an error, and the answer of a host that follows the protocol is *)
(* the result of the query that was asked on the shard that was named.     *)
(* Another host may answer with anything of the right form.                *)
(***************************************************************************)
CONSTANTS
  Calls,      \* the calls of MapHost::map and MapHost::project
  Results,    \* all answers: [form, shard]
  Errors,     \* the variants of MapError
  NoAnswer

VARIABLES
  question,   \* per call: [form, shard, honest]
  status,     \* per call: "idle", "waiting", "ok" or an error
  answer      \* per call: the answer of a call that ended well

vars == <<question, status, answer>>

(* The answers the host of question q may give.                            *)
Acceptable(q) ==
  {r \in Results : r.form = q.form /\ (q.honest => r.shard = q.shard)}

Init ==
  /\ question \in [Calls -> [form : {"Ok", "Rows"}, shard : {r.shard : r \in Results},
                             honest : BOOLEAN]]
  /\ status = [c \in Calls |-> "idle"]
  /\ answer = [c \in Calls |-> NoAnswer]

(* A call may fail at once, before anything is sent.                       *)
Ask(c) ==
  /\ status[c] = "idle"
  /\ status' = [status EXCEPT ![c] = "waiting"]
  /\ UNCHANGED <<question, answer>>

Answer(c) ==
  /\ status[c] = "waiting"
  /\ status' = [status EXCEPT ![c] = "ok"]
  /\ \E r \in Acceptable(question[c]) : answer' = [answer EXCEPT ![c] = r]
  /\ UNCHANGED question

Fail(c) ==
  /\ status[c] \in {"idle", "waiting"}
  /\ \E e \in Errors : status' = [status EXCEPT ![c] = e]
  /\ UNCHANGED <<question, answer>>

Next == \E c \in Calls : Ask(c) \/ Answer(c) \/ Fail(c)

(* A call that was made ends.                                              *)
Ends(c) == status[c] = "waiting" /\ (Answer(c) \/ Fail(c))

SafeSpec == Init /\ [][Next]_vars
Spec == SafeSpec /\ \A c \in Calls : WF_vars(Ends(c))
=============================================================================
