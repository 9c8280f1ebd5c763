---------------------------- MODULE QueryOutcome ----------------------------
(***************************************************************************)
(* What a query run promises its caller: it ends at most once, either with *)
(* an answer that has one right partial for every shard or with an error,  *)
(* and never with a third thing.  Which partials are right is settled by   *)
(* the inputs: that of a fault-free scan when every candidate host is      *)
(* honest.  engine::run claims this in its module header ("the engine      *)
(* never returns a silently wrong answer").                                *)
(***************************************************************************)

CONSTANT NoAnswer  \* placeholder while there is no answer

VARIABLES
  right,   \* the right partials of each shard; an input, never changed
  status,  \* "running", "answered" or "failed"
  answer   \* the value handed to the caller

vars == <<right, status, answer>>

Acceptable ==
  {parts \in [DOMAIN right -> UNION {right[s] : s \in DOMAIN right}] :
     \A s \in DOMAIN right : parts[s] \in right[s]}

Init ==
  /\ status = "running"
  /\ answer = NoAnswer

Answer ==
  /\ status = "running"
  /\ status' = "answered"
  /\ answer' \in Acceptable
  /\ UNCHANGED right

Fail ==
  /\ status = "running"
  /\ status' = "failed"
  /\ UNCHANGED <<right, answer>>

Next == Answer \/ Fail

SafeSpec == Init /\ [][Next]_vars

Spec == SafeSpec /\ WF_vars(Next)
=============================================================================
