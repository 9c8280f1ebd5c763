--------------------------- MODULE AtomicCatalog ---------------------------
(***************************************************************************)
(* What Catalog::mutate promises: every call takes effect at one instant   *)
(* on the whole catalog or not at all, so that concurrent callers cannot   *)
(* clobber each other's changes.                                           *)
(***************************************************************************)
CONSTANTS
  Writers,  \* the calls of mutate
  Names,    \* dataset names
  Absent,   \* marks a name without a dataset
  Op        \* the change each call asks for: [kind, name]

VARIABLES
  store,    \* the dataset stored under each name, identified by its writer
  outcome   \* per call: "running", "applied" or "failed"

vars == <<store, outcome>>

(* What the closure of call w makes of a catalog c.                        *)
Effect(w, c) ==
  [c EXCEPT ![Op[w].name] = IF Op[w].kind = "put" THEN w ELSE Absent]

(* Removing a name that is not there is an error.                          *)
Applicable(w, c) == Op[w].kind = "put" \/ c[Op[w].name] # Absent

Init ==
  /\ store = [n \in Names |-> Absent]
  /\ outcome = [w \in Writers |-> "running"]

Apply(w) ==
  /\ outcome[w] = "running" /\ Applicable(w, store)
  /\ store' = Effect(w, store)
  /\ outcome' = [outcome EXCEPT ![w] = "applied"]

Fail(w) ==
  /\ outcome[w] = "running"
  /\ outcome' = [outcome EXCEPT ![w] = "failed"]
  /\ UNCHANGED store

Next == \E w \in Writers : Apply(w) \/ Fail(w)

Spec == Init /\ [][Next]_vars
=============================================================================
