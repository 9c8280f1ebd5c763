----------------------------- MODULE CostLimits -----------------------------
(***************************************************************************)
(* The cost ceilings of a query (CostLimits in engine.rs), checked against *)
(* the declared size of a dataset before any host is contacted.            *)
(***************************************************************************)
EXTENDS Naturals, FiniteSetsExt

Measures == {"rows", "bytes"}

(* declared[m][s] is what shard s of the dataset S declares; a limit of    *)
(* zero is no limit.                                                       *)
WithinLimits(limits, declared, S) ==
  /\ limits.maxShards = 0 \/ Cardinality(S) <= limits.maxShards
  /\ \A m \in Measures :
       \/ limits.maxScan[m] = 0
       \/ MapThenSumSet(LAMBDA s : declared[m][s], S) <= limits.maxScan[m]
=============================================================================
