----------------------------- MODULE MCCatalog ------------------------------
(***************************************************************************)
(* Small instances of Catalog: two or three processes on two names.        *)
(***************************************************************************)
EXTENDS Catalog, TLC

CONSTANTS w1, w2, w3

TwoWriters == {w1, w2}
ThreeWriters == {w1, w2, w3}
NoWriter == {}
FirstWriter == {w1}

MCNames == {"a", "b"}

(* w1 and w2 register different datasets; w3 removes the first one.        *)
Ops ==
  (w1 :> [kind |-> "put", name |-> "a"]) @@
  (w2 :> [kind |-> "put", name |-> "b"]) @@
  (w3 :> [kind |-> "remove", name |-> "a"])

MCOp == [w \in Writers |-> Ops[w]]
=============================================================================
