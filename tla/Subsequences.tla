---------------------------- MODULE Subsequences ----------------------------
(***************************************************************************)
(* What Rust's Iterator::filter keeps of a sequence, named by the          *)
(* positions it keeps, and a finite set in an order, as sort_by and a      *)
(* BTreeMap list it.  Counting.tla has the facts about them.               *)
(***************************************************************************)
EXTENDS Naturals, Sequences, FiniteSets

(* The k-th smallest number of a finite set K.                             *)
NthOf(K, k) == CHOOSE i \in K : Cardinality({j \in K : j <= i}) = k

(* The elements of s at the positions K, in their order.                   *)
Kept(s, K) == [k \in 1 .. Cardinality(K) |-> s[NthOf(K, k)]]

(* The elements of P that R places before p, and the place that gives p.   *)
Earlier(P, R, p) == {q \in P : <<q, p>> \in R}
Place(P, R, p) == 1 + Cardinality(Earlier(P, R, p))

(* The elements of a finite set P, first the one that R places first.      *)
Listed(P, R) == [k \in 1 .. Cardinality(P) |-> CHOOSE p \in P : Place(P, R, p) = k]
=============================================================================
