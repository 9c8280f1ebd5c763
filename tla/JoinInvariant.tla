---------------------------- MODULE JoinInvariant ----------------------------
(***************************************************************************)
(* The inductive invariant of Join: what the buckets joined so far have    *)
(* given.                                                                  *)
(***************************************************************************)
EXTENDS Join

(* The pairs whose left row is in bucket b, and those in a bucket joined.  *)
PairsOf(b) == {p \in MatchingPairs : BucketOf(left[p[1]], keys.left) = b}
PairsJoined == {p \in MatchingPairs : BucketOf(left[p[1]], keys.left) < bucket}

Merged(p) == MergeRows(left[p[1]], right[p[2]])

Chosen ==
  /\ left \in Lefts /\ right \in Rights /\ keys \in Keys /\ hash \in Hashes
  /\ n \in Nat \ {0} /\ bucket \in 0 .. n

(* Each pair of a bucket that was joined has its row, and nothing else has. *)
JoinedOnce ==
  /\ out \in Seq({Merged(p) : p \in MatchingPairs})
  /\ Len(out) = Cardinality(PairsJoined)
  /\ \A p \in MatchingPairs :
       Count(out, Merged(p)) = Cardinality({q \in PairsJoined : Merged(q) = Merged(p)})

(* The first bucket comes in the order of a nested loop.                   *)
FirstInOrder ==
  bucket = 1 =>
    \A p \in PairsOf(0) :
      out[1 + Cardinality({q \in PairsOf(0) : Before(q, p)})] = Merged(p)

IInv == Chosen /\ JoinedOnce /\ FirstInOrder
=============================================================================
