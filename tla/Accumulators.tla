--------------------------- MODULE Accumulators ---------------------------
(***************************************************************************)
(* The accumulators of combine.rs and the fold of query.rs. A group keeps  *)
(* one accumulator for each aggregate; the positions do not influence each *)
(* other, so one record with all five stands for any SELECT list over one  *)
(* column. Counts do not reach their saturation point at 2^64 rows.        *)
(*                                                                         *)
(* Widths: an integer sum is an i128, here -IntMax - 1 .. IntMax; what     *)
(* serde_json can make a JSON number of is JsonMin .. JsonMax (an i64 or a *)
(* u64); ToFloat rounds a number to an f64.                                *)
(***************************************************************************)
EXTENDS QueryModel

CONSTANTS IntMax, JsonMin, JsonMax, ToFloat(_)

ASSUME WidthAssumption == IntMax \in Nat /\ JsonMin \in Int /\ JsonMax \in Int
\* as_f64 has rounded what it reads.
ASSUME RoundedAssumption == \A c \in Cells : c.float # None => ToFloat(c.float) = c.float

FitsInt(n) == -IntMax - 1 <= n /\ n <= IntMax

Abs(n) == IF n < 0 THEN -n ELSE n

-----------------------------------------------------------------------------
(* KahanSum.                                                               *)

KahanZero == [sum |-> 0, comp |-> 0]

KahanAdd(k, v) ==
  LET t == ToFloat(k.sum + v)
      lost == IF Abs(k.sum) >= Abs(v)
              THEN ToFloat(ToFloat(k.sum - t) + v)
              ELSE ToFloat(ToFloat(v - t) + k.sum)
  IN  [sum |-> t, comp |-> ToFloat(k.comp + lost)]

KahanMerge(k, other) ==
  LET added == KahanAdd(k, other.sum)
  IN  [added EXCEPT !.comp = ToFloat(@ + other.comp)]

KahanTotal(k) == ToFloat(k.sum + k.comp)

-----------------------------------------------------------------------------
(* SUM: the integer lane until a fraction comes or the integers overflow.  *)

IntSum(n) == [lane |-> "int", total |-> n]
FloatSum(k) == [lane |-> "float", total |-> k]

\* Both overflowing and promoting start a compensated sum with the integer.
Promoted(n) == KahanAdd(KahanZero, ToFloat(n))

AddInt(acc, n) ==
  CASE acc.lane = "float" -> FloatSum(KahanAdd(acc.total, ToFloat(n)))
    [] acc.lane = "int" /\ FitsInt(acc.total + n) -> IntSum(acc.total + n)
    [] OTHER -> FloatSum(KahanAdd(Promoted(acc.total), ToFloat(n)))

\* Fault variant: the integers summed before the first fraction are dropped.
AddFloatDropsIntegers(acc, v) ==
  FloatSum(KahanAdd(IF acc.lane = "int" THEN KahanZero ELSE acc.total, v))

AddFloat(acc, v) ==
  FloatSum(KahanAdd(IF acc.lane = "int" THEN Promoted(acc.total) ELSE acc.total, v))

\* fold_sum.
FoldSum(acc, num) ==
  IF num.lane = "int" THEN AddInt(acc, num.val) ELSE AddFloat(acc, num.val)

MergeSum(a, b) ==
  IF b.lane = "int" THEN AddInt(a, b.total)
  ELSE FloatSum(KahanMerge(IF a.lane = "int" THEN Promoted(a.total) ELSE a.total, b.total))

-----------------------------------------------------------------------------
(* The five aggregates of a group.                                         *)

Zero == [count |-> 0, sum |-> IntSum(0), min |-> None, max |-> None,
         avgSum |-> KahanZero, avgCount |-> 0]

\* Fault variant: a side without a value erases the other's.
LeastForgets(m, v) == IF m = None THEN v ELSE IF v = None THEN None ELSE Smaller(m, v)

Least(m, v) == IF m = None THEN v ELSE IF v = None THEN m ELSE Smaller(m, v)
Greatest(m, v) == IF m = None THEN v ELSE IF v = None THEN m ELSE Larger(m, v)

\* Agg::fold of one row for each aggregate: a missing or non-numeric cell only counts.
Fold(acc, row, field) ==
  LET c == Cell(row, field)
  IN  [count |-> acc.count + 1,
       sum |-> IF c.num = None THEN acc.sum ELSE FoldSum(acc.sum, c.num),
       min |-> Least(acc.min, c.float),
       max |-> Greatest(acc.max, c.float),
       avgSum |-> IF c.float = None THEN acc.avgSum ELSE KahanAdd(acc.avgSum, c.float),
       avgCount |-> IF c.float = None THEN acc.avgCount ELSE acc.avgCount + 1]

\* Accum::merge at each position.
MergeAccum(a, b) ==
  [count |-> a.count + b.count,
   sum |-> MergeSum(a.sum, b.sum),
   min |-> Least(a.min, b.min),
   max |-> Greatest(a.max, b.max),
   avgSum |-> KahanMerge(a.avgSum, b.avgSum),
   avgCount |-> a.avgCount + b.avgCount]

-----------------------------------------------------------------------------
(* A partial: the accumulators of each group that has a row.               *)

EmptyPartial == <<>>

\* Query::map_shard takes in one row that the predicate holds for.
FoldRow(partial, row, groupBy, field) ==
  LET key == GroupKey(row, groupBy)
      old == IF key \in DOMAIN partial THEN partial[key] ELSE Zero
  IN  [k \in DOMAIN partial \cup {key} |->
         IF k = key THEN Fold(old, row, field) ELSE partial[k]]

\* Fault variant: a group that both sides have is overwritten.
MergePartialOverwrites(a, b) ==
  [k \in DOMAIN a \cup DOMAIN b |-> IF k \in DOMAIN b THEN b[k] ELSE a[k]]

\* Partial::merge.
MergePartial(a, b) ==
  [k \in DOMAIN a \cup DOMAIN b |->
     IF k \in DOMAIN a /\ k \in DOMAIN b THEN MergeAccum(a[k], b[k])
     ELSE IF k \in DOMAIN a THEN a[k] ELSE b[k]]

\* finalize_value of SUM builds a JSON number: no such number holds a larger integer.
Finalizable(acc) ==
  acc.sum.lane = "int" => JsonMin <= acc.sum.total /\ acc.sum.total <= JsonMax

\* finalize_value; the division of AVG is left out.
Finalize(acc) ==
  [count |-> acc.count, min |-> acc.min, max |-> acc.max,
   sum |-> IF acc.sum.lane = "int" THEN acc.sum.total ELSE KahanTotal(acc.sum.total),
   avg |-> IF acc.avgCount = 0 THEN None
           ELSE [total |-> KahanTotal(acc.avgSum), count |-> acc.avgCount]]
=============================================================================
