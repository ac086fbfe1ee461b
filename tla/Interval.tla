-------------------------------- MODULE Interval --------------------------------
(***************************************************************************)
(* The domain of the compiler's range analysis                             *)
(* (src/internal/analysis/rng.go): closed intervals over the number a Lua  *)
(* variable holds, which need not be the i32 itself but only congruent to  *)
(* it, and what a comparison that was taken, or not taken, says about the  *)
(* intervals of its operands.                                              *)
(***************************************************************************)
EXTENDS Integers

CONSTANT Word   \* 2^32

ASSUME IntervalAssumption == Word \in Nat /\ Word > 1 /\ Word % 2 = 0

Half == Word \div 2     \* signBit
U32 == 0..(Word - 1)

Between(lo, hi) == [lo |-> lo, hi |-> hi]
Interval == [lo : Int, hi : Int]
FullU32 == Between(0, Word - 1)

In(v, r) == r.lo <= v /\ v <= r.hi
Empty(r) == r.lo > r.hi
FitsU32(r) == r.lo >= 0 /\ r.hi <= Word - 1
Below(r, n) == r.lo >= 0 /\ r.hi < n
ConstU32(r) == r.lo = r.hi /\ FitsU32(r)

Least(x, y) == IF x < y THEN x ELSE y
Most(x, y) == IF x > y THEN x ELSE y

Join(a, b) == Between(Least(a.lo, b.lo), Most(a.hi, b.hi))
Meet(a, b) == Between(Most(a.lo, b.lo), Least(a.hi, b.hi))

-----------------------------------------------------------------------------
(* The comparisons of WebAssembly *)

Signed(v) == IF v < Half THEN v ELSE v - Word

Unsigned == {"lt_u", "le_u", "gt_u", "ge_u"}
SignedOps == {"lt_s", "le_s", "gt_s", "ge_s"}
Compare == {"eqz", "eq", "ne"} \cup Unsigned \cup SignedOps

\* eqz has one operand and ignores y.
Holds(op, x, y) ==
    \/ op = "eqz" /\ x = 0
    \/ op = "eq" /\ x = y
    \/ op = "ne" /\ x # y
    \/ op = "lt_u" /\ x < y
    \/ op = "le_u" /\ x <= y
    \/ op = "gt_u" /\ x > y
    \/ op = "ge_u" /\ x >= y
    \/ op = "lt_s" /\ Signed(x) < Signed(y)
    \/ op = "le_s" /\ Signed(x) <= Signed(y)
    \/ op = "gt_s" /\ Signed(x) > Signed(y)
    \/ op = "ge_s" /\ Signed(x) >= Signed(y)

-----------------------------------------------------------------------------
(* refine *)

\* An order and the order that holds exactly when it does not; the rest have none.
Invertible == Unsigned \cup SignedOps
InvertCmp(op) ==
    CASE op = "lt_u" -> "ge_u" [] op = "ge_u" -> "lt_u"
      [] op = "le_u" -> "gt_u" [] op = "gt_u" -> "le_u"
      [] op = "lt_s" -> "ge_s" [] op = "ge_s" -> "lt_s"
      [] op = "le_s" -> "gt_s" [] op = "gt_s" -> "le_s"

Excluding(r, k) ==
    IF k.lo # k.hi THEN r
    ELSE IF k.lo = r.lo THEN Between(r.lo + 1, r.hi)
    ELSE IF k.lo = r.hi THEN Between(r.lo, r.hi - 1)
    ELSE r

\* What a signed order says once the smaller side is known to be at least 0:
\* the larger is then a positive number too.
Above(small, large, gap) ==
    LET above == Between(Most(large.lo, small.lo + gap), Least(large.hi, Half - 1))
    IN  [small |-> Between(small.lo, Least(small.hi, above.hi - gap)), large |-> above]

Smaller(small, large, gap) ==
    IF Below(small, Half) THEN Above(small, large, gap)
    ELSE [small |-> small, large |-> large]

\* The intervals of x and y where x op y holds.
Refined(op, a, b) ==
    CASE op = "eq"   -> <<Meet(a, b), Meet(a, b)>>
      [] op = "ne"   -> <<Excluding(a, b), Excluding(b, a)>>
      [] op = "lt_u" -> <<Between(a.lo, Least(a.hi, b.hi - 1)), Between(Most(b.lo, a.lo + 1), b.hi)>>
      [] op = "le_u" -> <<Between(a.lo, Least(a.hi, b.hi)), Between(Most(b.lo, a.lo), b.hi)>>
      [] op = "gt_u" -> <<Between(Most(a.lo, b.lo + 1), a.hi), Between(b.lo, Least(b.hi, a.hi - 1))>>
      [] op = "ge_u" -> <<Between(Most(a.lo, b.lo), a.hi), Between(b.lo, Least(b.hi, a.hi))>>
      [] op = "lt_s" -> LET s == Smaller(a, b, 1) IN <<s.small, s.large>>
      [] op = "le_s" -> LET s == Smaller(a, b, 0) IN <<s.small, s.large>>
      [] op = "gt_s" -> LET s == Smaller(b, a, 1) IN <<s.large, s.small>>
      [] op = "ge_s" -> LET s == Smaller(b, a, 0) IN <<s.large, s.small>>

\* Only a number that is the i32 itself can be refined, and only an order can be
\* turned round; eqz has a hole in place of its opposite.
Refinable(op, a, b, taken) ==
    FitsU32(a) /\ FitsU32(b) /\ (taken \/ op \in Invertible \cup {"eqz"})

Refine(op, a, b, taken) ==
    IF op = "eqz" THEN <<IF taken THEN Between(0, 0) ELSE Between(Most(a.lo, 1), a.hi), b>>
    ELSE IF taken THEN Refined(op, a, b)
    ELSE Refined(InvertCmp(op), a, b)

-----------------------------------------------------------------------------
(* Arithmetic on the numbers themselves *)

Plus(a, b) == Between(a.lo + b.lo, a.hi + b.hi)
Minus(a, b) == Between(a.lo - b.hi, a.hi - b.lo)
Times(a, k) == Between(a.lo * k, a.hi * k)

=============================================================================
