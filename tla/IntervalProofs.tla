----------------------------- MODULE IntervalProofs -----------------------------
(***************************************************************************)
(* That the interval domain of the compiler is sound for every word size:  *)
(* the number a step computes is in the interval the analysis computes,    *)
(* a merge forgets nothing that may happen, and a test narrows its         *)
(* operands only to intervals they are in.                                 *)
(***************************************************************************)
EXTENDS Interval, TLAPS

\* The words above and below the sign are as many.
LEMMA HalfType == Half \in Nat /\ Word = 2 * Half /\ Half > 0
BY IntervalAssumption DEF Half

\* Range.join: what may come over either edge into a block is in the interval
\* the block is entered with.
THEOREM JoinSound ==
    ASSUME NEW a \in Interval, NEW b \in Interval, NEW v \in Int, In(v, a) \/ In(v, b)
    PROVE  In(v, Join(a, b))
BY DEF Interval, In, Join, Between, Least, Most

\* Range.meet, locals.tighten: a number in both intervals is in what a guard
\* leaves of them, so an edge whose interval is empty is never taken.
THEOREM MeetSound ==
    ASSUME NEW a \in Interval, NEW b \in Interval, NEW v \in Int, In(v, a), In(v, b)
    PROVE  In(v, Meet(a, b)) /\ ~Empty(Meet(a, b))
BY DEF Interval, In, Meet, Empty, Between, Least, Most

\* transfer of add and sub: the exact sum and difference are in the sum and the
\* difference of the intervals, wrapped or not.
THEOREM SumSound ==
    ASSUME NEW a \in Interval, NEW b \in Interval, NEW x \in Int, NEW y \in Int,
           In(x, a), In(y, b)
    PROVE  In(x + y, Plus(a, b)) /\ In(x - y, Minus(a, b))
BY DEF Interval, In, Plus, Minus, Between

\* transfer of a multiplication by a constant.
THEOREM ProductSound ==
    ASSUME NEW a \in Interval, NEW k \in Nat, NEW x \in Int, In(x, a)
    PROVE  In(x * k, Times(a, k))
<1>1. \A m, n \in Int : m <= n => m * k <= n * k
  OBVIOUS
<1>2. a.lo \in Int /\ a.hi \in Int
  BY DEF Interval
<1> QED
  BY <1>1, <1>2 DEF In, Times, Between

-----------------------------------------------------------------------------

\* excluding: an end of an interval that is known not to be the number moves.
LEMMA ExcludingSound ==
    ASSUME NEW r \in Interval, NEW k \in Interval, NEW v \in Int, NEW w \in Int,
           In(v, r), In(w, k), v # w
    PROVE  In(v, Excluding(r, k))
BY DEF Interval, In, Excluding, Between

\* refineSigned: once the smaller side is known to be at least 0, the signed
\* order is the order of the numbers and the larger side is below the sign bit.
LEMMA SmallerSound ==
    ASSUME NEW a \in Interval, NEW b \in Interval, NEW x \in U32, NEW y \in U32,
           NEW gap \in {0, 1}, In(x, a), In(y, b), Signed(x) + gap <= Signed(y)
    PROVE  In(x, Smaller(a, b, gap).small) /\ In(y, Smaller(a, b, gap).large)
<1>1. CASE ~Below(a, Half)
  BY <1>1 DEF Smaller
<1>2. CASE Below(a, Half)
  <2>1. x < Half /\ Signed(x) = x
    BY <1>2, HalfType DEF Below, In, Interval, Signed, U32
  <2>2. y < Half /\ x + gap <= y
    BY <2>1, HalfType DEF Signed, U32
  <2> QED
    BY <1>2, <2>1, <2>2, HalfType DEF Smaller, Above, In, Interval, Between, Least, Most, U32
<1> QED
  BY <1>1, <1>2

\* The interval of each operand after a test it passed.
LEMMA RefinedSound ==
    ASSUME NEW a \in Interval, NEW b \in Interval, NEW x \in U32, NEW y \in U32,
           In(x, a), In(y, b), NEW op \in Compare \ {"eqz"}, Holds(op, x, y)
    PROVE  In(x, Refined(op, a, b)[1]) /\ In(y, Refined(op, a, b)[2])
<1>0. x \in Int /\ y \in Int
  BY IntervalAssumption DEF U32
<1>1. CASE op = "eq"
  BY <1>0, <1>1, MeetSound DEF Holds, Refined
<1>2. CASE op = "ne"
  BY <1>0, <1>2, ExcludingSound DEF Holds, Refined
<1>3. CASE op \in Unsigned
  <2>1. CASE op = "lt_u"
    BY <1>0, <2>1 DEF Holds, Refined, In, Interval, Between, Least, Most
  <2>2. CASE op = "le_u"
    BY <1>0, <2>2 DEF Holds, Refined, In, Interval, Between, Least, Most
  <2>3. CASE op = "gt_u"
    BY <1>0, <2>3 DEF Holds, Refined, In, Interval, Between, Least, Most
  <2>4. CASE op = "ge_u"
    BY <1>0, <2>4 DEF Holds, Refined, In, Interval, Between, Least, Most
  <2> QED
    BY <1>3, <2>1, <2>2, <2>3, <2>4 DEF Unsigned
<1>4. CASE op \in SignedOps
  <2>0. Signed(x) \in Int /\ Signed(y) \in Int
    BY <1>0, IntervalAssumption DEF Signed
  <2>1. CASE op = "lt_s"
    BY <2>0, <2>1, SmallerSound DEF Holds, Refined
  <2>2. CASE op = "le_s"
    BY <2>0, <2>2, SmallerSound DEF Holds, Refined
  <2>3. CASE op = "gt_s"
    BY <2>0, <2>3, SmallerSound DEF Holds, Refined
  <2>4. CASE op = "ge_s"
    BY <2>0, <2>4, SmallerSound DEF Holds, Refined
  <2> QED
    BY <1>4, <2>1, <2>2, <2>3, <2>4 DEF SignedOps
<1> QED
  BY <1>1, <1>2, <1>3, <1>4 DEF Compare

\* invertCmp: the order that holds exactly when this one does not.
LEMMA InvertCmpExact ==
    ASSUME NEW x \in U32, NEW y \in U32, NEW op \in Invertible, ~Holds(op, x, y)
    PROVE  InvertCmp(op) \in Invertible /\ Holds(InvertCmp(op), x, y)
<1>1. x \in Int /\ y \in Int /\ Signed(x) \in Int /\ Signed(y) \in Int
  BY IntervalAssumption DEF U32, Signed
<1> QED
  BY <1>1 DEF Invertible, Unsigned, SignedOps, InvertCmp, Holds

\* refine: on either edge out of a test of two numbers whose intervals are
\* those of i32s, the numbers are in the intervals the edge is narrowed to.
THEOREM RefineSound ==
    ASSUME NEW a \in Interval, NEW b \in Interval, NEW x \in Int, NEW y \in Int,
           In(x, a), In(y, b), NEW op \in Compare, NEW taken \in BOOLEAN,
           Refinable(op, a, b, taken), Holds(op, x, y) <=> taken
    PROVE  In(x, Refine(op, a, b, taken)[1]) /\ In(y, Refine(op, a, b, taken)[2])
<1>0. x \in U32 /\ y \in U32
  BY IntervalAssumption DEF Refinable, FitsU32, In, Interval, U32
<1>1. CASE op = "eqz"
  BY <1>0, <1>1, IntervalAssumption DEF Refine, Holds, In, Between, Most, Interval, U32
<1>2. CASE op # "eqz" /\ taken
  BY <1>0, <1>2, RefinedSound DEF Refine
<1>3. CASE op # "eqz" /\ ~taken
  <2>1. op \in Invertible
    BY <1>3 DEF Refinable
  <2>2. InvertCmp(op) \in Compare \ {"eqz"} /\ Holds(InvertCmp(op), x, y)
    BY <1>0, <1>3, <2>1, InvertCmpExact DEF Invertible, Compare, Unsigned, SignedOps
  <2> QED
    BY <1>0, <1>3, <2>2, RefinedSound DEF Refine
<1> QED
  BY <1>1, <1>2, <1>3

-----------------------------------------------------------------------------

\* Invariant A: a number that is congruent to an i32 and whose interval is one
\* of i32s is that i32, so a wrap that is left out because the result fits
\* changes nothing.
THEOREM FittingIsExact ==
    ASSUME NEW r \in Interval, NEW x \in Int, In(x, r), FitsU32(r)
    PROVE  x % Word = x
<1>1. x \in 0..(Word - 1)
  BY IntervalAssumption DEF In, FitsU32, Interval
<1> QED
  BY <1>1, IntervalAssumption

\* A quotient and remainder by Word are the only ones.
LEMMA OneRemainder ==
    ASSUME NEW q \in Int, NEW p \in Int, NEW r \in 0..(Word - 1), NEW t \in 0..(Word - 1),
           q * Word + r = p * Word + t
    PROVE  r = t
<1>1. q - p \in Int /\ (q - p) * Word = t - r
  BY IntervalAssumption
<1>2. \A k \in Int : k >= 1 => k * Word >= Word
  BY IntervalAssumption
<1>3. \A k \in Int : k <= -1 => k * Word <= -Word
  BY IntervalAssumption
<1>4. t - r < Word /\ t - r > -Word
  BY IntervalAssumption
<1>5. q - p = 0
  BY <1>1, <1>2, <1>3, <1>4, IntervalAssumption
<1> QED
  BY <1>1, <1>5, IntervalAssumption

\* absorbs: a number that is only congruent to an operand of an add or a sub
\* gives the same result behind the wrap.
THEOREM SumModulo ==
    ASSUME NEW x \in Int, NEW y \in Int
    PROVE  (x + y) % Word = ((x % Word) + y) % Word
<1> DEFINE q == x \div Word  r == x % Word  s == r + y
           p == s \div Word  t == s % Word
           u == (x + y) \div Word  v == (x + y) % Word
<1>1. x = q * Word + r /\ q \in Int /\ r \in 0..(Word - 1)
  BY IntervalAssumption
<1>2. s = p * Word + t /\ p \in Int /\ t \in 0..(Word - 1)
  BY <1>1, IntervalAssumption
<1>3. x + y = u * Word + v /\ u \in Int /\ v \in 0..(Word - 1)
  BY IntervalAssumption
<1>4. (q + p) * Word + t = u * Word + v /\ q + p \in Int
  <2>1. (q + p) * Word = q * Word + p * Word
    BY <1>1, <1>2, IntervalAssumption
  <2> QED
    BY <1>1, <1>2, <1>3, <2>1, IntervalAssumption
<1> QED
  BY <1>2, <1>3, <1>4, OneRemainder

\* biased: adding 2^31 to both sides turns the signed order into the unsigned.
THEOREM BiasedOrder ==
    ASSUME NEW x \in U32, NEW y \in U32
    PROVE  Signed(x) < Signed(y) <=> (x + Half) % Word < (y + Half) % Word
<1> DEFINE Bias(v) == IF v < Half THEN v + Half ELSE v - Half
<1>1. \A v \in U32 : (v + Half) % Word = Bias(v)
  BY HalfType, IntervalAssumption DEF U32
<1> QED
  BY <1>1, HalfType, IntervalAssumption DEF Signed, U32

=============================================================================
