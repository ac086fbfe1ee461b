---------------------------- MODULE MCRangeAnalysis ----------------------------
(***************************************************************************)
(* RangeAnalysis on families of small functions of a parameter argX and    *)
(* locals varI and varJ: loops that count up or down behind every guard    *)
(* and every test, loops in loops, chains of arithmetic in which wraps     *)
(* are put off, and sums long enough to reach the limit on them.           *)
(***************************************************************************)
EXTENDS RangeAnalysis, TLC

CONSTANTS argX, varI, varJ

Const(k) == [op |-> "const", arg |-> k]
Get(l) == [op |-> "get", arg |-> l]
Set(l) == [op |-> "set", arg |-> l]
Tee(l) == [op |-> "tee", arg |-> l]
Op(o) == [op |-> o, arg |-> 0]

Leaves(code) == [kind |-> "leave", code |-> code]
Jumps(code, b) == [kind |-> "jump", code |-> code, true |-> b]
Tests(code, b, c) == [kind |-> "cond", code |-> code, true |-> b, false |-> c]

\* What is tested before the loop is entered, if anything.
Heads == {Jumps(<<>>, 2), Tests(<<Get(argX)>>, 2, 3),
          Tests(<<Get(argX), Const(1), Op("lt_s")>>, 3, 2),
          Jumps(<<Get(argX), Set(varI)>>, 2)}

Moves == {<<Get(varI), Const(k), Op(o)>> : k \in {1, 3}, o \in {"add", "sub"}}
Bounds == {<<Get(argX)>>, <<Const(5)>>}
Orders == Compare \ {"eqz"}

\* The local is compared after it moves, or its old value is and it moves before the branch.
Closing(move, bound, o) ==
    {move \o <<Tee(varI)>> \o bound \o <<Op(o)>>,
     <<Get(varI)>> \o bound \o <<Op(o)>> \o move \o <<Set(varI)>>,
     move \o <<Tee(varI)>> \o bound \o <<Op(o), Op("eqz")>>}

Bodies == UNION {Closing(m, b, o) : m \in Moves, b \in Bounds, o \in Orders}
          \cup {m \o <<Tee(varI)>> : m \in Moves}

\* What follows the loop uses what it is known to have left.
Exit == Leaves(<<Get(varI), Const(1), Op("sub"), Set(varI)>>)

Loops == {<<h, Tests(body, 2, 3), Exit>> : h \in Heads, body \in Bodies}

Chains ==
    {<<Leaves(<<Get(argX), Const(a), Op(o), Const(b), Op(p), Const(c), Op(q), Set(varI)>>)>> :
        a \in {1, 3}, o \in {"add", "sub", "mul"},
        b \in {0, 1, 3}, p \in {"add", "sub", "mul", "and", "xor", "shl"},
        c \in {0, 1, 3, Word - 2, Word - 1},
        q \in {"sub", "and", "or", "xor", "shl", "shr_u", "lt_u", "lt_s"}}

Sum(n) == <<Leaves(<<Get(argX)>> \o [k \in 1..(2 * n) |-> IF k % 2 = 1 THEN Get(argX) ELSE Op("add")]
                   \o <<Set(varI)>>)>>
Sums == {Sum(n) : n \in 1..6}

\* A loop in a loop, the inner bounded by what the outer counts or by a constant.
Count(l, bound, o) == <<Get(l), Const(1), Op("add"), Tee(l)>> \o bound \o <<Op(o)>>
Nests ==
    {<<Jumps(<<>>, 2), Jumps(<<Const(0), Set(varJ)>>, 3),
       Tests(Count(varJ, inner, o), 3, 4), Tests(Count(varI, outer, p), 2, 5),
       Leaves(<<Get(varI), Get(varJ), Op("sub"), Set(varI)>>)>> :
        inner \in {<<Get(varI)>>, <<Const(3)>>}, outer \in {<<Get(argX)>>, <<Const(5)>>},
        o \in {"lt_u", "lt_s", "ne"}, p \in {"lt_u", "lt_s", "le_s"}}

MCPrograms == Loops \cup Chains \cup Sums \cup Nests
Limits(r, w, t) == [rounds |-> r, widenings |-> w, thresholds |-> t]
MCCodeCaps == Limits(20, 512, 48)
MCTighterCaps == {Limits(2, 512, 48), Limits(20, 1, 8)}
MCArguments == {0, 1, Half - 1, Half, Word - 1}
=============================================================================
