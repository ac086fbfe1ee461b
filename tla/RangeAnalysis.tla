----------------------------- MODULE RangeAnalysis -----------------------------
(***************************************************************************)
(* The range and wrap analysis of the compiler (src/internal/analysis/     *)
(* rng.go over the graph of src/internal/ir/cfg.go), and the Lua printed   *)
(* by its answers (src/internal/luagen/expr.go).  An i32 lives in a Lua    *)
(* number; the analysis says which additions, subtractions and             *)
(* multiplications may be printed without their `% 2^32`, and what the     *)
(* lowering of an instruction may take for granted, from intervals it      *)
(* solves for twice: once without deferring a wrap, and once with the      *)
(* first answers to look ahead in.  The function then runs, and must do    *)
(* what WasmFunction does.                                                 *)
(***************************************************************************)
EXTENDS Interval, Sequences, FiniteSets, Bitwise
LOCAL INSTANCE SequencesExt

CONSTANTS
    Width,          \* bits of a word
    SafeMag,        \* what a deferred value may not reach (2^48)
    MulLimit,       \* constants a multiplication is specialised for (2^21)
    CodeCaps,       \* maxRounds, maxWidenings, maxThresholds
    TighterCaps,    \* smaller ones, which do bite
    Param, Declared,    \* the function's parameters, and its other locals
    NoLocal,
    Arguments,      \* what a parameter may be when the function is called
    Programs        \* functions: sequences of blocks

ASSUME AnalysisAssumption ==
    /\ Width \in Nat \ {0} /\ Word = 2^Width
    /\ SafeMag \in Nat /\ SafeMag >= Word /\ MulLimit \in 1..Word
    /\ TighterCaps \cup {CodeCaps} \subseteq [rounds : Nat \ {0}, widenings : Nat, thresholds : Nat]
    /\ Param \cap Declared = {} /\ NoLocal \notin Param \cup Declared
    /\ Arguments \subseteq U32

VARIABLES
    blocks,     \* the function
    cfg,        \* its graph and the ladder of its thresholds
    stage,      \* "first", "second": which solution; then "run"
    sol,        \* the solver's state
    round, cap, \* its sweeps so far, and what it is limited to
    ahead,      \* the first solution's answers
    answer,     \* the second one's
    at, local   \* the Lua function running: its block, its locals

solver == <<sol, round, cap>>
vars == <<blocks, cfg, stage, solver, ahead, answer, at, local>>

Wasm == INSTANCE WasmFunction

Local == Wasm!Local
Arity(op) == Wasm!Arity(op)
Block == 1..Len(blocks)
Solving == stage \in {"first", "second"}

-----------------------------------------------------------------------------
(* The graph: BuildCFG *)

SuccsOf(b) ==
    CASE b.kind = "cond"  -> IF b.true = b.false THEN <<b.true>> ELSE <<b.true, b.false>>
      [] b.kind = "jump"  -> <<b.true>>
      [] b.kind = "leave" -> <<>>

RECURSIVE DepthFirst(_, _, _)
DepthFirst(f, found, b) ==
    IF b \in found.seen THEN found
    ELSE LET all == FoldLeft(LAMBDA g, s : DepthFirst(f, g, s),
                             [found EXCEPT !.seen = @ \cup {b}], SuccsOf(f[b]))
         IN  [all EXCEPT !.post = Append(@, b)]

\* reversePostorder
OrderOf(f) == Reverse(DepthFirst(f, [seen |-> {}, post |-> <<>>], 1).post)

\* retreatingTargets
RetreatingOf(f, order) ==
    {s \in ToSet(order) : \E i, j \in DOMAIN order :
        i <= j /\ order[i] = s /\ s \in ToSet(SuccsOf(f[order[j]]))}

\* thresholds: the cliffs and the rung below each, and the function's constants.
ThresholdsOf(f, most) ==
    LET base == {0, 1, Half - 2, Half - 1, Half, Word - 2, Word - 1}
        steps == UNION {ToSet(f[b].code) : b \in DOMAIN f}
        all == base \cup {c \in U32 : \E s \in steps : s.op = "const" /\ c - s.arg \in -1..1}
    IN  IF Cardinality(all) > most THEN base ELSE all

BuildCFG(f, most) == [order |-> OrderOf(f), retreating |-> RetreatingOf(f, OrderOf(f)),
                ladder |-> ThresholdsOf(f, most)]

-----------------------------------------------------------------------------
(* What is known about the locals *)

Nothing == [l \in Local |-> FullU32]
EntryLocals == [l \in Local |-> IF l \in Declared THEN Between(0, 0) ELSE FullU32]

JoinLocals(s, t) == [l \in Local |-> Join(s[l], t[l])]

Tighten(s, l, r) ==
    IF l = NoLocal \/ Empty(Meet(s[l], r)) THEN s ELSE [s EXCEPT ![l] = Meet(@, r)]

\* guardFacts: what a test compares, and the locals it read them from.
Guard(op, invert, aLocal, bLocal, a, b) ==
    [op |-> op, invert |-> invert, aLocal |-> aLocal, bLocal |-> bLocal, a |-> a, b |-> b]
NoGuard == Guard("nop", FALSE, NoLocal, NoLocal, FullU32, FullU32)

Narrowed(s, g, taken) ==
    LET really == taken # g.invert
        r == Refine(g.op, g.a, g.b, really)
    IN  IF g.op = "nop" \/ ~Refinable(g.op, g.a, g.b, really) THEN s
        ELSE Tighten(Tighten(s, g.aLocal, r[1]), g.bLocal, r[2])

RungAbove(v) == LET up == {t \in cfg.ladder : t >= v}
                IN  IF up = {} THEN Word - 1 ELSE CHOOSE t \in up : \A u \in up : t <= u
RungBelow(v) == LET down == {t \in cfg.ladder : t <= v}
                IN  IF down = {} THEN 0 ELSE CHOOSE t \in down : \A u \in down : t >= u

Climbs(old, next) == \E l \in Local : next[l].lo < old[l].lo \/ next[l].hi > old[l].hi

\* Mutant: bounds climb one iteration of the loop at a time.
WidenNothing(old, next) == next

Widen(old, next) ==
    [l \in Local |-> Between(IF next[l].lo < old[l].lo THEN RungBelow(next[l].lo) ELSE next[l].lo,
                             IF next[l].hi > old[l].hi THEN RungAbove(next[l].hi) ELSE next[l].hi)]

-----------------------------------------------------------------------------
(* transfer *)

LowMask(k) == \E n \in 1..(Width - 1) : k = 2^n - 1
HighMask(k) == LowMask(Word - 1 - k)
IsMask(r) == ConstU32(r) /\ LowMask(r.lo)

\* The instructions whose wrap may be left out, and what they are worth then.
Wraps(op, a, b) ==
    \/ op \in {"add", "sub"}
    \/ op = "mul" /\ ConstU32(b) /\ b.lo < MulLimit /\ a.lo >= 0
Unwrapped(op, a, b) == CASE op = "add" -> Plus(a, b)
                         [] op = "sub" -> Minus(a, b)
                         [] op = "mul" -> Times(a, b.lo)

\* StackDepth before each step, and at the end.
Heights(code) ==
    LET h[i \in 1..(Len(code) + 1)] ==
            IF i = 1 THEN 0
            ELSE h[i - 1] - Arity(code[i - 1].op) + IF code[i - 1].op = "set" THEN 0 ELSE 1
    IN  h

\* consumers: the step of the same block that reads what step i leaves, if any.
Consumers(code, i) ==
    LET h == Heights(code)
        reads == {j \in (i + 1)..Len(code) : h[j] - Arity(code[j].op) < h[i + 1]}
    IN  {j \in reads : \A k \in reads : j <= k}

\* Step j reads what step i leaves as its first operand.
IsFirst(code, i, j) == Heights(code)[j] - Arity(code[j].op) + 1 = Heights(code)[i + 1]

\* Mutant: any constant shift is taken to mask its operand.
AbsorbsAnyShift(op, b) == op = "shl" /\ ConstU32(b)

\* A constant shift masks the shifted side, unless its distance is 0.
AbsorbsShift(op, b) == op = "shl" /\ ConstU32(b) /\ b.lo % Width # 0

\* absorbs: the one reader of step i reduces it modulo Word anyway.
Absorbed(code, i, args) ==
    \E j \in Consumers(code, i) :
       \/ code[j].op \in {"add", "sub"}
       \/ /\ code[j].op \in {"and", "shl"} /\ IsFirst(code, i, j)
          /\ \/ code[j].op = "and" /\ IsMask(args[j][2])
             \/ AbsorbsShift(code[j].op, args[j][2])

\* Mutant: a deferred value may grow without limit.
AnySize(r) == TRUE

Safe(r) == r.lo > -SafeMag /\ r.hi < SafeMag

\* Mutant: a wrap is put off whoever reads the value.
MayElideForAnyone(r, code, i, known) == FitsU32(r) \/ (known # <<>> /\ Safe(r))

\* maybeDefer: the wrap of step i, worth r without it, is not printed.
MayElide(r, code, i, known) ==
    FitsU32(r) \/ (known # <<>> /\ Safe(r) /\ Absorbed(code, i, known))

Transfer(op, a, b) ==
    CASE op = "and" -> IF IsMask(b) THEN Between(0, b.lo)
                       ELSE IF b = Between(0, 0) THEN b
                       ELSE IF IsMask(a) THEN Between(0, a.lo)
                       ELSE Between(0, IF Least(a.hi, b.hi) \in U32 THEN Least(a.hi, b.hi)
                                       ELSE Word - 1)
      [] op = "shr_u" -> IF ConstU32(b) /\ FitsU32(a)
                         THEN LET d == 2^(b.lo % Width) IN Between(a.lo \div d, a.hi \div d)
                         ELSE FullU32
      [] op = "shl"   -> IF ConstU32(b) /\ b.lo % Width = 0 THEN a ELSE FullU32
      [] op \in Compare -> Between(0, 1)
      [] OTHER -> FullU32

-----------------------------------------------------------------------------
(* runBlock: a block run on intervals.  An entry of the stack is an interval, *)
(* the local it is a copy of, and what it says if it is a comparison.         *)

Entry(r, from, fact) == [r |-> r, from |-> from, fact |-> fact]

\* compareFacts; eqz of a comparison is that comparison turned round.
FactOf(op, x, y) ==
    IF op = "eqz" /\ x.fact.op \notin {"nop", "eqz"}
    THEN [x.fact EXCEPT !.invert = ~@]
    ELSE Guard(op, FALSE, x.from, IF op = "eqz" THEN NoLocal ELSE y.from,
               x.r, IF op = "eqz" THEN FullU32 ELSE y.r)

\* Mutant: what was known of the copies of a local outlives an assignment to it.
Keep(e, l) == e

\* local.set: the entry is a copy of l, or compares it, no longer.
Detach(e, l) ==
    LET Without(k) == IF k = l THEN NoLocal ELSE k
    IN  [e EXCEPT !.from = Without(@), !.fact.aLocal = Without(@), !.fact.bLocal = Without(@)]

\* A local only ever holds the i32 itself.
Clamp(r) == IF FitsU32(r) THEN r ELSE FullU32

Assign(m, l, tee) ==
    LET r == Clamp(Last(m.stack).r)
        kept == [k \in 1..(Len(m.stack) - 1) |-> Detach(m.stack[k], l)]
    IN  [m EXCEPT !.local[l] = r,
                  !.stack = IF tee THEN Append(kept, Entry(r, l, NoGuard)) ELSE kept]

Compute(m, code, i, known) ==
    LET op == code[i].op
        x == Last(Wasm!Pop(m.stack, Arity(op) - 1))
        y == Last(m.stack)
        raw == Unwrapped(op, x.r, y.r)
        elide == Wraps(op, x.r, y.r) /\ MayElide(raw, code, i, known)
        fact == IF op \in Compare THEN FactOf(op, x, y) ELSE NoGuard
    IN  [m EXCEPT !.elide = IF elide THEN @ \cup {i} ELSE @,
                  !.stack = Append(Wasm!Pop(@, Arity(op)),
                                   Entry(IF elide THEN raw ELSE Transfer(op, x.r, y.r), NoLocal, fact))]

\* resolveGuard: a bare local is tested against zero.
Resolve(stack) ==
    LET e == Last(stack)
    IN  IF stack = <<>> THEN NoGuard
        ELSE IF e.fact # NoGuard THEN e.fact
        ELSE IF e.from # NoLocal THEN Guard("eqz", TRUE, e.from, NoLocal, e.r, FullU32)
        ELSE NoGuard

RunBlock(b, entry, known) ==
    LET code == blocks[b].code
        Do(m, i) ==
            CASE code[i].op = "const" ->
                    [m EXCEPT !.stack = Append(@, Entry(Between(code[i].arg, code[i].arg), NoLocal, NoGuard))]
              [] code[i].op = "get" ->
                    [m EXCEPT !.stack = Append(@, Entry(m.local[code[i].arg], code[i].arg, NoGuard))]
              [] code[i].op \in {"set", "tee"} -> Assign(m, code[i].arg, code[i].op = "tee")
              [] OTHER -> Compute(m, code, i, known)
        Step(m, i) ==
            LET read == Wasm!Top(m.stack, Arity(code[i].op))
            IN  [Do(m, i) EXCEPT !.args = Append(@, [k \in DOMAIN read |-> read[k].r])]
        end == FoldLeft(Step, [local |-> entry, stack |-> <<>>, args |-> <<>>, elide |-> {}],
                        [i \in DOMAIN code |-> i])
    IN  [entry |-> entry, exit |-> end.local, guard |-> Resolve(end.stack),
         args |-> end.args, elide |-> end.elide]

-----------------------------------------------------------------------------
(* The solver *)

\* What is not known of block b yet is not asked for before it is seen.
Unsolved == [in |-> [b \in Block |-> IF b = 1 THEN EntryLocals ELSE Nothing],
             seen |-> {1}, dirty |-> {1}, widened |-> [b \in Block |-> 0], moved |-> TRUE]

Merge(s, b, st) ==
    LET joined == JoinLocals(s.in[b], st)
        climbs == b \in cfg.retreating /\ Climbs(s.in[b], joined)
        next == IF ~climbs THEN joined
                ELSE IF s.widened[b] = cap.widenings THEN Nothing
                ELSE Widen(s.in[b], joined)
    IN  IF b \notin s.seen
        THEN [s EXCEPT !.in[b] = st, !.seen = @ \cup {b}, !.dirty = @ \cup {b}, !.moved = TRUE]
        ELSE IF next = s.in[b] THEN s
        ELSE [s EXCEPT !.in[b] = next, !.dirty = @ \cup {b}, !.moved = TRUE,
                       !.widened[b] = IF climbs THEN @ + 1 ELSE @]

Known(b) == IF ahead = <<>> THEN <<>> ELSE ahead[b].args

Visit(s, b) ==
    LET ran == RunBlock(b, s.in[b], Known(b))
        Edge(c) == IF blocks[b].kind = "cond" /\ blocks[b].true # blocks[b].false
                   THEN Narrowed(ran.exit, ran.guard, c = blocks[b].true)
                   ELSE ran.exit
    IN  IF b \notin s.dirty THEN s
        ELSE FoldLeft(LAMBDA t, c : Merge(t, c, Edge(c)), [s EXCEPT !.dirty = @ \ {b}],
                      SuccsOf(blocks[b]))

Init ==
    /\ blocks \in Programs /\ cap \in TighterCaps \cup {CodeCaps}
    /\ cfg = BuildCFG(blocks, cap.thresholds)
    /\ stage = "first" /\ sol = Unsolved /\ round = 0
    /\ ahead = <<>> /\ answer = <<>>
    /\ Wasm!Init

\* One pass in reverse postorder over the blocks whose entry moved.
Sweep ==
    /\ Solving /\ sol.moved /\ round < cap.rounds
    /\ sol' = FoldLeft(Visit, [sol EXCEPT !.moved = FALSE], cfg.order)
    /\ round' = round + 1
    /\ UNCHANGED <<blocks, cfg, stage, cap, ahead, answer, at, local>>

\* A solution that still moves at the cap is no solution.
Overflow == sol.moved

\* The answers are written once, from what the sweeps settled on.
Record ==
    LET found == [b \in Block |-> RunBlock(b, IF Overflow THEN Nothing ELSE sol.in[b], Known(b))]
    IN  /\ Solving /\ (sol.moved => round = cap.rounds)
        /\ IF stage = "first"
           THEN /\ ahead' = found /\ stage' = "second"
                /\ sol' = Unsolved /\ round' = 0
                /\ UNCHANGED answer
           ELSE /\ answer' = found /\ stage' = "run"
                /\ UNCHANGED <<ahead, sol, round>>
        /\ UNCHANGED <<blocks, cfg, cap, at, local>>

-----------------------------------------------------------------------------
(* The Lua that is printed: stepExpr, condExpr *)

Biased(x, r) == IF ConstU32(r) THEN (r.lo + Half) % Word ELSE (x + Half) % Word

LuaCompare(op, x, y, rx, ry) ==
    LET direct == op \notin SignedOps \/ (Below(rx, Half) /\ Below(ry, Half))
        u == IF direct THEN x ELSE Biased(x, rx)
        v == IF direct THEN y ELSE Biased(y, ry)
    IN  CASE op = "eqz" -> x = 0
          [] op = "eq" -> x = y
          [] op = "ne" -> x # y
          [] op \in {"lt_u", "lt_s"} -> u < v
          [] op \in {"le_u", "le_s"} -> u <= v
          [] op \in {"gt_u", "gt_s"} -> u > v
          [] op \in {"ge_u", "ge_s"} -> u >= v

\* Where the second operand is a constant, arithmetic may stand for bit32.
LuaBits(op, x, y, k) ==
    LET constant == IF ConstU32(k) THEN k.lo ELSE -1
    IN  CASE op = "and" /\ LowMask(constant)    -> x % (constant + 1)
          [] op = "and" /\ constant >= 0 /\ HighMask(constant) -> x - (x % (Word - constant))
          [] op = "and" /\ constant = Word - 1  -> x
          [] op = "and" /\ constant = 0         -> 0
          [] op = "or" /\ constant = Word - 1   -> Word - 1
          [] op = "xor" /\ constant = Word - 1  -> Word - 1 - x
          [] op \in {"or", "xor"} /\ constant = 0 -> x
          [] OTHER -> CASE op = "and" -> (x % Word) & (y % Word)
                        [] op = "or"  -> (x % Word) | (y % Word)
                        [] op = "xor" -> (x % Word) ^^ (y % Word)

LuaShift(op, x, n) ==
    IF n = 0 THEN x
    ELSE IF op = "shl" THEN (x % 2^(Width - n)) * 2^n
    ELSE (x - (x % 2^n)) \div 2^n

\* The number an addition, subtraction or multiplication has before its wrap.
Unreduced(op, x, y) == CASE op = "add" -> x + y [] op = "sub" -> x - y [] op = "mul" -> x * y

LuaStep(op, args, known, elided) ==
    LET x == args[1]
        y == IF Len(args) = 2 THEN args[2] ELSE 0
        rx == known[1]
        ry == IF Len(args) = 2 THEN known[2] ELSE FullU32
        distance == IF ConstU32(ry) THEN ry.lo % Width ELSE y % Width
    IN  CASE op \in {"add", "sub", "mul"} -> IF elided THEN Unreduced(op, x, y) ELSE Unreduced(op, x, y) % Word
          [] op \in {"and", "or", "xor"} -> LuaBits(op, x, y, ry)
          [] op \in {"shl", "shr_u"} -> LuaShift(op, x, distance)
          [] op \in Compare -> IF LuaCompare(op, x, y, rx, ry) THEN 1 ELSE 0

RunLua(b, start) ==
    LET code == blocks[b].code
    IN  Wasm!Run(code, start,
                 LAMBDA i, args : LuaStep(code[i].op, args, answer[b].args[i], i \in answer[b].elide))

Call ==
    /\ stage = "run" /\ at = 0 /\ at' = 1
    /\ \E p \in [Param -> Arguments] : local' = [l \in Local |-> IF l \in Param THEN p[l] ELSE 0]
    /\ UNCHANGED <<blocks, cfg, stage, solver, ahead, answer>>

LuaBlock ==
    /\ at \in Block
    /\ local' = RunLua(at, local).local
    /\ at' = Wasm!Follows(at, RunLua(at, local).stack)
    /\ UNCHANGED <<blocks, cfg, stage, solver, ahead, answer>>

Next == Sweep \/ Record \/ Call \/ LuaBlock
Spec == Init /\ [][Next]_vars

-----------------------------------------------------------------------------
(* Properties *)

TypeOK ==
    /\ stage \in {"first", "second", "run"}
    /\ sol.in \in [Block -> [Local -> Interval]] /\ \A b \in Block, l \in Local : FitsU32(sol.in[b][l])
    /\ sol.seen \subseteq Block /\ sol.dirty \subseteq sol.seen
    /\ round \in 0..cap.rounds
    /\ at \in 0..(Len(blocks) + 1) /\ local \in [Local -> U32]

\* What the analysis says of a number is true of it whenever the Lua runs: each
\* operand lies in the interval recorded for it (rng.go:11), and each local in the
\* one its block is entered with (rng.go:357: what is solved is a post-fixpoint).
RangesHold ==
    at \in Block =>
        LET ran == RunLua(at, local)
        IN  /\ \A l \in Local : In(local[l], answer[at].entry[l])
            /\ \A i \in DOMAIN ran.args : \A k \in DOMAIN ran.args[i] :
                  In(ran.args[i][k], answer[at].args[i][k])

\* However many wraps are put off, no number leaves what a double holds exactly
\* (rng.go:27): 2^53 is Word times the limit on a constant factor.  A product by
\* anything else is mul32's.
StaysExact ==
    at \in Block =>
        LET code == blocks[at].code
            ran == RunLua(at, local)
        IN  \A i \in DOMAIN code :
               \/ code[i].op \notin {"add", "sub", "mul"}
               \/ code[i].op = "mul" /\ ~Below(answer[at].args[i][2], MulLimit)
               \/ Unreduced(code[i].op, ran.args[i][1], ran.args[i][2])
                     \in (-Word * MulLimit)..(Word * MulLimit)

\* Widening makes the sweeps end (rng.go:221): the cap on them, which throws every
\* answer away, is not what ends them.
WideningSettles == Solving /\ cap = CodeCaps /\ round = cap.rounds => ~Overflow

\* The Lua does what the function does, block by block: the same locals, the same
\* branch taken.  A wrap that was put off is never seen (rng.go:1047, luagen.go:11).
SameResults == Wasm!Spec

=============================================================================
