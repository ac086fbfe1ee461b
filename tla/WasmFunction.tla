------------------------------ MODULE WasmFunction ------------------------------
(***************************************************************************)
(* A WebAssembly function on i32 locals, run block by block: what the Lua  *)
(* the compiler prints for it must do.  A block is stack code that ends in *)
(* a test of the value it leaves, a jump, or the end of the function.      *)
(***************************************************************************)
EXTENDS Interval, Sequences, Bitwise
LOCAL INSTANCE SequencesExt

CONSTANTS Width, Param, Declared    \* bits of a word; parameters and other locals

VARIABLES blocks, at, local         \* the function, its block (0: not called) and locals

Local == Param \cup Declared

-----------------------------------------------------------------------------
(* Stack code *)

Binary == {"add", "sub", "mul", "and", "or", "xor", "shl", "shr_u"} \cup (Compare \ {"eqz"})
Arity(op) == IF op \in Binary THEN 2 ELSE IF op \in {"set", "tee", "eqz"} THEN 1 ELSE 0

Pop(stack, n) == SubSeq(stack, 1, Len(stack) - n)
Top(stack, n) == SubSeq(stack, Len(stack) - n + 1, Len(stack))

\* Runs code from the locals given, computing with Do(step, arguments), and
\* keeps every step's arguments.
Run(code, start, Do(_, _)) ==
    LET Step(m, i) ==
            LET op == code[i].op
                arg == code[i].arg
                args == Top(m.stack, Arity(op))
                v == CASE op = "const" -> arg
                       [] op = "get" -> m.local[arg]
                       [] op \in {"set", "tee"} -> args[1]
                       [] OTHER -> Do(i, args)
            IN  [local |-> IF op \in {"set", "tee"} THEN [m.local EXCEPT ![arg] = v] ELSE m.local,
                 stack |-> Pop(m.stack, Arity(op)) \o IF op = "set" THEN <<>> ELSE <<v>>,
                 args  |-> Append(m.args, args)]
    IN  FoldLeft(Step, [local |-> start, stack |-> <<>>, args |-> <<>>],
                 [i \in 1..Len(code) |-> i])

\* The block that follows b when its code has left the stack given.
Follows(b, stack) ==
    CASE blocks[b].kind = "cond"  -> IF Head(stack) # 0 THEN blocks[b].true ELSE blocks[b].false
      [] blocks[b].kind = "jump"  -> blocks[b].true
      [] blocks[b].kind = "leave" -> Len(blocks) + 1

-----------------------------------------------------------------------------

Operate(op, x, y) ==
    CASE op = "add"   -> (x + y) % Word
      [] op = "sub"   -> (x - y) % Word
      [] op = "mul"   -> (x * y) % Word
      [] op = "and"   -> x & y
      [] op = "or"    -> x | y
      [] op = "xor"   -> x ^^ y
      [] op = "shl"   -> (x * 2^(y % Width)) % Word
      [] op = "shr_u" -> x \div 2^(y % Width)
      [] op \in Compare -> IF Holds(op, x, y) THEN 1 ELSE 0

Second(args) == IF Len(args) = 2 THEN args[2] ELSE 0

Init == at = 0 /\ local = [l \in Local |-> 0]

Call ==
    /\ at = 0 /\ at' = 1
    /\ \E p \in [Param -> U32] : local' = [l \in Local |-> IF l \in Param THEN p[l] ELSE 0]
    /\ UNCHANGED blocks

Block ==
    LET ran == Run(blocks[at].code, local,
                   LAMBDA i, args : Operate(blocks[at].code[i].op, args[1], Second(args)))
    IN  /\ at \in 1..Len(blocks)
        /\ local' = ran.local
        /\ at' = Follows(at, ran.stack)
        /\ UNCHANGED blocks

Next == Call \/ Block
Spec == Init /\ [][Next]_<<blocks, at, local>>

=============================================================================
