------------------------------ MODULE MCCollector ------------------------------
(***************************************************************************)
(* Collector bounded for TLC: it starts from a small heap already built,   *)
(* the guest performs at most MaxOps operations on it, collections begin   *)
(* at most MaxCollections times and the game is saved and loaded at most   *)
(* MaxLoads times.                                                         *)
(***************************************************************************)
EXTENDS Collector, TLC

CONSTANTS small, MaxOps, MaxCollections, MaxLoads

VARIABLES ops, collections, loads

budget == <<ops, collections, loads>>

\* Heaps a few operations build: a span of small objects, and beside it room to
\* grow into or a large object, pointing at each other in every way.
SmallHeap ==
    /\ objs = SpanWords(0) /\ cur = [c \in Small |-> {}]
    /\ class = [s \in Span |-> IF s = 0 THEN small ELSE Unassigned]
    /\ aux = [s \in Span |-> 0]
    /\ covered = SpanLimit - 1

MixedHeap ==
    /\ objs = {First(0), First(1)}
    /\ cur = [c \in Small |-> IF c = small THEN SpanWords(0) \ {First(0)} ELSE {}]
    /\ class = [s \in Span |-> IF s = 0 THEN small ELSE IF s = 1 THEN Large ELSE LargeMid]
    /\ aux = [s \in Span |-> IF s = 0 THEN 0 ELSE IF s = 1 THEN SpanLimit - 1 ELSE 1]
    /\ covered = SpanLimit

Second == CHOOSE b \in objs : b # First(0)

\* One register holds the first object and the other object hangs from it, or,
\* in the small heap, is garbage from the start.
MCInit ==
    /\ SmallHeap \/ MixedHeap
    /\ \E v \in {Second} \cup (IF covered < SpanLimit THEN {Nil} ELSE {}) :
          mem = [u \in Word |-> IF u = First(0) THEN v ELSE Nil]
    /\ \E r \in Reg : roots = [q \in Reg |-> IF q = r THEN First(0) ELSE Nil]
    /\ Idle
    /\ ops = 0 /\ collections = 0 /\ loads = 0

\* What changes nothing is not counted.
GuestOp == /\ Guest /\ ops < MaxOps
           /\ ops' = IF <<memory, pc>>' = <<memory, pc>> THEN ops ELSE ops + 1
           /\ UNCHANGED <<collections, loads>>

\* The allocator's valve is not counted.
Begin ==
    /\ Start \/ Collect
    /\ IF pc = "run"
       THEN collections < MaxCollections /\ collections' = collections + 1
       ELSE UNCHANGED collections
    /\ UNCHANGED <<ops, loads>>

Reload == SaveAndLoad /\ loads < MaxLoads /\ loads' = loads + 1
          /\ UNCHANGED <<ops, collections>>

Unbudgeted == /\ Allocator \/ HostStep \/ Marker \/ Sweeper \/ Return
              /\ UNCHANGED budget

MCNext == GuestOp \/ Begin \/ Reload \/ Unbudgeted

Registers == Permutations(Reg)

MCSpec == MCInit /\ [][MCNext]_<<vars, budget>>
=============================================================================
