------------------------------ MODULE ManagedHeap ------------------------------
(***************************************************************************)
(* What a guest is promised by its garbage-collected heap: objects it      *)
(* allocates read as zero and are its own, stores and loads do what they   *)
(* say, and the only objects that ever go away are ones it can no longer   *)
(* reach.  An object is the set of its words; a pointer is a word of the   *)
(* object, not necessarily the first one (the collector is conservative).  *)
(* This is the contract of -gc=custom in src/guest/go/fkgc; the module     *)
(* Collector says how fkgc keeps it.                                       *)
(***************************************************************************)
EXTENDS FiniteSets

CONSTANTS
    Word,       \* the addressable words of the heap
    Reg,        \* the guest's roots: its globals and its stack
    Nil         \* no pointer; not a word

VARIABLES
    objs,       \* the objects that exist: a set of disjoint sets of words
    mem,        \* what each word of an object holds (Nil elsewhere)
    roots       \* what each root holds

vars == <<objs, mem, roots>>

(***************************************************************************)
(* A set S of objects is closed when it holds every object a root points   *)
(* into and every object its members point into.                           *)
(***************************************************************************)
Closed(S) ==
    /\ S \subseteq objs
    /\ \A o \in objs :
          (\E r \in Reg : roots[r] \in o) \/ (\E p \in S : \E w \in p : mem[w] \in o)
             => o \in S

\* The objects the guest can reach: those in every closed set.
Live == {o \in objs : \A S \in SUBSET objs : Closed(S) => o \in S}

-----------------------------------------------------------------------------
Init ==
    /\ objs = {}
    /\ mem = [w \in Word |-> Nil]
    /\ roots = [r \in Reg |-> Nil]

\* A new object over unused words: zero, and held by register r alone.
Allocate(r) ==
    \E w \in Word :
       /\ roots' = [roots EXCEPT ![r] = w]
       /\ \E o \in SUBSET Word :
             /\ w \in o
             /\ objs' = objs \cup {o}
             /\ \A p \in objs : o \cap p = {}
       /\ UNCHANGED mem

\* r := *p, where p is a word of an object that exists.
Load(r, p) ==
    /\ UNCHANGED objs
    /\ \E o \in objs : roots[p] \in o
    /\ roots' = [roots EXCEPT ![r] = mem[roots[p]]]
    /\ UNCHANGED mem

\* *p := r.
Store(p, r) ==
    /\ UNCHANGED <<objs, roots>>
    /\ \E o \in objs : roots[p] \in o
    /\ mem' = [mem EXCEPT ![roots[p]] = roots[r]]

\* r := p + k, inside the object p points into.
Derive(r, p) ==
    /\ UNCHANGED objs
    /\ \E o \in objs :
          /\ roots[p] \in o
          /\ \E w \in o : roots' = [roots EXCEPT ![r] = w]
    /\ UNCHANGED mem

Forget(r) ==
    /\ roots' = [roots EXCEPT ![r] = Nil]
    /\ UNCHANGED <<objs, mem>>

\* Some objects the guest cannot reach go away, and their memory with them.
Reclaim ==
    /\ UNCHANGED roots
    /\ \E S \in SUBSET objs :
          /\ objs' = objs \ S
          /\ mem' = [w \in Word |-> IF w \in UNION S THEN Nil ELSE mem[w]]
          /\ S \cap Live = {}

Next ==
    \/ \E r \in Reg : Allocate(r) \/ Forget(r)
    \/ \E r, p \in Reg : Load(r, p) \/ Store(p, r) \/ Derive(r, p)
    \/ Reclaim

Spec == Init /\ [][Next]_vars

-----------------------------------------------------------------------------
(***************************************************************************)
(* The guest never holds a pointer to memory that was taken back: every    *)
(* root, and every word of an object it can reach, is null or points into  *)
(* an object that exists.                                                  *)
(***************************************************************************)
NoDangling ==
    LET Fine(v) == v = Nil \/ \E o \in objs : v \in o
    IN  /\ \A r \in Reg : Fine(roots[r])
        /\ \A o \in objs : (\E w \in o : ~Fine(mem[w])) => o \notin Live

=============================================================================
