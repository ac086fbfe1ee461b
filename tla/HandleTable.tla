------------------------------ MODULE HandleTable ------------------------------
(***************************************************************************)
(* The handle table of src/runtime/lua/fk_abi.lua, through which a guest   *)
(* names the engine's objects by number: transient handles, dropped when   *)
(* the dispatch that made them ends, and persistent ones, retained by the  *)
(* guest and kept in the save.  The nine global handles below FirstDynamic *)
(* never change and are left out.                                          *)
(***************************************************************************)
EXTENDS Integers, Sequences, FiniteSets

CONSTANTS
    Obj,            \* the engine's objects
    NoObj,          \* nil
    FirstDynamic,   \* the first handle that is not a global (10)
    Transient       \* the first transient handle (0x40000000)

ASSUME HandleAssumption ==
    /\ NoObj \notin Obj
    /\ FirstDynamic \in Nat \ {0} /\ Transient \in Nat
    /\ FirstDynamic < Transient

Persistent == FirstDynamic..(Transient - 1)

NewTable == [persistent |-> [p \in Persistent |-> NoObj],
             free |-> <<>>, nextP |-> FirstDynamic, transient |-> <<>>]

\* M.transient: the table after handing obj out, and the handle it gets.
Hand(t, obj) == [t EXCEPT !.transient = Append(@, obj)]
NextTransient(t) == Transient + Len(t.transient)

\* M.clear_transient.
ClearTransient(t) == [t EXCEPT !.transient = <<>>]

\* M.get.
Get(t, h) ==
    IF h >= Transient
    THEN IF h < NextTransient(t) THEN t.transient[h - Transient + 1] ELSE NoObj
    ELSE IF h \in Persistent THEN t.persistent[h] ELSE NoObj

\* M.retain of a transient handle: the slot it takes, 0 when there is none left
\* (ERR_NO_SPACE), and the table after it.
Slot(t) == IF t.free # <<>> THEN t.free[Len(t.free)]
           ELSE IF t.nextP < Transient THEN t.nextP ELSE 0

Retain(t, obj) ==
    LET n == Len(t.free)
        u == IF n > 0 THEN [t EXCEPT !.free = SubSeq(@, 1, n - 1)]
                      ELSE [t EXCEPT !.nextP = @ + 1]
    IN  IF Slot(t) = 0 THEN u ELSE [u EXCEPT !.persistent[Slot(t)] = obj]

\* M.release of a persistent handle.
Release(t, h) ==
    IF h \in Persistent /\ t.persistent[h] # NoObj
    THEN [t EXCEPT !.persistent[h] = NoObj, !.free = Append(@, h)]
    ELSE t

\* The members of a set of numbers, smallest first.
Ascending(S) == [i \in 1..Cardinality(S) |->
                    CHOOSE n \in S : Cardinality({m \in S : m < n}) = i - 1]

InUse(persistent) == {p \in Persistent : persistent[p] # NoObj}

\* Mutant: the slots below nextP are not searched for free ones, and nextP
\* starts over.
AdoptAsIs(saved) == [NewTable EXCEPT !.persistent = saved]

\* M.adopt: the table a load makes of the saved one.
Adopt(saved) ==
    LET used == InUse(saved)
        next == IF used = {} THEN FirstDynamic
                ELSE 1 + (CHOOSE p \in used : \A q \in used : q <= p)
    IN  [persistent |-> saved, nextP |-> next, transient |-> <<>>,
         free |-> Ascending(FirstDynamic..(next - 1) \ used)]

IsTable(t) ==
    /\ t.persistent \in [Persistent -> Obj \cup {NoObj}]
    /\ t.free \in Seq(Persistent)
    /\ t.nextP \in Nat /\ t.nextP >= FirstDynamic
    /\ t.transient \in Seq(Obj)

=============================================================================
