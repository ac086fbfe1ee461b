------------------------------- MODULE Lockstep -------------------------------
(***************************************************************************)
(* A multiplayer game: every peer runs the same guest on the same inputs,  *)
(* each with its own handle table, and a peer that joins loads the save of *)
(* one that plays (state_load of src/runtime/lua/fk_mod.lua).  Nothing but *)
(* the inputs keeps the peers together, so what a peer's runtime decides   *)
(* alone must come out the same on all of them.                            *)
(***************************************************************************)
EXTENDS HandleTable

CONSTANTS
    Peer, Server,
    Var         \* the guest's variables that hold a handle

VARIABLES
    connected,  \* the peers in the game
    table,      \* Peer -> its handle table
    memory      \* Peer -> the guest's variables: the handle each holds, or 0

vars == <<connected, table, memory>>

Init ==
    /\ connected = {Server}
    /\ table = [p \in Peer |-> NewTable]
    /\ memory = [p \in Peer |-> [v \in Var |-> 0]]

\* On every peer, the guest retains the object a handler was given.
GuestRetains(v, obj) ==
    /\ \A p \in connected : memory[p][v] = 0
    /\ table' = [p \in Peer |-> IF p \in connected THEN Retain(table[p], obj) ELSE table[p]]
    /\ memory' = [p \in Peer |-> IF p \in connected
                                 THEN [memory[p] EXCEPT ![v] = Slot(table[p])] ELSE memory[p]]
    /\ UNCHANGED connected

GuestReleases(v) ==
    /\ \A p \in connected : memory[p][v] # 0
    /\ table' = [p \in Peer |-> IF p \in connected THEN Release(table[p], memory[p][v])
                                                  ELSE table[p]]
    /\ memory' = [p \in Peer |-> IF p \in connected
                                 THEN [memory[p] EXCEPT ![v] = 0] ELSE memory[p]]
    /\ UNCHANGED connected

\* on_load runs on the peer that joins and on no other.
Join(p) ==
    /\ p \notin connected
    /\ connected' = connected \cup {p}
    /\ table' = [table EXCEPT ![p] = Adopt(table[Server].persistent)]
    /\ memory' = [memory EXCEPT ![p] = memory[Server]]

Next ==
    \/ \E v \in Var : GuestReleases(v) \/ \E obj \in Obj : GuestRetains(v, obj)
    \/ \E p \in Peer : Join(p)

Spec == Init /\ [][Next]_vars

-----------------------------------------------------------------------------
\* Handle numbering is deterministic across a load (fk_mod.lua:2010, "every
\* client adopts the same saved table and derives the same list from it"), so
\* the guests of all peers hold the same numbers: guest memory is in the state
\* the engine compares.
PeersAgree == \A p, q \in connected : memory[p] = memory[q]

=============================================================================
