----------------------------- MODULE MCModRuntime -----------------------------
(***************************************************************************)
(* ModRuntime for TLC: a bounded number of calls by the guest, of events   *)
(* and of loads together, and the fairness the engine's scheduling gives.  *)
(***************************************************************************)
EXTENDS ModRuntime

CONSTANTS
    MaxCalls,       \* how many of them
    NoHook, TellsFresh, TellsAdopted     \* the builds, by the hook they export

MCHook == [b \in Build |-> CASE b \in NoHook -> "none"
                             [] b \in TellsFresh -> "fk_migrate"
                             [] b \in TellsAdopted -> "fk_migrate_adopt"]

\* The build that adopts another's heap has events with a larger payload.
MCAsks == [b \in Build |-> [event |-> IF b \in TellsAdopted THEN 2 ELSE 1, callback |-> 1]]

VARIABLE calls
mcVars == <<vars, calls>>

\* A game that has run for a while: one event's handler retained two objects and
\* another's released the first.  Which variable and which objects is all one.
Worn ==
    LET obj == CHOOSE o \in Obj : TRUE
        var == CHOOSE v \in Var : TRUE
    IN  /\ Resting /\ cache = {<<"event", 1>>}
        /\ table = Release(Retain(Retain(NewTable, obj), obj), FirstDynamic)
        /\ heap = [FreshHeap(build) EXCEPT !.holds[var] = FirstDynamic + 1,
                                           !.means[var] = obj,
                                           !.made[<<"event", 1>>] = <<Asks[build]["event"]>>]

MCInit == calls = 0 /\ (Init \/ Worn)

Bounded == GuestCalls \/ Engine \/ \E b \in Build : SaveAndLoad(b)
Free == EntryEnds \/ Walks \/ TickBegins

MCNext ==
    \/ calls < MaxCalls /\ calls' = calls + 1 /\ Bounded
    \/ Free /\ UNCHANGED calls

\* A handler comes to its end, the engine serves what it has begun, ticks go on
\* coming whatever else happens between them, a collection needs finitely many
\* steps (CollectionEnds of module Collector) and a grown memory finitely many
\* pieces.
MCSpec ==
    /\ MCInit /\ [][MCNext]_mcVars
    /\ WF_mcVars(EntryEnds /\ UNCHANGED calls)
    /\ WF_mcVars(Walks /\ UNCHANGED calls)
    /\ SF_mcVars(TickBegins /\ UNCHANGED calls)
    /\ SF_mcVars(CollectorSteps /\ ~heap'.busy /\ UNCHANGED calls)
    /\ SF_mcVars(Prebuild /\ UNCHANGED calls)

=============================================================================
