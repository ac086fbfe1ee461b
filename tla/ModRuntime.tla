------------------------------ MODULE ModRuntime ------------------------------
(***************************************************************************)
(* One peer's mod runtime (src/runtime/lua/fk_mod.lua): the dispatches it  *)
(* runs the guest in, which nest; the one-shots it walks when a tick       *)
(* comes; and what it keeps in `storage`, so that a load finds the guest   *)
(* as the save left it, or, when the mod was rebuilt meanwhile, settles    *)
(* that with the guest before anything else runs.  Of the guest's memory   *)
(* it has what the runtime answers for: the handles the guest holds, the   *)
(* buffers made in it for the host, its marshalling arena, and whether it  *)
(* is collecting.                                                          *)
(***************************************************************************)
EXTENDS HandleTable

CONSTANTS
    Var,            \* the guest's variables that hold a handle
    Period,         \* the periods the guest may arm fk_on_nth_tick for
    Build,          \* the builds of the mod
    OnTick,         \* those whose guest exports fk_on_tick
    Hook,           \* how the guest of each wants to hear of a rebuild
    Asks,           \* the sizes of the buffers each asks its guest for
    MigrateTraps,   \* whether fk_migrate may trap
    MaxDepth,       \* how deep dispatches nest
    ScratchSize     \* how many payloads the string scratch region holds

OneShot == {"deferred", "gc", "after_load", "prebuild"}
Paced == {"gc", "prebuild"}
Hooks == {"none", "fk_migrate", "fk_migrate_adopt"}
Kind == {"event", "callback"}
Buffer == Kind \X (1..MaxDepth)

ASSUME RuntimeAssumption ==
    /\ OnTick \subseteq Build /\ Hook \in [Build -> Hooks]
    /\ Asks \in [Build -> [Kind -> Nat \ {0}]]
    /\ MigrateTraps \in BOOLEAN
    /\ MaxDepth \in Nat \ {0} /\ ScratchSize \in Nat

VARIABLES
    \* the engine
    alive,      \* no error of a handler has ended the session
    list,       \* what is registered on on_tick, in order
    walk,       \* the position of the walk over it, 0 when no tick is being served
    torn,       \* the walked list was emptied: a later registration starts another
    armed,      \* the one-shots whose _armed flag is set
    nth,        \* nth_armed
    \* storage
    stored,     \* fk_deferred, fk_gc, fk_nth and the stamp fk_build
    stale,      \* of its heap, handles and buffers, those that are not the live ones
    \* the build that runs
    build,
    owed,       \* rebuild_pending
    untold,     \* history: the notices of a rebuild the guest has still to get
    \* the guest, and the host's tables about it
    heap, table, cache,
    \* dispatches
    stack,      \* the guest's entries in progress, outermost first
    waiting,    \* the outermost entry that waits for a rebuild's notice
    tok,        \* arena_tok is set
    top,        \* scratchTop
    pieces      \* history: how often the paced ones ran in this tick

ticking  == <<list, walk, torn, armed, pieces>>
storage  == <<stored, stale>>
versions == <<build, owed, untold>>
guest    == <<heap, table, cache>>
depth    == <<stack, waiting, tok, top>>
vars == <<alive, ticking, nth, storage, versions, guest, depth>>

\* The heap the _initialize of build b makes.
FreshHeap(b) == [by    |-> b,                       \* the build it is laid out by
                 holds |-> [v \in Var |-> 0],       \* the handle each variable holds
                 means |-> [v \in Var |-> NoObj],   \* and what it was retained for
                 made  |-> [u \in Buffer |-> <<>>], \* the sizes of the buffers made for the host
                 refused |-> [k \in Kind |-> 0],    \* history: loads that gave up buffers in it
                 arena |-> 0, saved |-> 0,          \* the arena, and its one mark
                 busy  |-> FALSE]                   \* the collector is not idle

\* The mirror publish_buffers writes: the buffers there are and their sizes.
Mirror == [cache |-> cache, asks |-> Asks[build]]

\* `storage` holds the live heap, handles and buffers; and what a save taken now
\* has of each.
NothingStale == [heap |-> <<>>, handles |-> <<>>, bufs |-> <<>>]
Saved == [heap    |-> IF stale.heap = <<>> THEN heap ELSE stale.heap[1],
          handles |-> IF stale.handles = <<>> THEN table.persistent ELSE stale.handles[1],
          bufs    |-> IF stale.bufs = <<>> THEN Mirror ELSE stale.bufs[1]]

Nobody == [entry |-> "none", obj |-> NoObj]

\* What is registered when control.lua has run.
Permanent(b) == IF b \in OnTick THEN <<"tick">> ELSE <<>>

\* Between two dispatches of a game that never was loaded: on_init's state_init
\* has published everything.
Resting ==
    /\ alive = TRUE
    /\ build \in Build /\ owed = FALSE /\ untold = 0
    /\ list = Permanent(build) /\ walk = 0 /\ torn = FALSE
    /\ armed = {} /\ nth = {} /\ pieces = [f \in Paced |-> 0]
    /\ stored = [deferred |-> FALSE, gc |-> FALSE, nth |-> {}, stamp |-> build]
    /\ stale = NothingStale
    /\ stack = <<>> /\ waiting = Nobody /\ tok = FALSE /\ top = 0

Init == Resting /\ heap = FreshHeap(build) /\ table = NewTable /\ cache = {}

Last(s) == s[Len(s)]
Front(s) == SubSeq(s, 1, Len(s) - 1)
AtRest == alive /\ stack = <<>> /\ waiting = Nobody

-----------------------------------------------------------------------------
(* Into the guest: dispatch, invoke_callback, enter_outermost *)

\* Mutant: the scratch region is reset by every dispatch.
ScratchResetAlways(outermost) == 0

\* Where an entry's payload goes in the scratch region (scratch_reset).
ScratchFrom(outermost) == IF outermost THEN 0 ELSE top

\* Raise the depth over the frames s and write what the entry is given; t, h and
\* st are the table, the heap and the stale parts of `storage` it finds.  An event
\* or a callback has a buffer for its level, made and published when there is none
\* (event_buffer, call_buffer), its strings in the scratch region or, when they are
\* too long for what is left of it, in the arena, and an object.
Raise(s, entry, obj, t, h, st) ==
    LET b     == <<entry, Len(s) + 1>>
        given == b \in Buffer
        makes == given /\ b \notin cache
        from  == ScratchFrom(s = <<>>)
    IN  \E fits \in BOOLEAN :
        /\ fits => from < ScratchSize
        /\ stack' = Append(s, [entry |-> entry, obj |-> obj, arena |-> h.arena, lo |-> from,
                               hi |-> IF given /\ fits THEN from + 1 ELSE from,
                               h  |-> IF given THEN NextTransient(t) ELSE 0])
        /\ top' = IF given /\ fits THEN from + 1 ELSE from
        /\ table' = IF given THEN Hand(t, obj) ELSE t
        /\ cache' = IF given THEN cache \cup {b} ELSE cache
        /\ heap' = IF ~given THEN h
                   ELSE [h EXCEPT !.made[b] = IF makes THEN Append(@, Asks[build][entry]) ELSE @,
                                  !.arena = IF fits THEN @ ELSE @ + 1]
        /\ stale' = IF makes THEN [st EXCEPT !.bufs = <<>>] ELSE st

\* fk_arena_mark: the guest has one slot for it.
Marked(h) == [h EXCEPT !.saved = h.arena]

\* An outermost entry, once nothing is owed.
Open(entry, obj, t, h, st) == Raise(<<>>, entry, obj, t, Marked(h), st) /\ tok' = TRUE

\* Mutant: the stamp stays that of the build the save came from.
StampNothing(st) == st

\* state_init: with the live heap, handles and buffers `storage` gets the stamp.
Stamp(st) == [st EXCEPT !.stamp = build]

\* Mutant: what a rebuild owes is told and not published.
TellOnly(entry, obj, st) ==
    /\ owed' = FALSE /\ Open(entry, obj, table, heap, stale)
    /\ stored' = st /\ UNCHANGED <<untold, waiting>>

\* finish_rebuild for a guest that exports no hook: the loss is logged.
Discard(entry, obj, st) ==
    /\ owed' = FALSE /\ Open(entry, obj, table, heap, NothingStale)
    /\ stored' = Stamp(st) /\ UNCHANGED <<untold, waiting>>

\* finish_rebuild: the flag comes down and the guest is told, in an outermost
\* dispatch of its own; the entry waits.
Tell(entry, obj, st) ==
    /\ owed' = FALSE /\ untold' = untold - 1
    /\ waiting' = [entry |-> entry, obj |-> obj]
    /\ Open("migrate", NoObj, table, heap, stale)
    /\ stored' = st

\* The outermost entry of a dispatch; st is `storage` as its caller left it.
Enter(entry, obj, st) ==
    /\ IF ~owed
       THEN /\ Open(entry, obj, table, heap, stale)
            /\ stored' = st /\ UNCHANGED <<owed, untold, waiting>>
       ELSE IF Hook[build] = "none" THEN Discard(entry, obj, st) ELSE Tell(entry, obj, st)
    /\ UNCHANGED <<alive, nth, build>>

-----------------------------------------------------------------------------
(* The guest's own calls, in a handler *)

GuestRuns == alive /\ stack # <<>> /\ Last(stack).entry # "gc"

\* on_event for a one-shot that is not armed yet.
Arm(f) ==
    IF f \in armed THEN UNCHANGED <<list, armed>>
    ELSE list' = Append(list, f) /\ armed' = armed \cup {f}

\* fk.defer (arm_deferred), fk.gc by way of fkgc.Start (arm_gc), memory.grow.
Defers ==
    /\ GuestRuns /\ Arm("deferred")
    /\ stored' = [stored EXCEPT !.deferred = TRUE]
    /\ UNCHANGED <<alive, walk, torn, pieces, nth, stale, versions, guest, depth>>

Collects ==
    /\ GuestRuns /\ ~heap.busy /\ Arm("gc")
    /\ stored' = [stored EXCEPT !.gc = TRUE]
    /\ heap' = [heap EXCEPT !.busy = TRUE]
    /\ UNCHANGED <<alive, walk, torn, pieces, nth, stale, versions, table, cache, depth>>

Grows ==
    /\ GuestRuns /\ Arm("prebuild")
    /\ UNCHANGED <<alive, walk, torn, pieces, nth, storage, versions, guest, depth>>

\* set_nth_tick; a disarm of period 0 disarms them all.
SetNthTick(periods) ==
    /\ GuestRuns
    /\ nth' = periods
    /\ stored' = [stored EXCEPT !.nth = periods]
    /\ UNCHANGED <<alive, ticking, stale, versions, guest, depth>>

\* fk_retain of the object it was entered with.
Retains(v) ==
    /\ GuestRuns /\ heap.holds[v] = 0
    /\ LET f == Last(stack) IN
       /\ Get(table, f.h) # NoObj
       /\ table' = Retain(table, Get(table, f.h))
       /\ heap' = [heap EXCEPT !.holds[v] = Slot(table),
                               !.means[v] = IF Slot(table) = 0 THEN NoObj ELSE f.obj]
    /\ UNCHANGED <<alive, ticking, nth, storage, versions, cache, depth>>

Releases(v) ==
    /\ GuestRuns /\ heap.holds[v] # 0
    /\ table' = Release(table, heap.holds[v])
    /\ heap' = [heap EXCEPT !.holds[v] = 0, !.means[v] = NoObj]
    /\ UNCHANGED <<alive, ticking, nth, storage, versions, cache, depth>>

\* A host call that enters the guest again before it returns: the engine raises
\* an event from inside it, or the call is a remote.call that comes back.
Reenters(entry, obj) ==
    /\ GuestRuns /\ Len(stack) < MaxDepth
    /\ Raise(stack, entry, obj, table, heap, stale)
    /\ UNCHANGED <<alive, ticking, nth, stored, versions, waiting, tok>>

-----------------------------------------------------------------------------
(* Out of the guest: the second half of dispatch, leave_outermost *)

\* fk_arena_release.
Released(h) == IF tok THEN [h EXCEPT !.arena = h.saved] ELSE h

\* sync_memory: a heap in `storage` whose size is not that of the live one is put
\* right; one of the same size it takes for the live one.
SyncMemory == stale' \in {stale, [stale EXCEPT !.heap = <<>>]}

\* Mutant: only the handles are given back.
LeaveArena(h) == heap' = h /\ table' = ClearTransient(table) /\ SyncMemory

\* leave_outermost, with dispatch_done.
Leave(h) == heap' = Released(h) /\ table' = ClearTransient(table) /\ SyncMemory

\* The walk goes on to the next slot when this one still holds what just ran.
Past(f, l, emptied) ==
    IF walk # 0 /\ ~emptied /\ walk <= Len(l) /\ l[walk] = f THEN walk + 1 ELSE walk

\* Mutant: results that do not fit are written past the end of the region.
ResultsAlways(mark) == mark + 1

\* Where a host call's results end; what does not fit goes to the arena.
ResultsTo(mark) == IF mark < ScratchSize THEN mark + 1 ELSE mark

\* A nested entry ends: the host call it was raised from takes the scratch region
\* back to its own mark and writes its results, unless it failed (a callback that
\* reports a failure gives its own share back, one that traps does not); its
\* binding takes the arena back either way.
NestedEnds(ok) ==
    /\ alive /\ Len(stack) > 1
    /\ LET f == Last(stack) IN
       /\ stack' = Front(stack)
       /\ top' \in IF ok THEN {ResultsTo(f.lo)}
                  ELSE {top} \cup (IF f.entry = "callback" THEN {f.lo} ELSE {})
       /\ heap' = [heap EXCEPT !.arena = f.arena]
    /\ UNCHANGED <<alive, ticking, nth, storage, versions, table, cache, waiting, tok>>

OutermostReturns ==
    /\ alive /\ Len(stack) = 1 /\ stack[1].entry \notin {"migrate", "gc"}
    /\ Leave(heap)
    /\ stack' = <<>> /\ tok' = FALSE
    /\ walk' = Past(stack[1].entry, list, torn)
    /\ UNCHANGED <<alive, list, torn, armed, pieces, nth, stored, versions, cache, waiting, top>>

\* fk_gc_step returns the phase it left; unless that is idle the step re-arms.
CollectorSteps ==
    /\ alive /\ Len(stack) = 1 /\ stack[1].entry = "gc"
    /\ \E b \in {heap.busy, FALSE} :
          /\ Leave([heap EXCEPT !.busy = b])
          /\ IF b THEN Arm("gc") /\ UNCHANGED stored
             ELSE stored' = [stored EXCEPT !.gc = FALSE] /\ UNCHANGED <<list, armed>>
    /\ stack' = <<>> /\ tok' = FALSE
    /\ walk' = Past("gc", list', torn)
    /\ UNCHANGED <<alive, torn, pieces, nth, versions, cache, waiting, top>>

\* The guest has put things right; finish_rebuild publishes, and the entry that
\* waited begins.
MigrateReturns ==
    /\ alive /\ Len(stack) = 1 /\ stack[1].entry = "migrate"
    /\ stored' = Stamp(stored)
    /\ Open(waiting.entry, waiting.obj, ClearTransient(table),
            [Released(heap) EXCEPT !.by = build], NothingStale)
    /\ waiting' = Nobody
    /\ UNCHANGED <<alive, ticking, nth, versions>>

\* An error leaves the outermost dispatch.  The engine ends the session for an
\* event handler's; a command's or another mod's call it reports.  Of a notice that
\* trapped nothing is published, and `storage` keeps what it was given in passing:
\* the buffers the notice made, the heap if its size gives it away.
OutermostTraps ==
    /\ alive /\ Len(stack) = 1
    /\ stack[1].entry = "migrate" => MigrateTraps
    /\ Leave(heap)
    /\ stack' = <<>> /\ tok' = FALSE /\ waiting' = Nobody
    /\ alive' = ("callback" \in {stack[1].entry, waiting.entry})
    /\ UNCHANGED <<ticking, nth, stored, versions, cache, top>>

-----------------------------------------------------------------------------
(* The engine *)

Raises(entry, obj) ==
    /\ AtRest /\ walk = 0
    /\ Enter(entry, obj, stored) /\ UNCHANGED ticking

NthTick == \E n \in nth : Raises("nth", NoObj)

TickBegins ==
    /\ AtRest /\ walk = 0 /\ list # <<>>
    /\ walk' = 1 /\ torn' = FALSE
    /\ UNCHANGED <<alive, list, armed, pieces, nth, storage, versions, guest, depth>>

WalkEnds ==
    /\ AtRest /\ walk # 0 /\ (torn \/ walk > Len(list))
    /\ walk' = 0 /\ pieces' = [f \in Paced |-> 0]
    /\ UNCHANGED <<alive, list, torn, armed, nth, storage, versions, guest, depth>>

Served(f) == AtRest /\ walk # 0 /\ ~torn /\ walk <= Len(list) /\ list[walk] = f

\* fk_on_tick.
RunTickHook == Served("tick") /\ Enter("tick", NoObj, stored) /\ UNCHANGED ticking

\* Counted as far as two.
OneMore(n) == IF n < 2 THEN n + 1 ELSE n

\* off_event of f, which is on the list l: the first of it comes off.
Without(l, f) ==
    LET i == CHOOSE k \in DOMAIN l : l[k] = f /\ \A j \in 1..(k - 1) : l[j] # f
    IN  [k \in 1..(Len(l) - 1) |-> l[IF k < i THEN k ELSE k + 1]]

\* Before anything else, so that what runs can arm itself again.
Off(f) ==
    /\ list' = Without(list, f)
    /\ torn' = (list' = <<>>)
    /\ armed' = armed \ {f}
    /\ pieces' = IF f \in Paced THEN [pieces EXCEPT ![f] = OneMore(@)] ELSE pieces

\* flush_deferred, gc_step, run_after_load.
RunOneShot(f) ==
    /\ Served(f) /\ Off(f)
    /\ Enter(f, NoObj, IF f = "deferred" THEN [stored EXCEPT !.deferred = FALSE] ELSE stored)
    /\ UNCHANGED walk

\* prebuild_step: a piece of the grown memory, without the guest.
Prebuild ==
    /\ Served("prebuild") /\ Off("prebuild")
    /\ UNCHANGED walk
    /\ UNCHANGED <<alive, nth, storage, versions, guest, depth>>

PrebuildMore ==
    /\ Served("prebuild")
    /\ LET rest == Without(list, "prebuild") IN
       /\ list' = Append(rest, "prebuild") /\ torn' = (rest = <<>>)
       /\ walk' = Past("prebuild", list', torn')
    /\ pieces' = [pieces EXCEPT !["prebuild"] = OneMore(@)]
    /\ UNCHANGED <<alive, armed, nth, storage, versions, guest, depth>>

\* The kinds of buffer of which m has those that build b asks for.
Fitting(m, b) == {k \in Kind : m.asks[k] = Asks[b][k]}

\* Mutant: the buffers are adopted whatever their size.
AdoptAnySize(s, b) ==
    /\ heap' = s.heap /\ table' = Adopt(s.handles) /\ cache' = s.bufs.cache
    /\ stale' = NothingStale

\* state_load's second half: the heap comes back with its handles and with the
\* buffers in it, but for those of a size b does not ask for.
Restore(s, b) ==
    LET fitting == Fitting(s.bufs, b) IN
    /\ heap' = [s.heap EXCEPT !.refused = [k \in Kind |-> IF k \in fitting THEN @[k] ELSE @[k] + 1]]
    /\ table' = Adopt(s.handles)
    /\ cache' = {u \in s.bufs.cache : u[1] \in fitting}
    /\ stale' = [NothingStale EXCEPT !.bufs = IF fitting = Kind THEN <<>> ELSE <<s.bufs>>]

\* The heap _initialize has made is kept, and nothing of `storage` is it.
Decline(s, b) ==
    /\ heap' = FreshHeap(b) /\ table' = NewTable /\ cache' = {}
    /\ stale' = [heap |-> <<s.heap>>, handles |-> <<s.handles>>, bufs |-> <<s.bufs>>]

\* Mutant: a collection in flight is not resumed.
RearmedWithoutGc == (IF stored.deferred THEN <<"deferred">> ELSE <<>>) \o <<"after_load">>

\* Mutant: what was deferred is not resumed.
RearmedWithoutFlush == (IF stored.gc THEN <<"gc">> ELSE <<>>) \o <<"after_load">>

\* What after_load arms, in its order.
Rearmed == (IF stored.deferred THEN <<"deferred">> ELSE <<>>)
           \o (IF stored.gc THEN <<"gc">> ELSE <<>>) \o <<"after_load">>

\* A save between two dispatches, and its load by build b.
SaveAndLoad(b) ==
    /\ AtRest /\ walk = 0
    /\ LET matched == stored.stamp = b IN
       /\ IF matched \/ Hook[b] = "fk_migrate_adopt" THEN Restore(Saved, b) ELSE Decline(Saved, b)
       /\ owed' = ~matched
       /\ untold' = IF matched \/ Hook[b] = "none" THEN 0 ELSE 1
    /\ build' = b
    /\ list' = Permanent(b) \o Rearmed
    /\ armed' = {f \in OneShot : \E i \in 1..Len(Rearmed) : Rearmed[i] = f}
    /\ nth' = stored.nth
    /\ torn' = FALSE /\ top' = 0
    /\ UNCHANGED <<alive, walk, pieces, stored, stack, waiting, tok>>

-----------------------------------------------------------------------------
GuestCalls ==
    \/ Defers \/ Collects \/ Grows
    \/ SetNthTick({}) \/ \E n \in Period : SetNthTick(nth \cup {n}) \/ SetNthTick(nth \ {n})
    \/ \E v \in Var : Retains(v) \/ Releases(v)
    \/ \E entry \in Kind, obj \in Obj : Reenters(entry, obj)

EntryEnds ==
    \/ \E ok \in BOOLEAN : NestedEnds(ok)
    \/ OutermostReturns \/ CollectorSteps \/ MigrateReturns \/ OutermostTraps

Walks == WalkEnds \/ RunTickHook \/ Prebuild \/ PrebuildMore
         \/ \E f \in OneShot \ {"prebuild"} : RunOneShot(f)

Engine == NthTick \/ \E entry \in Kind, obj \in Obj : Raises(entry, obj)

Next == GuestCalls \/ EntryEnds \/ Walks \/ TickBegins \/ Engine
        \/ \E b \in Build : SaveAndLoad(b)

Spec == Init /\ [][Next]_vars

-----------------------------------------------------------------------------
(* Properties *)

Entries == {"deferred", "gc", "after_load", "tick", "nth", "event", "callback", "migrate"}

IsHeap(h) ==
    /\ h.by \in Build /\ h.busy \in BOOLEAN
    /\ h.holds \in [Var -> Persistent \cup {0}] /\ h.means \in [Var -> Obj \cup {NoObj}]
    /\ h.made \in [Buffer -> Seq(Nat)] /\ h.refused \in [Kind -> Nat] /\ h.arena \in Nat /\ h.saved \in Nat

\* What each variable holds, and that the scratch region (scratch_reset,
\* scratch_release and the writes of fk_abi.lua) is never written past its end.
TypeOK ==
    /\ alive \in BOOLEAN /\ torn \in BOOLEAN
    /\ owed \in BOOLEAN /\ tok \in BOOLEAN
    /\ list \in Seq(OneShot \cup {"tick"}) /\ walk \in 0..(Len(list) + 1)
    /\ armed \subseteq OneShot /\ nth \subseteq Period
    /\ pieces \in [Paced -> 0..2]
    /\ stored \in [deferred : BOOLEAN, gc : BOOLEAN, nth : SUBSET Period, stamp : Build]
    /\ \A part \in {"heap", "handles", "bufs"} : DOMAIN stale[part] \subseteq {1}
    /\ IsHeap(Saved.heap) /\ Saved.handles \in [Persistent -> Obj \cup {NoObj}]
    /\ Saved.bufs.cache \subseteq Buffer /\ Saved.bufs.asks \in [Kind -> Nat]
    /\ build \in Build /\ untold \in {0, 1}
    /\ IsHeap(heap) /\ IsTable(table) /\ cache \subseteq Buffer
    /\ \A i \in DOMAIN stack : stack[i].entry \in Entries /\ stack[i].hi <= ScratchSize
    /\ waiting = Nobody \/ waiting.entry \in Entries
    /\ top \in 0..ScratchSize

Given(f) == f.entry \in Kind

\* Whatever nests inside it and however that ends, a handler's payload stays
\* what it was given: its object resolves, and neither the bytes it has in the
\* scratch region nor those it has in the arena are handed out again before it
\* returns (dispatch, fk_mod.lua:680, on why only the outermost one resets).
PayloadsIntact ==
    \A i \in DOMAIN stack :
        LET f     == stack[i]
            after == {stack[j] : j \in (i + 1)..Len(stack)}
        IN  Given(f) =>
              /\ Get(table, f.h) = f.obj
              /\ f.hi <= top /\ \A g \in after : f.hi <= g.lo
              /\ f.hi = f.lo => /\ f.arena < heap.arena
                                /\ \A g \in after : f.arena < g.arena

\* When the outermost dispatch has ended, by returning, by a trap, or with a
\* rebuild's notice inside it, the guest's arena is empty, its one mark is given
\* up and no transient handle is left (dispatch_done and leave_outermost).
NothingLeftBehind ==
    stack = <<>> /\ waiting = Nobody =>
        heap.arena = 0 /\ ~tok /\ table.transient = <<>>

\* The handles that the variables of heap h hold name in p what was retained,
\* and p pins nothing else.
Keeps(h, p) ==
    /\ \A v \in Var : h.holds[v] # 0 => p[h.holds[v]] = h.means[v]
    /\ \A v, w \in Var : h.holds[v] # 0 /\ h.holds[v] = h.holds[w] => v = w
    /\ InUse(p) \subseteq {h.holds[v] : v \in Var}

\* Across saves, loads and rebuilds, a handle the guest holds names what it
\* retained, and no persistent handle is pinned that the guest cannot name
\* (state_load, "the handles come back with the heap, never on their own").
HandlesKept == Keeps(heap, table.persistent)

\* The buffers that mirror m says are in heap h are the last made there, of the
\* size it says, and before each no other was made but what a load refused.
Buffered(h, m) == \A u \in Buffer :
    /\ Len(h.made[u]) <= h.refused[u[1]] + (IF u \in m.cache THEN 1 ELSE 0)
    /\ u \in m.cache => h.made[u] # <<>> /\ Last(h.made[u]) = m.asks[u[1]]

\* In each heap there is one buffer for each level an event or a callback was
\* delivered at, however often it is saved and loaded; a build that asks for
\* another size is given one more, once for each load, and never writes to one
\* of a size it did not ask for (publish_buffers, state_load).
OneBufferPerLevel == Buffered(heap, Mirror)

Running(f) == waiting.entry = f \/ (stack # <<>> /\ stack[1].entry = f)
Registered(f) == Cardinality({i \in DOMAIN list : list[i] = f})

\* The engine saves no registration; yet, through walks in which handlers take
\* themselves off and put themselves back and through loads, each one-shot is on
\* the list exactly when its flag says so and never twice, what is deferred has
\* its flush registered, a collection that is not finished has its next step
\* registered, and the armed periods are the stored ones.
RegistrationsMatch == alive =>
    /\ \A f \in OneShot : Registered(f) = IF f \in armed THEN 1 ELSE 0
    /\ stored.deferred <=> "deferred" \in armed
    /\ heap.busy => stored.gc /\ ("gc" \in armed \/ Running("gc"))
    /\ nth = stored.nth

\* A save has one build's heap under that build's stamp, with the handles that
\* heap holds and the buffers that are in it, also when it is taken before a
\* rebuild was settled (state_init).
SaveIsWhole == AtRest =>
    /\ Saved.heap.by = stored.stamp
    /\ Keeps(Saved.heap, Saved.handles) /\ Buffered(Saved.heap, Saved.bufs)

\* After a rebuild nothing of the guest runs before it was told, once, and
\* before `storage` has the heap it runs on (finish_rebuild, "the handling runs
\* before any guest code the load could reach").
ToldFirst ==
    stack # <<>> /\ stack[1].entry # "migrate" =>
        ~owed /\ untold = 0 /\ stale = NothingStale /\ heap.by = build

\* Work the guest deferred is flushed, however often the game is saved and
\* loaded first and whatever else waits on the tick (fk_deferred, after_load).
FlushComes == stored.deferred ~> (Running("deferred") \/ ~alive)

\* "PACING THE COLLECTOR -- one bounded step per tick" (fk_mod.lua:1666) and
\* "PACING THE MEMORY PRE-BUILD -- one bounded piece per tick" (fk_mod.lua:1529).
OneStepPerTick == \A f \in Paced : pieces[f] < 2

=============================================================================
