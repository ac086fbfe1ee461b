-------------------------------- MODULE Collector --------------------------------
(***************************************************************************)
(* fkgc, the incremental mark-sweep collector a TinyGo guest links with    *)
(* -gc=custom (src/guest/go/fkgc/collect.go, heap.go), together with the   *)
(* part of the host that schedules it (gc_step and arm_gc of               *)
(* src/runtime/lua/fk_mod.lua) and records the pages the guest writes      *)
(* while it marks (MEMPACK.gc_* of src/runtime/lua/fk_rt.lua).             *)
(*                                                                         *)
(* The heap is a row of spans; a span belongs to a class of small objects, *)
(* to a large object (its head, or a later span of it), or to nothing.     *)
(* Memory is abstracted to SpanSize words per span: a small object is one *)
(* word, a large one all the words of its spans, and a word holds a pointer or   *)
(* Nil.  Everything a step does runs without the guest, but one step is a  *)
(* walk over many stages that may stop, its budget spent, after any of     *)
(* them: pc is the stage, left says whether budget remains.  How much a    *)
(* stage charges is left open, so a step may stop wherever the code tests. *)
(***************************************************************************)
EXTENDS Integers, FiniteSets

CONSTANTS
    SpanLimit,  \* the spans the address space can hold (heap.go:1050 maxSpans)
    SpanSize,   \* the words of a span
    Small,      \* the small size classes (heap.go: 1..numClasses)
    LargeSizes, \* the lengths, in spans, large objects may have
    Reg,        \* the guest's roots
    Nil,        \* no pointer
    Unassigned, Large, LargeMid,  \* the other span classes: 0, clsLarge, clsLargeMid
    GrayCap,    \* the gray stack's capacity (collect.go grayCap)
    MarkLimit   \* steps before marking stops yielding (collect.go:256)

Span == 0..(SpanLimit - 1)
Off == 0..(SpanSize - 1)
Word == Span \X Off

ASSUME CollectorAssumption ==
    /\ SpanLimit \in Nat \ {0}
    /\ SpanSize \in Nat \ {0}
    /\ LargeSizes \subseteq 1..SpanLimit
    /\ Nil \notin Word
    /\ {Unassigned, Large, LargeMid} \cap Small = {}
    /\ Unassigned # Large /\ Unassigned # LargeMid /\ Large # LargeMid
    /\ IsFiniteSet(Reg)
    /\ GrayCap \in Nat \ {0}
    /\ MarkLimit \in Nat

VARIABLES
    \* the guest's memory
    mem,        \* Word -> the pointer it holds
    roots,      \* Reg -> the pointer it holds
    \* the span table and the allocator
    class,      \* Span -> its class
    aux,        \* Span -> a head's length, a later span's head
    fresh,      \* spans assigned ahead of the sweep (clsFresh)
    covered,    \* spans the heap has grown to
    spanCursor, \* where the next search for spans begins
    cur,        \* Small -> the words left of the window being handed out
    free,       \* Small -> the runs of free words waiting to be a window
    hold,       \* Small -> cur as it was when the sweep began
    \* marking
    phase,
    marked,     \* first words of marked objects (the bitmap)
    gray, grayOvf,
    partial,    \* words left of the object being scanned
    pend,       \* spans dirtied and still to be re-scanned (clsPending)
    rescanOwed, rescanCursor,
    steps,
    \* sweeping
    sweepCursor,
    largeKeep,  \* "keep" or "drop" while the cursor stands inside a large object
    bitten,     \* an allocation swept ahead since the last step
    \* where the collector is
    pc, ret, left, forced,
    job,        \* "none", a paced "step", a sweep "ahead", a whole "collect"
    req,        \* the allocation being served, or Nil
    valved,     \* whether it has already had a whole collection
    \* the host
    armed, dirty, lost,
    scheduled,  \* a step is registered for the next tick, and storage.fk_gc says so
    \* history, read by no action
    objs,       \* first words of the objects that exist
    doomed      \* the garbage there was when the collection began

memory == <<mem, roots>>
table  == <<class, aux, fresh, covered, spanCursor>>
alloc  == <<cur, free, hold>>
marks  == <<marked, gray, grayOvf>>
queues == <<partial, pend, rescanOwed, rescanCursor>>
sweeper == <<sweepCursor, largeKeep>>
control == <<pc, ret, left, forced, job>>
request == <<req, valved>>
host   == <<armed, dirty, lost, scheduled>>
ghosts == <<objs, doomed>>
vars == <<memory, table, alloc, phase, marks, queues, steps, sweeper, bitten,
          control, request, host, ghosts>>

-----------------------------------------------------------------------------
(* The heap's shape *)

SpanWords(s) == {s} \X Off
First(s) == <<s, 0>>
Before(v, w) == v[1] < w[1] \/ (v[1] = w[1] /\ v[2] < w[2])

\* The first word of the object a pointer lands in (collect.go:1191, 1054).
Base(v) ==
    CASE class[v[1]] = LargeMid -> First(aux[v[1]])
      [] class[v[1]] = Large    -> First(v[1])
      [] OTHER                  -> v

\* The words of the object that begins at b (collect.go:1251).
Extent(b) ==
    IF class[b[1]] = Large
    THEN (b[1]..(b[1] + aux[b[1]] - 1)) \X Off
    ELSE {b}

\* The heap the guest sees: its objects and what their words hold.
Heap == INSTANCE ManagedHeap WITH
    objs <- {Extent(b) : b \in objs},
    mem  <- LET owned == UNION {Extent(b) : b \in objs}
            IN  [w \in Word |-> IF w \in owned THEN mem[w] ELSE Nil]

\* The collector, its host and its history before the first collection.
Idle ==
    /\ spanCursor = 0 /\ fresh = {} /\ free = [c \in Small |-> {}] /\ hold = [c \in Small |-> {}]
    /\ phase = "idle" /\ marked = {} /\ gray = {} /\ grayOvf = FALSE
    /\ partial = {} /\ pend = {} /\ rescanOwed = FALSE /\ rescanCursor = 0
    /\ steps = 0 /\ sweepCursor = 0 /\ largeKeep = "none" /\ bitten = FALSE
    /\ pc = "run" /\ ret = "run" /\ left = FALSE /\ forced = FALSE /\ job = "none"
    /\ req = Nil /\ valved = FALSE
    /\ armed = FALSE /\ dirty = {} /\ lost = FALSE /\ scheduled = FALSE
    /\ doomed = {}

Init ==
    /\ mem = [w \in Word |-> Nil] /\ roots = [r \in Reg |-> Nil]
    /\ class = [s \in Span |-> Unassigned] /\ aux = [s \in Span |-> 0]
    /\ covered \in 1..SpanLimit /\ cur = [c \in Small |-> {}] /\ objs = {}
    /\ Idle

\* What a write to these spans leaves in the host's page set (fk_rt.lua:763).
Written(S) == dirty' = IF armed THEN dirty \cup S ELSE dirty

-----------------------------------------------------------------------------
(* The guest, in a handler: pc = "run" *)

Collectors == <<table, alloc, phase, marks, queues, steps, sweeper, bitten, control,
                request, armed, lost, scheduled, ghosts>>

Load(r, p) ==
    /\ pc = "run" /\ roots[p] # Nil
    /\ roots' = [roots EXCEPT ![r] = mem[roots[p]]]
    /\ UNCHANGED <<mem, dirty, Collectors>>

Store(p, r) ==
    /\ pc = "run" /\ roots[p] # Nil
    /\ mem' = [mem EXCEPT ![roots[p]] = roots[r]]
    /\ Written({roots[p][1]})
    /\ UNCHANGED <<roots, Collectors>>

Derive(r, p) ==
    /\ pc = "run" /\ roots[p] # Nil
    /\ \E w \in Extent(Base(roots[p])) : roots' = [roots EXCEPT ![r] = w]
    /\ UNCHANGED <<mem, dirty, Collectors>>

Forget(r) ==
    /\ pc = "run" /\ roots[r] # Nil
    /\ roots' = [roots EXCEPT ![r] = Nil]
    /\ UNCHANGED <<mem, dirty, Collectors>>

\* Hand out the first word of a window of class c to register r.
HandOut(r, c, window) ==
    \E w \in window :
       /\ \A v \in window \ {w} : Before(w, v)
       /\ cur' = [cur EXCEPT ![c] = window \ {w}]
       /\ roots' = [roots EXCEPT ![r] = w]
       /\ objs' = objs \cup {w}

\* allocate, small (heap.go:665, 710): from the window, else from the next run;
\* with neither, the allocator looks for a span.
AllocateSmall(r, c) ==
    /\ pc = "run"
    /\ \/ /\ cur[c] # {}
          /\ HandOut(r, c, cur[c])
          /\ UNCHANGED <<free, dirty, pc, request>>
       \/ /\ cur[c] = {}
          /\ \E run \in free[c] :
                /\ HandOut(r, c, run)
                /\ free' = [free EXCEPT ![c] = @ \ {run}]
                /\ Written({w[1] : w \in run})
          /\ UNCHANGED <<pc, request>>
       \/ /\ cur[c] = {} /\ free[c] = {}
          /\ pc' = "find" /\ valved' = FALSE
          /\ req' = [reg |-> r, class |-> c, n |-> 1]
          /\ UNCHANGED <<roots, cur, free, dirty, objs>>
    /\ UNCHANGED <<mem, table, hold, phase, marks, queues, steps, sweeper, bitten,
                   ret, left, forced, job, armed, lost, scheduled, doomed>>

AllocateLarge(r, n) ==
    /\ pc = "run"
    /\ pc' = "find" /\ valved' = FALSE
    /\ req' = [reg |-> r, class |-> Large, n |-> n]
    /\ UNCHANGED <<memory, table, alloc, phase, marks, queues, steps, sweeper, bitten,
                   ret, left, forced, job, host, ghosts>>

-----------------------------------------------------------------------------
(* allocSpans (heap.go:868): find, sweep ahead, grow, collect, give up *)

\* First fit from the cursor on, then from the start: a run of spans that lies
\* across the cursor is in neither pass (heap.go:957).
Runs(from, to) == {s \in from..(to - req.n) :
                     \A t \in s..(s + req.n - 1) : class[t] = Unassigned}
Found == LET start == IF spanCursor + req.n > covered THEN 0 ELSE spanCursor
         IN  IF Runs(start, covered) # {} THEN Runs(start, covered) ELSE Runs(0, start)

\* Mutant: a span assigned during a sweep is the sweep's like any other.
NeverFresh(s, S) == fresh \ S

\* Assigned ahead of the sweep, a span is the next collection's (heap.go:820);
\* a large object asks for its head only.
FreshFrom(s, S) == IF phase = "sweep" /\ s >= sweepCursor THEN fresh \cup S ELSE fresh \ S

\* refill (heap.go:755) appends a small class's new span to the runs, which a
\* sweep ahead or the valve may have found meanwhile, and nextRun takes the
\* first: the new span waits behind them.  Appending writes the run before it.
NextRun(s, c) ==
    \E run, last \in IF free[c] = {} THEN {SpanWords(s)} ELSE free[c] :
       /\ HandOut(req.reg, c, run)
       /\ free' = [free EXCEPT ![c] = (@ \cup {SpanWords(s)}) \ {run}]
       /\ Written({s} \cup {w[1] : w \in run \cup last})

Claim(s) ==
    LET S == s..(s + req.n - 1) IN
    /\ mem' = [w \in Word |-> IF w[1] \in S THEN Nil ELSE mem[w]]
    /\ fresh' = FreshFrom(s, S)
    /\ spanCursor' = s + req.n
    /\ IF req.class = Large
       THEN /\ class' = [t \in Span |-> IF t = s THEN Large
                                        ELSE IF t \in S THEN LargeMid ELSE class[t]]
            /\ aux' = [t \in Span |-> IF t = s THEN req.n
                                      ELSE IF t \in S THEN s ELSE aux[t]]
            /\ roots' = [roots EXCEPT ![req.reg] = First(s)]
            /\ objs' = objs \cup {First(s)}
            /\ Written(S)
            /\ UNCHANGED <<cur, free>>
       ELSE /\ class' = [class EXCEPT ![s] = req.class]
            /\ NextRun(s, req.class)
            /\ UNCHANGED aux

FindSpan ==
    /\ pc = "find"
    /\ \E s \in Found : Claim(s) /\ \A t \in Found : s <= t
    /\ pc' = "run" /\ req' = Nil
    /\ UNCHANGED <<covered, hold, phase, marks, queues, steps, sweeper, bitten,
                   ret, left, forced, job, valved, armed, lost, scheduled, doomed>>

\* One bite of sweeping per gap between steps (heap.go:888).
MaySweepAhead == phase = "sweep" /\ ~bitten /\ ~valved

SweepAhead ==
    /\ pc = "find" /\ Found = {} /\ MaySweepAhead
    /\ pc' = "sweep" /\ job' = "ahead" /\ left' = TRUE /\ bitten' = TRUE
    /\ UNCHANGED <<memory, table, alloc, phase, marks, queues, steps, sweeper, ret,
                   forced, request, host, ghosts>>

GrowHeap ==
    /\ pc = "find" /\ Found = {} /\ ~MaySweepAhead
    /\ covered + req.n <= SpanLimit
    /\ covered' \in (covered + req.n)..SpanLimit
    /\ UNCHANGED <<memory, class, aux, fresh, spanCursor, alloc, phase, marks, queues, steps,
                   sweeper, bitten, control, request, host, ghosts>>

\* After the valve there is nothing left but to trap; the host catches it.
OutOfMemory ==
    /\ pc = "find" /\ Found = {} /\ valved
    /\ covered + req.n > SpanLimit
    /\ pc' = "run" /\ req' = Nil
    /\ UNCHANGED <<memory, table, alloc, phase, marks, queues, steps, sweeper, bitten,
                   ret, left, forced, job, valved, host, ghosts>>

-----------------------------------------------------------------------------
(* Marking *)

\* A forced mark phase and a synchronous collection do not yield.
Unbounded == forced \/ job = "collect"

\* Work that costs something may spend the budget (collect.go:1118).
Charge == left' \in {left, left /\ Unbounded}

\* Mutant: the mark bit waits for the object to be scanned.
MarkWhenScanned(V, stack, overflowed) ==
    LET new == {Base(v) : v \in {u \in V \ {Nil} : class[u[1]] # Unassigned}} \ marked
    IN  \E pushed \in SUBSET new :
           /\ Cardinality(stack \cup pushed) <= GrayCap
           /\ pushed = new \/ Cardinality(stack \cup pushed) = GrayCap
           /\ gray' = stack \cup pushed
           /\ grayOvf' = (overflowed \/ pushed # new)
           /\ UNCHANGED marked

\* Mark what these values point into; what the gray stack cannot take is owed to
\* a re-scan (collect.go:1191, 1218).
MarkInto(V, stack, overflowed) ==
    LET new == {Base(v) : v \in {u \in V \ {Nil} : class[u[1]] # Unassigned}} \ marked
    IN  \E pushed \in SUBSET new :
           /\ Cardinality(stack \cup pushed) <= GrayCap
           /\ pushed = new \/ Cardinality(stack \cup pushed) = GrayCap
           /\ marked' = marked \cup new
           /\ gray' = stack \cup pushed
           /\ grayOvf' = (overflowed \/ pushed # new)

Mark(V) == MarkInto(V, gray, grayOvf)
RootValues == {roots[r] : r \in Reg}

\* Mutant: a re-scan that is owed goes on from where one stood.
OweRescanFromHere == rescanOwed' = TRUE /\ UNCHANGED rescanCursor

\* Forget how far a re-scan had come: everything is to be re-scanned (:955).
OweRescan == rescanOwed' = TRUE /\ rescanCursor' = 0

\* startCollection (:472).  The roots are marked and nothing is drained yet.
StartCollection(owed) ==
    /\ phase' = "mark"
    /\ partial' = {} /\ pend' = {} /\ rescanOwed' = owed /\ rescanCursor' = 0
    /\ steps' = 0 /\ bitten' = FALSE
    /\ MarkInto(RootValues, {}, FALSE)
    /\ doomed' = {b \in objs : Extent(b) \notin Heap!Live}

\* fkgc.Start, CollectIfNeeded: the host is asked to pace it first (:419).
Start ==
    /\ pc = "run" /\ phase = "idle"
    /\ armed' = TRUE /\ scheduled' = TRUE
    /\ StartCollection(FALSE)
    /\ UNCHANGED <<memory, table, alloc, sweeper, control, request, dirty, lost, objs>>

\* fkgc.Collect (:456), from a guest or from the allocator's valve: finish what
\* is in flight, or do the whole of a new collection, without yielding.
Collect ==
    /\ \/ pc = "run" /\ UNCHANGED valved
       \/ /\ pc = "find" /\ Found = {} /\ ~MaySweepAhead /\ ~valved
          /\ covered + req.n > SpanLimit
          /\ valved' = TRUE
    /\ IF phase = "idle"
       THEN StartCollection(TRUE)
       ELSE /\ OweRescan
            /\ UNCHANGED <<phase, marks, partial, pend, steps, bitten, doomed>>
    /\ job' = "collect" /\ left' = TRUE
    /\ pc' = IF phase = "sweep" THEN "sweep" ELSE "partial"
    /\ UNCHANGED <<memory, table, alloc, sweeper, ret, forced, req, host, objs>>

\* The host's one-shot of the tick (fk_mod.lua:1740).  What it drained is every
\* page the guest wrote since the last step, or "everything" once the record was
\* lost or too long; the record counts pages outside the heap too, so it can be
\* too long whatever the heap did (collect.go:815).
Ingest ==
    \/ /\ dirty # {} /\ ~lost
       /\ pend' = pend \cup {s \in dirty : s < covered /\ class[s] # Unassigned}
       /\ UNCHANGED <<rescanOwed, rescanCursor>>
    \/ /\ dirty = {} /\ ~lost
       /\ UNCHANGED <<pend, rescanOwed, rescanCursor>>
    \/ OweRescan /\ pend' = {}

\* Mutant: there is no deadline.
MayAlwaysYield(n) == n \in Nat

\* The deadline; a mark phase seen to stall is forced earlier (:564).
MayYield(n) == n <= MarkLimit

HostStep ==
    /\ pc = "run" /\ scheduled
    /\ job' = "step" /\ left' = TRUE
    /\ dirty' = IF lost THEN dirty ELSE {}
    /\ lost' = FALSE
    /\ \/ /\ phase = "idle"
          /\ pc' = "stepped"
          /\ UNCHANGED <<pend, rescanOwed, rescanCursor, steps, forced, bitten>>
       \/ /\ phase = "sweep"
          /\ pc' = "sweep" /\ bitten' = FALSE
          /\ UNCHANGED <<pend, rescanOwed, rescanCursor, steps, forced>>
       \/ /\ phase = "mark"
          /\ pc' = (IF partial = {} THEN "dirty" ELSE "partial") /\ bitten' = FALSE
          /\ steps' = IF steps > MarkLimit THEN steps ELSE steps + 1
          /\ forced' \in {TRUE, ~MayYield(steps')}
          /\ Ingest
    /\ UNCHANGED <<memory, table, alloc, phase, marks, partial, sweeper, ret, request,
                   armed, scheduled, ghosts>>

Marking == <<memory, table, alloc, phase, steps, sweeper, bitten, forced, job,
             request, host, ghosts>>

\* Scan the words W from the front, as far as the budget goes (:1325).
Scan(W, stack) ==
    \E S \in SUBSET W \ {{}} :
       /\ \A v \in S, w \in W \ S : Before(v, w)
       /\ MarkInto({mem[w] : w \in S}, stack, grayOvf)
       /\ partial' = W \ S
       /\ IF S = W THEN Charge ELSE ~Unbounded /\ left' = FALSE

FinishPartial ==
    /\ pc = "partial"
    /\ \/ /\ partial # {} /\ left
          /\ Scan(partial, gray)
          /\ UNCHANGED pc
       \/ /\ partial = {} \/ ~left
          /\ pc' = "dirty"
          /\ UNCHANGED <<marks, partial, left>>
    /\ UNCHANGED <<Marking, pend, rescanOwed, rescanCursor, ret>>

\* Mutant: a span is scanned whole.
Everything(s) == SpanWords(s)

Scanned(s) == SpanWords(s) \cap marked

\* Scan what is marked in a span: its marked objects, or its share of a large
\* one (:1022).  Objects the loop itself marks are scanned from the stack.
RescanSpan(s) ==
    CASE class[s] = Unassigned -> UNCHANGED <<marks, left>>
      [] class[s] \in {Large, LargeMid} ->
            IF Base(First(s)) \in marked
            THEN Mark({mem[w] : w \in SpanWords(s)}) /\ Charge
            ELSE UNCHANGED <<marks, left>>
      [] OTHER -> Mark({mem[w] : w \in Scanned(s)}) /\ Charge

\* Drain the gray stack, then go on with the stage: at once when there is
\* nothing to drain.
DrainThen(stage) ==
    IF partial = {} /\ gray' = {} /\ ~grayOvf'
    THEN pc' = stage /\ UNCHANGED ret
    ELSE pc' = "drain" /\ ret' = stage

\* The loops over spans drain when the stack is past half.
DrainIfDeep(stage) ==
    IF Cardinality(gray') > GrayCap \div 2
    THEN DrainThen(stage)
    ELSE pc' = stage /\ UNCHANGED ret

DrainDirtySpans ==
    /\ pc = "dirty"
    /\ \/ /\ pend # {} /\ left
          /\ \E s \in pend : RescanSpan(s) /\ pend' = pend \ {s}
          /\ DrainIfDeep("dirty")
       \/ /\ pend = {} \/ ~left
          /\ UNCHANGED <<marks, pend, left>>
          /\ DrainThen("rescan")
    /\ UNCHANGED <<Marking, partial, rescanOwed, rescanCursor>>

\* drainGray (:1286): to the bottom, or until the budget is gone.  An overflow
\* becomes a re-scan only once the stack is empty.
DrainGray ==
    /\ pc = "drain"
    /\ \/ /\ partial # {} /\ left
          /\ Scan(partial, gray)
          /\ UNCHANGED <<rescanOwed, rescanCursor, pc, ret>>
       \/ /\ partial = {} /\ left
          /\ \E b \in gray : Scan(Extent(b), gray \ {b})
          /\ UNCHANGED <<rescanOwed, rescanCursor, pc, ret>>
       \/ /\ partial # {} \/ gray # {}
          /\ ~left
          /\ pc' = ret /\ ret' = "run"
          /\ UNCHANGED <<marks, partial, rescanOwed, rescanCursor, left>>
       \/ /\ partial = {} /\ gray = {}
          /\ grayOvf' = FALSE
          /\ IF grayOvf THEN OweRescan ELSE UNCHANGED <<rescanOwed, rescanCursor>>
          /\ pc' = ret /\ ret' = "run"
          /\ UNCHANGED <<marked, gray, partial, left>>
    /\ UNCHANGED <<Marking, pend>>

RunRescan ==
    /\ pc = "rescan"
    /\ \/ /\ rescanOwed /\ rescanCursor < covered /\ left
          /\ RescanSpan(rescanCursor)
          /\ rescanCursor' = rescanCursor + 1
          /\ DrainIfDeep("rescan")
          /\ UNCHANGED rescanOwed
       \/ /\ rescanOwed /\ rescanCursor >= covered
          /\ rescanOwed' = FALSE /\ rescanCursor' = 0
          /\ UNCHANGED <<marks, left>>
          /\ DrainThen("attempt")
       \/ /\ ~rescanOwed \/ (rescanCursor < covered /\ ~left)
          /\ UNCHANGED <<marks, rescanOwed, rescanCursor, left>>
          /\ DrainThen("attempt")
    /\ UNCHANGED <<Marking, partial, pend>>

\* markStep returns: a bounded step ends, an unbounded one goes round again.
MarkStepReturns ==
    /\ pc' = IF Unbounded THEN "partial" ELSE "stepped"
    /\ UNCHANGED <<marks, left, ret>>

Unfinished == gray # {} \/ grayOvf \/ partial # {} \/ rescanOwed

\* With nothing queued and budget left, look at the roots again (:771-791).
Attempt ==
    /\ pc = "attempt"
    /\ \/ /\ ~left \/ Unfinished \/ pend # {}
          /\ MarkStepReturns
       \/ /\ left /\ ~Unfinished /\ pend = {}
          /\ Mark(RootValues) /\ Charge
          /\ DrainThen("verdict")
    /\ UNCHANGED <<Marking, queues>>

VerdictNo ==
    /\ pc = "verdict" /\ Unfinished
    /\ MarkStepReturns
    /\ UNCHANGED <<Marking, queues>>

\* Marking is over: beginSweep (:1418).  The blocks of the open windows are not
\* the sweep's to decide.  A forced phase hands over a fresh budget.
VerdictYes ==
    /\ pc = "verdict" /\ ~Unfinished
    /\ phase' = "sweep" /\ sweepCursor' = 0 /\ largeKeep' = "none"
    /\ free' = [c \in Small |-> {}] /\ hold' = cur
    /\ pend' = {}
    /\ forced' = FALSE
    /\ left' = (left \/ forced)
    /\ pc' = IF left' THEN "sweep" ELSE "stepped"
    /\ UNCHANGED <<memory, table, cur, marks, partial, rescanOwed, rescanCursor, steps,
                   bitten, ret, job, request, host, ghosts>>

-----------------------------------------------------------------------------
(* Sweeping *)

\* The objects B go: they were garbage, or should have been.
Reclaim(B) == objs' = objs \ B /\ doomed' = doomed \ B

Sweeping == <<roots, covered, spanCursor, cur, hold, phase, gray, grayOvf, queues, steps, bitten, pc,
              ret, forced, job, request, host>>

\* Mutant: only the first object's bit.
ClearFirstMark(s) == marked' = marked \ {First(s)}

ClearSpanMarks(s) == marked' = marked \ SpanWords(s)

SweepUnassigned(s) ==
    /\ class[s] = Unassigned
    /\ ClearSpanMarks(s)
    /\ sweepCursor' = s + 1
    /\ UNCHANGED <<mem, class, aux, fresh, free, largeKeep, left, ghosts>>

\* Assigned since marking ended: all of it is live (:1498).  A large object's
\* spans go in one go.
SweepFresh(s) ==
    /\ class[s] # Unassigned /\ s \in fresh
    /\ LET goesOn == /\ class[s] \in {Large, LargeMid}
                     /\ s + 1 < covered /\ s + 1 \in fresh /\ class[s + 1] = LargeMid
       IN  IF goesOn THEN UNCHANGED left ELSE Charge
    /\ fresh' = fresh \ {s}
    /\ sweepCursor' = s + 1
    /\ UNCHANGED <<mem, class, aux, free, marked, largeKeep, ghosts>>

\* One span of a large object.  The head decides; the decision is kept for the
\* spans a spent budget leaves to a later step (:1534).
SweepLarge(s) ==
    /\ class[s] \in {Large, LargeMid} /\ s \notin fresh
    /\ LET keep == IF class[s] = LargeMid THEN largeKeep
                   ELSE IF First(s) \in marked THEN "keep" ELSE "drop"
       IN  /\ IF class[s] = Large /\ keep = "drop"
              THEN Reclaim({First(s)}) ELSE UNCHANGED ghosts
           /\ IF keep = "drop"
              THEN class' = [class EXCEPT ![s] = Unassigned] /\ aux' = [aux EXCEPT ![s] = 0]
              ELSE UNCHANGED <<class, aux>>
           /\ ClearSpanMarks(s)
           /\ sweepCursor' = s + 1
           /\ largeKeep' = IF s + 1 < covered /\ class[s + 1] = LargeMid
                           THEN keep ELSE "none"
    /\ Charge
    /\ UNCHANGED <<mem, fresh, free>>

\* Mutant: a run lasts to the end of its span.
RunsToTheEnd(s, W) == {{s} \X (w[2]..(SpanSize - 1)) : w \in W}

\* The maximal runs of consecutive words of span s within W.
Segments(s) == {{s} \X (i..j) : i, j \in Off} \ {{}}
RunsIn(s, W) == {R \in Segments(s) :
                    /\ R \subseteq W
                    /\ \A T \in Segments(s) : R \subseteq T /\ T \subseteq W => T = R}

\* Objects marked or in the window marking ended with stay; runs of the rest are
\* zeroed and handed to the allocator, and an empty span goes back (:1590).
SweepSmall(s) ==
    /\ class[s] \in Small /\ s \notin fresh
    /\ LET stays == SpanWords(s) \cap (marked \cup hold[class[s]])
           goes  == SpanWords(s) \ stays
       IN  /\ IF stays = {}
              THEN /\ class' = [class EXCEPT ![s] = Unassigned]
                   /\ UNCHANGED <<mem, free>>
              ELSE /\ mem' = [w \in Word |-> IF w \in goes THEN Nil ELSE mem[w]]
                   /\ free' = [free EXCEPT ![class[s]] = @ \cup RunsIn(s, goes)]
                   /\ UNCHANGED class
           /\ Reclaim(goes)
    /\ ClearSpanMarks(s)
    /\ sweepCursor' = s + 1
    /\ Charge
    /\ UNCHANGED <<aux, fresh, largeKeep>>

SweepSpan ==
    /\ pc = "sweep" /\ sweepCursor < covered /\ left
    /\ \/ SweepUnassigned(sweepCursor)
       \/ SweepFresh(sweepCursor)
       \/ SweepLarge(sweepCursor)
       \/ SweepSmall(sweepCursor)
    /\ UNCHANGED Sweeping

SweepPauses ==
    /\ pc = "sweep" /\ sweepCursor < covered /\ ~left
    /\ pc' = "stepped"
    /\ UNCHANGED <<memory, table, alloc, phase, marks, queues, steps, sweeper, bitten,
                   ret, left, forced, job, request, host, ghosts>>

FinishSweep ==
    /\ pc = "sweep" /\ sweepCursor >= covered
    /\ phase' = "idle" /\ hold' = [c \in Small |-> {}] /\ spanCursor' = 0
    /\ pc' = "stepped"
    /\ UNCHANGED <<memory, class, aux, fresh, covered, cur, free, marks, queues, steps, sweeper, bitten,
                   ret, left, forced, job, request, host, ghosts>>

\* Back to whoever called: the host, which arms the barrier for marking alone and
\* asks for another tick until the collector is idle (fk_mod.lua:1764), or the
\* allocator, or the guest.
Return ==
    /\ pc = "stepped"
    /\ pc' = IF job # "step" /\ req # Nil THEN "find" ELSE "run"
    /\ job' = "none" /\ left' = FALSE
    /\ IF job = "step"
       THEN /\ armed' = (phase = "mark")
            /\ dirty' = IF phase = "mark" THEN dirty ELSE {}
            /\ scheduled' = (phase # "idle")
       ELSE UNCHANGED <<armed, dirty, scheduled>>
    /\ UNCHANGED <<memory, table, alloc, phase, marks, queues, steps, sweeper, bitten,
                   ret, forced, request, lost, ghosts>>

\* The game is saved and loaded between two ticks: linear memory is in the save,
\* the page set is not, and storage.fk_gc re-arms the step (fk_mod.lua:1799, 2177).
SaveAndLoad ==
    /\ pc = "run" /\ scheduled
    /\ dirty' = {} /\ lost' = TRUE /\ armed' = TRUE
    /\ UNCHANGED <<memory, table, alloc, phase, marks, queues, steps, sweeper, bitten,
                   control, request, scheduled, ghosts>>

-----------------------------------------------------------------------------
Guest ==
    \/ \E r, p \in Reg : Load(r, p) \/ Store(p, r) \/ Derive(r, p)
    \/ \E r \in Reg : \/ Forget(r)
                      \/ \E c \in Small : AllocateSmall(r, c)
                      \/ \E n \in LargeSizes : AllocateLarge(r, n)

Allocator == FindSpan \/ SweepAhead \/ GrowHeap \/ OutOfMemory

Marker == \/ FinishPartial \/ DrainDirtySpans \/ DrainGray \/ RunRescan
          \/ Attempt \/ VerdictNo \/ VerdictYes

Sweeper == SweepSpan \/ SweepPauses \/ FinishSweep

Next == \/ Guest \/ Allocator \/ Start \/ Collect \/ HostStep
        \/ Marker \/ Sweeper \/ Return \/ SaveAndLoad

Spec == Init /\ [][Next]_vars

(***************************************************************************)
(* Fairness: a dispatch runs to its end once begun, and the engine raises  *)
(* on_tick, so a registered step comes.  The guest promises nothing.       *)
(***************************************************************************)
Fairness == WF_vars(Allocator \/ (pc = "find" /\ Collect) \/ Marker \/ Sweeper \/ Return)
            /\ SF_vars(HostStep)

LiveSpec == Spec /\ Fairness

-----------------------------------------------------------------------------
(* Properties *)

TypeOK ==
    /\ mem \in [Word -> Word \cup {Nil}] /\ roots \in [Reg -> Word \cup {Nil}]
    /\ class \in [Span -> Small \cup {Unassigned, Large, LargeMid}]
    /\ aux \in [Span -> 0..SpanLimit]
    /\ fresh \subseteq Span /\ covered \in 1..SpanLimit /\ spanCursor \in 0..SpanLimit
    /\ cur \in [Small -> SUBSET Word] /\ hold \in [Small -> SUBSET Word]
    /\ free \in [Small -> SUBSET SUBSET Word]
    /\ phase \in {"idle", "mark", "sweep"}
    /\ marked \subseteq Word /\ gray \subseteq marked /\ grayOvf \in BOOLEAN
    /\ partial \subseteq Word /\ pend \subseteq Span
    /\ rescanOwed \in BOOLEAN /\ rescanCursor \in 0..SpanLimit
    /\ steps \in 0..(MarkLimit + 1)
    /\ sweepCursor \in 0..SpanLimit /\ largeKeep \in {"none", "keep", "drop"}
    /\ bitten \in BOOLEAN /\ left \in BOOLEAN /\ forced \in BOOLEAN /\ valved \in BOOLEAN
    /\ pc \in {"run", "find", "partial", "dirty", "drain", "rescan", "attempt",
               "verdict", "sweep", "stepped"}
    /\ ret \in {"run", "dirty", "rescan", "attempt", "verdict"}
    /\ job \in {"none", "step", "ahead", "collect"}
    /\ req \in {Nil} \cup [reg : Reg, class : Small \cup {Large}, n : 1..SpanLimit]
    /\ armed \in BOOLEAN /\ lost \in BOOLEAN /\ scheduled \in BOOLEAN
    /\ dirty \subseteq Span
    /\ objs \subseteq Word /\ doomed \subseteq objs

\* Nothing reachable is swept: no root, and no word of a reachable object, points
\* at memory the collector has taken back (collect.go:1478, the barrier of
\* agents/gc.md).
NothingLiveLost == Heap!NoDangling

\* A block the allocator may hand out is zero, belongs to no object, and to one
\* window or run only (heap.go:699 freeInvariant).
FreeBlocksFree ==
    LET Stock(c) == free[c] \cup (IF cur[c] = {} THEN {} ELSE {cur[c]})
    IN  \A c \in Small : \A B \in Stock(c) :
           /\ \A w \in B : mem[w] = Nil /\ class[w[1]] = c
           /\ \A b \in objs : B \cap Extent(b) = {}
           /\ \A C \in Stock(c) \ {B} : B \cap C = {}

\* A collection leaves no mark bit and no fresh flag behind for the next one to
\* trust (collect.go:1360).
MarksClear == phase = "idle" => marked = {} /\ fresh = {}

\* What was garbage when a collection began is gone when it ends.
GarbageGoes == phase = "idle" => doomed = {}

\* Every step keeps the contract of a managed heap: it is one of its steps, or
\* leaves what the guest sees alone.
ImplementsHeap == [][Heap!Next \/ UNCHANGED Heap!vars]_<<memory, class, aux, objs>>

\* A collection that has begun ends, whatever the guest does meanwhile: the
\* deadline (collect.go:564) is what makes marking end.
CollectionEnds == phase # "idle" ~> phase = "idle"

\* The valve collects where the guest stands "rather than trap with a bare
\* unreachable" (collect.go:438), so a guest traps only when every run of spans
\* long enough holds an object it can reach or the window it allocates from.
TrapMeansFull ==
    pc = "find" /\ Found = {} /\ valved /\ covered + req.n > SpanLimit
       => \A s \in 0..(covered - req.n) : \E t \in s..(s + req.n - 1) :
             \/ \E c \in Small : cur[c] \cap SpanWords(t) # {}
             \/ \E o \in Heap!Live : o \cap SpanWords(t) # {}

=============================================================================
