---------------------------- MODULE CollectorProofs ----------------------------
(***************************************************************************)
(* The invariants of Collector for any heap, any classes and any sizes of  *)
(* objects, of spans and of the gray stack.  CollectorInv is inductive; it *)
(* is proved one conjunct at a time, each by the kinds of steps that can   *)
(* disturb it.                                                             *)
(***************************************************************************)
EXTENDS Collector, TLAPS

\* The classes of spans, the requests the allocator serves, the stages of marking.
Class == Small \cup {Unassigned, Large, LargeMid}
Request == {q \in [reg : Reg, class : Small \cup {Large}, n : 1..SpanLimit] :
               q.class = Large \/ q.n = 1}
MarkStage == {"partial", "dirty", "drain", "rescan", "attempt", "verdict"}

-----------------------------------------------------------------------------
(* The inductive invariant *)

\* Who is running, and in which phase.
Flow ==
    /\ pc \in MarkStage => phase = "mark"
    /\ pc = "sweep" => phase = "sweep"
    /\ pc = "drain" => ret # "run"
    /\ req \in Request \cup {Nil} /\ (pc = "find" => req \in Request)
    /\ pc \in {"run", "find"} <=> job = "none"
    /\ job = "ahead" => phase # "mark"
    /\ job = "collect" => IF pc = "stepped" THEN phase = "idle" ELSE left
    /\ phase = "mark" /\ job = "none" => armed
    /\ phase # "mark" => gray = {}

\* A later span of a large object that has its head.
Owned(t) == /\ aux[t] < t /\ class[aux[t]] = Large
            /\ t < aux[t] + aux[aux[t]]

\* One whose head the sweep has taken: it goes next.
Orphan(t) == /\ largeKeep = "drop" /\ sweepCursor <= t
             /\ \A u \in sweepCursor..t : class[u] = LargeMid /\ ~Owned(u) /\ u \notin fresh

\* The span table: heads, the later spans of their objects, and where objects may begin.
Shape ==
    /\ \A s \in Span : s >= covered => class[s] = Unassigned
    /\ \A h \in Span : class[h] = Large =>
          /\ aux[h] >= 1 /\ h + aux[h] <= covered /\ First(h) \in objs
          /\ \A t \in (h + 1)..(h + aux[h] - 1) : class[t] = LargeMid /\ aux[t] = h
    /\ \A t \in Span : class[t] = LargeMid => Owned(t) \/ Orphan(t)
    /\ \A b \in objs : class[b[1]] \in Small \/ (class[b[1]] = Large /\ b[2] = 0)
    /\ largeKeep = "drop" => /\ phase = "sweep" /\ sweepCursor < covered
                             /\ class[sweepCursor] = LargeMid /\ Orphan(sweepCursor)

\* The spans the sweep is to pass over are ahead of it, and a large object's go together.
Freshness ==
    /\ phase # "sweep" => fresh = {}
    /\ \A s \in fresh : s >= sweepCursor /\ class[s] # Unassigned
    /\ \A t \in fresh : class[t] = LargeMid /\ aux[t] >= sweepCursor => aux[t] \in fresh

\* What may be handed out is zero, nobody's, and in one window or run.
Stock ==
    \A c \in Small :
       /\ \A w \in cur[c] : mem[w] = Nil /\ class[w[1]] = c /\ w \notin objs
       /\ \A B \in free[c] : /\ \A w \in B : mem[w] = Nil /\ class[w[1]] = c /\ w \notin objs
                             /\ B \cap cur[c] = {}
                             /\ \A C \in free[c] : B # C => B \cap C = {}

\* The sweep frees behind it, what waits ahead of it is in spans it will pass over,
\* and it knows the windows it must leave alone.
Windows ==
    phase = "sweep" =>
       \A c \in Small :
          /\ \A B \in free[c] : \A w \in B : w[1] < sweepCursor \/ w[1] \in fresh
          /\ \A w \in cur[c] : w \in hold[c] \/ w[1] < sweepCursor \/ w[1] \in fresh
          /\ \A w \in hold[c] : class[w[1]] = c

\* What the sweep will not take, or has not taken.
Survives(b) == \/ b[1] < sweepCursor \/ b[1] \in fresh \/ b \in marked
               \/ \E c \in Small : b \in hold[c]

\* S holds every object a root points into, and every object its members do.
Grounded(S) ==
    /\ S \subseteq objs
    /\ \A r \in Reg : roots[r] # Nil => \E b \in S : roots[r] \in Extent(b)
    /\ \A b \in S : \A w \in Extent(b) :
          mem[w] # Nil => \E c \in S : mem[w] \in Extent(c)

\* What the guest can reach lies in such a set; nothing else is ever marked, and
\* none of it is swept.
Clean == \E S \in SUBSET objs :
            /\ Grounded(S) /\ marked \subseteq S /\ S \cap doomed = {}
            /\ phase = "sweep" => \A b \in S : Survives(b)

\* Marks and old garbage are ahead of the sweep, which will see them for what they are.
Ahead ==
    /\ phase = "idle" => marked = {} /\ doomed = {}
    /\ phase = "sweep" => /\ \A b \in marked : b[1] >= sweepCursor /\ b[1] \notin fresh
                          /\ \A b \in doomed : ~Survives(b)

\* A value the marker has nothing to do for.
Pointee(v) == v = Nil \/ Base(v) \in marked

\* A word of a marked object that is still to be looked at.
Owed(b, w) == \/ b \in gray \/ grayOvf
              \/ w \in partial \/ w[1] \in pend
              \/ rescanOwed /\ w[1] >= rescanCursor
              \/ job = "none" /\ (lost \/ w[1] \in dirty)

\* The tricolour invariant, with the host's record of written pages.
Tricolour ==
    phase = "mark" =>
       /\ \A b \in marked : \A w \in Extent(b) : Pointee(mem[w]) \/ Owed(b, w)
       /\ \A w \in partial : \E b \in marked : w \in Extent(b)
       /\ pc = "verdict" \/ (pc = "drain" /\ ret = "verdict") =>
             pend = {} /\ \A r \in Reg : Pointee(roots[r])

\* The inductive invariant.
CollectorInv ==
    /\ TypeOK /\ Flow /\ Shape /\ Freshness /\ Stock /\ Windows /\ Clean /\ Ahead /\ Tricolour
-----------------------------------------------------------------------------
(* The heap's shape *)

\* Words are pairs of a span and a place in it.
LEMMA WordPairs ==
  /\ Span \subseteq Nat /\ Off \subseteq Nat /\ 0 \in Off /\ 0 \in Span
  /\ \A s \in Span : s < SpanLimit /\ First(s) \in Word /\ First(s)[1] = s /\ First(s)[2] = 0
  /\ \A s \in Nat : s < SpanLimit => s \in Span
  /\ \A w \in Word : w[1] \in Span /\ w[2] \in Off /\ w = <<w[1], w[2]>>
  /\ \A s \in Span : SpanWords(s) = {w \in Word : w[1] = s}
  /\ Nil \notin Word
<1>1. SpanLimit \in Nat \ {0} /\ SpanSize \in Nat \ {0} /\ Nil \notin Word
  BY CollectorAssumption
<1>2. /\ Span \subseteq Nat /\ Off \subseteq Nat /\ 0 \in Off /\ 0 \in Span
      /\ \A s \in Span : s < SpanLimit
      /\ \A s \in Nat : s < SpanLimit => s \in Span
  BY <1>1 DEF Span, Off
<1>3. \A w \in Word : w[1] \in Span /\ w[2] \in Off /\ w = <<w[1], w[2]>>
  BY DEF Word
<1>4. \A s \in Span : First(s) \in Word /\ First(s)[1] = s /\ First(s)[2] = 0
  BY <1>2 DEF First, Word
<1>5. \A s \in Span : SpanWords(s) = {w \in Word : w[1] = s}
  BY <1>3 DEF SpanWords, Word
<1> QED BY <1>1, <1>2, <1>3, <1>4, <1>5

\* The classes are apart, and the large ones are not small.
LEMMA ClassesApart ==
  /\ Unassigned \notin Small /\ Large \notin Small /\ LargeMid \notin Small
  /\ Unassigned # Large /\ Unassigned # LargeMid /\ Large # LargeMid
BY CollectorAssumption

\* A small object is one word.
LEMMA SmallExtent ==
  ASSUME NEW b, class[b[1]] # Large PROVE Extent(b) = {b}
BY DEF Extent

\* A pointer into an object leads back to its first word (findObject).
LEMMA ExtentBase ==
  ASSUME TypeOK, Shape, NEW b \in objs, NEW v \in Extent(b)
  PROVE  /\ v \in Word /\ v # Nil /\ Base(v) = b
         /\ class[v[1]] # Unassigned /\ v[1] < covered /\ b[1] <= v[1]
         /\ class[b[1]] \in Small => v = b
         /\ class[b[1]] = Large => /\ b = First(b[1]) /\ v[1] < b[1] + aux[b[1]]
                                   /\ v[1] > b[1] => class[v[1]] = LargeMid /\ aux[v[1]] = b[1]
<1>1. /\ b \in Word /\ b[1] \in Span /\ b[1] \in Nat /\ b = <<b[1], b[2]>>
      /\ class \in [Span -> Class] /\ aux \in [Span -> 0..SpanLimit] /\ covered \in 1..SpanLimit
  BY WordPairs DEF TypeOK, Class
<1>2. CASE class[b[1]] \in Small
  <2>1. v = b /\ class[v[1]] \notin {Large, LargeMid, Unassigned}
    BY <1>2, ClassesApart DEF Extent
  <2>2. Base(v) = v
    BY <2>1 DEF Base
  <2>3. b[1] < covered
    BY <1>1, <2>1 DEF Shape
  <2> QED BY <1>1, <1>2, <2>1, <2>2, <2>3, WordPairs, ClassesApart
<1>3. CASE class[b[1]] = Large /\ b[2] = 0
  <2>1. v \in (b[1]..(b[1] + aux[b[1]] - 1)) \X Off
    BY <1>3 DEF Extent
  <2>2. /\ v[1] \in b[1]..(b[1] + aux[b[1]] - 1) /\ v[2] \in Off /\ v = <<v[1], v[2]>>
    BY <2>1
  <2>3. /\ b[1] + aux[b[1]] <= covered /\ aux[b[1]] \in Nat
        /\ \A t \in (b[1] + 1)..(b[1] + aux[b[1]] - 1) : class[t] = LargeMid /\ aux[t] = b[1]
    BY <1>1, <1>3 DEF Shape
  <2>4. v[1] \in Nat /\ v[1] < covered /\ v[1] < SpanLimit /\ b[1] <= v[1]
    BY <1>1, <2>2, <2>3, CollectorAssumption
  <2>5. v \in Word
    BY <2>2, <2>4, WordPairs DEF Word
  <2>6. b = First(b[1])
    BY <1>1, <1>3 DEF First
  <2>7. CASE v[1] = b[1]
    <3>1. Base(v) = First(v[1])
      BY <1>3, <2>7, ClassesApart DEF Base
    <3> QED BY <1>1, <1>3, <2>2, <2>4, <2>5, <2>6, <2>7, <3>1, WordPairs, ClassesApart
  <2>8. CASE v[1] > b[1]
    <3>1. class[v[1]] = LargeMid /\ aux[v[1]] = b[1]
      BY <1>1, <2>2, <2>3, <2>4, <2>8
    <3>2. Base(v) = First(aux[v[1]])
      BY <3>1, ClassesApart DEF Base
    <3> QED BY <1>1, <1>3, <2>2, <2>3, <2>4, <2>5, <2>6, <2>8, <3>1, <3>2, WordPairs, ClassesApart
  <2> QED BY <1>1, <2>4, <2>7, <2>8
<1> QED BY <1>2, <1>3 DEF Shape

\* No word belongs to two objects.
LEMMA ExtentsApart ==
  ASSUME TypeOK, Shape, NEW b \in objs, NEW c \in objs, NEW v \in Extent(b), v \in Extent(c)
  PROVE  b = c
BY ExtentBase

\* The first word of an object is its own.
LEMMA OwnWord ==
  ASSUME TypeOK, Shape, NEW b \in objs PROVE b \in Extent(b)
<1>1. b \in Word /\ b = <<b[1], b[2]>> /\ b[1] \in Nat /\ b[2] \in Off
  BY WordPairs DEF TypeOK
<1>2. CASE class[b[1]] = Large
  <2>1. aux[b[1]] >= 1 /\ aux[b[1]] \in Nat
    BY <1>1, <1>2, WordPairs DEF Shape, TypeOK
  <2>2. b[1] \in b[1]..(b[1] + aux[b[1]] - 1)
    BY <1>1, <2>1
  <2>3. b \in (b[1]..(b[1] + aux[b[1]] - 1)) \X Off
    BY <1>1, <2>2
  <2> QED BY <1>2, <2>3 DEF Extent
<1>3. CASE class[b[1]] # Large
  BY <1>3 DEF Extent
<1> QED BY <1>2, <1>3
-----------------------------------------------------------------------------
(* What the steps do *)

\* While no sweep is on, what a pointer into a span in use leads to is a word.
LEMMA BaseIsWord ==
  ASSUME TypeOK, Shape, phase # "sweep", NEW v \in Word, class[v[1]] # Unassigned
  PROVE  Base(v) \in Word
<1>1. v[1] \in Span /\ v[1] \in Nat
  BY WordPairs
<1>2. CASE class[v[1]] = LargeMid
  <2>1. Owned(v[1])
    BY <1>1, <1>2 DEF Shape, Orphan
  <2>2. aux[v[1]] \in Nat /\ aux[v[1]] < v[1] /\ v[1] < SpanLimit
    BY <1>1, <2>1, WordPairs DEF Owned, TypeOK
  <2>3. aux[v[1]] \in Span
    BY <1>1, <2>2, WordPairs, CollectorAssumption
  <2>4. Base(v) = First(aux[v[1]])
    BY <1>2, ClassesApart DEF Base
  <2> QED BY <2>3, <2>4, WordPairs
<1>3. CASE class[v[1]] = Large
  BY <1>1, <1>3, WordPairs, ClassesApart DEF Base
<1>4. CASE class[v[1]] \notin {Large, LargeMid}
  BY <1>4 DEF Base
<1> QED BY <1>2, <1>3, <1>4

\* mark (collect.go:1191): what is newly marked is stacked or owed to a re-scan.
LEMMA MarkEffect ==
  ASSUME TypeOK, Shape, phase # "sweep",
         NEW V \in SUBSET (Word \cup {Nil}), NEW stack \in SUBSET marked,
         NEW ovf \in BOOLEAN, MarkInto(V, stack, ovf)
  PROVE  /\ marked \subseteq marked' /\ marked' \subseteq Word
         /\ stack \subseteq gray' /\ gray' \subseteq marked'
         /\ grayOvf' \in BOOLEAN /\ (ovf => grayOvf')
         /\ \A b \in marked' \ marked :
               /\ b \in gray' \/ grayOvf'
               /\ \E v \in V : v # Nil /\ class[v[1]] # Unassigned /\ b = Base(v)
         /\ \A v \in V : v = Nil \/ class[v[1]] = Unassigned \/ Base(v) \in marked'
<1> DEFINE new == {Base(v) : v \in {u \in V \ {Nil} : class[u[1]] # Unassigned}} \ marked
<1>1. PICK pushed \in SUBSET new :
         /\ marked' = marked \cup new
         /\ gray' = stack \cup pushed
         /\ grayOvf' = (ovf \/ pushed # new)
  BY DEF MarkInto
<1>2. marked \subseteq Word
  BY DEF TypeOK
<1>3. new \subseteq Word
  BY BaseIsWord
<1>4. \A b \in new : \E v \in V : v # Nil /\ class[v[1]] # Unassigned /\ b = Base(v)
  OBVIOUS
<1>5. \A v \in V : v = Nil \/ class[v[1]] = Unassigned \/ Base(v) \in marked \cup new
  OBVIOUS
<1> HIDE DEF new
<1>6. grayOvf' \in BOOLEAN /\ (ovf => grayOvf')
  BY <1>1
<1>7. \A b \in new : b \in gray' \/ grayOvf'
  BY <1>1
<1> QED BY <1>1, <1>2, <1>3, <1>4, <1>5, <1>6, <1>7

\* What the marker and the steps that only pass control leave alone.
heapVars == <<mem, roots, class, aux, fresh, covered, cur, free, hold, phase, sweepCursor,
          largeKeep, objs, doomed>>

\* An allocation the window or a waiting run serves.
HandsOut(r, c) ==
    /\ \/ /\ cur[c] # {}
          /\ HandOut(r, c, cur[c]) /\ free' = free /\ dirty' = dirty
       \/ /\ cur[c] = {}
          /\ \E run \in free[c] : /\ HandOut(r, c, run)
                                  /\ free' = [free EXCEPT ![c] = @ \ {run}]
                                  /\ Written({w[1] : w \in run})
    /\ UNCHANGED <<mem, table, hold, phase, marks, queues, steps, sweeper, bitten,
                   control, request, armed, lost, scheduled, doomed>>

\* One that has to look for a span.
AsksSpan == \E r \in Reg, c \in Small \cup {Large}, n \in 1..SpanLimit :
    /\ c = Large \/ n = 1
    /\ pc = "run" /\ pc' = "find"
    /\ req' = [reg |-> r, class |-> c, n |-> n]
    /\ valved' = FALSE
    /\ UNCHANGED <<heapVars, marks, queues, steps, bitten, ret, left, forced, job, host>>

\* A stage of marking that does not end it.
Marks == FinishPartial \/ DrainDirtySpans \/ DrainGray \/ RunRescan \/ Attempt \/ VerdictNo

\* A collection begins, or one in flight is to be finished without yielding.
Begins == /\ phase = "idle"
          /\ Start \/ Collect
Resumes == phase # "idle" /\ Collect

\* Control passes between the guest, the allocator, the collector and the host.
Waits == \/ AsksSpan \/ SweepAhead \/ OutOfMemory \/ Resumes \/ HostStep
         \/ SweepPauses \/ Return \/ SaveAndLoad

\* Every step is of one of the kinds the proofs go through.
LEMMA CollectorCases ==
  ASSUME Next
  PROVE  \/ \E r, p \in Reg : Load(r, p) \/ Store(p, r) \/ Derive(r, p)
         \/ \E r \in Reg : Forget(r)
         \/ \E r \in Reg, c \in Small : pc = "run" /\ HandsOut(r, c)
         \/ FindSpan \/ GrowHeap \/ Begins \/ Marks \/ Waits
         \/ VerdictYes \/ SweepSpan \/ FinishSweep
<1>1. ASSUME NEW r \in Reg, NEW c \in Small, AllocateSmall(r, c)
      PROVE  (pc = "run" /\ HandsOut(r, c)) \/ AsksSpan
  <2>1. CASE cur[c] # {} /\ HandOut(r, c, cur[c]) /\ UNCHANGED <<free, dirty, pc, request>>
    BY <1>1, <2>1 DEF AllocateSmall, HandsOut, control, request
  <2>2. CASE /\ cur[c] = {}
             /\ \E run \in free[c] : /\ HandOut(r, c, run)
                                     /\ free' = [free EXCEPT ![c] = @ \ {run}]
                                     /\ Written({w[1] : w \in run})
             /\ UNCHANGED <<pc, request>>
    BY <1>1, <2>2 DEF AllocateSmall, HandsOut, control, request
  <2>3. CASE /\ pc' = "find" /\ valved' = FALSE
             /\ req' = [reg |-> r, class |-> c, n |-> 1]
             /\ UNCHANGED <<roots, cur, free, dirty, objs>>
    <3>1. 1 \in 1..SpanLimit
      BY CollectorAssumption
    <3>2. UNCHANGED <<heapVars, marks, queues, steps, bitten, ret, left, forced, job, host>>
      BY <1>1, <2>3 DEF AllocateSmall, heapVars, table, marks, queues, sweeper, host, memory
    <3> QED BY <1>1, <2>3, <3>1, <3>2 DEF AllocateSmall, AsksSpan
  <2> QED BY <1>1, <2>1, <2>2, <2>3 DEF AllocateSmall
<1>2. ASSUME NEW r \in Reg, NEW n \in LargeSizes, AllocateLarge(r, n) PROVE AsksSpan
  <2>1. n \in 1..SpanLimit
    BY CollectorAssumption
  <2>2. UNCHANGED <<heapVars, marks, queues, steps, bitten, ret, left, forced, job, host>>
    BY <1>2 DEF AllocateLarge, heapVars, table, marks, queues, sweeper, host, memory, alloc, ghosts
  <2> QED BY <1>2, <2>1, <2>2 DEF AllocateLarge, AsksSpan
<1>3. Start \/ Collect => Begins \/ Waits
  BY DEF Begins, Waits, Resumes, Start
<1>4. Allocator => FindSpan \/ GrowHeap \/ Waits
  BY DEF Allocator, Waits
<1>5. Marker => Marks \/ VerdictYes
  BY DEF Marker, Marks
<1>6. Sweeper => SweepSpan \/ FinishSweep \/ Waits
  BY DEF Sweeper, Waits
<1>7. HostStep \/ Return \/ SaveAndLoad => Waits
  BY DEF Waits
<1>8. AsksSpan => Waits
  BY DEF Waits
<1>9. CASE Guest
  BY <1>1, <1>2, <1>8, <1>9 DEF Guest
<1> QED BY <1>3, <1>4, <1>5, <1>6, <1>7, <1>9 DEF Next

\* The steps of the marker and those that only pass control leave the heap alone.
LEMMA HeapStill == ASSUME Marks \/ Waits PROVE UNCHANGED heapVars
<1>1. CASE Marks
  BY <1>1 DEF Marks, FinishPartial, DrainDirtySpans, DrainGray, RunRescan, Attempt, VerdictNo,
              Marking, heapVars, memory, table, alloc, sweeper, ghosts
<1>2. CASE AsksSpan
  BY <1>2 DEF AsksSpan
<1>3. CASE SweepAhead \/ OutOfMemory \/ HostStep \/ SweepPauses \/ Return \/ SaveAndLoad
  BY <1>3 DEF SweepAhead, OutOfMemory, HostStep, SweepPauses, Return, SaveAndLoad,
              heapVars, memory, table, alloc, sweeper, ghosts
<1>4. CASE Resumes
  BY <1>4 DEF Resumes, Collect, heapVars, memory, table, alloc, sweeper
<1> QED BY <1>1, <1>2, <1>3, <1>4 DEF Waits
-----------------------------------------------------------------------------
(* Who runs *)

\* The first two windows of allocation, the roots and the heap do not change who runs.
LEMMA FlowKept ==
  ASSUME Flow, UNCHANGED <<pc, ret, left, job, phase, armed, req>>, phase # "mark" => gray' = {}
  PROVE  Flow'
BY DEF Flow

\* A drain comes back to the stage that asked for it.
LEMMA DrainFlow ==
  ASSUME NEW stage \in MarkStage \ {"drain"}, DrainThen(stage) \/ DrainIfDeep(stage)
  PROVE  /\ pc' \in MarkStage /\ (pc' = "drain" => ret' # "run")
         /\ pc' = stage \/ (pc' = "drain" /\ ret' = stage)
         /\ ret' = ret \/ ret' = stage
BY DEF DrainThen, DrainIfDeep, MarkStage

\* A collection that is not a step does not stop for its budget.
LEMMA ChargeFlow ==
  ASSUME TypeOK, Charge
  PROVE  left' \in BOOLEAN /\ (job = "collect" /\ left => left')
BY DEF TypeOK, Charge, Unbounded

\* A scan that stops early is a bounded one: a whole collection keeps its budget.
LEMMA ScanFlow ==
  ASSUME TypeOK, left, NEW W, NEW stack, Scan(W, stack)
  PROVE  left' \in BOOLEAN /\ (job = "collect" => left')
<1>1. PICK S \in SUBSET W \ {{}} : IF S = W THEN Charge ELSE ~Unbounded /\ left' = FALSE
  BY DEF Scan
<1> QED BY <1>1, ChargeFlow DEF Unbounded

\* The stages of marking follow each other within the mark phase, and a
\* synchronous collection does not leave them.
LEMMA MarksFlow ==
  ASSUME TypeOK, Flow, Marks
  PROVE  /\ pc \in MarkStage /\ phase = "mark" /\ job # "none"
         /\ UNCHANGED <<phase, job, armed, req, forced, valved, bitten, steps, host>>
         /\ left' \in BOOLEAN /\ (job = "collect" => left')
         /\ pc' \in MarkStage \cup {"stepped"} /\ (pc' = "drain" => ret' # "run")
         /\ ret' \in {"run", "dirty", "rescan", "attempt", "verdict"}
         /\ pc' = "stepped" => job # "collect"
<1>1. pc \in MarkStage
  BY DEF Marks, FinishPartial, DrainDirtySpans, DrainGray, RunRescan, Attempt, VerdictNo, MarkStage
<1>2. phase = "mark" /\ job # "none"
  BY <1>1 DEF Flow, MarkStage
<1>3. UNCHANGED <<phase, job, armed, req, forced, valved, bitten, steps, host>>
  BY DEF Marks, FinishPartial, DrainDirtySpans, DrainGray, RunRescan, Attempt, VerdictNo,
         Marking, request, host
<1>4. left \in BOOLEAN /\ (job = "collect" => left)
  BY <1>1 DEF TypeOK, Flow, MarkStage
<1>5. ret \in {"run", "dirty", "rescan", "attempt", "verdict"}
  BY DEF TypeOK
<1>6. {"partial", "dirty", "drain", "rescan", "attempt", "verdict"} = MarkStage
  BY DEF MarkStage
<1> DEFINE Goal == /\ left' \in BOOLEAN /\ (job = "collect" => left')
                   /\ pc' \in MarkStage \cup {"stepped"} /\ (pc' = "drain" => ret' # "run")
                   /\ ret' \in {"run", "dirty", "rescan", "attempt", "verdict"}
                   /\ pc' = "stepped" => job # "collect"
<1> SUFFICES Goal
  BY <1>1, <1>2, <1>3
<1>7. CASE FinishPartial
  <2>1. CASE partial # {} /\ left /\ Scan(partial, gray) /\ UNCHANGED pc
    <3>1. left' \in BOOLEAN /\ (job = "collect" => left')
      BY <2>1, ScanFlow
    <3> QED BY <1>5, <1>6, <1>7, <2>1, <3>1 DEF FinishPartial
  <2>2. CASE pc' = "dirty" /\ UNCHANGED <<marks, partial, left>>
    BY <1>4, <1>5, <1>6, <1>7, <2>2 DEF FinishPartial
  <2> QED BY <1>7, <2>1, <2>2 DEF FinishPartial
<1>8. ASSUME NEW s, RescanSpan(s) PROVE left' \in BOOLEAN /\ (job = "collect" => left')
  <2>1. Charge \/ left' = left
    BY <1>8 DEF RescanSpan
  <2> QED BY <1>4, <2>1, ChargeFlow
<1>9. CASE DrainDirtySpans
  <2>1. left' \in BOOLEAN /\ (job = "collect" => left')
    BY <1>4, <1>8, <1>9 DEF DrainDirtySpans
  <2>2. DrainIfDeep("dirty") \/ DrainThen("rescan")
    BY <1>9 DEF DrainDirtySpans
  <2> QED BY <1>5, <1>6, <2>1, <2>2, DrainFlow
<1>10. CASE DrainGray
  <2>1. left' \in BOOLEAN /\ (job = "collect" => left')
    <3>1. (left /\ (\E W, stack : Scan(W, stack))) \/ left' = left
      BY <1>10 DEF DrainGray
    <3> QED BY <1>4, <3>1, ScanFlow
  <2>2. UNCHANGED <<pc, ret>> \/ (pc' = ret /\ ret' = "run")
    BY <1>10 DEF DrainGray
  <2>3. pc = "drain" /\ ret # "run"
    BY <1>10 DEF DrainGray, Flow
  <2> QED BY <1>5, <1>6, <2>1, <2>2, <2>3
<1>11. CASE RunRescan
  <2>1. left' \in BOOLEAN /\ (job = "collect" => left')
    BY <1>4, <1>8, <1>11 DEF RunRescan
  <2>2. DrainIfDeep("rescan") \/ DrainThen("attempt")
    BY <1>11 DEF RunRescan
  <2> QED BY <1>5, <1>6, <2>1, <2>2, DrainFlow
<1>12. ASSUME MarkStepReturns PROVE Goal
  BY <1>4, <1>5, <1>6, <1>12 DEF MarkStepReturns, Unbounded
<1>13. CASE Attempt
  <2>1. CASE MarkStepReturns
    BY <1>12, <2>1
  <2>2. CASE Charge /\ DrainThen("verdict")
    <3>1. left' \in BOOLEAN /\ (job = "collect" => left')
      BY <1>4, <2>2, ChargeFlow
    <3> QED BY <1>5, <1>6, <2>2, <3>1, DrainFlow
  <2> QED BY <1>13, <2>1, <2>2 DEF Attempt
<1>14. CASE VerdictNo
  BY <1>12, <1>14 DEF VerdictNo
<1> QED BY <1>7, <1>9, <1>10, <1>11, <1>13, <1>14 DEF Marks
\* No step loses track of who is running.
LEMMA FlowStep == ASSUME TypeOK, Flow, Shape, Next PROVE Flow'
<1>1. \A r, p \in Reg : Load(r, p) \/ Store(p, r) \/ Derive(r, p) => Flow'
  BY FlowKept DEF Load, Store, Derive, Collectors, control, request, marks, Flow
<1>2. \A r \in Reg : Forget(r) => Flow'
  BY FlowKept DEF Forget, Collectors, control, request, marks, Flow
<1>3. \A r \in Reg, c \in Small : HandsOut(r, c) => Flow'
  BY FlowKept DEF HandsOut, control, request, marks, Flow
<1>4. CASE FindSpan
  BY <1>4 DEF FindSpan, Flow, marks, MarkStage
<1>5. CASE GrowHeap
  BY <1>5, FlowKept DEF GrowHeap, control, request, marks, host, Flow
<1>6. CASE Begins
  <2>1. phase' = "mark" /\ phase = "idle"
    BY <1>6 DEF Begins, Start, Collect, StartCollection
  <2>2. CASE Start
    BY <2>1, <2>2 DEF Start, Flow, control, request, MarkStage
  <2>3. CASE Collect
    <3>1. /\ pc \in {"run", "find"} /\ job' = "collect" /\ left' = TRUE /\ pc' = "partial"
          /\ req' = req
      BY <2>1, <2>3 DEF Collect
    <3> QED BY <2>1, <3>1 DEF Flow, MarkStage
  <2> QED BY <1>6, <2>2, <2>3 DEF Begins
<1>7. CASE Marks
  BY <1>7, MarksFlow DEF Flow, host, MarkStage
<1>8. CASE Waits
  <2>1. CASE AsksSpan
    <3>1. req' \in Request
      BY <2>1 DEF AsksSpan, Request
    <3> QED BY <2>1, <3>1 DEF AsksSpan, Flow, host, marks, heapVars, MarkStage
  <2>2. CASE SweepAhead
    BY <2>2 DEF SweepAhead, MaySweepAhead, Flow, marks, request, host, MarkStage
  <2>3. CASE OutOfMemory
    BY <2>3 DEF OutOfMemory, Flow, marks, host, MarkStage
  <2>4. CASE Resumes
    BY <2>4 DEF Resumes, Collect, Flow, marks, host, MarkStage, TypeOK
  <2>5. CASE HostStep
    <3>1. UNCHANGED <<phase, gray, armed, req>> /\ job' = "step" /\ pc = "run"
      BY <2>5 DEF HostStep, marks, request
    <3>2. \/ phase = "idle" /\ pc' = "stepped"
          \/ phase = "sweep" /\ pc' = "sweep"
          \/ phase = "mark" /\ pc' \in {"dirty", "partial"}
      BY <2>5 DEF HostStep
    <3> QED BY <3>1, <3>2 DEF Flow, MarkStage
  <2>6. CASE SweepPauses
    BY <2>6 DEF SweepPauses, Flow, marks, request, host, MarkStage
  <2>7. CASE Return
    <3>1. UNCHANGED <<phase, gray, req>> /\ job' = "none" /\ pc = "stepped"
      BY <2>7 DEF Return, marks, request
    <3>2. pc' \in {"run", "find"} /\ (pc' = "find" => req # Nil)
      BY <2>7 DEF Return
    <3>3. req # Nil => req \in Request
      BY DEF Flow
    <3>4. phase = "mark" => job = "step"
      BY <3>1 DEF Flow, TypeOK
    <3>5. phase = "mark" => armed'
      BY <2>7, <3>4 DEF Return
    <3> QED BY <3>1, <3>2, <3>3, <3>5 DEF Flow, MarkStage
  <2>8. CASE SaveAndLoad
    BY <2>8 DEF SaveAndLoad, Flow, marks, control, request, MarkStage
  <2> QED BY <1>8, <2>1, <2>2, <2>3, <2>4, <2>5, <2>6, <2>7, <2>8 DEF Waits
<1>9. CASE VerdictYes
  <2>1. /\ phase' = "sweep" /\ gray = {} /\ gray' = gray /\ job' = job /\ job # "none"
        /\ req' = req
    BY <1>9 DEF VerdictYes, Unfinished, marks, request, Flow
  <2>2. left' = (left \/ forced) /\ pc' = IF left' THEN "sweep" ELSE "stepped"
    BY <1>9 DEF VerdictYes
  <2>3. job = "collect" => left
    BY <1>9 DEF VerdictYes, Flow
  <2> QED BY <1>9, <2>1, <2>2, <2>3 DEF Flow, MarkStage, VerdictYes
<1>10. CASE SweepSpan
  <2>1. UNCHANGED <<phase, gray, job, pc, ret, req, armed>> /\ pc = "sweep"
    BY <1>10 DEF SweepSpan, Sweeping, request, host
  <2>2. job = "collect" => left'
    <3>1. Charge \/ left' = left
      BY <1>10 DEF SweepSpan, SweepUnassigned, SweepFresh, SweepLarge, SweepSmall
    <3>2. left \in BOOLEAN /\ (job = "collect" => left)
      BY <2>1 DEF Flow, TypeOK
    <3> QED BY <3>1, <3>2, ChargeFlow
  <2> QED BY <2>1, <2>2 DEF Flow, MarkStage
<1>11. CASE FinishSweep
  BY <1>11 DEF FinishSweep, Flow, marks, request, host, MarkStage
<1> QED BY <1>1, <1>2, <1>3, <1>4, <1>5, <1>6, <1>7, <1>8, <1>9, <1>10, <1>11, CollectorCases
-----------------------------------------------------------------------------
(* What marking reaches *)

\* What a root points into, or a marked object.
Reached(b) == \/ \E r \in Reg : roots[r] # Nil /\ b = Base(roots[r])
              \/ \E a \in marked : \E w \in Extent(a) : mem[w] # Nil /\ b = Base(mem[w])

\* More is marked, all of it reached, and what is new is stacked or owed.
Spread ==
    /\ marked \subseteq marked' /\ marked' \subseteq Word
    /\ gray' \subseteq marked' /\ grayOvf' \in BOOLEAN
    /\ \A b \in marked' \ marked : (b \in gray' \/ grayOvf') /\ Reached(b)

\* What is marked is among the objects, and what it points to is an object.
LEMMA MarkedObjects ==
  ASSUME TypeOK, Shape, Clean
  PROVE  /\ marked \subseteq objs
         /\ \A r \in Reg : roots[r] # Nil =>
               /\ Base(roots[r]) \in objs /\ roots[r] \in Extent(Base(roots[r]))
               /\ class[roots[r][1]] # Unassigned
         /\ \A a \in marked : \A w \in Extent(a) :
               /\ w \in Word
               /\ mem[w] # Nil => Base(mem[w]) \in objs /\ class[mem[w][1]] # Unassigned
<1>1. PICK S \in SUBSET objs : Grounded(S) /\ marked \subseteq S
  BY DEF Clean
<1>2. ASSUME NEW r \in Reg, roots[r] # Nil
      PROVE  /\ Base(roots[r]) \in objs /\ roots[r] \in Extent(Base(roots[r]))
             /\ class[roots[r][1]] # Unassigned
  <2>1. PICK b \in S : roots[r] \in Extent(b)
    BY <1>1, <1>2 DEF Grounded
  <2> QED BY <2>1, ExtentBase
<1>3. ASSUME NEW a \in marked, NEW w \in Extent(a)
      PROVE  /\ w \in Word
             /\ mem[w] # Nil => Base(mem[w]) \in objs /\ class[mem[w][1]] # Unassigned
  <2>1. a \in S /\ a \in objs
    BY <1>1
  <2>2. w \in Word
    BY <2>1, ExtentBase
  <2>3. CASE mem[w] # Nil
    <3>1. PICK c \in S : mem[w] \in Extent(c)
      BY <1>1, <2>1, <2>3 DEF Grounded
    <3> QED BY <2>2, <3>1, ExtentBase
  <2> QED BY <2>2, <2>3
<1> QED BY <1>1, <1>2, <1>3

\* Marking what some words of marked objects hold.
LEMMA MarkWords ==
  ASSUME TypeOK, Shape, Clean, phase # "sweep",
         NEW W, \A w \in W : \E a \in marked : w \in Extent(a),
         NEW stack \in SUBSET marked, MarkInto({mem[w] : w \in W}, stack, grayOvf)
  PROVE  /\ Spread /\ stack \subseteq gray' /\ (grayOvf => grayOvf')
         /\ \A w \in W : mem[w] = Nil \/ Base(mem[w]) \in marked'
<1> DEFINE V == {mem[w] : w \in W}
<1>1. W \subseteq Word
  BY MarkedObjects
<1>2. V \in SUBSET (Word \cup {Nil})
  BY <1>1 DEF TypeOK
<1>3. grayOvf \in BOOLEAN
  BY DEF TypeOK
<1>4. \A v \in V : \E w \in W : v = mem[w]
  OBVIOUS
<1>5. \A w \in W : mem[w] \in V
  OBVIOUS
<1>6. MarkInto(V, stack, grayOvf)
  OBVIOUS
<1> HIDE DEF V
<1>7. /\ marked \subseteq marked' /\ marked' \subseteq Word
      /\ stack \subseteq gray' /\ gray' \subseteq marked'
      /\ grayOvf' \in BOOLEAN /\ (grayOvf => grayOvf')
      /\ \A b \in marked' \ marked :
            /\ b \in gray' \/ grayOvf'
            /\ \E v \in V : v # Nil /\ class[v[1]] # Unassigned /\ b = Base(v)
      /\ \A v \in V : v = Nil \/ class[v[1]] = Unassigned \/ Base(v) \in marked'
  BY <1>2, <1>3, <1>6, MarkEffect
<1>8. \A b \in marked' \ marked : Reached(b)
  BY <1>4, <1>7 DEF Reached
<1>9. \A w \in W : mem[w] = Nil \/ Base(mem[w]) \in marked'
  BY <1>5, <1>7, MarkedObjects
<1> QED BY <1>7, <1>8, <1>9 DEF Spread

\* Marking what the roots hold (:771).
LEMMA MarkRoots ==
  ASSUME TypeOK, Shape, Clean, phase # "sweep",
         NEW stack \in SUBSET marked, NEW ovf \in BOOLEAN, MarkInto(RootValues, stack, ovf)
  PROVE  /\ Spread /\ stack \subseteq gray' /\ (ovf => grayOvf')
         /\ \A r \in Reg : roots[r] = Nil \/ Base(roots[r]) \in marked'
<1>1. RootValues \in SUBSET (Word \cup {Nil})
  BY DEF RootValues, TypeOK
<1>2. \A r \in Reg : roots[r] \in RootValues
  BY DEF RootValues
<1>3. \A v \in RootValues : \E r \in Reg : v = roots[r]
  BY DEF RootValues
<1>4. /\ marked \subseteq marked' /\ marked' \subseteq Word
      /\ stack \subseteq gray' /\ gray' \subseteq marked'
      /\ grayOvf' \in BOOLEAN /\ (ovf => grayOvf')
      /\ \A b \in marked' \ marked :
            /\ b \in gray' \/ grayOvf'
            /\ \E v \in RootValues : v # Nil /\ class[v[1]] # Unassigned /\ b = Base(v)
      /\ \A v \in RootValues : v = Nil \/ class[v[1]] = Unassigned \/ Base(v) \in marked'
  BY <1>1, MarkEffect
<1>5. \A b \in marked' \ marked : Reached(b)
  BY <1>3, <1>4 DEF Reached
<1>6. \A r \in Reg : roots[r] = Nil \/ Base(roots[r]) \in marked'
  BY <1>2, <1>4, MarkedObjects
<1> QED BY <1>4, <1>5, <1>6 DEF Spread

\* scan (:1325), as far as the budget goes.
LEMMA ScanEffect ==
  ASSUME TypeOK, Shape, Clean, phase # "sweep",
         NEW W, \A w \in W : \E a \in marked : w \in Extent(a),
         NEW stack \in SUBSET marked, Scan(W, stack)
  PROVE  /\ Spread /\ stack \subseteq gray' /\ (grayOvf => grayOvf')
         /\ partial' \subseteq W
         /\ \A w \in W : w \in partial' \/ mem[w] = Nil \/ Base(mem[w]) \in marked'
<1>1. PICK S \in SUBSET W \ {{}} : /\ MarkInto({mem[w] : w \in S}, stack, grayOvf)
                                   /\ partial' = W \ S
  BY DEF Scan
<1>2. \A w \in S : \E a \in marked : w \in Extent(a)
  OBVIOUS
<1>3. /\ Spread /\ stack \subseteq gray' /\ (grayOvf => grayOvf')
      /\ \A w \in S : mem[w] = Nil \/ Base(mem[w]) \in marked'
  BY <1>1, <1>2, MarkWords
<1> QED BY <1>1, <1>3

\* rescanSpan (:1022) leaves nothing marked in a span unlooked at.
LEMMA RescanEffect ==
  ASSUME TypeOK, Shape, Clean, phase # "sweep", NEW s \in Span, RescanSpan(s)
  PROVE  /\ Spread /\ gray \subseteq gray' /\ (grayOvf => grayOvf')
         /\ \A a \in marked : \A w \in Extent(a) :
               w[1] = s => mem[w] = Nil \/ Base(mem[w]) \in marked'
<1>1. gray \subseteq marked /\ marked \subseteq Word /\ grayOvf \in BOOLEAN
  BY DEF TypeOK
<1>2. marked \subseteq objs
  BY MarkedObjects
<1>3. ASSUME NEW a \in marked, NEW w \in Extent(a), w[1] = s
      PROVE  /\ class[s] # Unassigned /\ Base(w) = a /\ w \in SpanWords(s)
             /\ class[s] \in {Large, LargeMid} \/ w = a
             /\ class[s] \in {Large, LargeMid} => Base(First(s)) = a
  <2>1. /\ w \in Word /\ Base(w) = a /\ class[s] # Unassigned
        /\ class[a[1]] \in Small => w = a
        /\ class[a[1]] = Large => /\ a = First(a[1]) /\ a[1] <= s
                                  /\ s > a[1] => class[s] = LargeMid /\ aux[s] = a[1]
    BY <1>2, <1>3, ExtentBase
  <2>2. w \in SpanWords(s)
    BY <1>3, <2>1, WordPairs
  <2>3. class[s] \in {Large, LargeMid} => Base(First(s)) = Base(w)
    BY <1>3, <2>1, WordPairs, ClassesApart DEF Base
  <2>4. class[s] \in {Large, LargeMid} \/ w = a
    <3>1. a \in objs /\ a[1] \in Nat /\ s \in Nat
      BY <1>1, <1>2, WordPairs
    <3>2. class[a[1]] \in Small \/ class[a[1]] = Large
      BY <3>1 DEF Shape
    <3> QED BY <2>1, <3>1, <3>2
  <2> QED BY <2>1, <2>2, <2>3, <2>4
<1>4. CASE UNCHANGED <<marks, left>> /\ \A a \in marked : \A w \in Extent(a) : w[1] # s
  <2>1. Spread /\ gray \subseteq gray' /\ (grayOvf => grayOvf')
    BY <1>1, <1>4 DEF Spread, marks
  <2> QED BY <1>4, <2>1
<1>5. ASSUME NEW W, \A w \in W : \E a \in marked : w \in Extent(a),
             \A a \in marked : \A w \in Extent(a) : w[1] = s => w \in W,
             Mark({mem[w] : w \in W})
      PROVE  /\ Spread /\ gray \subseteq gray' /\ (grayOvf => grayOvf')
             /\ \A a \in marked : \A w \in Extent(a) :
                   w[1] = s => mem[w] = Nil \/ Base(mem[w]) \in marked'
  <2>1. MarkInto({mem[w] : w \in W}, gray, grayOvf)
    BY <1>5 DEF Mark
  <2> QED BY <1>1, <1>5, <2>1, MarkWords
<1>6. CASE class[s] = Unassigned
  <2>1. UNCHANGED <<marks, left>>
    BY <1>6, ClassesApart DEF RescanSpan
  <2> QED BY <1>3, <1>4, <1>6, <2>1
<1>7. CASE class[s] \in {Large, LargeMid} /\ Base(First(s)) \notin marked
  <2>1. UNCHANGED <<marks, left>>
    BY <1>7, ClassesApart DEF RescanSpan
  <2> QED BY <1>3, <1>4, <1>7, <2>1
<1>8. CASE class[s] \in {Large, LargeMid} /\ Base(First(s)) \in marked
  <2>1. Mark({mem[w] : w \in SpanWords(s)})
    BY <1>8, ClassesApart DEF RescanSpan
  <2>2. \A w \in SpanWords(s) : w \in Extent(Base(First(s)))
    <3>1. s \in Nat /\ aux[s] \in Nat /\ largeKeep # "drop"
      BY WordPairs DEF TypeOK, Shape
    <3>2. CASE class[s] = Large
      <4>1. Base(First(s)) = First(s)
        BY <3>2, WordPairs, ClassesApart DEF Base
      <4>2. aux[s] >= 1
        BY <3>2 DEF Shape
      <4>3. s \in s..(s + aux[s] - 1)
        BY <3>1, <4>2
      <4>4. Extent(First(s)) = (s..(s + aux[s] - 1)) \X Off
        BY <3>2, WordPairs DEF Extent
      <4> QED BY <4>1, <4>3, <4>4 DEF SpanWords
    <3>3. CASE class[s] = LargeMid
      <4>1. Owned(s)
        BY <3>1, <3>3 DEF Shape, Orphan
      <4> DEFINE h == aux[s]
      <4>2. h < s /\ class[h] = Large /\ s < h + aux[h] /\ h \in Nat /\ h \in Span
        BY <3>1, <4>1, WordPairs, CollectorAssumption DEF Owned
      <4>3. Base(First(s)) = First(h)
        BY <3>3, WordPairs, ClassesApart DEF Base
      <4>4. aux[h] \in Nat
        BY <4>2 DEF TypeOK
      <4>5. s \in h..(h + aux[h] - 1)
        BY <3>1, <4>2, <4>4
      <4>6. Extent(First(h)) = (h..(h + aux[h] - 1)) \X Off
        BY <4>2, WordPairs DEF Extent
      <4> QED BY <4>3, <4>5, <4>6 DEF SpanWords
    <3> QED BY <1>8, <3>2, <3>3
  <2>3. \A w \in SpanWords(s) : \E a \in marked : w \in Extent(a)
    BY <1>8, <2>2
  <2> QED BY <1>3, <1>5, <2>1, <2>3
<1>9. CASE class[s] \notin {Unassigned, Large, LargeMid}
  <2>1. Mark({mem[w] : w \in Scanned(s)})
    BY <1>9 DEF RescanSpan
  <2>2. \A w \in Scanned(s) : w \in marked /\ w \in Extent(w)
    <3>1. \A w \in Scanned(s) : w \in marked
      BY DEF Scanned
    <3> QED BY <1>2, <3>1, OwnWord
  <2>3. \A a \in marked : \A w \in Extent(a) : w[1] = s => w \in Scanned(s)
    BY <1>3, <1>9 DEF Scanned
  <2> QED BY <1>5, <2>1, <2>2, <2>3
<1> QED BY <1>6, <1>7, <1>8, <1>9
\* What is owed of a word stays owed until it has been looked at.
LEMMA TriKept ==
  ASSUME Tricolour, phase = "mark", Spread, UNCHANGED heapVars,
         \A b \in marked : \A w \in Extent(b) :
            Owed(b, w) => Owed(b, w)' \/ mem[w] = Nil \/ Base(mem[w]) \in marked'
  PROVE  \A b \in marked' : \A w \in Extent(b)' : Pointee(mem[w])' \/ Owed(b, w)'
<1> SUFFICES ASSUME NEW b \in marked', NEW w \in Extent(b)'
             PROVE  Pointee(mem[w])' \/ Owed(b, w)'
  OBVIOUS
<1>1. w \in Extent(b) /\ mem' = mem /\ Base(mem[w])' = Base(mem[w])
  BY DEF Extent, Base, heapVars
<1>2. CASE b \notin marked
  BY <1>2 DEF Spread, Owed
<1>3. CASE b \in marked /\ Pointee(mem[w])
  BY <1>1, <1>3 DEF Spread, Pointee
<1>4. CASE b \in marked /\ Owed(b, w)
  BY <1>1, <1>4 DEF Pointee
<1> QED BY <1>1, <1>2, <1>3, <1>4 DEF Tricolour

\* What a step of the marker makes of the marks and of what it owes.
MarkerKeeps ==
    /\ Spread /\ Tricolour'
    /\ partial' \subseteq Word /\ pend' \subseteq pend
    /\ rescanOwed' \in BOOLEAN /\ rescanCursor' \in 0..SpanLimit

\* What the marker does: it marks only what marked objects and roots point into, and owes
\* a look at whatever it has marked and not yet scanned.
LEMMA MarkerEffect == ASSUME CollectorInv, Marks PROVE MarkerKeeps
<1>1. TypeOK /\ Flow /\ Shape /\ Clean /\ Tricolour
  BY DEF CollectorInv
<1>2. /\ phase = "mark" /\ phase' = "mark" /\ phase # "sweep" /\ job # "none" /\ job' = job
  BY <1>1, MarksFlow
<1>3. UNCHANGED heapVars
  BY HeapStill
<1>4. /\ gray \subseteq marked /\ marked \subseteq Word /\ grayOvf \in BOOLEAN
      /\ partial \subseteq Word /\ rescanOwed \in BOOLEAN /\ rescanCursor \in 0..SpanLimit
      /\ marked \in SUBSET Word /\ gray \in SUBSET marked
  BY <1>1 DEF TypeOK
<1>5. \A a : Extent(a)' = Extent(a)
  BY <1>3 DEF Extent, heapVars
<1>6. \A v : Base(v)' = Base(v)
  BY <1>3 DEF Base, heapVars
<1>7. /\ \A w \in partial : \E b \in marked : w \in Extent(b)
      /\ pc = "verdict" \/ (pc = "drain" /\ ret = "verdict") =>
             pend = {} /\ \A r \in Reg : Pointee(roots[r])
  BY <1>1, <1>2 DEF Tricolour
<1>8. marked \subseteq objs /\ \A a \in marked : \A w \in Extent(a) : w \in Word
  BY <1>1, MarkedObjects
\* A step after which everything owed is owed, or seen.
<1>9. ASSUME Spread, pend' \subseteq pend, rescanOwed' \in BOOLEAN, rescanCursor' \in 0..SpanLimit,
             \A w \in partial' : \E b \in marked' : w \in Extent(b),
             \A b \in marked : \A w \in Extent(b) :
                Owed(b, w) => Owed(b, w)' \/ mem[w] = Nil \/ Base(mem[w]) \in marked',
             pc' = "verdict" \/ (pc' = "drain" /\ ret' = "verdict") =>
                 pend' = {} /\ \A r \in Reg : roots[r] = Nil \/ Base(roots[r]) \in marked'
      PROVE  MarkerKeeps
  <2>1. \A b \in marked' : \A w \in Extent(b)' : Pointee(mem[w])' \/ Owed(b, w)'
    BY <1>1, <1>2, <1>3, <1>9, TriKept
  <2>2. \A w \in partial' : \E b \in marked' : w \in Extent(b)'
    BY <1>5, <1>9
  <2>3. pc' = "verdict" \/ (pc' = "drain" /\ ret' = "verdict") =>
            pend' = {} /\ \A r \in Reg : Pointee(roots[r])'
    BY <1>3, <1>6, <1>9 DEF Pointee, heapVars
  <2>4. Tricolour'
    BY <2>1, <2>2, <2>3 DEF Tricolour
  <2>5. partial' \subseteq Word
    <3>1. \A b \in marked' : \A w \in Extent(b) : w \in Word
      <4> SUFFICES ASSUME NEW b \in marked', NEW w \in Extent(b) PROVE w \in Word
        OBVIOUS
      <4>1. b \in objs
        <5>1. b \in marked \/ Reached(b)
          BY <1>9 DEF Spread
        <5> QED BY <1>1, <1>8, <5>1, MarkedObjects DEF Reached
      <4> QED BY <1>1, <4>1, ExtentBase
    <3> QED BY <1>9, <3>1
  <2> QED BY <1>9, <2>4, <2>5 DEF MarkerKeeps
<1>10. CASE FinishPartial
  <2>1. UNCHANGED <<pend, rescanOwed, rescanCursor>> /\ pc' \in {"partial", "dirty"}
    BY <1>10 DEF FinishPartial
  <2>2. CASE Scan(partial, gray)
    <3>1. /\ Spread /\ gray \subseteq gray' /\ (grayOvf => grayOvf')
          /\ partial' \subseteq partial
          /\ \A w \in partial : w \in partial' \/ mem[w] = Nil \/ Base(mem[w]) \in marked'
      BY <1>1, <1>2, <1>4, <1>7, <2>2, ScanEffect
    <3>2. \A w \in partial' : \E b \in marked' : w \in Extent(b)
      BY <1>7, <3>1 DEF Spread
    <3>3. \A b \in marked : \A w \in Extent(b) :
             Owed(b, w) => Owed(b, w)' \/ mem[w] = Nil \/ Base(mem[w]) \in marked'
      BY <1>2, <2>1, <3>1 DEF Owed
    <3> QED BY <1>4, <1>9, <2>1, <3>1, <3>2, <3>3
  <2>3. CASE UNCHANGED <<marks, partial, left>>
    <3>1. Spread
      BY <1>4, <2>3 DEF Spread, marks
    <3>2. \A b \in marked : \A w \in Extent(b) : Owed(b, w) => Owed(b, w)'
      BY <1>2, <2>1, <2>3 DEF Owed, marks
    <3> QED BY <1>4, <1>7, <1>9, <2>1, <2>3, <3>1, <3>2 DEF marks
  <2> QED BY <1>10, <2>2, <2>3 DEF FinishPartial
<1>11. CASE DrainDirtySpans
  <2>1. UNCHANGED <<partial, rescanOwed, rescanCursor>>
    BY <1>11 DEF DrainDirtySpans
  <2>2. DrainIfDeep("dirty") \/ DrainThen("rescan")
    BY <1>11 DEF DrainDirtySpans
  <2>3. ~(pc' = "verdict" \/ (pc' = "drain" /\ ret' = "verdict"))
    <3>1. {"dirty", "rescan"} \subseteq MarkStage \ {"drain"}
      BY DEF MarkStage
    <3> QED BY <2>2, <3>1, DrainFlow
  <2>4. CASE \E s \in pend : RescanSpan(s) /\ pend' = pend \ {s}
    <3>1. PICK s \in pend : RescanSpan(s) /\ pend' = pend \ {s}
      BY <2>4
    <3>2. s \in Span
      BY <1>1 DEF TypeOK
    <3>3. /\ Spread /\ gray \subseteq gray' /\ (grayOvf => grayOvf')
          /\ \A a \in marked : \A w \in Extent(a) :
                w[1] = s => mem[w] = Nil \/ Base(mem[w]) \in marked'
      BY <1>1, <1>2, <3>1, <3>2, RescanEffect
    <3>4. \A b \in marked : \A w \in Extent(b) :
             Owed(b, w) => Owed(b, w)' \/ mem[w] = Nil \/ Base(mem[w]) \in marked'
      BY <1>2, <2>1, <3>1, <3>3 DEF Owed
    <3>5. \A w \in partial' : \E b \in marked' : w \in Extent(b)
      BY <1>7, <2>1, <3>3 DEF Spread
    <3> QED BY <1>4, <1>9, <2>1, <2>3, <3>1, <3>3, <3>4, <3>5
  <2>5. CASE UNCHANGED <<marks, pend, left>>
    <3>1. Spread
      BY <1>4, <2>5 DEF Spread, marks
    <3>2. \A b \in marked : \A w \in Extent(b) : Owed(b, w) => Owed(b, w)'
      BY <1>2, <2>1, <2>5 DEF Owed, marks
    <3> QED BY <1>4, <1>7, <1>9, <2>1, <2>3, <2>5, <3>1, <3>2 DEF marks
  <2> QED BY <1>11, <2>4, <2>5 DEF DrainDirtySpans
<1>12. CASE DrainGray
  <2>1. pend' = pend /\ pc = "drain"
    BY <1>12 DEF DrainGray
  <2>2. pc' = "verdict" \/ (pc' = "drain" /\ ret' = "verdict") => pc = "drain" /\ ret = "verdict"
    BY <1>1, <1>12 DEF DrainGray, Flow
  <2>3. Spread => (pc' = "verdict" \/ (pc' = "drain" /\ ret' = "verdict") =>
            pend' = {} /\ \A r \in Reg : roots[r] = Nil \/ Base(roots[r]) \in marked')
    BY <1>7, <2>1, <2>2 DEF Pointee, Spread
  <2>4. CASE Scan(partial, gray) /\ UNCHANGED <<rescanOwed, rescanCursor>>
    <3>1. /\ Spread /\ gray \subseteq gray' /\ (grayOvf => grayOvf')
          /\ partial' \subseteq partial
          /\ \A w \in partial : w \in partial' \/ mem[w] = Nil \/ Base(mem[w]) \in marked'
      BY <1>1, <1>2, <1>4, <1>7, <2>4, ScanEffect
    <3>2. \A w \in partial' : \E b \in marked' : w \in Extent(b)
      BY <1>7, <3>1 DEF Spread
    <3>3. \A b \in marked : \A w \in Extent(b) :
             Owed(b, w) => Owed(b, w)' \/ mem[w] = Nil \/ Base(mem[w]) \in marked'
      BY <1>2, <2>1, <2>4, <3>1 DEF Owed
    <3> QED BY <1>4, <1>9, <2>1, <2>3, <2>4, <3>1, <3>2, <3>3
  <2>5. CASE partial = {} /\ (\E b \in gray : Scan(Extent(b), gray \ {b}))
             /\ UNCHANGED <<rescanOwed, rescanCursor>>
    <3>1. PICK b \in gray : Scan(Extent(b), gray \ {b})
      BY <2>5
    <3>2. b \in marked /\ \A w \in Extent(b) : \E a \in marked : w \in Extent(a)
      BY <1>4
    <3>3. gray \ {b} \in SUBSET marked
      BY <1>4
    <3>4. /\ Spread /\ gray \ {b} \subseteq gray' /\ (grayOvf => grayOvf')
          /\ partial' \subseteq Extent(b)
          /\ \A w \in Extent(b) : w \in partial' \/ mem[w] = Nil \/ Base(mem[w]) \in marked'
      BY <1>1, <1>2, <3>1, <3>2, <3>3, ScanEffect
    <3>5. \A w \in partial' : \E a \in marked' : w \in Extent(a)
      BY <3>2, <3>4 DEF Spread
    <3>6. \A a \in marked : \A w \in Extent(a) :
             Owed(a, w) => Owed(a, w)' \/ mem[w] = Nil \/ Base(mem[w]) \in marked'
      BY <1>2, <2>1, <2>5, <3>4 DEF Owed
    <3> QED BY <1>4, <1>9, <2>1, <2>3, <2>5, <3>4, <3>5, <3>6
  <2>6. CASE UNCHANGED <<marks, partial, rescanOwed, rescanCursor, left>>
    <3>1. Spread
      BY <1>4, <2>6 DEF Spread, marks
    <3>2. \A b \in marked : \A w \in Extent(b) : Owed(b, w) => Owed(b, w)'
      BY <1>2, <2>1, <2>6 DEF Owed, marks
    <3> QED BY <1>4, <1>7, <1>9, <2>1, <2>3, <2>6, <3>1, <3>2 DEF marks
  <2>7. CASE /\ partial = {} /\ gray = {} /\ grayOvf' = FALSE
             /\ IF grayOvf THEN OweRescan ELSE UNCHANGED <<rescanOwed, rescanCursor>>
             /\ UNCHANGED <<marked, gray, partial, left>>
    <3>1. Spread
      BY <1>4, <2>7 DEF Spread
    <3>2. rescanOwed' \in BOOLEAN /\ rescanCursor' \in 0..SpanLimit
      <4>1. 0 \in 0..SpanLimit
        BY CollectorAssumption
      <4> QED BY <1>4, <2>7, <4>1 DEF OweRescan
    <3>3. \A b \in marked : \A w \in Extent(b) : w[1] >= 0
      BY <1>8, WordPairs
    <3>4. \A b \in marked : \A w \in Extent(b) : Owed(b, w) => Owed(b, w)'
      BY <1>2, <2>1, <2>7, <3>3 DEF Owed, OweRescan
    <3> QED BY <1>7, <1>9, <2>1, <2>3, <2>7, <3>1, <3>2, <3>4
  <2> QED BY <1>12, <2>4, <2>5, <2>6, <2>7 DEF DrainGray
<1>13. CASE RunRescan
  <2>1. UNCHANGED <<partial, pend>>
    BY <1>13 DEF RunRescan
  <2>2. DrainIfDeep("rescan") \/ DrainThen("attempt")
    BY <1>13 DEF RunRescan
  <2>3. ~(pc' = "verdict" \/ (pc' = "drain" /\ ret' = "verdict"))
    <3>1. {"rescan", "attempt"} \subseteq MarkStage \ {"drain"}
      BY DEF MarkStage
    <3> QED BY <2>2, <3>1, DrainFlow
  <2>4. covered \in 1..SpanLimit
    BY <1>1 DEF TypeOK
  <2>5. CASE /\ rescanOwed /\ rescanCursor < covered
             /\ RescanSpan(rescanCursor)
             /\ rescanCursor' = rescanCursor + 1 /\ UNCHANGED rescanOwed
    <3>1. rescanCursor \in Span /\ rescanCursor' \in 0..SpanLimit
      BY <1>4, <2>4, <2>5, CollectorAssumption DEF Span
    <3>2. /\ Spread /\ gray \subseteq gray' /\ (grayOvf => grayOvf')
          /\ \A a \in marked : \A w \in Extent(a) :
                w[1] = rescanCursor => mem[w] = Nil \/ Base(mem[w]) \in marked'
      BY <1>1, <1>2, <2>5, <3>1, RescanEffect
    <3>3. \A b \in marked : \A w \in Extent(b) : w[1] \in Nat
      BY <1>8, WordPairs
    <3>4. \A b \in marked : \A w \in Extent(b) :
             w[1] >= rescanCursor => w[1] = rescanCursor \/ w[1] >= rescanCursor'
      BY <1>4, <2>5, <3>3
    <3>5. \A b \in marked : \A w \in Extent(b) :
             Owed(b, w) => Owed(b, w)' \/ mem[w] = Nil \/ Base(mem[w]) \in marked'
      BY <1>2, <2>1, <2>5, <3>2, <3>4 DEF Owed
    <3>6. \A w \in partial' : \E b \in marked' : w \in Extent(b)
      BY <1>7, <2>1, <3>2 DEF Spread
    <3> QED BY <1>4, <1>9, <2>1, <2>3, <2>5, <3>1, <3>2, <3>5, <3>6
  <2>6. CASE UNCHANGED <<marks, left>> /\ rescanOwed /\ rescanCursor >= covered
             /\ rescanOwed' = FALSE /\ rescanCursor' = 0
    <3>1. Spread
      BY <1>4, <2>6 DEF Spread, marks
    <3>2. \A b \in marked : \A w \in Extent(b) : w[1] \in Nat /\ w[1] < covered
      BY <1>1, <1>8, ExtentBase, WordPairs
    <3>3. \A b \in marked : \A w \in Extent(b) : ~(w[1] >= rescanCursor)
      BY <1>4, <2>4, <2>6, <3>2
    <3>4. \A b \in marked : \A w \in Extent(b) : Owed(b, w) => Owed(b, w)'
      BY <1>2, <2>1, <2>6, <3>3 DEF Owed, marks
    <3>5. rescanOwed' \in BOOLEAN /\ rescanCursor' \in 0..SpanLimit
      <4>1. 0 \in 0..SpanLimit /\ FALSE \in BOOLEAN
        BY CollectorAssumption
      <4> QED BY <2>6, <4>1
    <3>6. \A w \in partial' : \E b \in marked' : w \in Extent(b)
      BY <1>7, <2>1, <2>6 DEF marks
    <3> QED BY <1>9, <2>1, <2>3, <3>1, <3>4, <3>5, <3>6
  <2>7. CASE UNCHANGED <<marks, rescanOwed, rescanCursor, left>>
    <3>1. Spread
      BY <1>4, <2>7 DEF Spread, marks
    <3>2. \A b \in marked : \A w \in Extent(b) : Owed(b, w) => Owed(b, w)'
      BY <1>2, <2>1, <2>7 DEF Owed, marks
    <3> QED BY <1>4, <1>7, <1>9, <2>1, <2>3, <2>7, <3>1, <3>2 DEF marks
  <2> QED BY <1>13, <2>5, <2>6, <2>7 DEF RunRescan
<1>14. ASSUME MarkStepReturns, UNCHANGED queues PROVE MarkerKeeps
  <2>1. UNCHANGED marks /\ pc' \in {"partial", "stepped"}
    BY <1>14 DEF MarkStepReturns
  <2>2. Spread
    BY <1>4, <2>1 DEF Spread, marks
  <2>3. \A b \in marked : \A w \in Extent(b) : Owed(b, w) => Owed(b, w)'
    BY <1>2, <1>14, <2>1 DEF Owed, marks, queues
  <2> QED BY <1>4, <1>7, <1>9, <1>14, <2>1, <2>2, <2>3 DEF marks, queues
<1>15. CASE Attempt
  <2>1. CASE MarkStepReturns
    BY <1>14, <1>15, <2>1 DEF Attempt
  <2>2. CASE pend = {} /\ Mark(RootValues)
    <3>1. MarkInto(RootValues, gray, grayOvf)
      BY <2>2 DEF Mark
    <3>2. /\ Spread /\ gray \subseteq gray' /\ (grayOvf => grayOvf')
          /\ \A r \in Reg : roots[r] = Nil \/ Base(roots[r]) \in marked'
      BY <1>1, <1>2, <1>4, <3>1, MarkRoots
    <3>3. UNCHANGED queues
      BY <1>15 DEF Attempt
    <3>4. \A b \in marked : \A w \in Extent(b) : Owed(b, w) => Owed(b, w)'
      BY <1>2, <3>2, <3>3 DEF Owed, queues
    <3>5. \A w \in partial' : \E b \in marked' : w \in Extent(b)
      BY <1>7, <3>2, <3>3 DEF Spread, queues
    <3> QED BY <1>4, <1>9, <2>2, <3>2, <3>3, <3>4, <3>5 DEF queues
  <2> QED BY <1>15, <2>1, <2>2 DEF Attempt
<1>16. CASE VerdictNo
  BY <1>14, <1>16 DEF VerdictNo
<1> QED BY <1>10, <1>11, <1>12, <1>13, <1>15, <1>16 DEF Marks
-----------------------------------------------------------------------------
(* Steps that leave the heap alone *)

\* What marking reaches lies in every closed set that holds the marks.
LEMMA SpreadInside ==
  ASSUME TypeOK, Shape, Spread, NEW S \in SUBSET objs, Grounded(S), marked \subseteq S
  PROVE  marked' \subseteq S
<1> SUFFICES ASSUME NEW b \in marked', b \notin marked PROVE b \in S
  OBVIOUS
<1>1. Reached(b)
  BY DEF Spread
<1>2. CASE \E r \in Reg : roots[r] # Nil /\ b = Base(roots[r])
  <2>1. PICK r \in Reg : roots[r] # Nil /\ b = Base(roots[r])
    BY <1>2
  <2>2. PICK c \in S : roots[r] \in Extent(c)
    BY <2>1 DEF Grounded
  <2> QED BY <2>1, <2>2, ExtentBase
<1>3. CASE \E a \in marked : \E w \in Extent(a) : mem[w] # Nil /\ b = Base(mem[w])
  <2>1. PICK a \in marked : \E w \in Extent(a) : mem[w] # Nil /\ b = Base(mem[w])
    BY <1>3
  <2>2. PICK w \in Extent(a) : mem[w] # Nil /\ b = Base(mem[w])
    BY <2>1
  <2>3. PICK c \in S : mem[w] \in Extent(c)
    BY <2>2 DEF Grounded
  <2> QED BY <2>2, <2>3, ExtentBase
<1> QED BY <1>1, <1>2, <1>3 DEF Reached

\* A step that leaves the heap alone and marks only what is reachable keeps the rest of
\* the invariant.
LEMMA StillKept ==
  ASSUME CollectorInv, UNCHANGED heapVars, marked' = marked \/ (phase = "mark" /\ Spread)
  PROVE  Shape' /\ Freshness' /\ Stock' /\ Windows' /\ Clean' /\ Ahead'
<1>1. TypeOK /\ Shape /\ Freshness /\ Stock /\ Windows /\ Clean /\ Ahead
  BY DEF CollectorInv
<1>2. \A a : Extent(a)' = Extent(a)
  BY DEF Extent, heapVars
<1>3. Shape'
  BY <1>1 DEF Shape, Owned, Orphan, heapVars
<1>4. Freshness'
  BY <1>1 DEF Freshness, heapVars
<1>5. Stock'
  BY <1>1 DEF Stock, heapVars
<1>6. Windows'
  BY <1>1 DEF Windows, heapVars
<1>7. Clean'
  <2>1. PICK S \in SUBSET objs : /\ Grounded(S) /\ marked \subseteq S /\ S \cap doomed = {}
                                 /\ phase = "sweep" => \A b \in S : Survives(b)
    BY <1>1 DEF Clean
  <2>2. marked' \subseteq S
    BY <1>1, <2>1, SpreadInside
  <2>3. Grounded(S)'
    BY <1>2, <2>1 DEF Grounded, heapVars
  <2>4. S \in SUBSET objs' /\ S \cap doomed' = {}
    BY <2>1 DEF heapVars
  <2>5. phase' = "sweep" => \A b \in S : Survives(b)'
    BY <2>1 DEF Survives, heapVars
  <2> QED BY <2>2, <2>3, <2>4, <2>5 DEF Clean
<1>8. Ahead'
  BY <1>1 DEF Ahead, Survives, heapVars
<1> QED BY <1>3, <1>4, <1>5, <1>6, <1>7, <1>8

\* The host's page record, a save and a load, and the passing of control lose
\* nothing that is owed (Ingest, gc_step, arm_gc).
LEMMA WaitsTricolour == ASSUME CollectorInv, Waits PROVE Tricolour' /\ marked' = marked
<1>1. TypeOK /\ Flow /\ Shape /\ Clean /\ Tricolour
  BY DEF CollectorInv
<1>2. UNCHANGED heapVars
  BY HeapStill
<1>3. UNCHANGED marks
  BY DEF Waits, AsksSpan, SweepAhead, OutOfMemory, Resumes, Collect, HostStep, SweepPauses,
         Return, SaveAndLoad
<1>4. UNCHANGED partial
  BY DEF Waits, AsksSpan, SweepAhead, OutOfMemory, Resumes, Collect, HostStep, SweepPauses,
         Return, SaveAndLoad, queues
<1>5. marked' = marked /\ gray' = gray /\ grayOvf' = grayOvf /\ partial' = partial
  BY <1>3, <1>4 DEF marks
<1>6. \A a : Extent(a)' = Extent(a)
  BY <1>2 DEF Extent, heapVars
<1>7. \A v : Pointee(v)' = Pointee(v)
  BY <1>2, <1>5 DEF Pointee, Base, heapVars
<1>8. /\ mem' = mem /\ phase' = phase /\ roots' = roots /\ class' = class /\ covered' = covered
  BY <1>2 DEF heapVars
<1>9. phase = "mark" => \A b \in marked : \A w \in Extent(b) :
         w[1] \in Nat /\ w[1] < covered /\ class[w[1]] # Unassigned
  BY <1>1, MarkedObjects, ExtentBase, WordPairs
<1>10. ASSUME phase = "mark",
              \A b \in marked : \A w \in Extent(b) : Owed(b, w) => Owed(b, w)',
              pc' # "verdict" /\ pc' # "drain"
       PROVE  Tricolour'
  BY <1>1, <1>5, <1>6, <1>7, <1>8, <1>10 DEF Tricolour
<1>11. CASE AsksSpan
  <2>1. UNCHANGED <<pend, rescanOwed, rescanCursor, job, lost, dirty>> /\ pc' = "find"
    BY <1>11 DEF AsksSpan, queues, host
  <2>2. \A b, w : Owed(b, w) => Owed(b, w)'
    BY <1>5, <2>1 DEF Owed
  <2> QED BY <1>5, <1>8, <1>10, <2>1, <2>2 DEF Tricolour
<1>12. CASE SweepAhead \/ SweepPauses
  BY <1>1, <1>5, <1>8, <1>12 DEF SweepAhead, MaySweepAhead, SweepPauses, Flow, Tricolour
<1>13. CASE OutOfMemory
  <2>1. UNCHANGED <<pend, rescanOwed, rescanCursor, job, lost, dirty>> /\ pc' = "run"
    BY <1>13 DEF OutOfMemory, queues, host
  <2>2. \A b, w : Owed(b, w) => Owed(b, w)'
    BY <1>5, <2>1 DEF Owed
  <2> QED BY <1>5, <1>8, <1>10, <2>1, <2>2 DEF Tricolour
<1>14. CASE Resumes
  <2>1. OweRescan /\ pend' = pend /\ pc' \in {"sweep", "partial"}
    BY <1>14 DEF Resumes, Collect
  <2>2. phase = "mark" => \A b \in marked : \A w \in Extent(b) : Owed(b, w)'
    BY <1>9, <2>1 DEF Owed, OweRescan
  <2> QED BY <1>5, <1>8, <1>10, <2>1, <2>2 DEF Tricolour
<1>15. CASE HostStep
  <2>1. CASE phase = "mark"
    <3>1. Ingest /\ pc' \in {"dirty", "partial"}
      BY <1>15, <2>1 DEF HostStep
    <3>2. CASE OweRescan
      <4>1. \A b \in marked : \A w \in Extent(b) : Owed(b, w)'
        BY <1>9, <2>1, <3>2 DEF Owed, OweRescan
      <4> QED BY <1>5, <1>10, <2>1, <3>1, <4>1
    <3>3. CASE ~lost /\ pend' = pend \cup {s \in dirty : s < covered /\ class[s] # Unassigned}
               /\ UNCHANGED <<rescanOwed, rescanCursor>>
      <4>1. \A b \in marked : \A w \in Extent(b) : Owed(b, w) => Owed(b, w)'
        BY <1>5, <1>9, <2>1, <3>3 DEF Owed
      <4> QED BY <1>5, <1>10, <2>1, <3>1, <4>1
    <3>4. CASE ~lost /\ dirty = {} /\ UNCHANGED <<pend, rescanOwed, rescanCursor>>
      <4>1. \A b \in marked : \A w \in Extent(b) : Owed(b, w) => Owed(b, w)'
        BY <1>5, <3>4 DEF Owed
      <4> QED BY <1>5, <1>10, <2>1, <3>1, <4>1
    <3> QED BY <3>1, <3>2, <3>3, <3>4 DEF Ingest
  <2> QED BY <1>5, <1>8, <2>1 DEF Tricolour
<1>16. CASE Return
  <2>1. UNCHANGED <<pend, rescanOwed, rescanCursor>> /\ pc' \in {"run", "find"} /\ pc = "stepped"
    BY <1>16 DEF Return, queues
  <2>2. job # "none"
    BY <1>1, <2>1 DEF Flow
  <2>3. \A b, w : Owed(b, w) => Owed(b, w)'
    BY <1>5, <2>1, <2>2 DEF Owed
  <2> QED BY <1>5, <1>8, <1>10, <2>1, <2>3 DEF Tricolour
<1>17. CASE SaveAndLoad
  <2>1. lost' = TRUE /\ pc' = "run" /\ job' = job /\ pc = "run"
    BY <1>17 DEF SaveAndLoad, control
  <2>2. job' = "none"
    BY <1>1, <2>1 DEF Flow
  <2>3. \A b, w : Owed(b, w)'
    BY <2>1, <2>2 DEF Owed
  <2> QED BY <1>5, <1>8, <1>10, <2>1, <2>3 DEF Tricolour
<1> QED BY <1>11, <1>12, <1>13, <1>14, <1>15, <1>16, <1>17, <1>5 DEF Waits
-----------------------------------------------------------------------------
(* The guest moves pointers *)

\* The types of the heap's own variables.
TypedHeap ==
    /\ mem \in [Word -> Word \cup {Nil}] /\ roots \in [Reg -> Word \cup {Nil}]
    /\ class \in [Span -> Class] /\ aux \in [Span -> 0..SpanLimit]
    /\ fresh \subseteq Span /\ covered \in 1..SpanLimit
    /\ cur \in [Small -> SUBSET Word] /\ hold \in [Small -> SUBSET Word]
    /\ free \in [Small -> SUBSET SUBSET Word]
    /\ phase \in {"idle", "mark", "sweep"}
    /\ sweepCursor \in 0..SpanLimit /\ largeKeep \in {"none", "keep", "drop"}
    /\ objs \subseteq Word /\ doomed \subseteq objs

\* What a step must keep besides Flow and the types of control.
HeapSound == /\ TypedHeap
             /\ Shape /\ Freshness /\ Stock /\ Windows /\ Clean /\ Ahead /\ Tricolour

\* What the allocator has in stock belongs to no object.
LEMMA StockApart ==
  ASSUME TypeOK, Shape, Stock, NEW c \in Small, NEW w,
         w \in cur[c] \/ \E B \in free[c] : w \in B,
         NEW b \in objs
  PROVE  w \notin Extent(b)
<1>1. class[w[1]] \in Small /\ w \notin objs
  BY DEF Stock
<1>2. ASSUME w \in Extent(b) PROVE FALSE
  <2>1. class[b[1]] \in Small => w = b
    BY <1>2, ExtentBase
  <2>2. class[b[1]] = Large
    BY <1>1, <2>1 DEF Shape
  <2>3. b[1] \in Nat /\ w[1] \in Nat /\ b[1] <= w[1] /\ (w[1] > b[1] => class[w[1]] = LargeMid)
    BY <1>2, <2>2, ExtentBase, WordPairs DEF TypeOK
  <2>4. w[1] = b[1] \/ w[1] > b[1]
    BY <2>3
  <2> QED BY <1>1, <2>2, <2>3, <2>4, ClassesApart
<1> QED BY <1>2

\* The guest writes what it holds where it may; the barrier sees it.
LEMMA GuestKept ==
  ASSUME CollectorInv, pc = "run",
         UNCHANGED <<class, aux, fresh, covered, cur, free, hold, phase, sweepCursor, largeKeep,
                     objs, doomed, marks, queues, pc, job, lost>>,
         mem' \in [Word -> Word \cup {Nil}], roots' \in [Reg -> Word \cup {Nil}],
         \A S \in SUBSET objs : Grounded(S) => Grounded(S)',
         dirty \subseteq dirty',
         \A w \in Word : mem'[w] # mem[w] =>
            (\E b \in objs : w \in Extent(b)) /\ (phase = "mark" => w[1] \in dirty')
  PROVE  HeapSound'
<1>1. TypeOK /\ Flow /\ Shape /\ Freshness /\ Stock /\ Windows /\ Clean /\ Ahead /\ Tricolour
  BY DEF CollectorInv
<1>2. \A a : Extent(a)' = Extent(a)
  BY DEF Extent
<1>3. Shape' /\ Freshness' /\ Windows' /\ Ahead'
  <2>1. Shape'
    BY <1>1 DEF Shape, Owned, Orphan
  <2>2. Freshness'
    BY <1>1 DEF Freshness
  <2>3. Windows'
    BY <1>1 DEF Windows
  <2>4. Ahead'
    BY <1>1 DEF Ahead, Survives, marks
  <2> QED BY <2>1, <2>2, <2>3, <2>4
<1>4. Stock'
  <2> SUFFICES ASSUME NEW c \in Small
               PROVE  /\ \A w \in cur[c] : mem'[w] = Nil
                      /\ \A B \in free[c] : \A w \in B : mem'[w] = Nil
    BY <1>1 DEF Stock
  <2>1. ASSUME NEW w, w \in cur[c] \/ \E B \in free[c] : w \in B PROVE mem'[w] = Nil
    <3>1. w \in Word
      BY <1>1, <2>1 DEF TypeOK
    <3>2. mem[w] = Nil
      BY <1>1, <2>1 DEF Stock
    <3>3. \A b \in objs : w \notin Extent(b)
      BY <1>1, <2>1, StockApart
    <3> QED BY <3>1, <3>2, <3>3
  <2> QED BY <2>1
<1>5. Clean'
  <2>1. PICK S \in SUBSET objs : /\ Grounded(S) /\ marked \subseteq S /\ S \cap doomed = {}
                                 /\ phase = "sweep" => \A b \in S : Survives(b)
    BY <1>1 DEF Clean
  <2>2. phase' = "sweep" => \A b \in S : Survives(b)'
    BY <2>1 DEF Survives, marks
  <2> QED BY <2>1, <2>2 DEF Clean, marks
<1>6. Tricolour'
  <2> SUFFICES ASSUME phase = "mark" PROVE Tricolour'
    BY DEF Tricolour
  <2>1. job = "none" /\ job' = "none" /\ pc' = "run"
    BY <1>1 DEF Flow
  <2>2. ASSUME NEW b \in marked, NEW w \in Extent(b) PROVE Pointee(mem[w])' \/ Owed(b, w)'
    <3>1. w \in Word
      BY <1>1, MarkedObjects
    <3>2. CASE mem'[w] # mem[w]
      BY <2>1, <3>1, <3>2 DEF Owed
    <3>3. CASE mem'[w] = mem[w] /\ Pointee(mem[w])
      BY <3>3 DEF Pointee, Base, marks
    <3>4. CASE Owed(b, w)
      BY <2>1, <3>4 DEF Owed, marks, queues
    <3> QED BY <1>1, <3>2, <3>3, <3>4 DEF Tricolour
  <2>3. \A w \in partial : \E b \in marked : w \in Extent(b)
    BY <1>1 DEF Tricolour
  <2> QED BY <1>2, <2>1, <2>2, <2>3 DEF Tricolour, marks, queues
<1>7. TypedHeap'
  BY <1>1 DEF TypeOK, TypedHeap, Class
<1> QED BY <1>3, <1>4, <1>5, <1>6, <1>7 DEF HeapSound

\* A loaded pointer was reachable through the object it was loaded from.
LEMMA LoadSound ==
  ASSUME CollectorInv, NEW r \in Reg, NEW p \in Reg, Load(r, p)
  PROVE  HeapSound'
<1>1. TypeOK /\ Flow /\ Shape /\ Clean
  BY DEF CollectorInv
<1>2. /\ pc = "run" /\ roots[p] # Nil /\ roots' = [roots EXCEPT ![r] = mem[roots[p]]]
      /\ UNCHANGED <<mem, dirty, Collectors>>
  BY DEF Load
<1>3. UNCHANGED <<class, aux, fresh, covered, cur, free, hold, phase, sweepCursor, largeKeep,
                  objs, doomed, marks, queues, pc, job, lost, mem, dirty>>
  BY <1>2 DEF Collectors, table, alloc, sweeper, control, ghosts
<1>4. roots[p] \in Word /\ mem[roots[p]] \in Word \cup {Nil}
  BY <1>1, <1>2 DEF TypeOK
<1>5. mem' \in [Word -> Word \cup {Nil}] /\ roots' \in [Reg -> Word \cup {Nil}]
  BY <1>1, <1>2, <1>4 DEF TypeOK
<1>6. ASSUME NEW S \in SUBSET objs, Grounded(S) PROVE Grounded(S)'
  <2>1. \A a : Extent(a)' = Extent(a)
    BY <1>3 DEF Extent
  <2>2. mem[roots[p]] # Nil => \E c \in S : mem[roots[p]] \in Extent(c)
    BY <1>2, <1>6 DEF Grounded
  <2>3. \A q \in Reg : roots'[q] # Nil => \E b \in S : roots'[q] \in Extent(b)
    BY <1>1, <1>2, <1>6, <2>2 DEF Grounded, TypeOK
  <2> QED BY <1>3, <1>6, <2>1, <2>3 DEF Grounded
<1> QED BY <1>2, <1>3, <1>5, <1>6, GuestKept

\* A pointer into the middle of an object keeps the object it points into.
LEMMA DeriveSound ==
  ASSUME CollectorInv, NEW r \in Reg, NEW p \in Reg, Derive(r, p)
  PROVE  HeapSound'
<1>1. TypeOK /\ Flow /\ Shape /\ Clean
  BY DEF CollectorInv
<1>2. PICK v \in Extent(Base(roots[p])) : roots' = [roots EXCEPT ![r] = v]
  BY DEF Derive
<1>3. pc = "run" /\ roots[p] # Nil
  BY DEF Derive
<1>4. UNCHANGED <<class, aux, fresh, covered, cur, free, hold, phase, sweepCursor, largeKeep,
                  objs, doomed, marks, queues, pc, job, lost, mem, dirty>>
  BY DEF Derive, Collectors, table, alloc, sweeper, control, ghosts
<1>5. v \in Word
  BY <1>1, <1>3, MarkedObjects, ExtentBase
<1>6. mem' \in [Word -> Word \cup {Nil}] /\ roots' \in [Reg -> Word \cup {Nil}]
  BY <1>1, <1>2, <1>4, <1>5 DEF TypeOK
<1>7. ASSUME NEW S \in SUBSET objs, Grounded(S) PROVE Grounded(S)'
  <2>1. \A a : Extent(a)' = Extent(a)
    BY <1>4 DEF Extent
  <2>2. PICK b \in S : roots[p] \in Extent(b)
    BY <1>3, <1>7 DEF Grounded
  <2>3. Base(roots[p]) = b
    BY <1>1, <2>2, ExtentBase
  <2>4. \A q \in Reg : roots'[q] # Nil => \E c \in S : roots'[q] \in Extent(c)
    BY <1>1, <1>2, <1>7, <2>3 DEF Grounded, TypeOK
  <2> QED BY <1>4, <1>7, <2>1, <2>4 DEF Grounded
<1> QED BY <1>3, <1>4, <1>6, <1>7, GuestKept

\* A dropped root only makes less reachable.
LEMMA ForgetSound ==
  ASSUME CollectorInv, NEW r \in Reg, Forget(r)
  PROVE  HeapSound'
<1>1. TypeOK
  BY DEF CollectorInv
<1>2. pc = "run" /\ roots' = [roots EXCEPT ![r] = Nil]
  BY DEF Forget
<1>3. UNCHANGED <<class, aux, fresh, covered, cur, free, hold, phase, sweepCursor, largeKeep,
                  objs, doomed, marks, queues, pc, job, lost, mem, dirty>>
  BY DEF Forget, Collectors, table, alloc, sweeper, control, ghosts
<1>4. mem' \in [Word -> Word \cup {Nil}] /\ roots' \in [Reg -> Word \cup {Nil}]
  BY <1>1, <1>2, <1>3 DEF TypeOK
<1>5. ASSUME NEW S \in SUBSET objs, Grounded(S) PROVE Grounded(S)'
  <2>1. \A a : Extent(a)' = Extent(a)
    BY <1>3 DEF Extent
  <2>2. \A q \in Reg : roots'[q] # Nil => \E c \in S : roots'[q] \in Extent(c)
    BY <1>1, <1>2, <1>5 DEF Grounded, TypeOK
  <2> QED BY <1>3, <1>5, <2>1, <2>2 DEF Grounded
<1> QED BY <1>2, <1>3, <1>4, <1>5, GuestKept

\* The write barrier (fk_rt.lua): what is overwritten in a marked object is in a page
\* the host will report.
LEMMA StoreSound ==
  ASSUME CollectorInv, NEW r \in Reg, NEW p \in Reg, Store(p, r)
  PROVE  HeapSound'
<1>1. TypeOK /\ Flow /\ Shape /\ Clean
  BY DEF CollectorInv
<1>2. /\ pc = "run" /\ roots[p] # Nil /\ mem' = [mem EXCEPT ![roots[p]] = roots[r]]
      /\ Written({roots[p][1]})
  BY DEF Store
<1>3. UNCHANGED <<class, aux, fresh, covered, cur, free, hold, phase, sweepCursor, largeKeep,
                  objs, doomed, marks, queues, pc, job, lost, roots, armed>>
  BY DEF Store, Collectors, table, alloc, sweeper, control, ghosts
<1>4. roots[p] \in Word
  BY <1>1, <1>2 DEF TypeOK
<1>5. mem' \in [Word -> Word \cup {Nil}] /\ roots' \in [Reg -> Word \cup {Nil}]
  BY <1>1, <1>2, <1>3, <1>4 DEF TypeOK
<1>6. ASSUME NEW S \in SUBSET objs, Grounded(S) PROVE Grounded(S)'
  <2>1. \A a : Extent(a)' = Extent(a)
    BY <1>3 DEF Extent
  <2>2. \A b \in S : \A w \in Extent(b) : mem'[w] # Nil => \E c \in S : mem'[w] \in Extent(c)
    <3> SUFFICES ASSUME NEW b \in S, NEW w \in Extent(b), mem'[w] # Nil
                 PROVE  \E c \in S : mem'[w] \in Extent(c)
      OBVIOUS
    <3>1. w \in Word
      BY <1>1, ExtentBase
    <3>2. mem'[w] = mem[w] \/ mem'[w] = roots[r]
      BY <1>1, <1>2, <3>1 DEF TypeOK
    <3> QED BY <1>6, <3>2 DEF Grounded
  <2> QED BY <1>3, <1>6, <2>1, <2>2 DEF Grounded
<1>7. dirty \subseteq dirty'
  BY <1>2 DEF Written
<1>8. ASSUME NEW w \in Word, mem'[w] # mem[w]
      PROVE  (\E b \in objs : w \in Extent(b)) /\ (phase = "mark" => w[1] \in dirty')
  <2>1. w = roots[p]
    BY <1>1, <1>2, <1>8 DEF TypeOK
  <2>2. \E b \in objs : w \in Extent(b)
    BY <1>1, <1>2, <2>1, MarkedObjects
  <2>3. phase = "mark" => armed
    BY <1>1, <1>2 DEF Flow
  <2> QED BY <1>2, <2>1, <2>2, <2>3 DEF Written
<1> QED BY <1>2, <1>3, <1>5, <1>6, <1>7, <1>8, GuestKept
-----------------------------------------------------------------------------
(* The guest allocates *)

\* A new object, over words nobody had, is held by the register it is given to.
LEMMA Birth ==
  ASSUME CollectorInv, job = "none", pc' = "run",
         NEW b0, NEW r \in Reg, NEW v0, v0 \in Extent(b0)',
         b0 \notin objs, objs' = objs \cup {b0}, roots' = [roots EXCEPT ![r] = v0],
         \A s \in Span : class[s] # Unassigned =>
            class'[s] = class[s] /\ aux'[s] = aux[s] /\ (s \in fresh' <=> s \in fresh),
         \A w \in Word : class[w[1]] # Unassigned => mem'[w] = mem[w],
         \A w \in Extent(b0)' : mem'[w] = Nil,
         UNCHANGED <<marks, queues, phase, sweepCursor, hold, job, lost, doomed>>,
         dirty \subseteq dirty',
         phase = "sweep" => Survives(b0)'
  PROVE  Clean' /\ Ahead' /\ Tricolour'
<1>1. TypeOK /\ Shape /\ Clean /\ Ahead /\ Tricolour
  BY DEF CollectorInv
<1>2. \A b \in objs : b \in Word /\ b[1] \in Span /\ class[b[1]] # Unassigned
  BY <1>1, WordPairs, ClassesApart DEF Shape, TypeOK
<1>3. \A b \in objs : Extent(b)' = Extent(b)
  BY <1>2 DEF Extent
<1>4. \A b \in objs : \A w \in Extent(b) :
         w \in Word /\ mem'[w] = mem[w] /\ Base(w) = b /\ Base(w)' = b
  <2> SUFFICES ASSUME NEW b \in objs, NEW w \in Extent(b)
               PROVE  w \in Word /\ mem'[w] = mem[w] /\ Base(w) = b /\ Base(w)' = b
    OBVIOUS
  <2>1. w \in Word /\ w[1] \in Span /\ class[w[1]] # Unassigned /\ Base(w) = b
    BY <1>1, ExtentBase, WordPairs
  <2>2. class'[w[1]] = class[w[1]] /\ aux'[w[1]] = aux[w[1]]
    BY <2>1
  <2>3. Base(w)' = Base(w)
    BY <2>2 DEF Base
  <2> QED BY <2>1, <2>3
<1>5. \A b \in objs : Survives(b)' <=> Survives(b)
  BY <1>2 DEF Survives, marks
<1>6. PICK S \in SUBSET objs : /\ Grounded(S) /\ marked \subseteq S /\ S \cap doomed = {}
                               /\ phase = "sweep" => \A b \in S : Survives(b)
  BY <1>1 DEF Clean
<1>7. Clean'
  <2> DEFINE T == S \cup {b0}
  <2>1. T \in SUBSET objs' /\ marked' \subseteq T /\ T \cap doomed' = {}
    BY <1>1, <1>6 DEF marks, TypeOK
  <2>2. phase' = "sweep" => \A b \in T : Survives(b)'
    BY <1>5, <1>6
  <2>3. \A q \in Reg : roots'[q] # Nil => \E b \in T : roots'[q] \in Extent(b)'
    <3> SUFFICES ASSUME NEW q \in Reg, roots'[q] # Nil
                 PROVE  \E b \in T : roots'[q] \in Extent(b)'
      OBVIOUS
    <3>1. CASE q = r
      BY <1>1, <3>1 DEF TypeOK
    <3>2. CASE q # r
      <4>1. roots'[q] = roots[q]
        BY <1>1, <3>2 DEF TypeOK
      <4>2. PICK b \in S : roots[q] \in Extent(b)
        BY <1>6, <4>1 DEF Grounded
      <4> QED BY <1>3, <4>1, <4>2
    <3> QED BY <3>1, <3>2
  <2>4. \A b \in T : \A w \in Extent(b)' :
           mem'[w] # Nil => \E c \in T : mem'[w] \in Extent(c)'
    <3> SUFFICES ASSUME NEW b \in S, NEW w \in Extent(b)', mem'[w] # Nil
                 PROVE  \E c \in T : mem'[w] \in Extent(c)'
      OBVIOUS
    <3>1. w \in Extent(b) /\ mem'[w] = mem[w]
      BY <1>3, <1>4
    <3>2. PICK c \in S : mem[w] \in Extent(c)
      BY <1>6, <3>1 DEF Grounded
    <3> QED BY <1>3, <3>1, <3>2
  <2>5. Grounded(T)'
    BY <2>1, <2>3, <2>4 DEF Grounded
  <2> QED BY <2>1, <2>2, <2>5 DEF Clean
<1>8. Ahead'
  <2>1. \A b \in marked : b[1] \notin fresh => b[1] \notin fresh'
    BY <1>1, <1>2, MarkedObjects
  <2> QED BY <1>1, <1>5, <2>1 DEF Ahead, marks, TypeOK
<1>9. Tricolour'
  <2> SUFFICES ASSUME phase = "mark" PROVE Tricolour'
    BY DEF Tricolour
  <2>1. marked \subseteq objs
    BY <1>1, MarkedObjects
  <2>2. ASSUME NEW b \in marked, NEW w \in Extent(b) PROVE Pointee(mem[w])' \/ Owed(b, w)'
    <3>1. mem'[w] = mem[w]
      BY <1>4, <2>1
    <3>2. CASE Owed(b, w)
      BY <3>2 DEF Owed, marks, queues
    <3>3. CASE mem[w] = Nil
      BY <3>1, <3>3 DEF Pointee
    <3>4. CASE mem[w] # Nil /\ Pointee(mem[w])
      <4>1. PICK c \in S : mem[w] \in Extent(c)
        BY <1>6, <3>4 DEF Grounded
      <4>2. Base(mem[w])' = Base(mem[w])
        BY <1>4, <3>1, <4>1
      <4> QED BY <3>1, <3>4, <4>2 DEF Pointee, marks
    <3> QED BY <1>1, <3>2, <3>3, <3>4 DEF Tricolour
  <2>3. \A w \in partial : \E b \in marked : w \in Extent(b)
    BY <1>1 DEF Tricolour
  <2>4. marked' = marked /\ partial' = partial /\ pc' = "run"
    BY DEF marks, queues
  <2>5. \A b \in marked : Extent(b)' = Extent(b)
    BY <1>3, <2>1
  <2>6. \A b \in marked' : \A w \in Extent(b)' : Pointee(mem[w])' \/ Owed(b, w)'
    BY <2>2, <2>4, <2>5
  <2>7. \A w \in partial' : \E b \in marked' : w \in Extent(b)'
    BY <2>3, <2>4, <2>5
  <2> QED BY <2>4, <2>6, <2>7 DEF Tricolour
<1> QED BY <1>7, <1>8, <1>9

\* What a new object is to those there were.
Bears(b0, r, v0) ==
    /\ objs' = objs \cup {b0} /\ roots' = [roots EXCEPT ![r] = v0] /\ v0 \in Extent(b0)'
    /\ \A w \in Extent(b0)' : w \in Word /\ mem'[w] = Nil /\ \A b \in objs : w \notin Extent(b)
    /\ \A b \in objs : Extent(b)' = Extent(b) /\ \A w \in Extent(b) : mem'[w] = mem[w]

\* The first word of a window of class c becomes an object, the rest stays in stock
\* (allocate).
LEMMA HandedOut ==
  ASSUME CollectorInv, pc = "run", NEW r \in Reg, NEW c \in Small, HandsOut(r, c)
  PROVE  HeapSound' /\ \E b0, v0 : Bears(b0, r, v0)
<1>1. TypeOK /\ Flow /\ Shape /\ Freshness /\ Stock /\ Windows /\ Clean /\ Ahead /\ Tricolour
  BY DEF CollectorInv
<1>2. UNCHANGED <<mem, class, aux, fresh, covered, hold, phase, marks, queues, sweepCursor, largeKeep,
                  pc, job, lost, doomed>>
  BY DEF HandsOut, table, sweeper, control
<1>3. PICK window \in SUBSET Word :
         /\ HandOut(r, c, window)
         /\ \/ window = cur[c] /\ free' = free
            \/ window \in free[c] /\ free' = [free EXCEPT ![c] = @ \ {window}] /\ cur[c] = {}
         /\ dirty \subseteq dirty'
  <2>1. CASE HandOut(r, c, cur[c]) /\ free' = free /\ dirty' = dirty
    BY <1>1, <2>1 DEF TypeOK
  <2>2. CASE cur[c] = {} /\ \E run \in free[c] : /\ HandOut(r, c, run)
                                     /\ free' = [free EXCEPT ![c] = @ \ {run}]
                                     /\ Written({w[1] : w \in run})
    <3>1. PICK run \in free[c] : /\ HandOut(r, c, run)
                                 /\ free' = [free EXCEPT ![c] = @ \ {run}]
                                 /\ Written({w[1] : w \in run})
      BY <2>2
    <3>2. run \in SUBSET Word
      BY <1>1 DEF TypeOK
    <3> QED BY <2>2, <3>1, <3>2 DEF Written
  <2> QED BY <2>1, <2>2 DEF HandsOut
<1>4. PICK w0 \in window : /\ cur' = [cur EXCEPT ![c] = window \ {w0}]
                           /\ roots' = [roots EXCEPT ![r] = w0]
                           /\ objs' = objs \cup {w0}
  BY <1>3 DEF HandOut
<1>5. /\ w0 \in Word /\ mem[w0] = Nil /\ class[w0[1]] = c /\ w0 \notin objs
      /\ \A w \in window : mem[w] = Nil /\ class[w[1]] = c /\ w \notin objs
  BY <1>1, <1>3 DEF Stock
<1>6. Extent(w0)' = {w0}
  BY <1>2, <1>5, ClassesApart DEF Extent
<1>7. TypedHeap'
  BY <1>1, <1>2, <1>3, <1>4, <1>5 DEF TypeOK, TypedHeap, Class
<1>8. Shape'
  <2>1. \A b \in objs' : class[b[1]] \in Small \/ (class[b[1]] = Large /\ b[2] = 0)
    BY <1>1, <1>4, <1>5 DEF Shape
  <2> QED BY <1>1, <1>2, <1>4, <2>1 DEF Shape, Owned, Orphan
<1>9. Freshness'
  BY <1>1, <1>2 DEF Freshness
<1>10. Stock'
  <2> SUFFICES ASSUME NEW d \in Small
               PROVE  /\ \A w \in cur'[d] : mem[w] = Nil /\ class[w[1]] = d /\ w \notin objs'
                      /\ \A B \in free'[d] :
                            /\ \A w \in B : mem[w] = Nil /\ class[w[1]] = d /\ w \notin objs'
                            /\ B \cap cur'[d] = {}
                            /\ \A C \in free'[d] : B # C => B \cap C = {}
    BY <1>2 DEF Stock
  <2>1. CASE d # c
    <3>1. cur'[d] = cur[d] /\ free'[d] = free[d]
      BY <1>1, <1>3, <1>4, <2>1 DEF TypeOK
    <3>2. w0 \notin cur[d] /\ \A B \in free[d] : w0 \notin B
      BY <1>1, <1>5, <2>1 DEF Stock
    <3> QED BY <1>1, <1>4, <3>1, <3>2 DEF Stock
  <2>2. CASE d = c
    <3>1. cur'[c] = window \ {w0}
      BY <1>1, <1>4 DEF TypeOK
    <3>2. free'[c] \subseteq free[c] /\ \A B \in free'[c] : B \cap window = {}
      <4>1. CASE window = cur[c] /\ free' = free
        BY <1>1, <4>1 DEF Stock
      <4>2. CASE window \in free[c] /\ free' = [free EXCEPT ![c] = @ \ {window}]
        <5>1. free'[c] = free[c] \ {window}
          BY <1>1, <4>2 DEF TypeOK
        <5> QED BY <1>1, <4>2, <5>1 DEF Stock
      <4> QED BY <1>3, <4>1, <4>2
    <3>3. \A B \in free'[c] : w0 \notin B
      BY <3>2
    <3> QED BY <1>1, <1>4, <1>5, <2>2, <3>1, <3>2, <3>3 DEF Stock
  <2> QED BY <2>1, <2>2
<1>11. phase = "sweep" => w0 \in hold[c] \/ w0[1] < sweepCursor \/ w0[1] \in fresh
  BY <1>1, <1>3 DEF Windows
<1>12. Windows'
  <2> SUFFICES ASSUME phase = "sweep", NEW d \in Small
               PROVE  /\ \A B \in free'[d] : \A w \in B : w[1] < sweepCursor \/ w[1] \in fresh
                      /\ \A w \in cur'[d] : w \in hold[d] \/ w[1] < sweepCursor \/ w[1] \in fresh
                      /\ \A w \in hold[d] : class[w[1]] = d
    BY <1>2 DEF Windows
  <2>1. \A w \in window : w \in hold[c] \/ w[1] < sweepCursor \/ w[1] \in fresh
    BY <1>1, <1>3 DEF Windows
  <2>2. cur'[d] = IF d = c THEN window \ {w0} ELSE cur[d]
    BY <1>1, <1>4 DEF TypeOK
  <2>3. free'[d] \subseteq free[d]
    BY <1>1, <1>3 DEF TypeOK
  <2> QED BY <1>1, <2>1, <2>2, <2>3 DEF Windows
<1>13. Clean' /\ Ahead' /\ Tricolour'
  <2>1. job = "none"
    BY <1>1 DEF Flow
  <2>2. phase = "sweep" => Survives(w0)'
    BY <1>2, <1>11 DEF Survives
  <2>3. \A w \in Extent(w0)' : mem'[w] = Nil
    BY <1>2, <1>5, <1>6
  <2> QED BY <1>2, <1>3, <1>4, <1>5, <1>6, <2>1, <2>2, <2>3, Birth
<1>14. Bears(w0, r, w0)
  <2>1. \A b \in objs : w0 \notin Extent(b)
    BY <1>1, <1>3, StockApart
  <2>2. \A b \in objs : Extent(b)' = Extent(b)
    BY <1>2 DEF Extent
  <2> QED BY <1>2, <1>4, <1>5, <1>6, <2>1, <2>2 DEF Bears
<1> QED BY <1>7, <1>8, <1>9, <1>10, <1>12, <1>13, <1>14 DEF HeapSound

\* What the search finds is a run of unassigned spans of the length asked for
\* (scanSpanRun).
LEMMA FoundUnassigned ==
  ASSUME TypeOK, Flow, pc = "find", NEW s \in Found
  PROVE  /\ s \in Span /\ s + req.n <= covered
         /\ \A t \in s..(s + req.n - 1) : class[t] = Unassigned
<1>1. req.n \in 1..SpanLimit
  BY DEF Flow, Request
<1>2. req.n \in Nat /\ req.n >= 1 /\ covered \in Nat /\ covered <= SpanLimit /\ SpanLimit \in Nat
      /\ spanCursor \in Nat
  BY <1>1, CollectorAssumption DEF TypeOK
<1>3. PICK from, to \in 0..covered : s \in Runs(from, to)
  BY <1>2 DEF Found
<1> QED BY <1>2, <1>3 DEF Runs, Span

\* A run of unassigned spans becomes a span of small objects or a large object, and
\* nothing else of the span table changes.
LEMMA ClaimTable ==
  ASSUME CollectorInv, FindSpan
  PROVE  \E s \in Span, n \in 1..SpanLimit : \E S \in SUBSET Span :
            /\ S = {t \in Span : s <= t /\ t < s + n} /\ s + n <= covered
            /\ \A t \in S : class[t] = Unassigned
            /\ mem' = [w \in Word |-> IF w[1] \in S THEN Nil ELSE mem[w]]
            /\ fresh' = IF phase = "sweep" /\ s >= sweepCursor THEN fresh \cup S ELSE fresh \ S
            /\ dirty \subseteq dirty'
            /\ \/ /\ class' = [t \in Span |-> IF t = s THEN Large
                                              ELSE IF t \in S THEN LargeMid ELSE class[t]]
                  /\ aux' = [t \in Span |-> IF t = s THEN n
                                            ELSE IF t \in S THEN s ELSE aux[t]]
                  /\ \E r \in Reg : roots' = [roots EXCEPT ![r] = First(s)]
                  /\ objs' = objs \cup {First(s)}
                  /\ cur' = cur /\ free' = free
               \/ /\ n = 1 /\ S = {s} /\ aux' = aux
                  /\ \E r \in Reg, c \in Small : \E run \in free[c] \cup {SpanWords(s)} :
                        /\ class' = [class EXCEPT ![s] = c]
                        /\ HandOut(r, c, run)
                        /\ free' = [free EXCEPT ![c] = (@ \cup {SpanWords(s)}) \ {run}]
<1>1. TypeOK /\ Flow
  BY DEF CollectorInv
<1>2. pc = "find" /\ \E s \in Found : Claim(s)
  BY DEF FindSpan
<1>3. PICK s \in Found : Claim(s)
  BY <1>2
<1>4. req \in Request
  BY <1>1, <1>2 DEF Flow
<1> DEFINE n == req.n
<1>5. /\ n \in 1..SpanLimit /\ req.reg \in Reg /\ req.class \in Small \cup {Large}
      /\ req.class = Large \/ n = 1
  BY <1>4 DEF Request
<1>6. /\ s \in Span /\ s + n <= covered
      /\ \A t \in s..(s + n - 1) : class[t] = Unassigned
  BY <1>1, <1>2, <1>3, FoundUnassigned
<1>7. s \in Nat /\ n \in Nat /\ covered \in Nat /\ covered <= SpanLimit /\ SpanLimit \in Nat
  BY <1>1, <1>5, <1>6, WordPairs, CollectorAssumption DEF TypeOK
<1>8. s..(s + n - 1) = {t \in Span : s <= t /\ t < s + n}
  BY <1>6, <1>7 DEF Span
<1> DEFINE S == s..(s + n - 1)
<1>9. S \in SUBSET Span /\ S = {t \in Span : s <= t /\ t < s + n} /\ \A t \in S : class[t] = Unassigned
  BY <1>6, <1>8
<1>10. /\ mem' = [w \in Word |-> IF w[1] \in S THEN Nil ELSE mem[w]]
       /\ fresh' = IF phase = "sweep" /\ s >= sweepCursor THEN fresh \cup S ELSE fresh \ S
       /\ dirty \subseteq dirty'
  <2>1. dirty \subseteq dirty'
    <3>1. CASE req.class = Large
      BY <1>3, <3>1 DEF Claim, Written
    <3>2. CASE req.class # Large
      BY <1>3, <3>2 DEF Claim, NextRun, Written
    <3> QED BY <3>1, <3>2
  <2> QED BY <1>3, <2>1 DEF Claim, FreshFrom
<1>11. CASE req.class = Large
  <2>1. /\ class' = [t \in Span |-> IF t = s THEN Large
                                    ELSE IF t \in S THEN LargeMid ELSE class[t]]
        /\ aux' = [t \in Span |-> IF t = s THEN n ELSE IF t \in S THEN s ELSE aux[t]]
        /\ roots' = [roots EXCEPT ![req.reg] = First(s)]
        /\ objs' = objs \cup {First(s)}
        /\ cur' = cur /\ free' = free
    BY <1>3, <1>11 DEF Claim
  <2> HIDE DEF S, n
  <2> QED BY <1>5, <1>6, <1>9, <1>10, <2>1
<1>12. CASE req.class # Large
  <2>1. /\ class' = [class EXCEPT ![s] = req.class] /\ aux' = aux
        /\ \E run \in free[req.class] \cup {SpanWords(s)} :
              /\ HandOut(req.reg, req.class, run)
              /\ free' = [free EXCEPT ![req.class] = (@ \cup {SpanWords(s)}) \ {run}]
    BY <1>3, <1>12 DEF Claim, NextRun
  <2>2. n = 1 /\ S = {s}
    BY <1>5, <1>7, <1>12
  <2>3. req.class \in Small
    BY <1>5, <1>12
  <2> HIDE DEF S, n
  <2> QED BY <1>5, <1>6, <1>9, <1>10, <2>1, <2>2, <2>3
<1> QED BY <1>11, <1>12

\* A run of spans is claimed for a large object, or joins the runs of a class, the
\* first of which becomes the window (allocSpans, refill, nextRun).
LEMMA FindSound ==
  ASSUME CollectorInv, FindSpan
  PROVE  HeapSound' /\ \E r \in Reg : \E b0, v0 : Bears(b0, r, v0)
<1>1. TypeOK /\ Flow /\ Shape /\ Freshness /\ Stock /\ Windows /\ Clean /\ Ahead /\ Tricolour
  BY DEF CollectorInv
<1>2. /\ UNCHANGED <<covered, hold, phase, marks, queues, sweepCursor, largeKeep, job, lost,
                     doomed>>
      /\ pc = "find" /\ pc' = "run"
  BY DEF FindSpan, sweeper
<1>3. PICK s \in Span, n \in 1..SpanLimit : \E S \in SUBSET Span :
            /\ S = {t \in Span : s <= t /\ t < s + n} /\ s + n <= covered
            /\ \A t \in S : class[t] = Unassigned
            /\ mem' = [w \in Word |-> IF w[1] \in S THEN Nil ELSE mem[w]]
            /\ fresh' = IF phase = "sweep" /\ s >= sweepCursor THEN fresh \cup S ELSE fresh \ S
            /\ dirty \subseteq dirty'
            /\ \/ /\ class' = [t \in Span |-> IF t = s THEN Large
                                              ELSE IF t \in S THEN LargeMid ELSE class[t]]
                  /\ aux' = [t \in Span |-> IF t = s THEN n
                                            ELSE IF t \in S THEN s ELSE aux[t]]
                  /\ \E r \in Reg : roots' = [roots EXCEPT ![r] = First(s)]
                  /\ objs' = objs \cup {First(s)}
                  /\ cur' = cur /\ free' = free
               \/ /\ n = 1 /\ S = {s} /\ aux' = aux
                  /\ \E r \in Reg, c \in Small : \E run \in free[c] \cup {SpanWords(s)} :
                        /\ class' = [class EXCEPT ![s] = c]
                        /\ HandOut(r, c, run)
                        /\ free' = [free EXCEPT ![c] = (@ \cup {SpanWords(s)}) \ {run}]
  BY ClaimTable
<1>4. PICK S \in SUBSET Span :
            /\ S = {t \in Span : s <= t /\ t < s + n} /\ s + n <= covered
            /\ \A t \in S : class[t] = Unassigned
            /\ mem' = [w \in Word |-> IF w[1] \in S THEN Nil ELSE mem[w]]
            /\ fresh' = IF phase = "sweep" /\ s >= sweepCursor THEN fresh \cup S ELSE fresh \ S
            /\ dirty \subseteq dirty'
            /\ \/ /\ class' = [t \in Span |-> IF t = s THEN Large
                                              ELSE IF t \in S THEN LargeMid ELSE class[t]]
                  /\ aux' = [t \in Span |-> IF t = s THEN n
                                            ELSE IF t \in S THEN s ELSE aux[t]]
                  /\ \E r \in Reg : roots' = [roots EXCEPT ![r] = First(s)]
                  /\ objs' = objs \cup {First(s)}
                  /\ cur' = cur /\ free' = free
               \/ /\ n = 1 /\ S = {s} /\ aux' = aux
                  /\ \E r \in Reg, c \in Small : \E run \in free[c] \cup {SpanWords(s)} :
                        /\ class' = [class EXCEPT ![s] = c]
                        /\ HandOut(r, c, run)
                        /\ free' = [free EXCEPT ![c] = (@ \cup {SpanWords(s)}) \ {run}]
  BY <1>3
<1> DEFINE big == /\ class' = [t \in Span |-> IF t = s THEN Large
                                              ELSE IF t \in S THEN LargeMid ELSE class[t]]
                  /\ aux' = [t \in Span |-> IF t = s THEN n
                                            ELSE IF t \in S THEN s ELSE aux[t]]
                  /\ \E r \in Reg : roots' = [roots EXCEPT ![r] = First(s)]
                  /\ objs' = objs \cup {First(s)}
                  /\ cur' = cur /\ free' = free
           little == /\ n = 1 /\ S = {s} /\ aux' = aux
                     /\ \E r \in Reg, c \in Small : \E run \in free[c] \cup {SpanWords(s)} :
                           /\ class' = [class EXCEPT ![s] = c]
                           /\ HandOut(r, c, run)
                           /\ free' = [free EXCEPT ![c] = (@ \cup {SpanWords(s)}) \ {run}]
<1>5. big \/ little
  BY <1>4
<1> HIDE DEF big, little
<1>6. /\ s \in Nat /\ n \in Nat /\ n >= 1 /\ covered \in Nat /\ covered <= SpanLimit
      /\ SpanLimit \in Nat /\ sweepCursor \in Nat
      /\ class \in [Span -> Class] /\ aux \in [Span -> 0..SpanLimit]
      /\ \A t \in Span : t \in Nat /\ aux[t] \in Nat
  BY <1>1, WordPairs, CollectorAssumption DEF TypeOK, Class
<1>7. s \in S /\ \A t \in Span : t \in S <=> s <= t /\ t < s + n
  BY <1>4, <1>6
\* The spans that were in use are as they were.
<1>8. \A t \in Span : t \notin S => class'[t] = class[t] /\ aux'[t] = aux[t]
  <2>1. CASE big
    BY <1>6, <1>7, <2>1 DEF big
  <2>2. CASE little
    BY <1>6, <2>2 DEF little
  <2> QED BY <1>5, <2>1, <2>2
<1>9. \A t \in Span : class[t] # Unassigned => t \notin S
  BY <1>4
<1>10. \A t \in Span : t \notin S => (t \in fresh' <=> t \in fresh)
  BY <1>4
<1>11. class' \in [Span -> Class] /\ aux' \in [Span -> 0..SpanLimit]
  <2>1. CASE big
    <3>1. n \in 0..SpanLimit /\ s \in 0..SpanLimit
      BY <1>6, WordPairs
    <3>2. class' \in [Span -> Class]
      BY <1>6, <2>1 DEF big, Class
    <3>3. aux' \in [Span -> 0..SpanLimit]
      BY <1>6, <2>1, <3>1 DEF big
    <3> QED BY <3>2, <3>3
  <2>2. CASE little
    BY <1>6, <2>2 DEF little, Class
  <2> QED BY <1>5, <2>1, <2>2
<1>12. \A t \in S : class'[t] # Unassigned
  <2>1. CASE big
    BY <1>6, <1>7, <2>1, ClassesApart DEF big
  <2>2. CASE little
    BY <1>6, <2>2, ClassesApart DEF little
  <2> QED BY <1>5, <2>1, <2>2
\* Heads and what hangs from them.
<1>13. ASSUME NEW t \in Span, t \notin S, Owned(t) PROVE Owned(t)'
  <2>1. aux[t] \in Span
    BY <1>6, <1>13, WordPairs DEF Owned
  <2>2. aux[t] \notin S
    BY <1>9, <1>13, <2>1, ClassesApart DEF Owned
  <2> QED BY <1>8, <1>13, <2>1, <2>2 DEF Owned
<1>14. ASSUME NEW t \in Span, t \notin S, Owned(t)' PROVE Owned(t)
  <2>1. aux'[t] = aux[t] /\ aux[t] < t /\ class'[aux[t]] = Large /\ t < aux[t] + aux'[aux[t]]
    BY <1>8, <1>14 DEF Owned
  <2>2. aux[t] \in Span
    BY <1>6, <2>1, WordPairs
  <2>3. CASE aux[t] \notin S
    BY <1>8, <2>1, <2>2, <2>3 DEF Owned
  <2>4. CASE aux[t] \in S /\ big
    <3>1. aux[t] = s
      BY <1>6, <2>1, <2>2, <2>4, ClassesApart DEF big
    <3>2. aux'[s] = n
      BY <1>6, <2>4 DEF big
    <3> QED BY <1>6, <1>7, <1>14, <2>1, <3>1, <3>2
  <2>5. CASE aux[t] \in S /\ little
    BY <1>6, <2>1, <2>2, <2>5, ClassesApart DEF little
  <2> QED BY <1>5, <2>3, <2>4, <2>5
<1>15. ASSUME NEW t \in Span, Orphan(t) PROVE Orphan(t)'
  <2>1. largeKeep = "drop" /\ sweepCursor <= t
    BY <1>15 DEF Orphan
  <2>2. ASSUME NEW u \in sweepCursor..t PROVE class'[u] = LargeMid /\ ~Owned(u)' /\ u \notin fresh'
    <3>1. u \in Span
      BY <1>6, WordPairs
    <3>2. class[u] = LargeMid /\ ~Owned(u) /\ u \notin fresh
      BY <1>15 DEF Orphan
    <3>3. u \notin S
      BY <1>9, <3>1, <3>2, ClassesApart
    <3> QED BY <1>8, <1>10, <1>14, <3>1, <3>2, <3>3
  <2> QED BY <1>2, <2>1, <2>2 DEF Orphan
<1>16. \A b \in objs : b \in Word /\ b[1] \in Span /\ b[1] \notin S
  BY <1>1, <1>9, WordPairs, ClassesApart DEF Shape, TypeOK
\* The words waiting in runs are as they were.
<1>21. ASSUME NEW c \in Small, NEW w, w \in cur[c] \/ \E B \in free[c] : w \in B
       PROVE  /\ w \in Word /\ w[1] \in Span /\ w[1] \notin S
              /\ mem'[w] = Nil /\ class'[w[1]] = c /\ class[w[1]] = c /\ w \notin objs
  <2>1. w \in Word /\ w[1] \in Span
    BY <1>1, <1>21, WordPairs DEF TypeOK
  <2>2. mem[w] = Nil /\ class[w[1]] = c /\ w \notin objs
    BY <1>1, <1>21 DEF Stock
  <2>3. w[1] \notin S
    BY <1>9, <2>1, <2>2, ClassesApart
  <2>4. mem'[w] = Nil
    BY <1>4, <2>1, <2>2
  <2> QED BY <1>8, <2>1, <2>2, <2>3, <2>4
<1>23. \A w \in SpanWords(s) : w \in Word /\ w[1] = s /\ mem'[w] = Nil /\ w \notin objs
  <2> SUFFICES ASSUME NEW w \in SpanWords(s)
               PROVE  w \in Word /\ w[1] = s /\ mem'[w] = Nil /\ w \notin objs
    OBVIOUS
  <2>1. w \in Word /\ w[1] = s
    BY WordPairs
  <2> QED BY <1>4, <1>7, <1>16, <2>1
<1>26. phase = "sweep" => s < sweepCursor \/ s \in fresh'
  BY <1>4, <1>6, <1>7
<1> DEFINE stocked(c) == free[c] \cup {SpanWords(s)}
           takes(r, c, run, w0) ==
              /\ run \in stocked(c) /\ w0 \in run
              /\ class' = [class EXCEPT ![s] = c]
              /\ cur' = [cur EXCEPT ![c] = run \ {w0}]
              /\ free' = [free EXCEPT ![c] = stocked(c) \ {run}]
              /\ roots' = [roots EXCEPT ![r] = w0]
              /\ objs' = objs \cup {w0}
<1>22. ASSUME little
       PROVE  \E r \in Reg, c \in Small : \E run \in SUBSET Word : \E w0 \in Word : takes(r, c, run, w0)
  <2>1. PICK r \in Reg, c \in Small : \E run \in stocked(c) :
           /\ class' = [class EXCEPT ![s] = c]
           /\ HandOut(r, c, run)
           /\ free' = [free EXCEPT ![c] = stocked(c) \ {run}]
    BY <1>22 DEF little
  <2>2. PICK run \in stocked(c) :
           /\ class' = [class EXCEPT ![s] = c]
           /\ HandOut(r, c, run)
           /\ free' = [free EXCEPT ![c] = stocked(c) \ {run}]
    BY <2>1
  <2>3. run \in SUBSET Word
    BY <1>21, <1>23, <2>2
  <2>4. PICK w0 \in run : /\ cur' = [cur EXCEPT ![c] = run \ {w0}]
                          /\ roots' = [roots EXCEPT ![r] = w0]
                          /\ objs' = objs \cup {w0}
    BY <2>2 DEF HandOut
  <2> QED BY <2>2, <2>3, <2>4
\* The runs the new one may come from: the waiting ones and the new span.
<1>24. ASSUME little, NEW c \in Small, class' = [class EXCEPT ![s] = c]
       PROVE  \A B \in stocked(c) :
                 /\ \A w \in B : /\ w \in Word /\ mem'[w] = Nil /\ class'[w[1]] = c /\ w \notin objs
                                 /\ phase = "sweep" => w[1] < sweepCursor \/ w[1] \in fresh'
                 /\ \A C \in stocked(c) : B # C => B \cap C = {}
  <2>1. class'[s] = c
    BY <1>6, <1>24
  <2>2. \A w \in SpanWords(s) : /\ w \in Word /\ mem'[w] = Nil /\ class'[w[1]] = c /\ w \notin objs
                                /\ phase = "sweep" => w[1] < sweepCursor \/ w[1] \in fresh'
    BY <1>23, <1>26, <2>1
  <2>3. ASSUME NEW B \in free[c], NEW w \in B
        PROVE  /\ w \in Word /\ mem'[w] = Nil /\ class'[w[1]] = c /\ w \notin objs /\ w[1] # s
               /\ phase = "sweep" => w[1] < sweepCursor \/ w[1] \in fresh'
    <3>1. /\ w \in Word /\ mem'[w] = Nil /\ class'[w[1]] = c /\ w \notin objs
          /\ w[1] \in Span /\ w[1] \notin S
      BY <1>21, <2>3
    <3>2. phase = "sweep" => w[1] < sweepCursor \/ w[1] \in fresh
      BY <1>1, <2>3 DEF Windows
    <3> QED BY <1>7, <1>10, <3>1, <3>2
  <2>4. \A B \in free[c] : B \cap SpanWords(s) = {}
    BY <1>23, <2>3
  <2>5. \A B, C \in free[c] : B # C => B \cap C = {}
    BY <1>1 DEF Stock
  <2> HIDE DEF stocked
  <2>6. \A B \in stocked(c) : B \in free[c] \/ B = SpanWords(s)
    BY DEF stocked
  <2> QED BY <2>2, <2>3, <2>4, <2>5, <2>6
<1>17. /\ objs \subseteq objs'
       /\ \A b \in objs' : \/ b \in objs
                           \/ b \in Word /\ (big => b = First(s)) /\ (little => class'[b[1]] \in Small)
  <2>1. CASE big
    <3>1. ~little
      BY <1>6, <2>1, ClassesApart DEF big, little
    <3> QED BY <2>1, <3>1, WordPairs DEF big
  <2>2. CASE little
    <3>1. ~big
      BY <1>6, <2>2, ClassesApart DEF big, little
    <3>2. PICK r \in Reg, c \in Small : \E run \in SUBSET Word : \E w0 \in Word : takes(r, c, run, w0)
      BY <1>22, <2>2
    <3>3. PICK run \in SUBSET Word, w0 \in Word : takes(r, c, run, w0)
      BY <3>2
    <3>4. class'[w0[1]] = c
      BY <1>24, <2>2, <3>3
    <3> QED BY <3>1, <3>3, <3>4
  <2> QED BY <1>5, <2>1, <2>2
<1>18. \A h \in Span : class[h] = Large => \A t \in (h + 1)..(h + aux[h] - 1) : t \in Span
  <2> SUFFICES ASSUME NEW h \in Span, class[h] = Large, NEW t \in (h + 1)..(h + aux[h] - 1)
               PROVE  t \in Span
    OBVIOUS
  <2>1. h + aux[h] <= covered /\ h \in Nat /\ aux[h] \in Nat
    BY <1>1, <1>6 DEF Shape
  <2> QED BY <1>6, <2>1, WordPairs
<1>19. Shape'
  <2>1. \A t \in Span : t >= covered => class'[t] = Unassigned
    BY <1>1, <1>4, <1>6, <1>7, <1>8 DEF Shape
  <2>2. ASSUME NEW h \in Span, class'[h] = Large
        PROVE  /\ aux'[h] >= 1 /\ h + aux'[h] <= covered /\ First(h) \in objs'
               /\ \A t \in (h + 1)..(h + aux'[h] - 1) : class'[t] = LargeMid /\ aux'[t] = h
    <3>1. CASE h \notin S
      <4>1. class[h] = Large /\ aux'[h] = aux[h]
        BY <1>8, <2>2, <3>1
      <4>2. ASSUME NEW t \in (h + 1)..(h + aux[h] - 1) PROVE class'[t] = LargeMid /\ aux'[t] = h
        <5>1. t \in Span /\ class[t] = LargeMid /\ aux[t] = h
          BY <1>1, <1>18, <4>1 DEF Shape
        <5> QED BY <1>8, <1>9, <5>1, ClassesApart
      <4> QED BY <1>1, <1>17, <4>1, <4>2 DEF Shape
    <3>2. CASE h \in S /\ big
      <4>1. h = s /\ aux'[s] = n /\ First(s) \in objs'
        BY <1>6, <2>2, <3>2, ClassesApart DEF big
      <4>2. ASSUME NEW t \in (s + 1)..(s + n - 1) PROVE class'[t] = LargeMid /\ aux'[t] = s
        <5>1. t \in S /\ t # s
          BY <1>4, <1>6, <1>7, WordPairs
        <5> QED BY <3>2, <5>1 DEF big
      <4> QED BY <1>4, <1>6, <4>1, <4>2
    <3>3. CASE h \in S /\ little
      BY <1>6, <2>2, <3>3, ClassesApart DEF little
    <3> QED BY <1>5, <3>1, <3>2, <3>3
  <2>3. ASSUME NEW t \in Span, class'[t] = LargeMid PROVE Owned(t)' \/ Orphan(t)'
    <3>1. CASE t \notin S
      BY <1>1, <1>8, <1>13, <1>15, <2>3, <3>1 DEF Shape
    <3>2. CASE t \in S /\ big
      <4>1. t # s /\ aux'[t] = s /\ class'[s] = Large /\ aux'[s] = n
        BY <1>6, <1>7, <2>3, <3>2, ClassesApart DEF big
      <4> QED BY <1>6, <1>7, <3>2, <4>1 DEF Owned
    <3>3. CASE t \in S /\ little
      BY <1>6, <2>3, <3>3, ClassesApart DEF little
    <3> QED BY <1>5, <3>1, <3>2, <3>3
  <2>4. ASSUME NEW b \in objs' PROVE class'[b[1]] \in Small \/ (class'[b[1]] = Large /\ b[2] = 0)
    <3>1. CASE b \in objs
      BY <1>1, <1>8, <1>16, <3>1 DEF Shape
    <3>2. CASE b \notin objs /\ big
      <4>1. b = First(s) /\ class'[s] = Large
        BY <1>6, <3>2 DEF big
      <4> QED BY <4>1, WordPairs
    <3>3. CASE b \notin objs /\ little
      BY <1>17, <3>3
    <3> QED BY <1>5, <3>1, <3>2, <3>3
  <2>5. largeKeep = "drop" => /\ phase = "sweep" /\ sweepCursor < covered
                              /\ class'[sweepCursor] = LargeMid /\ Orphan(sweepCursor)'
    <3> SUFFICES ASSUME largeKeep = "drop"
                 PROVE  /\ phase = "sweep" /\ sweepCursor < covered
                        /\ class'[sweepCursor] = LargeMid /\ Orphan(sweepCursor)'
      OBVIOUS
    <3>1. /\ phase = "sweep" /\ sweepCursor < covered
          /\ class[sweepCursor] = LargeMid /\ Orphan(sweepCursor)
      BY <1>1 DEF Shape
    <3>2. sweepCursor \in Span
      BY <1>6, <3>1, WordPairs
    <3>3. sweepCursor \notin S
      BY <1>9, <3>1, <3>2, ClassesApart
    <3>4. PICK k \in Span : k = sweepCursor
      BY <3>2
    <3>5. Orphan(k)'
      BY <1>15, <3>1, <3>4
    <3>6. Orphan(sweepCursor)'
      BY <1>2, <3>4, <3>5 DEF Orphan
    <3> QED BY <1>8, <3>1, <3>2, <3>3, <3>6
  <2> QED BY <1>2, <2>1, <2>2, <2>3, <2>4, <2>5 DEF Shape
<1>20. Freshness'
  <2>1. phase # "sweep" => fresh' = {}
    BY <1>1, <1>4 DEF Freshness
  <2>2. \A t \in fresh' : t >= sweepCursor /\ class'[t] # Unassigned
    <3> SUFFICES ASSUME NEW t \in fresh' PROVE t >= sweepCursor /\ class'[t] # Unassigned
      OBVIOUS
    <3>1. t \in Span
      BY <1>1, <1>4 DEF TypeOK
    <3>2. CASE t \notin S
      BY <1>1, <1>8, <1>10, <3>1, <3>2 DEF Freshness
    <3>3. CASE t \in S
      BY <1>4, <1>6, <1>7, <1>12, <3>1, <3>3
    <3> QED BY <3>2, <3>3
  <2>3. \A t \in fresh' : class'[t] = LargeMid /\ aux'[t] >= sweepCursor => aux'[t] \in fresh'
    <3> SUFFICES ASSUME NEW t \in fresh', class'[t] = LargeMid, aux'[t] >= sweepCursor
                 PROVE  aux'[t] \in fresh'
      OBVIOUS
    <3>1. t \in Span
      BY <1>1, <1>4 DEF TypeOK
    <3>2. CASE t \notin S
      <4>1. t \in fresh /\ class[t] = LargeMid /\ aux'[t] = aux[t] /\ aux[t] >= sweepCursor
        BY <1>8, <1>10, <3>1, <3>2
      <4>2. aux[t] \in fresh
        BY <1>1, <4>1 DEF Freshness
      <4>3. aux[t] \in Span /\ class[aux[t]] # Unassigned
        BY <1>1, <4>2 DEF Freshness, TypeOK
      <4> QED BY <1>9, <1>10, <4>1, <4>2, <4>3
    <3>3. CASE t \in S /\ big
      <4>1. t # s /\ aux'[t] = s
        BY <1>6, <3>1, <3>3, ClassesApart DEF big
      <4> QED BY <1>4, <1>7, <3>3, <4>1
    <3>4. CASE t \in S /\ little
      BY <1>6, <3>1, <3>4, ClassesApart DEF little
    <3> QED BY <1>5, <3>2, <3>3, <3>4
  <2> QED BY <1>2, <2>1, <2>2, <2>3 DEF Freshness
\* What is in stock afterwards, class by class.
<1> DEFINE inStock(d) ==
       /\ \A w \in cur'[d] : /\ mem'[w] = Nil /\ class'[w[1]] = d /\ w \notin objs'
                             /\ phase = "sweep" => \/ w \in hold[d] \/ w[1] < sweepCursor
                                                   \/ w[1] \in fresh'
       /\ \A B \in free'[d] :
             /\ \A w \in B : /\ mem'[w] = Nil /\ class'[w[1]] = d /\ w \notin objs'
                             /\ phase = "sweep" => w[1] < sweepCursor \/ w[1] \in fresh'
             /\ B \cap cur'[d] = {}
             /\ \A C \in free'[d] : B # C => B \cap C = {}
<1>25. ASSUME NEW d \in Small PROVE inStock(d)
  <2>1. ASSUME cur'[d] = cur[d], free'[d] = free[d],
               \A w : (w \in cur[d] \/ \E B \in free[d] : w \in B) => w \notin objs'
        PROVE  inStock(d)
    <3>1. \A w \in cur[d] : /\ mem'[w] = Nil /\ class'[w[1]] = d
                            /\ phase = "sweep" => \/ w \in hold[d] \/ w[1] < sweepCursor
                                                  \/ w[1] \in fresh'
      BY <1>1, <1>10, <1>21 DEF Windows
    <3>2. \A B \in free[d] : \A w \in B :
             /\ mem'[w] = Nil /\ class'[w[1]] = d
             /\ phase = "sweep" => w[1] < sweepCursor \/ w[1] \in fresh'
      BY <1>1, <1>10, <1>21 DEF Windows
    <3> QED BY <1>1, <2>1, <3>1, <3>2 DEF Stock
  <2>2. CASE big
    <3>1. \A w : (w \in cur[d] \/ \E B \in free[d] : w \in B) => w \notin objs'
      <4> SUFFICES ASSUME NEW w, w \in cur[d] \/ \E B \in free[d] : w \in B
                   PROVE  w \notin objs'
        OBVIOUS
      <4>1. w \notin objs /\ w[1] \notin S
        BY <1>21
      <4>2. First(s)[1] = s
        BY WordPairs
      <4> QED BY <1>7, <2>2, <4>1, <4>2 DEF big
    <3> QED BY <2>1, <2>2, <3>1 DEF big
  <2>3. CASE little
    <3>1. PICK r \in Reg, c \in Small : \E run \in SUBSET Word : \E w0 \in Word : takes(r, c, run, w0)
      BY <1>22, <2>3
    <3>2. PICK run \in SUBSET Word, w0 \in Word : takes(r, c, run, w0)
      BY <3>1
    <3>3. \A B \in stocked(c) :
             /\ \A w \in B : /\ w \in Word /\ mem'[w] = Nil /\ class'[w[1]] = c /\ w \notin objs
                             /\ phase = "sweep" => w[1] < sweepCursor \/ w[1] \in fresh'
             /\ \A C \in stocked(c) : B # C => B \cap C = {}
      BY <1>24, <2>3, <3>2
    <3>4. run \in stocked(c) /\ w0 \in run /\ objs' = objs \cup {w0}
      BY <3>2
    <3>5. /\ cur'[d] = IF d = c THEN run \ {w0} ELSE cur[d]
          /\ free'[d] = IF d = c THEN stocked(c) \ {run} ELSE free[d]
      BY <1>1, <3>2 DEF TypeOK
    <3> HIDE DEF takes, stocked
    <3>6. CASE d = c
      <4>1. \A w \in run \ {w0} : w \notin objs'
        BY <3>3, <3>4
      <4>2. \A B \in stocked(c) \ {run} : B \cap run = {} /\ \A w \in B : w \notin objs'
        BY <3>3, <3>4
      <4> QED BY <3>3, <3>4, <3>5, <3>6, <4>1, <4>2
    <3>7. CASE d # c
      <4>1. class'[w0[1]] = c
        BY <3>3, <3>4
      <4>2. \A w : (w \in cur[d] \/ \E B \in free[d] : w \in B) => w \notin objs'
        BY <1>21, <3>4, <3>7, <4>1
      <4> QED BY <2>1, <3>5, <3>7, <4>2
    <3> QED BY <3>6, <3>7
  <2> QED BY <1>5, <2>2, <2>3
<1>33. Stock'
  BY <1>25 DEF Stock
<1>27. Windows'
  <2>1. ASSUME NEW d \in Small, phase = "sweep" PROVE \A w \in hold[d] : class'[w[1]] = d
    <3> SUFFICES ASSUME NEW w \in hold[d] PROVE class'[w[1]] = d
      OBVIOUS
    <3>1. class[w[1]] = d /\ w[1] \in Span
      BY <1>1, <2>1, WordPairs DEF Windows, TypeOK
    <3> QED BY <1>8, <1>9, <3>1, ClassesApart
  <2> QED BY <1>2, <1>25, <2>1 DEF Windows
<1>34. \A b \in objs : \A w \in Extent(b) : w \in Word /\ w[1] \notin S /\ mem'[w] = mem[w]
  <2> SUFFICES ASSUME NEW b \in objs, NEW w \in Extent(b)
               PROVE  w \in Word /\ w[1] \notin S /\ mem'[w] = mem[w]
    OBVIOUS
  <2>1. w \in Word /\ w[1] \notin S
    BY <1>1, <1>9, ExtentBase, WordPairs
  <2> QED BY <1>4, <2>1
<1>28. \E b0, v0 : \E r \in Reg :
          /\ v0 \in Extent(b0)' /\ b0 \notin objs /\ objs' = objs \cup {b0}
          /\ roots' = [roots EXCEPT ![r] = v0] /\ v0 \in Word
          /\ \A w \in Extent(b0)' : /\ mem'[w] = Nil /\ w \in Word
                                     /\ \A b \in objs : w \notin Extent(b)
          /\ phase = "sweep" => b0[1] < sweepCursor \/ b0[1] \in fresh'
  <2>1. CASE big
    <3> DEFINE b == First(s)
    <3>1. b \in Word /\ b[1] = s /\ b[2] = 0 /\ class'[s] = Large /\ aux'[s] = n /\ objs' = objs \cup {b}
      BY <1>6, <2>1, WordPairs DEF big
    <3>2. Extent(b)' = (s..(s + n - 1)) \X Off
      BY <3>1 DEF Extent
    <3>3. b \notin objs
      BY <1>7, <1>16, <3>1
    <3>4. s \in s..(s + n - 1)
      BY <1>6
    <3>5. b \in Extent(b)'
      BY <3>2, <3>4, WordPairs DEF First
    <3>6. \A w \in Extent(b)' : mem'[w] = Nil /\ w \in Word /\ w[1] \in S
      <4> SUFFICES ASSUME NEW w \in Extent(b)' PROVE mem'[w] = Nil /\ w \in Word /\ w[1] \in S
        OBVIOUS
      <4>1. w = <<w[1], w[2]>> /\ w[1] \in s..(s + n - 1) /\ w[2] \in Off
        BY <3>2
      <4>2. w[1] \in Span /\ w[1] \in S
        BY <1>4, <1>6, <1>7, <4>1, WordPairs
      <4>3. w \in Word
        BY <4>1, <4>2 DEF Word
      <4> QED BY <1>4, <4>2, <4>3
    <3>7. \E r \in Reg : roots' = [roots EXCEPT ![r] = b]
      BY <2>1 DEF big
    <3>8. \A w \in Extent(b)' : \A o \in objs : w \notin Extent(o)
      BY <1>34, <3>6
    <3> HIDE DEF b
    <3> QED BY <1>26, <3>1, <3>3, <3>5, <3>6, <3>7, <3>8
  <2>2. CASE little
    <3>1. PICK r \in Reg, c \in Small : \E run \in SUBSET Word : \E w0 \in Word : takes(r, c, run, w0)
      BY <1>22, <2>2
    <3>2. PICK run \in SUBSET Word, w0 \in Word : takes(r, c, run, w0)
      BY <3>1
    <3>3. /\ w0 \notin objs /\ mem'[w0] = Nil /\ class'[w0[1]] = c
          /\ phase = "sweep" => w0[1] < sweepCursor \/ w0[1] \in fresh'
      BY <1>24, <2>2, <3>2
    <3>4. Extent(w0)' = {w0}
      BY <3>3, ClassesApart DEF Extent
    <3>5. \A o \in objs : w0 \notin Extent(o)
      <4>1. CASE run \in free[c]
        BY <1>1, <3>2, <4>1, StockApart
      <4>2. CASE run = SpanWords(s)
        <5>1. w0[1] \in S
          BY <1>7, <1>23, <3>2, <4>2
        <5> QED BY <1>34, <5>1
      <4> QED BY <3>2, <4>1, <4>2
    <3> QED BY <3>2, <3>3, <3>4, <3>5
  <2> QED BY <1>5, <2>1, <2>2
<1>29. PICK b0, v0 : \E r \in Reg :
          /\ v0 \in Extent(b0)' /\ b0 \notin objs /\ objs' = objs \cup {b0}
          /\ roots' = [roots EXCEPT ![r] = v0] /\ v0 \in Word
          /\ \A w \in Extent(b0)' : /\ mem'[w] = Nil /\ w \in Word
                                     /\ \A b \in objs : w \notin Extent(b)
          /\ phase = "sweep" => b0[1] < sweepCursor \/ b0[1] \in fresh'
  BY <1>28
<1>30. Clean' /\ Ahead' /\ Tricolour'
  <2>1. phase = "sweep" => Survives(b0)'
    <3>1. b0[1] < sweepCursor \/ b0[1] \in fresh' => Survives(b0)'
      BY <1>2 DEF Survives
    <3> QED BY <1>29, <3>1
  <2>2. job = "none"
    BY <1>1, <1>2 DEF Flow
  <2>3. \A t \in Span : class[t] # Unassigned =>
           class'[t] = class[t] /\ aux'[t] = aux[t] /\ (t \in fresh' <=> t \in fresh)
    BY <1>8, <1>9, <1>10
  <2>4. \A w \in Word : class[w[1]] # Unassigned => mem'[w] = mem[w]
    BY <1>4, <1>9, WordPairs
  <2>5. dirty \subseteq dirty'
    BY <1>4
  <2> QED BY <1>2, <1>29, <2>1, <2>2, <2>3, <2>4, <2>5, Birth
<1>31. TypedHeap'
  <2>1. mem' \in [Word -> Word \cup {Nil}] /\ fresh' \subseteq Span
    BY <1>1, <1>4 DEF TypeOK
  <2>2. roots' \in [Reg -> Word \cup {Nil}]
    BY <1>1, <1>29 DEF TypeOK
  <2>3. cur' \in [Small -> SUBSET Word] /\ free' \in [Small -> SUBSET SUBSET Word]
    <3>1. CASE big
      BY <1>1, <3>1 DEF big, TypeOK
    <3>2. CASE little
      <4>1. PICK r \in Reg, c \in Small : \E run \in SUBSET Word : \E w0 \in Word : takes(r, c, run, w0)
        BY <1>22, <3>2
      <4>2. PICK run \in SUBSET Word, w0 \in Word : takes(r, c, run, w0)
        BY <4>1
      <4>3. stocked(c) \ {run} \in SUBSET SUBSET Word
        BY <1>1, <1>23 DEF TypeOK
      <4>4. /\ cur' = [cur EXCEPT ![c] = run \ {w0}]
            /\ free' = [free EXCEPT ![c] = stocked(c) \ {run}]
        BY <4>2
      <4> HIDE DEF takes, stocked
      <4> QED BY <1>1, <4>3, <4>4 DEF TypeOK
    <3> QED BY <1>5, <3>1, <3>2
  <2>4. objs' \subseteq Word /\ doomed' \subseteq objs'
    BY <1>1, <1>2, <1>16, <1>17 DEF TypeOK
  <2> QED BY <1>1, <1>2, <1>11, <2>1, <2>2, <2>3, <2>4 DEF TypeOK, TypedHeap
<1>32. \E r \in Reg : Bears(b0, r, v0)
  <2>1. \A b \in objs : Extent(b)' = Extent(b)
    BY <1>8, <1>16 DEF Extent
  <2> QED BY <1>29, <1>34, <2>1 DEF Bears
<1> QED BY <1>19, <1>20, <1>27, <1>30, <1>31, <1>32, <1>33 DEF HeapSound

\* Growing the heap adds spans that nothing uses (heap.go:903).
LEMMA GrowSound == ASSUME CollectorInv, GrowHeap PROVE HeapSound'
<1>1. TypeOK /\ Flow /\ Shape /\ Freshness /\ Stock /\ Windows /\ Clean /\ Ahead /\ Tricolour
  BY DEF CollectorInv
<1>2. /\ UNCHANGED <<mem, roots, class, aux, fresh, cur, free, hold, phase, marks, queues,
                     sweepCursor, largeKeep, pc, ret, job, lost, dirty, objs, doomed>>
      /\ pc = "find" /\ covered' \in (covered + req.n)..SpanLimit
  BY DEF GrowHeap, memory, alloc, sweeper, control, host, ghosts
<1>3. req.n \in 1..SpanLimit
  BY <1>1, <1>2 DEF Flow, Request
<1>4. /\ covered \in 1..SpanLimit /\ covered' \in 1..SpanLimit /\ covered < covered'
      /\ covered \in Nat /\ covered' \in Nat /\ sweepCursor \in Nat
  BY <1>1, <1>2, <1>3, CollectorAssumption DEF TypeOK
<1>5. \A a : Extent(a)' = Extent(a)
  BY <1>2 DEF Extent
<1>6. Shape'
  <2>1. \A s \in Span : s >= covered' => class[s] = Unassigned
    BY <1>1, <1>4, WordPairs DEF Shape
  <2>2. \A h \in Span : class[h] = Large => h + aux[h] <= covered'
    <3> SUFFICES ASSUME NEW h \in Span, class[h] = Large PROVE h + aux[h] <= covered'
      OBVIOUS
    <3>1. h + aux[h] <= covered /\ h \in Nat /\ aux[h] \in Nat
      BY <1>1, WordPairs DEF Shape, TypeOK
    <3> QED BY <1>4, <3>1
  <2>3. largeKeep = "drop" => sweepCursor < covered'
    BY <1>1, <1>4 DEF Shape
  <2> QED BY <1>1, <1>2, <2>1, <2>2, <2>3 DEF Shape, Owned, Orphan
<1>7. Freshness'
  BY <1>1, <1>2 DEF Freshness
<1>8. Stock'
  BY <1>1, <1>2 DEF Stock
<1>9. Windows'
  BY <1>1, <1>2 DEF Windows
<1>10. Clean'
  BY <1>1, <1>2, <1>5 DEF Clean, Grounded, Survives, marks
<1>11. Ahead'
  BY <1>1, <1>2 DEF Ahead, Survives, marks
<1>12. Tricolour'
  BY <1>1, <1>2, <1>5 DEF Tricolour, Pointee, Base, Owed, marks, queues
<1>13. TypedHeap'
  BY <1>1, <1>2, <1>4 DEF TypeOK, TypedHeap, Class
<1> QED BY <1>6, <1>7, <1>8, <1>9, <1>10, <1>11, <1>12, <1>13 DEF HeapSound
-----------------------------------------------------------------------------
(* A collection begins *)

\* The objects the guest can reach, by their first words.
Reachable == {b \in objs : Extent(b) \in Heap!Live}

\* ManagedHeap's view of this heap: the objects, what their words hold, and its
\* closed sets of objects.
HeapObjs == {Extent(b) : b \in objs}
HeapMem == LET owned == UNION {Extent(b) : b \in objs}
           IN  [w \in Word |-> IF w \in owned THEN mem[w] ELSE Nil]
HeapClosed(S) ==
    /\ S \subseteq HeapObjs
    /\ \A o \in HeapObjs :
          (\E r \in Reg : roots[r] \in o) \/ (\E p \in S : \E w \in p : HeapMem[w] \in o)
             => o \in S

\* Heap!Live, unfolded.
LEMMA HeapUnfold ==
  /\ \A S : Heap!Closed(S) <=> HeapClosed(S)
  /\ Heap!Live = {o \in HeapObjs : \A S \in SUBSET HeapObjs : HeapClosed(S) => o \in S}
<1>1. \A S : Heap!Closed(S) <=> HeapClosed(S)
  BY DEF Heap!Closed, HeapClosed, HeapObjs, HeapMem
<1>2. Heap!Live = {o \in HeapObjs : \A S \in SUBSET HeapObjs : Heap!Closed(S) => o \in S}
  BY DEF Heap!Live, HeapObjs
<1> QED BY <1>1, <1>2

\* A word of an object reads as the memory does.
LEMMA HeapReads ==
  ASSUME TypeOK, Shape, NEW b \in objs, NEW w \in Extent(b) PROVE HeapMem[w] = mem[w]
<1>1. w \in Word
  BY ExtentBase
<1>2. w \in UNION {Extent(a) : a \in objs}
  OBVIOUS
<1> QED BY <1>1, <1>2 DEF HeapMem

\* What the guest can reach lies in every grounded set, and is one itself.
LEMMA ReachableGrounded ==
  ASSUME TypeOK, Shape, Clean
  PROVE  Grounded(Reachable) /\ \A S \in SUBSET objs : Grounded(S) => Reachable \subseteq S
<1>1. PICK S \in SUBSET objs : Grounded(S)
  BY DEF Clean
<1>2. \A b \in objs : \A v \in Extent(b) : v \in Word /\ v # Nil
  BY ExtentBase
<1>3. ASSUME NEW T \in SUBSET objs, Grounded(T) PROVE HeapClosed({Extent(b) : b \in T})
  <2> DEFINE E == {Extent(b) : b \in T}
  <2>1. E \subseteq HeapObjs
    BY DEF HeapObjs
  <2>2. ASSUME NEW c \in objs, NEW r \in Reg, roots[r] \in Extent(c) PROVE Extent(c) \in E
    <3>1. roots[r] # Nil
      BY <1>2, <2>2
    <3>2. PICK b \in T : roots[r] \in Extent(b)
      BY <1>3, <3>1 DEF Grounded
    <3>3. b = c
      BY <2>2, <3>2, ExtentsApart
    <3> QED BY <3>3
  <2>3. ASSUME NEW c \in objs, NEW b \in T, NEW w \in Extent(b), HeapMem[w] \in Extent(c)
        PROVE  Extent(c) \in E
    <3>1. HeapMem[w] = mem[w] /\ mem[w] # Nil
      BY <1>2, <2>3, HeapReads
    <3>2. PICK d \in T : mem[w] \in Extent(d)
      BY <1>3, <3>1 DEF Grounded
    <3>3. d = c
      BY <2>3, <3>1, <3>2, ExtentsApart
    <3> QED BY <3>3
  <2>4. \A p \in E : \E b \in T : p = Extent(b)
    OBVIOUS
  <2> HIDE DEF E
  <2> QED BY <2>1, <2>2, <2>3, <2>4 DEF HeapClosed, HeapObjs
<1>4. ASSUME NEW T \in SUBSET objs, Grounded(T), NEW b \in Reachable PROVE b \in T
  <2>1. HeapClosed({Extent(a) : a \in T})
    BY <1>3, <1>4
  <2>2. Extent(b) \in {Extent(a) : a \in T}
    BY <2>1, HeapUnfold DEF Reachable, HeapObjs
  <2>3. PICK a \in T : Extent(b) = Extent(a)
    BY <2>2
  <2>4. b \in objs /\ b \in Extent(b)
    BY OwnWord DEF Reachable
  <2> QED BY <2>3, <2>4, ExtentsApart
<1>5. ASSUME NEW c \in objs, \A T : HeapClosed(T) => Extent(c) \in T PROVE c \in Reachable
  BY <1>5, HeapUnfold DEF Reachable, HeapObjs
<1>6. ASSUME NEW b \in Reachable, NEW T, HeapClosed(T) PROVE Extent(b) \in T
  BY <1>6, HeapUnfold DEF Reachable, HeapClosed
<1>7. ASSUME NEW r \in Reg, roots[r] # Nil PROVE \E b \in Reachable : roots[r] \in Extent(b)
  <2>1. PICK b \in S : roots[r] \in Extent(b)
    BY <1>1, <1>7 DEF Grounded
  <2>2. \A T : HeapClosed(T) => Extent(b) \in T
    BY <2>1 DEF HeapClosed, HeapObjs
  <2> QED BY <1>5, <2>1, <2>2
<1>8. ASSUME NEW b \in Reachable, NEW w \in Extent(b), mem[w] # Nil
      PROVE  \E c \in Reachable : mem[w] \in Extent(c)
  <2>1. b \in S /\ b \in objs
    BY <1>1, <1>4
  <2>2. PICK c \in S : mem[w] \in Extent(c)
    BY <1>1, <1>8, <2>1 DEF Grounded
  <2>3. HeapMem[w] = mem[w]
    BY <2>1, HeapReads
  <2>4. \A T : HeapClosed(T) => Extent(c) \in T
    BY <1>6, <2>2, <2>3 DEF HeapClosed, HeapObjs
  <2> QED BY <1>5, <2>2, <2>4
<1>9. Grounded(Reachable)
  BY <1>7, <1>8 DEF Grounded, Reachable
<1> QED BY <1>4, <1>9

\* A collection begins from the roots, with what they do not reach on record
\* (startCollection).
LEMMA BeginsSound ==
  ASSUME CollectorInv, Begins
  PROVE  HeapSound' /\ gray' \subseteq marked' /\ marked' \subseteq Word /\ grayOvf' \in BOOLEAN
<1>1. TypeOK /\ Flow /\ Shape /\ Freshness /\ Stock /\ Windows /\ Clean /\ Ahead /\ Tricolour
  BY DEF CollectorInv
<1>2. /\ UNCHANGED <<mem, roots, class, aux, fresh, covered, cur, free, hold, sweepCursor,
                     largeKeep, objs>>
      /\ phase = "idle" /\ phase' = "mark" /\ pc' \in {"run", "partial"} /\ partial' = {}
      /\ MarkInto(RootValues, {}, FALSE)
      /\ doomed' = {b \in objs : Extent(b) \notin Heap!Live}
  BY DEF Begins, Start, Collect, StartCollection, memory, table, alloc, sweeper, control
<1>3. /\ Spread
      /\ marked = {} /\ doomed = {} /\ largeKeep # "drop"
  <2>1. {} \in SUBSET marked /\ FALSE \in BOOLEAN /\ phase # "sweep"
    BY <1>2
  <2>2. Spread
    BY <1>1, <1>2, <2>1, MarkRoots
  <2> QED BY <1>1, <1>2, <2>2 DEF Ahead, Shape
<1>4. \A a : Extent(a)' = Extent(a)
  BY <1>2 DEF Extent
<1>5. Shape'
  BY <1>1, <1>2, <1>3 DEF Shape, Owned, Orphan
<1>6. Freshness'
  BY <1>1, <1>2 DEF Freshness
<1>7. Stock'
  BY <1>1, <1>2 DEF Stock
<1>8. Windows'
  BY <1>2 DEF Windows
<1>9. Clean'
  <2>1. Grounded(Reachable) /\ Reachable \in SUBSET objs
    BY <1>1, ReachableGrounded DEF Reachable
  <2>2. marked' \subseteq Reachable
    BY <1>1, <1>3, <2>1, SpreadInside
  <2>3. PICK S \in SUBSET objs : S = Reachable
    BY <2>1
  <2>4. Grounded(S)'
    BY <1>2, <1>4, <2>1, <2>3 DEF Grounded
  <2>5. S \cap doomed' = {}
    BY <1>2, <2>3 DEF Reachable
  <2> QED BY <1>2, <2>2, <2>3, <2>4, <2>5 DEF Clean
<1>10. Ahead'
  BY <1>2 DEF Ahead
<1>11. Tricolour'
  BY <1>2, <1>3 DEF Tricolour, Spread, Owed
<1>12. TypedHeap'
  BY <1>1, <1>2 DEF TypeOK, TypedHeap, Class
<1> QED BY <1>3, <1>5, <1>6, <1>7, <1>8, <1>9, <1>10, <1>11, <1>12 DEF HeapSound, Spread
-----------------------------------------------------------------------------
(* Marking ends *)

\* Marking ends with everything the guest can reach marked, and the sweep begins at
\* the bottom of the heap (beginSweep).
LEMMA VerdictSound == ASSUME CollectorInv, VerdictYes PROVE HeapSound'
<1>1. TypeOK /\ Flow /\ Shape /\ Freshness /\ Stock /\ Windows /\ Clean /\ Ahead /\ Tricolour
  BY DEF CollectorInv
<1>2. /\ UNCHANGED <<mem, roots, class, aux, fresh, covered, cur, marked, objs, doomed>>
      /\ pc = "verdict" /\ ~Unfinished /\ phase' = "sweep"
      /\ sweepCursor' = 0 /\ largeKeep' = "none"
      /\ free' = [c \in Small |-> {}] /\ hold' = cur
  BY DEF VerdictYes, memory, table, marks, ghosts
<1>3. phase = "mark" /\ fresh = {} /\ job # "none"
  BY <1>1, <1>2 DEF Flow, MarkStage, Freshness
<1>4. \A a : Extent(a)' = Extent(a)
  BY <1>2 DEF Extent
<1>5. Shape'
  BY <1>1, <1>2, <1>3 DEF Shape, Owned, Orphan
<1>6. Freshness'
  BY <1>2, <1>3 DEF Freshness
<1>7. Stock'
  BY <1>1, <1>2 DEF Stock, TypeOK
<1>8. Windows'
  BY <1>1, <1>2 DEF Windows, Stock
<1>9. /\ pend = {} /\ \A r \in Reg : Pointee(roots[r])
      /\ \A b \in marked : \A w \in Extent(b) : Pointee(mem[w])
  <2>1. pend = {} /\ \A r \in Reg : Pointee(roots[r])
    BY <1>1, <1>2, <1>3 DEF Tricolour
  <2>2. \A b \in marked : \A w \in Extent(b) : ~Owed(b, w)
    BY <1>2, <1>3, <2>1 DEF Owed, Unfinished
  <2> QED BY <1>1, <1>3, <2>1, <2>2 DEF Tricolour
<1>10. Grounded(marked)
  <2>1. marked \subseteq objs
    BY <1>1, MarkedObjects
  <2>2. PICK S \in SUBSET objs : Grounded(S) /\ marked \subseteq S
    BY <1>1 DEF Clean
  <2>3. ASSUME NEW r \in Reg, roots[r] # Nil PROVE \E b \in marked : roots[r] \in Extent(b)
    BY <1>1, <1>9, <2>3, MarkedObjects DEF Pointee
  <2>4. ASSUME NEW b \in marked, NEW w \in Extent(b), mem[w] # Nil
        PROVE  \E c \in marked : mem[w] \in Extent(c)
    <3>1. PICK c \in S : mem[w] \in Extent(c)
      BY <2>2, <2>4 DEF Grounded
    <3>2. Base(mem[w]) = c
      BY <1>1, <3>1, ExtentBase
    <3>3. c \in marked
      BY <1>9, <2>4, <3>2 DEF Pointee
    <3> QED BY <3>1, <3>3
  <2> QED BY <2>1, <2>3, <2>4 DEF Grounded
<1>11. doomed \cap marked = {} /\ doomed \subseteq objs
  BY <1>1 DEF Clean, TypeOK
<1>12. Clean'
  <2>1. PICK S \in SUBSET objs : S = marked
    BY <1>10 DEF Grounded
  <2>2. Grounded(S)'
    BY <1>2, <1>4, <1>10, <2>1 DEF Grounded
  <2>3. \A b \in S : Survives(b)'
    BY <1>2, <2>1 DEF Survives
  <2> QED BY <1>2, <1>11, <2>1, <2>2, <2>3 DEF Clean
<1>13. Ahead'
  <2>1. \A b \in marked : b[1] >= 0
    BY <1>1, WordPairs DEF TypeOK
  <2>2. \A b \in doomed : ~Survives(b)'
    <3> SUFFICES ASSUME NEW b \in doomed PROVE ~Survives(b)'
      OBVIOUS
    <3>1. b \in objs /\ b[1] \in Nat
      BY <1>1, <1>11, WordPairs DEF TypeOK
    <3>2. \A c \in Small : b \notin cur[c]
      BY <1>1, <3>1 DEF Stock
    <3> QED BY <1>2, <1>3, <1>11, <3>1, <3>2 DEF Survives
  <2> QED BY <1>2, <1>3, <2>1, <2>2 DEF Ahead
<1>14. Tricolour'
  BY <1>2 DEF Tricolour
<1>15. TypedHeap'
  <2>1. 0 \in 0..SpanLimit
    BY CollectorAssumption
  <2> QED BY <1>1, <1>2, <2>1 DEF TypeOK, TypedHeap, Class
<1> QED BY <1>5, <1>6, <1>7, <1>8, <1>12, <1>13, <1>14, <1>15 DEF HeapSound
-----------------------------------------------------------------------------
(* The sweep *)

\* What a step of the sweep does to the span it stands on, gone being the objects
\* it takes there.
SweepsOver(s, gone) ==
    /\ s = sweepCursor /\ sweepCursor' = s + 1
    /\ UNCHANGED <<roots, covered, cur, hold, phase>>
    /\ fresh' = fresh \ {s}
    /\ \/ marked' = marked \ SpanWords(s)
       \/ s \in fresh /\ marked' = marked
    /\ objs' = objs \ gone /\ doomed' = doomed \ gone
    /\ \A b \in gone : b[1] = s
    /\ \A b \in objs : b[1] = s => (b \in gone <=> ~Survives(b))
    /\ \A t \in Span : t # s => class'[t] = class[t] /\ aux'[t] = aux[t]
    /\ \/ class'[s] = class[s] /\ aux'[s] = aux[s]
       \/ \A b \in objs \ gone : b[1] # s
    /\ \A b \in objs \ gone : \A w \in Extent(b) : mem'[w] = mem[w]

\* A sweep that takes just the objects that do not survive keeps what the guest can
\* reach.
LEMMA SweepKeeps ==
  ASSUME CollectorInv, phase = "sweep", NEW s \in Span, NEW gone, SweepsOver(s, gone)
  PROVE  Clean' /\ Ahead' /\ Tricolour'
<1>1. TypeOK /\ Shape /\ Freshness /\ Clean /\ Ahead
  BY DEF CollectorInv
<1>2. /\ s = sweepCursor /\ sweepCursor' = s + 1
      /\ UNCHANGED <<roots, covered, cur, hold, phase>> /\ phase' = "sweep"
      /\ fresh' = fresh \ {s}
      /\ marked' = marked \ SpanWords(s) \/ (s \in fresh /\ marked' = marked)
      /\ objs' = objs \ gone /\ doomed' = doomed \ gone
      /\ \A b \in gone : b[1] = s
      /\ \A b \in objs : b[1] = s => (b \in gone <=> ~Survives(b))
      /\ \A t \in Span : t # s => class'[t] = class[t] /\ aux'[t] = aux[t]
      /\ \A b \in objs \ gone : \A w \in Extent(b) : mem'[w] = mem[w]
  BY DEF SweepsOver
<1>3. s \in Nat /\ \A b \in objs : b \in Word /\ b[1] \in Span /\ b[1] \in Nat
  BY <1>1, WordPairs DEF TypeOK
<1>4. \A b \in objs \ gone : Extent(b)' = Extent(b)
  <2> SUFFICES ASSUME NEW b \in objs \ gone PROVE Extent(b)' = Extent(b)
    OBVIOUS
  <2>1. class'[b[1]] = class[b[1]] /\ aux'[b[1]] = aux[b[1]]
    BY <1>3 DEF SweepsOver
  <2> QED BY <2>1 DEF Extent
<1>5. \A b \in objs \ gone : Survives(b) => Survives(b)'
  <2> SUFFICES ASSUME NEW b \in objs \ gone, Survives(b) PROVE Survives(b)'
    OBVIOUS
  <2>1. b[1] < s \/ b[1] = s \/ b[1] # s
    OBVIOUS
  <2>2. b[1] <= s => b[1] < s + 1
    BY <1>3
  <2>3. b[1] < sweepCursor \/ b[1] = s => Survives(b)'
    BY <1>2, <1>3, <2>2 DEF Survives
  <2>4. b \in marked /\ b[1] # s => b \in marked'
    BY <1>2, <1>3, WordPairs
  <2> QED BY <1>2, <2>3, <2>4 DEF Survives
<1>6. \A b \in objs \ gone : ~Survives(b) => ~Survives(b)'
  <2> SUFFICES ASSUME NEW b \in objs \ gone, ~Survives(b) PROVE ~Survives(b)'
    OBVIOUS
  <2>1. b[1] # s /\ ~(b[1] < sweepCursor)
    BY <1>2 DEF Survives
  <2>2. ~(b[1] < s + 1)
    BY <1>2, <1>3, <2>1
  <2>3. marked' \subseteq marked /\ fresh' \subseteq fresh
    BY <1>2
  <2> QED BY <1>2, <2>2, <2>3 DEF Survives
<1>7. PICK S \in SUBSET objs : /\ Grounded(S) /\ marked \subseteq S /\ S \cap doomed = {}
                               /\ \A b \in S : Survives(b)
  BY <1>1 DEF Clean
<1>8. S \subseteq objs \ gone
  BY <1>2, <1>7
<1>9. Grounded(S)'
  <2>1. S \subseteq objs'
    BY <1>2, <1>8
  <2>2. \A r \in Reg : roots'[r] # Nil => \E b \in S : roots'[r] \in Extent(b)'
    BY <1>2, <1>4, <1>7, <1>8 DEF Grounded
  <2>3. \A b \in S : \A w \in Extent(b)' : mem'[w] # Nil => \E c \in S : mem'[w] \in Extent(c)'
    <3> SUFFICES ASSUME NEW b \in S, NEW w \in Extent(b)', mem'[w] # Nil
                 PROVE  \E c \in S : mem'[w] \in Extent(c)'
      OBVIOUS
    <3>1. w \in Extent(b) /\ mem'[w] = mem[w]
      BY <1>2, <1>4, <1>8
    <3>2. PICK c \in S : mem[w] \in Extent(c)
      BY <1>7, <3>1 DEF Grounded
    <3> QED BY <1>4, <1>8, <3>1, <3>2
  <2> QED BY <2>1, <2>2, <2>3 DEF Grounded
<1>10. Clean'
  <2>1. S \in SUBSET objs' /\ marked' \subseteq S /\ S \cap doomed' = {}
    BY <1>2, <1>7, <1>8
  <2>2. \A b \in S : Survives(b)'
    BY <1>5, <1>7, <1>8
  <2> QED BY <1>2, <1>9, <2>1, <2>2 DEF Clean
<1>11. Ahead'
  <2>1. ASSUME NEW b \in marked' PROVE b[1] >= s + 1 /\ b[1] \notin fresh'
    <3>1. b \in marked /\ b \in Word /\ b[1] \in Nat /\ b[1] >= s /\ b[1] \notin fresh
      BY <1>1, <1>2, WordPairs DEF TypeOK, Ahead
    <3>2. b[1] # s
      BY <1>2, <3>1, WordPairs
    <3> QED BY <1>2, <1>3, <3>1, <3>2
  <2>2. \A b \in doomed' : ~Survives(b)'
    <3> SUFFICES ASSUME NEW b \in doomed' PROVE ~Survives(b)'
      OBVIOUS
    <3>1. b \in doomed /\ b \in objs \ gone /\ ~Survives(b)
      BY <1>1, <1>2 DEF TypeOK, Ahead
    <3> QED BY <1>6, <3>1
  <2> QED BY <1>2, <2>1, <2>2 DEF Ahead
<1>12. Tricolour'
  BY <1>2 DEF Tricolour
<1> QED BY <1>10, <1>11, <1>12

\* What every step of the sweep finds.
LEMMA SweepStands ==
  ASSUME CollectorInv, SweepSpan
  PROVE  /\ phase = "sweep" /\ job # "none"
         /\ sweepCursor \in Span /\ sweepCursor \in Nat /\ sweepCursor < covered
         /\ sweepCursor + 1 \in 0..SpanLimit
         /\ UNCHANGED Sweeping /\ sweepCursor' = sweepCursor + 1
         /\ marked \subseteq objs
<1>1. TypeOK /\ Flow /\ Shape /\ Clean
  BY DEF CollectorInv
<1>2. pc = "sweep" /\ sweepCursor < covered /\ UNCHANGED Sweeping
  BY DEF SweepSpan
<1>3. phase = "sweep" /\ job # "none"
  BY <1>1, <1>2 DEF Flow
<1>4. sweepCursor \in Nat /\ covered \in Nat /\ covered <= SpanLimit /\ SpanLimit \in Nat
  BY <1>1, CollectorAssumption DEF TypeOK
<1>5. sweepCursor \in Span /\ sweepCursor + 1 \in 0..SpanLimit
  BY <1>2, <1>4, WordPairs
<1>6. sweepCursor' = sweepCursor + 1
  BY DEF SweepSpan, SweepUnassigned, SweepFresh, SweepLarge, SweepSmall
<1> QED BY <1>1, <1>2, <1>3, <1>4, <1>5, <1>6, MarkedObjects

\* A step of the sweep that leaves the span table alone.
LEMMA TableStill ==
  ASSUME CollectorInv, phase = "sweep", sweepCursor \in Nat,
         UNCHANGED <<class, aux, covered, phase, mem, cur, free, hold>>,
         sweepCursor' = sweepCursor + 1,
         objs' = objs, fresh' = fresh \ {sweepCursor},
         largeKeep # "drop" /\ largeKeep' # "drop"
  PROVE  Shape' /\ Freshness' /\ Stock' /\ Windows'
<1>1. TypeOK /\ Shape /\ Freshness /\ Stock /\ Windows
  BY DEF CollectorInv
<1>2. \A s \in fresh : s \in Nat
  BY <1>1, WordPairs DEF TypeOK
<1>3. Shape'
  <2>1. \A t \in Span : ~Orphan(t)
    BY DEF Orphan
  <2> QED BY <1>1, <2>1 DEF Shape, Owned
<1>4. Freshness'
  <2>1. \A s \in fresh' : s >= sweepCursor + 1
    <3>1. \A s \in fresh : s >= sweepCursor /\ s \in Nat
      BY <1>1, <1>2 DEF Freshness
    <3> QED BY <3>1
  <2>2. ASSUME NEW t \in fresh', class[t] = LargeMid, aux[t] >= sweepCursor + 1
        PROVE  aux[t] \in fresh'
    <3>1. aux[t] \in Nat /\ aux[t] >= sweepCursor /\ aux[t] # sweepCursor
      BY <1>1, <2>2 DEF TypeOK
    <3> QED BY <1>1, <2>2, <3>1 DEF Freshness
  <2> QED BY <1>1, <2>1, <2>2 DEF Freshness
<1>5. Stock'
  BY <1>1 DEF Stock
<1>6. Windows'
  <2> SUFFICES ASSUME NEW d \in Small
               PROVE  /\ \A B \in free[d] : \A w \in B : w[1] < sweepCursor + 1 \/ w[1] \in fresh'
                      /\ \A w \in cur[d] : \/ w \in hold[d] \/ w[1] < sweepCursor + 1
                                           \/ w[1] \in fresh'
                      /\ \A w \in hold[d] : class[w[1]] = d
    BY DEF Windows
  <2>1. \A B \in free[d] : \A w \in B : w[1] \in Nat /\ (w[1] < sweepCursor \/ w[1] \in fresh)
    BY <1>1, WordPairs DEF TypeOK, Windows
  <2>2. \A w \in cur[d] : w[1] \in Nat /\ (w \in hold[d] \/ w[1] < sweepCursor \/ w[1] \in fresh)
    BY <1>1, WordPairs DEF TypeOK, Windows
  <2>3. \A w \in cur[d] : w[1] = sweepCursor \/ w[1] < sweepCursor => w[1] < sweepCursor + 1
    BY <2>2
  <2>4. \A B \in free[d] : \A w \in B : w[1] = sweepCursor \/ w[1] < sweepCursor => w[1] < sweepCursor + 1
    BY <2>1
  <2> QED BY <1>1, <2>1, <2>2, <2>3, <2>4 DEF Windows
<1> QED BY <1>3, <1>4, <1>5, <1>6

\* Over a span nothing is in.
LEMMA UnassignedSound ==
  ASSUME CollectorInv, SweepSpan, SweepUnassigned(sweepCursor)
  PROVE  HeapSound' /\ \E gone : SweepsOver(sweepCursor, gone)
<1>1. TypeOK /\ Flow /\ Shape /\ Freshness /\ Stock /\ Windows /\ Clean /\ Ahead /\ Tricolour
  BY DEF CollectorInv
<1>2. PICK s \in Span : s = sweepCursor
  BY SweepStands
<1>3. /\ class[s] = Unassigned /\ marked' = marked \ SpanWords(s)
      /\ UNCHANGED <<mem, class, aux, fresh, free, largeKeep, objs, doomed,
                     roots, covered, cur, hold, phase>>
      /\ phase = "sweep" /\ sweepCursor' = s + 1
  BY <1>2, SweepStands DEF SweepUnassigned, ClearSpanMarks, Sweeping, ghosts
<1>4. s \notin fresh /\ largeKeep # "drop" /\ \A b \in objs : b[1] # s
  BY <1>1, <1>2, <1>3, ClassesApart DEF Freshness, Shape
<1>5. Shape' /\ Freshness' /\ Stock' /\ Windows'
  <2>1. fresh' = fresh \ {sweepCursor} /\ sweepCursor \in Nat
    BY <1>2, <1>3, <1>4, WordPairs
  <2> QED BY <1>2, <1>3, <1>4, <2>1, TableStill
<1>6. SweepsOver(s, {})
  BY <1>2, <1>3, <1>4 DEF SweepsOver
<1>7. TypedHeap'
  BY <1>1, <1>2, <1>3, SweepStands DEF TypeOK, TypedHeap, Class
<1>8. Clean' /\ Ahead' /\ Tricolour'
  BY <1>3, <1>6, SweepKeeps
<1> QED BY <1>2, <1>5, <1>6, <1>7, <1>8 DEF HeapSound

\* Over a span assigned since marking ended.
LEMMA FreshSound ==
  ASSUME CollectorInv, SweepSpan, SweepFresh(sweepCursor)
  PROVE  HeapSound' /\ \E gone : SweepsOver(sweepCursor, gone)
<1>1. TypeOK /\ Flow /\ Shape /\ Freshness /\ Stock /\ Windows /\ Clean /\ Ahead /\ Tricolour
  BY DEF CollectorInv
<1>2. PICK s \in Span : s = sweepCursor
  BY SweepStands
<1>3. /\ s \in fresh /\ fresh' = fresh \ {s} /\ marked' = marked
      /\ UNCHANGED <<mem, class, aux, free, largeKeep, objs, doomed,
                     roots, covered, cur, hold, phase>>
      /\ phase = "sweep" /\ sweepCursor' = s + 1
  BY <1>2, SweepStands DEF SweepFresh, Sweeping, ghosts
<1>4. largeKeep # "drop"
  <2> SUFFICES ASSUME Orphan(s) PROVE FALSE
    BY <1>1, <1>2 DEF Shape
  <2>1. s \in sweepCursor..s
    BY <1>2, WordPairs
  <2> QED BY <1>3, <2>1 DEF Orphan
<1>5. Shape' /\ Freshness' /\ Stock' /\ Windows'
  <2>1. fresh' = fresh \ {sweepCursor} /\ sweepCursor \in Nat
    BY <1>2, <1>3, WordPairs
  <2> QED BY <1>2, <1>3, <1>4, <2>1, TableStill
<1>6. SweepsOver(s, {})
  BY <1>2, <1>3 DEF SweepsOver, Survives
<1>7. TypedHeap'
  BY <1>1, <1>2, <1>3, SweepStands DEF TypeOK, TypedHeap, Class
<1>8. Clean' /\ Ahead' /\ Tricolour'
  BY <1>3, <1>6, SweepKeeps
<1> QED BY <1>2, <1>5, <1>6, <1>7, <1>8 DEF HeapSound

\* A step of the sweep that gives back the span it stands on, nothing being left
\* there.
LEMMA SpanGoes ==
  ASSUME CollectorInv, SweepSpan, NEW s \in Span, s = sweepCursor, s \notin fresh,
         class' = [class EXCEPT ![s] = Unassigned],
         \A t \in Span : t # s => aux'[t] = aux[t],
         UNCHANGED <<mem, fresh, cur, free, hold, covered, phase>>,
         \A c \in Small : \A w \in hold[c] : w[1] # s,
         objs' \subseteq objs, \A b \in objs' : b[1] # s
  PROVE  Freshness' /\ Stock' /\ Windows'
<1>1. TypeOK /\ Shape /\ Freshness /\ Stock /\ Windows
  BY DEF CollectorInv
<1>2. phase = "sweep" /\ phase' = "sweep" /\ sweepCursor' = s + 1 /\ s \in Nat
  BY SweepStands
<1>3. \A t \in Span : t # s => class'[t] = class[t]
  BY <1>1 DEF TypeOK
<1>4. Freshness'
  <2>1. \A t \in fresh : t \in Span /\ t \in Nat /\ t >= s + 1 /\ t # s
    <3>1. \A t \in fresh : t \in Span /\ t \in Nat /\ t >= s /\ t # s
      BY <1>1, WordPairs DEF Freshness, TypeOK
    <3> QED BY <1>2, <3>1
  <2>2. \A t \in fresh : class'[t] # Unassigned
    BY <1>1, <1>3, <2>1 DEF Freshness
  <2>3. ASSUME NEW t \in fresh, class'[t] = LargeMid, aux'[t] >= s + 1 PROVE aux'[t] \in fresh
    <3>1. class[t] = LargeMid /\ aux'[t] = aux[t] /\ aux[t] \in Nat
      BY <1>1, <1>3, <2>1, <2>3 DEF TypeOK
    <3>2. aux[t] >= s
      BY <1>2, <2>3, <3>1
    <3> QED BY <1>1, <3>1, <3>2 DEF Freshness
  <2> QED BY <1>2, <2>1, <2>2, <2>3 DEF Freshness
<1>5. ASSUME NEW c \in Small, NEW w, w \in cur[c] \/ \E B \in free[c] : w \in B
      PROVE  /\ w[1] # s /\ w[1] \in Span /\ class'[w[1]] = c /\ w \notin objs' /\ mem[w] = Nil
  <2>1. w \in Word /\ w[1] \in Span /\ w[1] \in Nat
    BY <1>1, <1>5, WordPairs DEF TypeOK
  <2>2. class[w[1]] = c /\ w \notin objs /\ mem[w] = Nil
    BY <1>1, <1>5 DEF Stock
  <2>3. w[1] # s
    BY <1>1, <1>2, <1>5, <2>1 DEF Windows
  <2> QED BY <1>3, <2>1, <2>2, <2>3
<1>6. Stock'
  BY <1>1, <1>5 DEF Stock
<1>7. Windows'
  <2> SUFFICES ASSUME NEW d \in Small
               PROVE  /\ \A B \in free[d] : \A w \in B : w[1] < s + 1 \/ w[1] \in fresh
                      /\ \A w \in cur[d] : w \in hold[d] \/ w[1] < s + 1 \/ w[1] \in fresh
                      /\ \A w \in hold[d] : class'[w[1]] = d
    BY <1>2 DEF Windows
  <2>1. \A B \in free[d] : \A w \in B : w[1] \in Nat /\ (w[1] < s \/ w[1] \in fresh)
    BY <1>1, <1>2, WordPairs DEF TypeOK, Windows
  <2>2. \A w \in cur[d] : w[1] \in Nat /\ (w \in hold[d] \/ w[1] < s \/ w[1] \in fresh)
    BY <1>1, <1>2, WordPairs DEF TypeOK, Windows
  <2>3. \A w \in hold[d] : w[1] \in Span /\ class[w[1]] = d
    BY <1>1, <1>2, WordPairs DEF TypeOK, Windows
  <2> QED BY <1>2, <1>3, <2>1, <2>2, <2>3
<1> QED BY <1>4, <1>6, <1>7

\* The spans that hang from a head stay with it while another span goes.
LEMMA HeadsApart ==
  ASSUME TypeOK, Shape, NEW s \in Span, ~Owned(s),
         \A t \in Span : t # s => class'[t] = class[t] /\ aux'[t] = aux[t],
         class'[s] = Unassigned
  PROVE  /\ \A t \in Span : t # s /\ Owned(t)' => Owned(t) /\ aux[t] # s
         /\ \A t \in Span : t # s /\ Owned(t) /\ aux[t] # s => Owned(t)'
         /\ \A h \in Span : class'[h] = Large =>
               /\ h # s /\ class[h] = Large /\ aux'[h] = aux[h]
               /\ \A t \in (h + 1)..(h + aux[h] - 1) : class'[t] = LargeMid /\ aux'[t] = h
<1>1. \A t \in Span : t \in Nat /\ aux[t] \in Nat /\ (aux[t] < t => aux[t] \in Span)
  <2> SUFFICES ASSUME NEW t \in Span PROVE t \in Nat /\ aux[t] \in Nat /\ (aux[t] < t => aux[t] \in Span)
    OBVIOUS
  <2>1. t \in Nat /\ t < SpanLimit /\ SpanLimit \in Nat /\ aux[t] \in Nat
    BY WordPairs, CollectorAssumption DEF TypeOK
  <2> QED BY <2>1, WordPairs
<1>2. ASSUME NEW t \in Span, t # s, Owned(t)' PROVE Owned(t) /\ aux[t] # s
  <2>1. aux'[t] = aux[t] /\ aux[t] < t /\ class'[aux[t]] = Large /\ t < aux[t] + aux'[aux[t]]
    BY <1>2 DEF Owned
  <2>2. aux[t] \in Span /\ aux[t] # s
    BY <1>1, <2>1, ClassesApart
  <2> QED BY <2>1, <2>2 DEF Owned
<1>3. ASSUME NEW t \in Span, t # s, Owned(t), aux[t] # s PROVE Owned(t)'
  <2>1. aux[t] \in Span
    BY <1>1, <1>3 DEF Owned
  <2> QED BY <1>3, <2>1 DEF Owned
<1>4. ASSUME NEW h \in Span, class'[h] = Large
      PROVE  /\ h # s /\ class[h] = Large /\ aux'[h] = aux[h]
             /\ \A t \in (h + 1)..(h + aux[h] - 1) : class'[t] = LargeMid /\ aux'[t] = h
  <2>1. h # s /\ class[h] = Large /\ aux'[h] = aux[h]
    BY <1>4, ClassesApart
  <2>2. ASSUME NEW t \in (h + 1)..(h + aux[h] - 1) PROVE class'[t] = LargeMid /\ aux'[t] = h
    <3>1. h + aux[h] <= covered /\ covered \in Nat /\ covered <= SpanLimit /\ SpanLimit \in Nat
      BY <2>1, CollectorAssumption DEF Shape, TypeOK
    <3>2. t \in Nat /\ t < covered /\ h < t /\ t < h + aux[h]
      BY <1>1, <3>1
    <3>3. t \in Span
      BY <3>1, <3>2, WordPairs
    <3>4. class[t] = LargeMid /\ aux[t] = h
      BY <2>1 DEF Shape
    <3>5. Owned(t)
      BY <2>1, <3>2, <3>4 DEF Owned
    <3> QED BY <3>3, <3>4, <3>5
  <2> QED BY <2>1, <2>2
<1> QED BY <1>2, <1>3, <1>4

\* A later span of a large object is where its head says.
LEMMA OwnedInside ==
  ASSUME TypeOK, Shape, NEW t \in Span, Owned(t)
  PROVE  /\ class[t] = LargeMid /\ aux[t] \in Span /\ aux[t] \in Nat /\ aux[t] < t
         /\ \A u \in (aux[t] + 1)..t : u \in Span /\ class[u] = LargeMid /\ aux[u] = aux[t] /\ Owned(u)
<1> DEFINE h == aux[t]
<1>1. /\ t \in Nat /\ t < SpanLimit /\ SpanLimit \in Nat /\ h \in Nat /\ h < t
      /\ class[h] = Large /\ t < h + aux[h]
  BY WordPairs, CollectorAssumption DEF TypeOK, Owned
<1>2. h \in Span
  BY <1>1, WordPairs
<1>3. aux[h] \in Nat
  BY <1>2 DEF TypeOK
<1>4. ASSUME NEW u \in (h + 1)..t
      PROVE  u \in Span /\ class[u] = LargeMid /\ aux[u] = h /\ Owned(u)
  <2>1. u \in Nat /\ u < SpanLimit /\ h < u /\ u < h + aux[h] /\ u \in (h + 1)..(h + aux[h] - 1)
    BY <1>1, <1>3
  <2>2. class[u] = LargeMid /\ aux[u] = h
    BY <1>1, <1>2, <2>1 DEF Shape
  <2> QED BY <1>1, <2>1, <2>2, WordPairs DEF Owned
<1>5. t \in (h + 1)..t
  BY <1>1
<1> QED BY <1>1, <1>2, <1>4, <1>5

\* A later span whose head has gone, or is going with span s.
Hanging(s, u) == class[u] = LargeMid /\ u \notin fresh /\ (Owned(u) => aux[u] = s)

\* The spans that hang from one that goes are the next to go.
LEMMA DropShape ==
  ASSUME CollectorInv, SweepSpan, NEW s \in Span, s = sweepCursor,
         class' = [class EXCEPT ![s] = Unassigned], aux' = [aux EXCEPT ![s] = 0],
         fresh' = fresh,
         largeKeep' = IF s + 1 < covered /\ class[s + 1] = LargeMid THEN "drop" ELSE "none",
         ~Owned(s),
         objs' \subseteq objs, \A b \in objs : b[1] # s => b \in objs', \A b \in objs' : b[1] # s,
         \A t \in Span : t # s /\ (Orphan(t) \/ (Owned(t) /\ aux[t] = s)) =>
            t > s /\ \A u \in (s + 1)..t : Hanging(s, u),
         s + 1 < covered /\ class[s + 1] = LargeMid => Hanging(s, s + 1)
  PROVE  Shape'
<1>1. TypeOK /\ Shape
  BY DEF CollectorInv
<1>2. /\ phase' = "sweep" /\ sweepCursor' = s + 1 /\ s \in Nat /\ s < covered /\ covered' = covered
      /\ covered \in Nat /\ covered <= SpanLimit /\ SpanLimit \in Nat
  BY <1>1, SweepStands, CollectorAssumption DEF Sweeping, TypeOK
<1>3. /\ \A t \in Span : t # s => class'[t] = class[t] /\ aux'[t] = aux[t]
      /\ class'[s] = Unassigned
      /\ \A t \in Span : t \in Nat
  BY <1>1, WordPairs DEF TypeOK
<1>4. /\ \A t \in Span : t # s /\ Owned(t)' => Owned(t) /\ aux[t] # s
      /\ \A t \in Span : t # s /\ Owned(t) /\ aux[t] # s => Owned(t)'
      /\ \A h \in Span : class'[h] = Large =>
            /\ h # s /\ class[h] = Large /\ aux'[h] = aux[h]
            /\ \A t \in (h + 1)..(h + aux[h] - 1) : class'[t] = LargeMid /\ aux'[t] = h
  BY <1>1, <1>3, HeadsApart
<1>5. ASSUME NEW t \in Span, t > s, \A u \in (s + 1)..t : Hanging(s, u)
      PROVE  Orphan(t)' /\ largeKeep' = "drop" /\ s + 1 < covered /\ class'[s + 1] = LargeMid
  <2>1. /\ \A u \in (s + 1)..t : u \in Span /\ u # s /\ u \in Nat
        /\ s + 1 \in (s + 1)..t /\ s + 1 <= t
    <3>1. t \in Nat /\ t < SpanLimit
      BY WordPairs
    <3>2. \A u \in (s + 1)..t : u \in Nat /\ u < SpanLimit /\ u # s
      BY <1>2, <3>1
    <3>3. s + 1 \in (s + 1)..t /\ s + 1 <= t
      BY <1>2, <1>5, <3>1
    <3> QED BY <3>2, <3>3, WordPairs
  <2>2. \A u \in (s + 1)..t : class'[u] = LargeMid /\ ~Owned(u)' /\ u \notin fresh'
    BY <1>3, <1>4, <1>5, <2>1 DEF Hanging
  <2>3. class[s + 1] = LargeMid
    BY <1>5, <2>1 DEF Hanging
  <2>4. s + 1 < covered
    <3>1. ~(s + 1 >= covered)
      BY <1>1, <2>1, <2>3, ClassesApart DEF Shape
    <3> QED BY <1>2, <3>1
  <2>5. largeKeep' = "drop"
    BY <2>3, <2>4
  <2>6. Orphan(t)'
    BY <1>2, <2>1, <2>2, <2>5 DEF Orphan
  <2> QED BY <2>1, <2>2, <2>4, <2>5, <2>6
<1>6. \A t \in Span : t >= covered => class'[t] = Unassigned
  BY <1>1, <1>3 DEF Shape
<1>7. ASSUME NEW h \in Span, class'[h] = Large
      PROVE  /\ aux'[h] >= 1 /\ h + aux'[h] <= covered /\ First(h) \in objs'
             /\ \A t \in (h + 1)..(h + aux'[h] - 1) : class'[t] = LargeMid /\ aux'[t] = h
  <2>1. First(h) \in objs'
    BY <1>1, <1>4, <1>7, WordPairs DEF Shape
  <2> QED BY <1>1, <1>4, <1>7, <2>1 DEF Shape
<1>8. ASSUME NEW t \in Span, class'[t] = LargeMid PROVE Owned(t)' \/ Orphan(t)'
  <2>1. t # s /\ class[t] = LargeMid
    BY <1>3, <1>8, ClassesApart
  <2>2. Owned(t) \/ Orphan(t)
    BY <1>1, <2>1 DEF Shape
  <2>3. CASE Owned(t) /\ aux[t] # s
    BY <1>4, <2>1, <2>3
  <2>4. CASE Orphan(t) \/ (Owned(t) /\ aux[t] = s)
    BY <1>5, <2>1, <2>4
  <2> QED BY <2>2, <2>3, <2>4
<1>9. \A b \in objs' : class'[b[1]] \in Small \/ (class'[b[1]] = Large /\ b[2] = 0)
  BY <1>1, <1>3, WordPairs DEF Shape, TypeOK
<1>10. ASSUME largeKeep' = "drop"
       PROVE  s + 1 < covered /\ class'[s + 1] = LargeMid /\ Orphan(s + 1)'
  <2>1. s + 1 < covered /\ class[s + 1] = LargeMid /\ Hanging(s, s + 1)
    BY <1>10
  <2>2. s + 1 \in Span /\ s + 1 > s /\ (s + 1)..(s + 1) = {s + 1}
    BY <1>2, <2>1, WordPairs
  <2>3. PICK k \in Span : k = s + 1
    BY <2>2
  <2>4. \A u \in (s + 1)..k : Hanging(s, u)
    BY <2>1, <2>2, <2>3
  <2>5. Orphan(k)' /\ class'[k] = LargeMid
    BY <1>5, <2>2, <2>3, <2>4
  <2>6. Orphan(s + 1)'
    BY <1>2, <2>3, <2>5 DEF Orphan
  <2> QED BY <2>1, <2>3, <2>5, <2>6
<1>11. largeKeep' = "drop" => /\ sweepCursor' < covered' /\ class'[sweepCursor'] = LargeMid
                              /\ Orphan(sweepCursor)'
  <2>1. ASSUME largeKeep' = "drop" PROVE Orphan(sweepCursor)'
    BY <1>2, <1>10, <2>1 DEF Orphan
  <2> QED BY <1>2, <1>10, <2>1
<1> QED BY <1>2, <1>6, <1>7, <1>8, <1>9, <1>11 DEF Shape

\* Over one span of a large object: its head decides, and the spans behind it follow
\* (:1534).
LEMMA LargeSound ==
  ASSUME CollectorInv, SweepSpan, SweepLarge(sweepCursor)
  PROVE  HeapSound' /\ \E gone : SweepsOver(sweepCursor, gone)
<1>1. TypeOK /\ Flow /\ Shape /\ Freshness /\ Stock /\ Windows /\ Clean /\ Ahead /\ Tricolour
  BY DEF CollectorInv
<1>2. PICK s \in Span : s = sweepCursor
  BY SweepStands
<1> DEFINE keep == IF class[s] = LargeMid THEN largeKeep
                   ELSE IF First(s) \in marked THEN "keep" ELSE "drop"
<1>3. /\ class[s] \in {Large, LargeMid} /\ s \notin fresh /\ marked' = marked \ SpanWords(s)
      /\ IF class[s] = Large /\ keep = "drop"
         THEN objs' = objs \ {First(s)} /\ doomed' = doomed \ {First(s)}
         ELSE UNCHANGED <<objs, doomed>>
      /\ IF keep = "drop"
         THEN class' = [class EXCEPT ![s] = Unassigned] /\ aux' = [aux EXCEPT ![s] = 0]
         ELSE UNCHANGED <<class, aux>>
      /\ largeKeep' = IF s + 1 < covered /\ class[s + 1] = LargeMid THEN keep ELSE "none"
      /\ UNCHANGED <<mem, fresh, free, roots, covered, cur, hold, phase>>
      /\ phase = "sweep" /\ phase' = "sweep" /\ sweepCursor' = s + 1
  BY <1>2, SweepStands DEF SweepLarge, ClearSpanMarks, Reclaim, Sweeping, ghosts
<1>4. /\ s \in Nat /\ keep \in {"none", "keep", "drop"}
      /\ \A t \in Span : t \in Nat
      /\ class \in [Span -> Class] /\ aux \in [Span -> 0..SpanLimit]
  BY <1>1, WordPairs DEF TypeOK, Class
<1>5. /\ class[s] = Large => largeKeep # "drop"
      /\ largeKeep = "drop" => Orphan(s)
  BY <1>1, <1>2, ClassesApart DEF Shape
<1>6. \A b \in objs : b[1] = s => class[s] = Large /\ b = First(s)
  <2> SUFFICES ASSUME NEW b \in objs, b[1] = s PROVE class[s] = Large /\ b = First(s)
    OBVIOUS
  <2>1. class[s] = Large /\ b[2] = 0
    BY <1>1, <1>3, ClassesApart DEF Shape
  <2>2. b \in Word
    BY <1>1 DEF TypeOK
  <2> QED BY <2>1, <2>2, WordPairs DEF First
<1>7. \A c \in Small : \A w \in hold[c] : w[1] # s
  BY <1>1, <1>3, ClassesApart DEF Windows
<1>8. \A c \in Small : First(s) \notin hold[c]
  BY <1>7, WordPairs
<1>9. First(s) \in marked <=> Survives(First(s))
  <2>1. First(s)[1] = s /\ ~(s < s)
    BY <1>4, WordPairs
  <2> QED BY <1>2, <1>3, <1>8, <2>1 DEF Survives
<1>10. TypedHeap'
  <2>1. class' \in [Span -> Class] /\ aux' \in [Span -> 0..SpanLimit]
    <3>1. 0 \in 0..SpanLimit
      BY CollectorAssumption
    <3> QED BY <1>3, <1>4, <3>1 DEF Class
  <2>2. objs' \subseteq Word /\ doomed' \subseteq objs'
    BY <1>1, <1>3 DEF TypeOK
  <2>3. largeKeep' \in {"none", "keep", "drop"} /\ sweepCursor' \in 0..SpanLimit
    BY <1>2, <1>3, <1>4, SweepStands
  <2> QED BY <1>1, <1>3, <2>1, <2>2, <2>3 DEF TypeOK, TypedHeap
<1>11. CASE keep # "drop"
  <2>1. UNCHANGED <<class, aux, objs, doomed>> /\ largeKeep # "drop" /\ largeKeep' # "drop"
    BY <1>3, <1>5, <1>11
  <2>2. fresh' = fresh \ {s}
    BY <1>3
  <2>3. Shape' /\ Freshness' /\ Stock' /\ Windows'
    BY <1>2, <1>3, <1>4, <2>1, <2>2, TableStill
  <2>4. \A b \in objs : b[1] = s => Survives(b)
    BY <1>6, <1>9, <1>11, ClassesApart
  <2>5. SweepsOver(s, {})
    BY <1>2, <1>3, <2>1, <2>2, <2>4 DEF SweepsOver
  <2>6. Clean' /\ Ahead' /\ Tricolour'
    BY <1>3, <2>5, SweepKeeps
  <2> QED BY <1>2, <1>10, <2>3, <2>5, <2>6 DEF HeapSound
<1>12. CASE keep = "drop"
  <2> DEFINE gone == IF class[s] = Large THEN {First(s)} ELSE {}
  <2>1. /\ objs' = objs \ gone /\ doomed' = doomed \ gone
        /\ \A b \in objs' : b[1] # s
        /\ \A b \in gone : b[1] = s
    BY <1>3, <1>6, <1>12, WordPairs
  <2>2. class[s] = Large => First(s) \notin marked
    BY <1>12, ClassesApart
  <2>3. \A b \in objs : b[1] = s => (b \in gone <=> ~Survives(b))
    BY <1>6, <1>9, <2>2
  <2> HIDE DEF gone
  <2>4. /\ class' = [class EXCEPT ![s] = Unassigned] /\ aux' = [aux EXCEPT ![s] = 0]
        /\ class' \in [Span -> Class]
        /\ \A t \in Span : t # s => class'[t] = class[t] /\ aux'[t] = aux[t]
    BY <1>3, <1>4, <1>12, ClassesApart DEF Class
  <2>5. fresh' = fresh \ {s}
    BY <1>3
  <2>6. SweepsOver(s, gone)
    BY <1>2, <1>3, <2>1, <2>3, <2>4, <2>5 DEF SweepsOver
  <2>7. Clean' /\ Ahead' /\ Tricolour'
    BY <1>3, <2>6, SweepKeeps
  <2>8. Freshness' /\ Stock' /\ Windows'
    <3>1. objs' \subseteq objs
      BY <2>1
    <3> QED BY <1>2, <1>3, <1>7, <2>1, <2>4, <3>1, SpanGoes
  <2>9. largeKeep' = IF s + 1 < covered /\ class[s + 1] = LargeMid THEN "drop" ELSE "none"
    BY <1>3, <1>12
\* Nothing but a head that goes, or a span already hanging, is under the sweep.
  <2>10. ~Owned(s)
    <3>1. CASE class[s] = Large
      BY <1>1, <3>1, OwnedInside, ClassesApart
    <3>2. CASE class[s] = LargeMid
      <4>1. Orphan(s) /\ s \in sweepCursor..s
        BY <1>2, <1>4, <1>5, <1>12, <3>2
      <4> QED BY <4>1 DEF Orphan
    <3> QED BY <1>3, <3>1, <3>2
  <2>11. ASSUME NEW t \in Span, t # s, Orphan(t) \/ (Owned(t) /\ aux[t] = s)
         PROVE  t > s /\ \A u \in (s + 1)..t : Hanging(s, u)
    <3>1. CASE Orphan(t)
      <4>1. sweepCursor <= t
        BY <3>1 DEF Orphan
      <4>2. t > s /\ \A u \in (s + 1)..t : u \in sweepCursor..t
        BY <1>2, <1>4, <2>11, <4>1
      <4> QED BY <3>1, <4>2 DEF Orphan, Hanging
    <3>2. CASE Owned(t) /\ aux[t] = s
      <4>1. /\ s < t
            /\ \A u \in (s + 1)..t : u \in Span /\ class[u] = LargeMid /\ aux[u] = s
        BY <1>1, <3>2, OwnedInside
      <4>2. \A u \in (s + 1)..t : u \notin fresh
        <5>1. aux[t] >= sweepCursor
          BY <1>2, <1>4, <3>2
        <5>2. s >= sweepCursor
          BY <1>2, <1>4
        <5> QED BY <1>1, <1>3, <4>1, <5>2 DEF Freshness
      <4> QED BY <1>4, <4>1, <4>2 DEF Hanging
    <3> QED BY <2>11, <3>1, <3>2
  <2>12. ASSUME s + 1 < covered, class[s + 1] = LargeMid PROVE Hanging(s, s + 1)
    <3>1. s + 1 \in Span
      <4>1. covered \in Nat /\ covered <= SpanLimit /\ SpanLimit \in Nat
        BY <1>1, CollectorAssumption DEF TypeOK
      <4> QED BY <1>4, <2>12, <4>1, WordPairs
    <3>2. PICK k \in Span : k = s + 1
      BY <3>1
    <3>3. k \in (s + 1)..k /\ k > s /\ k # s
      BY <1>4, <3>2
    <3>4. CASE Orphan(k) \/ (Owned(k) /\ aux[k] = s)
      BY <2>11, <3>2, <3>3, <3>4
    <3>5. CASE Owned(k) /\ aux[k] # s
      <4>1. /\ aux[k] \in Nat /\ aux[k] < k
            /\ \A u \in (aux[k] + 1)..k : Owned(u)
        BY <1>1, <3>5, OwnedInside
      <4>2. s \in (aux[k] + 1)..k
        BY <1>4, <3>2, <3>5, <4>1
      <4> QED BY <2>10, <4>1, <4>2
    <3> QED BY <1>1, <2>12, <3>2, <3>4, <3>5 DEF Shape
  <2>13. Shape'
    <3>1. objs' \subseteq objs /\ \A b \in objs : b[1] # s => b \in objs'
      BY <2>1
    <3> QED BY <1>2, <1>3, <2>1, <2>4, <2>9, <2>10, <2>11, <2>12, <3>1, DropShape
  <2> QED BY <1>2, <1>10, <2>6, <2>7, <2>8, <2>13 DEF HeapSound
<1> QED BY <1>11, <1>12

\* The runs a span is cut into are apart (sweepSmall's scan for the next live block).
LEMMA RunsApart ==
  ASSUME NEW s \in Span, NEW W, NEW R \in RunsIn(s, W), NEW T \in RunsIn(s, W), R # T
  PROVE  R \cap T = {}
<1>1. PICK i \in Off, j \in Off : R = {s} \X (i..j)
  BY DEF RunsIn, Segments
<1>2. PICK k \in Off, l \in Off : T = {s} \X (k..l)
  BY DEF RunsIn, Segments
<1>3. Off \subseteq Nat
  BY WordPairs
<1> SUFFICES ASSUME NEW v \in R, v \in T PROVE FALSE
  OBVIOUS
<1>4. v[2] \in i..j /\ v[2] \in k..l
  BY <1>1, <1>2
<1>5. /\ i \in Nat /\ j \in Nat /\ k \in Nat /\ l \in Nat
  BY <1>3
<1> DEFINE a == IF i <= k THEN i ELSE k
           b == IF j >= l THEN j ELSE l
<1>6. a \in Off /\ b \in Off /\ a \in Nat /\ b \in Nat
  BY <1>5
<1>7. a..b = (i..j) \cup (k..l)
  <2>1. PICK x \in Nat : x = v[2]
    BY <1>4, <1>5
  <2>2. i <= x /\ x <= j /\ k <= x /\ x <= l
    BY <1>4, <1>5, <2>1
  <2> QED BY <1>5, <2>2
<1> DEFINE U == {s} \X (a..b)
<1>8. U = R \cup T
  BY <1>1, <1>2, <1>7
<1>9. U \in Segments(s)
  <2>1. U # {}
    BY <1>8
  <2> QED BY <1>6, <2>1 DEF Segments
<1>10. U \subseteq W
  BY <1>8 DEF RunsIn
<1> HIDE DEF U
<1>11. U = R /\ U = T
  BY <1>8, <1>9, <1>10 DEF RunsIn
<1> QED BY <1>11

\* A run is a run of words of its span.
LEMMA RunWords ==
  ASSUME NEW s \in Span, NEW W, NEW R \in RunsIn(s, W)
  PROVE  R \subseteq W
BY DEF RunsIn

\* Over a span of small objects: what is not marked, nor in the window marking ended
\* with, is zeroed and goes into stock (:1590).
LEMMA SmallSound ==
  ASSUME CollectorInv, SweepSpan, SweepSmall(sweepCursor)
  PROVE  HeapSound' /\ \E gone : SweepsOver(sweepCursor, gone)
<1>1. TypeOK /\ Flow /\ Shape /\ Freshness /\ Stock /\ Windows /\ Clean /\ Ahead /\ Tricolour
  BY DEF CollectorInv
<1>2. PICK s \in Span : s = sweepCursor
  BY SweepStands
<1> DEFINE c == class[s]
           stays == SpanWords(s) \cap (marked \cup hold[c])
           goes == SpanWords(s) \ stays
           empties == stays = {}
<1>3. /\ c \in Small /\ s \notin fresh /\ marked' = marked \ SpanWords(s)
      /\ objs' = objs \ goes /\ doomed' = doomed \ goes
      /\ empties => class' = [class EXCEPT ![s] = Unassigned] /\ UNCHANGED <<mem, free>>
      /\ ~empties => /\ class' = class
                     /\ mem' = [w \in Word |-> IF w \in goes THEN Nil ELSE mem[w]]
                     /\ free' = [free EXCEPT ![c] = @ \cup RunsIn(s, goes)]
      /\ UNCHANGED <<aux, fresh, largeKeep, roots, covered, cur, hold, phase>>
      /\ phase = "sweep" /\ phase' = "sweep" /\ sweepCursor' = s + 1
  BY <1>2, SweepStands DEF SweepSmall, ClearSpanMarks, Reclaim, Sweeping
<1>4. /\ s \in Nat /\ SpanWords(s) = {w \in Word : w[1] = s}
      /\ class \in [Span -> Class] /\ aux \in [Span -> 0..SpanLimit]
      /\ free \in [Small -> SUBSET SUBSET Word] /\ mem \in [Word -> Word \cup {Nil}]
  BY <1>1, WordPairs DEF TypeOK, Class
<1>5. stays \subseteq Word /\ goes \subseteq Word /\ \A w \in goes : w[1] = s
  BY <1>4
<1>6. \A w \in Word : w[1] = s => (w \in goes <=> w \notin marked /\ w \notin hold[c])
  BY <1>4
<1>7. c # Large /\ c # LargeMid /\ c # Unassigned /\ largeKeep # "drop"
  BY <1>1, <1>2, <1>3, ClassesApart DEF Shape
<1> HIDE DEF goes
<1>8. \A d \in Small : \A w \in hold[d] : w \in Word /\ w[1] \in Span /\ (w[1] = s => d = c)
  BY <1>1, <1>3, WordPairs DEF Windows, TypeOK
<1>9. empties => \A d \in Small : \A w \in hold[d] : w[1] # s
  BY <1>4, <1>8
<1> HIDE DEF stays, empties
<1>10. \A b \in objs : b[1] = s => (b \in goes <=> ~Survives(b))
  <2> SUFFICES ASSUME NEW b \in objs, b[1] = s PROVE b \in goes <=> ~Survives(b)
    OBVIOUS
  <2>1. b \in Word /\ ~(s < s)
    BY <1>1, <1>4 DEF TypeOK
  <2>2. Survives(b) <=> b \in marked \/ b \in hold[c]
    BY <1>2, <1>3, <1>8, <2>1 DEF Survives
  <2> QED BY <1>6, <2>1, <2>2
<1>11. empties => \A b \in objs' : b[1] # s
  <2> SUFFICES ASSUME empties, NEW b \in objs, b[1] = s PROVE b \in goes
    BY <1>3
  <2>1. b \in Word
    BY <1>1 DEF TypeOK
  <2> QED BY <1>4, <2>1 DEF empties, goes
<1>12. \A t \in Span : t # s => class'[t] = class[t]
  BY <1>3, <1>4
<1>13. \A b \in objs : b[1] # s => b \notin goes
  BY <1>5
<1>14. Clean' /\ Ahead' /\ Tricolour' /\ \E gone : SweepsOver(s, gone)
  <2> DEFINE gone == objs \cap goes
  <2>1. objs' = objs \ gone /\ doomed' = doomed \ gone /\ objs \ gone = objs'
    BY <1>1, <1>3 DEF TypeOK
  <2>2. \A b \in gone : b[1] = s
    BY <1>5
  <2>3. \A b \in objs : b[1] = s => (b \in gone <=> ~Survives(b))
    BY <1>10
  <2>4. \A b \in objs \ gone : \A w \in Extent(b) : mem'[w] = mem[w]
    <3> SUFFICES ASSUME NEW b \in objs, b \notin goes, NEW w \in Extent(b) PROVE mem'[w] = mem[w]
      OBVIOUS
    <3>1. w \in Word /\ (w[1] = s => w = b)
      <4>1. /\ w \in Word /\ w[1] \in Nat /\ b[1] \in Nat /\ b[1] <= w[1]
            /\ class[b[1]] \in Small => w = b
            /\ class[b[1]] = Large => (w[1] > b[1] => class[w[1]] = LargeMid)
        BY <1>1, ExtentBase, WordPairs DEF TypeOK
      <4>2. CASE class[b[1]] \in Small
        BY <4>1, <4>2
      <4>3. CASE class[b[1]] = Large
        <5>1. w[1] = b[1] \/ w[1] > b[1]
          BY <4>1
        <5> QED BY <1>7, <4>1, <4>3, <5>1
      <4> QED BY <1>1, <4>2, <4>3 DEF Shape
    <3>2. w \notin goes
      BY <1>5, <3>1
    <3> QED BY <1>3, <3>1, <3>2
  <2> HIDE DEF gone
  <2>5. (class'[s] = class[s] /\ aux'[s] = aux[s]) \/ \A b \in objs \ gone : b[1] # s
    BY <1>3, <1>11, <2>1
  <2>6. fresh' = fresh \ {s}
    BY <1>3
  <2>7. SweepsOver(s, gone)
    BY <1>2, <1>3, <1>12, <2>1, <2>2, <2>3, <2>4, <2>5, <2>6 DEF SweepsOver
  <2> QED BY <1>3, <2>7, SweepKeeps
<1>15. TypedHeap'
  <2>1. class' \in [Span -> Class]
    BY <1>3, <1>4 DEF Class
  <2>2. objs' \subseteq Word /\ doomed' \subseteq objs'
    BY <1>1, <1>3 DEF TypeOK
  <2>3. sweepCursor' \in 0..SpanLimit
    BY <1>2, <1>3, SweepStands
  <2>4. mem' \in [Word -> Word \cup {Nil}]
    BY <1>3, <1>4
  <2>5. free' \in [Small -> SUBSET SUBSET Word]
    <3>1. RunsIn(s, goes) \subseteq SUBSET Word
      BY <1>5, RunWords
    <3> QED BY <1>3, <1>4, <3>1
  <2> QED BY <1>1, <1>3, <2>1, <2>2, <2>3, <2>4, <2>5 DEF TypeOK, TypedHeap
<1>16. Shape'
  <2>1. \A t \in Span : t # s => (Owned(t)' <=> Owned(t))
    <3> SUFFICES ASSUME NEW t \in Span, t # s PROVE Owned(t)' <=> Owned(t)
      OBVIOUS
    <3>1. aux[t] < t => aux[t] \in Span
      <4>1. t \in Nat /\ t < SpanLimit /\ SpanLimit \in Nat /\ aux[t] \in Nat
        BY <1>4, WordPairs, CollectorAssumption
      <4> QED BY <4>1, WordPairs
    <3>2. aux[t] \in Span => (class'[aux[t]] = Large <=> class[aux[t]] = Large)
      BY <1>3, <1>4, <1>7, <1>12, ClassesApart
    <3> QED BY <1>3, <3>1, <3>2 DEF Owned
  <2>2. \A t \in Span : ~Orphan(t) /\ (class'[t] = LargeMid <=> class[t] = LargeMid)
                        /\ (class'[t] = Large <=> class[t] = Large)
    BY <1>3, <1>4, <1>7, <1>12, ClassesApart DEF Orphan
  <2>3. \A t \in Span : t >= covered => class'[t] = Unassigned
    BY <1>1, <1>3, <1>4, <1>12 DEF Shape
  <2>4. ASSUME NEW h \in Span, class'[h] = Large
        PROVE  /\ aux[h] >= 1 /\ h + aux[h] <= covered /\ First(h) \in objs'
               /\ \A t \in (h + 1)..(h + aux[h] - 1) : class'[t] = LargeMid /\ aux[t] = h
    <3>1. class[h] = Large /\ h # s
      BY <1>7, <2>2, <2>4
    <3>2. First(h) \in objs'
      BY <1>1, <1>3, <1>13, <3>1, WordPairs DEF Shape
    <3>3. aux[h] >= 1 /\ h + aux[h] <= covered
      BY <1>1, <3>1 DEF Shape
    <3>4. ASSUME NEW t \in (h + 1)..(h + aux[h] - 1) PROVE class'[t] = LargeMid /\ aux[t] = h
      <4>1. class[t] = LargeMid /\ aux[t] = h
        BY <1>1, <3>1 DEF Shape
      <4>2. t \in Span
        <5>1. h \in Nat /\ aux[h] \in Nat /\ covered \in Nat /\ covered <= SpanLimit /\ SpanLimit \in Nat
          BY <1>1, <1>4, WordPairs, CollectorAssumption DEF TypeOK
        <5>2. t \in Nat /\ t < SpanLimit
          BY <3>3, <5>1
        <5> QED BY <5>2, WordPairs
      <4> QED BY <2>2, <4>1, <4>2
    <3> QED BY <3>2, <3>3, <3>4
  <2>5. ASSUME NEW t \in Span, class'[t] = LargeMid PROVE Owned(t)'
    BY <1>1, <1>7, <2>1, <2>2, <2>5 DEF Shape
  <2>6. ASSUME NEW b \in objs' PROVE class'[b[1]] \in Small \/ (class'[b[1]] = Large /\ b[2] = 0)
    <3>1. b \in objs /\ b[1] \in Span
      BY <1>1, <1>3, WordPairs DEF TypeOK
    <3>2. class'[b[1]] = class[b[1]]
      BY <1>3, <1>11, <1>12, <3>1
    <3> QED BY <1>1, <3>1, <3>2 DEF Shape
  <2> QED BY <1>3, <1>7, <2>3, <2>4, <2>5, <2>6 DEF Shape
<1>17. CASE empties
  <2>1. class' = [class EXCEPT ![s] = Unassigned] /\ UNCHANGED <<mem, free>>
    BY <1>3, <1>17
  <2>2. objs' \subseteq objs
    BY <1>3
  <2>3. Freshness' /\ Stock' /\ Windows'
    BY <1>2, <1>3, <1>9, <1>11, <1>17, <2>1, <2>2, SpanGoes
  <2> QED BY <1>2, <1>14, <1>15, <1>16, <2>3 DEF HeapSound
<1>18. CASE ~empties
  <2>1. /\ class' = class /\ mem' = [w \in Word |-> IF w \in goes THEN Nil ELSE mem[w]]
        /\ \A d \in Small : free'[d] = IF d = c THEN free[d] \cup RunsIn(s, goes) ELSE free[d]
    BY <1>3, <1>4, <1>18
  <2>2. Freshness'
    <3>1. \A t \in fresh : t \in Nat /\ t >= s /\ t # s
      BY <1>1, <1>2, <1>3, WordPairs DEF TypeOK, Freshness
    <3>2. \A t \in fresh : t >= s + 1
      BY <1>4, <3>1
    <3>3. \A t \in fresh : aux[t] \in Nat /\ (aux[t] >= s + 1 => aux[t] >= s)
      BY <1>1, <1>4 DEF TypeOK
    <3> QED BY <1>1, <1>2, <1>3, <2>1, <3>2, <3>3 DEF Freshness
  <2>3. ASSUME NEW d \in Small, NEW w, w \in cur[d] \/ \E B \in free[d] : w \in B
        PROVE  w \in Word /\ w[1] \in Nat /\ mem'[w] = Nil /\ class[w[1]] = d /\ w \notin objs'
               /\ w \notin goes
    <3>1. w \in Word /\ mem[w] = Nil /\ class[w[1]] = d /\ w \notin objs /\ w[1] \in Nat
      BY <1>1, <2>3, WordPairs DEF TypeOK, Stock
    <3>2. w \notin goes
      <4> SUFFICES ASSUME w[1] = s PROVE w \in hold[d] /\ d = c
        BY <1>5, <1>6, <3>1
      <4>1. ~(w[1] < s)
        BY <1>4
      <4> QED BY <1>1, <1>2, <1>3, <2>3, <3>1, <4>1 DEF Windows
    <3> QED BY <1>3, <2>1, <3>1, <3>2
  <2>4. \A R \in RunsIn(s, goes) : \A w \in R :
           w \in Word /\ w[1] = s /\ mem'[w] = Nil /\ w \notin objs' /\ w \in goes
    BY <1>3, <1>5, <2>1, RunWords
  <2>5. Stock'
    <3> SUFFICES ASSUME NEW d \in Small
                 PROVE  /\ \A w \in cur[d] : mem'[w] = Nil /\ class[w[1]] = d /\ w \notin objs'
                        /\ \A B \in free'[d] :
                              /\ \A w \in B : mem'[w] = Nil /\ class[w[1]] = d /\ w \notin objs'
                              /\ B \cap cur[d] = {}
                              /\ \A C \in free'[d] : B # C => B \cap C = {}
      BY <1>3, <2>1 DEF Stock
    <3>1. \A w \in cur[d] : mem'[w] = Nil /\ class[w[1]] = d /\ w \notin objs' /\ w \notin goes
      BY <2>3
    <3>2. \A B \in free[d] : /\ \A w \in B : /\ mem'[w] = Nil /\ class[w[1]] = d
                                             /\ w \notin objs' /\ w \notin goes
                             /\ B \cap cur[d] = {}
                             /\ \A C \in free[d] : B # C => B \cap C = {}
      BY <1>1, <2>3 DEF Stock
    <3>3. \A R \in RunsIn(s, goes), T \in RunsIn(s, goes) : R # T => R \cap T = {}
      BY RunsApart
    <3>4. CASE d # c
      BY <2>1, <3>1, <3>2, <3>4
    <3>5. CASE d = c
      <4>1. free'[d] = free[d] \cup RunsIn(s, goes)
        BY <2>1, <3>5
      <4>2. \A R \in RunsIn(s, goes) : /\ \A w \in R : mem'[w] = Nil /\ class[w[1]] = d /\ w \notin objs'
                                       /\ R \cap cur[d] = {}
                                       /\ \A B \in free[d] : R \cap B = {}
        BY <2>4, <3>1, <3>2, <3>5
      <4> QED BY <3>1, <3>2, <3>3, <4>1, <4>2
    <3> QED BY <3>4, <3>5
  <2>6. Windows'
    <3> SUFFICES ASSUME NEW d \in Small
                 PROVE  /\ \A B \in free'[d] : \A w \in B : w[1] < s + 1 \/ w[1] \in fresh
                        /\ \A w \in cur[d] : w \in hold[d] \/ w[1] < s + 1 \/ w[1] \in fresh
                        /\ \A w \in hold[d] : class[w[1]] = d
      BY <1>3, <2>1 DEF Windows
    <3>1. \A B \in free[d] : \A w \in B : w[1] < s + 1 \/ w[1] \in fresh
      <4>1. \A B \in free[d] : \A w \in B : w[1] \in Nat /\ (w[1] < s \/ w[1] \in fresh)
        BY <1>1, <1>2, <1>3, <2>3 DEF Windows
      <4> QED BY <1>4, <4>1
    <3>2. \A w \in cur[d] : w \in hold[d] \/ w[1] < s + 1 \/ w[1] \in fresh
      <4>1. \A w \in cur[d] : w[1] \in Nat /\ (w \in hold[d] \/ w[1] < s \/ w[1] \in fresh)
        BY <1>1, <1>2, <1>3, <2>3 DEF Windows
      <4> QED BY <1>4, <4>1
    <3>3. \A R \in RunsIn(s, goes) : \A w \in R : w[1] < s + 1
      BY <1>4, <2>4
    <3> QED BY <1>1, <1>3, <2>1, <3>1, <3>2, <3>3 DEF Windows
  <2> QED BY <1>2, <1>14, <1>15, <1>16, <2>2, <2>5, <2>6 DEF HeapSound
<1> QED BY <1>17, <1>18

\* The sweep has passed every span: no mark, no fresh flag and no old garbage is left.
LEMMA FinishSound == ASSUME CollectorInv, FinishSweep PROVE HeapSound'
<1>1. TypeOK /\ Flow /\ Shape /\ Freshness /\ Stock /\ Windows /\ Clean /\ Ahead /\ Tricolour
  BY DEF CollectorInv
<1>2. /\ UNCHANGED <<mem, roots, class, aux, fresh, covered, cur, free, sweepCursor, largeKeep,
                     marked, objs, doomed>>
      /\ pc = "sweep" /\ sweepCursor >= covered /\ phase' = "idle"
      /\ hold' = [c \in Small |-> {}]
  BY DEF FinishSweep, memory, table, marks, sweeper, ghosts
<1>3. phase = "sweep" /\ sweepCursor \in Nat /\ covered \in Nat
  BY <1>1, <1>2, CollectorAssumption DEF Flow, TypeOK
<1>4. \A b \in objs : b[1] \in Nat /\ b[1] < sweepCursor
  <2> SUFFICES ASSUME NEW b \in objs PROVE b[1] \in Nat /\ b[1] < sweepCursor
    OBVIOUS
  <2>1. b[1] \in Nat /\ b[1] < covered
    BY <1>1, OwnWord, ExtentBase, WordPairs DEF TypeOK
  <2> QED BY <1>2, <1>3, <2>1
<1>5. fresh = {}
  <2> SUFFICES ASSUME NEW t \in fresh PROVE FALSE
    OBVIOUS
  <2>1. t \in Span /\ t \in Nat /\ t >= sweepCursor /\ class[t] # Unassigned
    BY <1>1, WordPairs DEF TypeOK, Freshness
  <2>2. t >= covered
    BY <1>2, <1>3, <2>1
  <2> QED BY <1>1, <2>1, <2>2 DEF Shape
<1>6. marked = {}
  <2> SUFFICES ASSUME NEW b \in marked PROVE FALSE
    OBVIOUS
  <2>1. b \in objs /\ b[1] >= sweepCursor
    BY <1>1, <1>3, MarkedObjects DEF Ahead
  <2> QED BY <1>3, <1>4, <2>1
<1>7. doomed = {}
  BY <1>1, <1>3, <1>4 DEF Ahead, Survives, TypeOK
<1>8. largeKeep # "drop"
  BY <1>1, <1>2, <1>3 DEF Shape
<1>9. \A a : Extent(a)' = Extent(a)
  BY <1>2 DEF Extent
<1>10. Shape'
  BY <1>1, <1>2, <1>8 DEF Shape, Owned, Orphan
<1>11. Freshness'
  BY <1>2, <1>5 DEF Freshness
<1>12. Stock'
  BY <1>1, <1>2 DEF Stock
<1>13. Windows'
  BY <1>2 DEF Windows
<1>14. Clean'
  BY <1>1, <1>2, <1>9 DEF Clean, Grounded
<1>15. Ahead'
  BY <1>2, <1>6, <1>7 DEF Ahead
<1>16. Tricolour'
  BY <1>2 DEF Tricolour
<1>17. TypedHeap'
  BY <1>1, <1>2 DEF TypeOK, TypedHeap, Class
<1> QED BY <1>10, <1>11, <1>12, <1>13, <1>14, <1>15, <1>16, <1>17 DEF HeapSound
-----------------------------------------------------------------------------
(* Types of the rest *)

\* The types of the marker's variables, and of control.
TypedMarks ==
    /\ marked \subseteq Word /\ gray \subseteq marked /\ grayOvf \in BOOLEAN
    /\ partial \subseteq Word /\ pend \subseteq Span
    /\ rescanOwed \in BOOLEAN /\ rescanCursor \in 0..SpanLimit

TypedControl ==
    /\ steps \in 0..(MarkLimit + 1)
    /\ bitten \in BOOLEAN /\ left \in BOOLEAN /\ forced \in BOOLEAN /\ valved \in BOOLEAN
    /\ pc \in {"run", "find", "partial", "dirty", "drain", "rescan", "attempt",
               "verdict", "sweep", "stepped"}
    /\ ret \in {"run", "dirty", "rescan", "attempt", "verdict"}
    /\ job \in {"none", "step", "ahead", "collect"}
    /\ req \in {Nil} \cup [reg : Reg, class : Small \cup {Large}, n : 1..SpanLimit]
    /\ armed \in BOOLEAN /\ lost \in BOOLEAN /\ scheduled \in BOOLEAN
    /\ dirty \subseteq Span

\* The type invariant, in the parts the steps disturb.
LEMMA TypeParts == TypeOK <=> TypedHeap /\ TypedMarks /\ TypedControl /\ spanCursor \in 0..SpanLimit
BY DEF TypeOK, TypedHeap, TypedMarks, TypedControl, Class

\* Every step keeps the heap in order.
LEMMA HeapStep == ASSUME CollectorInv, Next PROVE HeapSound'
<1>1. ASSUME Marks \/ Waits PROVE HeapSound'
  <2>1. UNCHANGED heapVars
    BY <1>1, HeapStill
  <2>2. Tricolour' /\ (marked' = marked \/ (phase = "mark" /\ Spread))
    <3>1. CASE Marks
      BY <3>1, MarkerEffect, MarksFlow DEF MarkerKeeps, CollectorInv
    <3>2. CASE Waits
      BY <3>2, WaitsTricolour
    <3> QED BY <1>1, <3>1, <3>2
  <2>3. Shape' /\ Freshness' /\ Stock' /\ Windows' /\ Clean' /\ Ahead'
    BY <2>1, <2>2, StillKept
  <2>4. TypedHeap'
    <3>1. TypedHeap
      BY TypeParts DEF CollectorInv
    <3> QED BY <2>1, <3>1 DEF TypedHeap, heapVars
  <2> QED BY <2>2, <2>3, <2>4 DEF HeapSound
<1>2. CASE SweepSpan
  BY <1>2, UnassignedSound, FreshSound, LargeSound, SmallSound DEF SweepSpan
<1> QED BY <1>1, <1>2, LoadSound, StoreSound, DeriveSound, ForgetSound, HandedOut, FindSound,
           GrowSound, BeginsSound, VerdictSound, FinishSound, CollectorCases

\* The marker's queues stay queues of words and spans.
LEMMA MarksTyped == ASSUME CollectorInv, Next PROVE TypedMarks'
<1>1. TypeOK /\ Flow /\ TypedMarks
  BY TypeParts DEF CollectorInv
<1>2. {} \subseteq Word /\ {} \subseteq Span /\ FALSE \in BOOLEAN /\ TRUE \in BOOLEAN /\ 0 \in 0..SpanLimit
  BY CollectorAssumption
<1>3. UNCHANGED <<marks, queues>> => TypedMarks'
  BY <1>1 DEF TypedMarks, marks, queues
<1>4. \A r, p \in Reg : Load(r, p) \/ Store(p, r) \/ Derive(r, p) => TypedMarks'
  BY <1>3 DEF Load, Store, Derive, Collectors
<1>5. \A r \in Reg : Forget(r) => TypedMarks'
  BY <1>3 DEF Forget, Collectors
<1>6. \A r \in Reg, c \in Small : HandsOut(r, c) => TypedMarks'
  BY <1>3 DEF HandsOut
<1>7. FindSpan \/ GrowHeap \/ FinishSweep => TypedMarks'
  BY <1>3 DEF FindSpan, GrowHeap, FinishSweep
<1>8. CASE Begins
  <2>1. gray' \subseteq marked' /\ marked' \subseteq Word /\ grayOvf' \in BOOLEAN
    BY <1>8, BeginsSound
  <2>2. partial' = {} /\ pend' = {} /\ rescanOwed' \in {TRUE, FALSE} /\ rescanCursor' = 0
    BY <1>8 DEF Begins, Start, Collect, StartCollection
  <2> QED BY <1>2, <2>1, <2>2 DEF TypedMarks
<1>9. CASE Marks
  <2>1. MarkerKeeps
    BY <1>9, MarkerEffect
  <2> QED BY <1>1, <2>1 DEF MarkerKeeps, Spread, TypedMarks
<1>10. CASE Waits
  <2>1. UNCHANGED marks /\ UNCHANGED partial
    BY <1>10 DEF Waits, AsksSpan, SweepAhead, OutOfMemory, Resumes, Collect, HostStep,
                SweepPauses, Return, SaveAndLoad, queues
  <2>2. pend' \subseteq Span /\ rescanOwed' \in BOOLEAN /\ rescanCursor' \in 0..SpanLimit
    <3>1. CASE UNCHANGED queues
      BY <1>1, <3>1 DEF TypedMarks, queues
    <3>2. CASE Resumes
      BY <1>1, <1>2, <3>2 DEF Resumes, Collect, OweRescan, TypedMarks
    <3>3. CASE HostStep
      <4>1. dirty \subseteq Span
        BY <1>1 DEF TypeOK
      <4>2. UNCHANGED <<pend, rescanOwed, rescanCursor>> \/ Ingest
        BY <3>3 DEF HostStep
      <4> QED BY <1>1, <1>2, <4>1, <4>2 DEF Ingest, OweRescan, TypedMarks
    <3> QED BY <1>10, <3>1, <3>2, <3>3 DEF Waits, AsksSpan, SweepAhead, OutOfMemory, SweepPauses,
                Return, SaveAndLoad
  <2> QED BY <1>1, <2>1, <2>2 DEF TypedMarks, marks
<1>11. CASE VerdictYes
  <2>1. UNCHANGED <<marks, partial, rescanOwed, rescanCursor>> /\ pend' = {}
    BY <1>11 DEF VerdictYes
  <2> QED BY <1>1, <1>2, <2>1 DEF TypedMarks, marks
<1>12. CASE SweepSpan
  <2>1. gray' = gray /\ grayOvf' = grayOvf /\ UNCHANGED queues
    BY <1>12 DEF SweepSpan, Sweeping
  <2>2. marked' \subseteq marked
    BY <1>12 DEF SweepSpan, SweepUnassigned, SweepFresh, SweepLarge, SweepSmall, ClearSpanMarks
  <2>3. gray = {}
    BY <1>1, <1>12 DEF SweepSpan, Flow
  <2> QED BY <1>1, <2>1, <2>2, <2>3 DEF TypedMarks, queues
<1> QED BY <1>4, <1>5, <1>6, <1>7, <1>8, <1>9, <1>10, <1>11, <1>12, CollectorCases

\* The collector's, the allocator's and the host's control variables keep their types.
LEMMA ControlTyped == ASSUME CollectorInv, Next PROVE TypedControl'
<1>1. TypeOK /\ Flow /\ TypedControl
  BY TypeParts DEF CollectorInv
<1>2. UNCHANGED <<steps, bitten, control, request, armed, lost, scheduled>> /\ dirty' \subseteq Span
        => TypedControl'
  BY <1>1 DEF TypedControl, control, request
<1>3. ASSUME NEW D, D \subseteq Span, Written(D) PROVE dirty' \subseteq Span
  BY <1>1, <1>3 DEF Written, TypeOK
<1>4. \A w \in Word : w[1] \in Span
  BY WordPairs
<1>5. ASSUME NEW r \in Reg, NEW p \in Reg, Load(r, p) \/ Store(p, r) \/ Derive(r, p) PROVE TypedControl'
  <2>1. UNCHANGED <<steps, bitten, control, request, armed, lost, scheduled>>
    BY <1>5 DEF Load, Store, Derive, Collectors
  <2>2. dirty' \subseteq Span
    <3>1. CASE Store(p, r)
      <4>1. roots[p] \in Word /\ Written({roots[p][1]})
        BY <1>1, <3>1 DEF Store, TypeOK
      <4>2. {roots[p][1]} \subseteq Span
        BY <1>4, <4>1
      <4> QED BY <1>3, <4>1, <4>2
    <3>2. CASE Load(r, p) \/ Derive(r, p)
      BY <1>1, <3>2 DEF Load, Derive, TypeOK
    <3> QED BY <1>5, <3>1, <3>2
  <2> QED BY <1>2, <2>1, <2>2
<1>6. ASSUME NEW r \in Reg, Forget(r) PROVE TypedControl'
  BY <1>1, <1>2, <1>6 DEF Forget, Collectors, TypeOK
<1>7. ASSUME NEW r \in Reg, NEW c \in Small, HandsOut(r, c) PROVE TypedControl'
  <2>1. UNCHANGED <<steps, bitten, control, request, armed, lost, scheduled>>
    BY <1>7 DEF HandsOut
  <2>2. dirty' \subseteq Span
    <3>1. CASE dirty' = dirty
      BY <1>1, <3>1 DEF TypeOK
    <3>2. CASE \E run \in free[c] : Written({w[1] : w \in run})
      <4>1. PICK run \in free[c] : Written({w[1] : w \in run})
        BY <3>2
      <4>2. run \subseteq Word
        BY <1>1 DEF TypeOK
      <4>3. {w[1] : w \in run} \subseteq Span
        BY <1>4, <4>2
      <4> QED BY <1>3, <4>1, <4>3
    <3> QED BY <1>7, <3>1, <3>2 DEF HandsOut
  <2> QED BY <1>2, <2>1, <2>2
<1>8. CASE FindSpan
  <2>1. UNCHANGED <<steps, bitten, ret, left, forced, job, valved, armed, lost, scheduled>>
        /\ pc' = "run" /\ req' = Nil
    BY <1>8 DEF FindSpan
  <2>2. dirty' \subseteq Span
    <3>1. PICK s \in Found : Claim(s)
      BY <1>8 DEF FindSpan
    <3>2. /\ s \in Span /\ s + req.n <= covered /\ req.n \in 1..SpanLimit
      BY <1>1, <1>8, <3>1, FoundUnassigned DEF FindSpan, Flow, Request
    <3>3. CASE req.class = Large
      <4> DEFINE S == s..(s + req.n - 1)
      <4>1. Written(S)
        BY <3>1, <3>3 DEF Claim
      <4>2. S \subseteq Span
        <5>1. /\ s \in Nat /\ req.n \in Nat /\ covered \in Nat /\ covered <= SpanLimit
              /\ SpanLimit \in Nat
          BY <1>1, <3>2, WordPairs, CollectorAssumption DEF TypeOK
        <5> QED BY <3>2, <5>1 DEF Span
      <4> HIDE DEF S
      <4> QED BY <1>3, <4>1, <4>2
    <3>4. CASE req.class # Large
      <4>1. req.class \in Small
        BY <1>1, <1>8, <3>4 DEF FindSpan, Flow, Request
      <4>2. PICK run, last \in IF free[req.class] = {} THEN {SpanWords(s)} ELSE free[req.class] :
               Written({s} \cup {w[1] : w \in run \cup last})
        BY <3>1, <3>4 DEF Claim, NextRun
      <4>3. SpanWords(s) \subseteq Word
        BY <3>2, WordPairs
      <4>4. run \subseteq Word /\ last \subseteq Word
        BY <1>1, <4>1, <4>2, <4>3 DEF TypeOK
      <4>5. {s} \cup {w[1] : w \in run \cup last} \subseteq Span
        BY <1>4, <3>2, <4>4
      <4> QED BY <1>3, <4>2, <4>5
    <3> QED BY <3>3, <3>4
  <2> QED BY <1>1, <2>1, <2>2 DEF TypedControl
<1>9. CASE GrowHeap
  BY <1>1, <1>2, <1>9 DEF GrowHeap, host, TypeOK
<1>10. 0 \in 0..(MarkLimit + 1) /\ FALSE \in BOOLEAN /\ TRUE \in BOOLEAN /\ MarkLimit \in Nat
  BY CollectorAssumption
<1>11. CASE Begins
  <2>1. steps' = 0 /\ bitten' = FALSE /\ phase = "idle"
    BY <1>11 DEF Begins, Start, Collect, StartCollection
  <2>2. CASE Start
    BY <1>1, <1>10, <2>1, <2>2 DEF Start, TypedControl, control, request
  <2>3. CASE Collect
    <3>1. UNCHANGED <<ret, forced, req, host>> /\ job' = "collect" /\ left' = TRUE /\ pc' = "partial"
          /\ (valved' = valved \/ valved' = TRUE)
      BY <2>1, <2>3 DEF Collect
    <3> QED BY <1>1, <1>10, <2>1, <3>1 DEF TypedControl, host
  <2> QED BY <1>11, <2>2, <2>3 DEF Begins
<1>12. CASE Marks
  <2>1. /\ UNCHANGED <<phase, job, armed, req, forced, valved, bitten, steps, host>>
        /\ left' \in BOOLEAN
        /\ pc' \in MarkStage \cup {"stepped"}
        /\ ret' \in {"run", "dirty", "rescan", "attempt", "verdict"}
    BY <1>1, <1>12, MarksFlow
  <2> QED BY <1>1, <2>1 DEF TypedControl, MarkStage, host
<1>13. CASE Waits
  <2>1. CASE AsksSpan
    <3>1. /\ UNCHANGED <<steps, bitten, ret, left, forced, job, host>>
          /\ pc' = "find" /\ valved' = FALSE
          /\ req' \in [reg : Reg, class : Small \cup {Large}, n : 1..SpanLimit]
      BY <2>1 DEF AsksSpan
    <3> QED BY <1>1, <1>10, <3>1 DEF TypedControl, host
  <2>2. CASE SweepAhead
    BY <1>1, <1>10, <2>2 DEF SweepAhead, TypedControl, request, host
  <2>3. CASE OutOfMemory
    BY <1>1, <2>3 DEF OutOfMemory, TypedControl, host
  <2>4. CASE Resumes
    <3>1. /\ UNCHANGED <<steps, bitten, ret, forced, req, host>> /\ job' = "collect" /\ left' = TRUE
          /\ pc' \in {"sweep", "partial"} /\ (valved' = valved \/ valved' = TRUE)
      BY <2>4 DEF Resumes, Collect
    <3> QED BY <1>1, <1>10, <3>1 DEF TypedControl, host
  <2>5. CASE HostStep
    <3>1. /\ job' = "step" /\ left' = TRUE /\ lost' = FALSE
          /\ (dirty' = dirty \/ dirty' = {}) /\ UNCHANGED <<ret, req, valved, armed, scheduled>>
          /\ pc' \in {"stepped", "sweep", "dirty", "partial"}
      BY <2>5 DEF HostStep, request
    <3>2. bitten' \in BOOLEAN
      BY <1>1, <1>10, <2>5 DEF HostStep, TypedControl
    <3>3. steps' \in 0..(MarkLimit + 1)
      <4>1. steps' = steps \/ (~(steps > MarkLimit) /\ steps' = steps + 1)
        BY <2>5 DEF HostStep
      <4>2. steps \in 0..(MarkLimit + 1)
        BY <1>1 DEF TypedControl
      <4> QED BY <1>10, <4>1, <4>2
    <3>4. forced' \in BOOLEAN
      <4>1. forced \in BOOLEAN
        BY <1>1 DEF TypedControl
      <4>2. forced' = forced \/ forced' = TRUE \/ forced' = ~MayYield(steps')
        BY <2>5 DEF HostStep
      <4>3. (~MayYield(steps')) \in BOOLEAN
        BY DEF MayYield
      <4> QED BY <4>1, <4>2, <4>3
    <3> QED BY <1>1, <1>10, <3>1, <3>2, <3>3, <3>4 DEF TypedControl
  <2>6. CASE SweepPauses
    BY <1>1, <2>6 DEF SweepPauses, TypedControl, request, host
  <2>7. CASE Return
    <3>1. /\ UNCHANGED <<steps, bitten, ret, forced, req, valved, lost>>
          /\ pc' \in {"find", "run"} /\ job' = "none" /\ left' = FALSE
          /\ (dirty' = dirty \/ dirty' = {})
      BY <2>7 DEF Return, request
    <3>2. armed' \in BOOLEAN /\ scheduled' \in BOOLEAN
      <4>1. armed' = armed \/ armed' = (phase = "mark")
        BY <2>7 DEF Return
      <4>2. scheduled' = scheduled \/ scheduled' = (phase # "idle")
        BY <2>7 DEF Return
      <4>3. armed \in BOOLEAN /\ scheduled \in BOOLEAN
        BY <1>1 DEF TypedControl
      <4> QED BY <4>1, <4>2, <4>3
    <3> QED BY <1>1, <1>10, <3>1, <3>2 DEF TypedControl
  <2>8. CASE SaveAndLoad
    BY <1>1, <1>10, <2>8 DEF SaveAndLoad, TypedControl, control, request
  <2> QED BY <1>13, <2>1, <2>2, <2>3, <2>4, <2>5, <2>6, <2>7, <2>8 DEF Waits
<1>14. CASE VerdictYes
  <2>1. /\ UNCHANGED <<steps, bitten, ret, job, request, host>>
        /\ forced' = FALSE /\ left' = (left \/ forced) /\ pc' \in {"sweep", "stepped"}
    BY <1>14 DEF VerdictYes
  <2>2. left' \in BOOLEAN
    BY <2>1
  <2> QED BY <1>1, <1>10, <2>1, <2>2 DEF TypedControl, request, host
<1>15. CASE SweepSpan
  <2>1. UNCHANGED <<steps, bitten, pc, ret, forced, job, request, host>>
    BY <1>15 DEF SweepSpan, Sweeping
  <2>2. left' \in BOOLEAN
    <3>1. Charge \/ left' = left
      BY <1>15 DEF SweepSpan, SweepUnassigned, SweepFresh, SweepLarge, SweepSmall
    <3> QED BY <1>1, <3>1, ChargeFlow DEF TypedControl
  <2> QED BY <1>1, <2>1, <2>2 DEF TypedControl, request, host
<1>16. CASE FinishSweep
  BY <1>1, <1>16 DEF FinishSweep, TypedControl, request, host
<1> QED BY <1>5, <1>6, <1>7, <1>8, <1>9, <1>11, <1>12, <1>13, <1>14, <1>15, <1>16, CollectorCases

\* The span search starts within the heap: past what was found last, or afresh
\* when a sweep has ended.
LEMMA CursorTyped == ASSUME CollectorInv, Next PROVE spanCursor' \in 0..SpanLimit
<1>1. TypeOK /\ Flow /\ spanCursor \in 0..SpanLimit /\ 0 \in 0..SpanLimit
  BY CollectorAssumption DEF CollectorInv, TypeOK
<1>2. CASE FindSpan
  <2>1. PICK s \in Found : Claim(s)
    BY <1>2 DEF FindSpan
  <2>2. s \in Span /\ s + req.n <= covered /\ req.n \in 1..SpanLimit
    BY <1>1, <1>2, <2>1, FoundUnassigned DEF FindSpan, Flow, Request
  <2>3. covered \in 1..SpanLimit /\ SpanLimit \in Nat /\ spanCursor' = s + req.n
    BY <1>1, <2>1, CollectorAssumption DEF TypeOK, Claim
  <2> QED BY <2>2, <2>3 DEF Span
<1>3. CASE FinishSweep
  BY <1>1, <1>3 DEF FinishSweep
<1>4. CASE GrowHeap
  BY <1>1, <1>4 DEF GrowHeap
<1>5. CASE SweepSpan
  BY <1>1, <1>5 DEF SweepSpan, Sweeping
<1>6. CASE Marks
  BY <1>1, <1>6 DEF Marks, FinishPartial, DrainDirtySpans, DrainGray, RunRescan, Attempt, VerdictNo,
     Marking, table
<1>7. CASE Guest
  BY <1>1, <1>7 DEF Guest, Load, Store, Derive, Forget, Collectors, AllocateSmall, AllocateLarge, table
<1>8. CASE SweepAhead \/ OutOfMemory \/ Start \/ Collect \/ HostStep \/ SweepPauses \/ Return
           \/ SaveAndLoad \/ VerdictYes
  BY <1>1, <1>8 DEF SweepAhead, OutOfMemory, Start, Collect, HostStep, SweepPauses, Return,
     SaveAndLoad, VerdictYes, table
<1> QED BY <1>2, <1>3, <1>4, <1>5, <1>6, <1>7, <1>8 DEF Next, Allocator, Marker, Marks, Sweeper
-----------------------------------------------------------------------------
(* The invariant holds *)

\* Every step keeps the invariant.
LEMMA CollectorStep == ASSUME CollectorInv, Next PROVE CollectorInv'
<1>1. HeapSound' /\ TypedMarks' /\ TypedControl' /\ spanCursor' \in 0..SpanLimit
  BY HeapStep, MarksTyped, ControlTyped, CursorTyped
<1>2. TypeOK'
  BY <1>1, TypeParts DEF HeapSound, TypeOK, TypedHeap, TypedMarks, TypedControl, Class
<1>3. Flow'
  BY FlowStep DEF CollectorInv
<1> QED BY <1>1, <1>2, <1>3 DEF HeapSound, CollectorInv

\* The empty heap is in order.
LEMMA CollectorInit == ASSUME Init PROVE CollectorInv
<1>1. /\ 0 \in 0..SpanLimit /\ 0 \in 0..(MarkLimit + 1) /\ covered \in 1..SpanLimit
      /\ SpanLimit \in Nat /\ FALSE \in BOOLEAN
  BY CollectorAssumption DEF Init
<1>2. TypeOK
  BY <1>1 DEF Init, Idle, TypeOK
<1>3. Flow
  BY DEF Init, Idle, Flow, MarkStage
<1>4. Shape
  BY ClassesApart DEF Init, Idle, Shape
<1>5. Freshness
  BY DEF Init, Idle, Freshness
<1>6. Stock
  BY DEF Init, Idle, Stock
<1>7. Windows
  BY DEF Init, Idle, Windows
<1>8. Clean
  <2>1. Grounded({})
    BY DEF Init, Grounded
  <2> QED BY <2>1 DEF Init, Idle, Clean
<1>9. Ahead
  BY DEF Init, Idle, Ahead
<1>10. Tricolour
  BY DEF Init, Idle, Tricolour
<1> QED BY <1>2, <1>3, <1>4, <1>5, <1>6, <1>7, <1>8, <1>9, <1>10 DEF CollectorInv

\* The invariant is inductive (collect.go and heap.go, all of it together).
THEOREM CollectorInvariance == Spec => []CollectorInv
<1>1. Init => CollectorInv
  BY CollectorInit
<1>2. CollectorInv /\ [Next]_vars => CollectorInv'
  <2>1. ASSUME CollectorInv, Next PROVE CollectorInv'
    BY <2>1, CollectorStep
  <2>2. ASSUME CollectorInv, UNCHANGED vars PROVE CollectorInv'
    <3>1. UNCHANGED heapVars /\ marked' = marked
      BY <2>2 DEF vars, heapVars, memory, table, alloc, marks, sweeper, ghosts
    <3>2. Shape' /\ Freshness' /\ Stock' /\ Windows' /\ Clean' /\ Ahead'
      BY <2>2, <3>1, StillKept
    <3>3. TypeOK'
      BY <2>2 DEF CollectorInv, TypeOK, vars, memory, table, alloc, marks, queues, sweeper,
                  control, request, host, ghosts
    <3>4. Flow'
      BY <2>2 DEF CollectorInv, Flow, vars, table, alloc, marks, queues, sweeper,
                  control, request, host, ghosts
    <3>5. Tricolour'
      <4>1. \A a : Extent(a)' = Extent(a)
        BY <3>1 DEF Extent, heapVars
      <4>2. \A v : Pointee(v)' = Pointee(v)
        BY <3>1 DEF Pointee, Base, heapVars
      <4>3. \A b, w : Owed(b, w)' = Owed(b, w)
        BY <2>2 DEF Owed, vars, marks, queues, control, host
      <4>4. UNCHANGED <<mem, roots, phase, marked, partial, pend, pc, ret>>
        BY <2>2 DEF vars, memory, marks, queues, control
      <4> QED BY <2>2, <4>1, <4>2, <4>3, <4>4 DEF CollectorInv, Tricolour
    <3> QED BY <3>2, <3>3, <3>4, <3>5 DEF CollectorInv
  <2> QED BY <2>1, <2>2
<1> QED BY <1>1, <1>2, PTL DEF Spec

\* Every variable keeps its type; the marker's stack and queues hold words of the heap.
THEOREM CollectorTypes == Spec => []TypeOK
<1>1. CollectorInv => TypeOK
  BY DEF CollectorInv
<1> QED BY <1>1, CollectorInvariance, PTL

\* Nothing the guest can reach is swept, whatever it stores and allocates while the
\* marker and the sweep are under way (collect.go:1478, the write barrier).
THEOREM NoLiveObjectLost == Spec => []NothingLiveLost
<1>1. ASSUME CollectorInv PROVE NothingLiveLost
  <2>1. TypeOK /\ Shape /\ Clean
    BY <1>1 DEF CollectorInv
  <2>2. Grounded(Reachable) /\ Reachable \subseteq objs
    BY <2>1, ReachableGrounded DEF Reachable
  <2>3. ASSUME NEW r \in Reg, roots[r] # Nil PROVE \E o \in HeapObjs : roots[r] \in o
    BY <2>2, <2>3 DEF Grounded, HeapObjs
  <2>4. ASSUME NEW o \in HeapObjs, o \in Heap!Live, NEW w \in o, HeapMem[w] # Nil
        PROVE  \E p \in HeapObjs : HeapMem[w] \in p
    <3>1. PICK b \in objs : o = Extent(b)
      BY DEF HeapObjs
    <3>2. b \in Reachable
      BY <2>4, <3>1 DEF Reachable
    <3>3. HeapMem[w] = mem[w]
      BY <2>1, <3>1, HeapReads
    <3>4. PICK c \in Reachable : mem[w] \in Extent(c)
      BY <2>2, <2>4, <3>1, <3>2, <3>3 DEF Grounded
    <3> QED BY <2>2, <3>3, <3>4 DEF HeapObjs
  <2> QED BY <2>3, <2>4 DEF NothingLiveLost, Heap!NoDangling, HeapObjs, HeapMem
<1> QED BY <1>1, CollectorInvariance, PTL

\* What the allocator may hand out is zero, of its class and nobody's, in one window or
\* run (heap.go:699).
THEOREM StockIsFree == Spec => []FreeBlocksFree
<1>1. ASSUME CollectorInv PROVE FreeBlocksFree
  <2>1. TypeOK /\ Shape /\ Stock
    BY <1>1 DEF CollectorInv
  <2> DEFINE Blocks(c) == free[c] \cup (IF cur[c] = {} THEN {} ELSE {cur[c]})
  <2>2. ASSUME NEW c \in Small, NEW B \in Blocks(c)
        PROVE  /\ \A w \in B : mem[w] = Nil /\ class[w[1]] = c
               /\ \A b \in objs : B \cap Extent(b) = {}
               /\ \A C \in Blocks(c) \ {B} : B \cap C = {}
    <3>1. B \in free[c] \/ B = cur[c]
      BY DEF Blocks
    <3>2. \A w \in B : mem[w] = Nil /\ class[w[1]] = c
      BY <2>1, <3>1 DEF Stock
    <3>3. \A b \in objs : B \cap Extent(b) = {}
      BY <2>1, <3>1, StockApart
    <3>4. ASSUME NEW C \in Blocks(c), C # B PROVE B \cap C = {}
      <4>1. C \in free[c] \/ C = cur[c]
        BY DEF Blocks
      <4> QED BY <2>1, <3>1, <3>4, <4>1 DEF Stock
    <3> QED BY <3>2, <3>3, <3>4
  <2> QED BY <2>2 DEF FreeBlocksFree
<1> QED BY <1>1, CollectorInvariance, PTL

\* A collection leaves no mark and no fresh flag behind (collect.go:1360).
THEOREM NoMarkLeft == Spec => []MarksClear
<1>1. CollectorInv => MarksClear
  BY DEF CollectorInv, MarksClear, Ahead, Freshness
<1> QED BY <1>1, CollectorInvariance, PTL

\* What was garbage when a collection began is gone when it ends.
THEOREM OldGarbageGone == Spec => []GarbageGoes
<1>1. CollectorInv => GarbageGoes
  BY DEF CollectorInv, GarbageGoes, Ahead
<1> QED BY <1>1, CollectorInvariance, PTL
-----------------------------------------------------------------------------
(* The collector keeps the contract of a managed heap *)

\* HeapMem, where it differs from memory.
LEMMA HeapMemAt ==
  ASSUME NEW w \in Word
  PROVE  /\ (\E b \in objs : w \in Extent(b)) => HeapMem[w] = mem[w]
         /\ (\A b \in objs : w \notin Extent(b)) => HeapMem[w] = Nil
BY DEF HeapMem

\* A function on words is its values.
LEMMA SameMemory ==
  ASSUME NEW f, NEW g, f = [w \in Word |-> f[w]], g = [w \in Word |-> g[w]],
         \A w \in Word : f[w] = g[w]
  PROVE  f = g
OBVIOUS

\* What the steps of ManagedHeap are for this heap.
LEMMA HeapActions ==
  /\ \A r \in Reg :
        (\E w \in Word :
           /\ roots' = [roots EXCEPT ![r] = w]
           /\ \E q \in SUBSET Word : /\ w \in q /\ HeapObjs' = HeapObjs \cup {q}
                                     /\ \A p \in HeapObjs : q \cap p = {}
           /\ UNCHANGED HeapMem)
        => Heap!Allocate(r)
  /\ \A r, p \in Reg :
        /\ UNCHANGED <<HeapObjs, HeapMem>>
        /\ \E o \in HeapObjs : roots[p] \in o
        /\ roots' = [roots EXCEPT ![r] = HeapMem[roots[p]]]
        => Heap!Load(r, p)
  /\ \A r, p \in Reg :
        /\ UNCHANGED <<HeapObjs, roots>>
        /\ \E o \in HeapObjs : roots[p] \in o
        /\ HeapMem' = [HeapMem EXCEPT ![roots[p]] = roots[r]]
        => Heap!Store(p, r)
  /\ \A r, p \in Reg :
        /\ UNCHANGED <<HeapObjs, HeapMem>>
        /\ \E o \in HeapObjs : roots[p] \in o /\ \E w \in o : roots' = [roots EXCEPT ![r] = w]
        => Heap!Derive(r, p)
  /\ \A r \in Reg :
        UNCHANGED <<HeapObjs, HeapMem>> /\ roots' = [roots EXCEPT ![r] = Nil] => Heap!Forget(r)
  /\ \A S \in SUBSET HeapObjs :
        /\ UNCHANGED roots /\ HeapObjs' = HeapObjs \ S /\ S \cap Heap!Live = {}
        /\ HeapMem' = [w \in Word |-> IF w \in UNION S THEN Nil ELSE HeapMem[w]]
        => Heap!Reclaim
  /\ UNCHANGED <<HeapObjs, HeapMem, roots>> => UNCHANGED Heap!vars
<1>1. ASSUME NEW r \in Reg, NEW w \in Word, NEW q \in SUBSET Word, w \in q,
             roots' = [roots EXCEPT ![r] = w], HeapObjs' = HeapObjs \cup {q},
             \A p \in HeapObjs : q \cap p = {}, UNCHANGED HeapMem
      PROVE  Heap!Allocate(r)
  <2>1. /\ w \in q
        /\ {Extent(b) : b \in objs}' = {Extent(b) : b \in objs} \cup {q}
        /\ \A p \in {Extent(b) : b \in objs} : q \cap p = {}
    BY <1>1 DEF HeapObjs
  <2>2. \E o \in SUBSET Word :
           /\ w \in o
           /\ {Extent(b) : b \in objs}' = {Extent(b) : b \in objs} \cup {o}
           /\ \A p \in {Extent(b) : b \in objs} : o \cap p = {}
    BY <2>1
  <2> QED BY <1>1, <2>2 DEF Heap!Allocate, HeapMem
<1>2. \A r, p \in Reg :
        /\ UNCHANGED <<HeapObjs, HeapMem>>
        /\ \E o \in HeapObjs : roots[p] \in o
        /\ roots' = [roots EXCEPT ![r] = HeapMem[roots[p]]]
        => Heap!Load(r, p)
  BY DEF Heap!Load, HeapObjs, HeapMem
<1>3. \A r, p \in Reg :
        /\ UNCHANGED <<HeapObjs, roots>>
        /\ \E o \in HeapObjs : roots[p] \in o
        /\ HeapMem' = [HeapMem EXCEPT ![roots[p]] = roots[r]]
        => Heap!Store(p, r)
  BY DEF Heap!Store, HeapObjs, HeapMem
<1>4. \A r, p \in Reg :
        /\ UNCHANGED <<HeapObjs, HeapMem>>
        /\ \E o \in HeapObjs : roots[p] \in o /\ \E w \in o : roots' = [roots EXCEPT ![r] = w]
        => Heap!Derive(r, p)
  BY DEF Heap!Derive, HeapObjs, HeapMem
<1>5. \A r \in Reg :
        UNCHANGED <<HeapObjs, HeapMem>> /\ roots' = [roots EXCEPT ![r] = Nil] => Heap!Forget(r)
  BY DEF Heap!Forget, HeapObjs, HeapMem
<1>6. \A S \in SUBSET HeapObjs :
        /\ UNCHANGED roots /\ HeapObjs' = HeapObjs \ S /\ S \cap Heap!Live = {}
        /\ HeapMem' = [w \in Word |-> IF w \in UNION S THEN Nil ELSE HeapMem[w]]
        => Heap!Reclaim
  BY DEF Heap!Reclaim, HeapObjs, HeapMem
<1>7. UNCHANGED <<HeapObjs, HeapMem, roots>> => UNCHANGED Heap!vars
  BY DEF Heap!vars, HeapObjs, HeapMem
<1> QED BY <1>1, <1>2, <1>3, <1>4, <1>5, <1>6, <1>7

\* A new object over words nobody had is an allocation.
LEMMA AllocateRefines ==
  ASSUME CollectorInv, NEW r \in Reg, NEW b0, NEW v0, Bears(b0, r, v0)
  PROVE  Heap!Allocate(r)
<1>1. TypeOK /\ Shape
  BY DEF CollectorInv
<1> DEFINE o == Extent(b0)'
<1>2. /\ objs' = objs \cup {b0} /\ roots' = [roots EXCEPT ![r] = v0] /\ v0 \in o
      /\ \A w \in o : w \in Word /\ mem'[w] = Nil /\ \A b \in objs : w \notin Extent(b)
      /\ \A b \in objs : Extent(b)' = Extent(b) /\ \A w \in Extent(b) : mem'[w] = mem[w]
  BY DEF Bears
<1>3. HeapObjs' = HeapObjs \cup {o}
  BY <1>2 DEF HeapObjs
<1>4. \A p \in HeapObjs : o \cap p = {}
  BY <1>2 DEF HeapObjs
<1>5. HeapMem' = HeapMem
  <2>1. ASSUME NEW w \in Word PROVE HeapMem'[w] = HeapMem[w]
    <3>1. HeapMem'[w] = IF \E b \in objs' : w \in Extent(b)' THEN mem'[w] ELSE Nil
      BY DEF HeapMem
    <3>2. HeapMem[w] = IF \E b \in objs : w \in Extent(b) THEN mem[w] ELSE Nil
      BY DEF HeapMem
    <3>3. CASE \E b \in objs : w \in Extent(b)
      BY <1>2, <3>1, <3>2, <3>3
    <3>4. CASE ~\E b \in objs : w \in Extent(b)
      <4>1. (\E b \in objs' : w \in Extent(b)') => w \in o
        BY <1>2, <3>4
      <4>2. HeapMem'[w] = Nil
        BY <1>2, <3>1, <4>1
      <4> QED BY <3>2, <3>4, <4>2
    <3> QED BY <3>3, <3>4
  <2>2. HeapMem = [w \in Word |-> HeapMem[w]] /\ HeapMem' = [w \in Word |-> HeapMem'[w]]
    BY DEF HeapMem
  <2> QED BY <2>1, <2>2, SameMemory
<1>6. v0 \in Word /\ o \in SUBSET Word
  BY <1>2
<1> HIDE DEF o
<1>7. \E w \in Word :
         /\ roots' = [roots EXCEPT ![r] = w]
         /\ \E q \in SUBSET Word : /\ w \in q /\ HeapObjs' = HeapObjs \cup {q}
                                   /\ \A p \in HeapObjs : q \cap p = {}
         /\ UNCHANGED HeapMem
  BY <1>2, <1>3, <1>4, <1>5, <1>6
<1> QED BY <1>7, HeapActions

\* While objects and their words stay put, the guest sees the same objects, and its
\* memory is what their words hold.
LEMMA ViewKept ==
  ASSUME UNCHANGED <<class, aux, objs>>
  PROVE  /\ HeapObjs' = HeapObjs /\ \A b : Extent(b)' = Extent(b)
         /\ UNCHANGED mem => HeapMem' = HeapMem
<1>1. \A b : Extent(b)' = Extent(b)
  BY DEF Extent
<1> QED BY <1>1 DEF HeapObjs, HeapMem

\* What a register the guest uses points into.
LEMMA HeldObject ==
  ASSUME CollectorInv, NEW p \in Reg, roots[p] # Nil
  PROVE  \E b \in objs : /\ roots[p] \in Extent(b) /\ roots[p] \in Word /\ Base(roots[p]) = b
                         /\ Extent(b) \in HeapObjs /\ HeapMem[roots[p]] = mem[roots[p]]
<1>1. TypeOK /\ Shape /\ Clean
  BY DEF CollectorInv
<1>2. PICK S \in SUBSET objs : Grounded(S)
  BY <1>1 DEF Clean
<1>3. PICK b \in S : roots[p] \in Extent(b)
  BY <1>2 DEF Grounded
<1>4. b \in objs /\ Base(roots[p]) = b /\ roots[p] \in Word
  BY <1>1, <1>3, ExtentBase
<1>5. HeapMem[roots[p]] = mem[roots[p]]
  BY <1>1, <1>3, <1>4, HeapReads
<1> QED BY <1>3, <1>4, <1>5 DEF HeapObjs

\* A load, a store, a pointer into the middle of an object and a dropped pointer are
\* what the guest was promised of them.
LEMMA GuestRefines ==
  ASSUME CollectorInv, NEW r \in Reg, NEW p \in Reg
  PROVE  /\ Load(r, p) => Heap!Load(r, p)
         /\ Store(p, r) => Heap!Store(p, r)
         /\ Derive(r, p) => Heap!Derive(r, p)
         /\ Forget(r) => Heap!Forget(r)
<1>1. ASSUME Load(r, p) PROVE Heap!Load(r, p)
  <2>1. roots[p] # Nil /\ roots' = [roots EXCEPT ![r] = mem[roots[p]]] /\ UNCHANGED mem
        /\ UNCHANGED <<class, aux, objs>>
    BY <1>1 DEF Load, Collectors, table, ghosts
  <2>2. PICK b \in objs : roots[p] \in Extent(b) /\ Extent(b) \in HeapObjs
                          /\ HeapMem[roots[p]] = mem[roots[p]]
    BY <2>1, HeldObject
  <2>3. UNCHANGED <<HeapObjs, HeapMem>>
    BY <2>1, ViewKept
  <2> QED BY <2>1, <2>2, <2>3, HeapActions
<1>2. ASSUME Store(p, r) PROVE Heap!Store(p, r)
  <2>1. roots[p] # Nil /\ mem' = [mem EXCEPT ![roots[p]] = roots[r]] /\ UNCHANGED roots
        /\ UNCHANGED <<class, aux, objs>>
    BY <1>2 DEF Store, Collectors, table, ghosts
  <2>2. PICK b \in objs : roots[p] \in Extent(b) /\ Extent(b) \in HeapObjs
                          /\ roots[p] \in Word
    BY <2>1, HeldObject
  <2>3. UNCHANGED HeapObjs /\ \A a : Extent(a)' = Extent(a)
    BY <2>1, ViewKept
  <2> DEFINE after == [HeapMem EXCEPT ![roots[p]] = roots[r]]
  <2>4. mem \in [Word -> Word \cup {Nil}]
    BY DEF CollectorInv, TypeOK
  <2>5. HeapMem = [w \in Word |-> HeapMem[w]] /\ HeapMem' = [w \in Word |-> HeapMem'[w]]
    BY DEF HeapMem
  <2>6. ASSUME NEW w \in Word PROVE HeapMem'[w] = after[w]
    <3>1. HeapMem[w] = IF \E c \in objs : w \in Extent(c) THEN mem[w] ELSE Nil
      BY DEF HeapMem
    <3>2. HeapMem'[w] = IF \E c \in objs : w \in Extent(c) THEN mem'[w] ELSE Nil
      BY <2>1, <2>3 DEF HeapMem
    <3>3. after[w] = IF w = roots[p] THEN roots[r] ELSE HeapMem[w]
      BY <2>5
    <3>4. mem'[w] = IF w = roots[p] THEN roots[r] ELSE mem[w]
      BY <2>1, <2>4
    <3> QED BY <2>2, <3>1, <3>2, <3>3, <3>4
  <2>7. after = [w \in Word |-> after[w]]
    BY <2>5
  <2> HIDE DEF after
  <2>8. HeapMem' = after
    BY <2>5, <2>6, <2>7, SameMemory
  <2> QED BY <2>1, <2>2, <2>3, <2>8, HeapActions DEF after
<1>3. ASSUME Derive(r, p) PROVE Heap!Derive(r, p)
  <2>1. roots[p] # Nil /\ (\E w \in Extent(Base(roots[p])) : roots' = [roots EXCEPT ![r] = w])
        /\ UNCHANGED <<mem, class, aux, objs>>
    BY <1>3 DEF Derive, Collectors, table, ghosts
  <2>2. PICK b \in objs : roots[p] \in Extent(b) /\ Extent(b) \in HeapObjs
                          /\ Base(roots[p]) = b
    BY <2>1, HeldObject
  <2>3. UNCHANGED <<HeapObjs, HeapMem>>
    BY <2>1, ViewKept
  <2> QED BY <2>1, <2>2, <2>3, HeapActions
<1>4. ASSUME Forget(r) PROVE Heap!Forget(r)
  <2>1. roots' = [roots EXCEPT ![r] = Nil] /\ UNCHANGED <<mem, class, aux, objs>>
    BY <1>4 DEF Forget, Collectors, table, ghosts
  <2>2. UNCHANGED <<HeapObjs, HeapMem>>
    BY <2>1, ViewKept
  <2> QED BY <2>1, <2>2, HeapActions
<1> QED BY <1>1, <1>2, <1>3, <1>4

\* What the sweep takes at one span, the guest could not reach.
LEMMA SweepRefines ==
  ASSUME CollectorInv, phase = "sweep", NEW gone, SweepsOver(sweepCursor, gone)
  PROVE  Heap!Reclaim
<1>1. TypeOK /\ Shape /\ Clean
  BY DEF CollectorInv
<1> DEFINE taken == {b \in objs : b \in gone}
           S == {Extent(b) : b \in taken}
           after == [w \in Word |-> IF w \in UNION S THEN Nil ELSE HeapMem[w]]
<1>2. /\ objs' = objs \ taken /\ UNCHANGED roots
      /\ \A b \in taken : ~Survives(b)
      /\ \A t \in Span : t # sweepCursor => class'[t] = class[t] /\ aux'[t] = aux[t]
      /\ \/ class'[sweepCursor] = class[sweepCursor] /\ aux'[sweepCursor] = aux[sweepCursor]
         \/ \A b \in objs \ taken : b[1] # sweepCursor
      /\ \A b \in objs \ taken : \A w \in Extent(b) : mem'[w] = mem[w]
  BY DEF SweepsOver
<1>3. ASSUME NEW b \in objs \ taken PROVE Extent(b)' = Extent(b)
  <2>1. b[1] \in Span
    BY <1>1, OwnWord, ExtentBase, WordPairs
  <2>2. class'[b[1]] = class[b[1]] /\ aux'[b[1]] = aux[b[1]]
    BY <1>2, <2>1
  <2> QED BY <2>2 DEF Extent
<1>4. \A b, c \in objs : Extent(b) = Extent(c) => b = c
  BY <1>1, OwnWord, ExtentsApart
<1>5. HeapObjs' = HeapObjs \ S /\ S \in SUBSET HeapObjs
  <2>1. HeapObjs' = {Extent(b)' : b \in objs \ taken}
    BY <1>2 DEF HeapObjs
  <2>2. HeapObjs' = {Extent(b) : b \in objs \ taken}
    BY <1>3, <2>1
  <2> QED BY <1>4, <2>2 DEF HeapObjs
<1>6. S \cap Heap!Live = {}
  <2>1. PICK C \in SUBSET objs : Grounded(C) /\ \A b \in C : Survives(b)
    BY <1>1 DEF Clean
  <2>2. Reachable \subseteq C
    BY <1>1, <2>1, ReachableGrounded
  <2> SUFFICES ASSUME NEW b \in taken, Extent(b) \in Heap!Live PROVE FALSE
    OBVIOUS
  <2>3. b \in Reachable
    BY DEF Reachable
  <2> QED BY <1>2, <2>1, <2>2, <2>3
<1>7. ASSUME NEW w \in Word PROVE HeapMem'[w] = after[w]
  <2>1. HeapMem'[w] = IF \E b \in objs \ taken : w \in Extent(b) THEN mem'[w] ELSE Nil
    BY <1>2, <1>3 DEF HeapMem
  <2>2. HeapMem[w] = IF \E b \in objs : w \in Extent(b) THEN mem[w] ELSE Nil
    BY DEF HeapMem
  <2>3. w \in UNION S <=> \E b \in taken : w \in Extent(b)
    OBVIOUS
  <2>4. after[w] = IF \E b \in taken : w \in Extent(b) THEN Nil ELSE HeapMem[w]
    BY <2>3
  <2>5. CASE \E b \in taken : w \in Extent(b)
    <3>1. ~\E b \in objs \ taken : w \in Extent(b)
      BY <1>1, <2>5, ExtentsApart
    <3> QED BY <2>1, <2>4, <2>5, <3>1
  <2>6. CASE ~\E b \in taken : w \in Extent(b)
    <3>1. (\E b \in objs \ taken : w \in Extent(b)) <=> \E b \in objs : w \in Extent(b)
      BY <2>6
    <3> QED BY <1>2, <2>1, <2>2, <2>4, <2>6, <3>1
  <2> QED BY <2>5, <2>6
<1>8. HeapMem' = after
  <2>1. HeapMem' = [w \in Word |-> HeapMem'[w]] /\ after = [w \in Word |-> after[w]]
    BY DEF HeapMem
  <2> HIDE DEF after
  <2> QED BY <1>7, <2>1, SameMemory
<1> HIDE DEF S
<1> QED BY <1>2, <1>5, <1>6, <1>8, HeapActions

\* Every step of the collector is one the guest was promised, or one it cannot see.
LEMMA StepRefines == ASSUME CollectorInv, Next PROVE Heap!Next \/ UNCHANGED Heap!vars
<1>1. CASE UNCHANGED <<mem, roots, class, aux, objs>>
  BY <1>1, ViewKept, HeapActions
<1>2. Marks \/ Waits => UNCHANGED <<mem, roots, class, aux, objs>>
  BY HeapStill DEF heapVars
<1>3. GrowHeap \/ Begins \/ VerdictYes \/ FinishSweep
         => UNCHANGED <<mem, roots, class, aux, objs>>
  BY DEF GrowHeap, Begins, Start, Collect, StartCollection, VerdictYes, FinishSweep,
         memory, table, ghosts
<1>4. ASSUME NEW r \in Reg, NEW p \in Reg, Load(r, p) \/ Store(p, r) \/ Derive(r, p)
      PROVE  Heap!Next
  BY <1>4, GuestRefines DEF Heap!Next
<1>5. ASSUME NEW r \in Reg, Forget(r) PROVE Heap!Next
  BY <1>5, GuestRefines DEF Heap!Next
<1>6. ASSUME NEW r \in Reg, \E b0, v0 : Bears(b0, r, v0) PROVE Heap!Next
  BY <1>6, AllocateRefines DEF Heap!Next
<1>7. ASSUME SweepSpan PROVE Heap!Next
  <2>1. phase = "sweep"
    BY <1>7 DEF CollectorInv, Flow, SweepSpan
  <2>2. \E gone : SweepsOver(sweepCursor, gone)
    BY <1>7, UnassignedSound, FreshSound, LargeSound, SmallSound DEF SweepSpan
  <2> QED BY <2>1, <2>2, SweepRefines DEF Heap!Next
<1>8. (\E r \in Reg, c \in Small : pc = "run" /\ HandsOut(r, c)) \/ FindSpan => Heap!Next
  BY <1>6, HandedOut, FindSound
<1> QED BY <1>1, <1>2, <1>3, <1>4, <1>5, <1>7, <1>8, CollectorCases

\* fkgc keeps the contract of a managed heap: it hands out zeroed memory nobody has,
\* stores and loads do what they say, and only what the guest cannot reach goes away,
\* whatever the marker, the sweep, the write barrier and the host's schedule are doing
\* meanwhile (collect.go:1478).
THEOREM CollectorRefines == Spec => ImplementsHeap
<1>1. CollectorInv /\ [Next]_vars => [Heap!Next \/ UNCHANGED Heap!vars]_<<memory, class, aux, objs>>
  <2>1. ASSUME CollectorInv, Next PROVE Heap!Next \/ UNCHANGED Heap!vars
    BY <2>1, StepRefines
  <2>2. UNCHANGED vars => UNCHANGED <<memory, class, aux, objs>>
    BY DEF vars, table, ghosts
  <2> QED BY <2>1, <2>2
<1> QED BY <1>1, CollectorInvariance, PTL DEF Spec, ImplementsHeap

\* It starts from the empty heap, so its runs are runs of ManagedHeap.
THEOREM CollectorIsHeap == Spec => Heap!Spec
<1>1. Init => Heap!Init
  <2> SUFFICES ASSUME Init PROVE Heap!Init
    OBVIOUS
  <2>1. objs = {} /\ roots = [r \in Reg |-> Nil]
    BY DEF Init
  <2>2. HeapObjs = {} /\ HeapMem = [w \in Word |-> Nil]
    BY <2>1 DEF HeapObjs, HeapMem
  <2> QED BY <2>1, <2>2 DEF Heap!Init, HeapObjs, HeapMem
<1>2. CollectorInv /\ [Next]_vars => [Heap!Next]_Heap!vars
  <2>1. ASSUME UNCHANGED vars PROVE UNCHANGED Heap!vars
    <3>1. UNCHANGED <<mem, roots, class, aux, objs>>
      BY <2>1 DEF vars, memory, table, ghosts
    <3> QED BY <3>1, ViewKept, HeapActions
  <2> QED BY <2>1, StepRefines
<1> QED BY <1>1, <1>2, CollectorInvariance, PTL DEF Spec, Heap!Spec

=============================================================================
