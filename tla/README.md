# A verification development for FkLua

FkLua compiles WebAssembly guests (Go, Rust) to the Lua 5.2 that Factorio runs.
The game is a lockstep simulation: it saves and loads the guest's memory at any
tick, it may pause for hours, and it never runs two things at once. Around it
live a runtime in Lua (`runtime/lua/`), libraries the guest links
(`guest/go/`, `guest/rust/`) and, outside the game, a companion process that
talks to a guest over localhost UDP (`sdk/go/`).

This directory holds TLA+ models of the parts that keep state and can go wrong in
ways a unit test hardly reaches, the TLC configurations that check them, and TLAPS
proofs. All paths below are relative to `src/`.

    tlc -workers 2 -config Rpc.cfg MCFkIpc.tla     # a run
    tlapm GuestLinkProofs.tla                      # the proofs

## 1. Inventory

### fkipc: the protocol between a guest and its companion

| part | source | state it keeps | operations |
|---|---|---|---|
| wire codec | `guest/go/fkipc/wire/frame.go` | none | fragmentation, reassembly set-up, u32 serial arithmetic |
| guest link | `guest/go/fkipc/link.go`, `channel.go`, `api.go` | session (up, epoch, boot, HELLO pending), per-channel sequence numbers, gap marks and half-read messages, pending requests, remembered answers, two send queues, the tick; **all of it guest memory, so a save copies it** | configure, `deliver` (one handler per frame type), Send/SendSnapshot/Request/Resync, `Pump` (recv, session service, retries, flush) |
| companion | `sdk/go/fkipc/session.go` | the same, plus quiet, the guest's highest tick, the BYE limiter and the handlers that are running | Dial, `deliver`, Send/Request/Resync, `runTimers` on a goroutine, Close; handlers outside the lock |
| file channel | `guest/go/fkipc/file.go`, SDK pick-up | sequence of bulk files | FILE_NOTIFY, write, read back |
| Rust link | `guest/rust/fkipc/` | mirror of the Go link | kept in step by conformance vectors |

The two ends share nothing but datagrams, which may be lost, copied and (in
principle) overtaken. What makes them hard: sessions are agreed by a token, but
either end may forget its half - the companion by restarting, the guest by being
put back to an older save, in which case *it does not know*; every mod of a game
reads the same socket; the companion works in seconds and several goroutines, the
guest in ticks; and a paused game is indistinguishable from a dead one except by
patience ("quiet").

What makes them correct: nothing outlives a session; the two ends' counters agree
whenever the ends believe in one session; a request is executed at most once for as long as
the answerer remembers it, and its sender hears exactly one outcome; what is
delivered is whole, and a delta is never older than its predecessor; gaps are repaired;
the ends find each other again after any of the above; queues stay bounded.

### fkgc: the incremental collector (`guest/go/fkgc/collect.go`, `heap.go`, `meta.go`)

State, all of it guest memory: the span table with fresh, dirty and pending bits, mark bits,
the gray stack and its overflow, the object half scanned, the phase (idle, mark, sweep), the
re-scan that is owed and how far it came, the sweep's cursor, the allocator's windows and runs.
Outside, in the host: whether writes are recorded, the pages recorded, and the step registered
for the next tick. Operations: allocate (window, run, find a span, sweep ahead, grow,
collect), start, `step(budget, ndirty)` - ingest the record, mark, re-scan what is owed,
attempt to end, sweep - and the synchronous `Collect`.
The guest runs between steps, and its writes reach the collector only through the page record,
which has a capacity, is armed only while marking and is not in the save.
Correct when no reachable object is reclaimed, whatever the guest does
between two steps; when what is handed out is zero and nobody else's; when garbage goes; and when every
collection ends.

### The mod runtime (`runtime/lua/fk_mod.lua`, `fk_abi.lua`, `fk_rt.lua`)

Dispatch of engine events into the guest, which nest because a host call may raise an event
or come back as a remote call; a scratch region and a guest arena for payloads, which nesting
shares; static buffers per level; one-shots on `on_tick` (deferred work, a collector step,
after a load, the piecewise building of grown memory) that take themselves off a list while it is walked and may
put themselves back; `on_nth_tick` periods. The engine saves none of its registrations, and `on_load` may
not write `storage`, so a load re-arms from flags and, when the mod was rebuilt meanwhile, keeps
the old heap in `storage` until the first dispatch settles the matter.
Transient handles live for an outermost dispatch, persistent ones with the heap.
Correct when a load leaves exactly the registrations the save had; when a trap leaves no mark or
transient handle behind; when a payload survives what nests inside it; when a handle
names what it was retained for; when a rebuilt guest is told before it runs; and when
every peer of a joined game computes the same.

### The compiler's range analysis (`internal/analysis/rng.go`, `ir/cfg.go`, `luagen/expr.go`)

An i32 lives in a Lua number, and `% 2^32` after every addition is what keeps it one. The
analysis decides which of these may be left out, because the result fits or because the one reader
reduces it anyway, and gives the generator the intervals by which it picks a lowering. It solves
for the intervals of the locals over the control-flow graph - join at merges, widening along a ladder of thresholds at
the targets of retreating edges, narrowing on both edges out of a test - once without putting off any wrap
and once more with the first answers to look ahead in. It is sequential, but its state is a fixpoint that
moves through a long sequence of steps, and a wrong answer is a wrong program with no error anywhere.
Correct when the Lua does what the WebAssembly does; when what is recorded of a number is true of it; when no number
leaves what a double holds exactly; and when the sweeps end by themselves.

### The rest

The remaining passes of the compiler (`internal/wasm`, `ir`, `analysis`, `luagen`), the API bindings
generators (`internal/factorio`), the data stage, mod settings and the command
line are sequential and keep no state between runs. Parts of them are pure
algorithms a reference definition could be checked against (loop guards,
shard assignment, settings merge); they come last in the plan. `PROJECT.json`
lists every component with its status, and the hazards with the properties
that watch them.

## 2. Modules

    Wire ──────────┬─ GuestLink ───┬─ FkIpc ── MCFkIpc
                   │               │    └── INSTANCE AtMostOnceRpc
                   └─ Companion ───┘
    GuestLink ── MCGuestLink
    Wire ── WireProofs ── GuestLinkProofs (also EXTENDS GuestLink) ── FkIpcProofs (also EXTENDS FkIpc) ── AtMostOnceProofs ── TornProofs

    Collector ─┬─ MCCollector           HandleTable ─┬─ ModRuntime ─┬─ MCModRuntime
               ├─ CollectorProofs                    └─ Lockstep    └─ ModRuntimeProofs
               └── INSTANCE ManagedHeap

    Interval ─┬─ WasmFunction
              ├─ RangeAnalysis ── MCRangeAnalysis
              │    └── INSTANCE WasmFunction
              └─ IntervalProofs

**Wire** - frames as records, serial arithmetic modulo `U32`, `Fragments`,
reassembly (`Gather`, `Whole`, `Disagrees`). A payload is a member of `Bodies`; a
fragment carries its message's body and its index, so that a message put together
from two is visible. `Size[b]` is the number of frames a body takes.

**GuestLink** - `link.go` as one record `g`, because a save copies it whole.
One action per case of a datagram handler (`OnHelloAck`, `OnIgnored`,
`OnHeartbeat`, `OnBye`, `OnStale`, `OnFragment`, `OnMsg`, `OnResync`, `OnReqAgain`,
`OnReqUnserved`, `OnReqNew`, `OnResp`; `Deliver` is their disjunction), per
application call (`AppSend`, `AppRequest`, `AppRequestRefused`) and per stage of
Pump. Between Pumps the link is "idle". `PumpBegin` takes the new tick and looks at the
engine gate; in "recv" `recv_udp` hands over what has arrived, and callbacks may call
back; `PumpReceived` expires half-read messages and old answers; "session" is the
session's service (loss, HELLO search, heartbeat), "retry" serves the
pending requests one at a time in any order, "flush" sends one frame at a time
under the budget, the control queue first.

**Companion** - `session.go` as one record `c` behind its mutex: each locked
section is one action. A handler's start and its return are two actions, and in
between the session may end, restart or be given a retry of the same request.
`Reads` is whether anybody reads the socket: `recvLoop` runs handlers itself, so
it does not while one runs; a `Manual` session pumped by several goroutines does
(`ConcurrentPump`). Timers are real time, so a timer that could have expired
may expire at any moment: an entry of the dedup table too, also the mark of a handler
that still runs (`DedupTimer`). Handlers that run at once are told apart by a number, because two may run
for one request when its mark has expired.

**FkIpc** - both over two lossy sockets: loss, copies, overtaking, saves and loads of
the guest, stops and starts of the companion, another mod's companion on the same
socket, a stray HELLO from another mod; `h` records what the applications did and
were told, `lapsed` the requests whose answerer forgot them - by expiry on either side (`DedupExpires`,
`PumpReceived`), or by eviction at the guest - while a retry was still to come. A load puts back what the *guest's* application knew as well.

**AtMostOnceRpc** - the abstract promise of requests: a request is asked, executed once, or again only after
it was forgotten, and its asker is told one outcome. `AtMostOnceCalls` is that `FkIpc`
implements it under a refinement mapping on `h` and `lapsed`.

**ManagedHeap** - the abstract promise of a collected heap: objects are disjoint sets of
words, new ones read as zero, loads and stores do what they say, and the only objects
that go away are those no root leads to.

**Collector** - `collect.go` and `heap.go` with the host's share (`gc_step`, `arm_gc`, the page record of
`fk_rt.lua`). Memory is `SpanSize` words to a span; a word holds a pointer or `Nil`. A step is a walk
over the stages the code has - `pc` is "partial", "dirty", "drain", "rescan", "attempt",
"verdict", "sweep", "stepped" - and may stop, its budget spent, wherever the code tests
it: `left` says whether budget remains and each charge may end it. A
synchronous collection and a forced mark phase do not yield. Allocation is served where the guest stands; when it needs a span
`pc` is "find" and the allocator finds (`Found`: first fit from a cursor on, then from the start), sweeps ahead, grows, collects or gives up.
A small class's new span goes to the end of its runs, and the first of them becomes the window (`NextRun`): after a bite of the sweep, or a
collection, that is a run, and the whole span waits. The refinement
mapping of `ImplementsHeap` forgets everything but the objects, their words and the roots.

**HandleTable** - `fk_abi.lua`'s table as a record and pure operators.

**ModRuntime** - `fk_mod.lua` on one peer. `list` and `walk` are the handlers on `on_tick` and the place of the
walk over them; `stack` the guest's entries in progress, one record each with
its payload's place in scratch region and arena; `stored` what `storage` says of flags and stamp, `stale` the heap, handles and
buffers it has where these are not the live ones (`Saved` is what a save would hold of each); `owed` the rebuild not yet settled. `Enter` is every outermost entry (`enter_outermost`, with
`finish_rebuild` inside: the entry that came first waits while the guest is told), `Raise` every entry.
An entry ends by returning or by a trap, a nested one with an answer or without.

**Lockstep** - the handle tables of the peers of one game, the same calls on each, and a peer that joins
by loading the server's save.

**Interval** - the intervals of `rng.go` and what a test that was taken, or not, says of its operands.

**WasmFunction** - the promise: a function on i32 locals, run block by block with WebAssembly's arithmetic.

**RangeAnalysis** - a function is a sequence of blocks of stack code. `Sweep` is one pass of the solver over the
blocks whose entry moved, `Record` writes the answers, first to look ahead in, then for good; `Call` and `LuaBlock` run
the Lua those answers print. `SameResults` is that this implements WasmFunction on the same locals.

Correspondence, at the points a reader will look for:

| code | model |
|---|---|
| `resetSession`, `resetLocked` | `ResetSession`, `Cleared`/`Down` |
| `sendMessage` | `SendMessage`, `Room` |
| `channelFrame`, `dispatch` | `Accept`, `Arrived`, `Dispatches`; `SdkAccept`, `SdkArrived`, `SdkDispatches` |
| `Pump`, `serviceSession`, `serviceRetries`, `flush` | `PumpBegin`, `PumpReceived`, then the "session", "retry" and "flush" stages (`SessionLost` .. `FlushDone`) |
| `rollbackLocked`, `onHello`, `deliver` | `SdkDeliver` and the operators under it |
| `runTimers` | `QuietTimer`, `PeerTimer`, `ReassemblyTimer`, `DedupTimer` (in `DedupExpires`), `BeatTimer`, `SdkResend`, `SdkGivesUp` |
| `step`, `markStep`, `runRescan`, `rescanSpan` | `HostStep`, then the stages `FinishPartial` .. `VerdictYes` |
| `sweepStep`, `sweepSpan` | `SweepUnassigned`, `SweepFresh`, `SweepLarge`, `SweepSmall` |
| `allocSpans` | `FindSpan`, `SweepAhead`, `GrowHeap`, `Collect`, `OutOfMemory` |
| `findSpanRun`, `refill`, `nextRun` | `Found`, `Runs`; `Claim`, `NextRun` |
| `dispatch`, `invoke_callback`, `enter_outermost` | `Raise`, `Open`, `Enter` |
| `leave_outermost`, `dispatch_done` | `Leave`, in `OutermostReturns` and `OutermostTraps` |
| `on_event`'s walk, `off_event` | `Served`, `Past`, `Off` |
| `state_load`, `after_load` | `Restore`, `Decline`, `Fitting`, `Rearmed`, in `SaveAndLoad` |
| `state_init`, `finish_rebuild` | `Stamp`, `Discard`, `Tell`, `MigrateReturns` |
| `publish_buffers`, `sync_memory` | `Mirror`, `Raise`; `SyncMemory` in `Leave` |
| `sweep`, `merge`, `widen` | `Sweep`, with `Visit`, `Merge`, `Widen` |
| `runBlock`, `compareFacts`, `resolveGuard` | `RunBlock`, `FactOf`, `Resolve` |
| `transfer`, `maybeDefer`, `absorbs` | `Transfer`, `MayElide`, `Absorbed` |
| `refine`, `refineSigned`, `narrowed` | `Refine`, `Smaller`, `Narrowed` |
| `stepExpr`, `condExpr` | `LuaStep`, `LuaBits`, `LuaCompare` |

## 3. Runs

| run | what it asks | faults within the bounds |
|---|---|---|
| `guest` | the link alone against an adversarial environment, any order and number of a set of datagrams that includes foreign, stale, mistyped and fragmented ones: `SessionBoundary`, `QueueBounded`, `NoRequestOverlooked` | anything in `MCInbound` |
| `rpc` | requests both ways, one of them issued inside a handler, failing handlers, several pumping goroutines, marks and answers that expire on both sides with a retry still to come: `HeardWasSaid`, `AtMostOnceCalls` | a loss, a copy or a restart |
| `channel` | messages, snapshots, resyncs both ways, datagrams overtaking each other: `NewsIsNew`, `HeardWasSaid` | a loss, a copy or a stray HELLO; the companion may time its peer out |
| `session` | a load and a restart in either order, another mod on the socket: `OwnSession`, `Converges` | a load and a restart |
| `repair` | two-frame messages: `NothingTorn`, `GapsAreRepaired` | one loss |
| `settle` | a companion's request, the quiet of a paused game: `EveryRequestSettles` | a loss or a restart |
| `collect` | three guest operations anywhere in a paced, synchronous or valve collection: `NothingLiveLost`, `FreeBlocksFree`, `MarksClear`, `GarbageGoes`, `ImplementsHeap` | a save and load in the middle, a page record that overflows, a gray stack that overflows |
| `collection_ends` | a guest that may write for ever: `CollectionEnds` | any number of loads |
| `mod_runtime` | five events, guest calls, periods, grows and loads together, in any order and nested: `PayloadsIntact`, `NothingLeftBehind`, `HandlesKept`, `OneBufferPerLevel`, `RegistrationsMatch`, `SaveIsWhole`, `ToldFirst`, `FlushComes` | traps at every depth, loads by the same and by other builds, one of which asks for larger buffers |
| `ranges` | some 5,000 functions, each solved under the code's caps and two tighter sets and run on boundary arguments: `RangesHold`, `StaysExact`, `WideningSettles`, `SameResults` | none; any function of the families |

and two runs in which TLC refutes what a comment says: `nested_request`
and `peers_agree` (section 5).

### Bounds

Named in the configurations, and each sized for the case it is about.
`U32` replaces 2^32: 8 in `guest`, with `MaxTick` and `MaxCorr`, and 6 in the
timed runs, where the tick really wraps many times (nothing bounds it there: a
liveness run needs every behaviour to go on for ever). The other runs take 32,
more than any counter reaches, so that a wrap of `seq` within one handful
of frames - impossible with 2^32 - does not report itself. Its second channel has no handler, so that a request there is refused;
`MaxSeq` ends a behaviour once a channel has sent so much, `MaxBoot` after two
sessions, and what a Pump sent is taken before the next one. One
channel suffices elsewhere because no state but the queues, the pending table and the corr
counter is shared by channels, and the proofs hold for any number. `MaxQueue` 2 with
two-frame messages makes partial room occur; `MaxDedup` 1 makes eviction occur;
`MaxRetries` 1 makes both a retry and the last retry occur. In `rpc` `DedupTicks` 1 is less than the guest waits
for an answer, so that its own entries expire under a companion's retry, as the companion's do by its clock at any time;
`MaxTick` 4 leaves time for the retry to come. `Handlers` 2 is never what stops a step there: each request is sent twice at most.
A second session after a peer timeout does not fit into the ticks of `channel`; `NothingHeardUnsaid` covers it. A fault
is what the properties are about, so faults are counted individually and
together (`MaxFaults`, 1 in `rpc` and `channel`, which have 4.0 and 6.1 million states; what two faults do to calls is left to `CalledAtMostOnce`), and every run admits the smallest set in which its
property is at risk; each property is known to fail within its run's bounds
under a plausible bug in the code (`mutants` in `PROJECT.json`).

`collect` starts from two heaps a few allocations build - a full span of small objects with room to grow into,
and a small object beside a large one, one hanging from the other or garbage - because the way there is
the same for every collection. Three spans of two words are the least in which a span is
swept ahead of, at and behind the cursor while the others hold a
large object's head and tail; `GrayCap` 1 makes the stack overflow, `MarkLimit` 1 makes the deadline strike;
three operations let the guest move the last pointer to an object and then allocate. What changes nothing is
not counted. Roots are interchangeable (symmetry). `collection_ends` is not bounded: its smallest heap is finite, and the
guest goes on for ever.
`mod_runtime` has two persistent slots, so that a third retain is refused, and starts also from a table
that has been in use, because five calls do not reach a free list out of order; `ScratchSize` 2 and
`MaxDepth` 2 let a nested payload fit, not fit, and come second; the three builds have the three
hooks, one exports `fk_on_tick`, and the one that adopts asks for a larger event buffer. Properties about a rebuild need two loads and a dispatch, those about
nesting two entries and a host call: five calls cover both together. `pieces` saturates at 2, which is what its property tells apart.
`peers_agree` has three variables, the least with which two releases can come in the other order.

`ranges` has words of 5 bits, so that 32 values stand where the code has 2^32 and everything around them keeps its proportion:
a deferred value stays below `SafeMag` = 2 words, a constant factor below `MulLimit` = 4, and a double is exact to their product, as
2^53 is that of 2^32 and 2^21. A counted loop without widening needs a round of the solver per value, 32, and the functions of the run need at most 13, so
a cap of 20 rounds tells the two apart as 60 does for the code. `TighterCaps` make the solver give up, a block run out of its budget and the ladder
lose the function's constants, which no function of this size does under the code's own. The functions are all of some families: a loop that counts by 1 or 3 up or
down behind each of four heads and under each test, comparing before or after it moves, against an argument or a constant; two loops in each other; chains of three
operations by constants from the boundaries; sums up to the limit on deferral. Arguments are 0, 1 and the cliffs.

Tokens are interchangeable and a token is never repeated while anything still holds
it, so `Fresh` takes the least free one: a symmetry reduction.

### What `AtMostOnceCalls` does and does not say

"Executed" is a handler that returned a reply. A handler that returned an error is forgotten by the companion
and run again by a retry (`session.go:1130`), which the model does and the property admits.

Nor does the property promise one execution for ever. The guest's retries are in ticks, which stand still
while the game is paused, and a pause is ordinary; the companion's table is in seconds of its own clock, and
`runTimers` deletes what is older than `DedupWindow`, 30 s, also the mark of a handler that still runs. So
across a longer pause the retry of a call whose answer was lost, or whose handler is slow, finds nothing and
is executed again. The model does this: any entry may expire at any moment, and a request one of whose copies
or retries was still to come then is `lapsed`. Such a call may be executed again; it is still told one
outcome, and an answer only if it was executed. Every other call is executed once at most: a retry that
arrives, however late, with its entry there is never run. The guest's table, which is in ticks, lapses in the
same way if `DedupTicks` is set shorter than the other side's retries or `MaxDedup` too small for its traffic,
which `link.go:29` warns of. `ExecutedOnce`, the promise without this exception, is refuted (section 5).
`AtMostOnceCalls` is checked, and proved (`CalledAtMostOnce`), without loads: a load undoes what the guest
asked while the companion's executions stay, and `NoWrongAnswer` (section 5) shows what that leads to.

### Fairness and time

The liveness runs take `FairSpec`. Weak fairness on the guest's receiving and
pumping: the engine raises `on_tick` every tick and Pump reads what has arrived
and runs to its end. Weak fairness on the companion's reading and timer round:
`recvLoop` and `timerLoop` are goroutines. Strong fairness on what has
to wait for a Pump to end in the model (handlers returning, retries, a restart,
applications answering a RESYNC), because it is disabled while the Pump runs. Nothing obliges the
network, the player or the applications' own calls. A lost frame is lost at most `MaxLoss` times:
"nothing more goes wrong" is the premise of every liveness property, not a promise of the network.

The two ends' clocks are unrelated in general (`Timed = FALSE`: any timer at any
moment). Liveness needs one relation, or each end could declare the other dead for
ever: with `Timed`, the companion runs its timers within `MaxLead` = 1 tick and
the guest's Pump reads all that has arrived, which is what the
code presumes when it sets `DefaultHeartbeat` below `LivenessTicks`; a stopped companion
stays away at most `MaxDown` ticks. The exception is the paused game, in which the
guest is silent for any length of time (`Paused`).

`collection_ends` takes `LiveSpec`: weak fairness on what a step or an allocation does once begun (it is one call into
the guest, which nothing interrupts), strong fairness on the host's step, because the engine raises `on_tick` for
as long as the game runs but a handler may be running whenever one looks. The guest and the player promise nothing: the guest may write
before every step, and saves may come at any rate.

`mod_runtime` takes `MCSpec`: an entry ends and a walk proceeds (weak), ticks begin
again and again although events and loads come between (strong), a collection needs finitely many steps - which is what
`CollectionEnds` shows - and grown memory finitely many pieces (strong). A handler of another mod,
a command or a trap is never obliged, and `FlushComes` admits that a trap ends the session.

## 4. Proofs

`WireProofs` and `GuestLinkProofs` are checked by tlapm from nothing in about two
minutes, for all values of the constants that `WireAssumption` and
`GuestAssumption` admit: any word size `U32` of even number, any channels, sizes,
queue limits and intervals below half the word, any environment (`Inbound` is an
arbitrary set of frames).

* `GuestTypeCorrect`, `SessionBoundaryKept`, `QueuesAreBounded`,
  `RequestsAreServed`: the four invariants of the `guest` run.
* `GuestInvariance`: the inductive invariant `GuestInv` they are read off. The
  properties are not inductive by themselves. `SessionBoundary` needs that a session
  that is not up has a zero epoch and no channel state (`Blank`, `DownFirst`),
  because a handler tests `epoch`, and that everything queued or
  remembered carries the current epoch (`OfSession`), because the sends read it.
  `QueueBounded` needs `Within` of every queue at every stage. `NoRequestOverlooked`
  needs that a pending request's deadline is at most its interval ahead of the tick in *serial*
  arithmetic, and the interval at most the cap (`Punctual`), hence the lemmas
  about `SerialDelta`: `SerialDeltaOfAdd` (a deadline armed less than half the range
  ahead is exactly that far ahead, across the wrap), `SerialDeltaTick` (a tick brings
  it one nearer) and `SerialDeltaNotDue`.
* One lemma per operator of a handler (`ResetSessionSound`, `SendMessageSound`,
  `AcceptSound`, `ArrivedSound`, `RememberSound`, ...: it keeps `Sound`), one
  per action, and `GuestNextInv` by cases.

`IntervalProofs`, for every even word size: `JoinSound` and `MeetSound` (a merge forgets nothing that may happen, and an edge whose
narrowed interval is empty is never taken, which is why `tighten` may leave it alone), `SumSound` and `ProductSound` (transfer), `RefineSound`
(both edges out of every test, by way of `SmallerSound`: a signed order says nothing of an unsigned interval until the smaller side is known to be
at least 0), `FittingIsExact` and `SumModulo` (the two reasons for which a wrap may go) and `BiasedOrder` (the lowering of signed comparisons). What
the solver makes of them over a graph is a fixpoint over recursive definitions, and stays with TLC.

The first part of `ModRuntimeProofs` is about the operations of `fk_abi.lua` on any table that is `TableSound`: free slots are listed once and name
nothing, and every slot below `nextP` is in use or free. `RetainSound`, `ReleaseSound` and `AdoptSound` say that `retain`, `release` and
`adopt` keep a table so, that `retain` takes a slot that names nothing, and that it is refused only when every slot is in use.

The second proves the eight invariants of the `mod_runtime` run for any objects, variables, periods, builds, hooks and buffer sizes, any depth of
dispatches and any scratch size. `TypeOK`, `PayloadsIntact` and `NothingLeftBehind` are read off `RuntimeInv`, which is inductive
(`RuntimeInvariance`) whether `fk_migrate` traps or not. Its conjuncts beside the types, and why each is needed:

* `Order`: an entry waits exactly while a notice of a rebuild is the outermost dispatch, and what a rebuild owes is owed
  between dispatches only. Without it a step could publish a second time, or in the middle of a dispatch.
* `FramesNest`: the payloads in progress take their shares of the scratch region and of the arena one behind the other, as far as the
  tops that the runtime remembers, and the transient handles they were given stand. `PayloadsIntact` says only that they are there; that the next payload, and
  the release of the innermost, leave them alone follows from the order.
* `ArenaMarked`: the one mark of the arena is taken by the outermost dispatch, over an empty arena, so that the release empties it (`NothingLeftBehind`).

The other five are about `storage`, and suppose that `MigrateTraps` is `FALSE`, as the run's configuration does: after a notice that trapped on its way
into a command the session goes on over a `storage` that has the old heap, and `sync_memory` and `publish_buffers` put parts of the new one beside it,
so that none of the five holds (section 5). They are read off `Whole` (`RuntimeWholeness`), inductive beside `RuntimeInv`:

* `LiveWhole`: the guest's variables and the slots in use correspond one to one, and the buffers the runtime knows are those made in the heap.
  `HandlesKept` alone is lost by a `release` of a slot two variables hold. A buffer may be made a second time in one heap, but for each time only if a load by a build of
  another buffer size gave the earlier ones up in that heap (`refused`).
* `Pending`: as long as a rebuild is owed, the same of what a save would hold, which a later load brings back; with the stamp and the buffer sizes of the build that made it.
* `Settled`: once nothing is owed, nothing in `storage` differs from what the guest runs on.

The registrations take a third stage. `Listing` (`RuntimeListing`, unconditional) says that a one-shot is on the list exactly when its flag
says so, and once; it holds whatever takes itself off and puts itself back while the list is walked. `Promised` is what the
flags in `storage` promise being on its way, for the heap a rebuild left behind too. TLC agrees with all of these on every state of the run, and with
the conjuncts of `RuntimeInv` and with `Listing` also when `fk_migrate` may trap.

`CollectorProofs` proves the five invariants of the `collect` run and its action property, for any number of spans and
words, any small classes and sizes of large objects, any gray stack, any deadline and any finite set of roots. `CollectorRefines` and
`CollectorIsHeap` say that Collector implements ManagedHeap: an allocation gives zeroed words that were nobody's, loads and stores do what
they say, and what goes away is what the guest could not reach. All of it is read off `CollectorInv` (`CollectorInvariance`), which is
inductive; TLC agreed on the million states of the run before any of it was proved. `NothingLiveLost` is far from inductive, and each conjunct is there because of a
step that would break it otherwise:

* `Clean`: there is a set of objects, closed under what roots and words point at, that holds every marked object and none of the
  garbage of the collection's start, and every member of which survives the sweep: it is behind the cursor, marked, assigned ahead of the sweep, or in
  the window marking ended with. The set is an existential, not "what is reachable": what the guest drops stays in it until the collection
  ends (floating garbage), so that a step never has to recompute reachability; `ReachableGrounded` relates it to `Live` of ManagedHeap.
* `Tricolour`: a word of a marked object points at something marked, or a look at it is *owed*: its object is on the gray stack, the stack
  overflowed, it is among the words left of the object being scanned, its span is to be re-scanned, a re-scan has yet to come that far, or
  the host's record of pages has it or was lost. The last case is the write barrier, and holds only between steps:
  within a step the record has been taken over (`Ingest`). In "verdict" nothing is owed, so that marking ends with a closed set marked.
* `Ahead`: marks, and the garbage the collection is to take, lie ahead of the cursor (`MarksClear`, `GarbageGoes`).
* `Shape`: the span table. Between two steps of the sweep a large object may be half gone: `Orphan` says that the spans whose head went
  are exactly those the cursor comes to next, with the decision remembered in `largeKeep`, so that nothing allocated meanwhile can be taken for them.
* `Freshness`: a span assigned ahead of the cursor is passed over, and the spans of a large object are passed over together. `Stock`, `Windows`: what
  waits to be handed out is zero and nobody's; a run lies behind the cursor or is a span claimed ahead of it, which the sweep passes over; a window lies there too, or is the
  one that `hold` remembers.
* `Flow`: which stage runs in which phase, and for whom; between steps of marking the barrier is armed.

The kinds of steps are told apart once (`CollectorCases`). `MarkerEffect` is what the stages of marking do whatever their order and wherever they stop;
`Birth` is an allocation from any of the four places; `SweepKeeps` and `SweepRefines` are the sweep of any span, given what it takes
(`SweepsOver`), which `UnassignedSound`, `FreshSound`, `LargeSound` and `SmallSound` establish of the four kinds.

`FkIpcProofs` is about the two ends together, for any modulus, channels, payloads, timeouts, limits and number of faults.
`IpcInv` (`IpcInvariance`) is inductive over every step of `FkIpc`, loads, strays and restarts included:

* `GuestInv` of the link, proved again for the link in the game: its environment is now the companion and the network, not a
  constant set, and a load may replace the link by an older one, so the invariant is asked of the save as well (`SavedSound`: a save is
  taken between two Pumps, so that what it holds is on time). `LinkKeptByLoads` reads the three safety invariants of the `guest` run off it.
* `Joined` (a link is in one of the companion's sessions or in none) and `AcksOwn` (a HELLO_ACK on its way offers one of the companion's tokens).
  `OwnSession` is not inductive without them: the link adopts what an ACK says, so what is on the sockets, and in the save, has to be known.
* `CompanionSound`: the companion's types, and a token exactly while it is up. `TypeOK` (`IpcTypes`) needs every field of both ends.

The first parts of `FkIpcProofs` say of each locked section of the companion, and of each step of the guest, what it does to its own session: the session goes on (`Stays`, `GoesOn`: only the sequence numbers it gives out and the one it hears matter), it ends, or a new one begins. The
steps of the two ends are then composed by these kinds, not by their handlers.

`NothingHeardUnsaid` proves `HeardWasSaid` from `SeqInv`: what is on its way is at or behind its sender's counter (`SaidByGuest`, `SaidBySdk`),
what was heard is at or behind the other's (`HeardOfEach`), and a HELLO_ACK the guest may still accept offers a session of which nothing was said by the guest,
and in which the companion's numbers are ahead of 0 (`OfferIsNew`): otherwise adoption could set one counter to 0 beside another that is not. Its hypotheses:

* `MaxLoads = 0`: a load puts the guest's counters back while the companion's stay, until the heartbeat shows it; the property is not true meanwhile.
* `[]Window`: serial numbers are compared by RFC 1982, which tells newer from older only within half the modulus, 2^31 frames. `Window` says that nothing on its way
  and nothing last heard is older than that, and that an ACK as old as a whole turn of the correlation counter (2^32 HELLOs, requests and long messages) offers no session that was used.
  The code has no other protection against such a frame, and without the hypothesis the property is false. TLC finds that every state of the `rpc` and `channel` instances
  (4.0 and 6.1 million) satisfies it, and the four conjuncts that `SeqInv` adds to `IpcInv`.
* `MaxFragments` below half the modulus: no message alone runs around the numbers.

`AtMostOnceProofs` proves that FkIpc implements AtMostOnceRpc (`CalledAtMostOnce`): with every loss, copy, retry, late answer, expiry, restart and end of a
session, a request is executed at most once, or again only once its answerer forgot it with a retry still to come, and its asker told of it once, and told "answer" only if it was executed. A request is in many places
at once: pending, queued, on a socket, in a handler that runs, in the table of the one who answered, in an answer. `GuestAsking`, `SdkAsking`, `GuestAnswers`, `SdkAnswers`
and `Running` collect these, and `CallInv` is about them:

* `GuestIds`, `SdkIds`: whatever carries one correlation id, or one payload, is one request - the guest's ids for good, the companion's within a session. An answer is matched
  by its id alone, so without it an answer settles the wrong request.
* `Waiting`, `Executed`: who waits was told nothing; what is answered was executed, what runs was not, and runs once, unless it lapsed. They are the refinement's own step conditions.
* `GuestKnowsDone`, `SdkKnowsDone`: what was executed, or runs, and may come again in this session is in the table of answers, or lapsed. They are why a retry is not
  executed again, and the reason for the next two: `OffersAreNew` says that a session the guest may still join is one of which it has executed nothing, since joining empties the table;
  `OneFrameEach`, that a request, an answer and a resync come whole, so that what is read is what one frame carried.
* `HistoryTyped`: what was not asked was neither executed nor told of, and did not lapse.

The steps are told apart by what they do to requests, once for all handlers: `GuestKind` and `SdkKind` say that an end's step asks one new request, executes one,
finishes one, or only repeats, forgets and tells (`GuestKinds`, `SdkKinds`: a relation on the state record per stage, each shown to compose); the
invariant and the refinement follow from the kinds (`GuestKindInv`, `SdkKindInv`, `KindsRefine`). TLC finds `CallInv` true of every state of the `rpc` instance, and the hypotheses as well:

* `MaxLoads = 0`: a load rewinds the guest's counter of correlation ids, and with it the property fails (`NoWrongAnswer`, section 5).
* `[]IdsLast`: neither counter of correlation ids has run through all 2^32 of them.
* Requests of one frame, as in the instances.

That a table forgets is not excluded by a hypothesis: entries expire or are evicted on either side at any time, and `ForgetsLapse` and `LapsedWereAsked` say that the requests which may be
executed again for it are exactly those in `lapsed`, noted in the step that forgot.

`TornProofs` proves `NothingTorn` (`NoMessageTorn`): no message is put together from frames of two. `TornInv` is inductive beside `IpcInv`:

* Of one correlation id, all pieces on their way to an end were cut from one payload (`LinkPieces` for the guest's, `SdkPieces`, within a session, for the
  companion's), and what is read already of a message was cut from one as well, the same that may still come under its id (`ReadOf`). `NothingTorn` speaks of
  what was handed over, long after the frames are gone; reassembly knows a message by its id and the number of its frames alone, so the ids have to be known to tell messages apart.
* No id is ahead of its sender's counter, of what is on its way and of what a half-read message waits for: so the next long message is new to both.
* Only applications' messages are long (`AllCut`, `ShortAnswers`): a retry or a remembered answer is sent again under its old id, and a long one would be mixed with a message of that id.

Its hypotheses, `MaxLoads = 0`, `[]IdsLast` and requests of one frame, are three of those above. The last one is needed: with long requests TLC refutes the property (section 5).
A load is a real exception too: it gives the id of a half-read message to the next one (section 5).

It also proves `NewsIsNew` (`NewsComesInOrder`): within a session what an application is handed, snapshots aside, is newer than what it was handed before. The applications
of the model count what they say, and `NewsInv`, inductive beside `SeqInv` and `TornInv`, is about these counts:

* Of what is on its way in one session, a frame whose sequence number is ahead of another's bears as late a count, and a later one if it is not a snapshot (`InOrder`);
  nobody will hear a count that was not said (`SaidOf`); and what is ahead of the last number an end heard is newer than the last message its application was handed (`Awaited`).
* The numbers an end compares lie on a line (`Line`): the last number heard may be that of a heartbeat or an answer, which is no news, so an end that moves on to it must not bring an
  older message ahead. Serial comparison is not transitive; here it is while the sender is in the session, since all these numbers trail its counter
  within half the modulus (`Window`), and stays so when it has left, since nothing is added.
* A session may be joined with frames of it already on their way, and its numbers start at 0 again: of a session the guest may still join, what is on its way is newer than what its
  application last heard, if that was of the same session (`Offers`). The offer has to answer the last HELLO, whose id is later than those of all before it (`Greetings`), so it is no offer that was taken before.

Its hypotheses are `MaxLoads = 0`, `[]Window`, `[]IdsLast` and `MaxFragments` as above, and the two of the `channel` run: one channel, because an application's counts run
over all its channels while a channel keeps its own order only, so that with two the property is not true; and payloads of one frame, because a message of several is
handed over with the number of whichever of its frames came last. TLC finds that every state of the `channel` instance satisfies `NewsInv`.

Only model-checked:

* The properties of `RangeAnalysis`: it uses RECURSIVE operators and Bitwise, and its solver is a fixpoint over them; `IntervalProofs` has the operators it is made of.
* Liveness under fairness (`Converges`, `GapsAreRepaired`, `EveryRequestSettles`, `CollectionEnds`, `FlushComes`): beyond the prover.

## 5. What the code does differently from what it says

Two runs refute a comment; the trace is the evidence.

* `nested_request`: a request handler on a `recvLoop` session that issues a
  Request of its own waits for an answer nobody reads; and the silence counts as quiet,
  which suspends the timeout that would have freed it. A comment in
  `session.go` names such a handler as an ordinary thing to write.
* `peers_agree`: the peers that play have their free handles in the order of their
  releases, a peer that joins has them ascending (`adopt`), with the least possible `nextP`. The
  next `retain` gives the two guests different numbers, in memory the engine compares across peers.

Other promises the models state and TLC refutes, without a run of their own here. To
reproduce one, take the configuration, change what is said and check the definition as its only property:

| definition | configuration and changes | what happens |
|---|---|---|
| `WorldsMoveForward` | `Channel.cfg` as it is | a copy of a SNAPSHOT, exempt from the staleness rule, is delivered after a newer message; `link.go:1064` says it cannot hand over an older world |
| `GapsAreRepaired` | `Repair.cfg` with `MaxLoss = 2` | if the RESYNC, or the snapshot that answers it, is lost, `resyncSent` stays set and nobody asks again in that session |
| `ExecutedOnce` | `Rpc.cfg` with `DedupTicks = 5` | the guest retries in ticks and the companion forgets in seconds: across a pause longer than `DedupWindow` the retry of a call whose answer was lost, or whose handler still runs, finds no entry and runs the handler again; `agents/ipc.md:772` says the in-flight mark excludes it. With `DedupTicks = 1` as it stands the guest's side fails first, as `link.go:29` warns |
| `NoWrongAnswer` | `Rpc.cfg` with `GuestReqs = {1, 2}`, `SdkReqs = {}`, `MaxLoads = 1`, `RollbackTicks = 8`, `Nested` and `Failures` `FALSE` | a load within `RollbackTicks` keeps the session but rewinds the guest's corr counter, and its next request is answered with the remembered reply to another; `session.go:55` expects a stall |
| `NothingTorn` | `Repair.cfg` with `GuestMsgs = 1`, `SdkMsgs = 1`, `SdkReqs = {2}` | reassembly recognises a message by corr and fragment count; MSGs take corrs from the sender's counter and RESPs from the asker's, so a fragment of one completes the other |
| `NothingTorn` | `Repair.cfg` with `MaxLoads = 1` | a load within `RollbackTicks` while a message is half read: the next message takes the id of that one, its first frame is dropped as stale, its second completes the old one; `session.go:55` expects a stall |
| `TrapMeansFull` | `Collect.cfg` as it is, without `SYMMETRY` | the valve finishes the collection that is in flight and begins no other, so garbage made since that one's marking is kept and the guest traps on a heap that is not full; `collect.go:438` |
| `OneStepPerTick` | `ModRuntime.cfg` with `MaxCalls = 3` | the walk over the handlers of `on_tick` advances only if the slot still holds what ran: a one-shot that takes itself off and re-registers goes to the end, its neighbour moves into its slot, and the walk reaches the re-armed one again - a collector step or a piece of grown memory runs twice in one tick, which `fk_mod.lua:1666` and `:1529` exclude |
| `ToldFirst`, `SaveIsWhole`, `HandlesKept`, `OneBufferPerLevel`, `RegistrationsMatch` | `ModRuntime.cfg` with `MigrateTraps = TRUE` | a migrate that traps on its way into a command or a remote call leaves the flag down and the session alive: the guest runs untold, and `storage` keeps the old heap, but for its buffers, which the first new one overwrites (`publish_buffers`), and its memory, which `sync_memory` replaces when the sizes differ: the next save has the old stamp over parts of both; `fk_mod.lua:2112` says it takes the mod down |

Three more, read in the code and not modelled. A joining peer's first collector step is told that
the page record was lost, and re-scans everything, which the server's does not
(`fk_mod.lua:2189`), and its re-armed one-shots stand in another order than the server's list may have: the
collector's state is guest memory. A `fkgc.Start` during `_initialize` (`fk_mod.lua:1388`) finds
`arm_gc` not yet assigned, although the comment at 1780 describes arming from there. `storage.fk_deferred` and
`fk_nth` survive a rebuild that discards the heap they were armed for.

## 6. What is abstracted, and what is left out

Abstracted: statistics and heartbeat counters; the RETRY flag (no reader acts on
it); byte layout and malformed frames (dropped by the decoder before any state);
negotiation of the frame size; unknown channels (dropped). Inbound HELLO and
FILE_NOTIFY frames at the guest change nothing the model keeps. Calls from
callbacks are ordinary calls that happen to come during "recv". In `FkIpc`
the guest reads only inside its own `recv_udp` (another mod's may hand it a datagram
between two Pumps; the `guest` run and the proofs include that), and nothing else
moves while a Pump runs: its stages read nothing of the companion but what has
arrived, and what they send is read later in any case.

Collector: how much a stage charges (a step may stop at any test), the order of the gray
stack and of pending spans, whether the page record overflows (it counts pages outside the heap, so it may whatever the
heap did), the size of small objects (one word) and the growth of the metadata are left open
or out; the guest's globals, stack and locals are the roots; an interior pointer is one the guest derives;
`memory.grow` is refused at `SpanLimit` only. The span search takes the first fit from its cursor on, then from the start, so that it misses a
run of spans that lies across the cursor, as the code does (`heap.go:957`); with the three spans of the runs none lies there when a large object needs it, so that this case is covered
by the proofs only. The order of a class's list of runs is left open: any run that waits may be next, and a span just claimed is so only when nothing waits, since it is appended. The
host's record is emptied when it is disarmed.

ModRuntime: a save and its load are one action, and an older save is that action taken earlier; the game
is saved only when no dispatch and no walk is in progress, which is when the packed and the table encoding of memory
agree. Where they do not, after a trapped migrate, the model follows the table encoding: `sync_memory` tells one heap from another by its size, which may be
equal or not (of the packed pages it would rewrite the size only). A payload is one unit of scratch space, or too large for it. `on_configuration_changed` is another outermost
entry, as "event" is. A buffer's size is a number per build and kind, and `publish_buffers` rewrites both kinds' mirrors at once, as in the
code. The globals and the table of handles go with the heap they belong to. Host calls that do not re-enter
the guest, event filters and subscriptions are left out. A collector
step, of which Collector has the stages, is one entry. An error of an event's handler ends the session; one in a command or a
remote call is reported and the game goes on.

Ranges: a function's locals are i32s, its blocks end in `br_if`, `br` or a return, and a block's entry has an empty stack, as
the analysis assumes of every boundary. Division (which traps), rotation, signed shifts, loads, calls, i64 and floats are left out;
to the analysis their results are unknown i32s, as a parameter is. The forwarding of operands changes the text of the Lua and not
the numbers. Integers are exact, and `StaysExact` says that a double's are. `slot`, `origin`, `fromLocal` and `cmps` of `runBlock` are one stack of
entries, because a slot is its height; an absent local is the full interval.

Left out: callbacks that re-enter the link while it walks a table; the order in
which several goroutines run callbacks collected under the lock; the SDK's
channel 0 and file pick-up; the Rust mirrors, which the conformance vectors keep
equal to the Go code the map names.

What the map does not cover is for the largest part not a candidate: of some 243,000 lines, 182,000 are the
generated `guest/go/fkapi/fkapi.go` and most others generators of text
(`internal/factorio`), passes of the compiler (`internal/luagen`, `ir`, `wasm`) and the command line, which keep no state
between runs. The code that keeps state - the two fkipc ends, fkgc, `fk_mod.lua`, `fk_abi.lua` - is
modelled as said above, and of the compiler the pass whose mistakes nothing else would catch.

## 7. Plan

1. *(done)* fkipc: Wire, GuestLink, Companion, FkIpc, AtMostOnceRpc; the guest
   link's invariants proved.
2. *(done)* Collector under ManagedHeap; HandleTable, ModRuntime and Lockstep.
3. Proofs, in order of worth: *(done)* the invariants of ModRuntime, and Collector with its refinement of ManagedHeap; the
   companion's type correctness, `OwnSession`, `HeardWasSaid`, the implementation of `AtMostOnceRpc`, `NothingTorn`, `NewsIsNew`. To come:
   `NewsIsNew` for messages of several frames.
4. Lockstep with a Collector and a ModRuntime per peer, for the divergences of section 5 that are only read.
5. *(done)* Range analysis: Interval, WasmFunction, RangeAnalysis, IntervalProofs. To come:
   division and loads, then the loop guards (`analysis/loopguard.go`), which rest on the same intervals.
6. The file channel next to FkIpc; the shard layout against a reference definition.

Each further module gets one safety run and, where the code's
scheduling justifies fairness, one liveness run.
