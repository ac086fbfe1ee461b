----------------------------- MODULE GuestLink ------------------------------
(***************************************************************************)
(* The guest's end of an fkipc link (guest/go/fkipc/link.go, channel.go):  *)
(* a single-threaded state machine in the game's memory, driven by the     *)
(* game tick.                                                              *)
(*                                                                         *)
(* The link is one record, g, because a save copies it and a load puts the *)
(* copy back, whole.  A datagram handler, an application call and each     *)
(* stage of Pump is one action: "recv" is its recv_udp, inside which the  *)
(* engine hands over what has arrived, "session", "retry" and "flush" are  *)
(* what follows.  Between two Pumps the link is "idle"; the application    *)
(* may still call it, and another mod's recv_udp may hand it datagrams.    *)
(***************************************************************************)
EXTENDS Wire

CONSTANTS
  RetryTicks, RetryBackoffCap, MaxRetries, DedupTicks, HeartbeatTicks,
  LivenessTicks, ReassemblyTicks, SearchTicks, SendBudget, MaxQueue,
  MaxPending, MaxDedup,
  Cacheable,    \* the answers within MaxDedupPayload
  GuestServes,  \* the channels with an OnRequest handler
  Control,      \* the channels of priority PriControl; the others are bulk
  GuestName, ExpectPeer,
  Inbound,      \* the datagrams this module's environment may deliver
  SockBuf       \* datagrams the guest's socket buffer holds

ASSUME GuestAssumption ==
  /\ {RetryTicks, RetryBackoffCap, DedupTicks, HeartbeatTicks, LivenessTicks,
      ReassemblyTicks, SearchTicks} \subseteq 1 .. U32 \div 2 - 1
  /\ RetryTicks <= RetryBackoffCap
  /\ MaxRetries \in Nat /\ SendBudget \in Nat \ {0} /\ MaxQueue \in Nat \ {0}
  /\ MaxPending \in Nat /\ MaxDedup \in Nat \ {0} /\ SockBuf \in Nat \ {0}
  /\ Cacheable \subseteq Bodies
  /\ GuestServes \subseteq Chans /\ Control \subseteq Chans
  /\ GuestName \in STRING /\ ExpectPeer \in STRING
  /\ Inbound \subseteq Frame

VARIABLES
  g,     \* the link: guest memory
  pump,  \* where Pump is: [at |-> stage, sent |-> frames flushed so far]
  out    \* the datagrams on their way to the companion
guestVars == <<g, pump, out>>

Queues == {"control", "bulk"}
QueueOf(ch) == IF ch \in Control THEN "control" ELSE "bulk"

Stages == {"idle", "recv", "session", "retry", "flush"}
Idle == [at |-> "idle", sent |-> 0]

Pending == [ch : Chans, corr : Word, body : Bodies, tries : Nat,
            interval : Word, due : Word]
DedupEntry == [epoch : Epochs, ch : Chans, corr : Word, body : Bodies,
               cached : BOOLEAN, tick : Word]

LinkState ==
  [enabled : BOOLEAN, tick : Word, up : BOOLEAN, epoch : Epochs, boot : Word,
   helloDue : BOOLEAN, helloCorr : Word, lastHello : Word, lastRx : Word,
   lastHB : Word, corrCtr : Word,
   txSeq : [Chans -> Word], rxLast : [Chans -> Word],
   resyncSent : [Chans -> BOOLEAN], rasm : [Chans -> Reassembly],
   rasmDue : [Chans -> Word],
   pend : SUBSET Pending, dedup : Seq(DedupEntry),
   q : [Queues -> Seq(BeatFrame \cup DataFrame)]]

NoChannelState == [txSeq |-> [c \in Chans |-> 0], rxLast |-> [c \in Chans |-> 0],
                   resyncSent |-> [c \in Chans |-> FALSE],
                   rasm |-> [c \in Chans |-> Closed]]

\* configure: HELLO is due; the engine gate has been read once.
NewLink(enabled) ==
  [enabled |-> enabled, tick |-> 0, up |-> FALSE, epoch |-> 0, boot |-> 0,
   helloDue |-> TRUE, helloCorr |-> 0, lastHello |-> 0, lastRx |-> 0,
   lastHB |-> 0, corrCtr |-> 0,
   txSeq |-> NoChannelState.txSeq, rxLast |-> NoChannelState.rxLast,
   resyncSent |-> NoChannelState.resyncSent, rasm |-> NoChannelState.rasm,
   rasmDue |-> [c \in Chans |-> 0],
   pend |-> {}, dedup |-> <<>>, q |-> [p \in Queues |-> <<>>]]

GuestInit ==
  /\ \E enabled \in BOOLEAN : g = NewLink(enabled)
  /\ pump = Idle
  /\ out = <<>>

-----------------------------------------------------------------------------
(* The parts of a handler, as functions of the link. *)

\* Mutant: what was received of a channel is not forgotten.
FreshTxOnly(s) ==
  [s EXCEPT !.txSeq = NoChannelState.txSeq,
            !.resyncSent = NoChannelState.resyncSent,
            !.rasm = NoChannelState.rasm]

\* Both counters of every channel restart and no message stays half-read.
FreshChannels(s) ==
  [s EXCEPT !.txSeq = NoChannelState.txSeq, !.rxLast = NoChannelState.rxLast,
            !.resyncSent = NoChannelState.resyncSent,
            !.rasm = NoChannelState.rasm]

\* Mutant: the send queue survives the session.
ResetKeepsQueue(s) ==
  FreshChannels([s EXCEPT !.up = FALSE, !.epoch = 0, !.helloCorr = 0,
    !.helloDue = TRUE, !.boot = Add(@, 1), !.dedup = <<>>, !.pend = {}])

\* Nothing survives a session boundary; every pending request is told
\* ErrSessionLost.
ResetSession(s) ==
  FreshChannels([s EXCEPT !.up = FALSE, !.epoch = 0, !.helloCorr = 0,
    !.helloDue = TRUE, !.boot = Add(@, 1), !.dedup = <<>>, !.pend = {},
    !.q = [p \in Queues |-> <<>>]])

\* Mutant: room for one frame is taken for room for the message.
RoomForOne(s, ch, b) == Len(s.q[QueueOf(ch)]) < MaxQueue

Room(s, ch, b) == Len(s.q[QueueOf(ch)]) + Size[b] <= MaxQueue

\* A message of several frames needs a corr to be reassembled by.
Mints(corr, b) == corr = 0 /\ Size[b] > 1

\* sendMessage: every frame of the message is queued, or none is.
SendMessage(s, type, flag, ch, corr, b) ==
  LET c == IF Mints(corr, b) THEN NextCorr(s.corrCtr) ELSE corr
  IN IF Room(s, ch, b)
     THEN [s EXCEPT
            !.q[QueueOf(ch)] = @ \o Fragments(type, flag, ch, s.epoch,
                                              s.txSeq[ch], c, b),
            !.txSeq[ch] = Add(@, Size[b]),
            !.corrCtr = IF Mints(corr, b) THEN c ELSE @]
     ELSE s

IsSnapshot(f) == f.type = "MSG" /\ f.flag = "snapshot"
Delta(s, f) == SerialDelta(f.seq, s.rxLast[f.ch])

\* Mutant: a copy of the last frame is not stale.
StaleIfOlder(s, f) == ~IsSnapshot(f) /\ Delta(s, f) < 0

Stale(s, f) == ~IsSnapshot(f) /\ Delta(s, f) <= 0
Gap(s, f)   == ~IsSnapshot(f) /\ Delta(s, f) > 1

\* A gap asks for a snapshot, once until one arrives.
AskResync(s, f) ==
  IF Gap(s, f) /\ ~s.resyncSent[f.ch]
  THEN SendMessage([s EXCEPT !.resyncSent[f.ch] = TRUE],
                   "RESYNC", "none", f.ch, 0, NoBody)
  ELSE s

\* channelFrame up to the fragment test.
Accept(s, f) ==
  [AskResync([s EXCEPT !.lastRx = s.tick], f) EXCEPT !.rxLast[f.ch] = f.seq]

Completes(s, f) ==
  \/ f.nfrag = 1
  \/ ~Disagrees(s.rasm[f.ch], f) /\ Whole(Gather(s.rasm[f.ch], f))

\* The message f completes, and the link that is about to dispatch it.
Message(s, f) ==
  LET r == Gather(s.rasm[f.ch], f)
  IN IF f.nfrag = 1
     THEN [type |-> f.type, flag |-> f.flag, corr |-> f.corr,
           parts |-> {<<0, f.body>>}]
     ELSE [type |-> r.type, flag |-> r.flag, corr |-> r.corr, parts |-> r.parts]
Arrived(s, f) ==
  IF f.nfrag = 1 THEN Accept(s, f)
  ELSE [Accept(s, f) EXCEPT !.rasm[f.ch] = Closed]

\* addDedup: a full table evicts its oldest entry.
Remember(s, ch, corr, b) ==
  LET kept == IF Len(s.dedup) = MaxDedup THEN Tail(s.dedup) ELSE s.dedup
  IN [s EXCEPT !.dedup =
        Append(kept, [epoch |-> s.epoch, ch |-> ch, corr |-> corr, body |-> b,
                      cached |-> b \in Cacheable, tick |-> s.tick])]
Remembered(s, ch, corr) ==
  {i \in DOMAIN s.dedup : /\ s.dedup[i].epoch = s.epoch
                          /\ s.dedup[i].ch = ch /\ s.dedup[i].corr = corr}

\* The ring is in tick order, so expiry stops at the first live entry.
ExpireDedup(s) ==
  LET live == {i \in DOMAIN s.dedup : Sub(s.tick, s.dedup[i].tick) < DedupTicks}
  IN IF live = {} THEN [s EXCEPT !.dedup = <<>>]
     ELSE LET first == CHOOSE i \in live : \A j \in live : i <= j
          IN [s EXCEPT !.dedup = SubSeq(@, first, Len(@))]
ExpireReassembly(s) ==
  [s EXCEPT !.rasm = [c \in Chans |->
     IF s.rasm[c].open /\ SerialDelta(s.tick, s.rasmDue[c]) >= 0
     THEN Closed ELSE s.rasm[c]]]

-----------------------------------------------------------------------------
(* deliver: one datagram.  src is "peer" for the configured port and for a *)
(* port the engine does not state, "other" for another mod's companion.    *)

\* Mutant: no port filter.
AnyPort(src) == TRUE

Mine(src) == src = "peer"
Receiving == pump.at \in {"idle", "recv"} /\ g.enabled
InSession(f) == g.up /\ f.epoch = g.epoch

\* Mutant: an ACK nobody waits for is taken.
AnswersAgain(f) == g.helloCorr = 0 \/ f.corr = g.helloCorr

\* HELLO_ACK is matched on corr, and adopted only from the expected peer.
Answers(f) == g.helloCorr # 0 /\ f.corr = g.helloCorr
OnHelloAck(src, f) ==
  /\ Receiving /\ Mine(src) /\ f.type = "HELLO_ACK"
  /\ Answers(f) /\ (ExpectPeer = "" \/ f.name = ExpectPeer)
  /\ g' = FreshChannels([g EXCEPT !.epoch = f.epoch, !.up = TRUE,
                           !.helloCorr = 0, !.lastRx = g.tick,
                           !.lastHB = g.tick])
  /\ UNCHANGED <<pump, out>>

\* Counted and otherwise ignored: another mod's datagram, an ACK nobody waits
\* for or from the wrong program, a frame of a session this link is not in.
Ignored(src, f) ==
  \/ ~Mine(src)
  \/ f.type = "HELLO_ACK" /\ ~(Answers(f) /\ (ExpectPeer = "" \/ f.name = ExpectPeer))
  \/ f.type # "HELLO_ACK" /\ ~InSession(f)
OnIgnored(src, f) ==
  /\ Receiving /\ Ignored(src, f)
  /\ UNCHANGED guestVars

OnHeartbeat(src, f) ==
  /\ Receiving /\ Mine(src) /\ f.type = "HEARTBEAT" /\ InSession(f)
  /\ g' = [g EXCEPT !.lastRx = g.tick]
  /\ UNCHANGED <<pump, out>>

OnBye(src, f) ==
  /\ Receiving /\ Mine(src) /\ f.type = "BYE" /\ InSession(f)
  /\ g' = ResetSession([g EXCEPT !.lastRx = g.tick])
  /\ UNCHANGED <<pump, out>>

\* A frame of the session on a known channel.
DataArrives(src, f) ==
  Receiving /\ Mine(src) /\ f.type \in DataTypes /\ InSession(f)

OnStale(src, f) ==
  /\ DataArrives(src, f) /\ Stale(g, f)
  /\ g' = [g EXCEPT !.lastRx = g.tick]
  /\ UNCHANGED <<pump, out>>

OnFragment(src, f) ==
  /\ DataArrives(src, f) /\ ~Stale(g, f) /\ ~Completes(g, f)
  /\ g' = [Accept(g, f) EXCEPT
             !.rasm[f.ch] = IF Disagrees(@, f) THEN Closed ELSE Gather(@, f),
             !.rasmDue[f.ch] = IF Disagrees(g.rasm[f.ch], f) THEN @
                               ELSE Add(g.tick, ReassemblyTicks)]
  /\ UNCHANGED <<pump, out>>

\* f completes a message of this type.
Dispatches(src, f, type) ==
  /\ DataArrives(src, f) /\ ~Stale(g, f) /\ Completes(g, f)
  /\ Message(g, f).type = type

OnMsg(src, f) ==
  /\ Dispatches(src, f, "MSG")
  /\ g' = [Arrived(g, f) EXCEPT
             !.resyncSent[f.ch] = @ /\ Message(g, f).flag # "snapshot"]
  /\ UNCHANGED <<pump, out>>

OnResync(src, f) ==
  /\ Dispatches(src, f, "RESYNC")
  /\ g' = Arrived(g, f)
  /\ UNCHANGED <<pump, out>>

\* A request already executed in this session is answered from the table.
OnReqAgain(src, f) ==
  LET m == Message(g, f)  s == Arrived(g, f)
      hits == Remembered(s, f.ch, m.corr)
      e == s.dedup[CHOOSE i \in hits : \A j \in hits : i <= j]
  IN /\ Dispatches(src, f, "REQ") /\ hits # {}
     /\ g' = IF e.cached THEN SendMessage(s, "RESP", "none", f.ch, m.corr, e.body)
             ELSE SendMessage(s, "RESP", "DUPLICATE", f.ch, m.corr, NoBody)
     /\ UNCHANGED <<pump, out>>

OnReqUnserved(src, f) ==
  /\ Dispatches(src, f, "REQ") /\ f.ch \notin GuestServes
  /\ g' = SendMessage(Arrived(g, f), "RESP", "NO_HANDLER", f.ch,
                      Message(g, f).corr, NoBody)
  /\ UNCHANGED <<pump, out>>

\* The handler runs, inside the dispatch; the answer to b is written b.
OnReqNew(src, f) ==
  LET m == Message(g, f)  s == Arrived(g, f)  b == BodyOf(m.parts)
  IN /\ Dispatches(src, f, "REQ") /\ f.ch \in GuestServes
     /\ Remembered(s, f.ch, m.corr) = {}
     /\ g' = SendMessage(Remember(s, f.ch, m.corr, b),
                         "RESP", "none", f.ch, m.corr, b)
     /\ UNCHANGED <<pump, out>>

\* The requests a RESP settles: at most one.
Answered(s, ch, corr) == {p \in s.pend : p.ch = ch /\ p.corr = corr}
OnResp(src, f) ==
  /\ Dispatches(src, f, "RESP")
  /\ LET s == Arrived(g, f)
     IN g' = [s EXCEPT !.pend = @ \ Answered(s, f.ch, Message(g, f).corr)]
  /\ UNCHANGED <<pump, out>>

Deliver(src, f) ==
  \/ OnHelloAck(src, f) \/ OnIgnored(src, f) \/ OnHeartbeat(src, f)
  \/ OnBye(src, f) \/ OnStale(src, f) \/ OnFragment(src, f) \/ OnMsg(src, f)
  \/ OnResync(src, f) \/ OnReqAgain(src, f) \/ OnReqUnserved(src, f)
  \/ OnReqNew(src, f) \/ OnResp(src, f)

-----------------------------------------------------------------------------
(* The application's calls. *)

Callable == Receiving /\ g.up

\* Send and Snapshot; NotifyFile and WriteBulk are a Send of the notify.
AppSend(ch, flag, b) ==
  /\ Callable /\ Room(g, ch, b)
  /\ g' = SendMessage(g, "MSG", flag, ch, 0, b)
  /\ UNCHANGED <<pump, out>>

AppRequest(ch, b) ==
  LET corr == NextCorr(g.corrCtr)
      p == [ch |-> ch, corr |-> corr, body |-> b, tries |-> 0,
            interval |-> RetryTicks, due |-> Add(g.tick, RetryTicks)]
  IN /\ Callable /\ Cardinality(g.pend) < MaxPending /\ Room(g, ch, b)
     /\ g' = SendMessage([g EXCEPT !.corrCtr = corr, !.pend = @ \cup {p}],
                         "REQ", "none", ch, corr, b)
     /\ UNCHANGED <<pump, out>>

\* A request the queue has no room for has used up its corr.
AppRequestRefused(ch, b) ==
  /\ Callable /\ Cardinality(g.pend) < MaxPending /\ ~Room(g, ch, b)
  /\ g' = [g EXCEPT !.corrCtr = NextCorr(@)]
  /\ UNCHANGED <<pump, out>>

-----------------------------------------------------------------------------
(* Pump. *)

\* A new tick.  serviceGate looks at a shut gate again once per SearchTicks;
\* while it stays shut there is no recv_udp and nothing else either.
PumpBegin ==
  /\ pump.at = "idle"
  /\ \E ok \in BOOLEAN :
       LET tick == Add(g.tick, 1)
           open == g.enabled \/ (ok /\ tick % SearchTicks = 0)
       IN /\ g' = [g EXCEPT !.tick = tick, !.enabled = open]
          /\ pump' = IF open THEN [pump EXCEPT !.at = "recv"] ELSE pump
  /\ UNCHANGED out

\* recv_udp has returned.
PumpReceived ==
  /\ pump.at = "recv"
  /\ g' = ExpireDedup(ExpireReassembly(g))
  /\ pump' = [pump EXCEPT !.at = "session"]
  /\ UNCHANGED out

\* Silence, or a clock that ran backwards past the last frame heard.
PeerLost == \/ SerialDelta(g.tick, g.lastRx) < 0
            \/ SerialDelta(g.tick, g.lastRx) > LivenessTicks

\* Mutant: the search is not repeated.
SearchOnce == g.helloDue

HelloDue == g.helloDue \/ Sub(g.tick, g.lastHello) >= SearchTicks
BeatDue  == Sub(g.tick, g.lastHB) >= HeartbeatTicks /\ Len(g.q["control"]) < MaxQueue

SessionLost ==
  /\ pump.at = "session" /\ g.up /\ PeerLost
  /\ g' = ResetSession(g)
  /\ UNCHANGED <<pump, out>>

\* HELLO goes round the queue.
SessionSearch ==
  LET corr == NextCorr(g.corrCtr)
  IN /\ pump.at = "session" /\ ~g.up /\ HelloDue
     /\ g' = [g EXCEPT !.corrCtr = corr, !.helloCorr = corr, !.helloDue = FALSE,
                       !.lastHello = g.tick]
     /\ out' = Put(out, [type |-> "HELLO", epoch |-> g.boot, corr |-> corr,
                         tick |-> g.tick, name |-> GuestName], SockBuf)
     /\ pump' = [pump EXCEPT !.at = "retry"]

SessionBeat ==
  /\ pump.at = "session" /\ g.up /\ ~PeerLost /\ BeatDue
  /\ g' = [g EXCEPT !.lastHB = g.tick,
             !.q["control"] = Append(@, [type |-> "HEARTBEAT", epoch |-> g.epoch,
                                         tick |-> g.tick])]
  /\ pump' = [pump EXCEPT !.at = "retry"]
  /\ UNCHANGED out

SessionIdle ==
  /\ pump.at = "session"
  /\ g.up => ~PeerLost /\ ~BeatDue
  /\ ~g.up => ~HelloDue
  /\ pump' = [pump EXCEPT !.at = "retry"]
  /\ UNCHANGED <<g, out>>

Due(p) == SerialDelta(g.tick, p.due) >= 0

RetryTimeout(p) ==
  /\ pump.at = "retry" /\ Due(p) /\ p.tries >= MaxRetries
  /\ g' = [g EXCEPT !.pend = @ \ {p}]
  /\ UNCHANGED <<pump, out>>

\* Mutant: no cap.
BackoffUncapped(i) == 2 * i

\* The same corr again; the interval doubles to its cap whether or not the
\* queue had room.
Backoff(i) == IF 2 * i > RetryBackoffCap THEN RetryBackoffCap ELSE 2 * i
RetryResend(p) ==
  /\ pump.at = "retry" /\ Due(p) /\ p.tries < MaxRetries
  /\ g' = SendMessage([g EXCEPT !.pend = (@ \ {p}) \cup
             {[p EXCEPT !.tries = @ + 1, !.interval = Backoff(@),
                        !.due = Add(g.tick, Backoff(p.interval))]}],
           "REQ", "none", p.ch, p.corr, p.body)
  /\ UNCHANGED <<pump, out>>

RetriesDone ==
  /\ pump.at = "retry" /\ \A p \in g.pend : ~Due(p)
  /\ pump' = [at |-> "flush", sent |-> 0]
  /\ UNCHANGED <<g, out>>

\* The control queue first, at most SendBudget frames a tick.
FlushFrame ==
  LET from == IF g.q["control"] # <<>> THEN "control" ELSE "bulk"
  IN /\ pump.at = "flush" /\ pump.sent < SendBudget /\ g.q[from] # <<>>
     /\ out' = Put(out, Head(g.q[from]), SockBuf)
     /\ g' = [g EXCEPT !.q[from] = Tail(@)]
     /\ pump' = [pump EXCEPT !.sent = @ + 1]

FlushDone ==
  /\ pump.at = "flush"
  /\ pump.sent = SendBudget \/ \A p \in Queues : g.q[p] = <<>>
  /\ pump' = Idle
  /\ UNCHANGED <<g, out>>

PumpStage ==
  \/ SessionLost \/ SessionSearch \/ SessionBeat \/ SessionIdle
  \/ \E p \in g.pend : RetryTimeout(p) \/ RetryResend(p)
  \/ RetriesDone \/ FlushFrame \/ FlushDone

-----------------------------------------------------------------------------
(* The link on its own: any datagram of Inbound may arrive at any time,    *)
(* from either source, and the network takes what is sent.                 *)

NetworkTakes == out # <<>> /\ out' = <<>> /\ UNCHANGED <<g, pump>>

GuestNext ==
  \/ \E src \in {"peer", "other"}, f \in Inbound : Deliver(src, f)
  \/ \E ch \in Chans, b \in Bodies \ {NoBody} :
       \/ \E flag \in {"none", "snapshot"} : AppSend(ch, flag, b)
       \/ AppRequest(ch, b) \/ AppRequestRefused(ch, b)
  \/ PumpBegin \/ PumpReceived \/ PumpStage
  \/ NetworkTakes

GuestSpec == GuestInit /\ [][GuestNext]_guestVars

-----------------------------------------------------------------------------
(* Properties. *)

\* Every field holds what its Go type allows (link.go, type Link).
GuestTypeOK ==
  /\ g \in LinkState
  /\ pump \in [at : Stages, sent : Nat]
  /\ out \in Seq(Frame)

\* No queued frame and no remembered answer outlives its session, whatever
\* order a reset, an adoption and the application's calls came in: resetSession
\* and onHelloAck (link.go) agree on what a session boundary leaves behind.
EpochOfQueue ==
  \A p \in Queues : \A i \in DOMAIN g.q[p] : g.q[p][i].epoch = g.epoch
EpochOfDedup == \A i \in DOMAIN g.dedup : g.dedup[i].epoch = g.epoch
Quiesced ==
  ~g.up => /\ g.epoch = 0 /\ g.pend = {} /\ g.dedup = <<>>
           /\ \A p \in Queues : g.q[p] = <<>>
           /\ \A c \in Chans : /\ g.txSeq[c] = 0 /\ g.rxLast[c] = 0
                               /\ ~g.rasm[c].open /\ ~g.resyncSent[c]
SearchingXorUp == g.helloCorr # 0 => ~g.up
SessionBoundary == EpochOfQueue /\ EpochOfDedup /\ Quiesced /\ SearchingXorUp

\* sendMessage checks the room once and queues every fragment: the queue of a
\* priority class never passes MaxQueue frames, heartbeats included.
QueueBounded == \A p \in Queues : Len(g.q[p]) <= MaxQueue

\* No pending request is overlooked: it is due within its interval, which never
\* passes the cap, and no Pump ends with it due, so that it is resent, answered
\* or given up within MaxRetries intervals (Request, serviceRetries).
NoRequestOverlooked ==
  \A p \in g.pend :
    /\ p.tries <= MaxRetries /\ p.interval <= RetryBackoffCap
    /\ SerialDelta(p.due, g.tick) \in
         (IF pump.at \in {"flush", "idle"} THEN 1 ELSE 0) .. p.interval
=============================================================================
