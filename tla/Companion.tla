----------------------------- MODULE Companion ------------------------------
(***************************************************************************)
(* The companion's end of an fkipc link (sdk/go/fkipc/session.go).  The    *)
(* session is a record, c, behind one mutex: every locked section is one   *)
(* action.  A request handler runs outside the lock, so its start and its  *)
(* return are two actions, and what runs meanwhile is in running.          *)
(*                                                                         *)
(* Its timers are in real time, which no bound ties to the game's ticks:   *)
(* a timer that could have expired may expire at any moment.               *)
(***************************************************************************)
EXTENDS Wire

CONSTANTS
  Tokens,           \* the session tokens rnd may return; 0 means no session
  SdkMaxRetries, RollbackTicks,
  SdkCacheable,     \* the answers within DefaultDedupPayload
  SdkServes,        \* the channels Handle was called for
  SdkName, ExpectedName,
  PeerTimeoutSet,   \* Options.PeerTimeout # 0
  ConcurrentPump,   \* a Manual session that several goroutines Pump
  Handlers,         \* bound: as many request handlers run at once
  SdkSockBuf        \* datagrams the game's socket buffer holds

ASSUME CompanionAssumption ==
  /\ Tokens \subseteq Epochs \ {0}
  /\ SdkMaxRetries \in Nat /\ RollbackTicks \in Nat
  /\ SdkCacheable \subseteq Bodies /\ SdkServes \subseteq Chans
  /\ SdkName \in STRING /\ ExpectedName \in STRING
  /\ {PeerTimeoutSet, ConcurrentPump} \subseteq BOOLEAN
  /\ SdkSockBuf \in Nat \ {0} /\ Handlers \in Nat \ {0}

VARIABLES
  c,        \* the session
  running,  \* the request handlers that have started and not returned, numbered
  toGuest   \* the datagrams on their way to the guest
companionVars == <<c, running, toGuest>>

SdkPending == [ch : Chans, corr : Word, body : Bodies, tries : Nat]
SdkDedup   == [epoch : Epochs, ch : Chans, corr : Word,
               state : {"inflight", "cached", "gone"}, body : Bodies]
Invocation == [n : 1 .. Handlers, epoch : Epochs, ch : Chans, corr : Word,
               body : Bodies, awaits : Word]

SessionState ==
  [up : BOOLEAN, epoch : Epochs, quiet : BOOLEAN, closed : BOOLEAN,
   guestHi : Word, byeAllowed : BOOLEAN, corrCtr : Word,
   txSeq : [Chans -> Word], rxLast : [Chans -> Word],
   resyncSent : [Chans -> BOOLEAN], rasm : [Chans -> Reassembly],
   pend : SUBSET SdkPending, dedup : SUBSET SdkDedup]

\* Dial: a process that knows no session.
NewSession ==
  [up |-> FALSE, epoch |-> 0, quiet |-> FALSE, closed |-> FALSE,
   guestHi |-> 0, byeAllowed |-> TRUE, corrCtr |-> 0,
   txSeq |-> [h \in Chans |-> 0], rxLast |-> [h \in Chans |-> 0],
   resyncSent |-> [h \in Chans |-> FALSE], rasm |-> [h \in Chans |-> Closed],
   pend |-> {}, dedup |-> {}]

CompanionInit ==
  /\ c = NewSession /\ running = {} /\ toGuest = <<>>

-----------------------------------------------------------------------------
(* The parts of a locked section.  A section is a function from a step     *)
(* [s, sent] to the next: the session and the datagrams it has sent.       *)

Step(s) == [s |-> s, sent |-> toGuest]
Do(k) == c' = k.s /\ toGuest' = k.sent
Raw(k, f) == [k EXCEPT !.sent = Put(@, f, SdkSockBuf)]

\* A message of at most two frames puts them on the socket at once.
SdkSend(k, type, flag, ch, corr, b) ==
  LET mints == corr = 0 /\ Size[b] > 1
      id == IF mints THEN NextCorr(k.s.corrCtr) ELSE corr
      frames == Fragments(type, flag, ch, k.s.epoch, k.s.txSeq[ch], id, b)
      free == SdkSockBuf - Len(k.sent)
      fit == IF Size[b] < free THEN Size[b] ELSE free
  IN [s |-> [k.s EXCEPT !.txSeq[ch] = Add(@, Size[b]),
                        !.corrCtr = IF mints THEN id ELSE @],
      sent |-> k.sent \o SubSeq(frames, 1, fit)]

\* resetLocked: every pending request is told, nothing is remembered.
Cleared(s) ==
  [s EXCEPT !.pend = {}, !.dedup = {},
            !.txSeq = NewSession.txSeq, !.rxLast = NewSession.rxLast,
            !.resyncSent = NewSession.resyncSent, !.rasm = NewSession.rasm]
Down(s) == IF s.up THEN [Cleared(s) EXCEPT !.up = FALSE, !.epoch = 0] ELSE s

\* An unsolicited BYE, at most one per QuietAfter.
LimitedBye(k, epoch) ==
  IF k.s.byeAllowed
  THEN Raw([k EXCEPT !.s.byeAllowed = FALSE], [type |-> "BYE", epoch |-> epoch])
  ELSE k

SdkIsSnapshot(f) == f.type = "MSG" /\ f.flag = "snapshot"
SdkDelta(f) == SerialDelta(f.seq, c.rxLast[f.ch])
SdkStale(f) == ~SdkIsSnapshot(f) /\ SdkDelta(f) <= 0
SdkGap(f)   == ~SdkIsSnapshot(f) /\ SdkDelta(f) > 1

\* Mutant: the quiet never ends.
HearAndStayQuiet(s) == s

\* Any frame of the session ends the quiet.
Hear(s) == [s EXCEPT !.quiet = FALSE]
SdkAccept(f) ==
  LET heard == Step(Hear(c))
      asked == IF SdkGap(f) /\ ~c.resyncSent[f.ch]
               THEN SdkSend([heard EXCEPT !.s.resyncSent[f.ch] = TRUE],
                            "RESYNC", "none", f.ch, 0, NoBody)
               ELSE heard
  IN [asked EXCEPT !.s.rxLast[f.ch] = f.seq]

SdkCompletes(f) ==
  \/ f.nfrag = 1
  \/ ~Disagrees(c.rasm[f.ch], f) /\ Whole(Gather(c.rasm[f.ch], f))
SdkMessage(f) ==
  LET r == Gather(c.rasm[f.ch], f)
  IN IF f.nfrag = 1
     THEN [type |-> f.type, flag |-> f.flag, corr |-> f.corr,
           parts |-> {<<0, f.body>>}]
     ELSE [type |-> r.type, flag |-> r.flag, corr |-> r.corr, parts |-> r.parts]
SdkArrived(f) ==
  IF f.nfrag = 1 THEN SdkAccept(f)
  ELSE [SdkAccept(f) EXCEPT !.s.rasm[f.ch] = Closed]

-----------------------------------------------------------------------------
(* deliver.  recvLoop takes the next datagram only when the callbacks of   *)
(* the last one have returned; several pumping goroutines do not wait.     *)

Reads == ~c.closed /\ (ConcurrentPump \/ running = {})

\* A HELLO is always a new session, unless it is another program's.  rnd is
\* called until it returns a token that is neither epoch in hand; Fresh is the
\* tokens its 32 random bits can be trusted to come from.
Welcome(f) == ExpectedName = "" \/ f.name = ExpectedName
OnHello(f, Fresh) ==
  /\ Reads /\ f.type = "HELLO" /\ Welcome(f)
  /\ \E e \in Fresh \ {f.epoch, c.epoch} :
       Do(Raw(Step([Cleared(c) EXCEPT !.epoch = e, !.up = TRUE,
                      !.quiet = FALSE, !.guestHi = f.tick]),
              [type |-> "HELLO_ACK", epoch |-> e, corr |-> f.corr,
               name |-> SdkName]))
  /\ UNCHANGED running

OnHelloRefused(f) ==
  /\ Reads /\ f.type = "HELLO" /\ ~Welcome(f)
  /\ Do(LimitedBye(Step(c), f.epoch))
  /\ UNCHANGED running

Current(f) == c.up /\ f.epoch = c.epoch
OnUnknownEpoch(f) ==
  /\ Reads /\ f.type # "HELLO" /\ ~Current(f)
  /\ Do(LimitedBye(Step(c), f.epoch))
  /\ UNCHANGED running

\* The guest's clock against the highest tick of the session.
TimeTravelled(tick) == -SerialDelta(tick, c.guestHi) > RollbackTicks
OnBeat(f) ==
  /\ Reads /\ f.type = "HEARTBEAT" /\ Current(f) /\ ~TimeTravelled(f.tick)
  /\ Do(Step([Hear(c) EXCEPT
           !.guestHi = IF SerialDelta(f.tick, @) > 0 THEN f.tick ELSE @]))
  /\ UNCHANGED running

\* The BYE goes out under the old epoch, before the session is forgotten.
OnRollback(f) ==
  LET told == Raw(Step([Hear(c) EXCEPT !.byeAllowed = FALSE]),
                  [type |-> "BYE", epoch |-> c.epoch])
  IN /\ Reads /\ f.type = "HEARTBEAT" /\ Current(f) /\ TimeTravelled(f.tick)
     /\ Do([told EXCEPT !.s = Down(@)])
     /\ UNCHANGED running

OnPeerBye(f) ==
  /\ Reads /\ f.type = "BYE" /\ Current(f)
  /\ Do(Step(Down(Hear(c))))
  /\ UNCHANGED running

SdkDataArrives(f) == Reads /\ f.type \in DataTypes /\ Current(f)
SdkOnStale(f) ==
  /\ SdkDataArrives(f) /\ SdkStale(f)
  /\ Do(Step(Hear(c)))
  /\ UNCHANGED running

SdkOnFragment(f) ==
  /\ SdkDataArrives(f) /\ ~SdkStale(f) /\ ~SdkCompletes(f)
  /\ Do([SdkAccept(f) EXCEPT !.s.rasm[f.ch] =
           IF Disagrees(@, f) THEN Closed ELSE Gather(@, f)])
  /\ UNCHANGED running

SdkDispatches(f, type) ==
  /\ SdkDataArrives(f) /\ ~SdkStale(f) /\ SdkCompletes(f)
  /\ SdkMessage(f).type = type

\* Mutant: a snapshot does not end the wait for one.
SdkOnMsgStillWaits(f) ==
  /\ SdkDispatches(f, "MSG")
  /\ Do(SdkArrived(f))
  /\ UNCHANGED running

SdkOnMsg(f) ==
  /\ SdkDispatches(f, "MSG")
  /\ Do([SdkArrived(f) EXCEPT !.s.resyncSent[f.ch] =
           @ /\ SdkMessage(f).flag # "snapshot"])
  /\ UNCHANGED running

SdkOnResync(f) ==
  /\ SdkDispatches(f, "RESYNC")
  /\ Do(SdkArrived(f))
  /\ UNCHANGED running

\* Mutant: only a handler that is running is remembered.
KnownRunning(ch, corr) ==
  {d \in c.dedup : /\ d.epoch = c.epoch /\ d.ch = ch /\ d.corr = corr
                   /\ d.state = "inflight"}

Known(ch, corr) ==
  {d \in c.dedup : d.epoch = c.epoch /\ d.ch = ch /\ d.corr = corr}
SdkOnReqAgain(f) ==
  LET corr == SdkMessage(f).corr
  IN /\ SdkDispatches(f, "REQ")
     /\ \E d \in Known(f.ch, corr) :
          Do(CASE d.state = "inflight" ->
                    SdkSend(SdkArrived(f), "RESP", "BUSY", f.ch, corr, NoBody)
               [] d.state = "cached" ->
                    SdkSend(SdkArrived(f), "RESP", "none", f.ch, corr, d.body)
               [] d.state = "gone" ->
                    SdkSend(SdkArrived(f), "RESP", "DUPLICATE", f.ch, corr, NoBody))
     /\ UNCHANGED running

SdkOnReqUnserved(f) ==
  /\ SdkDispatches(f, "REQ") /\ f.ch \notin SdkServes
  /\ Do(SdkSend(SdkArrived(f), "RESP", "NO_HANDLER", f.ch,
                SdkMessage(f).corr, NoBody))
  /\ UNCHANGED running

\* The request is marked in flight under the lock; its handler starts after.  A
\* handler goes by the least number that no other has.
FreeNumbers == {n \in 1 .. Handlers : \A r \in running : r.n # n}
SdkOnReqNew(f) ==
  LET m == SdkMessage(f)
      mark == [epoch |-> c.epoch, ch |-> f.ch, corr |-> m.corr,
               state |-> "inflight", body |-> NoBody]
  IN /\ SdkDispatches(f, "REQ") /\ f.ch \in SdkServes
     /\ Known(f.ch, m.corr) = {}
     /\ Do([SdkArrived(f) EXCEPT !.s.dedup = @ \cup {mark}])
     /\ \E n \in FreeNumbers :
          /\ \A k \in FreeNumbers : n <= k
          /\ running' = running \cup
               {[n |-> n, epoch |-> c.epoch, ch |-> f.ch, corr |-> m.corr,
                 body |-> BodyOf(m.parts), awaits |-> 0]}

SdkOnResp(f) ==
  /\ SdkDispatches(f, "RESP")
  /\ Do([SdkArrived(f) EXCEPT
           !.s.pend = {p \in @ : p.corr # SdkMessage(f).corr}])
  /\ UNCHANGED running

SdkDeliver(f, Fresh) ==
  \/ OnHello(f, Fresh) \/ OnHelloRefused(f) \/ OnUnknownEpoch(f) \/ OnBeat(f)
  \/ OnRollback(f) \/ OnPeerBye(f) \/ SdkOnStale(f) \/ SdkOnFragment(f)
  \/ SdkOnMsg(f) \/ SdkOnResync(f) \/ SdkOnReqAgain(f) \/ SdkOnReqUnserved(f)
  \/ SdkOnReqNew(f) \/ SdkOnResp(f)

-----------------------------------------------------------------------------
(* A handler's return.  It answers under the session of that moment.       *)

Unblocked(r) == \A p \in c.pend : p.corr # r.awaits
AnswerKey(d, r) == d.epoch = c.epoch /\ d.ch = r.ch /\ d.corr = r.corr

HandlerReturns(r) ==
  LET entry == [epoch |-> c.epoch, ch |-> r.ch, corr |-> r.corr,
                state |-> IF r.body \in SdkCacheable THEN "cached" ELSE "gone",
                body |-> IF r.body \in SdkCacheable THEN r.body ELSE NoBody]
      kept == {d \in c.dedup : ~AnswerKey(d, r)}
  IN /\ r \in running /\ Unblocked(r) /\ ~c.closed
     /\ running' = running \ {r}
     /\ Do(SdkSend(Step([c EXCEPT !.dedup = kept \cup {entry}]),
                   "RESP", "none", r.ch, r.corr, r.body))

\* A handler that fails is forgotten: the next retry runs it again.
HandlerFails(r) ==
  /\ r \in running /\ Unblocked(r) /\ ~c.closed
  /\ running' = running \ {r}
  /\ Do(SdkSend(Step([c EXCEPT !.dedup = {d \in @ : ~AnswerKey(d, r)}]),
                "RESP", "APP", r.ch, r.corr, NoBody))

-----------------------------------------------------------------------------
(* The application's calls. *)

Sendable == ~c.closed /\ c.up /\ ~c.quiet

SdkAppSend(ch, flag, b) ==
  /\ Sendable
  /\ Do(SdkSend(Step(c), "MSG", flag, ch, 0, b))
  /\ UNCHANGED running

SdkAppResync(ch) ==
  /\ Sendable
  /\ Do(SdkSend(Step(c), "RESYNC", "none", ch, 0, NoBody))
  /\ UNCHANGED running

Asked(ch, b) ==
  LET corr == NextCorr(c.corrCtr)
  IN Do(SdkSend(Step([c EXCEPT !.corrCtr = corr,
                        !.pend = @ \cup {[ch |-> ch, corr |-> corr, body |-> b,
                                          tries |-> 0]}]),
                "REQ", "none", ch, corr, b))
SdkAppRequest(ch, b) ==
  /\ Sendable /\ Asked(ch, b)
  /\ UNCHANGED running

\* A handler issues a Request of its own and blocks for the answer.
HandlerRequests(r, ch, b) ==
  /\ r \in running /\ r.awaits = 0
  /\ Sendable /\ Asked(ch, b)
  /\ running' = (running \ {r}) \cup {[r EXCEPT !.awaits = NextCorr(c.corrCtr)]}

\* Close: a BYE, and every pending request is told ErrSessionShut.  Nothing
\* looks at what a closed session held.
Gone == [NewSession EXCEPT !.closed = TRUE]
Close ==
  /\ ~c.closed
  /\ c' = Gone /\ running' = {}
  /\ toGuest' = IF c.up THEN Put(toGuest, [type |-> "BYE", epoch |-> c.epoch],
                                 SdkSockBuf)
                ELSE toGuest

-----------------------------------------------------------------------------
(* runTimers. *)

TimerIdle == UNCHANGED <<running, toGuest>>

QuietTimer ==
  /\ ~c.closed /\ c.up /\ ~c.quiet
  /\ c' = [c EXCEPT !.quiet = TRUE] /\ TimerIdle

PeerTimer ==
  /\ PeerTimeoutSet /\ ~c.closed /\ c.up
  /\ c' = Down(c) /\ TimerIdle

ReassemblyTimer(ch) ==
  /\ ~c.closed /\ c.rasm[ch].open
  /\ c' = [c EXCEPT !.rasm[ch] = Closed] /\ TimerIdle

DedupTimer(d) ==
  /\ ~c.closed /\ d \in c.dedup
  /\ c' = [c EXCEPT !.dedup = @ \ {d}] /\ TimerIdle

\* Retries wait while the guest is quiet.
SdkResend(p) ==
  /\ ~c.closed /\ ~c.quiet /\ p \in c.pend /\ p.tries < SdkMaxRetries
  /\ Do(SdkSend(Step([c EXCEPT !.pend = (@ \ {p}) \cup
                         {[p EXCEPT !.tries = @ + 1]}]),
                "REQ", "none", p.ch, p.corr, p.body))
  /\ UNCHANGED running

SdkGivesUp(p) ==
  /\ ~c.closed /\ ~c.quiet /\ p \in c.pend /\ p.tries >= SdkMaxRetries
  /\ c' = [c EXCEPT !.pend = @ \ {p}] /\ TimerIdle

\* The guest reads nothing of a heartbeat but that it came.
BeatTimer ==
  /\ ~c.closed /\ c.up
  /\ Do(Raw(Step(c), [type |-> "HEARTBEAT", epoch |-> c.epoch, tick |-> 0]))
  /\ UNCHANGED running

ByeWindow ==
  /\ ~c.closed /\ ~c.byeAllowed
  /\ c' = [c EXCEPT !.byeAllowed = TRUE] /\ TimerIdle

-----------------------------------------------------------------------------
(* Properties. *)

\* Every field holds what its Go type allows (session.go, type Session).
CompanionTypeOK ==
  /\ c \in SessionState
  /\ running \subseteq Invocation
  /\ toGuest \in Seq(Frame)
=============================================================================
