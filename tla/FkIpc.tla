------------------------------- MODULE FkIpc --------------------------------
(***************************************************************************)
(* An fkipc session: the guest's link and the companion's session over two *)
(* localhost sockets that may lose, duplicate or reorder datagrams, a game *)
(* that saves and loads, a companion that closes and is started again.     *)
(*                                                                         *)
(* While a Pump runs nothing else moves: its stages read nothing of the    *)
(* companion but what has arrived, and what they send is read later in any *)
(* case.                                                                   *)
(***************************************************************************)
EXTENDS GuestLink, Companion

CONSTANTS
  GuestReqs, SdkReqs,    \* the requests each application makes, once each
  GuestMsgs, SdkMsgs,    \* the messages 1 .. n each application sends, in order
  Snapshots,             \* a message may be sent as a snapshot unasked
  OtherModsToken,        \* the epoch another mod's companion offers
  MaxTick, MaxLoss, MaxDup, MaxLoads, MaxStops, MaxStray,
  MaxFaults,             \* bounds
  Reorder,               \* datagrams may overtake each other
  Timed,                 \* both ends keep up with each other (see Timed steps)
  Failures,              \* request handlers may fail
  Nested                 \* handlers may issue a Request of their own

Reqs == GuestReqs \cup SdkReqs

OtherModName == "another mod"  \* no companion's ExpectedName

ASSUME FkIpcAssumption ==
  /\ Bodies \subseteq Nat /\ NoBody = 0
  /\ GuestReqs \subseteq Bodies /\ SdkReqs \subseteq Bodies
  /\ GuestReqs \cap SdkReqs = {}
  /\ {GuestMsgs, SdkMsgs, MaxTick, MaxLoss, MaxDup, MaxLoads, MaxStops,
      MaxStray, MaxFaults} \subseteq Nat
  /\ {Reorder, Timed, Failures, Nested, Snapshots} \subseteq BOOLEAN
  /\ 0 .. GuestMsgs \subseteq Bodies /\ 0 .. SdkMsgs \subseteq Bodies
  /\ OtherModsToken \in Epochs \ (Tokens \cup {0})
  /\ OtherModName \in STRING

VARIABLES
  saved,   \* the save file: {} or the guest memory it holds, [link, h]
  owed,    \* channels whose resync the applications have still to answer
  used,    \* faults so far: [loss, dup, loads, stops, stray]
  lead,    \* Timed: pumps since the companion last ran its timers
  h,       \* history: who executed, who was told, who said and heard what
  lapsed   \* history: the requests forgotten while a retry was still to come
vars == <<g, pump, out, c, running, toGuest, saved, owed, used, lead, h, lapsed>>

Init ==
  /\ GuestInit /\ CompanionInit
  /\ saved = {} /\ owed = [guest |-> {}, sdk |-> {}]
  /\ used = [loss |-> 0, dup |-> 0, loads |-> 0, stops |-> 0,
             stray |-> 0]
  /\ lead = 0
  /\ h = [asked |-> {}, ran |-> [r \in Reqs |-> 0],
          told |-> [r \in Reqs |-> <<>>],
          said |-> [guest |-> 0, sdk |-> 0],
          heard |-> [guest |-> <<>>, sdk |-> <<>>]]
  /\ lapsed = {}

-----------------------------------------------------------------------------
(* History. *)

\* Every request that left pending in a step is told the same outcome.
Settled(hist, before, after, Outcome(_)) ==
  LET gone == {p.body : p \in before} \ {p.body : p \in after}
  IN [hist EXCEPT !.told = [r \in Reqs |->
        IF r \in gone THEN Append(@[r], Outcome(r)) ELSE @[r]]]

\* What the application hears of request r in message m.
ReplyOf(m, r) == IF m.flag \in Errors THEN m.flag
                 ELSE IF BodyOf(m.parts) = r /\ Intact(m.parts) THEN "answer"
                 ELSE "wrong"
Lost(r) == "lost"

Ran(hist, r) == IF r \in Reqs THEN [hist EXCEPT !.ran[r] = @ + 1] ELSE hist
Heard(hist, who, epoch, m) ==
  [hist EXCEPT !.heard[who] = Append(@, [epoch |-> epoch, n |-> BodyOf(m.parts),
                                         snapshot |-> m.flag = "snapshot",
                                         intact |-> Intact(m.parts)])]

-----------------------------------------------------------------------------
(* The requests on their way. *)

Call(e, x) == [epoch |-> e, ch |-> x.ch, corr |-> x.corr, body |-> x.body]
Calls(X) == {Call(x.epoch, x) : x \in X}
RequestFrames(F) == {f \in F : f.type = "REQ"}

\* What each end may still be heard to ask: what waits for its answer will be
\* sent again, and what was sent may arrive.
Queued(s) == UNION {Datagrams(s.q[p]) : p \in Queues}
LinkAsking(s) == {Call(s.epoch, p) : p \in s.pend} \cup Calls(RequestFrames(Queued(s)))
TurnAsking(k) == {Call(k.s.epoch, p) : p \in k.s.pend}
                 \cup Calls(RequestFrames(Datagrams(k.sent)))
GuestAsking == LinkAsking(g) \cup Calls(RequestFrames(Datagrams(out)))
SdkAsking == TurnAsking(Step(c))

\* The requests that entries D, now forgotten, were there to know again.
Forgotten(D, asking) ==
  {x.body : x \in {y \in asking :
     \E d \in D : d.epoch = y.epoch /\ d.ch = y.ch /\ d.corr = y.corr}}

\* What a step of the guest expires or evicts within its session.
GuestForgets ==
  IF g.up /\ g'.up /\ g'.epoch = g.epoch
  THEN Forgotten(Datagrams(g.dedup) \ Datagrams(g'.dedup), SdkAsking)
  ELSE {}

-----------------------------------------------------------------------------
(* The sockets. *)

Without(sock, i) == SubSeq(sock, 1, i - 1) \o SubSeq(sock, i + 1, Len(sock))
Readable(sock) == IF Reorder THEN DOMAIN sock ELSE DOMAIN sock \cap {1}
Quiescent == pump.at = "idle"

\* Bounds: each kind of fault happens Max... times, any fault MaxFaults times.
Faults == used.loss + used.dup + used.loads + used.stops + used.stray
May(count, max) == count < max /\ Faults < MaxFaults

Lose ==
  /\ Quiescent /\ May(used.loss, MaxLoss)
  /\ \/ \E i \in DOMAIN out : out' = Without(out, i) /\ UNCHANGED toGuest
     \/ \E i \in DOMAIN toGuest : toGuest' = Without(toGuest, i) /\ UNCHANGED out
  /\ used' = [used EXCEPT !.loss = @ + 1]
  /\ UNCHANGED <<g, pump, c, running, saved, owed, lead, h, lapsed>>

\* The copy arrives behind everything sent so far.
Duplicate ==
  /\ Quiescent /\ May(used.dup, MaxDup)
  /\ \/ /\ Len(out) < SockBuf /\ UNCHANGED toGuest
        /\ \E i \in DOMAIN out : out' = Append(out, out[i])
     \/ /\ Len(toGuest) < SdkSockBuf /\ UNCHANGED out
        /\ \E i \in DOMAIN toGuest : toGuest' = Append(toGuest, toGuest[i])
  /\ used' = [used EXCEPT !.dup = @ + 1]
  /\ UNCHANGED <<g, pump, c, running, saved, owed, lead, h, lapsed>>

-----------------------------------------------------------------------------
(* The guest's steps. *)

\* What the application learns from datagram f.
GuestLearns(f) ==
  LET m == Message(g, f)
  IN IF ~(f.type \in DataTypes /\ InSession(f) /\ ~Stale(g, f) /\ Completes(g, f))
     THEN Settled(h, g.pend, g'.pend, Lost)
     ELSE CASE m.type = "RESP" ->
                 Settled(h, g.pend, g'.pend, LAMBDA r : ReplyOf(m, r))
            [] m.type = "MSG" -> Heard(h, "guest", f.epoch, m)
            [] m.type = "REQ" /\ f.ch \in GuestServes
                 /\ Remembered(Arrived(g, f), f.ch, m.corr) = {} ->
                 Ran(h, BodyOf(m.parts))
            [] OTHER -> h

Resyncs(f, arrives) == IF arrives THEN {f.ch} ELSE {}

GuestReceives ==
  /\ pump.at = "recv"
  /\ \E i \in Readable(toGuest) :
       LET f == toGuest[i]
       IN /\ toGuest' = Without(toGuest, i)
          /\ Deliver("peer", f)
          /\ h' = GuestLearns(f)
          /\ owed' = [owed EXCEPT !.guest = @ \cup
                        Resyncs(f, Dispatches("peer", f, "RESYNC"))]
  /\ lapsed' = lapsed \cup GuestForgets
  /\ UNCHANGED <<c, running, saved, used, lead>>

\* Another mod's companion answers that mod's HELLO, which bore the same corr:
\* the game has one socket and every mod sees every datagram.
OtherModAnswers ==
  /\ pump.at = "recv" /\ g.helloCorr # 0
  /\ Deliver("other", [type |-> "HELLO_ACK", epoch |-> OtherModsToken,
                       corr |-> g.helloCorr, name |-> SdkName])
  /\ UNCHANGED <<c, running, toGuest, saved, owed, used, lead, h, lapsed>>

GuestSays ==
  /\ \E ch \in Chans :
       \/ /\ h.said.guest < GuestMsgs
          /\ \E flag \in {"none"} \cup (IF Snapshots THEN {"snapshot"} ELSE {}) :
               AppSend(ch, flag, h.said.guest + 1)
          /\ h' = [h EXCEPT !.said.guest = @ + 1]
          /\ UNCHANGED owed
       \/ /\ ch \in owed.guest
          /\ AppSend(ch, "snapshot", h.said.guest)
          /\ owed' = [owed EXCEPT !.guest = @ \ {ch}]
          /\ UNCHANGED h
  /\ UNCHANGED <<c, running, toGuest, saved, used, lead, lapsed>>

GuestAsks ==
  /\ g.tick < MaxTick
  /\ \E ch \in Chans, r \in GuestReqs \ h.asked :
       /\ \/ AppRequest(ch, r) /\ h' = [h EXCEPT !.asked = @ \cup {r}]
          \/ AppRequestRefused(ch, r) /\ UNCHANGED h
  /\ UNCHANGED <<c, running, toGuest, saved, owed, used, lead, lapsed>>

\* Timed steps: a Pump reads everything that has arrived and the companion
\* answers within MaxLead ticks, which is what DefaultHeartbeat < LivenessTicks
\* presumes.
MaxLead == 1
MaxDown == 5  \* bound: ticks a companion that stopped stays away

PumpStarts ==
  /\ IF Timed THEN lead < IF c.closed THEN MaxDown ELSE MaxLead
     ELSE g.tick < MaxTick
  /\ PumpBegin
  /\ lead' = IF Timed THEN lead + 1 ELSE 0
  /\ UNCHANGED <<c, running, toGuest, saved, owed, used, h, lapsed>>

PumpRuns ==
  /\ \/ PumpReceived /\ (Timed => toGuest = <<>>)
     \/ PumpStage
  /\ h' = Settled(h, g.pend, g'.pend,
                  LAMBDA r : IF pump.at = "session" THEN "lost" ELSE "timeout")
  /\ lapsed' = lapsed \cup GuestForgets
  /\ UNCHANGED <<c, running, toGuest, saved, owed, used, lead>>

Save ==
  /\ Quiescent /\ used.loads < MaxLoads /\ saved = {}
  /\ Faults = 0 /\ g.tick < MaxTick
  /\ saved' = {[link |-> g, h |-> h]}
  /\ UNCHANGED <<g, pump, out, c, running, toGuest, owed, used, lead, h, lapsed>>

\* A load puts the memory back and resets nothing (Reload).  What the guest's
\* application asked and was told is in that memory too.
Load ==
  /\ Quiescent /\ May(used.loads, MaxLoads)
  /\ \E s \in saved :
       /\ g' = s.link
       /\ h' = [h EXCEPT
                  !.asked = (@ \ GuestReqs) \cup (s.h.asked \cap GuestReqs),
                  !.told = [r \in Reqs |-> IF r \in GuestReqs THEN s.h.told[r]
                                           ELSE @[r]]]
  /\ used' = [used EXCEPT !.loads = @ + 1]
  /\ UNCHANGED <<pump, out, c, running, toGuest, saved, owed, lead, lapsed>>

-----------------------------------------------------------------------------
(* The companion's steps. *)

SdkLearns(f) ==
  LET m == SdkMessage(f)
  IN IF ~(f.type \in DataTypes /\ Current(f) /\ ~SdkStale(f) /\ SdkCompletes(f))
     THEN Settled(h, c.pend, c'.pend, Lost)
     ELSE CASE m.type = "RESP" ->
                 Settled(h, c.pend, c'.pend, LAMBDA r : ReplyOf(m, r))
            [] m.type = "MSG" -> Heard(h, "sdk", f.epoch, m)
            [] OTHER -> h

\* 32 random bits do not repeat a token that anything still holds; which of
\* the others they are makes no difference, so Fresh takes the least.
Held == {c.epoch, g.epoch} \cup {s.link.epoch : s \in saved}
        \cup {out[i].epoch : i \in DOMAIN out}
        \cup {toGuest[i].epoch : i \in DOMAIN toGuest}
        \cup {r.epoch : r \in running}
Fresh(f) == LET free == Tokens \ (Held \cup {f.epoch})
            IN {e \in free : \A d \in free : e <= d}

SdkReceives ==
  /\ Quiescent
  /\ \E i \in Readable(out) :
       LET f == out[i]
       IN /\ out' = Without(out, i)
          /\ SdkDeliver(f, Fresh(f))
          /\ h' = SdkLearns(f)
          /\ owed' = [owed EXCEPT !.sdk = @ \cup
                        Resyncs(f, SdkDispatches(f, "RESYNC"))]
  /\ UNCHANGED <<g, pump, saved, used, lead, lapsed>>

\* Another mod, whose port was configured wrongly, says HELLO here.
StrayHello ==
  /\ Quiescent /\ May(used.stray, MaxStray)
  /\ LET f == [type |-> "HELLO", epoch |-> 0, corr |-> 1, tick |-> 0,
               name |-> OtherModName]
     IN SdkDeliver(f, Fresh(f))
  /\ h' = Settled(h, c.pend, c'.pend, Lost)
  /\ used' = [used EXCEPT !.stray = @ + 1]
  /\ UNCHANGED <<g, pump, out, saved, owed, lead, lapsed>>

HandlerEnds ==
  /\ Quiescent
  /\ \E r \in running :
       \/ HandlerReturns(r) /\ h' = Ran(h, r.body)
       \/ Failures /\ HandlerFails(r) /\ UNCHANGED h
  /\ UNCHANGED <<g, pump, out, saved, owed, used, lead, lapsed>>

HandlerAsks ==
  /\ Quiescent /\ Nested
  /\ \E r \in running, ch \in Chans, b \in SdkReqs \ h.asked :
       /\ HandlerRequests(r, ch, b)
       /\ h' = [h EXCEPT !.asked = @ \cup {b}]
  /\ UNCHANGED <<g, pump, out, saved, owed, used, lead, lapsed>>

SdkAsks ==
  /\ Quiescent /\ g.tick < MaxTick
  /\ \E ch \in Chans, b \in SdkReqs \ h.asked :
       /\ SdkAppRequest(ch, b)
       /\ h' = [h EXCEPT !.asked = @ \cup {b}]
  /\ UNCHANGED <<g, pump, out, running, saved, owed, used, lead, lapsed>>

SdkSays ==
  /\ Quiescent
  /\ \E ch \in Chans :
       \/ /\ h.said.sdk < SdkMsgs
          /\ \E flag \in {"none"} \cup (IF Snapshots THEN {"snapshot"} ELSE {}) :
               SdkAppSend(ch, flag, h.said.sdk + 1)
          /\ h' = [h EXCEPT !.said.sdk = @ + 1]
          /\ UNCHANGED owed
       \/ /\ ch \in owed.sdk
          /\ SdkAppSend(ch, "snapshot", h.said.sdk)
          /\ owed' = [owed EXCEPT !.sdk = @ \ {ch}]
          /\ UNCHANGED h
       \/ /\ Snapshots /\ h.said.sdk < SdkMsgs /\ SdkAppResync(ch)
          /\ h' = [h EXCEPT !.said.sdk = @ + 1]
          /\ UNCHANGED owed
  /\ UNCHANGED <<g, pump, out, running, saved, used, lead, lapsed>>

\* Timed: two seconds are longer than the fragments of one message are apart.
FragmentsToCome(ch) ==
  \/ \E i \in DOMAIN out : out[i].type \in DataTypes /\ out[i].corr = c.rasm[ch].corr
  \/ \E q \in Queues : \E i \in DOMAIN g.q[q] :
       g.q[q][i].type \in DataTypes /\ g.q[q][i].corr = c.rasm[ch].corr

\* Timed: a guest that keeps up seems silent only while nobody reads, or for as
\* long as the game is paused - which matters while a request is pending.
GuestSilent == ~Timed \/ ~Reads
Paused == c.pend # {}

\* A mark or an answer expires by the companion's clock, even of a handler that
\* runs and while a guest whose game is paused has its retries still to send.
DedupExpires ==
  \E d \in c.dedup :
    DedupTimer(d) /\ UNCHANGED h /\ lapsed' = lapsed \cup Forgotten({d}, GuestAsking)

SdkTimers ==
  /\ Quiescent
  /\ \/ DedupExpires
     \/ /\ \/ (GuestSilent \/ Paused) /\ QuietTimer /\ UNCHANGED h
           \/ GuestSilent /\ PeerTimer /\ h' = Settled(h, c.pend, c'.pend, Lost)
           \/ \E ch \in Chans : /\ Timed => ~FragmentsToCome(ch)
                                /\ ReassemblyTimer(ch) /\ UNCHANGED h
           \/ ~Timed /\ toGuest = <<>> /\ BeatTimer /\ UNCHANGED h
           \/ ByeWindow /\ UNCHANGED h
        /\ UNCHANGED lapsed
  /\ UNCHANGED <<g, pump, out, saved, owed, used, lead>>

SdkRetries ==
  /\ Quiescent
  /\ \E p \in c.pend :
       \/ SdkResend(p) /\ UNCHANGED h
       \/ SdkGivesUp(p) /\ h' = Settled(h, c.pend, c'.pend, LAMBDA r : "timeout")
  /\ UNCHANGED <<g, pump, out, saved, owed, used, lead, lapsed>>

\* Timed: one turn of timerLoop, everything that arrived having been read.
TimerRound ==
  /\ Quiescent /\ Timed /\ lead # 0
  /\ ~c.closed /\ (out = <<>> \/ ~Reads)
  /\ IF c.up THEN BeatTimer
     ELSE UNCHANGED <<c, running, toGuest>>
  /\ lead' = 0
  /\ UNCHANGED <<g, pump, out, saved, owed, used, h, lapsed>>

\* The companion stops, with a word or without one, and is started again.
SdkStops ==
  /\ Quiescent /\ May(used.stops, MaxStops)
  /\ \/ Close
     \/ ~c.closed /\ c' = Gone /\ running' = {} /\ UNCHANGED toGuest
  /\ h' = Settled(h, c.pend, c'.pend, LAMBDA r : "shut")
  /\ used' = [used EXCEPT !.stops = @ + 1]
  /\ UNCHANGED <<g, pump, out, saved, owed, lead, lapsed>>

SdkStarts ==
  /\ Quiescent /\ c.closed
  /\ c' = NewSession /\ lead' = 0
  /\ UNCHANGED <<g, pump, out, running, toGuest, saved, owed, used, h, lapsed>>

\* A datagram to a companion that is not there is lost.
NobodyListens ==
  /\ Quiescent /\ c.closed /\ out # <<>>
  /\ out' = <<>>
  /\ UNCHANGED <<g, pump, c, running, toGuest, saved, owed, used, lead, h, lapsed>>

-----------------------------------------------------------------------------
GuestMoves == GuestReceives \/ PumpStarts \/ PumpRuns
SdkMoves == SdkReceives \/ HandlerEnds \/ SdkTimers \/ SdkRetries \/ TimerRound

Next ==
  \/ GuestMoves \/ GuestSays \/ GuestAsks \/ OtherModAnswers
  \/ SdkMoves \/ SdkSays \/ SdkAsks \/ HandlerAsks
  \/ Lose \/ Duplicate \/ Save \/ Load \/ SdkStops \/ SdkStarts
  \/ NobodyListens \/ StrayHello

Spec == Init /\ [][Next]_vars

(***************************************************************************)
(* Fairness, for Timed runs.  The engine raises on_tick on every tick and  *)
(* Pump runs to its end; recvLoop and timerLoop are goroutines that the    *)
(* scheduler does not starve; a handler that is not waiting for anything   *)
(* returns; a companion that stopped is started again; an application      *)
(* answers a RESYNC.  What waits for a Pump to end is disabled while it    *)
(* runs, so its fairness is strong.  Nothing obliges the network, the      *)
(* player who loads or the applications' own calls.                        *)
(***************************************************************************)
AnswersResync ==
  \/ \E ch \in owed.guest : GuestSays /\ ch \notin owed'.guest
  \/ \E ch \in owed.sdk : SdkSays /\ ch \notin owed'.sdk
Fairness ==
  /\ WF_vars(GuestReceives) /\ WF_vars(PumpStarts) /\ WF_vars(PumpRuns)
  /\ WF_vars(SdkReceives) /\ WF_vars(TimerRound)
  /\ SF_vars(HandlerEnds) /\ SF_vars(SdkRetries) /\ SF_vars(SdkStarts)
  /\ SF_vars(AnswersResync)
FairSpec == Spec /\ Fairness

-----------------------------------------------------------------------------
(* Properties. *)

TypeOK ==
  /\ GuestTypeOK /\ CompanionTypeOK
  /\ \A s \in saved : s.link \in LinkState
  /\ owed \in [guest : SUBSET Chans, sdk : SUBSET Chans]
  /\ used \in [loss : 0 .. MaxLoss, dup : 0 .. MaxDup, loads : 0 .. MaxLoads,
              stops : 0 .. MaxStops, stray : 0 .. MaxStray]
  /\ lead \in 0 .. MaxDown

\* In one session neither end has heard more of a channel than the other has
\* said: no reset, adoption, repeated HELLO or late frame leaves the two ends'
\* seq counters apart (resetSession, onHelloAck; onHello, resetLocked).
SameSession == g.up /\ c.up /\ g.epoch = c.epoch
HeardWasSaid ==
  SameSession =>
    \A ch \in Chans : /\ SerialDelta(g.txSeq[ch], c.rxLast[ch]) >= 0
                      /\ SerialDelta(c.txSeq[ch], g.rxLast[ch]) >= 0

\* Requests of both sides, with their retries, lost answers, dedup tables and
\* session ends, are calls executed at most once, unless the answerer's entry
\* lapsed with a retry still to come (serviceRetries, onReq, onResp, the expiry
\* and eviction of dedup entries on both sides, resetSession, failAllLocked).
Rpc == INSTANCE AtMostOnceRpc
         WITH Requests <- Reqs, asked <- h.asked, ran <- h.ran, told <- h.told
AtMostOnceCalls == Rpc!Spec

\* What ipc.md says of the in-flight mark and of the tables: no handler is run to
\* its end twice for one request.
ExecutedOnce == \A r \in Reqs : h.ran[r] <= 1

\* No answer is another request's, however a lost frame, a retry or a restored
\* save aligned their corrs (findDedup, findPending; onReq, onResp).
NoWrongAnswer == \A r \in Reqs : \A i \in DOMAIN h.told[r] : h.told[r][i] # "wrong"

\* Every message an application is handed is one message the other sent, whole:
\* fragments of two messages are never put together (reassemble on both sides).
NothingTorn == \A who \in {"guest", "sdk"} : \A i \in DOMAIN h.heard[who] :
                 h.heard[who][i].intact

\* Within a session, a message that is not a snapshot is newer than the one
\* heard before it, in whatever order the datagrams came (channelFrame).
NewsIsNew ==
  \A who \in {"guest", "sdk"} : \A i \in 2 .. Len(h.heard[who]) :
    LET last == h.heard[who][i - 1]  now == h.heard[who][i]
    IN now.epoch = last.epoch /\ ~now.snapshot => now.n > last.n

\* What link.go says of snapshots too: accepting one never delivers a world
\* older than the one already delivered.
WorldsMoveForward ==
  \A who \in {"guest", "sdk"} : \A i \in 2 .. Len(h.heard[who]) :
    LET last == h.heard[who][i - 1]  now == h.heard[who][i]
    IN now.epoch = last.epoch => now.n >= last.n

\* Once nothing more goes wrong the two ends share a session and keep it,
\* whatever was lost, restored or restarted and whoever else shares the socket
\* (serviceSession, sendHello, onHelloAck; onHello, deliver, rollbackLocked).
Converges == <>[](g.enabled => SameSession)

\* A link only ever adopts its own companion's session (deliver's port filter).
OwnSession == g.epoch # OtherModsToken

\* Every request comes to an end for the application that made it: an answer,
\* a timeout, or the news that its session ended (serviceRetries, runTimers).
\* A load can undo the asking.
EveryRequestSettles ==
  \A r \in Reqs : r \in h.asked ~> (r \notin h.asked \/ h.told[r] # <<>>)

\* A gap that was noticed is repaired by a snapshot, or the session ends
\* (channelFrame, OnResync, dispatch).
GapsAreRepaired ==
  \A ch \in Chans : /\ g.resyncSent[ch] ~> ~g.resyncSent[ch]
                    /\ c.resyncSent[ch] ~> ~c.resyncSent[ch]

\* A request handler that has started returns, whatever it calls (session.go,
\* dedupVal and Session: a Handle may issue a Request of its own).
HandlersReturn ==
  \A ch \in Chans : (\E r \in running : r.ch = ch) ~> (\A r \in running : r.ch # ch)
=============================================================================
