--------------------------- MODULE AtMostOnceProofs ---------------------------
(***************************************************************************)
(* That a request is executed at most once, for every value of the         *)
(* constants: FkIpc implements AtMostOnceRpc.                              *)
(*                                                                         *)
(* A request is on its way in many places at once: pending, queued, in a   *)
(* socket, twice, in a handler that runs, in the table of the one who      *)
(* answered, in an answer.  The invariant is about all of these at once:   *)
(* wherever one correlation id is, the same request is; and whoever        *)
(* executed a request knows it again for as long as it may still come,     *)
(* unless its entry lapsed.                                                *)
(***************************************************************************)
EXTENDS FkIpcProofs

-----------------------------------------------------------------------------
(* The carriers of a request. *)

Replies(F) == {f \in F : f.type = "RESP" /\ f.flag \notin Errors}

\* What a link and a locked section may answer.
LinkAnswers(s) == Calls(Datagrams(s.dedup)) \cup Calls(Replies(Queued(s)))
TurnAnswers(k) == Calls({d \in k.s.dedup : d.state = "cached"})
                  \cup Calls(Replies(Datagrams(k.sent)))

\* What each end has executed and may still answer; what the companion executes.
GuestAnswers == LinkAnswers(g) \cup Calls(Replies(Datagrams(out)))
SdkAnswers == TurnAnswers(Step(c))
Running == Calls(running)

\* The answers' tables know a request again.
GuestKnows(s, x) == \E d \in Datagrams(s.dedup) : d.ch = x.ch /\ d.corr = x.corr
SdkKnows(s, x) == \E d \in s.dedup : d.epoch = s.epoch /\ d.ch = x.ch /\ d.corr = x.corr

-----------------------------------------------------------------------------
(* What the theorem supposes, and what is forgotten *)

\* No counter of correlation ids has come to its end: four billion of them.
IdsLast == g.corrCtr < U32 - 1 /\ c.corrCtr < U32 - 1

\* Within its session the guest knows again what it knew, unless it lapsed.
GuestRemembers ==
  g.up /\ g'.up /\ g'.epoch = g.epoch =>
    \A x \in SdkAsking : x.epoch = g.epoch /\ GuestKnows(g, x) =>
      GuestKnows(g', x) \/ x.body \in lapsed'

\* What lapses was on its way.
Lapses == /\ lapsed \subseteq lapsed'
          /\ lapsed' \subseteq lapsed \cup {x.body : x \in GuestAsking \cup SdkAsking}

-----------------------------------------------------------------------------
(* The invariant *)

SameCall(x, y) == x.ch = y.ch /\ x.corr = y.corr /\ x.body = y.body

\* The guest's ids tell its requests apart for good, the companion's those of a
\* session.
GuestIds ==
  \A x \in GuestAsking \cup Running \cup SdkAnswers :
    /\ x.corr \in 1 .. g.corrCtr /\ x.body \in GuestReqs \cap h.asked
    /\ \A y \in GuestAsking \cup Running \cup SdkAnswers :
         x.corr = y.corr \/ x.body = y.body => SameCall(x, y)
SdkIds ==
  \A x \in SdkAsking \cup GuestAnswers :
    /\ x.body \in SdkReqs \cap h.asked
    /\ c.up /\ x.epoch = c.epoch => x.corr \in 1 .. c.corrCtr
    /\ \A y \in SdkAsking \cup GuestAnswers :
         (x.epoch = y.epoch /\ x.corr = y.corr) \/ x.body = y.body => x = y

\* Who waits for an answer was told nothing.
Waiting ==
  /\ \A p \in g.pend : h.told[p.body] = <<>>
  /\ \A p \in c.pend : h.told[p.body] = <<>>
  /\ ~c.up => c.pend = {}

\* What is answered was executed; what runs was not, and runs once, unless it
\* lapsed.
Distinct(R) == \A r, s \in R : r.body = s.body => r = s \/ r.body \in lapsed
Executed ==
  /\ \A x \in GuestAnswers \cup SdkAnswers : h.ran[x.body] > 0
  /\ \A r \in running : h.ran[r.body] = 0 \/ r.body \in lapsed
  /\ Distinct(running)

\* What was executed, or runs, and may come again is known, unless it lapsed.
GuestKnowsDone ==
  \A x \in SdkAsking : g.up /\ x.epoch = g.epoch /\ h.ran[x.body] > 0 =>
    GuestKnows(g, x) \/ x.body \in lapsed
Started(b) == h.ran[b] > 0 \/ \E r \in running : r.body = b
SdkKnowsDone ==
  \A x \in GuestAsking : c.up /\ x.epoch = c.epoch /\ Started(x.body) =>
    SdkKnows(c, x) \/ x.body \in lapsed

\* A session the guest may still join is one it has executed nothing of.
OffersAreNew ==
  /\ g.helloCorr <= g.corrCtr /\ (g.up => g.corrCtr >= 1)
  /\ \A f \in Datagrams(out) : f.type = "HELLO" => f.corr <= g.corrCtr
  /\ \A a \in Datagrams(toGuest) : a.type = "HELLO_ACK" =>
       /\ a.corr <= g.corrCtr \/ a.corr = 1
       /\ (g.helloCorr # 0 /\ a.corr = g.helloCorr) \/ a.corr > g.corrCtr =>
            \A x \in SdkAsking : x.epoch = a.epoch => h.ran[x.body] = 0

\* Only an application's message comes in several frames.
Plain(F) == \A f \in F : f.type \in DataTypes \ {"MSG"} => f.nfrag = 1
PlainRead(rasm) == \A ch \in Chans : rasm[ch].open => rasm[ch].type = "MSG"
OneFrameEach == /\ Plain(Queued(g)) /\ Plain(Datagrams(out)) /\ Plain(Datagrams(toGuest))
                /\ PlainRead(g.rasm) /\ PlainRead(c.rasm)

HistoryTyped ==
  /\ h.asked \subseteq Reqs /\ lapsed \subseteq h.asked /\ h.ran \in [Reqs -> Nat]
  /\ h.told \in [Reqs -> {h.told[r] : r \in Reqs}]
  /\ \A r \in Reqs : r \notin h.asked => h.ran[r] = 0 /\ h.told[r] = <<>>

CallInv ==
  /\ GuestIds /\ SdkIds /\ Waiting /\ Executed /\ GuestKnowsDone /\ SdkKnowsDone
  /\ OffersAreNew /\ OneFrameEach /\ HistoryTyped

-----------------------------------------------------------------------------
(* What a step does to the requests. *)

PendBodies(P) == {p.body : p \in P}

\* Requests that stop waiting are told how they ended.
Tells(before, after) ==
  /\ h'.asked = h.asked /\ h'.ran = h.ran
  /\ h'.told \in [Reqs -> {h'.told[r] : r \in Reqs}]
  /\ \A r \in Reqs :
       \/ h'.told[r] = h.told[r]
       \/ /\ r \in PendBodies(before) \ PendBodies(after)
          /\ \E o \in Rpc!Unknown \cup {"answer"} :
               h'.told[r] = Append(h.told[r], o) /\ (o = "answer" => h.ran[r] > 0)
Asks(b) == /\ b \notin h.asked /\ h'.asked = h.asked \cup {b}
           /\ h'.ran = h.ran /\ h'.told = h.told
Executes(b) == /\ h.ran[b] = 0 \/ b \in lapsed
               /\ h'.ran = [h.ran EXCEPT ![b] = h.ran[b] + 1]
               /\ h'.asked = h.asked /\ h'.told = h.told

\* The guest asks no more than N and answers no more than A besides.
GuestStep(N, A) ==
  /\ g.corrCtr <= g'.corrCtr
  /\ GuestAsking' \subseteq GuestAsking \cup N
  /\ GuestAnswers' \subseteq GuestAnswers \cup A
  /\ PendBodies(g'.pend) \subseteq PendBodies(g.pend) \cup {x.body : x \in N}
  /\ Plain(Queued(g')) /\ Plain(Datagrams(out')) /\ PlainRead(g'.rasm)
  /\ \A f \in Datagrams(out') : f.type = "HELLO" => f.corr <= g'.corrCtr

GuestStays == g'.up = g.up /\ g'.epoch = g.epoch /\ g'.helloCorr = g.helloCorr
GuestMovesOn ==
  \/ ~g'.up /\ g'.helloCorr = 0
  \/ ~g'.up /\ g'.helloCorr = g'.corrCtr /\ g.corrCtr < g'.corrCtr
  \/ \E f \in Datagrams(toGuest) :
       /\ f.type = "HELLO_ACK" /\ g.helloCorr # 0 /\ f.corr = g.helloCorr
       /\ g'.up /\ g'.epoch = f.epoch /\ g'.helloCorr = 0

GuestFades == GuestStep({}, {}) /\ Tells(g.pend, g'.pend) /\ (GuestStays \/ GuestMovesOn)
GuestAsksNew ==
  \E ch \in Chans, b \in GuestReqs :
    /\ GuestStays /\ Asks(b) /\ g'.corrCtr = g.corrCtr + 1
    /\ GuestStep({[epoch |-> g.epoch, ch |-> ch, corr |-> g'.corrCtr, body |-> b]}, {})
GuestServesNew ==
  \E x \in SdkAsking :
    /\ g.up /\ x.epoch = g.epoch /\ GuestStays
    /\ Executes(x.body) /\ GuestKnows(g', x) /\ GuestStep({}, {x})

GuestKind ==
  /\ c' = c /\ running' = running /\ Datagrams(toGuest') \subseteq Datagrams(toGuest)
  /\ GuestFades \/ GuestAsksNew \/ GuestServesNew

\* The same of the companion.
SdkStep(N, A) ==
  /\ SdkAsking' \subseteq SdkAsking \cup N
  /\ SdkAnswers' \subseteq SdkAnswers \cup A
  /\ PendBodies(c'.pend) \subseteq PendBodies(c.pend) \cup {x.body : x \in N}
  /\ Plain(Datagrams(toGuest')) /\ PlainRead(c'.rasm)

OffersSame == \A a \in Datagrams(toGuest') : a.type = "HELLO_ACK" => a \in Datagrams(toGuest)
SdkStays == /\ c'.up = c.up /\ c'.epoch = c.epoch /\ c.corrCtr <= c'.corrCtr
            /\ (~c.up => c'.pend = {}) /\ OffersSame
\* What is running or done and may come again is not forgotten, unless it lapsed.
SdkRemembers ==
  \A x \in GuestAsking :
    c.up /\ x.epoch = c.epoch /\ SdkKnows(c, x) /\ Started(x.body)' =>
      SdkKnows(c', x) \/ x.body \in lapsed'
Unheard(e) ==
  /\ e # c.epoch /\ e # g.epoch
  /\ \A f \in Datagrams(out) \cup Datagrams(toGuest) : f.epoch # e
SdkMovesOn ==
  \/ ~c'.up /\ c'.pend = {} /\ OffersSame
  \/ /\ c'.up /\ c'.pend = {} /\ Unheard(c'.epoch)
     /\ \A a \in Datagrams(toGuest') : a.type = "HELLO_ACK" =>
          a \in Datagrams(toGuest) \/ (a.epoch = c'.epoch /\ a.corr \in 0 .. g.corrCtr \cup {1})

SdkFades ==
  /\ SdkStep({}, {}) /\ Tells(c.pend, c'.pend) /\ running' \subseteq running
  /\ (SdkStays /\ SdkRemembers) \/ SdkMovesOn
SdkAsksNew ==
  \E ch \in Chans, b \in SdkReqs :
    /\ SdkStays /\ c.up /\ c'.dedup = c.dedup /\ Asks(b) /\ c'.corrCtr = c.corrCtr + 1
    /\ SdkStep({[epoch |-> c.epoch, ch |-> ch, corr |-> c'.corrCtr, body |-> b]}, {})
    /\ Running' \subseteq Running /\ Distinct(running')
SdkServesNew ==
  \E x \in GuestAsking, r \in running' :
    /\ c.up /\ x.epoch = c.epoch /\ ~SdkKnows(c, x) /\ Call(r.epoch, r) = x
    /\ SdkStays /\ SdkStep({}, {}) /\ running' = running \cup {r}
    /\ c.dedup \subseteq c'.dedup /\ SdkKnows(c', x)
    /\ h'.asked = h.asked /\ h'.ran = h.ran /\ h'.told = h.told
SdkFinishes ==
  \E r \in running :
    /\ running' = running \ {r} /\ Executes(r.body)
    /\ SdkStays /\ SdkRemembers /\ SdkStep({}, {Call(c.epoch, r)})

SdkKind ==
  /\ g' = g /\ Datagrams(out') \subseteq Datagrams(out)
  /\ SdkFades \/ SdkAsksNew \/ SdkServesNew \/ SdkFinishes

-----------------------------------------------------------------------------
(* The parts of a guest's handler, seen from the requests. *)

\* From s to t a link stays in its session; all it asks or may answer that it
\* did not before is in N and in A.
LinkCalls(s, t, N, A) ==
  /\ t.up = s.up /\ t.epoch = s.epoch /\ t.helloCorr = s.helloCorr
  /\ s.corrCtr <= t.corrCtr
  /\ LinkAsking(t) \subseteq LinkAsking(s) \cup N
  /\ LinkAnswers(t) \subseteq LinkAnswers(s) \cup A
  /\ PendBodies(t.pend) \subseteq PendBodies(s.pend) \cup {x.body : x \in N}
  /\ Plain(Queued(s)) => Plain(Queued(t))
  /\ PlainRead(s.rasm) => PlainRead(t.rasm)

\* Two parts of a handler after another.
LEMMA LinkCallsTwice ==
  ASSUME NEW s \in LinkState, NEW t \in LinkState, NEW u \in LinkState, NEW N, NEW A,
         LinkCalls(s, t, N, A), LinkCalls(t, u, N, A)
  PROVE  LinkCalls(s, u, N, A)
<1>1. s.corrCtr \in Int /\ t.corrCtr \in Int /\ u.corrCtr \in Int
  BY DEF LinkState, Word
<1>2. s.corrCtr <= u.corrCtr
  BY <1>1 DEF LinkCalls
<1> QED BY <1>2 DEF LinkCalls

\* A part that queues nothing: what it does to the requests and the answers.
LEMMA LinkEdit ==
  ASSUME NEW s, NEW t, NEW N, NEW A, t.up = s.up, t.epoch = s.epoch,
         t.helloCorr = s.helloCorr, s.corrCtr <= t.corrCtr, t.q = s.q,
         PlainRead(s.rasm) => PlainRead(t.rasm),
         \A p \in t.pend :
           \/ \E o \in s.pend : o.ch = p.ch /\ o.corr = p.corr /\ o.body = p.body
           \/ Call(s.epoch, p) \in N,
         \A d \in Datagrams(t.dedup) : d \in Datagrams(s.dedup) \/ Call(d.epoch, d) \in A
  PROVE  LinkCalls(s, t, N, A)
<1>1. Queued(t) = Queued(s)
  BY DEF Queued
<1>2. ASSUME NEW p \in t.pend
      PROVE  /\ Call(t.epoch, p) \in LinkAsking(s) \cup N
             /\ p.body \in PendBodies(s.pend) \cup {x.body : x \in N}
  <2>1. CASE \E o \in s.pend : o.ch = p.ch /\ o.corr = p.corr /\ o.body = p.body
    <3>1. PICK o \in s.pend : o.ch = p.ch /\ o.corr = p.corr /\ o.body = p.body
      BY <2>1
    <3>2. Call(t.epoch, p) = Call(s.epoch, o)
      BY <3>1 DEF Call
    <3> QED BY <3>1, <3>2 DEF LinkAsking, PendBodies
  <2>2. CASE Call(s.epoch, p) \in N
    <3>1. Call(s.epoch, p).body = p.body
      BY DEF Call
    <3> QED BY <2>2, <3>1
  <2> QED BY <1>2, <2>1, <2>2
<1>3. LinkAsking(t) \subseteq LinkAsking(s) \cup N
  BY <1>1, <1>2 DEF LinkAsking
<1>4. PendBodies(t.pend) \subseteq PendBodies(s.pend) \cup {x.body : x \in N}
  BY <1>2 DEF PendBodies
<1>5. LinkAnswers(t) \subseteq LinkAnswers(s) \cup A
  BY <1>1 DEF LinkAnswers, Calls
<1> QED BY <1>1, <1>3, <1>4, <1>5 DEF LinkCalls

\* What a frame of a message says of it.
LEMMA FragmentSays ==
  ASSUME NEW type, NEW flag, NEW ch, NEW e, NEW seq, NEW corr, NEW b \in Bodies,
         NEW f \in Datagrams(Fragments(type, flag, ch, e, seq, corr, b))
  PROVE  /\ f.type = type /\ f.flag = flag /\ f.nfrag = Size[b]
         /\ Call(f.epoch, f) = [epoch |-> e, ch |-> ch, corr |-> corr, body |-> b]
<1> DEFINE fs == Fragments(type, flag, ch, e, seq, corr, b)
<1>1. DOMAIN fs = 1 .. Size[b]
  BY DEF Fragments
<1>2. PICK i \in 1 .. Size[b] : f = fs[i]
  BY <1>1 DEF Datagrams
<1>3. f = [type |-> type, flag |-> flag, ch |-> ch, epoch |-> e, seq |-> Add(seq, i),
           corr |-> corr, frag |-> i - 1, nfrag |-> Size[b], body |-> b]
  BY <1>2 DEF Fragments
<1> HIDE DEF fs
<1> QED BY <1>3 DEF Call

\* A correlation id is minted after all before it, until the last (nextCorr).
LEMMA MintedNext ==
  ASSUME NEW ctr \in Word, ctr < U32 - 1
  PROVE  NextCorr(ctr) = ctr + 1
<1>1. ctr + 1 \in 0 .. U32 - 1 /\ ctr \in Int /\ ctr >= 0
  BY WireAssumption DEF Word
<1>2. Add(ctr, 1) = ctr + 1
  BY <1>1, ModNear, WireAssumption DEF Add
<1> QED BY <1>1, <1>2 DEF NextCorr

\* A message puts one request or answer on its way, and comes in one frame
\* unless the application sends it (sendMessage).
LEMMA SendCalls ==
  ASSUME NEW s, Sound(s), s.up, NEW type \in DataTypes, NEW flag \in Flags,
         NEW ch \in Chans, NEW corr \in Word, NEW b \in Bodies, NEW N, NEW A,
         Mints(corr, b) => s.corrCtr < U32 - 1, type # "MSG" => Size[b] = 1,
         LET x == [epoch |-> s.epoch, ch |-> ch, corr |-> corr, body |-> b]
         IN  /\ type = "REQ" => x \in LinkAsking(s) \cup N
             /\ type = "RESP" /\ flag \notin Errors => x \in LinkAnswers(s) \cup A
  PROVE  LinkCalls(s, SendMessage(s, type, flag, ch, corr, b), N, A)
<1> DEFINE t == SendMessage(s, type, flag, ch, corr, b)
           id == IF Mints(corr, b) THEN NextCorr(s.corrCtr) ELSE corr
           fs == Fragments(type, flag, ch, s.epoch, s.txSeq[ch], id, b)
           x == [epoch |-> s.epoch, ch |-> ch, corr |-> corr, body |-> b]
<1>1. s \in LinkState /\ s.corrCtr \in Word /\ s.corrCtr \in Int
  BY DEF Sound, LinkState, Word
<1>2. /\ t.up = s.up /\ t.epoch = s.epoch /\ t.helloCorr = s.helloCorr
      /\ t.pend = s.pend /\ t.rasm = s.rasm /\ t.dedup = s.dedup
  <2>1. SameCourse(s, t) /\ t.pend = s.pend /\ t.rasm = s.rasm /\ t.dedup = s.dedup
    BY SendMessageSound
  <2> QED BY <2>1 DEF SameCourse
<1>3. CASE ~Room(s, ch, b)
  <2>1. t = s
    BY <1>3 DEF SendMessage
  <2> HIDE DEF t, x
  <2>2. LinkCalls(s, s, N, A)
    <3>1. /\ s.corrCtr <= s.corrCtr
          /\ LinkAsking(s) \subseteq LinkAsking(s) \cup N
          /\ LinkAnswers(s) \subseteq LinkAnswers(s) \cup A
          /\ PendBodies(s.pend) \subseteq PendBodies(s.pend) \cup {y.body : y \in N}
      BY <1>1
    <3> QED BY <3>1 DEF LinkCalls
  <2> QED BY <2>1, <2>2 DEF t
<1>4. CASE Room(s, ch, b)
  <2>1. /\ id \in Word
        /\ t.txSeq = [s.txSeq EXCEPT ![ch] = Add(@, Size[b])]
        /\ t.corrCtr = IF Mints(corr, b) THEN id ELSE s.corrCtr
        /\ Queued(t) \subseteq Queued(s) \cup Datagrams(fs)
    BY <1>1, <1>4, MessageQueued
  <2>2. s.corrCtr <= t.corrCtr
    <3>1. CASE Mints(corr, b)
      <4>1. t.corrCtr = s.corrCtr + 1
        BY <1>1, <2>1, <3>1, MintedNext
      <4> QED BY <1>1, <4>1
    <3>2. CASE ~Mints(corr, b)
      BY <1>1, <2>1, <3>2
    <3> QED BY <3>1, <3>2
  <2>3. type # "MSG" => id = corr
    <3>1. type # "MSG" => ~Mints(corr, b)
      BY DEF Mints
    <3> QED BY <3>1
  <2>4. ASSUME NEW f \in Datagrams(fs)
        PROVE  /\ f.type = type /\ f.flag = flag /\ f.nfrag = Size[b]
               /\ type # "MSG" => Call(f.epoch, f) = x
    <3>1. /\ f.type = type /\ f.flag = flag /\ f.nfrag = Size[b]
          /\ Call(f.epoch, f) = [epoch |-> s.epoch, ch |-> ch, corr |-> id, body |-> b]
      BY FragmentSays
    <3> QED BY <2>3, <3>1
  <2> HIDE DEF t, fs, id, x
  <2>5. ASSUME NEW f \in Queued(t), f.type = "REQ" PROVE Call(f.epoch, f) \in LinkAsking(s) \cup N
    <3>1. CASE f \in Queued(s)
      BY <2>5, <3>1 DEF LinkAsking, Calls, RequestFrames
    <3>2. CASE f \in Datagrams(fs)
      BY <2>4, <2>5, <3>2 DEF x
    <3> QED BY <2>1, <3>1, <3>2
  <2>6. ASSUME NEW f \in Queued(t), f.type = "RESP", f.flag \notin Errors
        PROVE  Call(f.epoch, f) \in LinkAnswers(s) \cup A
    <3>1. CASE f \in Queued(s)
      BY <2>6, <3>1 DEF LinkAnswers, Calls, Replies
    <3>2. CASE f \in Datagrams(fs)
      BY <2>4, <2>6, <3>2 DEF x
    <3> QED BY <2>1, <3>1, <3>2
  <2>7. Plain(Queued(s)) => Plain(Queued(t))
    BY <2>1, <2>4 DEF Plain
  <2>8. LinkAsking(t) \subseteq LinkAsking(s) \cup N
    BY <1>2, <2>5 DEF LinkAsking, Calls, RequestFrames
  <2>9. LinkAnswers(t) \subseteq LinkAnswers(s) \cup A
    BY <1>2, <2>6 DEF LinkAnswers, Calls, Replies
  <2>10. LinkCalls(s, t, N, A)
    BY <1>2, <2>2, <2>7, <2>8, <2>9 DEF LinkCalls
  <2> QED BY <2>10 DEF t
<1> QED BY <1>3, <1>4

\* Hearing a frame asks nothing and answers nothing (channelFrame).
LEMMA AcceptCalls ==
  ASSUME NEW s, Sound(s), s.up, NEW f \in DataFrame, NEW N, NEW A
  PROVE  LinkCalls(s, Accept(s, f), N, A)
<1> DEFINE h0 == [s EXCEPT !.lastRx = s.tick]
           a == [h0 EXCEPT !.resyncSent = [h0.resyncSent EXCEPT ![f.ch] = TRUE]]
           r == AskResync(h0, f)
           t == [r EXCEPT !.rxLast = [r.rxLast EXCEPT ![f.ch] = f.seq]]
<1>1. s \in LinkState /\ f.ch \in Chans /\ f.seq \in Word
  BY DEF Sound, DataFrame
<1>2. /\ h0 \in LinkState /\ SameCourse(s, h0) /\ h0.q = s.q /\ h0.dedup = s.dedup
      /\ h0.pend = s.pend /\ h0.rasm = s.rasm /\ h0.corrCtr = s.corrCtr
  BY <1>1 DEF LinkState, SameCourse
<1>3. /\ a \in LinkState /\ SameCourse(s, a) /\ a.q = s.q /\ a.dedup = s.dedup
      /\ a.pend = s.pend /\ a.rasm = s.rasm /\ a.corrCtr = s.corrCtr
  <2>1. [h0.resyncSent EXCEPT ![f.ch] = TRUE] \in [Chans -> BOOLEAN]
    BY <1>2 DEF LinkState
  <2> HIDE DEF h0
  <2> QED BY <1>2, <2>1 DEF LinkState, SameCourse
<1>4. [h0 EXCEPT !.resyncSent[f.ch] = TRUE] = a
  BY <1>2 DEF LinkState
<1> HIDE DEF h0, a
<1>5. Sound(a) /\ a.up
  BY <1>2, <1>3, SoundKept DEF SameCourse
<1>6. s.corrCtr <= s.corrCtr
  BY <1>1 DEF LinkState, Word
<1>7. LinkCalls(s, h0, N, A) /\ LinkCalls(s, a, N, A)
  BY <1>2, <1>3, <1>6, LinkEdit DEF SameCourse
<1>8. r \in LinkState /\ LinkCalls(s, r, N, A)
  <2>1. CASE Gap(h0, f) /\ ~h0.resyncSent[f.ch]
    <3>1. r = SendMessage(a, "RESYNC", "none", f.ch, 0, NoBody)
      BY <1>4, <2>1 DEF AskResync
    <3>2. /\ "RESYNC" \in DataTypes /\ "none" \in Flags
          /\ 0 \in Word /\ NoBody \in Bodies /\ Size[NoBody] = 1
          /\ ~Mints(0, NoBody)
      BY WireAssumption DEF DataTypes, Flags, Word, Mints
    <3> HIDE DEF r
    <3>3. Sound(r)
      BY <1>1, <1>5, <3>1, <3>2, SendMessageSound
    <3>4. LinkCalls(a, r, N, A)
      BY <1>1, <1>5, <3>1, <3>2, SendCalls
    <3>5. r \in LinkState
      BY <3>3 DEF Sound
    <3> QED BY <1>1, <1>3, <1>7, <3>4, <3>5, LinkCallsTwice
  <2>2. CASE ~(Gap(h0, f) /\ ~h0.resyncSent[f.ch])
    BY <1>2, <1>7, <2>2 DEF AskResync
  <2> QED BY <2>1, <2>2
<1>9. Accept(s, f) = t
  BY <1>8 DEF Accept, h0, LinkState
<1> HIDE DEF r
<1>10. [r.rxLast EXCEPT ![f.ch] = f.seq] \in [Chans -> Word]
  BY <1>1, <1>8 DEF LinkState
<1>11. /\ t \in LinkState /\ SameCourse(r, t) /\ t.q = r.q /\ t.dedup = r.dedup
       /\ t.pend = r.pend /\ t.rasm = r.rasm /\ t.corrCtr = r.corrCtr
  BY <1>8, <1>10 DEF LinkState, SameCourse
<1> HIDE DEF t
<1>12. r.corrCtr <= r.corrCtr
  BY <1>8 DEF LinkState, Word
<1>13. LinkCalls(r, t, N, A)
  BY <1>11, <1>12, LinkEdit DEF SameCourse
<1>14. LinkCalls(s, t, N, A)
  BY <1>1, <1>8, <1>11, <1>13, LinkCallsTwice
<1> QED BY <1>9, <1>14

\* Neither does taking a completed message in (channelFrame).
LEMMA ArrivedCalls ==
  ASSUME NEW s, Sound(s), s.up, NEW f \in DataFrame, NEW N, NEW A
  PROVE  LinkCalls(s, Arrived(s, f), N, A)
<1> DEFINE a == Accept(s, f)
           t == [a EXCEPT !.rasm = [a.rasm EXCEPT ![f.ch] = Closed]]
<1>1. Sound(a) /\ LinkCalls(s, a, N, A)
  BY AcceptSound, AcceptCalls
<1>2. Arrived(s, f) = IF f.nfrag = 1 THEN a ELSE t
  BY <1>1 DEF Arrived, Sound, LinkState
<1> HIDE DEF a
<1>3. s \in LinkState /\ a \in LinkState /\ f.ch \in Chans /\ a.corrCtr <= a.corrCtr
  <2>1. s \in LinkState /\ a \in LinkState /\ f.ch \in Chans
    BY <1>1 DEF Sound, DataFrame
  <2>2. a.corrCtr \in Int
    BY <2>1 DEF LinkState, Word
  <2> QED BY <2>1, <2>2
<1>4. Closed \in Reassembly /\ ~Closed.open
  BY WireAssumption DEF Closed, Reassembly, DataTypes, Flags, Word
<1>5. [a.rasm EXCEPT ![f.ch] = Closed] \in [Chans -> Reassembly]
  BY <1>3, <1>4 DEF LinkState
<1>6. /\ t \in LinkState /\ SameCourse(a, t) /\ t.q = a.q /\ t.dedup = a.dedup
      /\ t.pend = a.pend /\ t.corrCtr = a.corrCtr
      /\ t.rasm = [a.rasm EXCEPT ![f.ch] = Closed]
  BY <1>3, <1>5 DEF LinkState, SameCourse
<1> HIDE DEF t
<1>7. PlainRead(a.rasm) => PlainRead(t.rasm)
  BY <1>3, <1>4, <1>6 DEF PlainRead, LinkState
<1>8. LinkCalls(a, t, N, A)
  BY <1>3, <1>6, <1>7, LinkEdit DEF SameCourse
<1>9. LinkCalls(s, t, N, A)
  BY <1>1, <1>3, <1>6, <1>8, LinkCallsTwice
<1> QED BY <1>1, <1>2, <1>9

\* Everything a request, an answer or a RESYNC is comes in one frame, so what
\* such a message says is what its frame says (reassemble).
LEMMA OneFrameMessage ==
  ASSUME NEW r, NEW f, f.type \in DataTypes, Plain({f}), r.open => r.type = "MSG",
         NEW m, m = (IF f.nfrag = 1
                     THEN [type |-> f.type, flag |-> f.flag, corr |-> f.corr,
                           parts |-> {<<0, f.body>>}]
                     ELSE [type |-> Gather(r, f).type, flag |-> Gather(r, f).flag,
                           corr |-> Gather(r, f).corr, parts |-> Gather(r, f).parts]),
         m.type # "MSG"
  PROVE  /\ f.nfrag = 1 /\ f.type = m.type /\ f.flag = m.flag /\ f.corr = m.corr
         /\ m.parts = {<<0, f.body>>} /\ BodyOf(m.parts) = f.body
<1>1. f.nfrag = 1
  <2>1. CASE f.type = "MSG"
    <3>1. SUFFICES ASSUME f.nfrag # 1 PROVE Gather(r, f).type = "MSG"
      OBVIOUS
    <3> DEFINE base == IF Continues(r, f) THEN r
                       ELSE [open |-> TRUE, corr |-> f.corr, nfrag |-> f.nfrag,
                             type |-> f.type, flag |-> f.flag, parts |-> {}]
               ps == {p \in base.parts : p[1] # f.frag} \cup {<<f.frag, f.body>>}
    <3>2. base.type = "MSG"
      BY <2>1 DEF Continues
    <3>3. Gather(r, f) = [base EXCEPT !.parts = ps]
      BY DEF Gather
    <3> QED BY <3>2, <3>3
  <2>2. CASE f.type # "MSG"
    BY <2>2 DEF Plain
  <2> QED BY <2>1, <2>2
<1>2. m = [type |-> f.type, flag |-> f.flag, corr |-> f.corr, parts |-> {<<0, f.body>>}]
  BY <1>1
<1>3. BodyOf({<<0, f.body>>}) = f.body
  <2>1. \A p : p \in {<<0, f.body>>} /\ p[1] = 0 <=> p = <<0, f.body>>
    OBVIOUS
  <2>2. (CHOOSE p \in {<<0, f.body>>} : p[1] = 0) = <<0, f.body>>
    BY <2>1
  <2> QED BY <2>2 DEF BodyOf
<1> QED BY <1>1, <1>2, <1>3

-----------------------------------------------------------------------------
(* Every such step keeps the invariant. *)

\* What only one end does leaves what the other asks and answers alone, but for
\* what the network loses.
LEMMA OtherEnd ==
  /\ c' = c /\ running' = running /\ Datagrams(toGuest') \subseteq Datagrams(toGuest) =>
       /\ SdkAsking' \subseteq SdkAsking /\ SdkAnswers' \subseteq SdkAnswers
       /\ Running' = Running
  /\ g' = g /\ Datagrams(out') \subseteq Datagrams(out) =>
       GuestAsking' \subseteq GuestAsking /\ GuestAnswers' \subseteq GuestAnswers
<1>1. ASSUME c' = c, running' = running, Datagrams(toGuest') \subseteq Datagrams(toGuest)
      PROVE  /\ SdkAsking' \subseteq SdkAsking /\ SdkAnswers' \subseteq SdkAnswers
             /\ Running' = Running
  <2>1. /\ Step(c).s = c /\ Step(c).sent = toGuest
        /\ Step(c)'.s = c /\ Step(c)'.sent = toGuest'
    BY <1>1 DEF Step
  <2>2. SdkAsking = {Call(c.epoch, p) : p \in c.pend} \cup Calls(RequestFrames(Datagrams(toGuest)))
    BY <2>1 DEF SdkAsking, TurnAsking
  <2>3. SdkAsking' = {Call(c.epoch, p) : p \in c.pend} \cup Calls(RequestFrames(Datagrams(toGuest')))
    BY <1>1 DEF SdkAsking, TurnAsking, Step, Datagrams, Calls, RequestFrames, Call
  <2>4. SdkAnswers = Calls({d \in c.dedup : d.state = "cached"})
                     \cup Calls(Replies(Datagrams(toGuest)))
    BY <2>1 DEF SdkAnswers, TurnAnswers
  <2>5. SdkAnswers' = Calls({d \in c.dedup : d.state = "cached"})
                      \cup Calls(Replies(Datagrams(toGuest')))
    BY <1>1 DEF SdkAnswers, TurnAnswers, Step, Datagrams, Calls, Replies, Call
  <2>6. /\ Calls(RequestFrames(Datagrams(toGuest'))) \subseteq Calls(RequestFrames(Datagrams(toGuest)))
        /\ Calls(Replies(Datagrams(toGuest'))) \subseteq Calls(Replies(Datagrams(toGuest)))
    BY <1>1 DEF Calls, RequestFrames, Replies
  <2>7. Running' = Running
    BY <1>1 DEF Running, Calls
  <2> QED BY <2>2, <2>3, <2>4, <2>5, <2>6, <2>7
<1>2. ASSUME g' = g, Datagrams(out') \subseteq Datagrams(out)
      PROVE  GuestAsking' \subseteq GuestAsking /\ GuestAnswers' \subseteq GuestAnswers
  <2>1. GuestAsking' = LinkAsking(g) \cup Calls(RequestFrames(Datagrams(out')))
    BY <1>2 DEF GuestAsking, LinkAsking, Queued, Datagrams, Calls, RequestFrames, Call
  <2>2. GuestAnswers' = LinkAnswers(g) \cup Calls(Replies(Datagrams(out')))
    BY <1>2 DEF GuestAnswers, LinkAnswers, Queued, Datagrams, Calls, Replies, Call
  <2>3. /\ Calls(RequestFrames(Datagrams(out'))) \subseteq Calls(RequestFrames(Datagrams(out)))
        /\ Calls(Replies(Datagrams(out'))) \subseteq Calls(Replies(Datagrams(out)))
    BY <1>2 DEF Calls, RequestFrames, Replies
  <2> QED BY <2>1, <2>2, <2>3 DEF GuestAsking, GuestAnswers
<1> QED BY <1>1, <1>2

\* The guest's ids go on telling its requests apart when what is asked, answered
\* or executed is what was, or the request asked just now (nextCorr, Request).
LEMMA GuestIdsStep ==
  ASSUME GuestIds, g.corrCtr \in Nat, g'.corrCtr \in Nat, g.corrCtr <= g'.corrCtr,
         h.asked \subseteq h'.asked, NEW ch, NEW b,
         \A x \in (GuestAsking \cup Running \cup SdkAnswers)' :
           \/ \E y \in GuestAsking \cup Running \cup SdkAnswers : SameCall(x, y)
           \/ /\ x.ch = ch /\ x.corr = g.corrCtr + 1 /\ x.body = b
              /\ g.corrCtr + 1 <= g'.corrCtr
              /\ b \in GuestReqs \cap h'.asked /\ b \notin h.asked
  PROVE  GuestIds'
<1> DEFINE U == GuestAsking \cup Running \cup SdkAnswers
           V == (GuestAsking \cup Running \cup SdkAnswers)'
           New(x) == /\ x.ch = ch /\ x.corr = g.corrCtr + 1 /\ x.body = b
                     /\ g.corrCtr + 1 <= g'.corrCtr
                     /\ b \in GuestReqs \cap h'.asked /\ b \notin h.asked
<1>1. \A x \in U : x.corr \in 1 .. g.corrCtr /\ x.body \in GuestReqs \cap h.asked
  BY DEF GuestIds
<1>2. \A x, y \in U : x.corr = y.corr \/ x.body = y.body => SameCall(x, y)
  BY DEF GuestIds
<1>3. \A x \in V : (\E y \in U : SameCall(x, y)) \/ New(x)
  OBVIOUS
<1>4. ASSUME NEW x \in V
      PROVE  x.corr \in 1 .. g'.corrCtr /\ x.body \in GuestReqs \cap h'.asked
  <2> HIDE DEF U, V
  <2>1. CASE \E y \in U : SameCall(x, y)
    <3>1. PICK y \in U : SameCall(x, y)
      BY <2>1
    <3>2. x.corr = y.corr /\ x.body = y.body
      BY <3>1 DEF SameCall
    <3> QED BY <1>1, <3>2
  <2>2. CASE New(x)
    BY <2>2
  <2> QED BY <1>3, <2>1, <2>2
<1>5. ASSUME NEW x \in V, NEW y \in V, x.corr = y.corr \/ x.body = y.body
      PROVE  SameCall(x, y)
  <2> HIDE DEF U, V
  <2>1. CASE New(x) /\ New(y)
    BY <2>1 DEF SameCall
  <2>2. ASSUME NEW z \in V, NEW w \in V, New(z), ~New(w)
        PROVE  z.corr # w.corr /\ z.body # w.body
    <3>1. PICK v \in U : SameCall(w, v)
      BY <1>3, <2>2
    <3>2. w.corr = v.corr /\ w.body = v.body
      BY <3>1 DEF SameCall
    <3> QED BY <1>1, <2>2, <3>2
  <2>3. CASE ~New(x) /\ ~New(y)
    <3>1. PICK v \in U : SameCall(x, v)
      BY <1>3, <2>3
    <3>2. PICK w \in U : SameCall(y, w)
      BY <1>3, <2>3
    <3>3. SameCall(v, w)
      BY <1>2, <1>5, <3>1, <3>2 DEF SameCall
    <3> QED BY <3>1, <3>2, <3>3 DEF SameCall
  <2> QED BY <1>5, <2>1, <2>2, <2>3
<1> HIDE DEF U, New
<1> QED BY <1>4, <1>5 DEF GuestIds

\* The companion's tell those of a session apart, and a session begins with
\* none of them on their way.
LEMMA SdkIdsStep ==
  ASSUME SdkIds, c.corrCtr \in Nat, c'.corrCtr \in Nat, h.asked \subseteq h'.asked,
         NEW ch, NEW b,
         \A x \in (SdkAsking \cup GuestAnswers)' :
           \/ x \in SdkAsking \cup GuestAnswers
           \/ /\ x = [epoch |-> c.epoch, ch |-> ch, corr |-> c.corrCtr + 1, body |-> b]
              /\ c.up /\ c'.epoch = c.epoch /\ c.corrCtr + 1 <= c'.corrCtr
              /\ b \in SdkReqs \cap h'.asked /\ b \notin h.asked,
         c'.up => \/ c.up /\ c'.epoch = c.epoch /\ c.corrCtr <= c'.corrCtr
                  \/ \A x \in (SdkAsking \cup GuestAnswers)' : x.epoch # c'.epoch
  PROVE  SdkIds'
<1> DEFINE U == SdkAsking \cup GuestAnswers
           V == (SdkAsking \cup GuestAnswers)'
           New(x) == /\ x = [epoch |-> c.epoch, ch |-> ch, corr |-> c.corrCtr + 1, body |-> b]
                     /\ c.up /\ c'.epoch = c.epoch /\ c.corrCtr + 1 <= c'.corrCtr
                     /\ b \in SdkReqs \cap h'.asked /\ b \notin h.asked
<1>1. \A x \in U : /\ x.body \in SdkReqs \cap h.asked
                   /\ c.up /\ x.epoch = c.epoch => x.corr \in 1 .. c.corrCtr
  BY DEF SdkIds
<1>2. \A x, y \in U : (x.epoch = y.epoch /\ x.corr = y.corr) \/ x.body = y.body => x = y
  BY DEF SdkIds
<1>3. \A x \in V : x \in U \/ New(x)
  OBVIOUS
<1>4. ASSUME NEW x \in V
      PROVE  /\ x.body \in SdkReqs \cap h'.asked
             /\ c'.up /\ x.epoch = c'.epoch => x.corr \in 1 .. c'.corrCtr
  <2>1. c'.up => \/ c.up /\ c'.epoch = c.epoch /\ c.corrCtr <= c'.corrCtr
                 \/ \A y \in V : y.epoch # c'.epoch
    OBVIOUS
  <2> HIDE DEF U, V
  <2>2. CASE x \in U
    BY <1>1, <2>1, <2>2
  <2>3. CASE New(x)
    BY <2>3
  <2> QED BY <1>3, <2>2, <2>3
<1>5. ASSUME NEW x \in V, NEW y \in V,
             (x.epoch = y.epoch /\ x.corr = y.corr) \/ x.body = y.body
      PROVE  x = y
  <2> HIDE DEF U, V
  <2>1. CASE New(x) /\ New(y)
    BY <2>1
  <2>2. ASSUME NEW z \in V, NEW w \in U, New(z)
        PROVE  ~(z.epoch = w.epoch /\ z.corr = w.corr) /\ z.body # w.body
    BY <1>1, <2>2
  <2>3. CASE x \in U /\ y \in U
    BY <1>2, <1>5, <2>3
  <2> QED BY <1>3, <1>5, <2>1, <2>2, <2>3
<1> HIDE DEF U, New
<1> QED BY <1>4, <1>5 DEF SdkIds

\* Whose request is where.
LEMMA WhoseRequests ==
  ASSUME GuestIds, SdkIds
  PROVE  /\ \A x \in GuestAsking \cup Running \cup SdkAnswers : x.body \in GuestReqs \cap h.asked
         /\ \A x \in SdkAsking \cup GuestAnswers : x.body \in SdkReqs \cap h.asked
         /\ \A p \in g.pend : Call(g.epoch, p) \in GuestAsking /\ p.body \in GuestReqs \cap h.asked
         /\ \A p \in c.pend : Call(c.epoch, p) \in SdkAsking /\ p.body \in SdkReqs \cap h.asked
         /\ \A r \in running : Call(r.epoch, r) \in Running /\ r.body \in GuestReqs \cap h.asked
         /\ GuestReqs \cap SdkReqs = {} /\ GuestReqs \subseteq Reqs /\ SdkReqs \subseteq Reqs
<1>1. \A x \in GuestAsking \cup Running \cup SdkAnswers : x.body \in GuestReqs \cap h.asked
  BY DEF GuestIds
<1>2. \A x \in SdkAsking \cup GuestAnswers : x.body \in SdkReqs \cap h.asked
  BY DEF SdkIds
<1>3. \A e, x : Call(e, x).body = x.body
  BY DEF Call
<1>4. \A p \in g.pend : Call(g.epoch, p) \in GuestAsking
  BY DEF GuestAsking, LinkAsking
<1>5. \A p \in c.pend : Call(c.epoch, p) \in SdkAsking
  BY DEF SdkAsking, TurnAsking, Step
<1>6. \A r \in running : Call(r.epoch, r) \in Running
  BY DEF Running, Calls
<1>7. /\ GuestReqs \cap SdkReqs = {} /\ GuestReqs \subseteq Reqs /\ SdkReqs \subseteq Reqs
  BY FkIpcAssumption DEF Reqs
<1>8. \A p \in g.pend : p.body \in GuestReqs \cap h.asked
  BY <1>1, <1>3, <1>4
<1>9. \A p \in c.pend : p.body \in SdkReqs \cap h.asked
  BY <1>2, <1>3, <1>5
<1>10. \A r \in running : r.body \in GuestReqs \cap h.asked
  BY <1>1, <1>3, <1>6
<1> QED BY <1>1, <1>2, <1>4, <1>5, <1>6, <1>7, <1>8, <1>9, <1>10

\* The counters of both ends are numbers.
LEMMA Counters ==
  ASSUME IpcInv
  PROVE  g.corrCtr \in Nat /\ c.corrCtr \in Nat /\ g.corrCtr \in Word /\ c.corrCtr \in Word
<1>1. g \in LinkState /\ c \in SessionState
  BY DEF IpcInv, GuestInv, Sound, CompanionSound, CompanionTypeOK
<1>2. g.corrCtr \in Word /\ c.corrCtr \in Word
  BY <1>1 DEF LinkState, SessionState
<1> QED BY <1>2, WireAssumption DEF Word

\* What lapses was asked.
LEMMA LapsedWereAsked ==
  ASSUME CallInv, Lapses
  PROVE  lapsed \subseteq lapsed' /\ lapsed' \subseteq h.asked
<1>1. /\ \A x \in GuestAsking \cup SdkAsking : x.body \in h.asked
      /\ lapsed \subseteq h.asked
  BY DEF CallInv, GuestIds, SdkIds, HistoryTyped
<1> QED BY <1>1 DEF Lapses

\* The ids of both ends, when the guest moves.
LEMMA GuestKindIds ==
  ASSUME IpcInv, IpcInv', CallInv, GuestKind
  PROVE  GuestIds' /\ SdkIds'
<1>1. /\ SdkAsking' \subseteq SdkAsking /\ SdkAnswers' \subseteq SdkAnswers
      /\ Running' = Running /\ c' = c
  BY OtherEnd DEF GuestKind
<1>2. /\ g.corrCtr \in Nat /\ c.corrCtr \in Nat /\ GuestIds /\ SdkIds
      /\ h.asked \subseteq Reqs
  BY Counters DEF CallInv, HistoryTyped
<1>3. g'.corrCtr \in Nat
  <2>1. g' \in LinkState
    BY DEF IpcInv, GuestInv, Sound
  <2>2. g'.corrCtr \in Word
    BY <2>1 DEF LinkState
  <2> QED BY <2>2, WireAssumption DEF Word
<1>4. /\ (GuestAsking \cup Running \cup SdkAnswers)' = GuestAsking' \cup Running' \cup SdkAnswers'
      /\ (SdkAsking \cup GuestAnswers)' = SdkAsking' \cup GuestAnswers'
  OBVIOUS
<1>5. ASSUME GuestStep({}, {}) \/ (\E x \in SdkAsking : GuestStep({}, {x})),
             h.asked = h'.asked
      PROVE  GuestIds' /\ SdkIds'
  <2>1. /\ g.corrCtr <= g'.corrCtr
        /\ (GuestAsking \cup Running \cup SdkAnswers)' \subseteq GuestAsking \cup Running \cup SdkAnswers
        /\ (SdkAsking \cup GuestAnswers)' \subseteq SdkAsking \cup GuestAnswers
    BY <1>1, <1>4, <1>5 DEF GuestStep
  <2>2. \A x : SameCall(x, x)
    BY DEF SameCall
  <2>3. c.up = c.up /\ c.corrCtr <= c.corrCtr
    BY <1>2
  <2>4. GuestIds'
    BY <1>2, <1>3, <1>5, <2>1, <2>2, GuestIdsStep
  <2>5. SdkIds'
    BY <1>1, <1>2, <1>5, <2>1, <2>3, SdkIdsStep
  <2> QED BY <2>4, <2>5
<1>6. CASE GuestAsksNew
  <2>1. PICK ch \in Chans, b \in GuestReqs :
          /\ Asks(b) /\ g'.corrCtr = g.corrCtr + 1
          /\ GuestStep({[epoch |-> g.epoch, ch |-> ch, corr |-> g'.corrCtr, body |-> b]}, {})
    BY <1>6 DEF GuestAsksNew
  <2> DEFINE z == [epoch |-> g.epoch, ch |-> ch, corr |-> g'.corrCtr, body |-> b]
  <2>2. /\ g.corrCtr <= g'.corrCtr /\ GuestAsking' \subseteq GuestAsking \cup {z}
        /\ (SdkAsking \cup GuestAnswers)' \subseteq SdkAsking \cup GuestAnswers
    BY <1>1, <1>4, <2>1 DEF GuestStep
  <2>3. b \notin h.asked /\ b \in h'.asked /\ h.asked \subseteq h'.asked
    BY <2>1 DEF Asks
  <2>4. z.ch = ch /\ z.corr = g.corrCtr + 1 /\ z.body = b
    BY <2>1
  <2> HIDE DEF z
  <2>5. \A x : SameCall(x, x)
    BY DEF SameCall
  <2>6. g.corrCtr + 1 <= g'.corrCtr /\ c.corrCtr <= c.corrCtr
    BY <1>2, <2>1
  <2>7. \A x \in (GuestAsking \cup Running \cup SdkAnswers)' :
           \/ \E y \in GuestAsking \cup Running \cup SdkAnswers : SameCall(x, y)
           \/ /\ x.ch = ch /\ x.corr = g.corrCtr + 1 /\ x.body = b
              /\ g.corrCtr + 1 <= g'.corrCtr
              /\ b \in GuestReqs \cap h'.asked /\ b \notin h.asked
    BY <1>1, <1>4, <2>2, <2>3, <2>4, <2>5, <2>6
  <2>8. GuestIds'
    BY <1>2, <1>3, <2>2, <2>3, <2>7, GuestIdsStep
  <2>9. SdkIds'
    BY <1>1, <1>2, <2>2, <2>3, <2>6, SdkIdsStep
  <2> QED BY <2>8, <2>9
<1>7. CASE GuestFades
  BY <1>5, <1>7 DEF GuestFades, Tells
<1>8. CASE GuestServesNew
  BY <1>5, <1>8 DEF GuestServesNew, Executes
<1> QED BY <1>6, <1>7, <1>8 DEF GuestKind

\* What was told, what was executed and what runs, when the guest moves.
LEMMA GuestKindHistory ==
  ASSUME IpcInv, CallInv, GuestKind, Lapses
  PROVE  Waiting' /\ Executed' /\ HistoryTyped'
<1> DEFINE mine == PendBodies(g.pend)
<1>1. /\ GuestIds /\ SdkIds /\ Waiting /\ Executed /\ HistoryTyped
      /\ h.ran \in [Reqs -> Nat] /\ h.told \in [Reqs -> {h.told[r] : r \in Reqs}]
      /\ h.asked \subseteq Reqs
  BY DEF CallInv, HistoryTyped
<1>0. lapsed \subseteq lapsed' /\ lapsed' \subseteq h.asked
  BY LapsedWereAsked
<1>2. /\ SdkAsking' \subseteq SdkAsking /\ SdkAnswers' \subseteq SdkAnswers
      /\ c' = c /\ running' = running
  BY OtherEnd DEF GuestKind
<1>3. /\ mine \subseteq GuestReqs \cap h.asked
      /\ \A p \in c.pend : p.body \in SdkReqs \cap h.asked
      /\ \A r \in running : r.body \in GuestReqs \cap h.asked
      /\ \A x \in SdkAsking \cup GuestAnswers : x.body \in SdkReqs \cap h.asked
      /\ \A x \in SdkAnswers : x.body \in GuestReqs
      /\ GuestReqs \cap SdkReqs = {} /\ GuestReqs \subseteq Reqs /\ SdkReqs \subseteq Reqs
  BY <1>1, WhoseRequests DEF PendBodies
<1>4. /\ \A b \in mine : h.told[b] = <<>>
      /\ \A p \in c.pend : h.told[p.body] = <<>>
      /\ ~c.up => c.pend = {}
  BY <1>1 DEF Waiting, PendBodies
<1>5. CASE GuestFades
  <2>1. /\ PendBodies(g'.pend) \subseteq mine /\ GuestAnswers' \subseteq GuestAnswers
        /\ h'.asked = h.asked /\ h'.ran = h.ran
        /\ h'.told \in [Reqs -> {h'.told[r] : r \in Reqs}]
        /\ \A r \in Reqs : h'.told[r] = h.told[r] \/ (r \in mine /\ r \notin PendBodies(g'.pend))
    BY <1>5 DEF GuestFades, GuestStep, Tells
  <2>2. \A p \in g'.pend : p.body \in PendBodies(g'.pend)
    BY DEF PendBodies
  <2> HIDE DEF mine
  <2>3. Waiting'
    BY <1>2, <1>3, <1>4, <2>1, <2>2 DEF Waiting
  <2>4. Executed'
    BY <1>0, <1>1, <1>2, <2>1 DEF Executed, Distinct
  <2>5. HistoryTyped'
    BY <1>0, <1>1, <1>3, <2>1 DEF HistoryTyped
  <2> QED BY <2>3, <2>4, <2>5
<1>6. CASE GuestAsksNew
  <2>1. PICK ch \in Chans, b \in GuestReqs :
          /\ Asks(b)
          /\ GuestStep({[epoch |-> g.epoch, ch |-> ch, corr |-> g'.corrCtr, body |-> b]}, {})
    BY <1>6 DEF GuestAsksNew
  <2>2. /\ PendBodies(g'.pend) \subseteq mine \cup {b} /\ GuestAnswers' \subseteq GuestAnswers
        /\ h'.asked = h.asked \cup {b} /\ b \notin h.asked
        /\ h'.ran = h.ran /\ h'.told = h.told
    BY <2>1 DEF GuestStep, Asks
  <2>3. \A p \in g'.pend : p.body \in PendBodies(g'.pend)
    BY DEF PendBodies
  <2>4. h.told[b] = <<>>
    BY <1>1, <1>3, <2>2 DEF HistoryTyped
  <2> HIDE DEF mine
  <2>5. Waiting'
    BY <1>2, <1>4, <2>2, <2>3, <2>4 DEF Waiting
  <2>6. Executed'
    BY <1>0, <1>1, <1>2, <2>2 DEF Executed, Distinct
  <2>7. HistoryTyped'
    BY <1>0, <1>1, <1>3, <2>2 DEF HistoryTyped
  <2> QED BY <2>5, <2>6, <2>7
<1>7. CASE GuestServesNew
  <2>1. PICK x \in SdkAsking : Executes(x.body) /\ GuestStep({}, {x})
    BY <1>7 DEF GuestServesNew
  <2>2. /\ PendBodies(g'.pend) \subseteq mine /\ GuestAnswers' \subseteq GuestAnswers \cup {x}
        /\ h'.asked = h.asked /\ h'.told = h.told
        /\ h'.ran = [h.ran EXCEPT ![x.body] = h.ran[x.body] + 1]
    BY <2>1 DEF GuestStep, Executes
  <2>3. \A p \in g'.pend : p.body \in PendBodies(g'.pend)
    BY DEF PendBodies
  <2>4. x.body \in Reqs /\ x.body \in h.asked /\ x.body \notin GuestReqs
    BY <1>3
  <2>5. /\ \A b \in Reqs : h'.ran[b] = IF b = x.body THEN h.ran[b] + 1 ELSE h.ran[b]
        /\ h'.ran \in [Reqs -> Nat] /\ h'.ran[x.body] > 0
    BY <1>1, <2>2, <2>4
  <2> HIDE DEF mine
  <2>6. Waiting'
    BY <1>2, <1>4, <2>2, <2>3 DEF Waiting
  <2>7. Executed'
    <3>1. ASSUME NEW y \in GuestAnswers' \cup SdkAnswers' PROVE h'.ran[y.body] > 0
      <4>1. CASE y = x
        BY <2>4, <2>5, <4>1
      <4>2. CASE y # x
        <5>1. y \in GuestAnswers \cup SdkAnswers
          BY <1>2, <2>2, <4>2
        <5>2. y.body \in Reqs /\ h.ran[y.body] > 0
          BY <1>1, <1>3, <5>1 DEF Executed
        <5>3. CASE y.body = x.body
          BY <2>5, <5>3
        <5>4. CASE y.body # x.body
          BY <2>5, <5>2, <5>4
        <5> QED BY <5>3, <5>4
      <4> QED BY <4>1, <4>2
    <3>2. \A r \in running : h'.ran[r.body] = 0 \/ r.body \in lapsed
      BY <1>1, <1>3, <2>4, <2>5 DEF Executed
    <3>3. Distinct(running)
      BY <1>1 DEF Executed
    <3> QED BY <1>0, <1>2, <3>1, <3>2, <3>3 DEF Executed, Distinct
  <2>8. HistoryTyped'
    BY <1>0, <1>1, <1>3, <2>2, <2>4, <2>5 DEF HistoryTyped
  <2> QED BY <2>6, <2>7, <2>8
<1> QED BY <1>5, <1>6, <1>7 DEF GuestKind

\* What each end may see again and has executed is known to it, when the guest
\* moves (onReq, findDedup, expireDedup).
LEMMA GuestKindKnown ==
  ASSUME IpcInv, IpcInv', CallInv, GuestKind, GuestRemembers, Lapses
  PROVE  GuestKnowsDone' /\ SdkKnowsDone'
<1>1. /\ GuestIds /\ SdkIds /\ Executed /\ GuestKnowsDone /\ SdkKnowsDone /\ OffersAreNew
      /\ HistoryTyped /\ h.ran \in [Reqs -> Nat] /\ lapsed \subseteq lapsed'
      /\ \A r \in Reqs : r \notin h.asked => h.ran[r] = 0
  BY LapsedWereAsked DEF CallInv, HistoryTyped
<1>2. /\ SdkAsking' \subseteq SdkAsking /\ c' = c /\ running' = running
  BY OtherEnd DEF GuestKind
<1>3. /\ \A x \in SdkAsking : x.body \in SdkReqs \cap h.asked
      /\ \A x \in GuestAsking : x.body \in GuestReqs \cap h.asked
      /\ \A r \in running : r.body \in GuestReqs \cap h.asked
      /\ GuestReqs \cap SdkReqs = {} /\ GuestReqs \subseteq Reqs /\ SdkReqs \subseteq Reqs
  BY <1>1, WhoseRequests
<1>5. ASSUME GuestStays, NEW x \in SdkAsking', g'.up, x.epoch = g'.epoch, h.ran[x.body] > 0
      PROVE  GuestKnows(g', x) \/ x.body \in lapsed'
  <2>1. g.up /\ g'.epoch = g.epoch /\ x \in SdkAsking
    BY <1>2, <1>5 DEF GuestStays
  <2>2. GuestKnows(g, x) \/ x.body \in lapsed
    BY <1>1, <1>5, <2>1 DEF GuestKnowsDone
  <2> QED BY <1>1, <1>5, <2>1, <2>2 DEF GuestRemembers
<1>6. CASE GuestFades
  <2>1. /\ h'.ran = h.ran /\ GuestStep({}, {})
        /\ GuestStays \/ GuestMovesOn
    BY <1>6 DEF GuestFades, Tells
  <2>2. GuestKnowsDone'
    <3> SUFFICES ASSUME NEW x \in SdkAsking', g'.up, x.epoch = g'.epoch, h'.ran[x.body] > 0
                 PROVE  GuestKnows(g', x) \/ x.body \in lapsed'
      BY DEF GuestKnowsDone, GuestKnows, Datagrams
    <3>1. CASE GuestStays
      BY <1>5, <2>1, <3>1
    <3>2. CASE GuestMovesOn
      <4>1. PICK f \in Datagrams(toGuest) :
               /\ f.type = "HELLO_ACK" /\ g.helloCorr # 0 /\ f.corr = g.helloCorr
               /\ g'.epoch = f.epoch
        BY <3>2 DEF GuestMovesOn
      <4>2. h.ran[x.body] = 0
        BY <1>1, <1>2, <4>1 DEF OffersAreNew
      <4> QED BY <2>1, <4>2
    <3> QED BY <2>1, <3>1, <3>2
  <2>3. GuestAsking' \subseteq GuestAsking
    BY <2>1 DEF GuestStep
  <2>4. SdkKnowsDone'
    BY <1>1, <1>2, <2>1, <2>3 DEF SdkKnowsDone, Started, SdkKnows
  <2> QED BY <2>2, <2>4
<1>7. CASE GuestAsksNew
  <2>1. PICK ch \in Chans, b \in GuestReqs :
          /\ Asks(b) /\ GuestStays
          /\ GuestStep({[epoch |-> g.epoch, ch |-> ch, corr |-> g'.corrCtr, body |-> b]}, {})
    BY <1>7 DEF GuestAsksNew
  <2> DEFINE z == [epoch |-> g.epoch, ch |-> ch, corr |-> g'.corrCtr, body |-> b]
  <2>2. GuestAsking' \subseteq GuestAsking \cup {z} /\ h'.ran = h.ran /\ b \notin h.asked
    BY <2>1 DEF GuestStep, Asks
  <2>3. z.body = b
    OBVIOUS
  <2> HIDE DEF z
  <2>4. GuestKnowsDone'
    BY <1>5, <2>1, <2>2 DEF GuestKnowsDone, GuestKnows, Datagrams
  <2>5. h.ran[b] = 0 /\ \A r \in running : r.body # b
    BY <1>1, <1>3, <2>2
  <2>6. SdkKnowsDone'
    BY <1>1, <1>2, <2>2, <2>3, <2>5 DEF SdkKnowsDone, Started, SdkKnows
  <2> QED BY <2>4, <2>6
<1>8. CASE GuestServesNew
  <2>1. PICK y \in SdkAsking : /\ GuestStays /\ Executes(y.body) /\ GuestKnows(g', y)
                               /\ GuestStep({}, {y})
    BY <1>8 DEF GuestServesNew
  <2>2. /\ GuestAsking' \subseteq GuestAsking /\ y.body \in Reqs /\ y.body \notin GuestReqs
        /\ h'.ran = [h.ran EXCEPT ![y.body] = h.ran[y.body] + 1]
    BY <1>3, <2>1 DEF GuestStep, Executes
  <2>3. \A b \in Reqs : h'.ran[b] = IF b = y.body THEN h.ran[b] + 1 ELSE h.ran[b]
    BY <1>1, <2>2
  <2>4. GuestKnowsDone'
    <3> SUFFICES ASSUME NEW x \in SdkAsking', g'.up, x.epoch = g'.epoch, h'.ran[x.body] > 0
                 PROVE  GuestKnows(g', x) \/ x.body \in lapsed'
      BY DEF GuestKnowsDone, GuestKnows, Datagrams
    <3>1. x \in SdkAsking /\ x.body \in Reqs
      BY <1>2, <1>3
    <3>2. CASE x.body = y.body
      <4>1. x = y
        BY <1>1, <3>1, <3>2 DEF SdkIds
      <4> QED BY <2>1, <4>1
    <3>3. CASE x.body # y.body
      BY <1>5, <2>1, <2>3, <3>1, <3>3
    <3> QED BY <3>2, <3>3
  <2>5. \A x \in GuestAsking : h'.ran[x.body] = h.ran[x.body]
    BY <1>3, <2>2, <2>3
  <2>6. SdkKnowsDone'
    BY <1>1, <1>2, <2>2, <2>5 DEF SdkKnowsDone, Started, SdkKnows
  <2> QED BY <2>4, <2>6
<1> QED BY <1>6, <1>7, <1>8 DEF GuestKind

\* A session offered goes on being one the guest has executed nothing of, and
\* requests come in one frame, when the guest moves (sendHello, onHelloAck).
LEMMA GuestKindOffers ==
  ASSUME IpcInv, IpcInv', CallInv, GuestKind
  PROVE  OffersAreNew' /\ OneFrameEach'
<1>1. /\ GuestIds /\ SdkIds /\ OffersAreNew /\ OneFrameEach /\ HistoryTyped
      /\ h.ran \in [Reqs -> Nat]
  BY DEF CallInv, HistoryTyped
<1>2. /\ SdkAsking' \subseteq SdkAsking /\ c' = c
      /\ Datagrams(toGuest') \subseteq Datagrams(toGuest)
      /\ Datagrams(toGuest)' = Datagrams(toGuest') /\ Datagrams(out)' = Datagrams(out')
      /\ Queued(g)' = Queued(g')
  BY OtherEnd DEF GuestKind, Datagrams, Queued
<1>3. /\ \A x \in SdkAsking : x.body \in SdkReqs
      /\ SdkReqs \subseteq Reqs
  BY <1>1, WhoseRequests
<1>4. PICK N, A : GuestStep(N, A)
  BY DEF GuestKind, GuestFades, GuestAsksNew, GuestServesNew
<1>5. /\ g.corrCtr <= g'.corrCtr /\ Plain(Queued(g')) /\ Plain(Datagrams(out'))
      /\ PlainRead(g'.rasm)
      /\ \A f \in Datagrams(out') : f.type = "HELLO" => f.corr <= g'.corrCtr
  BY <1>4 DEF GuestStep
<1>6. /\ g \in LinkState /\ g' \in LinkState /\ (g.up => g.helloCorr = 0)
      /\ toGuest \in Seq(Frame)
  BY DEF IpcInv, GuestInv, Sound, DownFirst, CompanionSound, CompanionTypeOK
<1>7. /\ g.corrCtr \in Nat /\ g'.corrCtr \in Nat /\ g.helloCorr \in Nat /\ g'.helloCorr \in Nat
  <2>1. g.corrCtr \in Word /\ g'.corrCtr \in Word /\ g.helloCorr \in Word /\ g'.helloCorr \in Word
    BY <1>6 DEF LinkState
  <2> QED BY <2>1, WireAssumption DEF Word
<1>8. OneFrameEach'
  BY <1>1, <1>2, <1>5 DEF OneFrameEach, Plain, PlainRead
<1>9. \A a \in Datagrams(toGuest) : a.type = "HELLO_ACK" => a.corr \in Nat
  <2> SUFFICES ASSUME NEW a \in Datagrams(toGuest), a.type = "HELLO_ACK" PROVE a.corr \in Nat
    OBVIOUS
  <2>1. a \in Frame
    BY <1>6, ElementOfSeq, LenProperties DEF Datagrams
  <2>2. a \in AckFrame
    BY <1>9, <2>1 DEF Frame, HelloFrame, AckFrame, BeatFrame, ByeFrame, DataFrame, DataTypes
  <2> QED BY <2>2, WireAssumption DEF AckFrame, Word
<1>10. \/ GuestStays
       \/ GuestMovesOn /\ h'.ran = h.ran
  BY DEF GuestKind, GuestFades, GuestAsksNew, GuestServesNew, Tells
<1>11. g'.helloCorr <= g'.corrCtr /\ (g'.up => g'.corrCtr >= 1)
  <2>1. CASE GuestStays
    BY <1>1, <1>5, <1>7, <2>1 DEF GuestStays, OffersAreNew
  <2>2. CASE GuestMovesOn
    BY <1>1, <1>5, <1>7, <2>2 DEF GuestMovesOn, OffersAreNew
  <2> QED BY <1>10, <2>1, <2>2
<1>12. ASSUME NEW a \in Datagrams(toGuest), a.type = "HELLO_ACK",
              (g'.helloCorr # 0 /\ a.corr = g'.helloCorr) \/ a.corr > g'.corrCtr,
              NEW x \in SdkAsking, x.epoch = a.epoch
       PROVE  h'.ran[x.body] = 0
  <2>1. /\ a.corr \in Nat
        /\ a.corr <= g.corrCtr \/ a.corr = 1
        /\ (g.helloCorr # 0 /\ a.corr = g.helloCorr) \/ a.corr > g.corrCtr =>
              h.ran[x.body] = 0
    BY <1>1, <1>9, <1>12 DEF OffersAreNew
  <2>2. CASE GuestMovesOn /\ h'.ran = h.ran
    <3>1. a.corr > g.corrCtr
      BY <1>5, <1>7, <1>12, <2>1, <2>2 DEF GuestMovesOn
    <3> QED BY <2>1, <2>2, <3>1
  <2>3. CASE GuestStays
    <3>1. h.ran[x.body] = 0
      BY <1>5, <1>7, <1>12, <2>1, <2>3 DEF GuestStays
    <3>2. CASE h'.ran = h.ran
      BY <3>1, <3>2
    <3>3. CASE GuestServesNew
      <4>1. g.up /\ g.helloCorr = 0 /\ g'.helloCorr = 0 /\ g.corrCtr >= 1
        BY <1>1, <1>6, <2>3, <3>3 DEF GuestServesNew, GuestStays, OffersAreNew
      <4> QED BY <1>5, <1>7, <1>12, <2>1, <4>1
    <3> QED BY <3>2, <3>3 DEF GuestKind, GuestFades, GuestAsksNew, Tells, Asks
  <2> QED BY <1>10, <2>2, <2>3
<1>13. \A a \in Datagrams(toGuest) : a.type = "HELLO_ACK" => a.corr <= g'.corrCtr \/ a.corr = 1
  BY <1>1, <1>5, <1>7, <1>9 DEF OffersAreNew
<1>14. OffersAreNew'
  BY <1>2, <1>5, <1>11, <1>12, <1>13 DEF OffersAreNew
<1> QED BY <1>8, <1>14

\* What the guest does keeps the invariant.
LEMMA GuestKindInv ==
  ASSUME IpcInv, IpcInv', CallInv, GuestKind, GuestRemembers, Lapses
  PROVE  CallInv'
<1>1. GuestIds' /\ SdkIds'
  BY GuestKindIds
<1>2. Waiting' /\ Executed' /\ HistoryTyped'
  BY GuestKindHistory
<1>3. GuestKnowsDone' /\ SdkKnowsDone'
  BY GuestKindKnown
<1>4. OffersAreNew' /\ OneFrameEach'
  BY GuestKindOffers
<1> QED BY <1>1, <1>2, <1>3, <1>4 DEF CallInv

\* No request or answer bears a token nothing else bears (onHello).
LEMMA UnheardCalls ==
  ASSUME IpcInv, NEW e, Unheard(e)
  PROVE  \A x \in GuestAsking \cup GuestAnswers \cup SdkAsking : x.epoch # e
<1>1. /\ \A f \in Queued(g) : f.epoch = g.epoch
      /\ \A d \in Datagrams(g.dedup) : d.epoch = g.epoch
  BY DEF IpcInv, GuestInv, Sound, OfSession, Datagrams, Queued
<1>2. \A k, x : Call(k, x).epoch = k
  BY DEF Call
<1>3. /\ e # c.epoch /\ e # g.epoch
      /\ \A f \in Datagrams(out) \cup Datagrams(toGuest) : f.epoch # e
  BY DEF Unheard
<1>4. \A x \in LinkAsking(g) \cup LinkAnswers(g) : x.epoch = g.epoch
  BY <1>1, <1>2 DEF LinkAsking, LinkAnswers, Calls, RequestFrames, Replies
<1>5. \A x \in Calls(RequestFrames(Datagrams(out))) \cup Calls(Replies(Datagrams(out))) : x.epoch # e
  BY <1>2, <1>3 DEF Calls, RequestFrames, Replies
<1>6. \A x \in SdkAsking : x.epoch # e
  <2>1. SdkAsking = {Call(c.epoch, p) : p \in c.pend} \cup Calls(RequestFrames(Datagrams(toGuest)))
    BY DEF SdkAsking, TurnAsking, Step
  <2> QED BY <1>2, <1>3, <2>1 DEF Calls, RequestFrames
<1> QED BY <1>3, <1>4, <1>5, <1>6 DEF GuestAsking, GuestAnswers

\* The ids of both ends, when the companion moves.
LEMMA SdkKindIds ==
  ASSUME IpcInv, IpcInv', CallInv, SdkKind
  PROVE  GuestIds' /\ SdkIds'
<1>1. /\ GuestAsking' \subseteq GuestAsking /\ GuestAnswers' \subseteq GuestAnswers
      /\ g' = g
  BY OtherEnd DEF SdkKind
<1>2. /\ g.corrCtr \in Nat /\ c.corrCtr \in Nat /\ GuestIds /\ SdkIds
      /\ h.asked \subseteq Reqs
  BY Counters DEF CallInv, HistoryTyped
<1>3. c'.corrCtr \in Nat
  <2>1. c' \in SessionState
    BY DEF IpcInv, CompanionSound, CompanionTypeOK
  <2>2. c'.corrCtr \in Word
    BY <2>1 DEF SessionState
  <2> QED BY <2>2, WireAssumption DEF Word
<1>4. /\ (GuestAsking \cup Running \cup SdkAnswers)' = GuestAsking' \cup Running' \cup SdkAnswers'
      /\ (SdkAsking \cup GuestAnswers)' = SdkAsking' \cup GuestAnswers'
  OBVIOUS
<1>5. \A x : SameCall(x, x)
  BY DEF SameCall
<1>6. g.corrCtr <= g.corrCtr /\ Running = Calls(running) /\ Running' = Calls(running')
  BY <1>2 DEF Running, Calls
<1>7. ASSUME h.asked \subseteq h'.asked,
             \A x \in Running' \cup SdkAnswers' :
               \E y \in GuestAsking \cup Running \cup SdkAnswers : SameCall(x, y)
      PROVE  GuestIds'
  <2>1. \A x \in (GuestAsking \cup Running \cup SdkAnswers)' :
          \E y \in GuestAsking \cup Running \cup SdkAnswers : SameCall(x, y)
    BY <1>1, <1>4, <1>5, <1>7
  <2> QED BY <1>1, <1>2, <1>6, <1>7, <2>1, GuestIdsStep
<1>8. ASSUME h'.asked = h.asked, SdkAsking' \subseteq SdkAsking, SdkStays
      PROVE  SdkIds'
  <2>1. (SdkAsking \cup GuestAnswers)' \subseteq SdkAsking \cup GuestAnswers
    BY <1>1, <1>4, <1>8
  <2>2. c'.up => c.up /\ c'.epoch = c.epoch /\ c.corrCtr <= c'.corrCtr
    BY <1>8 DEF SdkStays
  <2> QED BY <1>2, <1>3, <1>8, <2>1, <2>2, SdkIdsStep
<1>9. CASE SdkFades
  <2>1. /\ h'.asked = h.asked /\ SdkAsking' \subseteq SdkAsking
        /\ SdkAnswers' \subseteq SdkAnswers /\ Running' \subseteq Running
        /\ SdkStays \/ SdkMovesOn
    BY <1>6, <1>9 DEF SdkFades, SdkStep, Tells, Calls
  <2>2. GuestIds'
    BY <1>5, <1>7, <2>1
  <2>3. CASE SdkMovesOn
    <3>1. c'.up => \A x \in (SdkAsking \cup GuestAnswers)' : x.epoch # c'.epoch
      BY <1>1, <1>4, <2>1, <2>3, UnheardCalls DEF SdkMovesOn
    <3>2. (SdkAsking \cup GuestAnswers)' \subseteq SdkAsking \cup GuestAnswers
      BY <1>1, <1>4, <2>1
    <3>3. SdkIds'
      BY <1>2, <1>3, <2>1, <3>1, <3>2, SdkIdsStep
    <3> QED BY <2>2, <3>3
  <2> QED BY <1>8, <2>1, <2>2, <2>3
<1>10. CASE SdkAsksNew
  <2>1. PICK ch \in Chans, b \in SdkReqs :
          /\ Asks(b) /\ c'.corrCtr = c.corrCtr + 1 /\ SdkStays /\ c.up
          /\ SdkStep({[epoch |-> c.epoch, ch |-> ch, corr |-> c'.corrCtr, body |-> b]}, {})
          /\ Running' \subseteq Running
    BY <1>10 DEF SdkAsksNew
  <2> DEFINE z == [epoch |-> c.epoch, ch |-> ch, corr |-> c'.corrCtr, body |-> b]
  <2>2. SdkAsking' \subseteq SdkAsking \cup {z} /\ SdkAnswers' \subseteq SdkAnswers
    BY <2>1 DEF SdkStep
  <2>3. b \notin h.asked /\ b \in h'.asked /\ h.asked \subseteq h'.asked
    BY <2>1 DEF Asks
  <2>4. z = [epoch |-> c.epoch, ch |-> ch, corr |-> c.corrCtr + 1, body |-> b]
    BY <2>1
  <2> HIDE DEF z
  <2>5. c.corrCtr + 1 <= c'.corrCtr /\ c'.epoch = c.epoch /\ c.corrCtr <= c'.corrCtr
    BY <1>2, <1>3, <2>1 DEF SdkStays
  <2>6. GuestIds'
    BY <1>5, <1>7, <2>1, <2>2, <2>3
  <2>7. \A x \in (SdkAsking \cup GuestAnswers)' :
           \/ x \in SdkAsking \cup GuestAnswers
           \/ /\ x = [epoch |-> c.epoch, ch |-> ch, corr |-> c.corrCtr + 1, body |-> b]
              /\ c.up /\ c'.epoch = c.epoch /\ c.corrCtr + 1 <= c'.corrCtr
              /\ b \in SdkReqs \cap h'.asked /\ b \notin h.asked
    BY <1>1, <1>4, <2>1, <2>2, <2>3, <2>4, <2>5
  <2>8. SdkIds'
    BY <1>2, <1>3, <2>1, <2>3, <2>5, <2>7, SdkIdsStep
  <2> QED BY <2>6, <2>8
<1>11. CASE SdkServesNew
  <2>1. PICK x \in GuestAsking, r \in running' :
          /\ Call(r.epoch, r) = x /\ SdkStays /\ SdkStep({}, {})
          /\ running' = running \cup {r} /\ h'.asked = h.asked
    BY <1>11 DEF SdkServesNew
  <2>2. SdkAsking' \subseteq SdkAsking /\ SdkAnswers' \subseteq SdkAnswers
    BY <2>1 DEF SdkStep
  <2>3. Running' \subseteq Running \cup GuestAsking
    BY <1>6, <2>1 DEF Calls
  <2> QED BY <1>5, <1>7, <1>8, <2>1, <2>2, <2>3
<1>12. CASE SdkFinishes
  <2>1. PICK r \in running :
          /\ running' = running \ {r} /\ Executes(r.body) /\ SdkStays
          /\ SdkStep({}, {Call(c.epoch, r)})
    BY <1>12 DEF SdkFinishes
  <2>2. /\ SdkAsking' \subseteq SdkAsking /\ SdkAnswers' \subseteq SdkAnswers \cup {Call(c.epoch, r)}
        /\ h'.asked = h.asked /\ Running' \subseteq Running
    BY <1>6, <2>1 DEF SdkStep, Executes, Calls
  <2>3. Call(r.epoch, r) \in Running /\ SameCall(Call(c.epoch, r), Call(r.epoch, r))
    BY DEF Running, Calls, Call, SameCall
  <2>4. GuestIds'
    BY <1>5, <1>7, <2>2, <2>3
  <2> QED BY <1>8, <2>1, <2>2, <2>4
<1> QED BY <1>9, <1>10, <1>11, <1>12 DEF SdkKind

\* What was told, what was executed and what runs, when the companion moves.
LEMMA SdkKindHistory ==
  ASSUME IpcInv, CallInv, SdkKind, Lapses
  PROVE  Waiting' /\ Executed' /\ HistoryTyped'
<1> DEFINE mine == PendBodies(c.pend)
<1>1. /\ GuestIds /\ SdkIds /\ Waiting /\ Executed /\ HistoryTyped /\ SdkKnowsDone
      /\ h.ran \in [Reqs -> Nat] /\ h.told \in [Reqs -> {h.told[r] : r \in Reqs}]
      /\ h.asked \subseteq Reqs
  BY DEF CallInv, HistoryTyped
<1>0. lapsed \subseteq lapsed' /\ lapsed' \subseteq h.asked
  BY LapsedWereAsked
<1>2. /\ GuestAsking' \subseteq GuestAsking /\ GuestAnswers' \subseteq GuestAnswers /\ g' = g
  BY OtherEnd DEF SdkKind
<1>3. /\ mine \subseteq SdkReqs \cap h.asked
      /\ \A p \in g.pend : p.body \in GuestReqs \cap h.asked
      /\ \A r \in running : r.body \in GuestReqs \cap h.asked
      /\ \A x \in GuestAsking \cup SdkAnswers : x.body \in GuestReqs \cap h.asked
      /\ \A x \in GuestAnswers : x.body \in SdkReqs
      /\ GuestReqs \cap SdkReqs = {} /\ GuestReqs \subseteq Reqs /\ SdkReqs \subseteq Reqs
  BY <1>1, WhoseRequests DEF PendBodies
<1>4. /\ \A b \in mine : h.told[b] = <<>>
      /\ \A p \in g.pend : h.told[p.body] = <<>>
      /\ ~c.up => c.pend = {}
  BY <1>1 DEF Waiting, PendBodies
<1>5. \A p \in c'.pend : p.body \in PendBodies(c'.pend)
  BY DEF PendBodies
<1>6. SdkStays \/ SdkMovesOn => (~c'.up => c'.pend = {})
  BY DEF SdkStays, SdkMovesOn
<1>7. ASSUME NEW N, NEW A, SdkStep(N, A)
      PROVE  SdkAnswers' \subseteq SdkAnswers \cup A
             /\ PendBodies(c'.pend) \subseteq mine \cup {x.body : x \in N}
  BY <1>7 DEF SdkStep
<1> HIDE DEF mine
<1>8. CASE SdkFades
  <2>1. /\ PendBodies(c'.pend) \subseteq mine /\ SdkAnswers' \subseteq SdkAnswers
        /\ h'.asked = h.asked /\ h'.ran = h.ran /\ running' \subseteq running
        /\ h'.told \in [Reqs -> {h'.told[r] : r \in Reqs}]
        /\ \A r \in Reqs : h'.told[r] = h.told[r] \/ (r \in mine /\ r \notin PendBodies(c'.pend))
        /\ SdkStays \/ SdkMovesOn
    BY <1>7, <1>8 DEF SdkFades, Tells, mine
  <2>2. Waiting'
    BY <1>2, <1>3, <1>4, <1>5, <1>6, <2>1 DEF Waiting
  <2>3. Executed'
    BY <1>0, <1>1, <1>2, <2>1 DEF Executed, Distinct
  <2>4. HistoryTyped'
    BY <1>0, <1>1, <1>3, <2>1 DEF HistoryTyped
  <2> QED BY <2>2, <2>3, <2>4
<1>9. CASE SdkAsksNew
  <2>1. PICK ch \in Chans, b \in SdkReqs :
          /\ Asks(b) /\ SdkStays /\ Running' \subseteq Running /\ Distinct(running')
          /\ SdkStep({[epoch |-> c.epoch, ch |-> ch, corr |-> c'.corrCtr, body |-> b]}, {})
    BY <1>9 DEF SdkAsksNew
  <2>2. /\ PendBodies(c'.pend) \subseteq mine \cup {b} /\ SdkAnswers' \subseteq SdkAnswers
        /\ h'.asked = h.asked \cup {b} /\ b \notin h.asked
        /\ h'.ran = h.ran /\ h'.told = h.told
    BY <1>7, <2>1 DEF Asks
  <2>3. h.told[b] = <<>>
    BY <1>1, <1>3, <2>2 DEF HistoryTyped
  <2>4. Waiting'
    BY <1>2, <1>4, <1>5, <1>6, <2>1, <2>2, <2>3 DEF Waiting
  <2>5. \A r \in running' : h.ran[r.body] = 0 \/ r.body \in lapsed
    <3> SUFFICES ASSUME NEW r \in running' PROVE h.ran[r.body] = 0 \/ r.body \in lapsed
      OBVIOUS
    <3>1. Call(r.epoch, r) \in Running
      BY <2>1 DEF Running, Calls
    <3>2. PICK s \in running : Call(r.epoch, r) = Call(s.epoch, s)
      BY <3>1 DEF Running, Calls
    <3>3. r.body = s.body
      BY <3>2 DEF Call
    <3> QED BY <1>1, <3>3 DEF Executed
  <2>6. Executed'
    BY <1>0, <1>1, <1>2, <2>1, <2>2, <2>5 DEF Executed, Distinct
  <2>7. HistoryTyped'
    BY <1>0, <1>1, <1>3, <2>2 DEF HistoryTyped
  <2> QED BY <2>4, <2>6, <2>7
<1>10. CASE SdkServesNew
  <2>1. PICK x \in GuestAsking, r \in running' :
          /\ c.up /\ x.epoch = c.epoch /\ ~SdkKnows(c, x) /\ Call(r.epoch, r) = x
          /\ SdkStays /\ SdkStep({}, {}) /\ running' = running \cup {r}
          /\ h'.asked = h.asked /\ h'.ran = h.ran /\ h'.told = h.told
    BY <1>10 DEF SdkServesNew
  <2>2. /\ PendBodies(c'.pend) \subseteq mine /\ SdkAnswers' \subseteq SdkAnswers
    BY <1>7, <2>1
  <2>3. ~Started(x.body) \/ x.body \in lapsed
    BY <1>1, <2>1 DEF SdkKnowsDone
  <2>4. /\ h.ran[r.body] = 0 \/ r.body \in lapsed
        /\ (\A s \in running : s.body # r.body) \/ r.body \in lapsed
    <3>1. r.body = x.body /\ x.body \in Reqs
      BY <1>3, <2>1 DEF Call
    <3> QED BY <1>1, <2>3, <3>1 DEF Started
  <2>5. Waiting'
    BY <1>2, <1>4, <1>5, <1>6, <2>1, <2>2 DEF Waiting
  <2>6. Executed'
    BY <1>0, <1>1, <1>2, <2>1, <2>2, <2>4 DEF Executed, Distinct
  <2>7. HistoryTyped'
    BY <1>0, <1>1, <2>1 DEF HistoryTyped
  <2> QED BY <2>5, <2>6, <2>7
<1>11. CASE SdkFinishes
  <2>1. PICK r \in running :
          /\ running' = running \ {r} /\ Executes(r.body) /\ SdkStays
          /\ SdkStep({}, {Call(c.epoch, r)})
    BY <1>11 DEF SdkFinishes
  <2> DEFINE x == Call(c.epoch, r)
  <2>2. /\ PendBodies(c'.pend) \subseteq mine /\ SdkAnswers' \subseteq SdkAnswers \cup {x}
        /\ h'.asked = h.asked /\ h'.told = h.told
        /\ h'.ran = [h.ran EXCEPT ![r.body] = h.ran[r.body] + 1]
    BY <1>7, <2>1 DEF Executes
  <2>3. r.body \in Reqs /\ r.body \in h.asked /\ x.body = r.body
    BY <1>3 DEF Call
  <2> HIDE DEF x
  <2>4. /\ \A b \in Reqs : h'.ran[b] = IF b = r.body THEN h.ran[b] + 1 ELSE h.ran[b]
        /\ h'.ran \in [Reqs -> Nat] /\ h'.ran[r.body] > 0
    BY <1>1, <2>2, <2>3
  <2>5. Waiting'
    BY <1>2, <1>4, <1>5, <1>6, <2>1, <2>2 DEF Waiting
  <2>6. Executed'
    <3>1. ASSUME NEW y \in GuestAnswers' \cup SdkAnswers' PROVE h'.ran[y.body] > 0
      <4>1. CASE y = x
        BY <2>3, <2>4, <4>1
      <4>2. CASE y # x
        <5>1. y \in GuestAnswers \cup SdkAnswers
          BY <1>2, <2>2, <4>2
        <5>2. y.body \in Reqs /\ h.ran[y.body] > 0
          BY <1>1, <1>3, <5>1 DEF Executed
        <5>3. CASE y.body = r.body
          BY <2>4, <5>3
        <5>4. CASE y.body # r.body
          BY <2>4, <5>2, <5>4
        <5> QED BY <5>3, <5>4
      <4> QED BY <4>1, <4>2
    <3>2. \A s \in running' : h'.ran[s.body] = 0 \/ s.body \in lapsed
      BY <1>1, <1>3, <2>1, <2>4 DEF Executed, Distinct
    <3> QED BY <1>0, <1>1, <2>1, <3>1, <3>2 DEF Executed, Distinct
  <2>7. HistoryTyped'
    BY <1>0, <1>1, <2>2, <2>3, <2>4 DEF HistoryTyped
  <2> QED BY <2>5, <2>6, <2>7
<1> QED BY <1>8, <1>9, <1>10, <1>11 DEF SdkKind

\* What each end may see again and has executed is known to it, when the
\* companion moves (onReq, dedupVal, runTimers).
LEMMA SdkKindKnown ==
  ASSUME IpcInv, CallInv, SdkKind, Lapses
  PROVE  GuestKnowsDone' /\ SdkKnowsDone'
<1>1. /\ GuestIds /\ SdkIds /\ Executed /\ GuestKnowsDone /\ SdkKnowsDone
      /\ HistoryTyped /\ h.ran \in [Reqs -> Nat] /\ lapsed \subseteq lapsed'
      /\ \A r \in Reqs : r \notin h.asked => h.ran[r] = 0
  BY LapsedWereAsked DEF CallInv, HistoryTyped
<1>2. GuestAsking' \subseteq GuestAsking /\ g' = g
  BY OtherEnd DEF SdkKind
<1>3. /\ \A x \in SdkAsking : x.body \in SdkReqs \cap h.asked
      /\ \A x \in GuestAsking : x.body \in GuestReqs \cap h.asked
      /\ \A r \in running : r.body \in GuestReqs \cap h.asked
      /\ GuestReqs \cap SdkReqs = {} /\ GuestReqs \subseteq Reqs /\ SdkReqs \subseteq Reqs
  BY <1>1, WhoseRequests
<1>4. ASSUME NEW N, NEW A, SdkStep(N, A) PROVE SdkAsking' \subseteq SdkAsking \cup N
  BY <1>4 DEF SdkStep
<1>5. ASSUME SdkAsking' \subseteq SdkAsking,
             \A x \in SdkAsking : h'.ran[x.body] = h.ran[x.body]
      PROVE  GuestKnowsDone'
  BY <1>1, <1>2, <1>5 DEF GuestKnowsDone, GuestKnows, Datagrams
<1>6. CASE SdkFades
  <2>1. /\ h'.ran = h.ran /\ SdkAsking' \subseteq SdkAsking /\ running' \subseteq running
        /\ (SdkStays /\ SdkRemembers) \/ SdkMovesOn
    BY <1>4, <1>6 DEF SdkFades, Tells
  <2>2. ASSUME NEW x \in GuestAsking', c'.up, x.epoch = c'.epoch, Started(x.body)'
        PROVE  SdkKnows(c', x) \/ x.body \in lapsed'
    <3>1. CASE SdkStays /\ SdkRemembers
      <4>1. c.up /\ x.epoch = c.epoch /\ x \in GuestAsking
        BY <1>2, <2>2, <3>1 DEF SdkStays
      <4>2. Started(x.body)
        BY <2>1, <2>2 DEF Started
      <4>3. SdkKnows(c, x) \/ x.body \in lapsed
        BY <1>1, <4>1, <4>2 DEF SdkKnowsDone
      <4> QED BY <1>1, <2>2, <3>1, <4>1, <4>3 DEF SdkRemembers
    <3>2. CASE SdkMovesOn
      BY <1>2, <2>2, <3>2, UnheardCalls DEF SdkMovesOn
    <3> QED BY <2>1, <3>1, <3>2
  <2>3. SdkKnowsDone'
    BY <2>2 DEF SdkKnowsDone, SdkKnows
  <2> QED BY <1>5, <2>1, <2>3
<1>7. CASE SdkAsksNew
  <2>1. PICK ch \in Chans, b \in SdkReqs :
          /\ Asks(b) /\ SdkStays /\ c'.dedup = c.dedup /\ Running' \subseteq Running
          /\ SdkStep({[epoch |-> c.epoch, ch |-> ch, corr |-> c'.corrCtr, body |-> b]}, {})
    BY <1>7 DEF SdkAsksNew
  <2> DEFINE z == [epoch |-> c.epoch, ch |-> ch, corr |-> c'.corrCtr, body |-> b]
  <2>2. SdkAsking' \subseteq SdkAsking \cup {z} /\ h'.ran = h.ran /\ b \notin h.asked
    BY <1>4, <2>1 DEF Asks
  <2>3. z.body = b
    OBVIOUS
  <2> HIDE DEF z
  <2>4. h.ran[b] = 0
    BY <1>1, <1>3, <2>2
  <2>5. GuestKnowsDone'
    BY <1>1, <1>2, <2>2, <2>3, <2>4 DEF GuestKnowsDone, GuestKnows, Datagrams
  <2>6. ASSUME NEW x \in GuestAsking', c'.up, x.epoch = c'.epoch, Started(x.body)'
        PROVE  SdkKnows(c', x) \/ x.body \in lapsed'
    <3>1. c.up /\ c'.epoch = c.epoch /\ x \in GuestAsking
      BY <1>2, <2>1, <2>6 DEF SdkStays
    <3>2. Started(x.body)
      <4>1. CASE \E r \in running' : r.body = x.body
        <5>1. PICK r \in running' : r.body = x.body
          BY <4>1
        <5>2. Call(r.epoch, r) \in Running
          BY <2>1 DEF Running, Calls
        <5>3. PICK s \in running : Call(r.epoch, r) = Call(s.epoch, s)
          BY <5>2 DEF Running, Calls
        <5>4. s.body = x.body
          BY <5>1, <5>3 DEF Call
        <5> QED BY <5>4 DEF Started
      <4>2. CASE h'.ran[x.body] > 0
        BY <2>2, <4>2 DEF Started
      <4> QED BY <2>6, <4>1, <4>2 DEF Started
    <3>3. SdkKnows(c, x) \/ x.body \in lapsed
      BY <1>1, <2>6, <3>1, <3>2 DEF SdkKnowsDone
    <3> QED BY <1>1, <2>1, <3>1, <3>3 DEF SdkKnows
  <2>7. SdkKnowsDone'
    BY <2>6 DEF SdkKnowsDone, SdkKnows
  <2> QED BY <2>5, <2>7
<1>8. CASE SdkServesNew
  <2>1. PICK y \in GuestAsking, r \in running' :
          /\ c.up /\ y.epoch = c.epoch /\ Call(r.epoch, r) = y
          /\ SdkStays /\ SdkStep({}, {}) /\ running' = running \cup {r}
          /\ c.dedup \subseteq c'.dedup /\ SdkKnows(c', y) /\ h'.ran = h.ran
    BY <1>8 DEF SdkServesNew
  <2>2. ASSUME NEW x \in GuestAsking', c'.up, x.epoch = c'.epoch, Started(x.body)'
        PROVE  SdkKnows(c', x) \/ x.body \in lapsed'
    <3>1. c.up /\ c'.epoch = c.epoch /\ x \in GuestAsking /\ r.body = y.body
      BY <1>2, <2>1, <2>2 DEF SdkStays, Call
    <3>2. CASE x.body = y.body
      <4>1. x.ch = y.ch /\ x.corr = y.corr
        BY <1>1, <3>1, <3>2 DEF GuestIds, SameCall
      <4> QED BY <2>1, <4>1 DEF SdkKnows
    <3>3. CASE x.body # y.body
      <4>1. Started(x.body)
        BY <2>1, <2>2, <3>1, <3>3 DEF Started
      <4>2. SdkKnows(c, x) \/ x.body \in lapsed
        BY <1>1, <2>2, <3>1, <4>1 DEF SdkKnowsDone
      <4> QED BY <1>1, <2>1, <3>1, <4>2 DEF SdkKnows
    <3> QED BY <3>2, <3>3
  <2>3. SdkKnowsDone'
    BY <2>2 DEF SdkKnowsDone, SdkKnows
  <2>4. SdkAsking' \subseteq SdkAsking
    BY <1>4, <2>1
  <2> QED BY <1>5, <2>1, <2>3, <2>4
<1>9. CASE SdkFinishes
  <2>1. PICK r \in running :
          /\ running' = running \ {r} /\ Executes(r.body) /\ SdkStays /\ SdkRemembers
          /\ SdkStep({}, {Call(c.epoch, r)})
    BY <1>9 DEF SdkFinishes
  <2>2. SdkAsking' \subseteq SdkAsking /\ h'.ran = [h.ran EXCEPT ![r.body] = h.ran[r.body] + 1]
    BY <1>4, <2>1 DEF Executes
  <2>3. \A b \in Reqs : h'.ran[b] = IF b = r.body THEN h.ran[b] + 1 ELSE h.ran[b]
    BY <1>1, <1>3, <2>2
  <2>4. \A x \in SdkAsking : h'.ran[x.body] = h.ran[x.body]
    BY <1>3, <2>3
  <2>5. ASSUME NEW x \in GuestAsking', c'.up, x.epoch = c'.epoch, Started(x.body)'
        PROVE  SdkKnows(c', x) \/ x.body \in lapsed'
    <3>1. c.up /\ x.epoch = c.epoch /\ x \in GuestAsking /\ x.body \in Reqs
      BY <1>2, <1>3, <2>1, <2>5 DEF SdkStays
    <3>2. Started(x.body)
      BY <2>1, <2>3, <2>5, <3>1 DEF Started
    <3>3. SdkKnows(c, x) \/ x.body \in lapsed
      BY <1>1, <3>1, <3>2 DEF SdkKnowsDone
    <3> QED BY <1>1, <2>1, <2>5, <3>1, <3>3 DEF SdkRemembers
  <2>6. SdkKnowsDone'
    BY <2>5 DEF SdkKnowsDone, SdkKnows
  <2> QED BY <1>5, <2>2, <2>4, <2>6
<1> QED BY <1>6, <1>7, <1>8, <1>9 DEF SdkKind

\* A session the companion offers is one nothing was asked in, and requests
\* come in one frame, when the companion moves (onHello).
LEMMA SdkKindOffers ==
  ASSUME IpcInv, CallInv, SdkKind
  PROVE  OffersAreNew' /\ OneFrameEach'
<1>1. /\ GuestIds /\ SdkIds /\ OffersAreNew /\ OneFrameEach /\ HistoryTyped
      /\ h.ran \in [Reqs -> Nat] /\ \A r \in Reqs : r \notin h.asked => h.ran[r] = 0
  BY DEF CallInv, HistoryTyped
<1>2. /\ g' = g /\ Datagrams(out') \subseteq Datagrams(out)
      /\ Datagrams(toGuest)' = Datagrams(toGuest') /\ Datagrams(out)' = Datagrams(out')
      /\ Queued(g)' = Queued(g)
  BY DEF SdkKind, Datagrams, Queued
<1>3. /\ \A x \in SdkAsking : x.body \in SdkReqs \cap h.asked
      /\ \A r \in running : r.body \in GuestReqs
      /\ GuestReqs \cap SdkReqs = {} /\ GuestReqs \subseteq Reqs /\ SdkReqs \subseteq Reqs
  BY <1>1, WhoseRequests
<1>4. PICK N, A : SdkStep(N, A)
  BY DEF SdkKind, SdkFades, SdkAsksNew, SdkServesNew, SdkFinishes
<1>5. OneFrameEach'
  BY <1>1, <1>2, <1>4 DEF SdkStep, OneFrameEach, Plain, PlainRead
<1>6. ASSUME NEW x \in SdkAsking' PROVE h'.ran[x.body] = 0 \/ (x \in SdkAsking /\ h'.ran[x.body] = h.ran[x.body])
  <2>1. CASE SdkFades
    BY <2>1 DEF SdkFades, SdkStep, Tells
  <2>2. CASE SdkAsksNew
    <3>1. PICK ch \in Chans, b \in SdkReqs :
            /\ Asks(b)
            /\ SdkStep({[epoch |-> c.epoch, ch |-> ch, corr |-> c'.corrCtr, body |-> b]}, {})
      BY <2>2 DEF SdkAsksNew
    <3>2. /\ SdkAsking' \subseteq SdkAsking \cup
               {[epoch |-> c.epoch, ch |-> ch, corr |-> c'.corrCtr, body |-> b]}
          /\ h'.ran = h.ran /\ h.ran[b] = 0
      BY <1>1, <1>3, <3>1 DEF SdkStep, Asks
    <3> QED BY <3>2
  <2>3. CASE SdkServesNew
    BY <2>3 DEF SdkServesNew, SdkStep
  <2>4. CASE SdkFinishes
    <3>1. PICK r \in running : Executes(r.body) /\ SdkStep({}, {Call(c.epoch, r)})
      BY <2>4 DEF SdkFinishes
    <3>2. x \in SdkAsking /\ h'.ran = [h.ran EXCEPT ![r.body] = h.ran[r.body] + 1]
      BY <3>1 DEF SdkStep, Executes
    <3>3. x.body # r.body /\ x.body \in Reqs
      BY <1>3, <3>2
    <3> QED BY <1>1, <3>2, <3>3
  <2> QED BY <2>1, <2>2, <2>3, <2>4 DEF SdkKind
<1>7. ASSUME NEW a \in Datagrams(toGuest'), a.type = "HELLO_ACK"
      PROVE  /\ a.corr <= g.corrCtr \/ a.corr = 1
             /\ (g.helloCorr # 0 /\ a.corr = g.helloCorr) \/ a.corr > g.corrCtr =>
                  \A x \in SdkAsking' : x.epoch = a.epoch => h'.ran[x.body] = 0
  <2>1. CASE a \in Datagrams(toGuest)
    BY <1>1, <1>6, <1>7, <2>1 DEF OffersAreNew
  <2>2. CASE a \notin Datagrams(toGuest)
    <3>1. SdkFades /\ SdkMovesOn
      BY <1>7, <2>2 DEF SdkKind, SdkFades, SdkAsksNew, SdkServesNew, SdkFinishes, SdkStays, OffersSame
    <3>2. /\ Unheard(c'.epoch) /\ a.epoch = c'.epoch /\ a.corr \in 0 .. g.corrCtr \cup {1}
          /\ SdkAsking' \subseteq SdkAsking
      BY <1>7, <2>2, <3>1 DEF SdkMovesOn, OffersSame, SdkFades, SdkStep
    <3>3. \A x \in SdkAsking' : x.epoch # a.epoch
      BY <3>2, UnheardCalls
    <3> QED BY <3>2, <3>3
  <2> QED BY <2>1, <2>2
<1>8. OffersAreNew'
  BY <1>1, <1>2, <1>7 DEF OffersAreNew
<1> QED BY <1>5, <1>8

\* What the companion does keeps the invariant.
LEMMA SdkKindInv ==
  ASSUME IpcInv, IpcInv', CallInv, SdkKind, Lapses
  PROVE  CallInv'
<1>1. GuestIds' /\ SdkIds'
  BY SdkKindIds
<1>2. Waiting' /\ Executed' /\ HistoryTyped'
  BY SdkKindHistory
<1>3. GuestKnowsDone' /\ SdkKnowsDone'
  BY SdkKindKnown
<1>4. OffersAreNew' /\ OneFrameEach'
  BY SdkKindOffers
<1> QED BY <1>1, <1>2, <1>3, <1>4 DEF CallInv

-----------------------------------------------------------------------------
(* Every such step is one of the abstract specification. *)

\* Requests that were told nothing yet are told one outcome each.
LEMMA TellsTell ==
  ASSUME NEW P, NEW Q, Tells(P, Q),
         \A b \in PendBodies(P) : b \in h.asked /\ h.told[b] = <<>>
  PROVE  Rpc!Tell
<1>1. /\ h'.asked = h.asked /\ h'.ran = h.ran
      /\ h'.told \in [Reqs -> {h'.told[r] : r \in Reqs}]
      /\ \A r \in Reqs :
           \/ h'.told[r] = h.told[r]
           \/ /\ r \in PendBodies(P)
              /\ \E o \in Rpc!Unknown \cup {"answer"} :
                   h'.told[r] = Append(h.told[r], o) /\ (o = "answer" => h.ran[r] > 0)
  BY DEF Tells
<1>2. \A o : Append(<<>>, o) = <<o>>
  OBVIOUS
<1>3. ASSUME NEW r \in Reqs, h'.told[r] # h.told[r]
      PROVE  /\ r \in h.asked /\ h.told[r] = <<>>
             /\ \/ h'.told[r] = <<"answer">> /\ h.ran[r] > 0
                \/ \E u \in Rpc!Unknown : h'.told[r] = <<u>>
  <2>1. r \in h.asked /\ h.told[r] = <<>>
    BY <1>1, <1>3
  <2>2. PICK o \in Rpc!Unknown \cup {"answer"} :
          h'.told[r] = Append(h.told[r], o) /\ (o = "answer" => h.ran[r] > 0)
    BY <1>1, <1>3
  <2>3. h'.told[r] = <<o>>
    BY <1>2, <2>1, <2>2
  <2>4. CASE o = "answer"
    BY <2>1, <2>2, <2>3, <2>4
  <2>5. CASE o \in Rpc!Unknown
    BY <2>1, <2>3, <2>5
  <2> QED BY <2>2, <2>4, <2>5
<1> QED BY <1>1, <1>3 DEF Rpc!Tell

\* What the ends do is what AtMostOnceRpc allows (serviceRetries, onReq, onResp).
LEMMA KindsRefine ==
  ASSUME CallInv, GuestKind \/ SdkKind, Lapses
  PROVE  Rpc!Next
<1>0. Rpc!Forget
  BY LapsedWereAsked DEF Rpc!Forget
<1>1. /\ GuestIds /\ SdkIds /\ Waiting
  BY DEF CallInv
<1>2. /\ \A b \in PendBodies(g.pend) : b \in h.asked /\ h.told[b] = <<>>
      /\ \A b \in PendBodies(c.pend) : b \in h.asked /\ h.told[b] = <<>>
      /\ \A x \in SdkAsking : x.body \in Reqs \cap h.asked
      /\ \A r \in running : r.body \in Reqs \cap h.asked
      /\ GuestReqs \subseteq Reqs /\ SdkReqs \subseteq Reqs
  BY <1>1, WhoseRequests DEF PendBodies, Waiting
<1>3. ASSUME NEW b \in Reqs, Asks(b) PROVE Rpc!Next
  BY <1>0, <1>3 DEF Asks, Rpc!Next, Rpc!Ask
<1>4. ASSUME NEW b \in Reqs, b \in h.asked, Executes(b) PROVE Rpc!Next
  BY <1>0, <1>4 DEF Executes, Rpc!Next, Rpc!Execute
<1>5. CASE GuestFades
  <2>1. Rpc!Tell
    BY <1>2, <1>5, TellsTell DEF GuestFades
  <2> QED BY <1>0, <2>1 DEF Rpc!Next
<1>6. CASE SdkFades
  <2>1. Rpc!Tell
    BY <1>2, <1>6, TellsTell DEF SdkFades
  <2> QED BY <1>0, <2>1 DEF Rpc!Next
<1>7. CASE GuestAsksNew \/ SdkAsksNew
  BY <1>2, <1>3, <1>7 DEF GuestAsksNew, SdkAsksNew
<1>8. CASE GuestServesNew \/ SdkFinishes
  BY <1>2, <1>4, <1>8 DEF GuestServesNew, SdkFinishes
<1>9. CASE SdkServesNew
  BY <1>0, <1>9 DEF SdkServesNew, Rpc!Next
<1> QED BY <1>5, <1>6, <1>7, <1>8, <1>9 DEF GuestKind, SdkKind

\* It begins with nothing asked (Connect, Dial).
LEMMA CallInitInv == Init => CallInv /\ Rpc!Init
<1> SUFFICES ASSUME Init PROVE CallInv /\ Rpc!Init
  OBVIOUS
<1>1. PICK enabled \in BOOLEAN : g = NewLink(enabled)
  BY DEF Init, GuestInit
<1>2. /\ g.pend = {} /\ g.dedup = <<>> /\ g.q = [p \in Queues |-> <<>>] /\ ~g.up
      /\ g.corrCtr = 0 /\ g.helloCorr = 0 /\ g.rasm = [ch \in Chans |-> Closed]
  BY <1>1 DEF NewLink, NoChannelState
<1>3. /\ c.pend = {} /\ c.dedup = {} /\ ~c.up /\ c.rasm = [ch \in Chans |-> Closed]
      /\ running = {} /\ toGuest = <<>> /\ out = <<>>
  BY DEF Init, CompanionInit, GuestInit, NewSession
<1>4. /\ h.asked = {} /\ h.ran = [r \in Reqs |-> 0] /\ h.told = [r \in Reqs |-> <<>>]
      /\ lapsed = {}
  BY DEF Init
<1>5. /\ Datagrams(out) = {} /\ Datagrams(toGuest) = {} /\ Queued(g) = {}
      /\ Datagrams(g.dedup) = {}
  <2>1. Datagrams(<<>>) = {}
    BY DEF Datagrams
  <2>2. \A p \in Queues : g.q[p] = <<>>
    BY <1>2
  <2> QED BY <1>2, <1>3, <2>1, <2>2 DEF Queued
<1>6. GuestAsking = {} /\ GuestAnswers = {}
  BY <1>2, <1>5 DEF GuestAsking, GuestAnswers, LinkAsking, LinkAnswers, Calls, RequestFrames, Replies
<1>7. SdkAsking = {} /\ SdkAnswers = {} /\ Running = {}
  BY <1>3, <1>5 DEF SdkAsking, SdkAnswers, TurnAsking, TurnAnswers, Step, Running, Calls,
                    RequestFrames, Replies
<1>8. GuestIds /\ SdkIds
  BY <1>6, <1>7 DEF GuestIds, SdkIds
<1>9. Waiting /\ Executed
  BY <1>2, <1>3, <1>6, <1>7 DEF Waiting, Executed, Distinct
<1>10. GuestKnowsDone /\ SdkKnowsDone
  BY <1>6, <1>7 DEF GuestKnowsDone, SdkKnowsDone
<1>11. OffersAreNew
  BY <1>2, <1>5 DEF OffersAreNew
<1>12. OneFrameEach
  <2>1. ~Closed.open
    BY DEF Closed
  <2> QED BY <1>2, <1>3, <1>5, <2>1 DEF OneFrameEach, Plain, PlainRead
<1>13. HistoryTyped
  BY <1>4 DEF HistoryTyped
<1>14. Rpc!Init
  BY <1>4 DEF Rpc!Init
<1> QED BY <1>8, <1>9, <1>10, <1>11, <1>12, <1>13, <1>14 DEF CallInv

-----------------------------------------------------------------------------
(* What each step of the whole is: the guest's. *)

\* The history when those who stopped waiting, of P but not of Q, are told o.
Told(P, Q, o) ==
  [h EXCEPT !.told = [r \in Reqs |->
     IF r \in PendBodies(P) \ PendBodies(Q) THEN Append(h.told[r], o[r]) ELSE h.told[r]]]

\* A history nothing was told in.
LEMMA NothingTold ==
  ASSUME HistoryTyped, h'.asked = h.asked, h'.ran = h.ran, h'.told = h.told, NEW P, NEW Q
  PROVE  Tells(P, Q)
BY DEF HistoryTyped, Tells

\* A history those who stopped waiting were told something in.
LEMMA ToldTells ==
  ASSUME HistoryOK(h), NEW P, NEW Q, NEW o, h' = Told(P, Q, o),
         \A r \in Reqs \cap (PendBodies(P) \ PendBodies(Q)) :
           o[r] \in Rpc!Unknown \cup {"answer"} /\ (o[r] = "answer" => h.ran[r] > 0)
  PROVE  Tells(P, Q)
<1> DEFINE t == [r \in Reqs |-> IF r \in PendBodies(P) \ PendBodies(Q)
                                THEN Append(h.told[r], o[r]) ELSE h.told[r]]
<1>1. h' = [h EXCEPT !.told = t]
  BY DEF Told
<1>2. /\ t \in [Reqs -> {t[r] : r \in Reqs}]
      /\ \A r \in Reqs : t[r] = IF r \in PendBodies(P) \ PendBodies(Q)
                                THEN Append(h.told[r], o[r]) ELSE h.told[r]
  OBVIOUS
<1> HIDE DEF t
<1>3. h'.told = t /\ h'.asked = h.asked /\ h'.ran = h.ran
  BY <1>1 DEF HistoryOK
<1>4. ASSUME NEW r \in Reqs
      PROVE  \/ h'.told[r] = h.told[r]
             \/ /\ r \in PendBodies(P) \ PendBodies(Q)
                /\ \E u \in Rpc!Unknown \cup {"answer"} :
                     h'.told[r] = Append(h.told[r], u) /\ (u = "answer" => h.ran[r] > 0)
  BY <1>2, <1>3
<1> QED BY <1>2, <1>3, <1>4 DEF Tells

\* What the guest's link does is what the guest does when it puts nothing on
\* the socket.
LEMMA LinkGuestStep ==
  ASSUME IpcInv, IpcInv', CallInv, NEW N, NEW A, LinkCalls(g, g', N, A), out' = out
  PROVE  GuestStep(N, A) /\ GuestStays
<1>1. /\ GuestAsking' = LinkAsking(g') \cup Calls(RequestFrames(Datagrams(out)))
      /\ GuestAnswers' = LinkAnswers(g') \cup Calls(Replies(Datagrams(out)))
  BY DEF GuestAsking, GuestAnswers, LinkAsking, LinkAnswers, Queued, Datagrams, Calls,
         RequestFrames, Replies, Call
<1>2. /\ GuestAsking' \subseteq GuestAsking \cup N /\ GuestAnswers' \subseteq GuestAnswers \cup A
  BY <1>1 DEF LinkCalls, GuestAsking, GuestAnswers
<1>3. /\ Plain(Queued(g)) /\ Plain(Datagrams(out)) /\ PlainRead(g.rasm)
      /\ \A f \in Datagrams(out) : f.type = "HELLO" => f.corr <= g.corrCtr
  BY DEF CallInv, OneFrameEach, OffersAreNew
<1>4. g.corrCtr \in Nat /\ g'.corrCtr \in Nat /\ out \in Seq(Frame)
  <2>1. g \in LinkState /\ g' \in LinkState /\ out \in Seq(Frame)
    BY DEF IpcInv, GuestInv, Sound
  <2>2. g.corrCtr \in Word /\ g'.corrCtr \in Word
    BY <2>1 DEF LinkState
  <2> QED BY <2>1, <2>2, WireAssumption DEF Word
<1>5. \A f \in Datagrams(out') : f.type = "HELLO" => f.corr <= g'.corrCtr
  <2> SUFFICES ASSUME NEW f \in Datagrams(out), f.type = "HELLO" PROVE f.corr <= g'.corrCtr
    BY DEF Datagrams
  <2>1. f \in Frame
    BY <1>4, ElementOfSeq, LenProperties DEF Datagrams
  <2>2. f \in HelloFrame
    BY <1>5, <2>1 DEF Frame, HelloFrame, AckFrame, BeatFrame, ByeFrame, DataFrame, DataTypes
  <2>3. f.corr \in Nat
    BY <2>2, WireAssumption DEF HelloFrame, Word
  <2>4. g.corrCtr <= g'.corrCtr
    BY DEF LinkCalls
  <2> QED BY <1>3, <1>4, <2>3, <2>4
<1>6. Plain(Datagrams(out')) /\ Plain(Queued(g')) /\ PlainRead(g'.rasm)
  BY <1>3 DEF LinkCalls, Datagrams
<1> QED BY <1>2, <1>5, <1>6 DEF GuestStep, GuestStays, LinkCalls

\* The guest's link is as it was; datagrams may have got lost or arrived.
LEMMA GuestRests ==
  ASSUME IpcInv, IpcInv', CallInv, g' = g, c' = c, running' = running,
         Datagrams(out') \subseteq Datagrams(out), Datagrams(toGuest') \subseteq Datagrams(toGuest),
         h'.asked = h.asked, h'.ran = h.ran, h'.told = h.told
  PROVE  GuestKind
<1>1. GuestAsking' \subseteq GuestAsking /\ GuestAnswers' \subseteq GuestAnswers
  BY OtherEnd
<1>2. /\ Plain(Queued(g)) /\ Plain(Datagrams(out)) /\ PlainRead(g.rasm) /\ HistoryTyped
      /\ \A f \in Datagrams(out) : f.type = "HELLO" => f.corr <= g.corrCtr
  BY DEF CallInv, OneFrameEach, OffersAreNew
<1>3. Tells(g.pend, g'.pend)
  BY <1>2, NothingTold
<1>4. g.corrCtr <= g.corrCtr
  BY Counters
<1>5. GuestStep({}, {})
  BY <1>1, <1>2, <1>4 DEF GuestStep, Plain
<1>6. GuestStays
  BY DEF GuestStays
<1> QED BY <1>3, <1>5, <1>6 DEF GuestKind, GuestFades

\* The network, and a companion that is not there (Lose, Duplicate).
LEMMA NetworkKind ==
  ASSUME IpcInv, IpcInv', CallInv, Lose \/ Duplicate \/ NobodyListens \/ UNCHANGED vars
  PROVE  GuestKind
<1>1. out \in Seq(Frame) /\ toGuest \in Seq(Frame)
  BY DEF IpcInv, GuestInv, CompanionSound, CompanionTypeOK
<1>2. /\ g' = g /\ c' = c /\ running' = running /\ h' = h
      /\ Datagrams(out') \subseteq Datagrams(out) /\ Datagrams(toGuest') \subseteq Datagrams(toGuest)
  <2>1. CASE Lose
    <3>1. g' = g /\ c' = c /\ running' = running /\ h' = h
      BY <2>1 DEF Lose
    <3>2. \/ \E i \in DOMAIN out : out' = Without(out, i) /\ toGuest' = toGuest
          \/ \E i \in DOMAIN toGuest : toGuest' = Without(toGuest, i) /\ out' = out
      BY <2>1 DEF Lose
    <3> QED BY <1>1, <3>1, <3>2, WithoutSound
  <2>2. CASE Duplicate
    <3>1. g' = g /\ c' = c /\ running' = running /\ h' = h
      BY <2>2 DEF Duplicate
    <3>2. \/ \E i \in DOMAIN out : out' = Append(out, out[i]) /\ toGuest' = toGuest
          \/ \E i \in DOMAIN toGuest : toGuest' = Append(toGuest, toGuest[i]) /\ out' = out
      BY <2>2 DEF Duplicate
    <3> QED BY <1>1, <3>1, <3>2, CopySound
  <2>3. CASE NobodyListens
    <3>1. Datagrams(<<>>) = {}
      BY DEF Datagrams
    <3> QED BY <2>3, <3>1 DEF NobodyListens
  <2>4. CASE UNCHANGED vars
    BY <2>4 DEF vars
  <2> QED BY <2>1, <2>2, <2>3, <2>4
<1> QED BY <1>2, GuestRests

\* A link that holds nothing of a session asks and answers nothing that is not on
\* its way.
LEMMA EmptyLink ==
  ASSUME IpcInv, IpcInv', CallInv, g.corrCtr <= g'.corrCtr,
         g'.pend = {}, g'.dedup = <<>>, \A p \in Queues : g'.q[p] = <<>>,
         \A ch \in Chans : ~g'.rasm[ch].open,
         \A f \in Datagrams(out') : f \in Datagrams(out) \/ (f.type = "HELLO" /\ f.corr <= g'.corrCtr)
  PROVE  GuestStep({}, {})
<1>1. Datagrams(g'.dedup) = {} /\ Queued(g') = {} /\ Queued(g)' = Queued(g')
      /\ Datagrams(out)' = Datagrams(out') /\ Datagrams(g.dedup)' = Datagrams(g'.dedup)
  BY DEF Datagrams, Queued
<1>2. Calls({}) = {} /\ RequestFrames({}) = {} /\ Replies({}) = {}
  BY DEF Calls, RequestFrames, Replies
<1>3. /\ GuestAsking' = Calls(RequestFrames(Datagrams(out')))
      /\ GuestAnswers' = Calls(Replies(Datagrams(out')))
  <2>1. LinkAsking(g)' = {} /\ LinkAnswers(g)' = {}
    BY <1>1, <1>2 DEF LinkAsking, LinkAnswers, RequestFrames, Replies, Calls
  <2>2. /\ Calls(RequestFrames(Datagrams(out)))' = Calls(RequestFrames(Datagrams(out')))
        /\ Calls(Replies(Datagrams(out)))' = Calls(Replies(Datagrams(out')))
    BY DEF Calls, RequestFrames, Replies, Datagrams, Call
  <2> QED BY <2>1, <2>2 DEF GuestAsking, GuestAnswers
<1>4. /\ Calls(RequestFrames(Datagrams(out'))) \subseteq Calls(RequestFrames(Datagrams(out)))
      /\ Calls(Replies(Datagrams(out'))) \subseteq Calls(Replies(Datagrams(out)))
  BY DEF Calls, RequestFrames, Replies
<1>5. GuestAsking' \subseteq GuestAsking /\ GuestAnswers' \subseteq GuestAnswers
  BY <1>3, <1>4 DEF GuestAsking, GuestAnswers
<1>6. /\ Plain(Queued(g')) /\ Plain(Datagrams(out')) /\ PlainRead(g'.rasm)
      /\ PendBodies(g'.pend) = {}
  <2>1. Plain(Datagrams(out))
    BY DEF CallInv, OneFrameEach
  <2>2. "HELLO" \notin DataTypes
    BY DEF DataTypes
  <2> QED BY <1>1, <2>1, <2>2 DEF Plain, PlainRead, PendBodies
<1>7. \A f \in Datagrams(out') : f.type = "HELLO" => f.corr <= g'.corrCtr
  <2> SUFFICES ASSUME NEW f \in Datagrams(out), f.type = "HELLO" PROVE f.corr <= g'.corrCtr
    OBVIOUS
  <2>1. g \in LinkState /\ g' \in LinkState /\ out \in Seq(Frame)
    BY DEF IpcInv, GuestInv, Sound
  <2>2. g.corrCtr \in Int /\ g'.corrCtr \in Int
    BY <2>1 DEF LinkState, Word
  <2>3. f \in Frame
    BY <2>1, ElementOfSeq, LenProperties DEF Datagrams
  <2>4. f \in HelloFrame
    BY <1>7, <2>3 DEF Frame, HelloFrame, AckFrame, BeatFrame, ByeFrame, DataFrame, DataTypes
  <2>5. f.corr \in Int
    BY <2>4 DEF HelloFrame, Word
  <2>6. f.corr <= g.corrCtr
    BY DEF CallInv, OffersAreNew
  <2> QED BY <2>2, <2>5, <2>6
<1> QED BY <1>5, <1>6, <1>7 DEF GuestStep

\* What a guest loses with its session it told the application (resetSession).
LEMMA GuestResets ==
  ASSUME IpcInv, IpcInv', CallInv, NEW k \in LinkState, g' = ResetSession(k),
         k.corrCtr = g.corrCtr, out' = out, Tells(g.pend, g'.pend)
  PROVE  GuestFades
<1>1. /\ Sound(g') /\ ~g'.up /\ g'.pend = {} /\ g'.helloCorr = 0 /\ g'.corrCtr = g.corrCtr
  BY ResetSessionSound, ResetSessionDown
<1>2. g.corrCtr <= g.corrCtr
  BY Counters
<1>3. GuestStep({}, {})
  BY <1>1, <1>2, EmptyLink DEF Sound, Blank, Datagrams
<1> QED BY <1>1, <1>3 DEF GuestFades, GuestMovesOn

\* HELLO_ACK, a heartbeat, BYE, and what is ignored (deliver).
LEMMA SessionFrameKind ==
  ASSUME IpcInv, IpcInv', CallInv, NEW f \in Frame, f \in Datagrams(toGuest),
         \/ OnHelloAck("peer", f) \/ OnHeartbeat("peer", f)
         \/ OnBye("peer", f) \/ OnIgnored("peer", f),
         Tells(g.pend, g'.pend)
  PROVE  GuestFades
<1>1. g \in LinkState /\ Sound(g) /\ g.corrCtr <= g.corrCtr
  BY Counters DEF IpcInv, GuestInv, Sound
<1>2. CASE OnHelloAck("peer", f)
  <2> DEFINE h0 == [g EXCEPT !.epoch = f.epoch, !.up = TRUE, !.helloCorr = 0,
                     !.lastRx = g.tick, !.lastHB = g.tick]
  <2>1. f.epoch \in Epochs /\ 0 \in Word
    BY FrameEpoch, WireAssumption DEF Word
  <2>2. h0 \in LinkState
    BY <1>1, <2>1 DEF LinkState
  <2>3. g' = FreshChannels(h0) /\ out' = out
    BY <1>2 DEF OnHelloAck
  <2>4. /\ h0.up = TRUE /\ h0.helloCorr = 0 /\ h0.epoch = f.epoch /\ h0.q = g.q
        /\ h0.pend = g.pend /\ h0.dedup = g.dedup /\ h0.corrCtr = g.corrCtr
    BY <1>1 DEF LinkState
  <2> HIDE DEF h0
  <2>5. g' = [h0 EXCEPT !.txSeq = [ch \in Chans |-> 0],
                        !.rxLast = [ch \in Chans |-> 0],
                        !.resyncSent = [ch \in Chans |-> FALSE],
                        !.rasm = [ch \in Chans |-> Closed]]
    BY <2>2, <2>3, FreshChannelsType
  <2>6. /\ g'.up = TRUE /\ g'.helloCorr = 0 /\ g'.epoch = f.epoch /\ g'.q = g.q
        /\ g'.pend = g.pend /\ g'.dedup = g.dedup /\ g'.corrCtr = g.corrCtr
        /\ g'.rasm = [ch \in Chans |-> Closed]
    BY <2>2, <2>4, <2>5 DEF LinkState
  <2>7. ~g.up /\ g.pend = {} /\ g.dedup = <<>> /\ \A p \in Queues : g.q[p] = <<>>
    BY <1>1, <1>2 DEF OnHelloAck, Answers, Sound, DownFirst, Blank
  <2>8. ~Closed.open
    BY DEF Closed
  <2>9. GuestStep({}, {})
    BY <1>1, <2>3, <2>6, <2>7, <2>8, EmptyLink DEF Datagrams
  <2>10. GuestMovesOn
    BY <1>2, <2>6 DEF OnHelloAck, Answers, GuestMovesOn
  <2> QED BY <2>9, <2>10 DEF GuestFades
<1>3. CASE OnHeartbeat("peer", f)
  <2>1. /\ g'.up = g.up /\ g'.epoch = g.epoch /\ g'.helloCorr = g.helloCorr
        /\ g'.corrCtr = g.corrCtr /\ g'.q = g.q /\ g'.rasm = g.rasm
        /\ g'.pend = g.pend /\ g'.dedup = g.dedup /\ out' = out
    BY <1>1, <1>3 DEF OnHeartbeat, LinkState
  <2>2. LinkCalls(g, g', {}, {})
    BY <1>1, <2>1, LinkEdit
  <2> QED BY <2>1, <2>2, LinkGuestStep DEF GuestFades
<1>4. CASE OnBye("peer", f)
  <2> DEFINE h0 == [g EXCEPT !.lastRx = g.tick]
  <2>1. h0 \in LinkState /\ g' = ResetSession(h0) /\ out' = out /\ h0.corrCtr = g.corrCtr
    BY <1>1, <1>4 DEF OnBye, LinkState
  <2> HIDE DEF h0
  <2> QED BY <2>1, GuestResets
<1>5. CASE OnIgnored("peer", f)
  <2>1. g' = g /\ out' = out
    BY <1>5 DEF OnIgnored, guestVars
  <2>2. LinkCalls(g, g', {}, {})
    BY <1>1, <2>1, LinkEdit
  <2> QED BY <2>1, <2>2, LinkGuestStep DEF GuestFades
<1> QED BY <1>2, <1>3, <1>4, <1>5

\* Entries dropped from the head of the table answer nothing any more
\* (expireDedup, addDedup).
LEMMA KeepFromCalls ==
  ASSUME NEW s \in LinkState, NEW n \in Nat \ {0}, NEW N, NEW A
  PROVE  LET t == KeepFrom(s, n)
         IN  /\ t \in LinkState /\ LinkCalls(s, t, N, A) /\ t.rasm = s.rasm
             /\ Datagrams(t.dedup) \subseteq Datagrams(s.dedup)
<1> DEFINE d == SubSeq(s.dedup, n, Len(s.dedup))
           t == KeepFrom(s, n)
<1>1. s.dedup \in Seq(DedupEntry) /\ s.corrCtr \in Word
  BY DEF LinkState
<1>2. /\ Len(s.dedup) \in Nat /\ DOMAIN s.dedup = 1 .. Len(s.dedup)
      /\ \A i \in n .. Len(s.dedup) : s.dedup[i] \in DedupEntry
  BY <1>1, LenProperties, ElementOfSeq
<1>3. /\ d \in Seq(DedupEntry)
      /\ \A i \in 1 .. Len(s.dedup) - n + 1 : d[i] = s.dedup[n + i - 1]
      /\ Len(d) = IF n <= Len(s.dedup) THEN Len(s.dedup) - n + 1 ELSE 0
  <2>1. n \in Int /\ Len(s.dedup) \in Int
    BY <1>2
  <2> QED BY <1>2, <2>1, SubSeqProperties
<1>4. DOMAIN d = 1 .. Len(d)
  BY <1>3, LenProperties
<1>5. ASSUME NEW i \in DOMAIN d PROVE d[i] \in Datagrams(s.dedup)
  <2>1. i \in 1 .. Len(s.dedup) - n + 1
    BY <1>2, <1>3, <1>4, <1>5
  <2>2. n + i - 1 \in DOMAIN s.dedup
    BY <1>2, <2>1
  <2> QED BY <1>3, <2>1, <2>2 DEF Datagrams
<1>6. t = [s EXCEPT !.dedup = d]
  BY DEF KeepFrom
<1> HIDE DEF d, t
<1>7. /\ t \in LinkState /\ t.up = s.up /\ t.epoch = s.epoch /\ t.helloCorr = s.helloCorr
      /\ t.corrCtr = s.corrCtr /\ t.q = s.q /\ t.rasm = s.rasm /\ t.pend = s.pend
      /\ t.dedup = d
  BY <1>3, <1>6 DEF LinkState
<1>8. Datagrams(t.dedup) \subseteq Datagrams(s.dedup)
  BY <1>5, <1>7 DEF Datagrams
<1>9. s.corrCtr <= s.corrCtr
  BY <1>1 DEF Word
<1>10. LinkCalls(s, t, N, A)
  BY <1>7, <1>8, <1>9, LinkEdit
<1> QED BY <1>7, <1>8, <1>10 DEF t

\* Neither does what expires (expireDedup, expireReassembly).
LEMMA ExpireCalls ==
  ASSUME NEW s, Sound(s), NEW N, NEW A
  PROVE  /\ LinkCalls(s, ExpireDedup(s), N, A)
         /\ Datagrams(ExpireDedup(s).dedup) \subseteq Datagrams(s.dedup)
         /\ LinkCalls(s, ExpireReassembly(s), N, A)
<1>1. s \in LinkState /\ s.dedup \in Seq(DedupEntry) /\ s.corrCtr \in Word
  BY DEF Sound, LinkState
<1>2. Len(s.dedup) \in Nat /\ DOMAIN s.dedup = 1 .. Len(s.dedup)
  BY <1>1, LenProperties
<1>3. /\ LinkCalls(s, ExpireDedup(s), N, A)
      /\ Datagrams(ExpireDedup(s).dedup) \subseteq Datagrams(s.dedup)
  <2> DEFINE live == {i \in DOMAIN s.dedup : Sub(s.tick, s.dedup[i].tick) < DedupTicks}
  <2>1. CASE live = {}
    <3>1. SubSeq(s.dedup, Len(s.dedup) + 1, Len(s.dedup)) = <<>>
      BY <1>2, SubSeqEmpty
    <3>2. ExpireDedup(s) = [s EXCEPT !.dedup = <<>>]
      BY <2>1 DEF ExpireDedup
    <3>3. ExpireDedup(s) = KeepFrom(s, Len(s.dedup) + 1)
      BY <3>1, <3>2 DEF KeepFrom
    <3>4. Len(s.dedup) + 1 \in Nat \ {0}
      BY <1>2
    <3> QED BY <1>1, <3>3, <3>4, KeepFromCalls
  <2>2. CASE live # {}
    <3> DEFINE first == CHOOSE i \in live : \A j \in live : i <= j
    <3>1. \E i \in live : \A j \in live : i <= j
      <4>1. live \subseteq Nat
        BY <1>2
      <4> HIDE DEF live
      <4> QED BY <2>2, <4>1, LeastMember
    <3>2. first \in live
      BY <3>1
    <3>3. first \in Nat \ {0}
      <4> HIDE DEF first
      <4> QED BY <1>2, <3>2
    <3>4. ExpireDedup(s) = KeepFrom(s, first)
      BY <2>2, Zenon DEF ExpireDedup, KeepFrom
    <3> HIDE DEF first
    <3> QED BY <1>1, <3>3, <3>4, KeepFromCalls
  <2> QED BY <2>1, <2>2
<1>4. LinkCalls(s, ExpireReassembly(s), N, A)
  <2> DEFINE n == [ch \in Chans |-> IF s.rasm[ch].open /\ SerialDelta(s.tick, s.rasmDue[ch]) >= 0
                                    THEN Closed ELSE s.rasm[ch]]
             t == [s EXCEPT !.rasm = n]
  <2>1. ExpireReassembly(s) = t
    BY DEF ExpireReassembly
  <2>2. \A ch \in Chans : n[ch] \in {Closed, s.rasm[ch]}
    OBVIOUS
  <2> HIDE DEF n
  <2>3. /\ t.up = s.up /\ t.epoch = s.epoch /\ t.helloCorr = s.helloCorr
        /\ t.corrCtr = s.corrCtr /\ t.q = s.q /\ t.rasm = n /\ t.pend = s.pend
        /\ t.dedup = s.dedup
    BY <1>1 DEF LinkState
  <2> HIDE DEF t
  <2>4. PlainRead(s.rasm) => PlainRead(t.rasm)
    <3>1. ~Closed.open
      BY DEF Closed
    <3> QED BY <2>2, <2>3, <3>1 DEF PlainRead
  <2>5. s.corrCtr <= s.corrCtr
    BY <1>1 DEF Word
  <2> QED BY <2>1, <2>3, <2>4, <2>5, LinkEdit
<1> QED BY <1>3, <1>4

\* Remembering an answer makes it one that may be given again (addDedup).
LEMMA RememberCalls ==
  ASSUME NEW s, Sound(s), s.up, NEW ch \in Chans, NEW corr \in Word, NEW b \in Bodies
  PROVE  LET t == Remember(s, ch, corr, b)
             x == [epoch |-> s.epoch, ch |-> ch, corr |-> corr, body |-> b]
         IN  /\ LinkCalls(s, t, {}, {x}) /\ GuestKnows(t, x) /\ t.rasm = s.rasm
             /\ \A d \in Datagrams(t.dedup) : d \in Datagrams(s.dedup) \/ Call(d.epoch, d) = x
<1> DEFINE e == [epoch |-> s.epoch, ch |-> ch, corr |-> corr, body |-> b,
                 cached |-> b \in Cacheable, tick |-> s.tick]
           x == [epoch |-> s.epoch, ch |-> ch, corr |-> corr, body |-> b]
           old == IF Len(s.dedup) = MaxDedup THEN Tail(s.dedup) ELSE s.dedup
           d == Append(old, e)
           t == [s EXCEPT !.dedup = d]
<1>1. s \in LinkState /\ s.dedup \in Seq(DedupEntry) /\ s.corrCtr \in Word
  BY DEF Sound, LinkState
<1>2. e \in DedupEntry /\ Call(e.epoch, e) = x /\ e.ch = x.ch /\ e.corr = x.corr
  BY <1>1 DEF LinkState, DedupEntry, Call
<1>3. Remember(s, ch, corr, b) = t
  BY DEF Remember
<1>4. old \in Seq(DedupEntry) /\ Datagrams(old) \subseteq Datagrams(s.dedup)
  <2>1. CASE Len(s.dedup) = MaxDedup
    <3>1. s.dedup # <<>>
      BY <1>1, <2>1, EmptySeq, GuestAssumption
    <3>2. /\ old = Tail(s.dedup) /\ old \in Seq(DedupEntry) /\ Len(old) = Len(s.dedup) - 1
          /\ \A i \in 1 .. Len(old) : old[i] = s.dedup[i + 1]
      BY <1>1, <2>1, <3>1, HeadTailProperties
    <3> HIDE DEF old
    <3>3. /\ DOMAIN old = 1 .. Len(old) /\ DOMAIN s.dedup = 1 .. Len(s.dedup)
          /\ Len(old) \in Nat /\ Len(s.dedup) \in Nat
      BY <1>1, <3>2, LenProperties
    <3>4. ASSUME NEW i \in DOMAIN old PROVE old[i] \in Datagrams(s.dedup)
      <4>1. i + 1 \in DOMAIN s.dedup /\ i \in 1 .. Len(old)
        BY <3>2, <3>3
      <4> QED BY <3>2, <4>1 DEF Datagrams
    <3> QED BY <3>2, <3>4 DEF Datagrams
  <2>2. CASE Len(s.dedup) # MaxDedup
    BY <1>1, <2>2
  <2> QED BY <2>1, <2>2
<1> HIDE DEF e, old, x
<1>5. /\ d \in Seq(DedupEntry) /\ Len(d) = Len(old) + 1
      /\ \A i \in 1 .. Len(old) : d[i] = old[i]
      /\ d[Len(old) + 1] = e
  BY <1>2, <1>4, AppendProperties
<1> HIDE DEF d
<1>6. /\ DOMAIN d = 1 .. Len(old) + 1 /\ Len(old) \in Nat /\ DOMAIN old = 1 .. Len(old)
  BY <1>4, <1>5, LenProperties
<1>7. e \in Datagrams(d) /\ Datagrams(d) \subseteq Datagrams(s.dedup) \cup {e}
  <2>1. Len(old) + 1 \in DOMAIN d
    BY <1>6
  <2>2. ASSUME NEW i \in DOMAIN d PROVE d[i] \in Datagrams(s.dedup) \cup {e}
    <3>1. i \in DOMAIN old \/ i = Len(old) + 1
      BY <1>6
    <3>2. CASE i \in DOMAIN old
      BY <1>4, <1>5, <1>6, <3>2 DEF Datagrams
    <3> QED BY <1>5, <3>1, <3>2
  <2> QED BY <1>5, <2>1, <2>2 DEF Datagrams
<1>8. /\ t.up = s.up /\ t.epoch = s.epoch /\ t.helloCorr = s.helloCorr
      /\ t.corrCtr = s.corrCtr /\ t.q = s.q /\ t.rasm = s.rasm /\ t.pend = s.pend
      /\ t.dedup = d
  BY <1>1 DEF LinkState
<1> HIDE DEF t
<1>9. s.corrCtr <= s.corrCtr
  BY <1>1 DEF Word
<1>10. LinkCalls(s, t, {}, {x})
  BY <1>2, <1>7, <1>8, <1>9, LinkEdit
<1>11. GuestKnows(t, x)
  BY <1>2, <1>7, <1>8 DEF GuestKnows
<1>12. \A k \in Datagrams(t.dedup) : k \in Datagrams(s.dedup) \/ Call(k.epoch, k) = x
  BY <1>2, <1>7, <1>8
<1> QED BY <1>3, <1>8, <1>10, <1>11, <1>12 DEF x

\* What a request, an answer or a RESYNC the guest was sent says is what its
\* frame says (channelFrame, dispatch).
LEMMA GuestHears ==
  ASSUME CallInv, NEW f \in DataFrame, f \in Datagrams(toGuest), Message(g, f).type # "MSG"
  PROVE  LET m == Message(g, f)
         IN  /\ f.type = m.type /\ f.flag = m.flag /\ f.corr = m.corr
             /\ m.parts = {<<0, f.body>>} /\ BodyOf(m.parts) = f.body
<1> DEFINE m == Message(g, f)
           r == g.rasm[f.ch]
<1>1. f.type \in DataTypes /\ f.ch \in Chans
  BY DEF DataFrame
<1>2. Plain({f})
  BY DEF CallInv, OneFrameEach, Plain
<1>3. r.open => r.type = "MSG"
  BY <1>1 DEF CallInv, OneFrameEach, PlainRead
<1>4. m = (IF f.nfrag = 1
           THEN [type |-> f.type, flag |-> f.flag, corr |-> f.corr, parts |-> {<<0, f.body>>}]
           ELSE [type |-> Gather(r, f).type, flag |-> Gather(r, f).flag,
                 corr |-> Gather(r, f).corr, parts |-> Gather(r, f).parts])
  BY DEF Message
<1> HIDE DEF m, r
<1>5. m.type # "MSG"
  BY DEF m
<1>6. /\ f.type = m.type /\ f.flag = m.flag /\ f.corr = m.corr
      /\ m.parts = {<<0, f.body>>} /\ BodyOf(m.parts) = f.body
  BY <1>1, <1>2, <1>3, <1>4, <1>5, OneFrameMessage
<1> QED BY <1>6 DEF m

\* A frame that is not a new request asks and answers nothing (channelFrame,
\* onReq, onResp).
LEMMA DataFrameCalls ==
  ASSUME IpcInv, CallInv, \A r \in Reqs : Size[r] = 1,
         NEW f \in Frame, f \in Datagrams(toGuest),
         \/ OnStale("peer", f) \/ OnFragment("peer", f) \/ OnMsg("peer", f)
         \/ OnResync("peer", f) \/ OnReqAgain("peer", f) \/ OnReqUnserved("peer", f)
         \/ OnResp("peer", f)
  PROVE  LinkCalls(g, g', {}, {}) /\ out' = out
<1> DEFINE a == Arrived(g, f)
           m == Message(g, f)
<1>1. Sound(g) /\ g \in LinkState /\ g.up /\ out' = out /\ g.corrCtr <= g.corrCtr
  BY Counters DEF IpcInv, GuestInv, Sound, OnStale, OnFragment, OnMsg, OnResync, OnReqAgain,
         OnReqUnserved, OnResp, Dispatches, DataArrives, InSession
<1>2. f \in DataFrame
  BY DataFrames DEF OnStale, OnFragment, OnMsg, OnResync, OnReqAgain,
     OnReqUnserved, OnResp, Dispatches, DataArrives
<1>3. f.ch \in Chans /\ f.nfrag \in Nat
  BY <1>2 DEF DataFrame
<1>4. /\ Sound(a) /\ a.up /\ a \in LinkState /\ LinkCalls(g, a, {}, {})
      /\ a.dedup = g.dedup /\ a.pend = g.pend /\ a.corrCtr \in Int
  <2>1. /\ Sound(a) /\ a.up /\ LinkCalls(g, a, {}, {}) /\ a.dedup = g.dedup
        /\ a.pend = g.pend
    BY <1>1, <1>2, ArrivedSound, ArrivedCalls
  <2>2. a \in LinkState
    BY <2>1 DEF Sound
  <2>3. a.corrCtr \in Int
    BY <2>2 DEF LinkState, Word
  <2> QED BY <2>1, <2>2, <2>3
<1>5. ASSUME Completes(g, f) PROVE m.corr \in Word
  BY <1>1, <1>2, <1>5, MessageType
<1>6. /\ "RESP" \in DataTypes /\ {"none", "DUPLICATE", "NO_HANDLER"} \subseteq Flags
      /\ {"DUPLICATE", "NO_HANDLER"} \subseteq Errors
      /\ NoBody \in Bodies /\ Size[NoBody] = 1 /\ Reqs \subseteq Bodies
  BY WireAssumption, FkIpcAssumption DEF DataTypes, Flags, Errors, Reqs
<1> HIDE DEF a, m
\* An edit of what has arrived that queues nothing.
<1>7. ASSUME NEW t \in LinkState, t.up = a.up, t.epoch = a.epoch, t.helloCorr = a.helloCorr,
             t.corrCtr = a.corrCtr, t.q = a.q, t.rasm = a.rasm, t.pend \subseteq a.pend,
             t.dedup = a.dedup
      PROVE  LinkCalls(g, t, {}, {})
  <2>1. a.corrCtr <= t.corrCtr
    BY <1>4, <1>7
  <2>2. LinkCalls(a, t, {}, {})
    BY <1>7, <2>1, LinkEdit
  <2> QED BY <1>1, <1>4, <2>2, LinkCallsTwice
\* An answer to it.
<1>8. ASSUME NEW flag \in Flags, NEW corr \in Word, NEW b \in Bodies, Size[b] = 1,
             LET x == [epoch |-> a.epoch, ch |-> f.ch, corr |-> corr, body |-> b]
             IN flag \notin Errors => x \in LinkAnswers(a),
             g' = SendMessage(a, "RESP", flag, f.ch, corr, b)
      PROVE  LinkCalls(g, g', {}, {})
  <2>1. ~Mints(corr, b)
    BY <1>8 DEF Mints
  <2>2. LinkCalls(a, g', {}, {})
    BY <1>3, <1>4, <1>6, <1>8, <2>1, SendCalls
  <2>3. Sound(g')
    BY <1>3, <1>4, <1>6, <1>8, SendMessageSound
  <2>4. g' \in LinkState
    BY <2>3 DEF Sound
  <2> QED BY <1>1, <1>4, <2>2, <2>4, LinkCallsTwice
<1>9. CASE OnStale("peer", f)
  <2>1. /\ g'.up = g.up /\ g'.epoch = g.epoch /\ g'.helloCorr = g.helloCorr
        /\ g'.corrCtr = g.corrCtr /\ g'.q = g.q /\ g'.rasm = g.rasm
        /\ g'.pend = g.pend /\ g'.dedup = g.dedup
    BY <1>1, <1>9 DEF OnStale, LinkState
  <2> QED BY <1>1, <2>1, LinkEdit
<1>10. CASE OnFragment("peer", f)
  <2> DEFINE k == Accept(g, f)
             r == IF Disagrees(k.rasm[f.ch], f) THEN Closed ELSE Gather(k.rasm[f.ch], f)
             d == IF Disagrees(g.rasm[f.ch], f) THEN k.rasmDue[f.ch]
                  ELSE Add(g.tick, ReassemblyTicks)
             n == [k.rasm EXCEPT ![f.ch] = r]
             nd == [k.rasmDue EXCEPT ![f.ch] = d]
  <2>1. Sound(k) /\ k \in LinkState /\ LinkCalls(g, k, {}, {}) /\ k.rasm = g.rasm
    BY <1>1, <1>2, AcceptSound, AcceptCalls DEF Sound
  <2>2. g' = [k EXCEPT !.rasm = n, !.rasmDue = nd] /\ f.nfrag # 1
    BY <1>3, <1>10, <2>1 DEF OnFragment, LinkState, Completes
  <2>3. Sound(g')
    BY <1>10, DataFrameStep, <1>1
  <2>4. PlainRead(n)
    <3>1. PlainRead(k.rasm) /\ k.rasm \in [Chans -> Reassembly]
      BY <2>1 DEF CallInv, OneFrameEach, LinkState
    <3>2. f.type = "MSG"
      BY <1>2, <2>2 DEF CallInv, OneFrameEach, Plain, DataFrame
    <3>3. r.open => r.type = "MSG"
      <4>1. ~Closed.open
        BY DEF Closed
      <4>2. Gather(k.rasm[f.ch], f).type = "MSG"
        <5> DEFINE base == IF Continues(k.rasm[f.ch], f) THEN k.rasm[f.ch]
                           ELSE [open |-> TRUE, corr |-> f.corr, nfrag |-> f.nfrag,
                                 type |-> f.type, flag |-> f.flag, parts |-> {}]
                   ps == {p \in base.parts : p[1] # f.frag} \cup {<<f.frag, f.body>>}
        <5>1. base.type = "MSG" /\ base \in [{"open", "corr", "nfrag", "type", "flag", "parts"} ->
                {base.open, base.corr, base.nfrag, base.type, base.flag, base.parts}]
          <6>1. k.rasm[f.ch] \in Reassembly
            BY <1>3, <3>1
          <6> QED BY <1>3, <3>1, <3>2, <6>1 DEF Continues, PlainRead, Reassembly
        <5>2. Gather(k.rasm[f.ch], f) = [base EXCEPT !.parts = ps]
          BY DEF Gather
        <5> HIDE DEF base, ps
        <5> QED BY <5>1, <5>2
      <4> QED BY <4>1, <4>2
    <3> HIDE DEF k, r
    <3> QED BY <1>3, <3>1, <3>3 DEF PlainRead
  <2> HIDE DEF n, nd, k
  <2>5. /\ g'.up = k.up /\ g'.epoch = k.epoch /\ g'.helloCorr = k.helloCorr
        /\ g'.corrCtr = k.corrCtr /\ g'.q = k.q /\ g'.rasm = n
        /\ g'.pend = k.pend /\ g'.dedup = k.dedup /\ g' \in LinkState
    BY <2>1, <2>2, <2>3 DEF LinkState, Sound
  <2>6. k.corrCtr <= g'.corrCtr
    <3>1. k.corrCtr \in Int
      BY <2>1 DEF LinkState, Word
    <3> QED BY <2>5, <3>1
  <2>7. LinkCalls(k, g', {}, {})
    BY <2>4, <2>5, <2>6, LinkEdit
  <2>8. LinkCalls(g, g', {}, {})
    BY <1>1, <2>1, <2>5, <2>7, LinkCallsTwice
  <2> QED BY <1>1, <2>8
<1>11. CASE OnMsg("peer", f)
  <2> DEFINE n == [a.resyncSent EXCEPT ![f.ch] = @ /\ m.flag # "snapshot"]
             t == [a EXCEPT !.resyncSent = n]
  <2>1. g' = t
    BY <1>4, <1>11 DEF OnMsg, a, m, LinkState
  <2>2. n \in [Chans -> BOOLEAN]
    BY <1>4 DEF LinkState
  <2> HIDE DEF n
  <2>3. /\ t \in LinkState /\ t.up = a.up /\ t.epoch = a.epoch /\ t.helloCorr = a.helloCorr
        /\ t.corrCtr = a.corrCtr /\ t.q = a.q /\ t.rasm = a.rasm /\ t.pend = a.pend
        /\ t.dedup = a.dedup
    BY <1>4, <2>2 DEF LinkState
  <2> HIDE DEF t
  <2>4. LinkCalls(g, t, {}, {})
    BY <1>7, <2>3
  <2> QED BY <1>1, <2>1, <2>4
<1>12. CASE OnResync("peer", f)
  BY <1>1, <1>4, <1>12 DEF OnResync, a
<1>13. CASE OnReqAgain("peer", f)
  <2> DEFINE hits == Remembered(a, f.ch, m.corr)
             i0 == CHOOSE i \in hits : \A j \in hits : i <= j
             e == a.dedup[CHOOSE i \in hits : \A j \in hits : i <= j]
  <2>1. Completes(g, f) /\ hits # {}
    BY <1>13 DEF OnReqAgain, Dispatches, a, m
  <2>2. a.dedup \in Seq(DedupEntry)
    BY <1>4 DEF LinkState
  <2>3. hits \subseteq DOMAIN a.dedup /\ DOMAIN a.dedup = 1 .. Len(a.dedup) /\ Len(a.dedup) \in Nat
    BY <2>2, LenProperties DEF Remembered
  <2>4. \E i \in hits : \A j \in hits : i <= j
    <3>1. hits \subseteq Nat
      BY <2>3
    <3> HIDE DEF hits
    <3> QED BY <2>1, <3>1, LeastMember
  <2>5. i0 \in hits
    BY <2>4
  <2>6. /\ a.dedup[i0].epoch = a.epoch /\ a.dedup[i0].ch = f.ch /\ a.dedup[i0].corr = m.corr
        /\ a.dedup[i0] \in Datagrams(a.dedup) /\ a.dedup[i0] \in DedupEntry
    <3>1. /\ a.dedup[i0].epoch = a.epoch /\ a.dedup[i0].ch = f.ch
          /\ a.dedup[i0].corr = m.corr /\ i0 \in DOMAIN a.dedup
      <4> HIDE DEF i0
      <4> QED BY <2>5 DEF Remembered
    <3> HIDE DEF i0
    <3> QED BY <2>2, <2>3, <3>1, ElementOfSeq DEF Datagrams
  <2>7. e = a.dedup[i0]
    BY DEF i0
  <2>8. g' = IF e.cached THEN SendMessage(a, "RESP", "none", f.ch, m.corr, e.body)
             ELSE SendMessage(a, "RESP", "DUPLICATE", f.ch, m.corr, NoBody)
    BY <1>13 DEF OnReqAgain, a, m
  <2> HIDE DEF e, hits, i0
  <2>9. /\ [epoch |-> a.epoch, ch |-> f.ch, corr |-> m.corr, body |-> e.body] \in LinkAnswers(a)
        /\ Call(e.epoch, e) \in GuestAnswers
    BY <1>4, <2>6, <2>7 DEF LinkAnswers, GuestAnswers, Calls, Call
  <2>10. e.body \in Bodies /\ Size[e.body] = 1
    <3>1. Call(e.epoch, e).body = e.body
      BY DEF Call
    <3>2. e.body \in Reqs
      BY <2>9, <3>1 DEF CallInv, SdkIds, Reqs
    <3> QED BY <1>6, <3>2
  <2>11. m.corr \in Word
    BY <1>5, <2>1
  <2>12. LinkCalls(g, g', {}, {})
    BY <1>6, <1>8, <2>8, <2>9, <2>10, <2>11
  <2> QED BY <1>1, <2>12
<1>14. CASE OnReqUnserved("peer", f)
  <2>1. /\ Completes(g, f) /\ g' = SendMessage(a, "RESP", "NO_HANDLER", f.ch, m.corr, NoBody)
    BY <1>14 DEF OnReqUnserved, Dispatches, a, m
  <2>2. m.corr \in Word
    BY <1>5, <2>1
  <2> QED BY <1>1, <1>6, <1>8, <2>1, <2>2
<1>15. CASE OnResp("peer", f)
  <2> DEFINE n == a.pend \ Answered(a, f.ch, m.corr)
             t == [a EXCEPT !.pend = n]
  <2>1. g' = t
    BY <1>15 DEF OnResp, a, m
  <2>2. n \in SUBSET Pending /\ n \subseteq a.pend
    BY <1>4 DEF LinkState
  <2> HIDE DEF n
  <2>3. /\ t \in LinkState /\ t.up = a.up /\ t.epoch = a.epoch /\ t.helloCorr = a.helloCorr
        /\ t.corrCtr = a.corrCtr /\ t.q = a.q /\ t.rasm = a.rasm /\ t.pend \subseteq a.pend
        /\ t.dedup = a.dedup
    BY <1>4, <2>2 DEF LinkState
  <2> HIDE DEF t
  <2>4. LinkCalls(g, t, {}, {})
    BY <1>7, <2>3
  <2> QED BY <1>1, <2>1, <2>4
<1> QED BY <1>9, <1>10, <1>11, <1>12, <1>13, <1>14, <1>15

\* A request the guest has not heard in this session it executes, and knows
\* from then on (onReq).
LEMMA ServeCalls ==
  ASSUME IpcInv, CallInv, \A r \in Reqs : Size[r] = 1,
         NEW f \in Frame, f \in Datagrams(toGuest), OnReqNew("peer", f)
  PROVE  LET x == Call(f.epoch, f)
         IN  /\ x \in SdkAsking /\ g.up /\ x.epoch = g.epoch
             /\ LinkCalls(g, g', {}, {x}) /\ out' = out
             /\ GuestKnows(g', x) /\ ~GuestKnows(g, x)
             /\ BodyOf(Message(g, f).parts) = x.body
<1> DEFINE a == Arrived(g, f)
           m == Message(g, f)
           b == BodyOf(m.parts)
           k == Remember(a, f.ch, m.corr, b)
           x == Call(f.epoch, f)
<1>1. /\ Sound(g) /\ g \in LinkState /\ g.up /\ out' = out /\ f.epoch = g.epoch
      /\ Completes(g, f) /\ m.type = "REQ" /\ Remembered(a, f.ch, m.corr) = {}
      /\ g' = SendMessage(k, "RESP", "none", f.ch, m.corr, b)
  BY DEF IpcInv, GuestInv, Sound, OnReqNew, Dispatches, DataArrives, InSession
<1>2. f \in DataFrame /\ f.ch \in Chans
  BY DataFrames DEF OnReqNew, Dispatches, DataArrives, DataFrame
<1>3. f.type = "REQ" /\ f.corr = m.corr /\ b = f.body
  BY <1>1, <1>2, GuestHears
<1>4. /\ x.epoch = g.epoch /\ x.ch = f.ch /\ x.corr = m.corr /\ x.body = b
      /\ x = [epoch |-> g.epoch, ch |-> f.ch, corr |-> m.corr, body |-> b]
  BY <1>1, <1>3 DEF Call
<1>5. x \in SdkAsking
  <2>1. Step(c).sent = toGuest
    BY DEF Step
  <2> QED BY <1>3, <2>1 DEF SdkAsking, TurnAsking, Calls, RequestFrames
<1>6. m.corr \in Word /\ b \in Bodies /\ Size[b] = 1
  <2>1. m.corr \in Word /\ b \in Bodies
    BY <1>1, <1>2, MessageType
  <2>2. x.body \in Reqs
    BY <1>5 DEF CallInv, SdkIds, Reqs
  <2> QED BY <1>4, <2>1, <2>2
<1>7. /\ Sound(a) /\ a.up /\ a \in LinkState /\ LinkCalls(g, a, {}, {x})
      /\ a.dedup = g.dedup /\ a.epoch = g.epoch
  <2>1. /\ Sound(a) /\ a.up /\ LinkCalls(g, a, {}, {x}) /\ a.dedup = g.dedup /\ SameCourse(g, a)
    BY <1>1, <1>2, ArrivedSound, ArrivedCalls
  <2> QED BY <2>1 DEF Sound, SameCourse
<1> HIDE DEF a, m, b, x
<1>8. ~GuestKnows(g, x)
  <2> SUFFICES ASSUME NEW d \in Datagrams(g.dedup), d.ch = x.ch, d.corr = x.corr
               PROVE  FALSE
    BY DEF GuestKnows
  <2>1. PICK i \in DOMAIN a.dedup : d = a.dedup[i]
    BY <1>7 DEF Datagrams
  <2>2. a.dedup[i].epoch = a.epoch
    BY <1>7 DEF Sound, OfSession
  <2> QED BY <1>1, <1>4, <2>1, <2>2 DEF Remembered
<1>9. /\ Sound(k) /\ k.up /\ k \in LinkState /\ k.epoch = g.epoch
      /\ LinkCalls(a, k, {}, {x}) /\ GuestKnows(k, x)
  <2>1. x = [epoch |-> a.epoch, ch |-> f.ch, corr |-> m.corr, body |-> b]
    BY <1>4, <1>7
  <2>2. LinkCalls(a, k, {}, {x}) /\ GuestKnows(k, x)
    BY <1>2, <1>6, <1>7, <2>1, RememberCalls
  <2>3. Sound(k) /\ SameCourse(a, k)
    BY <1>2, <1>6, <1>7, RememberSound
  <2> QED BY <1>7, <2>2, <2>3 DEF Sound, SameCourse
<1> HIDE DEF k
<1>10. "RESP" \in DataTypes /\ "none" \in Flags /\ ~Mints(m.corr, b)
  BY <1>6 DEF DataTypes, Flags, Mints
<1>11. LinkCalls(k, g', {}, {x})
  <2>1. x = [epoch |-> k.epoch, ch |-> f.ch, corr |-> m.corr, body |-> b]
    BY <1>4, <1>9
  <2> QED BY <1>1, <1>2, <1>6, <1>9, <1>10, <2>1, SendCalls
<1>12. g' \in LinkState /\ g'.dedup = k.dedup
  BY <1>1, <1>2, <1>6, <1>9, <1>10, SendMessageSound DEF Sound
<1>13. GuestKnows(g', x)
  BY <1>9, <1>12 DEF GuestKnows
<1>14. LinkCalls(g, k, {}, {x})
  BY <1>1, <1>7, <1>9, LinkCallsTwice
<1>15. LinkCalls(g, g', {}, {x})
  BY <1>1, <1>9, <1>11, <1>12, <1>14, LinkCallsTwice
<1> QED BY <1>1, <1>4, <1>5, <1>8, <1>13, <1>15 DEF x, m, b

\* Who loses its session is told so (resetSession).
LEMMA LostTells ==
  ASSUME HistoryOK(h), NEW P, NEW Q, h' = Settled(h, P, Q, Lost)
  PROVE  Tells(P, Q)
<1> DEFINE o == [r \in Reqs |-> "lost"]
<1>1. h' = Told(P, Q, o)
  BY DEF Settled, Lost, Told, PendBodies
<1>2. \A r \in Reqs : o[r] = "lost"
  OBVIOUS
<1> HIDE DEF o
<1>3. "lost" \in Rpc!Unknown /\ "lost" # "answer"
  BY DEF Rpc!Unknown
<1> QED BY <1>1, <1>2, <1>3, ToldTells

\* Whoever waits for an answer is told its own (onResp).
LEMMA AnswerTells ==
  ASSUME IpcInv, CallInv, \A r \in Reqs : Size[r] = 1,
         NEW f \in Frame, f \in Datagrams(toGuest), OnResp("peer", f),
         h' = Settled(h, g.pend, g'.pend, LAMBDA r : ReplyOf(Message(g, f), r))
  PROVE  Tells(g.pend, g'.pend)
<1> DEFINE m == Message(g, f)
           a == Arrived(g, f)
           o == [r \in Reqs |-> ReplyOf(m, r)]
<1>1. h' = Told(g.pend, g'.pend, o)
  BY DEF Settled, Told, PendBodies
<1>2. \A r \in Reqs : o[r] = ReplyOf(m, r)
  OBVIOUS
<1>3. /\ Sound(g) /\ g.up /\ m.type = "RESP" /\ f.epoch = g.epoch /\ Completes(g, f)
      /\ g' = [a EXCEPT !.pend = @ \ Answered(a, f.ch, m.corr)]
  BY DEF IpcInv, GuestInv, OnResp, Dispatches, DataArrives, InSession
<1>4. f \in DataFrame
  BY DataFrames DEF OnResp, Dispatches, DataArrives
<1>5. /\ f.type = "RESP" /\ f.flag = m.flag /\ f.corr = m.corr
      /\ m.parts = {<<0, f.body>>} /\ BodyOf(m.parts) = f.body
  BY <1>3, <1>4, GuestHears
<1>6. a \in LinkState /\ a.pend = g.pend
  BY <1>3, <1>4, ArrivedSound DEF Sound
<1>7. g'.pend = g.pend \ Answered(a, f.ch, m.corr)
  <2> HIDE DEF a, m
  <2> QED BY <1>3, <1>6 DEF LinkState
<1> HIDE DEF m, o, a
<1>8. ASSUME NEW r \in Reqs \cap (PendBodies(g.pend) \ PendBodies(g'.pend))
      PROVE  ReplyOf(m, r) \in Rpc!Unknown \cup {"answer"} /\ (ReplyOf(m, r) = "answer" => h.ran[r] > 0)
  <2>1. PICK p \in g.pend : p.body = r
    BY DEF PendBodies
  <2>2. p \notin g'.pend
    BY <2>1 DEF PendBodies
  <2>3. p.corr = f.corr
    BY <1>5, <1>7, <2>2 DEF Answered
  <2>4. CASE m.flag \in Errors
    <3>1. ReplyOf(m, r) = m.flag
      BY <2>4 DEF ReplyOf
    <3> QED BY <2>4, <3>1 DEF Errors, Rpc!Unknown
  <2>5. CASE m.flag \notin Errors
    <3> DEFINE x == Call(f.epoch, f)
               y == Call(g.epoch, p)
    <3>1. x.corr = f.corr /\ x.body = f.body /\ y.corr = p.corr /\ y.body = r
      BY <2>1 DEF Call
    <3>2. x \in SdkAnswers
      <4>1. Step(c).sent = toGuest
        BY DEF Step
      <4> QED BY <1>5, <2>5, <4>1 DEF SdkAnswers, TurnAnswers, Calls, Replies
    <3>3. y \in GuestAsking
      BY DEF GuestAsking, LinkAsking
    <3> HIDE DEF x, y
    <3>4. f.body = r
      BY <2>3, <3>1, <3>2, <3>3 DEF CallInv, GuestIds, SameCall
    <3>5. h.ran[r] > 0
      BY <3>1, <3>2, <3>4 DEF CallInv, Executed
    <3>6. Intact(m.parts)
      <4>1. r \in Bodies /\ Size[r] = 1
        BY FkIpcAssumption DEF Reqs
      <4>2. {<<i, r>> : i \in 0 .. Size[r] - 1} = {<<0, r>>}
        <5>1. 0 .. Size[r] - 1 = {0}
          BY <4>1
        <5> QED BY <5>1
      <4> QED BY <1>5, <3>4, <4>1, <4>2 DEF Intact
    <3>7. ReplyOf(m, r) = "answer"
      BY <1>5, <2>5, <3>4, <3>6 DEF ReplyOf
    <3> QED BY <3>5, <3>7
  <2> QED BY <2>4, <2>5
<1>9. HistoryOK(h)
  BY DEF IpcInv, BooksOK
<1> QED BY <1>1, <1>2, <1>8, <1>9, ToldTells

\* What the application learns from a datagram, by what the datagram is.
LEMMA GuestLearnt ==
  ASSUME NEW f, NEW m, m = Message(g, f), h' = GuestLearns(f)
  PROVE  LET whole == f.type \in DataTypes /\ InSession(f) /\ ~Stale(g, f) /\ Completes(g, f)
         IN  /\ ~whole => h' = Settled(h, g.pend, g'.pend, Lost)
             /\ whole /\ m.type = "RESP" =>
                  h' = Settled(h, g.pend, g'.pend, LAMBDA r : ReplyOf(m, r))
             /\ whole /\ m.type = "MSG" => h' = Heard(h, "guest", f.epoch, m)
             /\ whole /\ m.type = "REQ" =>
                  IF f.ch \in GuestServes /\ Remembered(Arrived(g, f), f.ch, m.corr) = {}
                  THEN h' = Ran(h, BodyOf(m.parts)) ELSE h' = h
             /\ whole /\ m.type = "RESYNC" => h' = h
BY DEF GuestLearns

\* What an application hears besides its requests.
LEMMA HeardOnly ==
  ASSUME HistoryOK(h), NEW who \in {"guest", "sdk"}, NEW e, NEW m, h' = Heard(h, who, e, m)
  PROVE  h'.asked = h.asked /\ h'.ran = h.ran /\ h'.told = h.told
BY DEF HistoryOK, Heard

\* The execution of a request that was not executed, or lapsed.
LEMMA RanExecutes ==
  ASSUME HistoryOK(h), HistoryTyped, NEW b \in Reqs, ~(h.ran[b] > 0) \/ b \in lapsed,
         h' = Ran(h, b)
  PROVE  Executes(b)
<1> DEFINE n == [h.ran EXCEPT ![b] = h.ran[b] + 1]
<1>1. h.ran[b] = 0 \/ b \in lapsed
  BY DEF HistoryTyped
<1>2. n = [h.ran EXCEPT ![b] = @ + 1]
  OBVIOUS
<1>3. h' = [h EXCEPT !.ran = n]
  BY DEF Ran, HistoryOK
<1> HIDE DEF n
<1>4. h'.ran = n /\ h'.asked = h.asked /\ h'.told = h.told
  BY <1>3 DEF HistoryOK
<1> QED BY <1>1, <1>2, <1>4 DEF Executes

\* A datagram the guest reads (recv_udp, deliver).
LEMMA ReceiveKind ==
  ASSUME IpcInv, IpcInv', CallInv, \A r \in Reqs : Size[r] = 1, GuestReceives
  PROVE  GuestKind
<1>1. PICK i \in DOMAIN toGuest :
        /\ toGuest' = Without(toGuest, i) /\ Deliver("peer", toGuest[i])
        /\ h' = GuestLearns(toGuest[i])
  BY DEF GuestReceives, Readable
<1> DEFINE f == toGuest[i]
           m == Message(g, f)
<1>2. toGuest \in Seq(Frame) /\ HistoryOK(h) /\ HistoryTyped
  BY DEF IpcInv, CompanionSound, CompanionTypeOK, BooksOK, CallInv
<1>3. f \in Frame /\ f \in Datagrams(toGuest)
  BY <1>2, ElementOfSeq, LenProperties DEF Datagrams
<1>4. c' = c /\ running' = running /\ Datagrams(toGuest') \subseteq Datagrams(toGuest)
  BY <1>1, <1>2, WithoutSound DEF GuestReceives
<1>5. Deliver("peer", f) /\ h' = GuestLearns(f)
  BY <1>1
<1> HIDE DEF f, m
<1> DEFINE whole == f.type \in DataTypes /\ InSession(f) /\ ~Stale(g, f) /\ Completes(g, f)
<1>6. /\ ~whole => h' = Settled(h, g.pend, g'.pend, Lost)
      /\ whole /\ m.type = "RESP" =>
           h' = Settled(h, g.pend, g'.pend, LAMBDA r : ReplyOf(m, r))
      /\ whole /\ m.type = "MSG" => h' = Heard(h, "guest", f.epoch, m)
      /\ whole /\ m.type = "REQ" =>
           IF f.ch \in GuestServes /\ Remembered(Arrived(g, f), f.ch, m.corr) = {}
           THEN h' = Ran(h, BodyOf(m.parts)) ELSE h' = h
      /\ whole /\ m.type = "RESYNC" => h' = h
  BY <1>5, GuestLearnt DEF m
<1>7. CASE OnHelloAck("peer", f) \/ OnHeartbeat("peer", f) \/ OnBye("peer", f) \/ OnIgnored("peer", f)
  <2>1. ~whole
    BY <1>7 DEF OnHelloAck, OnHeartbeat, OnBye, OnIgnored, Ignored, Mine, DataTypes
  <2>2. Tells(g.pend, g'.pend)
    BY <1>2, <1>6, <2>1, LostTells
  <2>3. GuestFades
    BY <1>3, <1>7, <2>2, SessionFrameKind
  <2> QED BY <1>4, <2>3 DEF GuestKind
<1>8. CASE OnReqNew("peer", f)
  <2> DEFINE x == Call(f.epoch, f)
  <2>1. /\ x \in SdkAsking /\ g.up /\ x.epoch = g.epoch
        /\ LinkCalls(g, g', {}, {x}) /\ out' = out
        /\ GuestKnows(g', x) /\ ~GuestKnows(g, x) /\ BodyOf(m.parts) = x.body
    BY <1>3, <1>8, ServeCalls DEF m
  <2> HIDE DEF x
  <2>2. (~(h.ran[x.body] > 0) \/ x.body \in lapsed) /\ x.body \in Reqs
    BY <2>1 DEF CallInv, GuestKnowsDone, SdkIds, Reqs
  <2>3. h' = Ran(h, x.body)
    BY <1>6, <1>8, <2>1 DEF OnReqNew, Dispatches, DataArrives, m
  <2>4. Executes(x.body)
    BY <1>2, <2>2, <2>3, RanExecutes
  <2>5. GuestStep({}, {x}) /\ GuestStays
    BY <2>1, LinkGuestStep
  <2>6. GuestServesNew
    BY <2>1, <2>4, <2>5 DEF GuestServesNew
  <2> QED BY <1>4, <2>6 DEF GuestKind
<1>9. CASE \/ OnStale("peer", f) \/ OnFragment("peer", f) \/ OnMsg("peer", f)
           \/ OnResync("peer", f) \/ OnReqAgain("peer", f) \/ OnReqUnserved("peer", f)
           \/ OnResp("peer", f)
  <2>1. LinkCalls(g, g', {}, {}) /\ out' = out
    BY <1>3, <1>9, DataFrameCalls
  <2>2. GuestStep({}, {}) /\ GuestStays
    BY <2>1, LinkGuestStep
  <2>3. ASSUME OnStale("peer", f) \/ OnFragment("peer", f) PROVE Tells(g.pend, g'.pend)
    <3>1. ~whole
      BY <2>3 DEF OnStale, OnFragment
    <3> QED BY <1>2, <1>6, <3>1, LostTells
  <2>4. ASSUME OnResp("peer", f) PROVE Tells(g.pend, g'.pend)
    <3>1. whole /\ m.type = "RESP"
      BY <2>4 DEF OnResp, Dispatches, DataArrives, m
    <3>2. h' = Settled(h, g.pend, g'.pend, LAMBDA r : ReplyOf(m, r))
      BY <1>6, <3>1
    <3>3. h' = Settled(h, g.pend, g'.pend, LAMBDA r : ReplyOf(Message(g, f), r))
      BY <3>2 DEF m
    <3> QED BY <1>3, <2>4, <3>3, AnswerTells
  <2>5. ASSUME OnMsg("peer", f) PROVE Tells(g.pend, g'.pend)
    <3>1. whole /\ m.type = "MSG"
      BY <2>5 DEF OnMsg, Dispatches, DataArrives, m
    <3>2. h'.asked = h.asked /\ h'.ran = h.ran /\ h'.told = h.told
      BY <1>2, <1>6, <3>1, HeardOnly
    <3> QED BY <1>2, <3>2, NothingTold
  <2>6. ASSUME OnResync("peer", f) \/ OnReqAgain("peer", f) \/ OnReqUnserved("peer", f)
      PROVE  Tells(g.pend, g'.pend)
    <3>1. h' = h
      BY <1>6, <2>6 DEF OnResync, OnReqAgain, OnReqUnserved, Dispatches, DataArrives, m
    <3> QED BY <1>2, <3>1, NothingTold
  <2>7. Tells(g.pend, g'.pend)
    BY <1>9, <2>3, <2>4, <2>5, <2>6
  <2>8. GuestFades
    BY <2>2, <2>7 DEF GuestFades
  <2> QED BY <1>4, <2>8 DEF GuestKind
<1> QED BY <1>5, <1>7, <1>8, <1>9 DEF Deliver

\* A step of the guest's link that puts nothing on the socket.
LEMMA LinkKind ==
  ASSUME IpcInv, IpcInv', CallInv, c' = c, running' = running, toGuest' = toGuest,
         LinkCalls(g, g', {}, {}), out' = out, Tells(g.pend, g'.pend)
  PROVE  GuestKind
<1>1. GuestStep({}, {}) /\ GuestStays
  BY LinkGuestStep
<1>2. Datagrams(toGuest') \subseteq Datagrams(toGuest)
  BY DEF Datagrams
<1> QED BY <1>1, <1>2 DEF GuestKind, GuestFades

\* A datagram of another mod's companion (deliver's port filter).
LEMMA OtherModKind ==
  ASSUME IpcInv, IpcInv', CallInv, OtherModAnswers
  PROVE  GuestKind
<1> DEFINE f == [type |-> "HELLO_ACK", epoch |-> OtherModsToken, corr |-> g.helloCorr,
                 name |-> SdkName]
<1>1. Deliver("other", f) /\ c' = c /\ running' = running /\ toGuest' = toGuest /\ h' = h
  BY DEF OtherModAnswers
<1> HIDE DEF f
<1>2. OnIgnored("other", f)
  BY <1>1 DEF Deliver, OnHelloAck, OnHeartbeat, OnBye, OnStale, OnFragment, OnMsg, OnResync,
              OnReqAgain, OnReqUnserved, OnReqNew, OnResp, Dispatches, DataArrives, Mine
<1>3. g' = g /\ out' = out
  BY <1>2 DEF OnIgnored, guestVars
<1>4. Datagrams(out') \subseteq Datagrams(out) /\ Datagrams(toGuest') \subseteq Datagrams(toGuest)
  BY <1>1, <1>3 DEF Datagrams
<1> QED BY <1>1, <1>3, <1>4, GuestRests

\* An application's message (Send, Snapshot).
LEMMA SaysKind ==
  ASSUME IpcInv, IpcInv', CallInv, IdsLast, GuestSays
  PROVE  GuestKind /\ g'.dedup = g.dedup
<1>1. /\ c' = c /\ running' = running /\ toGuest' = toGuest
      /\ h'.asked = h.asked /\ h'.ran = h.ran /\ h'.told = h.told
  <2>1. HistoryOK(h)
    BY DEF IpcInv, BooksOK
  <2>2. h' = h \/ h' = [h EXCEPT !.said.guest = @ + 1]
    BY DEF GuestSays
  <2>3. \E n : [h EXCEPT !.said.guest = @ + 1] = [h EXCEPT !.said = n]
    BY <2>1 DEF HistoryOK
  <2> QED BY <2>1, <2>2, <2>3 DEF GuestSays, HistoryOK
<1>2. \E ch \in Chans, flag \in {"none", "snapshot"}, b \in 0 .. GuestMsgs : AppSend(ch, flag, b)
  <2>1. h.said.guest \in 0 .. GuestMsgs /\ GuestMsgs \in Nat
    BY FkIpcAssumption DEF IpcInv, BooksOK, HistoryOK
  <2>2. h.said.guest < GuestMsgs => h.said.guest + 1 \in 0 .. GuestMsgs
    BY <2>1
  <2> QED BY <2>1, <2>2 DEF GuestSays
<1>3. PICK ch \in Chans, flag \in {"none", "snapshot"}, b \in 0 .. GuestMsgs : AppSend(ch, flag, b)
  BY <1>2
<1>4. /\ Sound(g) /\ g.up /\ out' = out /\ g' = SendMessage(g, "MSG", flag, ch, 0, b)
  BY <1>3 DEF IpcInv, GuestInv, AppSend, Callable
<1>5. b \in Bodies /\ flag \in Flags /\ 0 \in Word /\ "MSG" \in DataTypes
  BY FkIpcAssumption, WireAssumption DEF Flags, DataTypes, Word
<1>6. LinkCalls(g, g', {}, {})
  BY <1>4, <1>5, SendCalls DEF IdsLast
<1>7. Tells(g.pend, g'.pend)
  BY <1>1, NothingTold DEF CallInv
<1>8. g'.dedup = g.dedup
  BY <1>4, <1>5, SendMessageSound
<1> QED BY <1>1, <1>4, <1>6, <1>7, <1>8, LinkKind

\* A request of the guest's application, queued or refused (Request).
LEMMA AsksKind ==
  ASSUME IpcInv, IpcInv', CallInv, IdsLast, \A r \in Reqs : Size[r] = 1, GuestAsks
  PROVE  GuestKind /\ g'.dedup = g.dedup
<1>1. PICK ch \in Chans, b \in GuestReqs \ h.asked :
        \/ AppRequest(ch, b) /\ h' = [h EXCEPT !.asked = @ \cup {b}]
        \/ AppRequestRefused(ch, b) /\ h' = h
  BY DEF GuestAsks
<1>2. /\ c' = c /\ running' = running /\ toGuest' = toGuest /\ out' = out /\ g.up
      /\ Sound(g) /\ g \in LinkState /\ HistoryOK(h) /\ g.corrCtr \in Int
  <2>1. /\ c' = c /\ running' = running /\ toGuest' = toGuest
        /\ Sound(g) /\ g \in LinkState /\ HistoryOK(h)
    BY DEF GuestAsks, IpcInv, GuestInv, Sound, BooksOK
  <2>2. g.corrCtr \in Int
    BY <2>1 DEF LinkState, Word
  <2> QED BY <1>1, <2>1, <2>2 DEF AppRequest, AppRequestRefused, Callable
<1>3. NextCorr(g.corrCtr) = g.corrCtr + 1 /\ g.corrCtr + 1 \in Word
  <2>1. g.corrCtr \in Word
    BY <1>2 DEF LinkState
  <2>2. NextCorr(g.corrCtr) = g.corrCtr + 1
    BY <2>1, MintedNext DEF IdsLast
  <2> QED BY <2>1, <2>2, MintedCorr
<1>4. b \in Bodies /\ b \in Reqs /\ Size[b] = 1
  BY FkIpcAssumption DEF Reqs
<1>5. CASE AppRequest(ch, b) /\ h' = [h EXCEPT !.asked = @ \cup {b}]
  <2> DEFINE corr == g.corrCtr + 1
             p == [ch |-> ch, corr |-> corr, body |-> b, tries |-> 0,
                   interval |-> RetryTicks, due |-> Add(g.tick, RetryTicks)]
             k == [g EXCEPT !.corrCtr = corr, !.pend = @ \cup {p}]
             x == [epoch |-> g.epoch, ch |-> ch, corr |-> corr, body |-> b]
  <2>1. g' = SendMessage(k, "REQ", "none", ch, corr, b) /\ Room(g, ch, b)
    BY <1>3, <1>5 DEF AppRequest
  <2>2. RetryTicks \in Word
    BY GuestAssumption, HalfModulus DEF Word
  <2>3. Add(g.tick, RetryTicks) \in Word
    BY <1>2, <2>2, AddSubWord DEF LinkState, Word
  <2>4. p \in Pending /\ p.ch = ch /\ p.corr = corr /\ p.body = b
    BY <1>3, <1>4, <2>2, <2>3 DEF Pending
  <2>5. Call(g.epoch, p) = x
    BY <2>4 DEF Call
  <2> HIDE DEF p
  <2>6. /\ k \in LinkState /\ SameCourse(g, k) /\ k.q = g.q /\ k.dedup = g.dedup
        /\ k.up = g.up /\ k.epoch = g.epoch /\ k.helloCorr = g.helloCorr
        /\ k.rasm = g.rasm /\ k.corrCtr = corr /\ k.pend = g.pend \cup {p}
    BY <1>2, <1>3, <2>4 DEF LinkState, SameCourse
  <2> HIDE DEF k
  <2>7. g.corrCtr <= k.corrCtr
    BY <1>2, <2>6
  <2>8. LinkCalls(g, k, {x}, {})
    BY <2>5, <2>6, <2>7, LinkEdit
  <2>9. Sound(k) /\ k.up
    BY <1>2, <2>6, SoundKept
  <2>10. /\ "REQ" \in DataTypes /\ "none" \in Flags /\ corr \in Word
         /\ ~Mints(corr, b) /\ Room(k, ch, b)
    BY <1>3, <1>4, <2>1, <2>6 DEF DataTypes, Flags, Mints, Room
  <2>11. x \in LinkAsking(k) /\ x = [epoch |-> k.epoch, ch |-> ch, corr |-> corr, body |-> b]
    BY <2>5, <2>6 DEF LinkAsking
  <2> HIDE DEF corr
  <2>12. LinkCalls(k, g', {x}, {})
    BY <1>4, <2>1, <2>9, <2>10, <2>11, SendCalls
  <2>13. g' \in LinkState /\ g'.corrCtr = corr
    <3>1. Sound(g')
      BY <1>4, <2>1, <2>9, <2>10, SendMessageSound
    <3> DEFINE t == SendMessage(k, "REQ", "none", ch, corr, b)
               id == IF Mints(corr, b) THEN NextCorr(k.corrCtr) ELSE corr
    <3>2. /\ id \in Word
          /\ t.txSeq = [k.txSeq EXCEPT ![ch] = Add(@, Size[b])]
          /\ t.corrCtr = IF Mints(corr, b) THEN id ELSE k.corrCtr
          /\ Queued(t) \subseteq Queued(k) \cup
               Datagrams(Fragments("REQ", "none", ch, k.epoch, k.txSeq[ch], id, b))
      BY <1>4, <2>6, <2>10, MessageQueued
    <3>3. g'.corrCtr = k.corrCtr
      BY <2>1, <2>10, <3>2
    <3> QED BY <2>6, <3>1, <3>3 DEF Sound
  <2>14. LinkCalls(g, g', {x}, {})
    BY <1>2, <2>6, <2>8, <2>12, <2>13, LinkCallsTwice
  <2>15. GuestStep({x}, {}) /\ GuestStays
    BY <1>2, <2>14, LinkGuestStep
  <2>16. Asks(b)
    BY <1>2, <1>5 DEF Asks, HistoryOK
  <2>17. GuestAsksNew
    BY <2>13, <2>15, <2>16 DEF GuestAsksNew, corr
  <2>18. Datagrams(toGuest') \subseteq Datagrams(toGuest)
    BY <1>2 DEF Datagrams
  <2>19. g'.dedup = g.dedup
    BY <1>4, <2>1, <2>6, <2>9, <2>10, SendMessageSound
  <2> QED BY <1>2, <2>17, <2>18, <2>19 DEF GuestKind
<1>6. CASE AppRequestRefused(ch, b) /\ h' = h
  <2>1. g' = [g EXCEPT !.corrCtr = g.corrCtr + 1]
    BY <1>3, <1>6 DEF AppRequestRefused
  <2>2. /\ g'.up = g.up /\ g'.epoch = g.epoch /\ g'.helloCorr = g.helloCorr
        /\ g'.corrCtr = g.corrCtr + 1 /\ g'.q = g.q /\ g'.rasm = g.rasm
        /\ g'.pend = g.pend /\ g'.dedup = g.dedup
    BY <1>2, <2>1 DEF LinkState
  <2>3. g.corrCtr <= g'.corrCtr
    BY <1>2, <2>2
  <2>4. LinkCalls(g, g', {}, {})
    BY <2>2, <2>3, LinkEdit
  <2>5. Tells(g.pend, g'.pend)
    BY <1>6, NothingTold DEF CallInv
  <2> QED BY <1>2, <2>2, <2>4, <2>5, LinkKind
<1> QED BY <1>1, <1>5, <1>6

\* A part of a handler that queues what says nothing.
LEMMA LinkQuiet ==
  ASSUME NEW s, NEW t, NEW N, NEW A, t.up = s.up, t.epoch = s.epoch,
         t.helloCorr = s.helloCorr, s.corrCtr <= t.corrCtr, t.rasm = s.rasm,
         t.pend = s.pend, t.dedup = s.dedup,
         \A f \in Queued(t) : f \in Queued(s) \/ f.type \notin DataTypes
  PROVE  LinkCalls(s, t, N, A)
<1>1. "REQ" \in DataTypes /\ "RESP" \in DataTypes
  BY DEF DataTypes
<1>2. /\ RequestFrames(Queued(t)) \subseteq RequestFrames(Queued(s))
      /\ Replies(Queued(t)) \subseteq Replies(Queued(s))
  BY <1>1 DEF RequestFrames, Replies
<1>3. /\ Calls(RequestFrames(Queued(t))) \subseteq Calls(RequestFrames(Queued(s)))
      /\ Calls(Replies(Queued(t))) \subseteq Calls(Replies(Queued(s)))
  BY <1>2 DEF Calls
<1>4. LinkAsking(t) \subseteq LinkAsking(s) \cup N /\ LinkAnswers(t) \subseteq LinkAnswers(s) \cup A
  BY <1>3 DEF LinkAsking, LinkAnswers
<1>5. Plain(Queued(s)) => Plain(Queued(t))
  BY DEF Plain
<1> QED BY <1>4, <1>5 DEF LinkCalls

\* Whoever waits and is told that the session ended, or that it waited too long.
LEMMA UnansweredTells ==
  ASSUME HistoryOK(h), NEW P, NEW Q,
         h' = Settled(h, P, Q, LAMBDA r : IF pump.at = "session" THEN "lost" ELSE "timeout")
  PROVE  Tells(P, Q)
<1> DEFINE o == [r \in Reqs |-> IF pump.at = "session" THEN "lost" ELSE "timeout"]
<1>1. h' = Told(P, Q, o)
  BY DEF Settled, Told, PendBodies
<1>2. \A r \in Reqs : o[r] \in {"lost", "timeout"}
  OBVIOUS
<1> HIDE DEF o
<1>3. {"lost", "timeout"} \subseteq Rpc!Unknown /\ "lost" # "answer" /\ "timeout" # "answer"
  BY DEF Rpc!Unknown
<1> QED BY <1>1, <1>2, <1>3, ToldTells

\* The session stage of Pump (serviceSession).
LEMMA SessionKind ==
  ASSUME IpcInv, IpcInv', CallInv, IdsLast, c' = c, running' = running, toGuest' = toGuest,
         SessionLost \/ SessionSearch \/ SessionBeat \/ SessionIdle,
         Tells(g.pend, g'.pend)
  PROVE  GuestKind
<1>1. /\ GuestInv /\ Sound(g) /\ g \in LinkState /\ out \in Seq(Frame) /\ g.corrCtr \in Word
      /\ g.corrCtr \in Int /\ g.corrCtr <= g.corrCtr
  <2>1. GuestInv /\ Sound(g) /\ g \in LinkState /\ out \in Seq(Frame)
    BY DEF IpcInv, GuestInv, Sound
  <2> QED BY <2>1 DEF LinkState, Word
<1>2. Datagrams(toGuest') \subseteq Datagrams(toGuest)
  BY DEF Datagrams
<1>3. CASE SessionLost
  <2>1. g' = ResetSession(g) /\ out' = out
    BY <1>3 DEF SessionLost
  <2>2. GuestFades
    BY <1>1, <2>1, GuestResets
  <2> QED BY <1>2, <2>2 DEF GuestKind
<1>4. CASE SessionSearch
  <2> DEFINE corr == g.corrCtr + 1
             hello == [type |-> "HELLO", epoch |-> g.boot, corr |-> corr,
                       tick |-> g.tick, name |-> GuestName]
  <2>1. NextCorr(g.corrCtr) = corr /\ corr \in Word
    <3>1. NextCorr(g.corrCtr) = corr
      BY <1>1, MintedNext DEF IdsLast
    <3> QED BY <1>1, <3>1, MintedCorr
  <2>2. /\ ~g.up /\ out' = Put(out, hello, SockBuf)
        /\ g' = [g EXCEPT !.corrCtr = corr, !.helloCorr = corr, !.helloDue = FALSE,
                          !.lastHello = g.tick]
    BY <1>4, <2>1 DEF SessionSearch
  <2>3. hello \in Frame /\ hello.type = "HELLO" /\ hello.corr = corr
    <3>1. g.boot \in Epochs
      BY <1>1, WireAssumption DEF LinkState, Word
    <3> QED BY <1>1, <2>1, <3>1, GuestAssumption DEF Frame, HelloFrame, LinkState
  <2> HIDE DEF hello
  <2>4. Datagrams(out') \subseteq Datagrams(out) \cup {hello}
    BY <1>1, <2>2, <2>3, PutSound
  <2>5. /\ ~g'.up /\ g'.corrCtr = corr /\ g'.helloCorr = corr /\ g'.pend = g.pend
        /\ g'.dedup = g.dedup /\ g'.q = g.q /\ g'.rasm = g.rasm
    BY <1>1, <2>2 DEF LinkState
  <2>6. /\ g.pend = {} /\ g.dedup = <<>> /\ \A p \in Queues : g.q[p] = <<>>
        /\ \A ch \in Chans : ~g.rasm[ch].open
    BY <1>1, <2>2 DEF Sound, Blank
  <2>7. g.corrCtr < g'.corrCtr /\ g.corrCtr <= g'.corrCtr /\ corr <= corr
    BY <1>1, <2>5
  <2>8. GuestStep({}, {})
    <3>1. \A f \in Datagrams(out') :
            f \in Datagrams(out) \/ (f.type = "HELLO" /\ f.corr <= g'.corrCtr)
      BY <2>3, <2>4, <2>5, <2>7
    <3> QED BY <2>5, <2>6, <2>7, <3>1, EmptyLink
  <2>9. GuestMovesOn
    BY <2>5, <2>7 DEF GuestMovesOn
  <2> QED BY <1>2, <2>8, <2>9 DEF GuestKind, GuestFades
<1>5. CASE SessionBeat
  <2>1. /\ g'.up = g.up /\ g'.epoch = g.epoch /\ g'.helloCorr = g.helloCorr
        /\ g'.corrCtr = g.corrCtr /\ g'.rasm = g.rasm /\ g'.pend = g.pend
        /\ g'.dedup = g.dedup /\ out' = out
        /\ \A f \in Queued(g') : f \in Queued(g) \/ f.type \notin DataTypes
    BY <1>1, <1>5, BeatQueued
  <2>2. LinkCalls(g, g', {}, {})
    BY <1>1, <2>1, LinkQuiet
  <2> QED BY <2>1, <2>2, LinkKind
<1>6. CASE SessionIdle
  <2>1. g' = g /\ out' = out
    BY <1>6 DEF SessionIdle
  <2>2. LinkCalls(g, g', {}, {})
    BY <1>1, <2>1, LinkEdit
  <2> QED BY <2>1, <2>2, LinkKind
<1> QED BY <1>3, <1>4, <1>5, <1>6

\* The service of the requests (serviceRetries).
LEMMA RetryKind ==
  ASSUME IpcInv, IpcInv', CallInv, \A r \in Reqs : Size[r] = 1,
         c' = c, running' = running, toGuest' = toGuest,
         \/ \E p \in g.pend : RetryTimeout(p) \/ RetryResend(p)
         \/ RetriesDone,
         Tells(g.pend, g'.pend)
  PROVE  GuestKind
<1>1. /\ Sound(g) /\ g \in LinkState /\ out' = out /\ g.corrCtr <= g.corrCtr
  <2>1. Sound(g) /\ g \in LinkState /\ g.corrCtr <= g.corrCtr
    BY Counters DEF IpcInv, GuestInv, Sound
  <2>2. out' = out
    BY DEF RetryTimeout, RetryResend, RetriesDone
  <2> QED BY <2>1, <2>2
<1>2. ASSUME NEW p \in g.pend, RetryTimeout(p) PROVE GuestKind
  <2>1. g' = [g EXCEPT !.pend = @ \ {p}]
    BY <1>2 DEF RetryTimeout
  <2>2. /\ g'.up = g.up /\ g'.epoch = g.epoch /\ g'.helloCorr = g.helloCorr
        /\ g'.corrCtr = g.corrCtr /\ g'.q = g.q /\ g'.rasm = g.rasm
        /\ g'.pend \subseteq g.pend /\ g'.dedup = g.dedup
    BY <1>1, <2>1 DEF LinkState
  <2>3. LinkCalls(g, g', {}, {})
    BY <1>1, <2>2, LinkEdit
  <2> QED BY <1>1, <2>3, LinkKind
<1>3. ASSUME NEW p \in g.pend, RetryResend(p) PROVE GuestKind
  <2> DEFINE q == [p EXCEPT !.tries = @ + 1, !.interval = Backoff(@),
                     !.due = Add(g.tick, Backoff(p.interval))]
             k == [g EXCEPT !.pend = (@ \ {p}) \cup {q}]
             x == Call(g.epoch, p)
  <2>1. g' = SendMessage(k, "REQ", "none", p.ch, p.corr, p.body)
    BY <1>3 DEF RetryResend
  <2>2. /\ p \in Pending /\ p.ch \in Chans /\ p.corr \in Word /\ p.body \in Bodies
        /\ p.tries \in Nat /\ p.interval \in Nat /\ g.tick \in Word
    BY <1>1, <1>3 DEF Pending, LinkState, Word
  <2>3. Backoff(p.interval) \in Word
    BY <2>2, BackoffRange
  <2>4. Add(g.tick, Backoff(p.interval)) \in Word
    <3>1. g.tick \in Int /\ Backoff(p.interval) \in Int
      BY <2>2, <2>3 DEF Word
    <3> QED BY <3>1, AddSubWord
  <2>5. q \in Pending /\ q.ch = p.ch /\ q.corr = p.corr /\ q.body = p.body
    <3>1. p.tries + 1 \in Nat
      BY <2>2
    <3> QED BY <2>2, <2>3, <2>4, <3>1 DEF Pending
  <2> HIDE DEF q
  <2>6. g.up
    BY <1>1, <1>3, BusyIsUp
  <2>7. /\ k \in LinkState /\ SameCourse(g, k) /\ k.q = g.q /\ k.dedup = g.dedup
        /\ k.up = g.up /\ k.epoch = g.epoch /\ k.helloCorr = g.helloCorr
        /\ k.rasm = g.rasm /\ k.corrCtr = g.corrCtr /\ k.pend = (g.pend \ {p}) \cup {q}
    BY <1>1, <2>5 DEF LinkState, SameCourse
  <2> HIDE DEF k
  <2>8. Sound(k) /\ k.up
    BY <1>1, <2>6, <2>7, SoundKept
  <2>9. LinkCalls(g, k, {}, {})
    BY <1>1, <2>5, <2>7, LinkEdit
  <2>10. x.body \in Reqs /\ x.body = p.body
    <3>1. x \in GuestAsking
      BY DEF GuestAsking, LinkAsking
    <3>2. x.body = p.body
      BY DEF Call
    <3> QED BY <3>1, <3>2 DEF CallInv, GuestIds, Reqs
  <2>11. "REQ" \in DataTypes /\ "none" \in Flags /\ Size[p.body] = 1 /\ ~Mints(p.corr, p.body)
    BY <2>10 DEF DataTypes, Flags, Mints
  <2>12. x \in LinkAsking(k) /\ x = [epoch |-> k.epoch, ch |-> p.ch, corr |-> p.corr, body |-> p.body]
    BY <2>5, <2>7 DEF LinkAsking, Call
  <2>13. LinkCalls(k, g', {}, {})
    BY <2>1, <2>2, <2>8, <2>11, <2>12, SendCalls
  <2>14. g' \in LinkState
    BY <2>1, <2>2, <2>8, <2>11, SendMessageSound DEF Sound
  <2>15. LinkCalls(g, g', {}, {})
    BY <1>1, <2>7, <2>9, <2>13, <2>14, LinkCallsTwice
  <2> QED BY <1>1, <2>15, LinkKind
<1>4. CASE RetriesDone
  <2>1. g' = g
    BY <1>4 DEF RetriesDone
  <2>2. LinkCalls(g, g', {}, {})
    BY <1>1, <2>1, LinkEdit
  <2> QED BY <1>1, <2>2, LinkKind
<1> QED BY <1>2, <1>3, <1>4

\* A frame that is flushed was queued a moment before.
LEMMA FlushKind ==
  ASSUME IpcInv, IpcInv', CallInv, c' = c, running' = running, toGuest' = toGuest,
         FlushFrame, Tells(g.pend, g'.pend)
  PROVE  GuestKind
<1>1. /\ g'.up = g.up /\ g'.epoch = g.epoch /\ g'.helloCorr = g.helloCorr
      /\ g'.corrCtr = g.corrCtr /\ g'.rasm = g.rasm /\ g'.pend = g.pend /\ g'.dedup = g.dedup
      /\ Queued(g') \subseteq Queued(g)
      /\ Datagrams(out') \subseteq Datagrams(out) \cup Queued(g)
  <2>1. GuestInv
    BY DEF IpcInv
  <2> QED BY <2>1, FlushMoves
<1>2. /\ Queued(g)' = Queued(g') /\ Datagrams(out)' = Datagrams(out')
      /\ Datagrams(g.dedup)' = Datagrams(g.dedup)
  BY <1>1 DEF Queued, Datagrams
<1> DEFINE F == Datagrams(out) \cup Queued(g)
           G == Datagrams(out') \cup Queued(g')
<1>3. G \subseteq F
  BY <1>1
<1>4. /\ GuestAsking = {Call(g.epoch, p) : p \in g.pend} \cup Calls(RequestFrames(F))
      /\ GuestAnswers = Calls(Datagrams(g.dedup)) \cup Calls(Replies(F))
  BY DEF GuestAsking, GuestAnswers, LinkAsking, LinkAnswers, Calls, RequestFrames, Replies
<1>5. /\ GuestAsking' = {Call(g.epoch, p) : p \in g.pend} \cup Calls(RequestFrames(G))
      /\ GuestAnswers' = Calls(Datagrams(g.dedup)) \cup Calls(Replies(G))
  BY <1>1, <1>2 DEF GuestAsking, GuestAnswers, LinkAsking, LinkAnswers, Calls, RequestFrames, Replies, Call
<1>6. GuestAsking' \subseteq GuestAsking /\ GuestAnswers' \subseteq GuestAnswers
  <2>1. Calls(RequestFrames(G)) \subseteq Calls(RequestFrames(F)) /\ Calls(Replies(G)) \subseteq Calls(Replies(F))
    BY <1>3 DEF Calls, RequestFrames, Replies
  <2> QED BY <1>4, <1>5, <2>1
<1>7. /\ Plain(F) /\ PlainRead(g.rasm)
      /\ \A f \in Datagrams(out) : f.type = "HELLO" => f.corr <= g.corrCtr
  BY DEF CallInv, OneFrameEach, OffersAreNew, Plain
<1>8. \A f \in Queued(g) : f.type # "HELLO"
  <2>1. g \in LinkState
    BY DEF IpcInv, GuestInv, Sound
  <2> SUFFICES ASSUME NEW p \in Queues, NEW f \in Datagrams(g.q[p]) PROVE f.type # "HELLO"
    BY DEF Queued
  <2>2. g.q[p] \in Seq(BeatFrame \cup DataFrame)
    BY <2>1 DEF LinkState
  <2>3. f \in BeatFrame \cup DataFrame
    BY <2>2, ElementOfSeq, LenProperties DEF Datagrams
  <2> QED BY <2>3 DEF BeatFrame, DataFrame, DataTypes
<1>9. Plain(Queued(g')) /\ Plain(Datagrams(out'))
  BY <1>3, <1>7 DEF Plain
<1>10. \A f \in Datagrams(out') : f.type = "HELLO" => f.corr <= g'.corrCtr
  BY <1>1, <1>7, <1>8
<1>11. g.corrCtr <= g'.corrCtr
  BY <1>1, Counters
<1>12. GuestStep({}, {}) /\ GuestStays
  BY <1>1, <1>6, <1>7, <1>9, <1>10, <1>11 DEF GuestStep, GuestStays
<1> QED BY <1>12 DEF GuestKind, GuestFades

\* The stages of a Pump (Pump, serviceSession, serviceRetries, flush).
LEMMA PumpKind ==
  ASSUME IpcInv, IpcInv', CallInv, IdsLast, \A r \in Reqs : Size[r] = 1,
         PumpStarts \/ PumpRuns
  PROVE  GuestKind
<1>1. /\ Sound(g) /\ g \in LinkState /\ g' \in LinkState /\ g.corrCtr <= g.corrCtr
      /\ HistoryOK(h) /\ HistoryTyped
  BY Counters DEF IpcInv, GuestInv, Sound, BooksOK, CallInv
<1>2. CASE PumpStarts
  <2>1. /\ c' = c /\ running' = running /\ toGuest' = toGuest /\ h' = h /\ out' = out
        /\ \E tick, open : g' = [g EXCEPT !.tick = tick, !.enabled = open]
    BY <1>2 DEF PumpStarts, PumpBegin
  <2>2. /\ g'.up = g.up /\ g'.epoch = g.epoch /\ g'.helloCorr = g.helloCorr
        /\ g'.corrCtr = g.corrCtr /\ g'.q = g.q /\ g'.rasm = g.rasm
        /\ g'.pend = g.pend /\ g'.dedup = g.dedup
    BY <1>1, <2>1 DEF LinkState
  <2>3. LinkCalls(g, g', {}, {})
    BY <1>1, <2>2, LinkEdit
  <2>4. Tells(g.pend, g'.pend)
    BY <1>1, <2>1, NothingTold
  <2> QED BY <2>1, <2>3, <2>4, LinkKind
<1>3. CASE PumpRuns
  <2>1. /\ c' = c /\ running' = running /\ toGuest' = toGuest
        /\ h' = Settled(h, g.pend, g'.pend,
                        LAMBDA r : IF pump.at = "session" THEN "lost" ELSE "timeout")
        /\ PumpReceived \/ PumpStage
    BY <1>3 DEF PumpRuns
  <2>2. Tells(g.pend, g'.pend)
    BY <1>1, <2>1, UnansweredTells
  <2>3. CASE PumpReceived
    <3> DEFINE k == ExpireReassembly(g)
    <3>1. g' = ExpireDedup(k) /\ out' = out
      BY <2>3 DEF PumpReceived
    <3>2. Sound(k) /\ k \in LinkState
      <4>1. Sound(k)
        BY <1>1, ExpireReassemblySound
      <4> QED BY <4>1 DEF Sound
    <3>3. LinkCalls(g, k, {}, {})
      BY <1>1, ExpireCalls
    <3> HIDE DEF k
    <3>4. LinkCalls(k, g', {}, {})
      BY <3>1, <3>2, ExpireCalls
    <3>5. LinkCalls(g, g', {}, {})
      BY <1>1, <3>2, <3>3, <3>4, LinkCallsTwice
    <3> QED BY <2>1, <2>2, <3>1, <3>5, LinkKind
  <2>4. CASE SessionLost \/ SessionSearch \/ SessionBeat \/ SessionIdle
    BY <2>1, <2>2, <2>4, SessionKind
  <2>5. CASE (\E p \in g.pend : RetryTimeout(p) \/ RetryResend(p)) \/ RetriesDone
    BY <2>1, <2>2, <2>5, RetryKind
  <2>6. CASE FlushFrame
    BY <2>1, <2>2, <2>6, FlushKind
  <2>7. CASE FlushDone
    <3>1. g' = g /\ out' = out
      BY <2>7 DEF FlushDone
    <3>2. LinkCalls(g, g', {}, {})
      BY <1>1, <3>1, LinkEdit
    <3> QED BY <2>1, <2>2, <3>1, <3>2, LinkKind
  <2> QED BY <2>1, <2>3, <2>4, <2>5, <2>6, <2>7 DEF PumpStage
<1> QED BY <1>2, <1>3

-----------------------------------------------------------------------------
(* The parts of a companion's locked section, seen from the requests. *)

\* From k to r a section stays in its session and offers no other; all it asks
\* or may answer that it did not before is in N and in A.
TurnCalls(k, r, N, A) ==
  /\ r.s.up = k.s.up /\ r.s.epoch = k.s.epoch /\ k.s.corrCtr <= r.s.corrCtr
  /\ TurnAsking(r) \subseteq TurnAsking(k) \cup N
  /\ TurnAnswers(r) \subseteq TurnAnswers(k) \cup A
  /\ PendBodies(r.s.pend) \subseteq PendBodies(k.s.pend) \cup {x.body : x \in N}
  /\ Plain(Datagrams(k.sent)) => Plain(Datagrams(r.sent))
  /\ PlainRead(k.s.rasm) => PlainRead(r.s.rasm)
  /\ \A a \in Datagrams(r.sent) : a.type = "HELLO_ACK" => a \in Datagrams(k.sent)

\* Two parts of a section after another.
LEMMA TurnCallsTwice ==
  ASSUME NEW k \in Turn, NEW r \in Turn, NEW q \in Turn, NEW N, NEW A,
         TurnCalls(k, r, N, A), TurnCalls(r, q, N, A)
  PROVE  TurnCalls(k, q, N, A)
<1>1. k.s.corrCtr \in Int /\ r.s.corrCtr \in Int /\ q.s.corrCtr \in Int
  BY DEF Turn, SessionState, Word
<1>2. k.s.corrCtr <= q.s.corrCtr
  BY <1>1 DEF TurnCalls
<1> QED BY <1>2 DEF TurnCalls

\* A part that sends no message: what it does to the requests and the answers.
LEMMA TurnEdit ==
  ASSUME NEW k, NEW r, NEW N, NEW A, r.s.up = k.s.up, r.s.epoch = k.s.epoch,
         k.s.corrCtr <= r.s.corrCtr,
         \A f \in Datagrams(r.sent) :
           f \in Datagrams(k.sent) \/ f.type \notin DataTypes \cup {"HELLO_ACK"},
         PlainRead(k.s.rasm) => PlainRead(r.s.rasm),
         \A p \in r.s.pend :
           \/ \E o \in k.s.pend : o.ch = p.ch /\ o.corr = p.corr /\ o.body = p.body
           \/ Call(k.s.epoch, p) \in N,
         \A d \in r.s.dedup : d.state = "cached" => d \in k.s.dedup \/ Call(d.epoch, d) \in A
  PROVE  TurnCalls(k, r, N, A)
<1>1. ASSUME NEW p \in r.s.pend
      PROVE  /\ Call(r.s.epoch, p) \in TurnAsking(k) \cup N
             /\ p.body \in PendBodies(k.s.pend) \cup {x.body : x \in N}
  <2>1. CASE \E o \in k.s.pend : o.ch = p.ch /\ o.corr = p.corr /\ o.body = p.body
    <3>1. PICK o \in k.s.pend : o.ch = p.ch /\ o.corr = p.corr /\ o.body = p.body
      BY <2>1
    <3>2. Call(r.s.epoch, p) = Call(k.s.epoch, o)
      BY <3>1 DEF Call
    <3> QED BY <3>1, <3>2 DEF TurnAsking, PendBodies
  <2>2. CASE Call(k.s.epoch, p) \in N
    <3>1. Call(k.s.epoch, p).body = p.body
      BY DEF Call
    <3> QED BY <2>2, <3>1
  <2> QED BY <1>1, <2>1, <2>2
<1>2. /\ Calls(RequestFrames(Datagrams(r.sent))) \subseteq Calls(RequestFrames(Datagrams(k.sent)))
      /\ Calls(Replies(Datagrams(r.sent))) \subseteq Calls(Replies(Datagrams(k.sent)))
  BY DEF Calls, RequestFrames, Replies, DataTypes
<1>3. Calls({d \in r.s.dedup : d.state = "cached"})
        \subseteq Calls({d \in k.s.dedup : d.state = "cached"}) \cup A
  BY DEF Calls
<1>4. TurnAsking(r) \subseteq TurnAsking(k) \cup N
  BY <1>1, <1>2 DEF TurnAsking
<1>5. TurnAnswers(r) \subseteq TurnAnswers(k) \cup A
  BY <1>2, <1>3 DEF TurnAnswers
<1>6. PendBodies(r.s.pend) \subseteq PendBodies(k.s.pend) \cup {x.body : x \in N}
  BY <1>1 DEF PendBodies
<1>7. Plain(Datagrams(k.sent)) => Plain(Datagrams(r.sent))
  BY DEF Plain
<1> QED BY <1>4, <1>5, <1>6, <1>7 DEF TurnCalls

\* A message puts one request or answer on its way, and comes in one frame
\* unless the application sends it (sendMessage).
LEMMA TurnSend ==
  ASSUME NEW k \in Turn, NEW type \in DataTypes, NEW flag \in Flags, NEW ch \in Chans,
         NEW corr \in Word, NEW b \in Bodies, NEW N, NEW A,
         corr = 0 /\ Size[b] > 1 => k.s.corrCtr < U32 - 1, type # "MSG" => Size[b] = 1,
         LET x == [epoch |-> k.s.epoch, ch |-> ch, corr |-> corr, body |-> b]
         IN  /\ type = "REQ" => x \in TurnAsking(k) \cup N
             /\ type = "RESP" /\ flag \notin Errors => x \in TurnAnswers(k) \cup A
  PROVE  LET r == SdkSend(k, type, flag, ch, corr, b)
         IN  /\ r \in Turn /\ TurnCalls(k, r, N, A)
             /\ r.s.pend = k.s.pend /\ r.s.dedup = k.s.dedup /\ r.s.rasm = k.s.rasm
             /\ r.s.up = k.s.up /\ r.s.epoch = k.s.epoch
             /\ (type # "MSG" => r.s.corrCtr = k.s.corrCtr)
<1> DEFINE r == SdkSend(k, type, flag, ch, corr, b)
           mints == corr = 0 /\ Size[b] > 1
           id == IF mints THEN NextCorr(k.s.corrCtr) ELSE corr
           fs == Fragments(type, flag, ch, k.s.epoch, k.s.txSeq[ch], id, b)
           x == [epoch |-> k.s.epoch, ch |-> ch, corr |-> corr, body |-> b]
<1>1. k.s.corrCtr \in Word /\ k.s.corrCtr \in Int
  BY DEF Turn, SessionState, Word
<1>2. /\ GoesOn(k, r, Size[b])
      /\ r.s.pend = k.s.pend /\ r.s.dedup = k.s.dedup /\ r.s.rasm = k.s.rasm
      /\ id \in Word /\ r.s.corrCtr = IF mints THEN id ELSE k.s.corrCtr
      /\ Datagrams(r.sent) \subseteq Datagrams(k.sent) \cup Datagrams(fs)
  <2>1. /\ GoesOn(k, r, Size[b])
        /\ r.s.rxLast = k.s.rxLast /\ r.s.pend = k.s.pend /\ r.s.dedup = k.s.dedup
        /\ r.s.rasm = k.s.rasm
        /\ id \in Word /\ r.s.corrCtr = IF mints THEN id ELSE k.s.corrCtr
        /\ Datagrams(r.sent) \subseteq Datagrams(k.sent) \cup Datagrams(fs)
    BY SdkSendSound
  <2> QED BY <2>1
<1>3. /\ r \in Turn /\ r.s.up = k.s.up /\ r.s.epoch = k.s.epoch
      /\ \A a \in Datagrams(r.sent) : a.type = "HELLO_ACK" => a \in Datagrams(k.sent)
  BY <1>2 DEF GoesOn
<1>4. /\ k.s.corrCtr <= r.s.corrCtr
      /\ type # "MSG" => id = corr /\ r.s.corrCtr = k.s.corrCtr
  <2>1. CASE mints
    <3>1. id = k.s.corrCtr + 1
      BY <1>1, <2>1, MintedNext
    <3> QED BY <1>1, <1>2, <2>1, <3>1
  <2>2. CASE ~mints
    BY <1>1, <1>2, <2>2
  <2> QED BY <2>1, <2>2
<1>5. ASSUME NEW f \in Datagrams(fs)
      PROVE  /\ f.type = type /\ f.flag = flag /\ f.nfrag = Size[b]
             /\ type # "MSG" => Call(f.epoch, f) = x
  <2>1. /\ f.type = type /\ f.flag = flag /\ f.nfrag = Size[b]
        /\ Call(f.epoch, f) = [epoch |-> k.s.epoch, ch |-> ch, corr |-> id, body |-> b]
    BY FragmentSays
  <2> QED BY <1>4, <2>1
<1> HIDE DEF r, fs, id, x, mints
<1>6. ASSUME NEW f \in Datagrams(r.sent), f.type = "REQ"
      PROVE  Call(f.epoch, f) \in TurnAsking(k) \cup N
  <2>1. CASE f \in Datagrams(k.sent)
    BY <1>6, <2>1 DEF TurnAsking, Calls, RequestFrames
  <2>2. CASE f \in Datagrams(fs)
    BY <1>5, <1>6, <2>2 DEF x
  <2> QED BY <1>2, <2>1, <2>2
<1>7. ASSUME NEW f \in Datagrams(r.sent), f.type = "RESP", f.flag \notin Errors
      PROVE  Call(f.epoch, f) \in TurnAnswers(k) \cup A
  <2>1. CASE f \in Datagrams(k.sent)
    BY <1>7, <2>1 DEF TurnAnswers, Calls, Replies
  <2>2. CASE f \in Datagrams(fs)
    BY <1>5, <1>7, <2>2 DEF x
  <2> QED BY <1>2, <2>1, <2>2
<1>8. Plain(Datagrams(k.sent)) => Plain(Datagrams(r.sent))
  BY <1>2, <1>5 DEF Plain
<1>9. TurnAsking(r) \subseteq TurnAsking(k) \cup N
  BY <1>2, <1>3, <1>6 DEF TurnAsking, Calls, RequestFrames
<1>10. TurnAnswers(r) \subseteq TurnAnswers(k) \cup A
  BY <1>2, <1>7 DEF TurnAnswers, Calls, Replies
<1>11. TurnCalls(k, r, N, A)
  BY <1>2, <1>3, <1>4, <1>8, <1>9, <1>10 DEF TurnCalls
<1> QED BY <1>2, <1>3, <1>4, <1>11 DEF r

\* Hearing a frame asks nothing and answers nothing (channelFrame).
LEMMA SdkAcceptCalls ==
  ASSUME CompanionTypeOK, NEW f \in DataFrame, NEW N, NEW A
  PROVE  LET r == SdkAccept(f)
         IN  /\ r \in Turn /\ TurnCalls(Step(c), r, N, A)
             /\ r.s.pend = c.pend /\ r.s.dedup = c.dedup /\ r.s.rasm = c.rasm
             /\ r.s.corrCtr = c.corrCtr /\ r.s.up = c.up /\ r.s.epoch = c.epoch
<1> DEFINE k == Step(Hear(c))
           t == [k.s EXCEPT !.resyncSent = [k.s.resyncSent EXCEPT ![f.ch] = TRUE]]
           j == [k EXCEPT !.s = t]
           a == IF SdkGap(f) /\ ~c.resyncSent[f.ch]
                THEN SdkSend(j, "RESYNC", "none", f.ch, 0, NoBody) ELSE k
           u == [a.s EXCEPT !.rxLast = [a.s.rxLast EXCEPT ![f.ch] = f.seq]]
           r == [a EXCEPT !.s = u]
           Same(s) == /\ s.pend = c.pend /\ s.dedup = c.dedup /\ s.rasm = c.rasm
                      /\ s.corrCtr = c.corrCtr /\ s.up = c.up /\ s.epoch = c.epoch
<1>1. f.ch \in Chans /\ f.seq \in Word /\ c \in SessionState /\ c.corrCtr <= c.corrCtr
  BY DEF DataFrame, CompanionTypeOK, SessionState, Word
<1>2. Step(c) \in Turn /\ Step(c).s = c /\ Step(c).sent = toGuest
  BY <1>1, StepTurn
<1>3. Hear(c) \in SessionState /\ Same(Hear(c))
  BY <1>1 DEF Hear, SessionState
<1>4. k \in Turn /\ k.s = Hear(c) /\ k.sent = toGuest
  BY <1>3, StepTurn
<1>5. SdkAccept(f) = r
  <2>1. [k EXCEPT !.s.resyncSent[f.ch] = TRUE] = j
    OBVIOUS
  <2>2. SdkAccept(f) = [a EXCEPT !.s.rxLast[f.ch] = f.seq]
    BY <2>1 DEF SdkAccept
  <2> QED BY <2>2
<1> HIDE DEF k
<1>6. k.s.corrCtr <= k.s.corrCtr /\ Same(k.s)
  BY <1>1, <1>3, <1>4
<1>7. TurnCalls(Step(c), k, N, A)
  BY <1>1, <1>2, <1>4, <1>6, TurnEdit
<1>8. t \in SessionState /\ Same(t)
  <2>1. k.s \in SessionState /\ [k.s.resyncSent EXCEPT ![f.ch] = TRUE] \in [Chans -> BOOLEAN]
    BY <1>4 DEF Turn, SessionState
  <2> QED BY <1>6, <2>1 DEF SessionState
<1> HIDE DEF t
<1>9. j \in Turn /\ j.s = t /\ j.sent = toGuest
  BY <1>4, <1>8 DEF Turn
<1> HIDE DEF j
<1>10. TurnCalls(Step(c), j, N, A)
  BY <1>1, <1>2, <1>8, <1>9, TurnEdit
<1>11. a \in Turn /\ TurnCalls(Step(c), a, N, A) /\ Same(a.s)
  <2>1. CASE SdkGap(f) /\ ~c.resyncSent[f.ch]
    <3>1. a = SdkSend(j, "RESYNC", "none", f.ch, 0, NoBody)
      BY <2>1
    <3>2. /\ "RESYNC" \in DataTypes /\ "none" \in Flags
          /\ 0 \in Word /\ NoBody \in Bodies /\ Size[NoBody] = 1
      BY WireAssumption DEF DataTypes, Flags, Word
    <3> HIDE DEF a
    <3>3. ~(0 = 0 /\ Size[NoBody] > 1)
      BY <3>2
    <3>4. LET q == SdkSend(j, "RESYNC", "none", f.ch, 0, NoBody)
          IN  /\ q \in Turn /\ TurnCalls(j, q, N, A)
              /\ q.s.pend = j.s.pend /\ q.s.dedup = j.s.dedup /\ q.s.rasm = j.s.rasm
              /\ q.s.up = j.s.up /\ q.s.epoch = j.s.epoch
              /\ ("RESYNC" # "MSG" => q.s.corrCtr = j.s.corrCtr)
      <4> HIDE DEF Same
      <4>1. f.ch \in Chans /\ j \in Turn
        BY <1>1, <1>9
      <4> QED BY <4>1, <3>2, <3>3, TurnSend
    <3>5. a.s.corrCtr = j.s.corrCtr
      BY <3>1, <3>4
    <3>6. a \in Turn /\ TurnCalls(j, a, N, A) /\ Same(a.s)
      BY <1>8, <1>9, <3>1, <3>4, <3>5
    <3> QED BY <1>2, <1>9, <1>10, <3>6, TurnCallsTwice
  <2>2. CASE ~(SdkGap(f) /\ ~c.resyncSent[f.ch])
    <3>1. a = k
      BY <2>2
    <3> HIDE DEF a
    <3> QED BY <1>4, <1>6, <1>7, <3>1
  <2> QED BY <2>1, <2>2
<1> HIDE DEF a
<1>12. u \in SessionState /\ Same(u)
  <2>1. a.s \in SessionState /\ [a.s.rxLast EXCEPT ![f.ch] = f.seq] \in [Chans -> Word]
    BY <1>1, <1>11 DEF Turn, SessionState
  <2> QED BY <1>11, <2>1 DEF SessionState
<1> HIDE DEF u
<1>13. r \in Turn /\ r.s = u /\ r.sent = a.sent
  BY <1>11, <1>12 DEF Turn
<1> HIDE DEF r
<1>14. TurnCalls(a, r, N, A)
  <2>1. a.s.corrCtr <= r.s.corrCtr
    BY <1>1, <1>11, <1>12, <1>13
  <2> QED BY <1>11, <1>12, <1>13, <2>1, TurnEdit
<1>15. TurnCalls(Step(c), r, N, A)
  BY <1>2, <1>11, <1>13, <1>14, TurnCallsTwice
<1> QED BY <1>5, <1>12, <1>13, <1>15

\* Taking a completed message in does neither.
LEMMA SdkArrivedCalls ==
  ASSUME CompanionTypeOK, NEW f \in DataFrame, NEW N, NEW A
  PROVE  LET r == SdkArrived(f)
         IN  /\ r \in Turn /\ TurnCalls(Step(c), r, N, A)
             /\ r.s.pend = c.pend /\ r.s.dedup = c.dedup
             /\ r.s.corrCtr = c.corrCtr /\ r.s.up = c.up /\ r.s.epoch = c.epoch
             /\ (f.nfrag = 1 \/ r.s.rasm = [c.rasm EXCEPT ![f.ch] = Closed])
<1> DEFINE a == SdkAccept(f)
           u == [a.s EXCEPT !.rasm = [a.s.rasm EXCEPT ![f.ch] = Closed]]
           r == [a EXCEPT !.s = u]
<1>1. /\ a \in Turn /\ TurnCalls(Step(c), a, N, A)
      /\ a.s.pend = c.pend /\ a.s.dedup = c.dedup /\ a.s.rasm = c.rasm
      /\ a.s.corrCtr = c.corrCtr /\ a.s.up = c.up /\ a.s.epoch = c.epoch
  BY SdkAcceptCalls
<1>2. SdkArrived(f) = IF f.nfrag = 1 THEN a ELSE r
  BY DEF SdkArrived
<1> HIDE DEF a
<1>3. Closed \in Reassembly /\ f.ch \in Chans /\ ~Closed.open /\ c.corrCtr <= c.corrCtr
  BY WireAssumption DEF Closed, Reassembly, DataTypes, Flags, Word, DataFrame, CompanionTypeOK,
                        SessionState
<1>4. /\ u \in SessionState /\ u.up = a.s.up /\ u.epoch = a.s.epoch /\ u.pend = a.s.pend
      /\ u.dedup = a.s.dedup /\ u.corrCtr = a.s.corrCtr
      /\ u.rasm = [a.s.rasm EXCEPT ![f.ch] = Closed] /\ a.s.rasm \in [Chans -> Reassembly]
  <2>1. a.s \in SessionState /\ [a.s.rasm EXCEPT ![f.ch] = Closed] \in [Chans -> Reassembly]
    BY <1>1, <1>3 DEF Turn, SessionState
  <2> QED BY <2>1 DEF SessionState
<1> HIDE DEF u
<1>5. r \in Turn /\ r.s = u /\ r.sent = a.sent
  BY <1>1, <1>4 DEF Turn
<1> HIDE DEF r
<1>6. TurnCalls(a, r, N, A)
  <2>1. a.s.corrCtr <= r.s.corrCtr
    BY <1>1, <1>3, <1>4, <1>5
  <2>2. PlainRead(a.s.rasm) => PlainRead(r.s.rasm)
    BY <1>3, <1>4, <1>5 DEF PlainRead
  <2> QED BY <1>4, <1>5, <2>1, <2>2, TurnEdit
<1>7. Step(c) \in Turn
  BY StepTurn DEF CompanionTypeOK
<1>8. TurnCalls(Step(c), r, N, A)
  BY <1>1, <1>5, <1>6, <1>7, TurnCallsTwice
<1> QED BY <1>1, <1>2, <1>4, <1>5, <1>8

\* What a section does is what the companion does.
LEMMA TurnSdkStep ==
  ASSUME IpcInv, CallInv, NEW N, NEW A, NEW r, TurnCalls(Step(c), r, N, A), Do(r),
         c.up \/ N = {}
  PROVE  SdkStep(N, A) /\ SdkStays
<1>1. Step(c).s = c /\ Step(c).sent = toGuest /\ c' = r.s /\ toGuest' = r.sent
  BY DEF Step, Do
<1>2. SdkAsking' = TurnAsking(r) /\ SdkAnswers' = TurnAnswers(r)
  <2>1. Step(c)'.s = r.s /\ Step(c)'.sent = r.sent
    BY <1>1 DEF Step
  <2>2. /\ SdkAsking' = {Call(r.s.epoch, p) : p \in r.s.pend} \cup Calls(RequestFrames(Datagrams(r.sent)))
        /\ SdkAnswers' = Calls({d \in r.s.dedup : d.state = "cached"})
                         \cup Calls(Replies(Datagrams(r.sent)))
    BY <2>1 DEF SdkAsking, TurnAsking, SdkAnswers, TurnAnswers, Step, Datagrams, Calls,
                RequestFrames, Replies, Call
  <2> QED BY <2>2 DEF TurnAsking, TurnAnswers
<1>3. Plain(Datagrams(toGuest)) /\ PlainRead(c.rasm)
  BY DEF CallInv, OneFrameEach
<1>4. Datagrams(toGuest') = Datagrams(r.sent)
  BY <1>1 DEF Datagrams
<1>5. SdkStep(N, A)
  BY <1>1, <1>2, <1>3, <1>4 DEF SdkStep, TurnCalls, SdkAsking, SdkAnswers
<1>6. ~c.up => c'.pend = {}
  <2> SUFFICES ASSUME ~c.up PROVE c'.pend = {}
    OBVIOUS
  <2>1. c.pend = {} /\ N = {}
    BY DEF CallInv, Waiting
  <2>2. PendBodies(r.s.pend) \subseteq {}
    BY <1>1, <2>1 DEF TurnCalls, PendBodies
  <2> QED BY <1>1, <2>2 DEF PendBodies
<1>7. OffersSame
  BY <1>1, <1>4 DEF OffersSame, TurnCalls
<1> QED BY <1>1, <1>5, <1>6, <1>7 DEF SdkStays, TurnCalls

\* What a request, an answer or a RESYNC the companion was sent says is what its
\* frame says (channelFrame, dispatch).
LEMMA SdkHears ==
  ASSUME CallInv, NEW f \in DataFrame, f \in Datagrams(out), SdkMessage(f).type # "MSG"
  PROVE  LET m == SdkMessage(f)
         IN  /\ f.nfrag = 1 /\ f.type = m.type /\ f.flag = m.flag /\ f.corr = m.corr
             /\ m.parts = {<<0, f.body>>} /\ BodyOf(m.parts) = f.body
<1> DEFINE m == SdkMessage(f)
           r == c.rasm[f.ch]
<1>1. f.type \in DataTypes /\ f.ch \in Chans
  BY DEF DataFrame
<1>2. Plain({f})
  BY DEF CallInv, OneFrameEach, Plain
<1>3. r.open => r.type = "MSG"
  BY <1>1 DEF CallInv, OneFrameEach, PlainRead
<1>4. m = (IF f.nfrag = 1
           THEN [type |-> f.type, flag |-> f.flag, corr |-> f.corr, parts |-> {<<0, f.body>>}]
           ELSE [type |-> Gather(r, f).type, flag |-> Gather(r, f).flag,
                 corr |-> Gather(r, f).corr, parts |-> Gather(r, f).parts])
  BY DEF SdkMessage
<1> HIDE DEF m, r
<1>5. m.type # "MSG"
  BY DEF m
<1>6. /\ f.nfrag = 1 /\ f.type = m.type /\ f.flag = m.flag /\ f.corr = m.corr
      /\ m.parts = {<<0, f.body>>} /\ BodyOf(m.parts) = f.body
  BY <1>1, <1>2, <1>3, <1>4, <1>5, OneFrameMessage
<1> QED BY <1>6 DEF m

\* No frame of a channel makes the companion ask or answer anything at once
\* (channelFrame, onReq, onResp).
LEMMA SdkFrameCalls ==
  ASSUME IpcInv, CallInv, \A r \in Reqs : Size[r] = 1,
         NEW f \in Frame, f \in Datagrams(out),
         \/ SdkOnStale(f) \/ SdkOnFragment(f) \/ SdkOnMsg(f) \/ SdkOnResync(f)
         \/ SdkOnReqAgain(f) \/ SdkOnReqUnserved(f) \/ SdkOnReqNew(f) \/ SdkOnResp(f)
  PROVE  SdkStep({}, {}) /\ SdkStays /\ c.dedup \subseteq c'.dedup
<1>1. /\ c \in SessionState /\ c.epoch \in Epochs /\ CompanionTypeOK /\ c.corrCtr \in Int
  BY DEF IpcInv, CompanionSound, CompanionTypeOK, SessionState, Word
<1>2. f \in DataFrame /\ Current(f)
  BY SdkDataFrames DEF SdkOnStale, SdkOnFragment, SdkOnMsg, SdkOnResync, SdkOnReqAgain,
     SdkOnReqUnserved, SdkOnReqNew, SdkOnResp, SdkDispatches, SdkDataArrives
<1>3. f.ch \in Chans
  BY <1>2 DEF DataFrame
<1>4. Step(c) \in Turn /\ Step(c).s = c /\ Step(c).sent = toGuest
  BY <1>1, StepTurn
<1> DEFINE a == SdkArrived(f)
           m == SdkMessage(f)
<1>5. /\ a \in Turn /\ TurnCalls(Step(c), a, {}, {})
      /\ a.s.pend = c.pend /\ a.s.dedup = c.dedup
      /\ a.s.corrCtr = c.corrCtr /\ a.s.up = c.up /\ a.s.epoch = c.epoch
  <2>1. /\ a \in Turn /\ TurnCalls(Step(c), a, {}, {})
        /\ a.s.pend = c.pend /\ a.s.dedup = c.dedup
        /\ a.s.corrCtr = c.corrCtr /\ a.s.up = c.up /\ a.s.epoch = c.epoch
        /\ (f.nfrag = 1 \/ a.s.rasm = [c.rasm EXCEPT ![f.ch] = Closed])
    BY <1>1, <1>2, SdkArrivedCalls
  <2> QED BY <2>1
<1>6. ASSUME SdkCompletes(f)
      PROVE  m.type \in DataTypes /\ m.corr \in Word /\ BodyOf(m.parts) \in Bodies
  BY <1>1, <1>2, <1>6, SdkMessageType
<1>7. /\ {"none", "BUSY", "DUPLICATE", "NO_HANDLER"} \subseteq Flags /\ "RESP" \in DataTypes
      /\ {"BUSY", "DUPLICATE", "NO_HANDLER"} \subseteq Errors
      /\ NoBody \in Bodies /\ Size[NoBody] = 1 /\ Reqs \subseteq Bodies
  BY WireAssumption, FkIpcAssumption DEF Flags, Errors, DataTypes, Reqs
<1> HIDE DEF a, m
<1>8. a.s \in SessionState /\ a = [s |-> a.s, sent |-> a.sent]
  BY <1>5 DEF Turn
\* What has arrived, with an edit that sends nothing.
<1>9. ASSUME NEW t \in SessionState, t.up = a.s.up, t.epoch = a.s.epoch,
             t.corrCtr = a.s.corrCtr, t.rasm = a.s.rasm, t.pend \subseteq a.s.pend,
             \A d \in t.dedup : d \in a.s.dedup \/ d.state # "cached",
             a.s.dedup \subseteq t.dedup, Do([a EXCEPT !.s = t])
      PROVE  SdkStep({}, {}) /\ SdkStays /\ c.dedup \subseteq c'.dedup
  <2> DEFINE r == [a EXCEPT !.s = t]
  <2>1. r \in Turn /\ r.s = t /\ r.sent = a.sent
    BY <1>5, <1>9 DEF Turn
  <2>2. Do(r)
    BY <1>9
  <2> HIDE DEF r
  <2>3. a.s.corrCtr <= r.s.corrCtr
    BY <1>1, <1>5, <1>9, <2>1
  <2>4. TurnCalls(a, r, {}, {})
    BY <1>9, <2>1, <2>3, TurnEdit
  <2>5. TurnCalls(Step(c), r, {}, {})
    BY <1>4, <1>5, <2>1, <2>4, TurnCallsTwice
  <2>6. SdkStep({}, {}) /\ SdkStays
    BY <2>2, <2>5, TurnSdkStep
  <2>7. c'.dedup = t.dedup
    BY <2>1, <2>2 DEF Do
  <2> QED BY <1>5, <1>9, <2>6, <2>7
\* What has arrived, and an answer.
<1>10. ASSUME NEW flag \in Flags, NEW corr \in Word, NEW b \in Bodies, Size[b] = 1,
              LET x == [epoch |-> a.s.epoch, ch |-> f.ch, corr |-> corr, body |-> b]
              IN flag \notin Errors => x \in TurnAnswers(a),
              Do(SdkSend(a, "RESP", flag, f.ch, corr, b))
       PROVE  SdkStep({}, {}) /\ SdkStays /\ c.dedup \subseteq c'.dedup
  <2> DEFINE r == SdkSend(a, "RESP", flag, f.ch, corr, b)
  <2>1. ~(corr = 0 /\ Size[b] > 1)
    BY <1>10
  <2>2. r \in Turn /\ TurnCalls(a, r, {}, {}) /\ r.s.dedup = a.s.dedup
    <3>1. LET x == [epoch |-> a.s.epoch, ch |-> f.ch, corr |-> corr, body |-> b]
          IN  /\ "RESP" = "REQ" => x \in TurnAsking(a) \cup {}
              /\ "RESP" = "RESP" /\ flag \notin Errors => x \in TurnAnswers(a) \cup {}
      BY <1>10
    <3>2. "RESP" \in DataTypes /\ a \in Turn /\ flag \in Flags /\ ("RESP" # "MSG" => Size[b] = 1)
      BY <1>5, <1>7, <1>10
    <3>3. LET q == SdkSend(a, "RESP", flag, f.ch, corr, b)
          IN  /\ q \in Turn /\ TurnCalls(a, q, {}, {})
              /\ q.s.pend = a.s.pend /\ q.s.dedup = a.s.dedup /\ q.s.rasm = a.s.rasm
              /\ q.s.up = a.s.up /\ q.s.epoch = a.s.epoch
              /\ ("RESP" # "MSG" => q.s.corrCtr = a.s.corrCtr)
      BY <1>3, <2>1, <3>1, <3>2, TurnSend
    <3> QED BY <3>3
  <2>3. Do(r)
    BY <1>10
  <2> HIDE DEF r
  <2>4. TurnCalls(Step(c), r, {}, {})
    BY <1>4, <1>5, <2>2, TurnCallsTwice
  <2>5. SdkStep({}, {}) /\ SdkStays
    BY <2>3, <2>4, TurnSdkStep
  <2> QED BY <1>5, <2>2, <2>3, <2>5 DEF Do
<1>11. CASE SdkOnStale(f)
  <2> DEFINE r == Step(Hear(c))
  <2>1. /\ Hear(c) \in SessionState /\ Hear(c).up = c.up /\ Hear(c).epoch = c.epoch
        /\ Hear(c).corrCtr = c.corrCtr /\ Hear(c).rasm = c.rasm /\ Hear(c).pend = c.pend
        /\ Hear(c).dedup = c.dedup
    BY <1>1 DEF Hear, SessionState
  <2>2. Do(r) /\ r.s = Hear(c) /\ r.sent = toGuest
    BY <1>11 DEF SdkOnStale, Step
  <2> HIDE DEF r
  <2>3. Step(c).s.corrCtr <= r.s.corrCtr
    BY <1>1, <1>4, <2>1, <2>2
  <2>4. TurnCalls(Step(c), r, {}, {})
    BY <1>4, <2>1, <2>2, <2>3, TurnEdit
  <2>5. SdkStep({}, {}) /\ SdkStays
    BY <2>2, <2>4, TurnSdkStep
  <2> QED BY <2>1, <2>2, <2>5 DEF Do
<1>12. CASE SdkOnFragment(f)
  <2> DEFINE k == SdkAccept(f)
             o == k.s.rasm[f.ch]
             n == IF Disagrees(o, f) THEN Closed ELSE Gather(o, f)
             t == [k.s EXCEPT !.rasm = [k.s.rasm EXCEPT ![f.ch] = n]]
             r == [k EXCEPT !.s = t]
  <2>1. /\ k \in Turn /\ TurnCalls(Step(c), k, {}, {})
        /\ k.s.pend = c.pend /\ k.s.dedup = c.dedup /\ k.s.rasm = c.rasm
        /\ k.s.corrCtr = c.corrCtr /\ k.s.up = c.up /\ k.s.epoch = c.epoch
    BY <1>1, <1>2, SdkAcceptCalls
  <2>2. Do(r) /\ f.nfrag # 1
    BY <1>12 DEF SdkOnFragment, SdkCompletes
  <2> HIDE DEF k
  <2>3. o \in Reassembly /\ (o.open => o.type = "MSG") /\ PlainRead(c.rasm)
    BY <1>1, <1>3, <2>1 DEF CallInv, OneFrameEach, PlainRead, SessionState
  <2>4. f.type = "MSG"
    BY <1>2, <2>2 DEF CallInv, OneFrameEach, Plain, DataFrame
  <2>5. n \in Reassembly
    <3>1. Closed \in Reassembly
      BY WireAssumption DEF Closed, Reassembly, DataTypes, Flags, Word
    <3>2. Gather(o, f) \in Reassembly
      BY <1>2, <2>3, GatherType
    <3> QED BY <3>1, <3>2
  <2>6. n.open => n.type = "MSG"
    <3>1. ~Closed.open
      BY DEF Closed
    <3>2. Gather(o, f).type = "MSG"
      <4> DEFINE base == IF Continues(o, f) THEN o
                         ELSE [open |-> TRUE, corr |-> f.corr, nfrag |-> f.nfrag,
                               type |-> f.type, flag |-> f.flag, parts |-> {}]
                 ps == {p \in base.parts : p[1] # f.frag} \cup {<<f.frag, f.body>>}
      <4>1. base.type = "MSG" /\ base \in [{"open", "corr", "nfrag", "type", "flag", "parts"} ->
              {base.open, base.corr, base.nfrag, base.type, base.flag, base.parts}]
        <5> HIDE DEF o
        <5> QED BY <2>3, <2>4 DEF Continues, Reassembly
      <4>2. Gather(o, f) = [base EXCEPT !.parts = ps]
        BY DEF Gather
      <4> HIDE DEF base, ps
      <4> QED BY <4>1, <4>2
    <3> QED BY <3>1, <3>2
  <2> HIDE DEF n, o
  <2>7. /\ t \in SessionState /\ t.up = c.up /\ t.epoch = c.epoch /\ t.pend = c.pend
        /\ t.dedup = c.dedup /\ t.corrCtr = c.corrCtr
        /\ t.rasm = [c.rasm EXCEPT ![f.ch] = n]
    <3>1. k.s \in SessionState /\ [k.s.rasm EXCEPT ![f.ch] = n] \in [Chans -> Reassembly]
      BY <2>1, <2>5 DEF Turn, SessionState
    <3> QED BY <2>1, <3>1 DEF SessionState
  <2> HIDE DEF t
  <2>8. r \in Turn /\ r.s = t /\ r.sent = k.sent
    BY <2>1, <2>7 DEF Turn
  <2> HIDE DEF r
  <2>9. PlainRead(r.s.rasm)
    BY <1>1, <2>3, <2>6, <2>7, <2>8 DEF PlainRead, SessionState
  <2>10. k.s.corrCtr <= r.s.corrCtr
    BY <1>1, <2>1, <2>7, <2>8
  <2>11. TurnCalls(k, r, {}, {})
    BY <2>1, <2>7, <2>8, <2>9, <2>10, TurnEdit
  <2>12. TurnCalls(Step(c), r, {}, {})
    BY <1>4, <2>1, <2>8, <2>11, TurnCallsTwice
  <2>13. SdkStep({}, {}) /\ SdkStays
    BY <2>2, <2>12, TurnSdkStep
  <2> QED BY <2>2, <2>7, <2>8, <2>13 DEF Do
<1>13. CASE SdkOnMsg(f)
  <2> DEFINE n == [a.s.resyncSent EXCEPT ![f.ch] = @ /\ m.flag # "snapshot"]
             t == [a.s EXCEPT !.resyncSent = n]
  <2>1. Do([a EXCEPT !.s = t])
    BY <1>13 DEF SdkOnMsg, a, m
  <2>2. n \in [Chans -> BOOLEAN]
    BY <1>5 DEF Turn, SessionState
  <2> HIDE DEF n
  <2>3. /\ t \in SessionState /\ t.up = a.s.up /\ t.epoch = a.s.epoch
        /\ t.corrCtr = a.s.corrCtr /\ t.rasm = a.s.rasm /\ t.pend = a.s.pend
        /\ t.dedup = a.s.dedup
    BY <1>8, <2>2 DEF SessionState
  <2> HIDE DEF t
  <2> QED BY <1>9, <2>1, <2>3
<1>14. CASE SdkOnResync(f)
  <2>1. Do(a)
    BY <1>14 DEF SdkOnResync, a
  <2>2. SdkStep({}, {}) /\ SdkStays
    BY <1>5, <2>1, TurnSdkStep
  <2> QED BY <1>5, <2>1, <2>2 DEF Do
<1>15. CASE SdkOnReqAgain(f)
  <2>1. SdkCompletes(f)
    BY <1>15 DEF SdkOnReqAgain, SdkDispatches
  <2>2. PICK d \in Known(f.ch, m.corr) :
          Do(CASE d.state = "inflight" -> SdkSend(a, "RESP", "BUSY", f.ch, m.corr, NoBody)
               [] d.state = "cached" -> SdkSend(a, "RESP", "none", f.ch, m.corr, d.body)
               [] d.state = "gone" -> SdkSend(a, "RESP", "DUPLICATE", f.ch, m.corr, NoBody))
    BY <1>15 DEF SdkOnReqAgain, a, m
  <2>3. /\ d \in SdkDedup /\ d \in c.dedup /\ d.epoch = c.epoch /\ d.ch = f.ch
        /\ d.corr = m.corr
    BY <1>1, <2>2 DEF Known, SessionState
  <2>4. d.state \in {"inflight", "cached", "gone"} /\ m.corr \in Word
    BY <1>6, <2>1, <2>3 DEF SdkDedup
  <2>5. CASE d.state = "inflight"
    <3>1. Do(SdkSend(a, "RESP", "BUSY", f.ch, m.corr, NoBody))
      BY <2>2, <2>5
    <3> QED BY <1>7, <1>10, <2>4, <3>1
  <2>6. CASE d.state = "cached"
    <3>1. Do(SdkSend(a, "RESP", "none", f.ch, m.corr, d.body))
      BY <2>2, <2>6
    <3>2. [epoch |-> a.s.epoch, ch |-> f.ch, corr |-> m.corr, body |-> d.body] = Call(d.epoch, d)
      BY <1>5, <2>3 DEF Call
    <3>3. Call(d.epoch, d) \in TurnAnswers(a) /\ Call(d.epoch, d) \in SdkAnswers
      BY <1>4, <1>5, <2>3, <2>6 DEF TurnAnswers, SdkAnswers, Calls
    <3>4. d.body \in Bodies /\ Size[d.body] = 1
      <4>1. Call(d.epoch, d).body = d.body
        BY DEF Call
      <4>2. d.body \in Reqs
        BY <3>3, <4>1, WhoseRequests DEF CallInv
      <4> QED BY <1>7, <4>2
    <3> QED BY <1>7, <1>10, <2>4, <3>1, <3>2, <3>3, <3>4
  <2>7. CASE d.state = "gone"
    <3>1. Do(SdkSend(a, "RESP", "DUPLICATE", f.ch, m.corr, NoBody))
      BY <2>2, <2>7
    <3> QED BY <1>7, <1>10, <2>4, <3>1
  <2> QED BY <2>4, <2>5, <2>6, <2>7
<1>16. CASE SdkOnReqUnserved(f)
  <2>1. SdkCompletes(f) /\ Do(SdkSend(a, "RESP", "NO_HANDLER", f.ch, m.corr, NoBody))
    BY <1>16 DEF SdkOnReqUnserved, SdkDispatches, a, m
  <2> QED BY <1>6, <1>7, <1>10, <2>1
<1>17. CASE SdkOnReqNew(f)
  <2> DEFINE mark == [epoch |-> c.epoch, ch |-> f.ch, corr |-> m.corr,
                      state |-> "inflight", body |-> NoBody]
             t == [a.s EXCEPT !.dedup = a.s.dedup \cup {mark}]
  <2>1. SdkCompletes(f) /\ Do([a EXCEPT !.s = t])
    BY <1>17 DEF SdkOnReqNew, SdkDispatches, a, m
  <2>2. mark \in SdkDedup /\ mark.state # "cached"
    BY <1>1, <1>3, <1>6, <1>7, <2>1 DEF SdkDedup
  <2> HIDE DEF mark
  <2>3. /\ t \in SessionState /\ t.up = a.s.up /\ t.epoch = a.s.epoch
        /\ t.corrCtr = a.s.corrCtr /\ t.rasm = a.s.rasm /\ t.pend = a.s.pend
        /\ t.dedup = a.s.dedup \cup {mark}
    BY <1>8, <2>2 DEF SessionState
  <2> HIDE DEF t
  <2> QED BY <1>9, <2>1, <2>2, <2>3
<1>18. CASE SdkOnResp(f)
  <2> DEFINE n == {p \in a.s.pend : p.corr # m.corr}
             t == [a.s EXCEPT !.pend = n]
  <2>1. Do([a EXCEPT !.s = t])
    BY <1>18 DEF SdkOnResp, a, m
  <2>2. n \in SUBSET SdkPending /\ n \subseteq a.s.pend
    BY <1>8 DEF SessionState
  <2> HIDE DEF n
  <2>3. /\ t \in SessionState /\ t.up = a.s.up /\ t.epoch = a.s.epoch
        /\ t.corrCtr = a.s.corrCtr /\ t.rasm = a.s.rasm /\ t.pend \subseteq a.s.pend
        /\ t.dedup = a.s.dedup
    BY <1>8, <2>2 DEF SessionState
  <2> HIDE DEF t
  <2> QED BY <1>9, <2>1, <2>3
<1> QED BY <1>11, <1>12, <1>13, <1>14, <1>15, <1>16, <1>17, <1>18

\* A companion that holds nothing of a session asks and answers nothing that is
\* not on its way.
LEMMA SdkEmpties ==
  ASSUME CallInv, c'.pend = {}, c'.dedup = {}, \A ch \in Chans : ~c'.rasm[ch].open,
         \A f \in Datagrams(toGuest') : f \in Datagrams(toGuest) \/ f.type \notin DataTypes
  PROVE  SdkStep({}, {})
<1>1. Step(c).sent = toGuest /\ Step(c)'.s = c' /\ Step(c)'.sent = toGuest'
  BY DEF Step
<1>2. /\ SdkAsking' = Calls(RequestFrames(Datagrams(toGuest')))
      /\ SdkAnswers' = Calls(Replies(Datagrams(toGuest')))
  <2>1. /\ SdkAsking' = {Call(c'.epoch, p) : p \in {}} \cup Calls(RequestFrames(Datagrams(toGuest')))
        /\ SdkAnswers' = Calls({d \in {} : d.state = "cached"})
                         \cup Calls(Replies(Datagrams(toGuest')))
    BY <1>1 DEF SdkAsking, TurnAsking, SdkAnswers, TurnAnswers, Step, Datagrams, Calls,
                RequestFrames, Replies, Call
  <2>2. Calls({d \in {} : d.state = "cached"}) = {} /\ {Call(c'.epoch, p) : p \in {}} = {}
    BY DEF Calls
  <2> QED BY <2>1, <2>2
<1>3. /\ Calls(RequestFrames(Datagrams(toGuest'))) \subseteq Calls(RequestFrames(Datagrams(toGuest)))
      /\ Calls(Replies(Datagrams(toGuest'))) \subseteq Calls(Replies(Datagrams(toGuest)))
  BY DEF Calls, RequestFrames, Replies, DataTypes
<1>4. SdkAsking' \subseteq SdkAsking /\ SdkAnswers' \subseteq SdkAnswers
  BY <1>1, <1>2, <1>3 DEF SdkAsking, TurnAsking, SdkAnswers, TurnAnswers
<1>5. Plain(Datagrams(toGuest)) /\ PendBodies(c'.pend) = {}
  BY DEF CallInv, OneFrameEach, PendBodies
<1>6. Plain(Datagrams(toGuest')) /\ PlainRead(c'.rasm)
  BY <1>5 DEF Plain, PlainRead
<1> QED BY <1>4, <1>5, <1>6 DEF SdkStep

\* A session that is reset holds nothing (resetLocked).
LEMMA ClearedCalls ==
  ASSUME NEW s \in SessionState
  PROVE  /\ Cleared(s).pend = {} /\ Cleared(s).dedup = {}
         /\ \A ch \in Chans : ~Cleared(s).rasm[ch].open
         /\ (s.up => LET t == Down(s)
                     IN  /\ ~t.up /\ t.pend = {} /\ t.dedup = {}
                         /\ \A ch \in Chans : ~t.rasm[ch].open)
<1> DEFINE k == Cleared(s)
<1>1. ~Closed.open
  BY DEF Closed
<1>2. /\ k \in SessionState /\ k.pend = {} /\ k.dedup = {} /\ k.rasm = NewSession.rasm
  <2>1. k \in SessionState
    BY ClearedSound
  <2> QED BY <2>1 DEF Cleared, SessionState
<1>3. \A ch \in Chans : ~k.rasm[ch].open
  BY <1>1, <1>2 DEF NewSession
<1>4. s.up => Down(s) = [k EXCEPT !.up = FALSE, !.epoch = 0]
  BY DEF Down
<1> HIDE DEF k
<1>5. s.up => LET t == Down(s)
              IN  /\ ~t.up /\ t.pend = {} /\ t.dedup = {}
                  /\ \A ch \in Chans : ~t.rasm[ch].open
  BY <1>2, <1>3, <1>4 DEF SessionState
<1> QED BY <1>2, <1>3, <1>5 DEF k

\* A companion whose session ended has nothing of it (resetLocked, Close, Dial).
LEMMA SdkLeavesKind ==
  ASSUME CallInv, g' = g, Datagrams(out') \subseteq Datagrams(out),
         ~c'.up, c'.pend = {}, c'.dedup = {}, \A ch \in Chans : ~c'.rasm[ch].open,
         \A f \in Datagrams(toGuest') :
           f \in Datagrams(toGuest) \/ f.type \notin DataTypes \cup {"HELLO_ACK"},
         running' \subseteq running, Tells(c.pend, c'.pend)
  PROVE  SdkKind
<1>1. SdkStep({}, {})
  BY SdkEmpties
<1>2. SdkMovesOn
  BY DEF SdkMovesOn, OffersSame
<1> QED BY <1>1, <1>2 DEF SdkKind, SdkFades

\* A section that goes on and remembers all it knew.
LEMMA TurnKind ==
  ASSUME IpcInv, CallInv, g' = g, Datagrams(out') \subseteq Datagrams(out),
         NEW r, TurnCalls(Step(c), r, {}, {}), Do(r), running' \subseteq running,
         SdkRemembers \/ c.dedup \subseteq c'.dedup, Tells(c.pend, c'.pend)
  PROVE  SdkKind
<1>1. SdkStep({}, {}) /\ SdkStays
  BY TurnSdkStep
<1>2. SdkRemembers
  <2>1. CASE c.dedup \subseteq c'.dedup
    BY <1>1, <2>1 DEF SdkRemembers, SdkKnows, SdkStays
  <2> QED BY <2>1
<1> QED BY <1>1, <1>2 DEF SdkKind, SdkFades

\* A HEARTBEAT or a BYE asks and answers nothing.
LEMMA RawCalls ==
  ASSUME NEW k \in Turn, NEW f \in ByeFrame \cup BeatFrame, NEW N, NEW A
  PROVE  LET r == Raw(k, f)
         IN  /\ r \in Turn /\ TurnCalls(k, r, N, A) /\ r.s = k.s
             /\ Datagrams(r.sent) \subseteq Datagrams(k.sent) \cup {f}
<1> DEFINE r == Raw(k, f)
<1>1. r \in Turn /\ r.s = k.s /\ Datagrams(r.sent) \subseteq Datagrams(k.sent) \cup {f}
  BY RawGoesOn
<1> HIDE DEF r
<1>2. f.type \notin DataTypes \cup {"HELLO_ACK"}
  BY DEF ByeFrame, BeatFrame, DataTypes
<1>3. k.s.corrCtr <= r.s.corrCtr
  BY <1>1 DEF Turn, SessionState, Word
<1>4. TurnCalls(k, r, N, A)
  BY <1>1, <1>2, <1>3, TurnEdit
<1> QED BY <1>1, <1>4 DEF r

\* Nor does an unsolicited BYE.
LEMMA LimitedByeCalls ==
  ASSUME NEW k \in Turn, NEW e \in Epochs, NEW N, NEW A
  PROVE  LET r == LimitedBye(k, e)
         IN  TurnCalls(k, r, N, A) /\ r.s.dedup = k.s.dedup /\ r.s.pend = k.s.pend
<1> DEFINE bye == [type |-> "BYE", epoch |-> e]
           t == [k.s EXCEPT !.byeAllowed = FALSE]
           j == [s |-> t, sent |-> k.sent]
           r == LimitedBye(k, e)
<1>1. k.s \in SessionState /\ k.sent \in Seq(Frame) /\ k.s.corrCtr \in Int
  BY DEF Turn, SessionState, Word
<1>2. /\ t \in SessionState /\ t.up = k.s.up /\ t.epoch = k.s.epoch /\ t.pend = k.s.pend
      /\ t.dedup = k.s.dedup /\ t.rasm = k.s.rasm /\ t.corrCtr = k.s.corrCtr
  BY <1>1 DEF SessionState
<1>3. [k EXCEPT !.s.byeAllowed = FALSE] = j
  <2>1. [k EXCEPT !.s.byeAllowed = FALSE] = [k EXCEPT !.s = t]
    OBVIOUS
  <2> HIDE DEF t
  <2> QED BY <2>1 DEF Turn
<1> HIDE DEF t
<1>4. j \in Turn /\ j.s = t /\ j.sent = k.sent
  BY <1>1, <1>2 DEF Turn
<1>5. bye \in ByeFrame \cup BeatFrame
  BY DEF ByeFrame
<1> HIDE DEF j, bye
<1>6. TurnCalls(k, j, N, A)
  <2>1. k.s.corrCtr <= j.s.corrCtr
    BY <1>1, <1>2, <1>4
  <2> QED BY <1>2, <1>4, <2>1, TurnEdit
<1>7. CASE k.s.byeAllowed
  <2>1. r = Raw(j, bye)
    BY <1>3, <1>7 DEF LimitedBye, bye
  <2>2. /\ r \in Turn /\ TurnCalls(j, r, N, A) /\ r.s = j.s
        /\ Datagrams(r.sent) \subseteq Datagrams(j.sent) \cup {bye}
    BY <1>4, <1>5, <2>1, RawCalls
  <2>3. TurnCalls(k, r, N, A)
    BY <1>4, <1>6, <2>2, TurnCallsTwice
  <2> QED BY <1>2, <1>4, <2>2, <2>3
<1>8. CASE ~k.s.byeAllowed
  <2>1. r = k
    BY <1>8 DEF LimitedBye
  <2>2. k.s.corrCtr <= k.s.corrCtr
    BY <1>1
  <2>3. TurnCalls(k, k, N, A)
    BY <2>2, TurnEdit
  <2> QED BY <2>1, <2>3
<1> QED BY <1>7, <1>8

\* A frame that is of no channel (deliver, onHello, onHeartbeat, rollbackLocked,
\* onBye).
LEMMA SdkSessionKind ==
  ASSUME IpcInv, CallInv, g' = g, Datagrams(out') \subseteq Datagrams(out), NEW f \in Frame,
         f.type = "HELLO" => f.corr \in 0 .. g.corrCtr \cup {1},
         \/ OnHello(f, Fresh(f)) \/ OnHelloRefused(f) \/ OnUnknownEpoch(f)
         \/ OnBeat(f) \/ OnRollback(f) \/ OnPeerBye(f),
         Tells(c.pend, c'.pend)
  PROVE  SdkKind
<1>1. /\ CompanionTypeOK /\ c \in SessionState /\ c.corrCtr \in Int /\ toGuest \in Seq(Frame)
      /\ f.epoch \in Epochs /\ c.epoch \in Epochs
  BY FrameEpoch DEF IpcInv, CompanionSound, CompanionTypeOK, SessionState, Word
<1>2. Step(c) \in Turn /\ Step(c).s = c /\ Step(c).sent = toGuest
  BY <1>1, StepTurn
<1>3. running' \subseteq running
  BY DEF OnHello, OnHelloRefused, OnUnknownEpoch, OnBeat, OnRollback, OnPeerBye
<1>4. /\ Hear(c) \in SessionState /\ Hear(c).up = c.up /\ Hear(c).epoch = c.epoch
      /\ Hear(c).corrCtr = c.corrCtr /\ Hear(c).rasm = c.rasm /\ Hear(c).pend = c.pend
      /\ Hear(c).dedup = c.dedup
  BY <1>1 DEF Hear, SessionState
<1>5. CASE OnHello(f, Fresh(f))
  <2> DEFINE S(e) == [Cleared(c) EXCEPT !.epoch = e, !.up = TRUE, !.quiet = FALSE,
                                        !.guestHi = f.tick]
             ack(e) == [type |-> "HELLO_ACK", epoch |-> e, corr |-> f.corr,
                        name |-> SdkName]
  <2>1. PICK e \in Fresh(f) \ {f.epoch, c.epoch} : Do(Raw(Step(S(e)), ack(e)))
    BY <1>5 DEF OnHello
  <2>2. f.type = "HELLO" /\ f.corr \in 0 .. g.corrCtr \cup {1}
    BY <1>5 DEF OnHello
  <2>3. f.corr \in Word /\ e \in Epochs /\ e \notin Held
    BY <2>2, CompanionAssumption DEF Fresh, Frame, HelloFrame, AckFrame, BeatFrame, ByeFrame,
       DataFrame, DataTypes
  <2>4. /\ S(e).up /\ S(e).epoch = e /\ S(e).pend = {} /\ S(e).dedup = {}
        /\ \A ch \in Chans : ~S(e).rasm[ch].open
    <3>1. /\ Cleared(c).pend = {} /\ Cleared(c).dedup = {}
          /\ \A ch \in Chans : ~Cleared(c).rasm[ch].open
      BY <1>1, ClearedCalls
    <3>2. Cleared(c) \in SessionState
      BY <1>1, ClearedSound
    <3> QED BY <3>1, <3>2 DEF SessionState
  <2>5. /\ ack(e) \in Frame /\ ack(e).type = "HELLO_ACK" /\ ack(e).epoch = e
        /\ ack(e).corr = f.corr
    BY <2>3, CompanionAssumption DEF Frame, AckFrame
  <2> HIDE DEF S, ack
  <2>6. c' = S(e) /\ toGuest' = Put(toGuest, ack(e), SdkSockBuf)
    BY <2>1 DEF Do, Raw, Step
  <2>7. Datagrams(toGuest') \subseteq Datagrams(toGuest) \cup {ack(e)}
    BY <1>1, <2>5, <2>6, PutSound
  <2>8. SdkStep({}, {})
    <3>1. \A d \in Datagrams(toGuest') : d \in Datagrams(toGuest) \/ d.type \notin DataTypes
      BY <2>5, <2>7 DEF DataTypes
    <3> QED BY <2>4, <2>6, <3>1, SdkEmpties
  <2>9. Unheard(e)
    <3>1. e # c.epoch /\ e # g.epoch
      BY <2>1, <2>3 DEF Held
    <3>2. \A d \in Datagrams(out) \cup Datagrams(toGuest) : d.epoch # e
      BY <2>3 DEF Held, Datagrams
    <3> QED BY <3>1, <3>2 DEF Unheard
  <2>10. SdkMovesOn
    <3>1. c'.up /\ c'.pend = {} /\ Unheard(c'.epoch)
      BY <2>4, <2>6, <2>9
    <3>2. \A a \in Datagrams(toGuest') : a.type = "HELLO_ACK" =>
            a \in Datagrams(toGuest) \/ (a.epoch = c'.epoch /\ a.corr \in 0 .. g.corrCtr \cup {1})
      BY <2>2, <2>4, <2>5, <2>6, <2>7
    <3> QED BY <3>1, <3>2 DEF SdkMovesOn
  <2> QED BY <1>3, <2>8, <2>10 DEF SdkKind, SdkFades
<1>6. CASE OnHelloRefused(f) \/ OnUnknownEpoch(f)
  <2> DEFINE r == LimitedBye(Step(c), f.epoch)
  <2>1. Do(r)
    BY <1>6 DEF OnHelloRefused, OnUnknownEpoch
  <2>2. /\ TurnCalls(Step(c), r, {}, {})
        /\ r.s.dedup = Step(c).s.dedup /\ r.s.pend = Step(c).s.pend
    BY <1>1, <1>2, LimitedByeCalls
  <2> HIDE DEF r
  <2>3. c.dedup \subseteq c'.dedup
    BY <1>2, <2>1, <2>2 DEF Do
  <2> QED BY <1>3, <2>1, <2>2, <2>3, TurnKind
<1>7. CASE OnBeat(f)
  <2> DEFINE t == [Hear(c) EXCEPT !.guestHi = IF SerialDelta(f.tick, @) > 0 THEN f.tick ELSE @]
             r == Step(t)
  <2>1. Do(r) /\ r.s = t /\ r.sent = toGuest
    BY <1>7 DEF OnBeat, Step
  <2>2. /\ t.up = c.up /\ t.epoch = c.epoch /\ t.corrCtr = c.corrCtr /\ t.rasm = c.rasm
        /\ t.pend = c.pend /\ t.dedup = c.dedup
    BY <1>4 DEF SessionState
  <2> HIDE DEF r, t
  <2>3. Step(c).s.corrCtr <= r.s.corrCtr
    BY <1>1, <1>2, <2>1, <2>2
  <2>4. TurnCalls(Step(c), r, {}, {})
    BY <1>2, <2>1, <2>2, <2>3, TurnEdit
  <2>5. c.dedup \subseteq c'.dedup
    BY <2>1, <2>2 DEF Do
  <2> QED BY <1>3, <2>1, <2>4, <2>5, TurnKind
<1>8. CASE OnRollback(f)
  <2> DEFINE t == [Hear(c) EXCEPT !.byeAllowed = FALSE]
             bye == [type |-> "BYE", epoch |-> c.epoch]
             told == Raw(Step(t), bye)
  <2>1. Do([told EXCEPT !.s = Down(@)]) /\ c.up
    BY <1>8 DEF OnRollback, Current
  <2>2. t \in SessionState /\ t.up = c.up
    BY <1>4 DEF SessionState
  <2> HIDE DEF t
  <2>3. bye \in ByeFrame \cup BeatFrame /\ bye.type = "BYE"
    BY <1>1 DEF ByeFrame
  <2> HIDE DEF bye
  <2>4. Step(t) \in Turn /\ Step(t).s = t /\ Step(t).sent = toGuest
    BY <1>1, <2>2, StepTurn
  <2>5. told \in Turn /\ told.s = t
        /\ Datagrams(told.sent) \subseteq Datagrams(toGuest) \cup {bye}
    <3>1. /\ told \in Turn /\ GoesOn(Step(t), told, 0) /\ told.s = Step(t).s
          /\ Datagrams(told.sent) \subseteq Datagrams(Step(t).sent) \cup {bye}
      BY <2>3, <2>4, RawGoesOn
    <3> QED BY <2>4, <3>1
  <2> HIDE DEF told
  <2>6. /\ ~Down(t).up /\ Down(t).pend = {} /\ Down(t).dedup = {}
        /\ \A ch \in Chans : ~Down(t).rasm[ch].open
    BY <2>1, <2>2, ClearedCalls
  <2>7. c' = Down(t) /\ toGuest' = told.sent
    BY <2>1, <2>5 DEF Do, Turn
  <2>8. \A d \in Datagrams(toGuest') :
          d \in Datagrams(toGuest) \/ d.type \notin DataTypes \cup {"HELLO_ACK"}
    BY <2>3, <2>5, <2>7 DEF DataTypes
  <2> QED BY <1>3, <2>6, <2>7, <2>8, SdkLeavesKind
<1>9. CASE OnPeerBye(f)
  <2>1. c' = Down(Hear(c)) /\ toGuest' = toGuest /\ c.up
    BY <1>9 DEF OnPeerBye, Do, Step, Current
  <2>2. /\ ~Down(Hear(c)).up /\ Down(Hear(c)).pend = {} /\ Down(Hear(c)).dedup = {}
        /\ \A ch \in Chans : ~Down(Hear(c)).rasm[ch].open
    BY <1>4, <2>1, ClearedCalls
  <2> QED BY <1>3, <2>1, <2>2, SdkLeavesKind
<1> QED BY <1>5, <1>6, <1>7, <1>8, <1>9

\* Whoever waits at the companion is told its own answer (onResp).
LEMMA SdkAnswerTells ==
  ASSUME IpcInv, CallInv, \A r \in Reqs : Size[r] = 1,
         NEW f \in Frame, f \in Datagrams(out), SdkOnResp(f),
         h' = Settled(h, c.pend, c'.pend, LAMBDA r : ReplyOf(SdkMessage(f), r))
  PROVE  Tells(c.pend, c'.pend)
<1> DEFINE m == SdkMessage(f)
           a == SdkArrived(f)
           o == [r \in Reqs |-> ReplyOf(m, r)]
<1>1. h' = Told(c.pend, c'.pend, o)
  BY DEF Settled, Told, PendBodies
<1>2. \A r \in Reqs : o[r] = ReplyOf(m, r)
  OBVIOUS
<1>3. /\ CompanionTypeOK /\ c.up /\ m.type = "RESP" /\ f.epoch = c.epoch /\ SdkCompletes(f)
      /\ Do([a EXCEPT !.s.pend = {p \in @ : p.corr # m.corr}])
  BY DEF IpcInv, CompanionSound, SdkOnResp, SdkDispatches, SdkDataArrives, Current
<1>4. f \in DataFrame
  BY SdkDataFrames DEF SdkOnResp, SdkDispatches, SdkDataArrives
<1>5. /\ f.type = "RESP" /\ f.flag = m.flag /\ f.corr = m.corr
      /\ m.parts = {<<0, f.body>>} /\ BodyOf(m.parts) = f.body
  BY <1>3, <1>4, SdkHears
<1>6. a \in Turn /\ a.s.pend = c.pend
  <2>1. /\ a \in Turn /\ TurnCalls(Step(c), a, {}, {})
        /\ a.s.pend = c.pend /\ a.s.dedup = c.dedup
        /\ a.s.corrCtr = c.corrCtr /\ a.s.up = c.up /\ a.s.epoch = c.epoch
        /\ (f.nfrag = 1 \/ a.s.rasm = [c.rasm EXCEPT ![f.ch] = Closed])
    BY <1>3, <1>4, SdkArrivedCalls
  <2> QED BY <2>1
<1>7. c'.pend = {p \in c.pend : p.corr # m.corr}
  <2> DEFINE n == {p \in a.s.pend : p.corr # m.corr}
             t == [a.s EXCEPT !.pend = n]
  <2>1. Do([a EXCEPT !.s = t])
    BY <1>3
  <2>2. a.s \in SessionState /\ a = [s |-> a.s, sent |-> a.sent]
    BY <1>6 DEF Turn
  <2>3. n = {p \in c.pend : p.corr # m.corr}
    BY <1>6
  <2> HIDE DEF a, m, n
  <2>4. t.pend = n
    BY <2>2 DEF SessionState
  <2> HIDE DEF t
  <2>5. [a EXCEPT !.s = t].s = t
    BY <2>2
  <2> QED BY <2>1, <2>3, <2>4, <2>5 DEF Do
<1> HIDE DEF m, o, a
<1>8. ASSUME NEW r \in Reqs \cap (PendBodies(c.pend) \ PendBodies(c'.pend))
      PROVE  ReplyOf(m, r) \in Rpc!Unknown \cup {"answer"} /\ (ReplyOf(m, r) = "answer" => h.ran[r] > 0)
  <2>1. PICK p \in c.pend : p.body = r
    BY DEF PendBodies
  <2>2. p \notin c'.pend
    BY <2>1 DEF PendBodies
  <2>3. p.corr = f.corr
    BY <1>5, <1>7, <2>2
  <2>4. CASE m.flag \in Errors
    <3>1. ReplyOf(m, r) = m.flag
      BY <2>4 DEF ReplyOf
    <3> QED BY <2>4, <3>1 DEF Errors, Rpc!Unknown
  <2>5. CASE m.flag \notin Errors
    <3> DEFINE x == Call(f.epoch, f)
               y == Call(c.epoch, p)
    <3>1. /\ x.epoch = f.epoch /\ x.corr = f.corr /\ x.body = f.body
          /\ y.epoch = c.epoch /\ y.corr = p.corr /\ y.body = r
      BY <2>1 DEF Call
    <3>2. x \in GuestAnswers
      BY <1>5, <2>5 DEF GuestAnswers, Calls, Replies
    <3>3. y \in SdkAsking
      <4>1. Step(c).s = c
        BY DEF Step
      <4> QED BY <4>1 DEF SdkAsking, TurnAsking
    <3> HIDE DEF x, y
    <3>4. f.body = r
      BY <1>3, <2>3, <3>1, <3>2, <3>3 DEF CallInv, SdkIds
    <3>5. h.ran[r] > 0
      BY <3>1, <3>2, <3>4 DEF CallInv, Executed
    <3>6. Intact(m.parts)
      <4>1. r \in Bodies /\ Size[r] = 1
        BY FkIpcAssumption DEF Reqs
      <4>2. {<<i, r>> : i \in 0 .. Size[r] - 1} = {<<0, r>>}
        <5>1. 0 .. Size[r] - 1 = {0}
          BY <4>1
        <5> QED BY <5>1
      <4> QED BY <1>5, <3>4, <4>1, <4>2 DEF Intact
    <3>7. ReplyOf(m, r) = "answer"
      BY <1>5, <2>5, <3>4, <3>6 DEF ReplyOf
    <3> QED BY <3>5, <3>7
  <2> QED BY <2>4, <2>5
<1>9. HistoryOK(h)
  BY DEF IpcInv, BooksOK
<1> QED BY <1>1, <1>2, <1>8, <1>9, ToldTells

\* What the companion's application learns from a datagram, by what it is.
LEMMA SdkLearnt ==
  ASSUME NEW f, NEW m, m = SdkMessage(f), h' = SdkLearns(f)
  PROVE  LET whole == f.type \in DataTypes /\ Current(f) /\ ~SdkStale(f) /\ SdkCompletes(f)
         IN  /\ ~whole => h' = Settled(h, c.pend, c'.pend, Lost)
             /\ whole /\ m.type = "RESP" =>
                  h' = Settled(h, c.pend, c'.pend, LAMBDA r : ReplyOf(m, r))
             /\ whole /\ m.type = "MSG" => h' = Heard(h, "sdk", f.epoch, m)
             /\ whole /\ m.type \in {"REQ", "RESYNC"} => h' = h
BY DEF SdkLearns

\* A request the companion starts to execute is one it does not know (onReq).
LEMMA SdkServesKind ==
  ASSUME IpcInv, CallInv, \A r \in Reqs : Size[r] = 1,
         g' = g, Datagrams(out') \subseteq Datagrams(out), h' = h,
         NEW f \in Frame, f \in Datagrams(out), SdkOnReqNew(f)
  PROVE  SdkKind
<1> DEFINE m == SdkMessage(f)
           b == BodyOf(m.parts)
           x == Call(f.epoch, f)
           mark == [epoch |-> c.epoch, ch |-> f.ch, corr |-> m.corr,
                    state |-> "inflight", body |-> NoBody]
           a == SdkArrived(f)
<1>0. PICK number \in FreeNumbers :
        running' = running \cup {[n |-> number, epoch |-> c.epoch, ch |-> f.ch, corr |-> m.corr,
                                  body |-> b, awaits |-> 0]}
  BY DEF SdkOnReqNew
<1> DEFINE r == [n |-> number, epoch |-> c.epoch, ch |-> f.ch, corr |-> m.corr, body |-> b,
                 awaits |-> 0]
<1>1. /\ CompanionTypeOK /\ c.up /\ m.type = "REQ" /\ f.epoch = c.epoch
      /\ Known(f.ch, m.corr) = {} /\ Do([a EXCEPT !.s.dedup = @ \cup {mark}])
  BY DEF IpcInv, CompanionSound, SdkOnReqNew, SdkDispatches, SdkDataArrives, Current
<1>2. f \in DataFrame
  BY SdkDataFrames DEF SdkOnReqNew, SdkDispatches, SdkDataArrives
<1>3. f.type = "REQ" /\ f.corr = m.corr /\ b = f.body
  BY <1>1, <1>2, SdkHears
<1>4. /\ x.epoch = c.epoch /\ x.ch = f.ch /\ x.corr = m.corr /\ Call(r.epoch, r) = x
  BY <1>1, <1>3 DEF Call
<1>5. x \in GuestAsking
  BY <1>3 DEF GuestAsking, Calls, RequestFrames
<1>6. SdkStep({}, {}) /\ SdkStays /\ c.dedup \subseteq c'.dedup
  BY SdkFrameCalls
<1>7. mark \in c'.dedup
  <2> DEFINE n == a.s.dedup \cup {mark}
             t == [a.s EXCEPT !.dedup = n]
  <2>1. Do([a EXCEPT !.s = t])
    BY <1>1
  <2>2. /\ a \in Turn /\ TurnCalls(Step(c), a, {}, {})
        /\ a.s.pend = c.pend /\ a.s.dedup = c.dedup
        /\ a.s.corrCtr = c.corrCtr /\ a.s.up = c.up /\ a.s.epoch = c.epoch
        /\ (f.nfrag = 1 \/ a.s.rasm = [c.rasm EXCEPT ![f.ch] = Closed])
    BY <1>1, <1>2, SdkArrivedCalls
  <2>3. mark \in n
    OBVIOUS
  <2> HIDE DEF a, n, mark
  <2>4. t.dedup = n
    BY <2>2 DEF Turn, SessionState
  <2> HIDE DEF t
  <2>5. [a EXCEPT !.s = t].s = t
    BY <2>2 DEF Turn
  <2> QED BY <2>1, <2>3, <2>4, <2>5 DEF Do
<1>8. SdkKnows(c', x)
  <2>1. c'.epoch = c.epoch
    BY <1>6 DEF SdkStays
  <2>2. mark.epoch = c.epoch /\ mark.ch = f.ch /\ mark.corr = m.corr
    OBVIOUS
  <2> HIDE DEF mark, x
  <2> QED BY <1>4, <1>7, <2>1, <2>2 DEF SdkKnows
<1>9. ~SdkKnows(c, x)
  <2> HIDE DEF x, m
  <2> QED BY <1>1, <1>4 DEF SdkKnows, Known
<1>11. running' = running \cup {r}
  BY <1>0
<1> HIDE DEF x, r, m
<1>10. SdkServesNew
  BY <1>1, <1>11, <1>4, <1>5, <1>6, <1>8, <1>9 DEF SdkServesNew
<1> QED BY <1>10 DEF SdkKind

\* A datagram the companion reads (deliver).
LEMMA SdkReceiveKind ==
  ASSUME IpcInv, CallInv, \A r \in Reqs : Size[r] = 1, SdkReceives
  PROVE  SdkKind
<1>1. PICK i \in Readable(out) :
        /\ out' = Without(out, i) /\ SdkDeliver(out[i], Fresh(out[i]))
        /\ h' = SdkLearns(out[i])
  BY DEF SdkReceives
<1> DEFINE f == out[i]
           m == SdkMessage(f)
<1>2. out \in Seq(Frame) /\ HistoryOK(h) /\ HistoryTyped
  BY DEF IpcInv, GuestInv, BooksOK, CallInv
<1>3. i \in DOMAIN out /\ f \in Frame /\ f \in Datagrams(out)
  BY <1>2, TakenFrame
<1>4. g' = g /\ Datagrams(out') \subseteq Datagrams(out)
  BY <1>1, <1>2, <1>3, WithoutSound DEF SdkReceives
<1>5. SdkDeliver(f, Fresh(f)) /\ h' = SdkLearns(f)
  BY <1>1
<1> HIDE DEF f, m
<1> DEFINE whole == f.type \in DataTypes /\ Current(f) /\ ~SdkStale(f) /\ SdkCompletes(f)
<1>6. /\ ~whole => h' = Settled(h, c.pend, c'.pend, Lost)
      /\ whole /\ m.type = "RESP" =>
           h' = Settled(h, c.pend, c'.pend, LAMBDA r : ReplyOf(m, r))
      /\ whole /\ m.type = "MSG" => h' = Heard(h, "sdk", f.epoch, m)
      /\ whole /\ m.type \in {"REQ", "RESYNC"} => h' = h
  BY <1>5, SdkLearnt DEF m
<1>7. CASE \/ OnHello(f, Fresh(f)) \/ OnHelloRefused(f) \/ OnUnknownEpoch(f)
           \/ OnBeat(f) \/ OnRollback(f) \/ OnPeerBye(f)
  <2>1. ~whole
    BY <1>7 DEF OnHello, OnHelloRefused, OnUnknownEpoch, OnBeat, OnRollback, OnPeerBye, DataTypes
  <2>2. Tells(c.pend, c'.pend)
    BY <1>2, <1>6, <2>1, LostTells
  <2>3. f.type = "HELLO" => f.corr \in 0 .. g.corrCtr \cup {1}
    <3> SUFFICES ASSUME f.type = "HELLO" PROVE f.corr \in 0 .. g.corrCtr
      OBVIOUS
    <3>1. f \in HelloFrame
      BY <1>3 DEF Frame, HelloFrame, AckFrame, BeatFrame, ByeFrame, DataFrame, DataTypes
    <3>2. f.corr \in Nat
      BY <3>1, WireAssumption DEF HelloFrame, Word
    <3>3. f.corr <= g.corrCtr /\ g.corrCtr \in Int
      BY <1>3, Counters DEF CallInv, OffersAreNew
    <3> QED BY <3>2, <3>3
  <2> QED BY <1>3, <1>4, <1>7, <2>2, <2>3, SdkSessionKind
<1>8. CASE SdkOnReqNew(f)
  <2>1. h' = h
    BY <1>6, <1>8 DEF SdkOnReqNew, SdkDispatches, SdkDataArrives, m
  <2> QED BY <1>3, <1>4, <1>8, <2>1, SdkServesKind
<1>9. CASE \/ SdkOnStale(f) \/ SdkOnFragment(f) \/ SdkOnMsg(f) \/ SdkOnResync(f)
           \/ SdkOnReqAgain(f) \/ SdkOnReqUnserved(f) \/ SdkOnResp(f)
  <2>1. SdkStep({}, {}) /\ SdkStays /\ c.dedup \subseteq c'.dedup
    BY <1>3, <1>9, SdkFrameCalls
  <2>2. ASSUME SdkOnStale(f) \/ SdkOnFragment(f) PROVE Tells(c.pend, c'.pend)
    <3>1. ~whole
      BY <2>2 DEF SdkOnStale, SdkOnFragment
    <3> QED BY <1>2, <1>6, <3>1, LostTells
  <2>3. ASSUME SdkOnResp(f) PROVE Tells(c.pend, c'.pend)
    <3>1. whole /\ m.type = "RESP"
      BY <2>3 DEF SdkOnResp, SdkDispatches, SdkDataArrives, m
    <3>2. h' = Settled(h, c.pend, c'.pend, LAMBDA r : ReplyOf(m, r))
      BY <1>6, <3>1
    <3>3. h' = Settled(h, c.pend, c'.pend, LAMBDA r : ReplyOf(SdkMessage(f), r))
      BY <3>2 DEF m
    <3> QED BY <1>3, <2>3, <3>3, SdkAnswerTells
  <2>4. ASSUME SdkOnMsg(f) PROVE Tells(c.pend, c'.pend)
    <3>1. whole /\ m.type = "MSG"
      BY <2>4 DEF SdkOnMsg, SdkDispatches, SdkDataArrives, m
    <3>2. h'.asked = h.asked /\ h'.ran = h.ran /\ h'.told = h.told
      BY <1>2, <1>6, <3>1, HeardOnly
    <3> QED BY <1>2, <3>2, NothingTold
  <2>5. ASSUME SdkOnResync(f) \/ SdkOnReqAgain(f) \/ SdkOnReqUnserved(f)
        PROVE  Tells(c.pend, c'.pend)
    <3>1. h' = h
      BY <1>6, <2>5 DEF SdkOnResync, SdkOnReqAgain, SdkOnReqUnserved, SdkDispatches,
         SdkDataArrives, m
    <3> QED BY <1>2, <3>1, NothingTold
  <2>6. Tells(c.pend, c'.pend)
    BY <1>9, <2>2, <2>3, <2>4, <2>5
  <2>7. running' \subseteq running
    BY <1>9 DEF SdkOnStale, SdkOnFragment, SdkOnMsg, SdkOnResync, SdkOnReqAgain,
       SdkOnReqUnserved, SdkOnResp
  <2>8. SdkRemembers
    BY <2>1 DEF SdkRemembers, SdkKnows, SdkStays
  <2>9. SdkFades
    BY <2>1, <2>6, <2>7, <2>8 DEF SdkFades
  <2> QED BY <1>4, <2>9 DEF SdkKind
<1> QED BY <1>5, <1>7, <1>8, <1>9 DEF SdkDeliver

\* Another mod's HELLO starts no session (onHello), or a new one.
LEMMA StrayKind ==
  ASSUME IpcInv, CallInv, StrayHello
  PROVE  SdkKind
<1> DEFINE f == [type |-> "HELLO", epoch |-> 0, corr |-> 1, tick |-> 0, name |-> OtherModName]
<1>1. /\ SdkDeliver(f, Fresh(f)) /\ h' = Settled(h, c.pend, c'.pend, Lost)
      /\ g' = g /\ out' = out
  BY DEF StrayHello
<1>2. f \in Frame
  BY WireAssumption, FkIpcAssumption DEF Frame, HelloFrame, Word
<1>3. f.type = "HELLO" /\ f.corr = 1
  OBVIOUS
<1> HIDE DEF f
<1>4. OnHello(f, Fresh(f)) \/ OnHelloRefused(f)
  BY <1>1, <1>3 DEF SdkDeliver, OnUnknownEpoch, OnBeat, OnRollback, OnPeerBye, SdkOnStale,
     SdkOnFragment, SdkOnMsg, SdkOnResync, SdkOnReqAgain, SdkOnReqUnserved, SdkOnReqNew,
     SdkOnResp, SdkDispatches, SdkDataArrives, DataTypes
<1>5. HistoryOK(h)
  BY DEF IpcInv, BooksOK
<1>6. Tells(c.pend, c'.pend)
  BY <1>1, <1>5, LostTells
<1>7. Datagrams(out') \subseteq Datagrams(out)
  BY <1>1 DEF Datagrams
<1>8. f.type = "HELLO" => f.corr \in 0 .. g.corrCtr \cup {1}
  BY <1>3
<1> QED BY <1>1, <1>2, <1>4, <1>6, <1>7, <1>8, SdkSessionKind

\* An edit of the session: it waits for nothing new but N and remembers no answer but A.
Edited(t, N, A) ==
  /\ t \in SessionState /\ t.up = c.up /\ t.epoch = c.epoch
  /\ c.corrCtr <= t.corrCtr /\ t.rasm = c.rasm
  /\ \A p \in t.pend :
       \/ \E o \in c.pend : o.ch = p.ch /\ o.corr = p.corr /\ o.body = p.body
       \/ Call(c.epoch, p) \in N
  /\ \A d \in t.dedup : d.state = "cached" => d \in c.dedup \/ Call(d.epoch, d) \in A
  /\ c.up \/ N = {}

\* A message the edited session accounts for.
MaySend(t, type, flag, ch, corr, b, N, A) ==
  /\ type \in DataTypes /\ flag \in Flags /\ ch \in Chans /\ corr \in Word /\ b \in Bodies
  /\ type # "MSG" => Size[b] = 1
  /\ type = "MSG" => t.corrCtr < U32 - 1
  /\ LET x == [epoch |-> t.epoch, ch |-> ch, corr |-> corr, body |-> b]
     IN  /\ type = "REQ" => x \in TurnAsking(Step(t)) \cup N
         /\ type = "RESP" /\ flag \notin Errors => x \in TurnAnswers(Step(t)) \cup A

\* A section that edits the session and then sends one message (finish, request,
\* runTimers).
LEMMA EditThenSend ==
  ASSUME IpcInv, CallInv, NEW N, NEW A, NEW t, Edited(t, N, A),
         NEW type, NEW flag, NEW ch, NEW corr, NEW b,
         MaySend(t, type, flag, ch, corr, b, N, A),
         Do(SdkSend(Step(t), type, flag, ch, corr, b))
  PROVE  /\ TurnCalls(Step(c), SdkSend(Step(t), type, flag, ch, corr, b), N, A)
         /\ SdkStep(N, A) /\ SdkStays /\ c'.dedup = t.dedup
         /\ (type # "MSG" => c'.corrCtr = t.corrCtr)
<1> USE DEF Edited, MaySend
<1> DEFINE k == Step(t)
           r == SdkSend(k, type, flag, ch, corr, b)
<1>1. CompanionTypeOK /\ c \in SessionState
  BY DEF IpcInv, CompanionSound, CompanionTypeOK
<1>2. /\ Step(c) \in Turn /\ Step(c).s = c /\ Step(c).sent = toGuest
      /\ k \in Turn /\ k.s = t /\ k.sent = toGuest
  BY <1>1, StepTurn
<1>3. Do(r)
  OBVIOUS
<1>4. TurnCalls(Step(c), k, N, A)
  <2> HIDE DEF k
  <2>1. k.s.up = Step(c).s.up /\ k.s.epoch = Step(c).s.epoch /\ Step(c).s.corrCtr <= k.s.corrCtr
    BY <1>2
  <2>2. \A f \in Datagrams(k.sent) :
          f \in Datagrams(Step(c).sent) \/ f.type \notin DataTypes \cup {"HELLO_ACK"}
    BY <1>2
  <2>3. PlainRead(Step(c).s.rasm) => PlainRead(k.s.rasm)
    BY <1>2
  <2>4. \A p \in k.s.pend :
          \/ \E o \in Step(c).s.pend : o.ch = p.ch /\ o.corr = p.corr /\ o.body = p.body
          \/ Call(Step(c).s.epoch, p) \in N
    BY <1>2
  <2>5. \A d \in k.s.dedup : d.state = "cached" => d \in Step(c).s.dedup \/ Call(d.epoch, d) \in A
    BY <1>2
  <2> QED BY <2>1, <2>2, <2>3, <2>4, <2>5, TurnEdit
<1>5. /\ r \in Turn /\ TurnCalls(k, r, N, A)
      /\ r.s.pend = k.s.pend /\ r.s.dedup = k.s.dedup
      /\ (type # "MSG" => r.s.corrCtr = k.s.corrCtr)
  <2>1. LET x == [epoch |-> k.s.epoch, ch |-> ch, corr |-> corr, body |-> b]
        IN  /\ type = "REQ" => x \in TurnAsking(k) \cup N
            /\ type = "RESP" /\ flag \notin Errors => x \in TurnAnswers(k) \cup A
    BY <1>2
  <2>2. corr = 0 /\ Size[b] > 1 => k.s.corrCtr < U32 - 1
    BY <1>2
  <2> HIDE DEF k
  <2>3. LET q == SdkSend(k, type, flag, ch, corr, b)
        IN  /\ q \in Turn /\ TurnCalls(k, q, N, A)
            /\ q.s.pend = k.s.pend /\ q.s.dedup = k.s.dedup /\ q.s.rasm = k.s.rasm
            /\ q.s.up = k.s.up /\ q.s.epoch = k.s.epoch
            /\ (type # "MSG" => q.s.corrCtr = k.s.corrCtr)
    BY <1>2, <2>1, <2>2, TurnSend
  <2> QED BY <2>3
<1> HIDE DEF k
<1>6. TurnCalls(Step(c), r, N, A)
  <2> HIDE DEF r
  <2> QED BY <1>2, <1>4, <1>5, TurnCallsTwice
<1>7. SdkStep(N, A) /\ SdkStays
  <2> HIDE DEF r
  <2> QED BY <1>3, <1>6, TurnSdkStep
<1>8. c' = r.s
  BY <1>3 DEF Do
<1> QED BY <1>2, <1>5, <1>6, <1>7, <1>8 DEF k

\* A handler that returns has executed its request, once (finish, the cached
\* answer).
LEMMA ReturnKind ==
  ASSUME IpcInv, CallInv, \A r \in Reqs : Size[r] = 1,
         g' = g, Datagrams(out') \subseteq Datagrams(out),
         NEW r \in running, HandlerReturns(r), h' = Ran(h, r.body)
  PROVE  SdkKind
<1> DEFINE entry == [epoch |-> c.epoch, ch |-> r.ch, corr |-> r.corr,
                     state |-> IF r.body \in SdkCacheable THEN "cached" ELSE "gone",
                     body |-> IF r.body \in SdkCacheable THEN r.body ELSE NoBody]
           kept == {d \in c.dedup : ~AnswerKey(d, r)}
           n == kept \cup {entry}
           t == [c EXCEPT !.dedup = n]
           x == Call(c.epoch, r)
<1>1. /\ CompanionTypeOK /\ c \in SessionState /\ c.epoch \in Epochs /\ c.corrCtr \in Int
      /\ r \in Invocation /\ HistoryOK(h) /\ HistoryTyped
  BY DEF IpcInv, CompanionSound, CompanionTypeOK, SessionState, BooksOK, CallInv, Word
<1>2. running' = running \ {r} /\ Do(SdkSend(Step(t), "RESP", "none", r.ch, r.corr, r.body))
  BY DEF HandlerReturns
<1>3. r.ch \in Chans /\ r.corr \in Word /\ r.body \in Bodies
  BY <1>1 DEF Invocation
<1>4. r.body \in Reqs /\ Size[r.body] = 1
  BY WhoseRequests DEF CallInv
<1>5. entry \in SdkDedup
  BY <1>1, <1>3, WireAssumption, FkIpcAssumption DEF SdkDedup
<1>6. entry.epoch = c.epoch /\ entry.ch = r.ch /\ entry.corr = r.corr
  OBVIOUS
<1>7. entry.state = "cached" => Call(entry.epoch, entry) = x
  BY DEF Call
<1> HIDE DEF entry
<1>8. n \subseteq SdkDedup /\ \A d \in n : d.state = "cached" => d \in c.dedup \/ Call(d.epoch, d) \in {x}
  BY <1>1, <1>5, <1>7 DEF SessionState
<1>9. \A d \in c.dedup : d \in n \/ (d.epoch = c.epoch /\ d.ch = entry.ch /\ d.corr = entry.corr)
  BY <1>6 DEF AnswerKey
<1>10. entry \in n
  OBVIOUS
<1>11. x = [epoch |-> c.epoch, ch |-> r.ch, corr |-> r.corr, body |-> r.body]
  BY DEF Call
<1> HIDE DEF n, x
<1>12. /\ t \in SessionState /\ t.up = c.up /\ t.epoch = c.epoch /\ t.corrCtr = c.corrCtr
       /\ t.rasm = c.rasm /\ t.pend = c.pend /\ t.dedup = n
  BY <1>1, <1>8 DEF SessionState
<1> HIDE DEF t
<1>13. SdkStep({}, {x}) /\ SdkStays /\ c'.dedup = n
  <2>1. Edited(t, {}, {x})
    BY <1>1, <1>8, <1>12 DEF Edited
  <2>2. MaySend(t, "RESP", "none", r.ch, r.corr, r.body, {}, {x})
    BY <1>3, <1>4, <1>11, <1>12 DEF MaySend, DataTypes, Flags
  <2>3. /\ TurnCalls(Step(c), SdkSend(Step(t), "RESP", "none", r.ch, r.corr, r.body), {}, {x})
        /\ SdkStep({}, {x}) /\ SdkStays /\ c'.dedup = t.dedup
        /\ ("RESP" # "MSG" => c'.corrCtr = t.corrCtr)
    BY <1>2, <2>1, <2>2, EditThenSend
  <2> QED BY <1>12, <2>3
<1>14. SdkRemembers
  BY <1>6, <1>9, <1>10, <1>13 DEF SdkRemembers, SdkKnows, SdkStays
<1>15. ~(h.ran[r.body] > 0) \/ r.body \in lapsed
  BY DEF CallInv, Executed
<1>16. Executes(r.body)
  BY <1>1, <1>4, <1>15, RanExecutes
<1>17. SdkFinishes
  BY <1>2, <1>13, <1>14, <1>16 DEF SdkFinishes, x
<1> QED BY <1>17 DEF SdkKind

\* A handler that fails has executed nothing, and is forgotten with it (onReq's
\* error path).
LEMMA FailKind ==
  ASSUME IpcInv, CallInv, g' = g, Datagrams(out') \subseteq Datagrams(out),
         NEW r \in running, HandlerFails(r), h' = h, lapsed' = lapsed
  PROVE  SdkKind
<1> DEFINE n == {d \in c.dedup : ~AnswerKey(d, r)}
           t == [c EXCEPT !.dedup = n]
           q == SdkSend(Step(t), "RESP", "APP", r.ch, r.corr, NoBody)
           x == Call(r.epoch, r)
<1>1. /\ CompanionTypeOK /\ c \in SessionState /\ c.epoch \in Epochs /\ c.corrCtr \in Int
      /\ r \in Invocation /\ HistoryTyped
  BY DEF IpcInv, CompanionSound, CompanionTypeOK, SessionState, CallInv, Word
<1>2. running' = running \ {r} /\ Do(q)
  BY DEF HandlerFails
<1>3. r.ch \in Chans /\ r.corr \in Word
  BY <1>1 DEF Invocation
<1>4. n \subseteq c.dedup /\ n \subseteq SdkDedup
  BY <1>1 DEF SessionState
<1>5. \A d \in c.dedup : d \in n \/ (d.ch = r.ch /\ d.corr = r.corr)
  BY DEF AnswerKey
<1> HIDE DEF n
<1>6. /\ t \in SessionState /\ t.up = c.up /\ t.epoch = c.epoch /\ t.corrCtr = c.corrCtr
      /\ t.rasm = c.rasm /\ t.pend = c.pend /\ t.dedup = n
  BY <1>1, <1>4 DEF SessionState
<1> HIDE DEF t
<1>7. TurnCalls(Step(c), q, {}, {}) /\ SdkStays /\ c'.dedup = n
  <2>1. Edited(t, {}, {})
    BY <1>1, <1>4, <1>6 DEF Edited
  <2>2. MaySend(t, "RESP", "APP", r.ch, r.corr, NoBody, {}, {})
    BY <1>3, WireAssumption DEF MaySend, DataTypes, Flags, Errors
  <2>3. /\ TurnCalls(Step(c), SdkSend(Step(t), "RESP", "APP", r.ch, r.corr, NoBody), {}, {})
        /\ SdkStep({}, {}) /\ SdkStays /\ c'.dedup = t.dedup
        /\ ("RESP" # "MSG" => c'.corrCtr = t.corrCtr)
    BY <1>2, <2>1, <2>2, EditThenSend
  <2> QED BY <1>6, <2>3
<1> HIDE DEF q
<1>8. SdkRemembers
  <2> SUFFICES ASSUME NEW y \in GuestAsking, y.epoch = c.epoch, NEW d \in c.dedup,
                      d.epoch = c.epoch, d.ch = y.ch, d.corr = y.corr, Started(y.body)',
                      y.body \notin lapsed
               PROVE  d \in n
    BY <1>7 DEF SdkRemembers, SdkKnows, SdkStays
  <2>1. ASSUME y.ch = r.ch, y.corr = r.corr PROVE FALSE
    <3>1. x \in Running /\ x.corr = r.corr /\ x.body = r.body
      BY DEF Running, Calls, Call
    <3>2. y.body = r.body
      BY <2>1, <3>1 DEF CallInv, GuestIds, SameCall
    <3>3. h.ran[y.body] = 0
      BY <3>2 DEF CallInv, Executed
    <3>4. PICK s \in running : s.body = r.body /\ s # r
      BY <1>2, <3>2, <3>3 DEF Started
    <3>5. r.body \notin lapsed
      BY <3>2
    <3> QED BY <3>4, <3>5 DEF CallInv, Executed, Distinct
  <2> QED BY <1>5, <2>1
<1>9. Tells(c.pend, c'.pend)
  BY <1>1, NothingTold
<1> QED BY <1>2, <1>7, <1>8, <1>9, TurnKind

\* Whatever a handler comes to (finish).
LEMMA HandlerKind ==
  ASSUME IpcInv, CallInv, \A r \in Reqs : Size[r] = 1, HandlerEnds
  PROVE  SdkKind
<1>1. g' = g /\ Datagrams(out') \subseteq Datagrams(out) /\ lapsed' = lapsed
  BY DEF HandlerEnds, Datagrams
<1>2. PICK r \in running : \/ HandlerReturns(r) /\ h' = Ran(h, r.body)
                           \/ HandlerFails(r) /\ h' = h
  BY DEF HandlerEnds
<1> QED BY <1>1, <1>2, ReturnKind, FailKind

\* An application's message at the companion (Send, Snapshot, RequestResync).
LEMMA SdkSaysKind ==
  ASSUME IpcInv, CallInv, IdsLast, SdkSays
  PROVE  SdkKind
<1>1. /\ g' = g /\ out' = out /\ running' = running
      /\ h'.asked = h.asked /\ h'.ran = h.ran /\ h'.told = h.told
  <2>1. HistoryOK(h)
    BY DEF IpcInv, BooksOK
  <2>2. h' = h \/ h' = [h EXCEPT !.said.sdk = @ + 1]
    BY DEF SdkSays
  <2>3. \E n : [h EXCEPT !.said.sdk = @ + 1] = [h EXCEPT !.said = n]
    BY <2>1 DEF HistoryOK
  <2> QED BY <2>1, <2>2, <2>3 DEF SdkSays, HistoryOK
<1>2. \E ch \in Chans, type \in {"MSG", "RESYNC"}, flag \in {"none", "snapshot"}, b \in Bodies :
        (type # "MSG" => b = NoBody) /\ Do(SdkSend(Step(c), type, flag, ch, 0, b))
  <2>1. PICK ch \in Chans :
          \/ /\ h.said.sdk < SdkMsgs
             /\ \/ \E flag \in {"none", "snapshot"} : SdkAppSend(ch, flag, h.said.sdk + 1)
                \/ SdkAppResync(ch)
          \/ SdkAppSend(ch, "snapshot", h.said.sdk)
    BY DEF SdkSays
  <2>2. h.said.sdk \in 0 .. SdkMsgs /\ SdkMsgs \in Nat
    BY FkIpcAssumption DEF IpcInv, BooksOK, HistoryOK
  <2>3. h.said.sdk \in Bodies /\ (h.said.sdk < SdkMsgs => h.said.sdk + 1 \in Bodies)
    <3>1. h.said.sdk < SdkMsgs => h.said.sdk + 1 \in 0 .. SdkMsgs
      BY <2>2
    <3> QED BY <2>2, <3>1, FkIpcAssumption
  <2>4. NoBody \in Bodies
    BY WireAssumption
  <2> QED BY <2>1, <2>3, <2>4 DEF SdkAppSend, SdkAppResync
<1>3. PICK ch \in Chans, type \in {"MSG", "RESYNC"}, flag \in {"none", "snapshot"}, b \in Bodies :
        (type # "MSG" => b = NoBody) /\ Do(SdkSend(Step(c), type, flag, ch, 0, b))
  BY <1>2
<1>4. /\ c \in SessionState /\ c.corrCtr \in Int /\ c.corrCtr <= c.corrCtr
      /\ type \in DataTypes /\ flag \in Flags /\ 0 \in Word /\ (type # "MSG" => Size[b] = 1)
      /\ type \notin {"REQ", "RESP"} /\ c.corrCtr < U32 - 1
  BY <1>3, WireAssumption
     DEF IpcInv, CompanionSound, CompanionTypeOK, SessionState, Word, DataTypes, Flags, IdsLast
<1> DEFINE q == SdkSend(Step(c), type, flag, ch, 0, b)
<1>5. TurnCalls(Step(c), q, {}, {}) /\ c'.dedup = c.dedup
  <2>1. Edited(c, {}, {})
    BY <1>4 DEF Edited
  <2>2. MaySend(c, type, flag, ch, 0, b, {}, {})
    BY <1>4 DEF MaySend
  <2>3. /\ TurnCalls(Step(c), SdkSend(Step(c), type, flag, ch, 0, b), {}, {})
        /\ SdkStep({}, {}) /\ SdkStays /\ c'.dedup = c.dedup
        /\ (type # "MSG" => c'.corrCtr = c.corrCtr)
    BY <1>3, <2>1, <2>2, EditThenSend
  <2> QED BY <2>3
<1>6. Do(q)
  BY <1>3
<1> HIDE DEF q
<1>7. Tells(c.pend, c'.pend)
  BY <1>1, NothingTold DEF CallInv
<1>8. Datagrams(out') \subseteq Datagrams(out)
  BY <1>1 DEF Datagrams
<1> QED BY <1>1, <1>5, <1>6, <1>7, <1>8, TurnKind

\* A Request at the companion is a new one, under an id of its own (request).
LEMMA AskedKind ==
  ASSUME IpcInv, CallInv, IdsLast, \A r \in Reqs : Size[r] = 1,
         g' = g, Datagrams(out') \subseteq Datagrams(out),
         NEW ch \in Chans, NEW b \in SdkReqs \ h.asked, Sendable, Asked(ch, b),
         h' = [h EXCEPT !.asked = @ \cup {b}], Running' \subseteq Running, Distinct(running')
  PROVE  SdkKind
<1> DEFINE corr == NextCorr(c.corrCtr)
           p == [ch |-> ch, corr |-> corr, body |-> b, tries |-> 0]
           n == c.pend \cup {p}
           t == [c EXCEPT !.corrCtr = corr, !.pend = n]
           x == [epoch |-> c.epoch, ch |-> ch, corr |-> corr, body |-> b]
<1>1. /\ CompanionTypeOK /\ c \in SessionState /\ c.corrCtr \in Word /\ c.corrCtr \in Int
      /\ HistoryOK(h) /\ c.up
  BY DEF IpcInv, CompanionSound, CompanionTypeOK, SessionState, BooksOK, Word, Sendable
<1>2. b \in Bodies /\ b \in Reqs /\ Size[b] = 1
  BY FkIpcAssumption DEF Reqs
<1>3. corr \in Word /\ corr = c.corrCtr + 1
  BY <1>1, MintedNext, MintedCorr DEF IdsLast
<1>4. Do(SdkSend(Step(t), "REQ", "none", ch, corr, b))
  BY DEF Asked
<1> HIDE DEF corr
<1>5. n \subseteq SdkPending
  BY <1>1, <1>2, <1>3 DEF SessionState, SdkPending
<1>6. Call(c.epoch, p) = x /\ p \in n
  BY DEF Call
<1>7. \A o \in n : o \in c.pend \/ Call(c.epoch, o) \in {x}
  BY <1>6
<1> HIDE DEF n, p
<1>8. /\ t \in SessionState /\ t.up = c.up /\ t.epoch = c.epoch /\ t.corrCtr = corr
      /\ t.rasm = c.rasm /\ t.pend = n /\ t.dedup = c.dedup
  BY <1>1, <1>3, <1>5 DEF SessionState
<1> HIDE DEF t
<1>9. SdkStep({x}, {}) /\ SdkStays /\ c'.dedup = c.dedup /\ c'.corrCtr = corr
  <2>1. Edited(t, {x}, {})
    BY <1>1, <1>3, <1>7, <1>8 DEF Edited
  <2>2. MaySend(t, "REQ", "none", ch, corr, b, {x}, {})
    BY <1>2, <1>3, <1>8 DEF MaySend, DataTypes, Flags
  <2>3. /\ TurnCalls(Step(c), SdkSend(Step(t), "REQ", "none", ch, corr, b), {x}, {})
        /\ SdkStep({x}, {}) /\ SdkStays /\ c'.dedup = t.dedup
        /\ ("REQ" # "MSG" => c'.corrCtr = t.corrCtr)
    <3> HIDE DEF x
    <3> QED BY <1>4, <2>1, <2>2, EditThenSend
  <2> QED BY <1>8, <2>3
<1>10. Asks(b)
  BY <1>1 DEF Asks, HistoryOK
<1>11. SdkAsksNew
  BY <1>1, <1>3, <1>9, <1>10 DEF SdkAsksNew
<1> QED BY <1>11 DEF SdkKind

\* It may be a handler that issues it (Request within Handle).
LEMMA SdkAsksKind ==
  ASSUME IpcInv, CallInv, IdsLast, \A r \in Reqs : Size[r] = 1, SdkAsks \/ HandlerAsks
  PROVE  SdkKind
<1>1. g' = g /\ Datagrams(out') \subseteq Datagrams(out)
  BY DEF SdkAsks, HandlerAsks, Datagrams
<1>2. CASE SdkAsks
  <2>1. PICK ch \in Chans, b \in SdkReqs \ h.asked :
          SdkAppRequest(ch, b) /\ h' = [h EXCEPT !.asked = @ \cup {b}]
    BY <1>2 DEF SdkAsks
  <2>2. Running' \subseteq Running /\ Distinct(running')
    BY <1>2 DEF SdkAsks, Running, CallInv, Executed, Distinct
  <2> QED BY <1>1, <2>1, <2>2, AskedKind DEF SdkAppRequest
<1>3. CASE HandlerAsks
  <2>1. PICK r \in running, ch \in Chans, b \in SdkReqs \ h.asked :
          HandlerRequests(r, ch, b) /\ h' = [h EXCEPT !.asked = @ \cup {b}]
    BY <1>3 DEF HandlerAsks
  <2> DEFINE n == [r EXCEPT !.awaits = NextCorr(c.corrCtr)]
  <2>2. running' = (running \ {r}) \cup {n}
    BY <2>1 DEF HandlerRequests
  <2>3. r \in Invocation
    BY DEF IpcInv, CompanionSound, CompanionTypeOK
  <2>4. n.epoch = r.epoch /\ n.ch = r.ch /\ n.corr = r.corr /\ n.body = r.body
    BY <2>3 DEF Invocation
  <2>5. Call(n.epoch, n) = Call(r.epoch, r)
    BY <2>4 DEF Call
  <2> HIDE DEF n
  <2>6. Running' \subseteq Running
    BY <2>2, <2>5 DEF Running, Calls
  <2>7. Distinct(running')
    BY <2>2, <2>4 DEF CallInv, Executed, Distinct
  <2> QED BY <1>1, <2>1, <2>6, <2>7, AskedKind DEF HandlerRequests
<1> QED BY <1>2, <1>3

\* Whoever waits at the companion is told the same, whoever it is (runTimers,
\* Close).
LEMMA SameTells ==
  ASSUME HistoryOK(h), NEW P, NEW Q, NEW u \in Rpc!Unknown,
         h' = Settled(h, P, Q, LAMBDA r : u)
  PROVE  Tells(P, Q)
<1> DEFINE o == [r \in Reqs |-> u]
<1>1. h' = Told(P, Q, o)
  BY DEF Settled, Told, PendBodies
<1>2. \A r \in Reqs : o[r] = u
  OBVIOUS
<1> HIDE DEF o
<1>3. u # "answer"
  BY DEF Rpc!Unknown
<1> QED BY <1>1, <1>2, <1>3, ToldTells

\* A timer that edits the session and sends nothing (runTimers).
LEMMA EditKind ==
  ASSUME IpcInv, CallInv, g' = g, Datagrams(out') \subseteq Datagrams(out),
         NEW t \in SessionState, t.up = c.up, t.epoch = c.epoch, t.corrCtr = c.corrCtr,
         t.pend \subseteq c.pend, t.dedup \subseteq c.dedup,
         \A ch \in Chans : t.rasm[ch] = c.rasm[ch] \/ t.rasm[ch] = Closed,
         c' = t, running' = running, toGuest' = toGuest,
         SdkRemembers \/ t.dedup = c.dedup, Tells(c.pend, c'.pend)
  PROVE  SdkKind
<1> DEFINE k == Step(t)
<1>1. CompanionTypeOK /\ c \in SessionState /\ c.corrCtr \in Int
  BY DEF IpcInv, CompanionSound, CompanionTypeOK, SessionState, Word
<1>2. /\ Step(c).s = c /\ Step(c).sent = toGuest /\ k.s = t /\ k.sent = toGuest
  BY <1>1, StepTurn
<1>3. Do(k)
  BY <1>2 DEF Do
<1> HIDE DEF k
<1>4. k.s.up = Step(c).s.up /\ k.s.epoch = Step(c).s.epoch /\ Step(c).s.corrCtr <= k.s.corrCtr
  BY <1>1, <1>2
<1>5. PlainRead(Step(c).s.rasm) => PlainRead(k.s.rasm)
  <2>1. ~Closed.open
    BY DEF Closed
  <2> QED BY <1>2, <2>1 DEF PlainRead
<1>6. TurnCalls(Step(c), k, {}, {})
  BY <1>2, <1>4, <1>5, TurnEdit
<1>7. SdkRemembers \/ c.dedup \subseteq c'.dedup
  OBVIOUS
<1> QED BY <1>3, <1>6, <1>7, TurnKind

\* The companion's heartbeat (runTimers).
LEMMA BeatKind ==
  ASSUME IpcInv, CallInv, g' = g, Datagrams(out') \subseteq Datagrams(out),
         h' = h, BeatTimer
  PROVE  SdkKind
<1> DEFINE f == [type |-> "HEARTBEAT", epoch |-> c.epoch, tick |-> 0]
           r == Raw(Step(c), f)
<1>1. CompanionTypeOK /\ c \in SessionState /\ c.epoch \in Epochs
  BY DEF IpcInv, CompanionSound, CompanionTypeOK, SessionState
<1>2. Step(c) \in Turn /\ Step(c).s = c
  BY <1>1, StepTurn
<1>3. f \in ByeFrame \cup BeatFrame
  BY <1>1, WireAssumption DEF BeatFrame, Word
<1>4. Do(r) /\ running' = running
  BY DEF BeatTimer
<1> HIDE DEF f
<1>5. TurnCalls(Step(c), r, {}, {}) /\ r.s = c
  BY <1>2, <1>3, RawCalls
<1> HIDE DEF r
<1>6. c.dedup \subseteq c'.dedup
  BY <1>4, <1>5 DEF Do
<1>7. Tells(c.pend, c'.pend)
  BY NothingTold DEF CallInv
<1> QED BY <1>4, <1>5, <1>6, <1>7, TurnKind

\* What the companion forgets of its answers and may be asked again has lapsed
\* (runTimers, DedupWindow).
LEMMA ForgetKind ==
  ASSUME IpcInv, CallInv, g' = g, Datagrams(out') \subseteq Datagrams(out), h' = h,
         NEW d \in c.dedup, DedupTimer(d), lapsed' = lapsed \cup Forgotten({d}, GuestAsking)
  PROVE  SdkKind
<1> DEFINE t == [c EXCEPT !.dedup = c.dedup \ {d}]
<1>1. c \in SessionState
  BY DEF IpcInv, CompanionSound, CompanionTypeOK
<1>2. c' = t /\ running' = running /\ toGuest' = toGuest
  BY DEF DedupTimer, TimerIdle
<1>3. c.dedup \ {d} \subseteq SdkDedup
  BY <1>1 DEF SessionState
<1>4. /\ t \in SessionState /\ t.up = c.up /\ t.epoch = c.epoch /\ t.corrCtr = c.corrCtr
      /\ t.pend = c.pend /\ t.rasm = c.rasm /\ t.dedup = c.dedup \ {d}
  BY <1>1, <1>3 DEF SessionState
<1> HIDE DEF t
<1>5. ASSUME NEW y \in GuestAsking, y.epoch = d.epoch, y.ch = d.ch, y.corr = d.corr
      PROVE  y.body \in lapsed'
  BY <1>5 DEF Forgotten
<1>6. SdkRemembers
  BY <1>2, <1>4, <1>5 DEF SdkRemembers, SdkKnows
<1>7. Tells(c.pend, c'.pend)
  BY NothingTold DEF CallInv
<1> QED BY <1>2, <1>4, <1>6, <1>7, EditKind

\* The companion's timers (runTimers).
LEMMA TimersKind ==
  ASSUME IpcInv, CallInv, SdkTimers
  PROVE  SdkKind
<1>1. /\ g' = g /\ Datagrams(out') \subseteq Datagrams(out)
      /\ c \in SessionState /\ HistoryOK(h) /\ HistoryTyped
  BY DEF SdkTimers, Datagrams, IpcInv, CompanionSound, CompanionTypeOK, BooksOK, CallInv
<1>2. CASE QuietTimer /\ h' = h
  <2> DEFINE t == [c EXCEPT !.quiet = TRUE]
  <2>1. c' = t /\ running' = running /\ toGuest' = toGuest
    BY <1>2 DEF QuietTimer, TimerIdle
  <2>2. /\ t \in SessionState /\ t.up = c.up /\ t.epoch = c.epoch /\ t.corrCtr = c.corrCtr
        /\ t.pend = c.pend /\ t.rasm = c.rasm /\ t.dedup = c.dedup
    BY <1>1 DEF SessionState
  <2> HIDE DEF t
  <2>3. Tells(c.pend, c'.pend)
    BY <1>1, <1>2, NothingTold
  <2> QED BY <1>1, <2>1, <2>2, <2>3, EditKind
<1>3. CASE PeerTimer /\ h' = Settled(h, c.pend, c'.pend, Lost)
  <2>1. c.up /\ c' = Down(c) /\ running' = running /\ toGuest' = toGuest
    BY <1>3 DEF PeerTimer, TimerIdle
  <2>2. /\ ~c'.up /\ c'.pend = {} /\ c'.dedup = {} /\ \A ch \in Chans : ~c'.rasm[ch].open
    <3>1. LET t == Down(c)
          IN  ~t.up /\ t.pend = {} /\ t.dedup = {} /\ \A ch \in Chans : ~t.rasm[ch].open
      BY <1>1, <2>1, ClearedCalls
    <3> QED BY <2>1, <3>1
  <2>3. Tells(c.pend, c'.pend)
    BY <1>1, <1>3, LostTells
  <2>4. Datagrams(toGuest') = Datagrams(toGuest)
    BY <2>1 DEF Datagrams
  <2> QED BY <1>1, <2>1, <2>2, <2>3, <2>4, SdkLeavesKind
<1>4. ASSUME NEW ch \in Chans, ReassemblyTimer(ch), h' = h
      PROVE  SdkKind
  <2> DEFINE n == [c.rasm EXCEPT ![ch] = Closed]
             t == [c EXCEPT !.rasm = n]
  <2>1. c' = t /\ running' = running /\ toGuest' = toGuest
    BY <1>4 DEF ReassemblyTimer, TimerIdle
  <2>2. n \in [Chans -> Reassembly] /\ \A e \in Chans : n[e] = c.rasm[e] \/ n[e] = Closed
    <3>1. Closed \in Reassembly
      BY WireAssumption DEF Closed, Reassembly, DataTypes, Flags, Word
    <3>2. c.rasm \in [Chans -> Reassembly]
      BY <1>1 DEF SessionState
    <3> HIDE DEF n
    <3>3. n = [c.rasm EXCEPT ![ch] = Closed]
      BY DEF n
    <3> QED BY <3>1, <3>2, <3>3
  <2> HIDE DEF n
  <2>3. /\ t \in SessionState /\ t.up = c.up /\ t.epoch = c.epoch /\ t.corrCtr = c.corrCtr
        /\ t.pend = c.pend /\ t.rasm = n /\ t.dedup = c.dedup
    BY <1>1, <2>2 DEF SessionState
  <2> HIDE DEF t
  <2>4. Tells(c.pend, c'.pend)
    BY <1>1, <1>4, NothingTold
  <2> QED BY <1>1, <2>1, <2>2, <2>3, <2>4, EditKind
<1>5. CASE DedupExpires
  BY <1>1, <1>5, ForgetKind DEF DedupExpires
<1>6. CASE BeatTimer /\ h' = h
  BY <1>1, <1>6, BeatKind
<1>7. CASE ByeWindow /\ h' = h
  <2> DEFINE t == [c EXCEPT !.byeAllowed = TRUE]
  <2>1. c' = t /\ running' = running /\ toGuest' = toGuest
    BY <1>7 DEF ByeWindow, TimerIdle
  <2>2. /\ t \in SessionState /\ t.up = c.up /\ t.epoch = c.epoch /\ t.corrCtr = c.corrCtr
        /\ t.pend = c.pend /\ t.rasm = c.rasm /\ t.dedup = c.dedup
    BY <1>1 DEF SessionState
  <2> HIDE DEF t
  <2>3. Tells(c.pend, c'.pend)
    BY <1>1, <1>7, NothingTold
  <2> QED BY <1>1, <2>1, <2>2, <2>3, EditKind
<1> QED BY <1>2, <1>3, <1>4, <1>5, <1>6, <1>7 DEF SdkTimers

\* A turn of timerLoop that reads nothing and may send a heartbeat.
LEMMA RoundKind ==
  ASSUME IpcInv, CallInv, TimerRound
  PROVE  SdkKind
<1>1. /\ g' = g /\ Datagrams(out') \subseteq Datagrams(out) /\ h' = h
      /\ c \in SessionState /\ HistoryTyped
  BY DEF TimerRound, Datagrams, IpcInv, CompanionSound, CompanionTypeOK, CallInv
<1>2. CASE BeatTimer
  BY <1>1, <1>2, BeatKind
<1>3. CASE UNCHANGED <<c, running, toGuest>>
  <2>1. Tells(c.pend, c'.pend)
    BY <1>1, NothingTold
  <2> QED BY <1>1, <1>3, <2>1, EditKind
<1> QED BY <1>2, <1>3 DEF TimerRound

\* A retry repeats what was asked, and the last one is told so (runTimers).
LEMMA SdkRetryKind ==
  ASSUME IpcInv, CallInv, \A r \in Reqs : Size[r] = 1, SdkRetries
  PROVE  SdkKind
<1>1. /\ g' = g /\ Datagrams(out') \subseteq Datagrams(out) /\ c \in SessionState
      /\ c.corrCtr \in Int /\ HistoryOK(h) /\ HistoryTyped
  <2>1. g' = g /\ out' = out
    BY DEF SdkRetries
  <2>2. c \in SessionState /\ HistoryOK(h) /\ HistoryTyped
    BY DEF IpcInv, CompanionSound, CompanionTypeOK, BooksOK, CallInv
  <2> QED BY <2>1, <2>2 DEF Datagrams, SessionState, Word
<1>2. ASSUME NEW p \in c.pend, SdkResend(p), h' = h
      PROVE  SdkKind
  <2> DEFINE o == [p EXCEPT !.tries = @ + 1]
             n == (c.pend \ {p}) \cup {o}
             t == [c EXCEPT !.pend = n]
             q == SdkSend(Step(t), "REQ", "none", p.ch, p.corr, p.body)
             x == Call(c.epoch, p)
  <2>1. Do(q) /\ running' = running
    BY <1>2 DEF SdkResend
  <2>2. p \in SdkPending
    BY <1>1 DEF SessionState
  <2>3. o \in SdkPending /\ o.ch = p.ch /\ o.corr = p.corr /\ o.body = p.body
    BY <2>2 DEF SdkPending
  <2>4. p.ch \in Chans /\ p.corr \in Word /\ p.body \in Bodies /\ Size[p.body] = 1
    BY <2>2, WhoseRequests DEF SdkPending, CallInv
  <2> HIDE DEF o
  <2>5. n \subseteq SdkPending /\ o \in n
    BY <1>1, <2>3 DEF SessionState
  <2>6. \A e \in n : \E s \in c.pend : s.ch = e.ch /\ s.corr = e.corr /\ s.body = e.body
    BY <2>3
  <2> HIDE DEF n
  <2>7. /\ t \in SessionState /\ t.up = c.up /\ t.epoch = c.epoch /\ t.corrCtr = c.corrCtr
        /\ t.pend = n /\ t.rasm = c.rasm /\ t.dedup = c.dedup
    BY <1>1, <2>5 DEF SessionState
  <2> HIDE DEF t
  <2>8. x = [epoch |-> t.epoch, ch |-> p.ch, corr |-> p.corr, body |-> p.body]
    BY <2>7 DEF Call
  <2>9. x \in TurnAsking(Step(t))
    <3>1. Call(t.epoch, o) = x
      BY <2>3, <2>8 DEF Call
    <3>2. Step(t).s = t
      BY DEF Step
    <3> HIDE DEF x
    <3> QED BY <2>5, <2>7, <3>1, <3>2 DEF TurnAsking
  <2> HIDE DEF x
  <2>10. TurnCalls(Step(c), q, {}, {}) /\ c'.dedup = c.dedup
    <3>1. Edited(t, {}, {})
      BY <1>1, <2>6, <2>7 DEF Edited
    <3>2. MaySend(t, "REQ", "none", p.ch, p.corr, p.body, {}, {})
      BY <2>4, <2>8, <2>9 DEF MaySend, DataTypes, Flags
    <3>3. /\ TurnCalls(Step(c), SdkSend(Step(t), "REQ", "none", p.ch, p.corr, p.body), {}, {})
          /\ SdkStep({}, {}) /\ SdkStays /\ c'.dedup = t.dedup
          /\ ("REQ" # "MSG" => c'.corrCtr = t.corrCtr)
      BY <2>1, <3>1, <3>2, EditThenSend
    <3> QED BY <2>7, <3>3
  <2> HIDE DEF q
  <2>11. Tells(c.pend, c'.pend)
    BY <1>1, <1>2, NothingTold
  <2> QED BY <1>1, <2>1, <2>10, <2>11, TurnKind
<1>3. ASSUME NEW p \in c.pend, SdkGivesUp(p),
             h' = Settled(h, c.pend, c'.pend, LAMBDA r : "timeout")
      PROVE  SdkKind
  <2> DEFINE t == [c EXCEPT !.pend = c.pend \ {p}]
  <2>1. c' = t /\ running' = running /\ toGuest' = toGuest
    BY <1>3 DEF SdkGivesUp, TimerIdle
  <2>2. c.pend \ {p} \subseteq SdkPending
    BY <1>1 DEF SessionState
  <2>3. /\ t \in SessionState /\ t.up = c.up /\ t.epoch = c.epoch /\ t.corrCtr = c.corrCtr
        /\ t.pend = c.pend \ {p} /\ t.rasm = c.rasm /\ t.dedup = c.dedup
    BY <1>1, <2>2 DEF SessionState
  <2> HIDE DEF t
  <2>4. Tells(c.pend, c'.pend)
    BY <1>1, <1>3, SameTells DEF Rpc!Unknown
  <2> QED BY <1>1, <2>1, <2>3, <2>4, EditKind
<1> QED BY <1>2, <1>3 DEF SdkRetries

\* A companion that stops tells whoever waits, and one that starts has asked
\* nothing (Close, Dial).
LEMMA StopsKind ==
  ASSUME IpcInv, CallInv, SdkStops \/ SdkStarts
  PROVE  SdkKind
<1>1. /\ g' = g /\ Datagrams(out') \subseteq Datagrams(out) /\ HistoryOK(h) /\ HistoryTyped
      /\ CompanionTypeOK /\ c \in SessionState /\ c.epoch \in Epochs /\ toGuest \in Seq(Frame)
  <2>1. g' = g /\ out' = out
    BY DEF SdkStops, SdkStarts
  <2>2. HistoryOK(h) /\ HistoryTyped /\ CompanionTypeOK
    BY DEF IpcInv, CompanionSound, BooksOK, CallInv
  <2> QED BY <2>1, <2>2 DEF Datagrams, CompanionTypeOK, SessionState
<1>2. /\ ~NewSession.up /\ NewSession.pend = {} /\ NewSession.dedup = {}
      /\ ~Gone.up /\ Gone.pend = {} /\ Gone.dedup = {}
      /\ \A ch \in Chans : ~NewSession.rasm[ch].open /\ ~Gone.rasm[ch].open
  BY DEF NewSession, Gone, Closed
<1>3. CASE SdkStops
  <2>1. c' = Gone /\ running' = {} /\ h' = Settled(h, c.pend, c'.pend, LAMBDA r : "shut")
    BY <1>3 DEF SdkStops, Close
  <2>2. \A f \in Datagrams(toGuest') :
          f \in Datagrams(toGuest) \/ f.type \notin DataTypes \cup {"HELLO_ACK"}
    <3> DEFINE bye == [type |-> "BYE", epoch |-> c.epoch]
    <3>1. bye \in Frame /\ bye.type \notin DataTypes \cup {"HELLO_ACK"}
      BY <1>1 DEF Frame, ByeFrame, DataTypes
    <3>2. toGuest' = toGuest \/ toGuest' = Put(toGuest, bye, SdkSockBuf)
      BY <1>3 DEF SdkStops, Close
    <3> HIDE DEF bye
    <3>3. Datagrams(Put(toGuest, bye, SdkSockBuf)) \subseteq Datagrams(toGuest) \cup {bye}
      BY <1>1, <3>1, PutSound
    <3>4. Datagrams(toGuest') \subseteq Datagrams(toGuest) \cup {bye}
      BY <3>2, <3>3 DEF Datagrams
    <3> QED BY <3>1, <3>4
  <2>3. Tells(c.pend, c'.pend)
    BY <1>1, <2>1, SameTells DEF Rpc!Unknown
  <2> QED BY <1>1, <1>2, <2>1, <2>2, <2>3, SdkLeavesKind
<1>4. CASE SdkStarts
  <2>1. c' = NewSession /\ running' = running /\ toGuest' = toGuest /\ h' = h
    BY <1>4 DEF SdkStarts
  <2>2. Tells(c.pend, c'.pend)
    BY <1>1, <2>1, NothingTold
  <2>3. Datagrams(toGuest') = Datagrams(toGuest)
    BY <2>1 DEF Datagrams
  <2> QED BY <1>1, <1>2, <2>1, <2>2, <2>3, SdkLeavesKind
<1> QED BY <1>3, <1>4

-----------------------------------------------------------------------------
(* Every step is of one of the kinds. *)

\* A table that keeps its entries forgets nothing.
LEMMA KeptRemembers ==
  ASSUME lapsed' = lapsed, ~g.up \/ Datagrams(g.dedup) \subseteq Datagrams(g'.dedup)
  PROVE  GuestRemembers /\ Lapses
BY DEF GuestRemembers, GuestKnows, Lapses

\* What the guest expires or evicts and may be asked again has lapsed (expireDedup,
\* rememberReply).
LEMMA ForgetsLapse ==
  ASSUME IpcInv, lapsed' = lapsed \cup GuestForgets
  PROVE  GuestRemembers /\ Lapses
<1>1. \A d \in Datagrams(g.dedup) : d.epoch = g.epoch
  BY DEF IpcInv, GuestInv, Sound, OfSession, Datagrams
<1>2. ASSUME g.up, g'.up, g'.epoch = g.epoch, NEW x \in SdkAsking, x.epoch = g.epoch,
             GuestKnows(g, x), ~GuestKnows(g', x)
      PROVE  x.body \in lapsed'
  <2>1. PICK d \in Datagrams(g.dedup) : d.ch = x.ch /\ d.corr = x.corr
    BY <1>2 DEF GuestKnows
  <2>2. d \in Datagrams(g.dedup) \ Datagrams(g'.dedup)
    BY <1>2, <2>1 DEF GuestKnows
  <2>3. d.epoch = x.epoch
    BY <1>1, <1>2
  <2> QED BY <1>2, <2>1, <2>2, <2>3 DEF GuestForgets, Forgotten
<1>3. Lapses
  BY DEF Lapses, GuestForgets, Forgotten
<1> QED BY <1>2, <1>3 DEF GuestRemembers

\* What the guest does besides loading (Pump, Request, Send, deliver).
LEMMA GuestKinds ==
  ASSUME IpcInv, IpcInv', CallInv, IdsLast, \A r \in Reqs : Size[r] = 1,
         \/ GuestMoves \/ GuestSays \/ GuestAsks \/ OtherModAnswers
         \/ Lose \/ Duplicate \/ NobodyListens \/ UNCHANGED vars
  PROVE  GuestKind /\ GuestRemembers /\ Lapses
<1>1. CASE GuestReceives \/ PumpRuns
  <2>1. GuestRemembers /\ Lapses
    BY <1>1, ForgetsLapse DEF GuestReceives, PumpRuns
  <2> QED BY <1>1, <2>1, ReceiveKind, PumpKind
<1>2. CASE PumpStarts
  <2>1. \E tick, open : g' = [g EXCEPT !.tick = tick, !.enabled = open]
    BY <1>2 DEF PumpStarts, PumpBegin
  <2>2. g \in LinkState
    BY DEF IpcInv, GuestInv, Sound
  <2>3. g'.dedup = g.dedup
    BY <2>1, <2>2 DEF LinkState
  <2>4. GuestRemembers /\ Lapses
    BY <1>2, <2>3, KeptRemembers DEF PumpStarts
  <2> QED BY <1>2, <2>4, PumpKind
<1>3. CASE GuestSays \/ GuestAsks
  <2>1. GuestKind /\ g'.dedup = g.dedup
    BY <1>3, SaysKind, AsksKind
  <2>2. lapsed' = lapsed
    BY <1>3 DEF GuestSays, GuestAsks
  <2> QED BY <2>1, <2>2, KeptRemembers
<1>4. CASE OtherModAnswers
  <2>1. ~g.up /\ lapsed' = lapsed
    BY <1>4 DEF OtherModAnswers, IpcInv, GuestInv, Sound, DownFirst
  <2> QED BY <1>4, <2>1, OtherModKind, KeptRemembers
<1>5. CASE Lose \/ Duplicate \/ NobodyListens \/ UNCHANGED vars
  <2>1. g' = g /\ lapsed' = lapsed
    BY <1>5 DEF Lose, Duplicate, NobodyListens, vars
  <2> QED BY <1>5, <2>1, NetworkKind, KeptRemembers
<1> QED BY <1>1, <1>2, <1>3, <1>4, <1>5 DEF GuestMoves

\* What the companion does (deliver, runTimers, Request, Send, Handle, Close).
LEMMA SdkKinds ==
  ASSUME IpcInv, CallInv, IdsLast, \A r \in Reqs : Size[r] = 1,
         \/ SdkMoves \/ SdkSays \/ SdkAsks \/ HandlerAsks \/ SdkStops \/ SdkStarts \/ StrayHello
  PROVE  SdkKind /\ Lapses
<1>1. ASSUME SdkMoves PROVE SdkKind
  BY <1>1, SdkReceiveKind, HandlerKind, TimersKind, SdkRetryKind, RoundKind DEF SdkMoves
<1>2. ASSUME SdkSays PROVE SdkKind
  BY <1>2, SdkSaysKind
<1>3. ASSUME SdkAsks \/ HandlerAsks PROVE SdkKind
  BY <1>3, SdkAsksKind
<1>4. ASSUME SdkStops \/ SdkStarts PROVE SdkKind
  BY <1>4, StopsKind
<1>5. ASSUME StrayHello PROVE SdkKind
  BY <1>5, StrayKind
<1>6. Lapses
  <2>1. CASE lapsed' = lapsed
    BY <2>1 DEF Lapses
  <2>2. CASE DedupExpires
    BY <2>2 DEF DedupExpires, Forgotten, Lapses
  <2> QED BY <2>1, <2>2 DEF SdkMoves, SdkReceives, HandlerEnds, SdkTimers, SdkRetries, TimerRound,
             SdkSays, SdkAsks, HandlerAsks, SdkStops, SdkStarts, StrayHello
<1> QED BY <1>1, <1>2, <1>3, <1>4, <1>5, <1>6

\* Every step keeps the invariant and is a step of AtMostOnceRpc.
LEMMA CallNextInv ==
  ASSUME MaxLoads = 0, \A r \in Reqs : Size[r] = 1
  PROVE  IpcInv /\ IpcInv' /\ CallInv /\ IdsLast /\ [Next]_vars => CallInv' /\ Rpc!Next
<1> SUFFICES ASSUME IpcInv, IpcInv', CallInv, IdsLast, [Next]_vars
             PROVE  CallInv' /\ Rpc!Next
  OBVIOUS
<1>1. ~Save /\ ~Load
  <2>1. used.loads \in 0 .. MaxLoads
    BY DEF IpcInv, BooksOK
  <2>2. ~(used.loads < MaxLoads)
    BY <2>1
  <2> QED BY <2>2 DEF Save, Load, May
<1>2. ((GuestKind /\ GuestRemembers) \/ SdkKind) /\ Lapses
  <2>1. CASE \/ GuestMoves \/ GuestSays \/ GuestAsks \/ OtherModAnswers
             \/ Lose \/ Duplicate \/ NobodyListens \/ UNCHANGED vars
    BY <2>1, GuestKinds
  <2>2. CASE \/ SdkMoves \/ SdkSays \/ SdkAsks \/ HandlerAsks \/ SdkStops \/ SdkStarts
             \/ StrayHello
    BY <2>2, SdkKinds
  <2> QED BY <1>1, <2>1, <2>2 DEF Next
<1>3. CallInv'
  BY <1>2, GuestKindInv, SdkKindInv
<1> QED BY <1>2, <1>3, KindsRefine

\* The guest's requests and the companion's, with every loss, copy, retry, late
\* answer, expiry, restart and end of session the link has, are calls that are
\* told of once and executed at most once, or again only after the answerer's
\* entry lapsed - expired by the companion's clock, or by ticks or eviction at the
\* guest - with the request still on its way: the abstract specification is
\* implemented (serviceRetries, onReq, onResp, rememberReply, expireDedup,
\* resetSession; Request, onReq, finish, runTimers, resetLocked, Close).  A load
\* may repeat a correlation id, so there is none.
THEOREM CalledAtMostOnce ==
  ASSUME MaxLoads = 0, \A r \in Reqs : Size[r] = 1
  PROVE  Spec /\ []IdsLast => AtMostOnceCalls
<1>1. Init => CallInv /\ Rpc!Init
  BY CallInitInv
<1>2. IpcInv /\ IpcInv' /\ CallInv /\ IdsLast /\ [Next]_vars => CallInv' /\ Rpc!Next
  BY CallNextInv
<1>3. Spec => []IpcInv
  BY IpcInvariance
<1>4. Rpc!Spec <=> Rpc!Init /\ [][Rpc!Next]_(Rpc!calls)
  BY DEF Rpc!Spec
<1> QED BY <1>1, <1>2, <1>3, <1>4, PTL DEF Spec, AtMostOnceCalls

=============================================================================
