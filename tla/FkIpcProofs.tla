----------------------------- MODULE FkIpcProofs -----------------------------
(***************************************************************************)
(* What an fkipc session promises, for every value of the constants: any   *)
(* modulus, channels, payloads, timeouts and bounds on what goes wrong.    *)
(*                                                                         *)
(* The two ends are composed from what each step of an end does to its own *)
(* session (the first two parts of this module): it goes on, it ends, or a *)
(* new one begins.  The steps that go on are told apart only by the        *)
(* sequence numbers they give out and the one they hear.                   *)
(***************************************************************************)
EXTENDS FkIpc, GuestLinkProofs

-----------------------------------------------------------------------------
(* What each locked section of the companion leaves of the session, and    *)
(* what it puts on the socket.                                             *)

\* A locked section on its way: the session and what it has sent.
Turn == [s : SessionState, sent : Seq(Frame)]

\* A session has a token exactly while it is up.
Joined(s) == IF s.up THEN s.epoch \in Tokens ELSE s.epoch = 0

CompanionSound == CompanionTypeOK /\ Joined(c)

\* From k to r a section stays in its session and sends at most n frames of a channel.
GoesOn(k, r, n) ==
  /\ r \in Turn /\ r.s.up = k.s.up /\ r.s.epoch = k.s.epoch
  /\ Sends(k.s.txSeq, Datagrams(k.sent), k.s.epoch, r.s.txSeq, Datagrams(r.sent), n)
  /\ \A f \in Datagrams(r.sent) : f \in Datagrams(k.sent) \/ f.type # "HELLO_ACK"

-----------------------------------------------------------------------------
(* The parts of a section *)

\* What a socket holds after a datagram was put on it.
LEMMA PutSound ==
  ASSUME NEW sock \in Seq(Frame), NEW f \in Frame, NEW n
  PROVE  /\ Put(sock, f, n) \in Seq(Frame)
         /\ Datagrams(Put(sock, f, n)) \subseteq Datagrams(sock) \cup {f}
<1>1. CASE Len(sock) < n
  <2>1. Put(sock, f, n) = Append(sock, f)
    BY <1>1 DEF Put
  <2>2. /\ Append(sock, f) \in Seq(Frame)
        /\ Len(Append(sock, f)) = Len(sock) + 1
        /\ \A i \in 1 .. Len(sock) : Append(sock, f)[i] = sock[i]
        /\ Append(sock, f)[Len(sock) + 1] = f
    BY AppendProperties
  <2>3. Datagrams(Append(sock, f)) \subseteq Datagrams(sock) \cup {f}
    <3> SUFFICES ASSUME NEW i \in DOMAIN Append(sock, f)
                 PROVE  Append(sock, f)[i] \in Datagrams(sock) \cup {f}
      BY DEF Datagrams
    <3>1. i \in 1 .. Len(sock) + 1 /\ Len(sock) \in Nat /\ DOMAIN sock = 1 .. Len(sock)
      BY <2>2, LenProperties
    <3>2. i \in 1 .. Len(sock) \/ i = Len(sock) + 1
      BY <3>1
    <3> QED BY <2>2, <3>1, <3>2 DEF Datagrams
  <2> QED BY <2>1, <2>2, <2>3
<1>2. CASE ~(Len(sock) < n)
  BY <1>2 DEF Put
<1> QED BY <1>1, <1>2

\* A message goes out whole as far as the socket has room (sendMessage).
LEMMA SdkSendSound ==
  ASSUME NEW k \in Turn, NEW type \in DataTypes, NEW flag \in Flags, NEW ch \in Chans,
         NEW corr \in Word, NEW b \in Bodies
  PROVE  LET r == SdkSend(k, type, flag, ch, corr, b)
         IN  /\ GoesOn(k, r, Size[b])
             /\ r.s.rxLast = k.s.rxLast /\ r.s.pend = k.s.pend /\ r.s.dedup = k.s.dedup
             /\ r.s.rasm = k.s.rasm
             /\ LET mints == corr = 0 /\ Size[b] > 1
                    id == IF mints THEN NextCorr(k.s.corrCtr) ELSE corr
                IN  /\ id \in Word /\ r.s.corrCtr = IF mints THEN id ELSE k.s.corrCtr
                    /\ Datagrams(r.sent) \subseteq Datagrams(k.sent) \cup
                         Datagrams(Fragments(type, flag, ch, k.s.epoch, k.s.txSeq[ch], id, b))
<1> DEFINE mints == corr = 0 /\ Size[b] > 1
           id == IF mints THEN NextCorr(k.s.corrCtr) ELSE corr
           frames == Fragments(type, flag, ch, k.s.epoch, k.s.txSeq[ch], id, b)
           space == SdkSockBuf - Len(k.sent)
           fit == IF Size[b] < space THEN Size[b] ELSE space
           part == SubSeq(frames, 1, fit)
           t == [k.s EXCEPT !.txSeq = [k.s.txSeq EXCEPT ![ch] = Add(@, Size[b])],
                            !.corrCtr = IF mints THEN id ELSE @]
           r == SdkSend(k, type, flag, ch, corr, b)
<1>1. /\ k.s \in SessionState /\ k.sent \in Seq(Frame) /\ k.s.epoch \in Epochs
      /\ k.s.txSeq \in [Chans -> Word] /\ k.s.corrCtr \in Word
  BY DEF Turn, SessionState
<1>2. id \in Word /\ Size[b] \in Nat /\ Size[b] >= 1
  BY <1>1, MintedCorr, SizeRange
<1>3. r = [s |-> t, sent |-> k.sent \o part]
  BY DEF SdkSend
<1>4. Add(k.s.txSeq[ch], Size[b]) \in Word
  <2>1. k.s.txSeq[ch] \in Int /\ Size[b] \in Int
    BY <1>1, <1>2 DEF Word
  <2> QED BY <2>1, AddSubWord
<1>5. /\ t \in SessionState /\ t.up = k.s.up /\ t.epoch = k.s.epoch
      /\ t.txSeq = [k.s.txSeq EXCEPT ![ch] = Add(@, Size[b])]
      /\ t.rxLast = k.s.rxLast /\ t.pend = k.s.pend /\ t.dedup = k.s.dedup
      /\ t.rasm = k.s.rasm /\ t.corrCtr = IF mints THEN id ELSE k.s.corrCtr
  <2> HIDE DEF id, mints
  <2> QED BY <1>1, <1>2, <1>4 DEF SessionState
<1>6. frames \in Seq(DataFrame) /\ Len(frames) = Size[b]
  BY <1>1, <1>2, FragmentsAreFrames
<1>7. fit \in Int /\ fit <= Size[b]
  <2>1. Len(k.sent) \in Nat /\ SdkSockBuf \in Nat
    BY <1>1, CompanionAssumption, LenProperties
  <2> QED BY <1>2, <2>1
<1> HIDE DEF fit, frames
<1>8. part \in Seq(DataFrame) /\ Datagrams(part) \subseteq Datagrams(frames)
  <2>1. CASE fit < 1
    <3>1. part = <<>>
      BY <1>6, <1>7, <2>1, SubSeqProperties
    <3>2. <<>> \in Seq(DataFrame) /\ DOMAIN <<>> = {}
      OBVIOUS
    <3>3. Datagrams(<<>>) = {}
      BY <3>2 DEF Datagrams
    <3> HIDE DEF part
    <3> QED BY <3>1, <3>2, <3>3
  <2>2. CASE fit >= 1
    <3>1. /\ part \in Seq(DataFrame) /\ Len(part) = fit
          /\ \A i \in 1 .. fit : part[i] = frames[i]
      <4>1. fit \in 1 .. Len(frames) /\ 1 \in 1 .. Len(frames)
        BY <1>6, <1>7, <2>2
      <4> QED BY <1>6, <4>1, SubSeqProperties
    <3>2. DOMAIN part = 1 .. fit /\ 1 .. fit \subseteq DOMAIN frames
      BY <1>6, <1>7, <3>1, LenProperties
    <3> QED BY <3>1, <3>2 DEF Datagrams
  <2> QED BY <1>7, <2>1, <2>2
<1> HIDE DEF part
<1>9. /\ k.sent \o part \in Seq(Frame)
      /\ Datagrams(k.sent \o part) \subseteq Datagrams(k.sent) \cup Datagrams(part)
  <2>1. part \in Seq(Frame)
    BY <1>8 DEF Frame
  <2> QED BY <1>1, <2>1, ConcatProperties, ConcatHolds
<1>10. Sends(k.s.txSeq, Datagrams(k.sent), k.s.epoch,
             [k.s.txSeq EXCEPT ![ch] = Add(@, Size[b])], Datagrams(k.sent \o part), Size[b])
  <2>1. Datagrams(k.sent \o part)
          \subseteq Datagrams(k.sent) \cup Datagrams(Fragments(type, flag, ch, k.s.epoch,
                                                                k.s.txSeq[ch], id, b))
    BY <1>8, <1>9 DEF frames
  <2> HIDE DEF id
  <2> QED BY <1>1, <1>2, <2>1, MessageSends
<1>11. \A f \in Datagrams(k.sent \o part) : f \in Datagrams(k.sent) \/ f.type # "HELLO_ACK"
  <2>1. \A f \in Datagrams(part) : f \in DataFrame
    <3>1. DOMAIN part = 1 .. Len(part) /\ \A i \in 1 .. Len(part) : part[i] \in DataFrame
      BY <1>8, LenProperties
    <3> QED BY <3>1 DEF Datagrams
  <2> QED BY <1>9, <2>1 DEF DataFrame, DataTypes
<1> HIDE DEF t
<1>12. r \in Turn /\ r.s = t /\ r.sent = k.sent \o part
  BY <1>3, <1>5, <1>9 DEF Turn
<1> HIDE DEF r
<1>13. GoesOn(k, r, Size[b])
  BY <1>5, <1>10, <1>11, <1>12 DEF GoesOn
<1>14. Datagrams(r.sent) \subseteq Datagrams(k.sent) \cup Datagrams(frames)
  BY <1>8, <1>9, <1>12
<1> QED BY <1>2, <1>5, <1>12, <1>13, <1>14 DEF r, frames

\* A section that sends no message goes on as it was.
LEMMA GoesOnSame ==
  ASSUME NEW k \in Turn, NEW r \in Turn, r.s.up = k.s.up, r.s.epoch = k.s.epoch,
         r.s.txSeq = k.s.txSeq,
         \A f \in Datagrams(r.sent) :
           f \in Datagrams(k.sent) \/ f.type \notin DataTypes \cup {"HELLO_ACK"}
  PROVE  GoesOn(k, r, 0)
<1>1. \A m \in Nat : 0 + m = m
  OBVIOUS
<1>2. Sends(k.s.txSeq, Datagrams(k.sent), k.s.epoch, r.s.txSeq, Datagrams(r.sent), 0)
  BY <1>1 DEF Sends
<1> QED BY <1>2 DEF GoesOn

\* What may be sent may be sent with numbers to spare.
LEMMA GoesOnMore ==
  ASSUME NEW k, NEW r, NEW m \in Nat, NEW n \in Nat, m <= n, GoesOn(k, r, m)
  PROVE  GoesOn(k, r, n)
<1> DEFINE H == U32 \div 2
           tx == k.s.txSeq
           ux == r.s.txSeq
<1>1. H \in Nat
  BY HalfModulus
<1>2. ASSUME NEW j \in Nat, NEW ch \in Chans, NEW x \in Word, Trails(tx, ch, x, n + j)
      PROVE  Trails(ux, ch, x, j)
  <2>1. n + j - m \in Nat /\ m + (n + j - m) = n + j
    OBVIOUS
  <2>2. Trails(ux, ch, x, n + j - m)
    BY <1>2, <2>1 DEF GoesOn, Sends
  <2> QED BY <1>1, <2>1, <2>2 DEF Trails
<1>3. ASSUME NEW f \in Datagrams(r.sent)
      PROVE  \/ f \in Datagrams(k.sent) \/ f.type \notin DataTypes
             \/ f.epoch = k.s.epoch /\ (n <= H => Trails(ux, f.ch, f.seq, H - n))
  <2>1. \/ f \in Datagrams(k.sent) \/ f.type \notin DataTypes
        \/ f.epoch = k.s.epoch /\ (m <= H => Trails(ux, f.ch, f.seq, H - m))
    BY <1>3 DEF GoesOn, Sends
  <2> QED BY <1>1, <2>1 DEF Trails
<1> HIDE DEF tx, ux, H
<1>4. Sends(tx, Datagrams(k.sent), k.s.epoch, ux, Datagrams(r.sent), n)
  BY <1>2, <1>3 DEF Sends, H
<1> QED BY <1>4 DEF GoesOn, tx, ux

\* What a sequence of frames holds are frames.
LEMMA DatagramsFrames ==
  ASSUME NEW sock \in Seq(Frame)
  PROVE  Datagrams(sock) \subseteq Frame
BY ElementOfSeq, LenProperties DEF Datagrams

\* Two parts of a section after another.
LEMMA GoesOnTwice ==
  ASSUME NEW k \in Turn, NEW r \in Turn, NEW q \in Turn, NEW m \in Nat, NEW n \in Nat,
         GoesOn(k, r, m), GoesOn(r, q, n)
  PROVE  GoesOn(k, q, m + n)
<1>1. /\ k.s.txSeq \in [Chans -> Word] /\ r.s.txSeq \in [Chans -> Word]
      /\ q.s.txSeq \in [Chans -> Word]
  BY DEF Turn, SessionState
<1>2. Datagrams(r.sent) \subseteq Frame
  BY DatagramsFrames DEF Turn
<1>3. r.s.epoch = k.s.epoch
  BY DEF GoesOn
<1>4. Sends(k.s.txSeq, Datagrams(k.sent), k.s.epoch, q.s.txSeq, Datagrams(q.sent), m + n)
  <2>1. /\ Sends(k.s.txSeq, Datagrams(k.sent), k.s.epoch, r.s.txSeq, Datagrams(r.sent), m)
        /\ Sends(r.s.txSeq, Datagrams(r.sent), k.s.epoch, q.s.txSeq, Datagrams(q.sent), n)
    BY <1>3 DEF GoesOn
  <2> QED BY <1>1, <1>2, <2>1, SendsTwice
<1> QED BY <1>4 DEF GoesOn

\* A datagram that is no message and no welcome leaves the session where it was.
LEMMA RawGoesOn ==
  ASSUME NEW k \in Turn, NEW f \in ByeFrame \cup BeatFrame
  PROVE  /\ Raw(k, f) \in Turn /\ Raw(k, f).s = k.s
         /\ GoesOn(k, Raw(k, f), 0)
         /\ Datagrams(Raw(k, f).sent) \subseteq Datagrams(k.sent) \cup {f}
<1>1. f \in Frame /\ f.type \notin DataTypes \cup {"HELLO_ACK"}
  BY DEF Frame, ByeFrame, BeatFrame, DataTypes
<1>2. SdkSockBuf \in Nat /\ k.sent \in Seq(Frame) /\ k.s \in SessionState
  BY CompanionAssumption DEF Turn
<1>3. /\ Put(k.sent, f, SdkSockBuf) \in Seq(Frame)
      /\ Datagrams(Put(k.sent, f, SdkSockBuf)) \subseteq Datagrams(k.sent) \cup {f}
  BY <1>1, <1>2, PutSound
<1>4. Raw(k, f) = [s |-> k.s, sent |-> Put(k.sent, f, SdkSockBuf)]
  BY DEF Raw, Turn
<1> DEFINE r == Raw(k, f)
<1>5. r \in Turn /\ r.s = k.s /\ r.sent = Put(k.sent, f, SdkSockBuf)
  BY <1>2, <1>3, <1>4 DEF Turn
<1> HIDE DEF r
<1>6. GoesOn(k, r, 0)
  BY <1>1, <1>3, <1>5, GoesOnSame
<1> QED BY <1>3, <1>5, <1>6 DEF r

\* An unsolicited BYE, or none within the window (byeLimited).
LEMMA LimitedByeGoesOn ==
  ASSUME NEW k \in Turn, NEW e \in Epochs
  PROVE  LET r == LimitedBye(k, e)
         IN  /\ r \in Turn /\ GoesOn(k, r, 0) /\ r.s.rxLast = k.s.rxLast
<1> DEFINE bye == [type |-> "BYE", epoch |-> e]
           t == [k.s EXCEPT !.byeAllowed = FALSE]
           j == [s |-> t, sent |-> k.sent]
           r == LimitedBye(k, e)
<1>1. k.s \in SessionState /\ k.sent \in Seq(Frame)
  BY DEF Turn
<1>2. /\ t \in SessionState /\ t.up = k.s.up /\ t.epoch = k.s.epoch
      /\ t.txSeq = k.s.txSeq /\ t.rxLast = k.s.rxLast
  BY <1>1 DEF SessionState
<1>3. [k EXCEPT !.s.byeAllowed = FALSE] = j
  <2>1. [k EXCEPT !.s.byeAllowed = FALSE] = [k EXCEPT !.s = t]
    OBVIOUS
  <2> HIDE DEF t
  <2> QED BY <2>1 DEF Turn
<1> HIDE DEF t
<1>4. j \in Turn /\ j.s = t /\ j.sent = k.sent
  BY <1>1, <1>2 DEF Turn
<1>5. bye \in ByeFrame \cup BeatFrame
  BY DEF ByeFrame
<1> HIDE DEF j, bye
<1>6. GoesOn(k, j, 0)
  BY <1>2, <1>4, GoesOnSame
<1>7. CASE k.s.byeAllowed
  <2>1. r = Raw(j, bye)
    BY <1>3, <1>7 DEF LimitedBye, bye
  <2>2. r \in Turn /\ r.s = j.s /\ GoesOn(j, r, 0)
    BY <1>4, <1>5, <2>1, RawGoesOn
  <2>3. 0 + 0 = 0
    OBVIOUS
  <2>4. GoesOn(k, r, 0 + 0)
    BY <1>4, <1>6, <2>2, GoesOnTwice
  <2> QED BY <1>2, <1>4, <2>2, <2>3, <2>4
<1>8. CASE ~k.s.byeAllowed
  <2>1. r = k
    BY <1>8 DEF LimitedBye
  <2>2. GoesOn(k, k, 0)
    BY GoesOnSame
  <2> QED BY <2>1, <2>2
<1> QED BY <1>7, <1>8

\* Changing what is not the session's identity or counters sends nothing.
LEMMA SessionEdit ==
  ASSUME NEW k \in Turn, NEW t \in SessionState, t.up = k.s.up,
         t.epoch = k.s.epoch, t.txSeq = k.s.txSeq
  PROVE  LET r == [k EXCEPT !.s = t]
         IN  /\ r = [s |-> t, sent |-> k.sent]
             /\ r \in Turn /\ r.s = t /\ r.sent = k.sent /\ GoesOn(k, r, 0)
<1> DEFINE r == [k EXCEPT !.s = t]
<1>1. r = [s |-> t, sent |-> k.sent] /\ r \in Turn /\ r.s = t /\ r.sent = k.sent
  BY DEF Turn
<1> HIDE DEF r
<1>2. GoesOn(k, r, 0)
  BY <1>1, GoesOnSame
<1> QED BY <1>1, <1>2 DEF r

\* A section starts from the session and the socket as they are.
LEMMA StepTurn ==
  ASSUME CompanionTypeOK, NEW t \in SessionState
  PROVE  Step(t) \in Turn /\ Step(t).s = t /\ Step(t).sent = toGuest
BY DEF CompanionTypeOK, Step, Turn

\* Hearing a frame of the session, the RESYNC a gap asks for included, sends at
\* most one frame and hears the frame's number (channelFrame).
LEMMA SdkAcceptGoesOn ==
  ASSUME CompanionTypeOK, NEW f \in DataFrame
  PROVE  LET r == SdkAccept(f)
         IN  /\ r \in Turn /\ GoesOn(Step(c), r, 1)
             /\ r.s.rxLast = [c.rxLast EXCEPT ![f.ch] = f.seq]
<1> DEFINE k == Step(Hear(c))
           t == [k.s EXCEPT !.resyncSent = [k.s.resyncSent EXCEPT ![f.ch] = TRUE]]
           j == [k EXCEPT !.s = t]
           a == IF SdkGap(f) /\ ~c.resyncSent[f.ch]
                THEN SdkSend(j, "RESYNC", "none", f.ch, 0, NoBody) ELSE k
           u == [a.s EXCEPT !.rxLast = [a.s.rxLast EXCEPT ![f.ch] = f.seq]]
           r == [a EXCEPT !.s = u]
<1>1. f.ch \in Chans /\ f.seq \in Word /\ c \in SessionState
  BY DEF DataFrame, CompanionTypeOK
<1>2. Step(c) \in Turn /\ Step(c).s = c /\ Step(c).sent = toGuest
  BY <1>1, StepTurn
<1>3. /\ Hear(c) \in SessionState /\ Hear(c).up = c.up /\ Hear(c).epoch = c.epoch
      /\ Hear(c).txSeq = c.txSeq /\ Hear(c).rxLast = c.rxLast
  BY <1>1 DEF Hear, SessionState
<1>4. /\ k \in Turn /\ k.s = Hear(c) /\ k.sent = toGuest /\ GoesOn(Step(c), k, 0)
      /\ k.s.rxLast = c.rxLast
  <2>1. k \in Turn /\ k.s = Hear(c) /\ k.sent = toGuest
    BY <1>3, StepTurn
  <2> HIDE DEF k
  <2>2. GoesOn(Step(c), k, 0)
    BY <1>2, <1>3, <2>1, GoesOnSame
  <2> QED BY <1>3, <2>1, <2>2
<1>5. SdkAccept(f) = r
  <2>1. [k EXCEPT !.s.resyncSent[f.ch] = TRUE] = j
    OBVIOUS
  <2>2. SdkAccept(f) = [a EXCEPT !.s.rxLast[f.ch] = f.seq]
    BY <2>1 DEF SdkAccept
  <2> QED BY <2>2
<1> HIDE DEF k
<1>6. /\ j \in Turn /\ GoesOn(Step(c), j, 0) /\ j.s.rxLast = c.rxLast
  <2>1. /\ t \in SessionState /\ t.up = k.s.up /\ t.epoch = k.s.epoch
        /\ t.txSeq = k.s.txSeq /\ t.rxLast = k.s.rxLast
    <3>1. k.s \in SessionState /\ [k.s.resyncSent EXCEPT ![f.ch] = TRUE] \in [Chans -> BOOLEAN]
      BY <1>4 DEF Turn, SessionState
    <3> QED BY <3>1 DEF SessionState
  <2> HIDE DEF t
  <2>2. j \in Turn /\ j.s = t /\ GoesOn(k, j, 0)
    BY <1>4, <2>1, SessionEdit
  <2> HIDE DEF j
  <2>3. GoesOn(Step(c), j, 0 + 0) /\ 0 + 0 = 0
    BY <1>2, <1>4, <2>2, GoesOnTwice
  <2> QED BY <1>4, <2>1, <2>2, <2>3
<1> HIDE DEF j
<1>7. a \in Turn /\ GoesOn(Step(c), a, 1) /\ a.s.rxLast = c.rxLast
  <2>1. CASE SdkGap(f) /\ ~c.resyncSent[f.ch]
    <3>1. a = SdkSend(j, "RESYNC", "none", f.ch, 0, NoBody)
      BY <2>1
    <3>2. /\ "RESYNC" \in DataTypes /\ "none" \in Flags
          /\ 0 \in Word /\ NoBody \in Bodies /\ Size[NoBody] = 1
      BY WireAssumption DEF DataTypes, Flags, Word
    <3> HIDE DEF a
    <3>3. GoesOn(j, a, Size[NoBody]) /\ a.s.rxLast = j.s.rxLast
      BY <1>1, <1>6, <3>1, <3>2, SdkSendSound
    <3>4. a \in Turn /\ GoesOn(j, a, 1)
      BY <3>2, <3>3 DEF GoesOn
    <3>5. GoesOn(Step(c), a, 0 + 1) /\ 0 + 1 = 1
      BY <1>2, <1>6, <3>4, GoesOnTwice
    <3> QED BY <1>6, <3>3, <3>4, <3>5
  <2>2. CASE ~(SdkGap(f) /\ ~c.resyncSent[f.ch])
    <3>1. a = k
      BY <2>2
    <3> HIDE DEF a
    <3>2. GoesOn(Step(c), k, 1)
      BY <1>4, GoesOnMore
    <3> QED BY <1>4, <3>1, <3>2
  <2> QED BY <2>1, <2>2
<1> HIDE DEF a
<1>8. /\ u \in SessionState /\ u.up = a.s.up /\ u.epoch = a.s.epoch
      /\ u.txSeq = a.s.txSeq /\ u.rxLast = [c.rxLast EXCEPT ![f.ch] = f.seq]
  <2>1. /\ a.s \in SessionState
        /\ [a.s.rxLast EXCEPT ![f.ch] = f.seq] \in [Chans -> Word]
        /\ [a.s.rxLast EXCEPT ![f.ch] = f.seq] = [c.rxLast EXCEPT ![f.ch] = f.seq]
    BY <1>1, <1>7 DEF Turn, SessionState
  <2> QED BY <2>1 DEF SessionState
<1> HIDE DEF u
<1>9. r \in Turn /\ r.s = u /\ GoesOn(a, r, 0)
  BY <1>7, <1>8, SessionEdit
<1> HIDE DEF r
<1>10. GoesOn(Step(c), r, 1 + 0) /\ 1 + 0 = 1
  BY <1>2, <1>7, <1>9, GoesOnTwice
<1> QED BY <1>5, <1>8, <1>9, <1>10

\* Taking a completed message in does the same (channelFrame).
LEMMA SdkArrivedGoesOn ==
  ASSUME CompanionTypeOK, NEW f \in DataFrame
  PROVE  LET r == SdkArrived(f)
         IN  /\ r \in Turn /\ GoesOn(Step(c), r, 1)
             /\ r.s.rxLast = [c.rxLast EXCEPT ![f.ch] = f.seq]
<1> DEFINE a == SdkAccept(f)
           u == [a.s EXCEPT !.rasm = [a.s.rasm EXCEPT ![f.ch] = Closed]]
           r == [a EXCEPT !.s = u]
<1>1. /\ a \in Turn /\ GoesOn(Step(c), a, 1)
      /\ a.s.rxLast = [c.rxLast EXCEPT ![f.ch] = f.seq]
  BY SdkAcceptGoesOn
<1>2. SdkArrived(f) = IF f.nfrag = 1 THEN a ELSE r
  BY DEF SdkArrived
<1> HIDE DEF a
<1>3. Closed \in Reassembly /\ f.ch \in Chans
  BY WireAssumption DEF Closed, Reassembly, DataTypes, Flags, Word, DataFrame
<1>4. /\ u \in SessionState /\ u.up = a.s.up /\ u.epoch = a.s.epoch
      /\ u.txSeq = a.s.txSeq /\ u.rxLast = a.s.rxLast
  <2>1. a.s \in SessionState /\ [a.s.rasm EXCEPT ![f.ch] = Closed] \in [Chans -> Reassembly]
    BY <1>1, <1>3 DEF Turn, SessionState
  <2> QED BY <2>1 DEF SessionState
<1> HIDE DEF u
<1>5. r \in Turn /\ r.s = u /\ GoesOn(a, r, 0)
  BY <1>1, <1>4, SessionEdit
<1> HIDE DEF r
<1>6. Step(c) \in Turn
  BY StepTurn DEF CompanionTypeOK
<1>7. GoesOn(Step(c), r, 1 + 0) /\ 1 + 0 = 1
  BY <1>1, <1>5, <1>6, GoesOnTwice
<1> QED BY <1>1, <1>2, <1>4, <1>5, <1>7

\* What a frame completes is a message of a known type with a payload to read
\* (reassemble, dispatch).
LEMMA SdkMessageType ==
  ASSUME CompanionTypeOK, NEW f \in DataFrame, SdkCompletes(f)
  PROVE  /\ SdkMessage(f).type \in DataTypes
         /\ SdkMessage(f).corr \in Word
         /\ BodyOf(SdkMessage(f).parts) \in Bodies
<1>1. CASE f.nfrag = 1
  <2>1. SdkMessage(f) = [type |-> f.type, flag |-> f.flag, corr |-> f.corr,
                         parts |-> {<<0, f.body>>}]
    BY <1>1 DEF SdkMessage
  <2>2. <<0, f.body>> \in (0 .. MaxFragments - 1) \X Bodies
    BY WireAssumption DEF DataFrame
  <2>3. BodyOf({<<0, f.body>>}) \in Bodies
    <3>1. {<<0, f.body>>} \in SUBSET ((0 .. MaxFragments - 1) \X Bodies)
      BY <2>2
    <3>2. \E p \in {<<0, f.body>>} : p[1] = 0
      OBVIOUS
    <3> QED BY <3>1, <3>2, BodyOfWhole
  <2> QED BY <2>1, <2>3 DEF DataFrame
<1>2. CASE f.nfrag # 1
  <2> DEFINE r == Gather(c.rasm[f.ch], f)
  <2>1. SdkMessage(f) = [type |-> r.type, flag |-> r.flag, corr |-> r.corr,
                         parts |-> r.parts]
    BY <1>2 DEF SdkMessage
  <2>2. c.rasm[f.ch] \in Reassembly
    BY DEF CompanionTypeOK, SessionState, DataFrame
  <2>3. r \in Reassembly /\ r.nfrag = f.nfrag
    BY <2>2, GatherType
  <2>4. Whole(r)
    BY <1>2 DEF SdkCompletes
  <2> HIDE DEF r
  <2>5. 0 \in 0 .. r.nfrag - 1
    BY <2>3 DEF DataFrame
  <2>6. \E p \in r.parts : p[1] = 0
    BY <2>4, <2>5 DEF Whole
  <2>7. BodyOf(r.parts) \in Bodies
    <3>1. r.parts \in SUBSET ((0 .. MaxFragments - 1) \X Bodies)
      BY <2>3 DEF Reassembly
    <3> QED BY <2>6, <3>1, BodyOfWhole
  <2> QED BY <2>1, <2>3, <2>7 DEF Reassembly
<1> QED BY <1>1, <1>2

-----------------------------------------------------------------------------
(* What a locked section does to the session: it goes on, it ends, or a new *)
(* one begins.                                                             *)

\* Sequence numbers of a channel one section gives out at most: a RESYNC, and an
\* answer of several frames.
Spare == MaxFragments + 1

Stays ==
  /\ CompanionTypeOK' /\ c'.up = c.up /\ c'.epoch = c.epoch
  /\ Sends(c.txSeq, Datagrams(toGuest), c.epoch, c'.txSeq, Datagrams(toGuest'), Spare)
  /\ \A f \in Datagrams(toGuest') : f \in Datagrams(toGuest) \/ f.type # "HELLO_ACK"

Leaves ==
  /\ CompanionTypeOK' /\ ~c'.up /\ c'.epoch = 0
  /\ \A f \in Datagrams(toGuest') : f \in Datagrams(toGuest) \/ f.type = "BYE"

Begins(e, corr) ==
  /\ CompanionTypeOK' /\ c'.up /\ c'.epoch = e
  /\ c'.txSeq = [ch \in Chans |-> 0] /\ c'.rxLast = [ch \in Chans |-> 0]
  /\ Datagrams(toGuest') \subseteq Datagrams(toGuest) \cup
       {[type |-> "HELLO_ACK", epoch |-> e, corr |-> corr, name |-> SdkName]}

\* Every frame bears an epoch.
LEMMA FrameEpoch == \A f \in Frame : f.epoch \in Epochs
BY DEF Frame, HelloFrame, AckFrame, BeatFrame, ByeFrame, DataFrame

\* A data frame is what its type says it is.
LEMMA SdkDataFrames ==
  ASSUME NEW f \in Frame, f.type \in DataTypes
  PROVE  f \in DataFrame
BY DEF Frame, DataTypes, HelloFrame, AckFrame, BeatFrame, ByeFrame

\* A section that goes on leaves the session going on.
LEMMA DoStays ==
  ASSUME CompanionTypeOK, NEW r \in Turn, NEW n \in Nat, n <= Spare,
         GoesOn(Step(c), r, n), Do(r), running' \subseteq Invocation
  PROVE  Stays /\ c' = r.s
<1>1. Step(c).s = c /\ Step(c).sent = toGuest
  BY DEF Step
<1>2. c' = r.s /\ toGuest' = r.sent
  BY DEF Do
<1>3. Spare \in Nat
  BY WireAssumption DEF Spare
<1>4. GoesOn(Step(c), r, Spare)
  BY <1>3, GoesOnMore
<1>5. CompanionTypeOK'
  BY <1>2 DEF CompanionTypeOK, Turn
<1> QED BY <1>1, <1>2, <1>4, <1>5 DEF GoesOn, Stays

\* A step that sends nothing and keeps the session's identity and counters.
LEMMA QuietStays ==
  ASSUME CompanionTypeOK, c' \in SessionState, c'.up = c.up, c'.epoch = c.epoch,
         c'.txSeq = c.txSeq, toGuest' = toGuest, running' \subseteq Invocation
  PROVE  Stays
<1> DEFINE r == [s |-> c', sent |-> toGuest]
<1>1. r \in Turn /\ r.s = c' /\ r.sent = toGuest
  BY DEF CompanionTypeOK, Turn
<1>2. Step(c) \in Turn /\ Step(c).s = c /\ Step(c).sent = toGuest
  BY StepTurn DEF CompanionTypeOK
<1>3. Do(r)
  BY DEF Do
<1> HIDE DEF r
<1>4. GoesOn(Step(c), r, 0)
  BY <1>1, <1>2, GoesOnSame
<1>5. 0 \in Nat /\ 0 <= Spare
  BY WireAssumption DEF Spare
<1> QED BY <1>1, <1>3, <1>4, <1>5, DoStays

\* An answer to what has just arrived.
LEMMA AnswerGoesOn ==
  ASSUME CompanionTypeOK, NEW k \in Turn, GoesOn(Step(c), k, 1), NEW flag \in Flags,
         NEW ch \in Chans, NEW corr \in Word, NEW b \in Bodies
  PROVE  LET r == SdkSend(k, "RESP", flag, ch, corr, b)
         IN  r \in Turn /\ GoesOn(Step(c), r, Spare) /\ r.s.rxLast = k.s.rxLast
<1> DEFINE r == SdkSend(k, "RESP", flag, ch, corr, b)
<1>1. "RESP" \in DataTypes
  BY DEF DataTypes
<1>2. GoesOn(k, r, Size[b]) /\ r.s.rxLast = k.s.rxLast
  BY <1>1, SdkSendSound
<1> HIDE DEF r
<1>3. r \in Turn /\ Step(c) \in Turn
  BY <1>2, StepTurn DEF GoesOn, CompanionTypeOK
<1>4. Size[b] \in Nat /\ 1 + Size[b] \in Nat /\ 1 + Size[b] <= Spare /\ Spare \in Nat
  BY SizeRange, WireAssumption DEF Spare
<1>5. GoesOn(Step(c), r, 1 + Size[b])
  BY <1>2, <1>3, <1>4, GoesOnTwice
<1>6. GoesOn(Step(c), r, Spare)
  BY <1>4, <1>5, GoesOnMore
<1> QED BY <1>2, <1>3, <1>6 DEF r

\* A message of a session nothing of whose identity and counters was touched.
LEMMA EditAndSend ==
  ASSUME CompanionTypeOK, NEW t \in SessionState, t.up = c.up, t.epoch = c.epoch,
         t.txSeq = c.txSeq, t.rxLast = c.rxLast,
         NEW type \in DataTypes, NEW flag \in Flags, NEW ch \in Chans,
         NEW corr \in Word, NEW b \in Bodies,
         Do(SdkSend(Step(t), type, flag, ch, corr, b)), running' \subseteq Invocation
  PROVE  Stays /\ c'.rxLast = c.rxLast
<1> DEFINE r == SdkSend(Step(t), type, flag, ch, corr, b)
<1>1. Step(c) \in Turn /\ Step(c).s = c /\ Step(c).sent = toGuest
  BY StepTurn DEF CompanionTypeOK
<1>2. Step(t) \in Turn /\ Step(t).s = t /\ Step(t).sent = toGuest
  BY StepTurn
<1>3. GoesOn(Step(c), Step(t), 0)
  BY <1>1, <1>2, GoesOnSame
<1>4. GoesOn(Step(t), r, Size[b]) /\ r.s.rxLast = Step(t).s.rxLast
  BY <1>2, SdkSendSound
<1> HIDE DEF r
<1>5. r \in Turn
  BY <1>4 DEF GoesOn
<1>6. Size[b] \in Nat /\ 0 + Size[b] = Size[b] /\ Size[b] <= Spare
  BY SizeRange, WireAssumption DEF Spare
<1>7. GoesOn(Step(c), r, 0 + Size[b])
  BY <1>1, <1>2, <1>3, <1>4, <1>5, <1>6, GoesOnTwice
<1>8. Do(r)
  BY DEF r
<1>9. Stays /\ c' = r.s
  BY <1>5, <1>6, <1>7, <1>8, DoStays
<1> QED BY <1>2, <1>4, <1>9

\* Forgetting everything of a session (resetLocked).
LEMMA ClearedSound ==
  ASSUME NEW s \in SessionState
  PROVE  /\ Cleared(s) \in SessionState
         /\ Cleared(s).txSeq = [ch \in Chans |-> 0]
         /\ Cleared(s).rxLast = [ch \in Chans |-> 0]
<1> DEFINE z == [s EXCEPT !.pend = {}, !.dedup = {},
                   !.txSeq = [ch \in Chans |-> 0], !.rxLast = [ch \in Chans |-> 0],
                   !.resyncSent = [ch \in Chans |-> FALSE],
                   !.rasm = [ch \in Chans |-> Closed]]
<1>1. 0 \in Word /\ Closed \in Reassembly
  BY WireAssumption DEF Closed, Reassembly, DataTypes, Flags, Word
<1>2. /\ [ch \in Chans |-> 0] \in [Chans -> Word]
      /\ [ch \in Chans |-> FALSE] \in [Chans -> BOOLEAN]
      /\ [ch \in Chans |-> Closed] \in [Chans -> Reassembly]
  BY <1>1
<1>3. Cleared(s) = z
  BY DEF Cleared, NewSession
<1>4. z \in SessionState /\ z.txSeq = [ch \in Chans |-> 0] /\ z.rxLast = [ch \in Chans |-> 0]
  BY <1>2 DEF SessionState
<1> QED BY <1>3, <1>4

\* A session that goes down leaves none behind (dropLocked).
LEMMA DownSound ==
  ASSUME NEW s \in SessionState, Joined(s)
  PROVE  Down(s) \in SessionState /\ ~Down(s).up /\ Down(s).epoch = 0
<1>1. 0 \in Epochs
  BY WireAssumption
<1>2. Cleared(s) \in SessionState
  BY ClearedSound
<1>3. CASE s.up
  <2> DEFINE d == [Cleared(s) EXCEPT !.up = FALSE, !.epoch = 0]
  <2>1. Down(s) = d
    BY <1>3 DEF Down
  <2>2. d \in SessionState /\ ~d.up /\ d.epoch = 0
    BY <1>1, <1>2 DEF SessionState
  <2> QED BY <2>1, <2>2
<1>4. CASE ~s.up
  BY <1>4 DEF Down, Joined
<1> QED BY <1>3, <1>4

\* A process that knows no session.
LEMMA NewSessionSound ==
  /\ NewSession \in SessionState /\ ~NewSession.up /\ NewSession.epoch = 0
  /\ Gone \in SessionState /\ ~Gone.up /\ Gone.epoch = 0
<1>1. 0 \in Word /\ Closed \in Reassembly /\ 0 \in Epochs
  BY WireAssumption DEF Closed, Reassembly, DataTypes, Flags, Word
<1>2. /\ [ch \in Chans |-> 0] \in [Chans -> Word]
      /\ [ch \in Chans |-> FALSE] \in [Chans -> BOOLEAN]
      /\ [ch \in Chans |-> Closed] \in [Chans -> Reassembly]
  BY <1>1
<1>3. NewSession \in SessionState /\ ~NewSession.up /\ NewSession.epoch = 0
  BY <1>1, <1>2 DEF NewSession, SessionState
<1>4. Gone = [NewSession EXCEPT !.closed = TRUE]
  BY DEF Gone
<1> QED BY <1>3, <1>4 DEF SessionState

-----------------------------------------------------------------------------
(* The steps. *)

\* A HELLO begins a session and welcomes the guest to it, or is told BYE
\* (onHello).
LEMMA HelloStep ==
  ASSUME CompanionTypeOK, NEW f \in Frame, NEW Tags \in SUBSET Tokens,
         OnHello(f, Tags) \/ OnHelloRefused(f)
  PROVE  \/ \E e \in Tags \ {f.epoch, c.epoch} : f.type = "HELLO" /\ Begins(e, f.corr)
         \/ Stays /\ c'.rxLast = c.rxLast
<1>1. c \in SessionState /\ f.epoch \in Epochs /\ running \subseteq Invocation
  BY FrameEpoch DEF CompanionTypeOK
<1>2. Step(c) \in Turn /\ Step(c).s = c /\ Step(c).sent = toGuest
  BY <1>1, StepTurn
<1>3. CASE OnHello(f, Tags)
  <2> DEFINE S(e) == [Cleared(c) EXCEPT !.epoch = e, !.up = TRUE, !.quiet = FALSE,
                                        !.guestHi = f.tick]
             ack(e) == [type |-> "HELLO_ACK", epoch |-> e, corr |-> f.corr,
                        name |-> SdkName]
  <2>1. PICK e \in Tags \ {f.epoch, c.epoch} : Do(Raw(Step(S(e)), ack(e)))
    BY <1>3 DEF OnHello
  <2>2. f.type = "HELLO" /\ running' = running
    BY <1>3 DEF OnHello
  <2>3. f.corr \in Word /\ f.tick \in Word /\ e \in Epochs
    BY <2>2, CompanionAssumption DEF Frame, HelloFrame, AckFrame, BeatFrame, ByeFrame,
       DataFrame, DataTypes
  <2>4. /\ S(e) \in SessionState /\ S(e).up /\ S(e).epoch = e
        /\ S(e).txSeq = [ch \in Chans |-> 0] /\ S(e).rxLast = [ch \in Chans |-> 0]
    <3>1. /\ Cleared(c) \in SessionState /\ Cleared(c).txSeq = [ch \in Chans |-> 0]
          /\ Cleared(c).rxLast = [ch \in Chans |-> 0]
      BY <1>1, ClearedSound
    <3> QED BY <2>3, <3>1 DEF SessionState
  <2>5. ack(e) \in Frame
    BY <2>3, CompanionAssumption DEF Frame, AckFrame
  <2> HIDE DEF S, ack
  <2>6. c' = S(e) /\ toGuest' = Put(toGuest, ack(e), SdkSockBuf)
    BY <2>1 DEF Do, Raw, Step
  <2>7. /\ toGuest' \in Seq(Frame)
        /\ Datagrams(toGuest') \subseteq Datagrams(toGuest) \cup {ack(e)}
    BY <2>5, <2>6, CompanionAssumption, PutSound DEF CompanionTypeOK
  <2>8. CompanionTypeOK'
    BY <1>1, <2>2, <2>4, <2>6, <2>7 DEF CompanionTypeOK
  <2>9. Begins(e, f.corr)
    BY <2>4, <2>6, <2>7, <2>8 DEF Begins, ack
  <2> QED BY <2>2, <2>9
<1>4. CASE OnHelloRefused(f)
  <2> DEFINE r == LimitedBye(Step(c), f.epoch)
  <2>1. r \in Turn /\ GoesOn(Step(c), r, 0) /\ r.s.rxLast = c.rxLast
    BY <1>1, <1>2, LimitedByeGoesOn
  <2>2. Do(r) /\ running' \subseteq Invocation
    BY <1>1, <1>4 DEF OnHelloRefused
  <2> HIDE DEF r
  <2>3. 0 \in Nat /\ 0 <= Spare
    BY WireAssumption DEF Spare
  <2> QED BY <2>1, <2>2, <2>3, DoStays
<1> QED BY <1>3, <1>4

\* A frame of another session, a heartbeat, and the ends of a session (deliver,
\* onHeartbeat, rollbackLocked, onBye).
LEMMA SessionFrames ==
  ASSUME CompanionTypeOK, Joined(c), NEW f \in Frame,
         OnUnknownEpoch(f) \/ OnBeat(f) \/ OnRollback(f) \/ OnPeerBye(f)
  PROVE  Leaves \/ (Stays /\ c'.rxLast = c.rxLast)
<1>1. /\ c \in SessionState /\ f.epoch \in Epochs /\ c.epoch \in Epochs
      /\ running \subseteq Invocation
  BY FrameEpoch DEF CompanionTypeOK, SessionState
<1>2. Step(c) \in Turn /\ Step(c).s = c /\ Step(c).sent = toGuest
  BY <1>1, StepTurn
<1>3. /\ Hear(c) \in SessionState /\ Hear(c).up = c.up /\ Hear(c).epoch = c.epoch
      /\ Hear(c).txSeq = c.txSeq /\ Hear(c).rxLast = c.rxLast
  BY <1>1 DEF Hear, SessionState
<1>4. CASE OnUnknownEpoch(f)
  <2> DEFINE r == LimitedBye(Step(c), f.epoch)
  <2>1. r \in Turn /\ GoesOn(Step(c), r, 0) /\ r.s.rxLast = c.rxLast
    BY <1>1, <1>2, LimitedByeGoesOn
  <2>2. Do(r) /\ running' \subseteq Invocation
    BY <1>1, <1>4 DEF OnUnknownEpoch
  <2> HIDE DEF r
  <2>3. 0 \in Nat /\ 0 <= Spare
    BY WireAssumption DEF Spare
  <2> QED BY <2>1, <2>2, <2>3, DoStays
<1>5. CASE OnBeat(f)
  <2> DEFINE hi == IF SerialDelta(f.tick, Hear(c).guestHi) > 0 THEN f.tick
                   ELSE Hear(c).guestHi
  <2>1. /\ c' = [Hear(c) EXCEPT !.guestHi = hi] /\ toGuest' = toGuest
        /\ running' \subseteq Invocation /\ f.type = "HEARTBEAT"
    BY <1>1, <1>5 DEF OnBeat, Do, Step
  <2>2. hi \in Word
    <3>1. f.tick \in Word
      BY <2>1 DEF Frame, HelloFrame, AckFrame, BeatFrame, ByeFrame, DataFrame, DataTypes
    <3>2. Hear(c).guestHi \in Word
      BY <1>3 DEF SessionState
    <3> QED BY <3>1, <3>2
  <2> HIDE DEF hi
  <2>3. /\ c' \in SessionState /\ c'.up = c.up /\ c'.epoch = c.epoch
        /\ c'.txSeq = c.txSeq /\ c'.rxLast = c.rxLast
    BY <1>3, <2>1, <2>2 DEF SessionState
  <2> QED BY <2>1, <2>3, QuietStays
<1>6. CASE OnRollback(f)
  <2> DEFINE t == [Hear(c) EXCEPT !.byeAllowed = FALSE]
             bye == [type |-> "BYE", epoch |-> c.epoch]
             told == Raw(Step(t), bye)
  <2>1. Do([told EXCEPT !.s = Down(@)]) /\ running' \subseteq Invocation
    BY <1>1, <1>6 DEF OnRollback
  <2>2. t \in SessionState /\ t.up = c.up /\ t.epoch = c.epoch
    BY <1>3 DEF SessionState
  <2> HIDE DEF t
  <2>3. bye \in ByeFrame \cup BeatFrame /\ bye.type = "BYE"
    BY <1>1 DEF ByeFrame
  <2> HIDE DEF bye
  <2>4. Step(t) \in Turn /\ Step(t).s = t /\ Step(t).sent = toGuest
    BY <2>2, StepTurn
  <2>5. told \in Turn /\ told.s = t
        /\ Datagrams(told.sent) \subseteq Datagrams(toGuest) \cup {bye}
    BY <2>3, <2>4, RawGoesOn
  <2> HIDE DEF told
  <2>6. Down(t) \in SessionState /\ ~Down(t).up /\ Down(t).epoch = 0
    BY <2>2, DownSound DEF Joined
  <2>7. c' = Down(t) /\ toGuest' = told.sent
    BY <2>1, <2>5 DEF Do, Turn
  <2>8. CompanionTypeOK'
    BY <2>1, <2>5, <2>6, <2>7 DEF CompanionTypeOK, Turn
  <2> QED BY <2>3, <2>5, <2>6, <2>7, <2>8 DEF Leaves
<1>7. CASE OnPeerBye(f)
  <2>1. c' = Down(Hear(c)) /\ toGuest' = toGuest /\ running' \subseteq Invocation
    BY <1>1, <1>7 DEF OnPeerBye, Do, Step
  <2>2. Down(Hear(c)) \in SessionState /\ ~Down(Hear(c)).up /\ Down(Hear(c)).epoch = 0
    BY <1>3, DownSound DEF Joined
  <2> QED BY <2>1, <2>2 DEF Leaves, CompanionTypeOK
<1> QED BY <1>4, <1>5, <1>6, <1>7

\* A frame of an application channel goes on with the session and at most moves
\* what was heard of its channel to its own number (channelFrame, dispatch).
LEMMA ChannelFrames ==
  ASSUME CompanionTypeOK, NEW f \in Frame,
         \/ SdkOnStale(f) \/ SdkOnFragment(f) \/ SdkOnMsg(f) \/ SdkOnResync(f)
         \/ SdkOnReqAgain(f) \/ SdkOnReqUnserved(f) \/ SdkOnReqNew(f) \/ SdkOnResp(f)
  PROVE  /\ Stays /\ f \in DataFrame /\ Current(f)
         /\ \/ c'.rxLast = c.rxLast
            \/ ~SdkStale(f) /\ c'.rxLast = [c.rxLast EXCEPT ![f.ch] = f.seq]
<1>1. /\ c \in SessionState /\ c.epoch \in Epochs /\ running \subseteq Invocation
  BY DEF CompanionTypeOK, SessionState
<1>2. f \in DataFrame /\ Current(f)
  BY SdkDataFrames DEF SdkOnStale, SdkOnFragment, SdkOnMsg, SdkOnResync, SdkOnReqAgain,
     SdkOnReqUnserved, SdkOnReqNew, SdkOnResp, SdkDispatches, SdkDataArrives
<1>3. f.ch \in Chans /\ f.seq \in Word
  BY <1>2 DEF DataFrame
<1>4. Step(c) \in Turn /\ Step(c).s = c /\ Step(c).sent = toGuest
  BY <1>1, StepTurn
<1> DEFINE a == SdkArrived(f)
           m == SdkMessage(f)
           heard == ~SdkStale(f) /\ c'.rxLast = [c.rxLast EXCEPT ![f.ch] = f.seq]
<1>5. a \in Turn /\ GoesOn(Step(c), a, 1) /\ a.s.rxLast = [c.rxLast EXCEPT ![f.ch] = f.seq]
  BY <1>2, SdkArrivedGoesOn
<1>6. ASSUME SdkCompletes(f)
      PROVE  m.type \in DataTypes /\ m.corr \in Word /\ BodyOf(m.parts) \in Bodies
  BY <1>2, <1>6, SdkMessageType
<1>7. 1 \in Nat /\ 1 <= Spare /\ Spare \in Nat /\ Spare <= Spare /\ 1 + 0 = 1
  BY WireAssumption DEF Spare
<1>8. /\ {"none", "BUSY", "DUPLICATE", "NO_HANDLER"} \subseteq Flags
      /\ NoBody \in Bodies
  BY WireAssumption DEF Flags, Errors
<1> HIDE DEF a, m
\* What has arrived, with an edit of what is not the session's identity.
<1>9. ASSUME NEW t \in SessionState, t.up = a.s.up, t.epoch = a.s.epoch,
             t.txSeq = a.s.txSeq, t.rxLast = a.s.rxLast,
             c' = t, toGuest' = a.sent, running' \subseteq Invocation, ~SdkStale(f)
      PROVE  Stays /\ heard
  <2> DEFINE r == [a EXCEPT !.s = t]
  <2>1. r \in Turn /\ r.s = t /\ r.sent = a.sent /\ GoesOn(a, r, 0)
    BY <1>5, <1>9, SessionEdit
  <2> HIDE DEF r
  <2>2. GoesOn(Step(c), r, 1 + 0)
    BY <1>4, <1>5, <2>1, GoesOnTwice
  <2>3. Do(r)
    BY <1>9, <2>1 DEF Do
  <2>4. Stays
    BY <1>7, <1>9, <2>1, <2>2, <2>3, DoStays
  <2> QED BY <1>5, <1>9, <2>4
\* What has arrived, and an answer.
<1>10. ASSUME NEW flag \in Flags, NEW corr \in Word, NEW b \in Bodies, ~SdkStale(f),
              Do(SdkSend(a, "RESP", flag, f.ch, corr, b)), running' \subseteq Invocation
       PROVE  Stays /\ heard
  <2> DEFINE r == SdkSend(a, "RESP", flag, f.ch, corr, b)
  <2>1. r \in Turn /\ GoesOn(Step(c), r, Spare) /\ r.s.rxLast = a.s.rxLast
    BY <1>3, <1>5, <1>10, AnswerGoesOn
  <2> HIDE DEF r
  <2>2. Stays /\ c' = r.s
    BY <1>7, <1>10, <2>1, DoStays DEF r
  <2> QED BY <1>5, <1>10, <2>1, <2>2
<1>11. a.s \in SessionState /\ a = [s |-> a.s, sent |-> a.sent]
  BY <1>5 DEF Turn
<1>12. CASE SdkOnStale(f)
  <2>1. c' = Hear(c) /\ toGuest' = toGuest /\ running' \subseteq Invocation
    BY <1>1, <1>12 DEF SdkOnStale, Do, Step
  <2>2. /\ c' \in SessionState /\ c'.up = c.up /\ c'.epoch = c.epoch
        /\ c'.txSeq = c.txSeq /\ c'.rxLast = c.rxLast
    BY <1>1, <2>1 DEF Hear, SessionState
  <2> QED BY <1>2, <2>1, <2>2, QuietStays
<1>13. CASE SdkOnFragment(f)
  <2> DEFINE k == SdkAccept(f)
             n == IF Disagrees(k.s.rasm[f.ch], f) THEN Closed
                  ELSE Gather(k.s.rasm[f.ch], f)
             t == [k.s EXCEPT !.rasm = [k.s.rasm EXCEPT ![f.ch] = n]]
             r == [k EXCEPT !.s = t]
  <2>1. /\ k \in Turn /\ GoesOn(Step(c), k, 1)
        /\ k.s.rxLast = [c.rxLast EXCEPT ![f.ch] = f.seq]
    BY <1>2, SdkAcceptGoesOn
  <2>2. Do(r) /\ ~SdkStale(f) /\ running' \subseteq Invocation
    BY <1>1, <1>13 DEF SdkOnFragment
  <2> HIDE DEF k
  <2>3. n \in Reassembly
    <3>1. Closed \in Reassembly
      BY WireAssumption DEF Closed, Reassembly, DataTypes, Flags, Word
    <3>2. k.s.rasm[f.ch] \in Reassembly
      BY <1>3, <2>1 DEF Turn, SessionState
    <3>3. Gather(k.s.rasm[f.ch], f) \in Reassembly
      BY <1>2, <3>2, GatherType
    <3> QED BY <3>1, <3>3
  <2> HIDE DEF n
  <2>4. /\ t \in SessionState /\ t.up = k.s.up /\ t.epoch = k.s.epoch
        /\ t.txSeq = k.s.txSeq /\ t.rxLast = k.s.rxLast
    <3>1. k.s \in SessionState /\ [k.s.rasm EXCEPT ![f.ch] = n] \in [Chans -> Reassembly]
      BY <2>1, <2>3 DEF Turn, SessionState
    <3> QED BY <3>1 DEF SessionState
  <2> HIDE DEF t
  <2>5. r \in Turn /\ r.s = t /\ GoesOn(k, r, 0)
    BY <2>1, <2>4, SessionEdit
  <2> HIDE DEF r
  <2>6. GoesOn(Step(c), r, 1 + 0)
    BY <1>4, <2>1, <2>5, GoesOnTwice
  <2>7. Stays /\ c' = r.s
    BY <1>7, <2>2, <2>5, <2>6, DoStays
  <2> QED BY <1>2, <2>1, <2>2, <2>4, <2>5, <2>7
<1>14. CASE SdkOnMsg(f)
  <2> DEFINE n == [a.s.resyncSent EXCEPT ![f.ch] = @ /\ m.flag # "snapshot"]
             t == [a.s EXCEPT !.resyncSent = n]
  <2>1. Do([a EXCEPT !.s = t]) /\ ~SdkStale(f) /\ running' \subseteq Invocation
    BY <1>1, <1>14 DEF SdkOnMsg, SdkDispatches, a, m
  <2>2. n \in [Chans -> BOOLEAN]
    BY <1>5 DEF Turn, SessionState
  <2> HIDE DEF n
  <2>3. /\ t \in SessionState /\ t.up = a.s.up /\ t.epoch = a.s.epoch
        /\ t.txSeq = a.s.txSeq /\ t.rxLast = a.s.rxLast
    BY <1>11, <2>2 DEF SessionState
  <2> HIDE DEF t
  <2>4. c' = t /\ toGuest' = a.sent
    BY <1>5, <2>1 DEF Do, Turn
  <2> QED BY <1>2, <1>9, <2>1, <2>3, <2>4
<1>15. CASE SdkOnResync(f)
  <2>1. Do(a) /\ ~SdkStale(f) /\ running' \subseteq Invocation
    BY <1>1, <1>15 DEF SdkOnResync, SdkDispatches, a
  <2> QED BY <1>2, <1>9, <1>11, <2>1 DEF Do
<1>16. CASE SdkOnReqAgain(f)
  <2>1. /\ ~SdkStale(f) /\ SdkCompletes(f) /\ running' \subseteq Invocation
    BY <1>1, <1>16 DEF SdkOnReqAgain, SdkDispatches
  <2>2. PICK d \in Known(f.ch, m.corr) :
          Do(CASE d.state = "inflight" -> SdkSend(a, "RESP", "BUSY", f.ch, m.corr, NoBody)
               [] d.state = "cached" -> SdkSend(a, "RESP", "none", f.ch, m.corr, d.body)
               [] d.state = "gone" -> SdkSend(a, "RESP", "DUPLICATE", f.ch, m.corr, NoBody))
    BY <1>16 DEF SdkOnReqAgain, a, m
  <2>3. d \in SdkDedup
    BY <1>1, <2>2 DEF Known, SessionState
  <2>4. d.body \in Bodies /\ d.state \in {"inflight", "cached", "gone"}
    BY <2>3 DEF SdkDedup
  <2>5. \E flag \in Flags, b \in Bodies : Do(SdkSend(a, "RESP", flag, f.ch, m.corr, b))
    <3>1. CASE d.state = "inflight"
      <4>1. Do(SdkSend(a, "RESP", "BUSY", f.ch, m.corr, NoBody))
        BY <2>2, <3>1
      <4> QED BY <1>8, <4>1
    <3>2. CASE d.state = "cached"
      <4>1. Do(SdkSend(a, "RESP", "none", f.ch, m.corr, d.body))
        BY <2>2, <3>2
      <4> QED BY <1>8, <2>4, <4>1
    <3>3. CASE d.state = "gone"
      <4>1. Do(SdkSend(a, "RESP", "DUPLICATE", f.ch, m.corr, NoBody))
        BY <2>2, <3>3
      <4> QED BY <1>8, <4>1
    <3> QED BY <2>4, <3>1, <3>2, <3>3
  <2> QED BY <1>2, <1>6, <1>10, <2>1, <2>5
<1>17. CASE SdkOnReqUnserved(f)
  <2>1. /\ ~SdkStale(f) /\ SdkCompletes(f) /\ running' \subseteq Invocation
        /\ Do(SdkSend(a, "RESP", "NO_HANDLER", f.ch, m.corr, NoBody))
    BY <1>1, <1>17 DEF SdkOnReqUnserved, SdkDispatches, a, m
  <2> QED BY <1>2, <1>6, <1>8, <1>10, <2>1
<1>18. CASE SdkOnReqNew(f)
  <2> DEFINE mark == [epoch |-> c.epoch, ch |-> f.ch, corr |-> m.corr,
                      state |-> "inflight", body |-> NoBody]
             inv(n) == [n |-> n, epoch |-> c.epoch, ch |-> f.ch, corr |-> m.corr,
                        body |-> BodyOf(m.parts), awaits |-> 0]
             t == [a.s EXCEPT !.dedup = a.s.dedup \cup {mark}]
  <2>1. PICK n \in FreeNumbers :
          /\ ~SdkStale(f) /\ SdkCompletes(f) /\ running' = running \cup {inv(n)}
          /\ Do([a EXCEPT !.s = t])
    BY <1>18 DEF SdkOnReqNew, SdkDispatches, a, m
  <2>2. mark \in SdkDedup /\ inv(n) \in Invocation
    <3>1. 0 \in Word
      BY WireAssumption DEF Word
    <3>2. n \in 1 .. Handlers
      BY DEF FreeNumbers
    <3> QED BY <1>1, <1>3, <1>6, <1>8, <2>1, <3>1, <3>2 DEF SdkDedup, Invocation
  <2>3. running' \subseteq Invocation
    BY <1>1, <2>1, <2>2
  <2> HIDE DEF mark, inv
  <2>4. /\ t \in SessionState /\ t.up = a.s.up /\ t.epoch = a.s.epoch
        /\ t.txSeq = a.s.txSeq /\ t.rxLast = a.s.rxLast
    BY <1>11, <2>2 DEF SessionState
  <2> HIDE DEF t
  <2>5. c' = t /\ toGuest' = a.sent
    BY <1>5, <2>1 DEF Do, Turn
  <2> QED BY <1>2, <1>9, <2>1, <2>3, <2>4, <2>5
<1>19. CASE SdkOnResp(f)
  <2> DEFINE n == {p \in a.s.pend : p.corr # m.corr}
             t == [a.s EXCEPT !.pend = n]
  <2>1. Do([a EXCEPT !.s = t]) /\ ~SdkStale(f) /\ running' \subseteq Invocation
    BY <1>1, <1>19 DEF SdkOnResp, SdkDispatches, a, m
  <2>2. n \in SUBSET SdkPending
    BY <1>11 DEF SessionState
  <2> HIDE DEF n
  <2>3. /\ t \in SessionState /\ t.up = a.s.up /\ t.epoch = a.s.epoch
        /\ t.txSeq = a.s.txSeq /\ t.rxLast = a.s.rxLast
    BY <1>11, <2>2 DEF SessionState
  <2> HIDE DEF t
  <2>4. c' = t /\ toGuest' = a.sent
    BY <1>5, <2>1 DEF Do, Turn
  <2> QED BY <1>2, <1>9, <2>1, <2>3, <2>4
<1> QED BY <1>12, <1>13, <1>14, <1>15, <1>16, <1>17, <1>18, <1>19

\* A datagram begins a session, ends one, or goes on with it (deliver).
LEMMA SdkDeliverStep ==
  ASSUME CompanionTypeOK, Joined(c), NEW f \in Frame, NEW Tags \in SUBSET Tokens,
         SdkDeliver(f, Tags)
  PROVE  \/ \E e \in Tags \ {f.epoch, c.epoch} : f.type = "HELLO" /\ Begins(e, f.corr)
         \/ Leaves
         \/ /\ Stays
            /\ \/ c'.rxLast = c.rxLast
               \/ /\ f \in DataFrame /\ Current(f) /\ ~SdkStale(f)
                  /\ c'.rxLast = [c.rxLast EXCEPT ![f.ch] = f.seq]
<1>1. CASE OnHello(f, Tags) \/ OnHelloRefused(f)
  BY <1>1, HelloStep
<1>2. CASE OnUnknownEpoch(f) \/ OnBeat(f) \/ OnRollback(f) \/ OnPeerBye(f)
  BY <1>2, SessionFrames
<1>3. CASE \/ SdkOnStale(f) \/ SdkOnFragment(f) \/ SdkOnMsg(f) \/ SdkOnResync(f)
           \/ SdkOnReqAgain(f) \/ SdkOnReqUnserved(f) \/ SdkOnReqNew(f) \/ SdkOnResp(f)
  BY <1>3, ChannelFrames
<1> QED BY <1>1, <1>2, <1>3 DEF SdkDeliver

\* A handler that returns answers in the session of that moment (runHandler).
LEMMA HandlerStep ==
  ASSUME CompanionTypeOK, NEW r \in running, HandlerReturns(r) \/ HandlerFails(r)
  PROVE  Stays /\ c'.rxLast = c.rxLast
<1>1. c \in SessionState /\ running \subseteq Invocation /\ r \in Invocation
  BY DEF CompanionTypeOK
<1>2. /\ r.ch \in Chans /\ r.corr \in Word /\ r.body \in Bodies /\ NoBody \in Bodies
      /\ c.epoch \in Epochs /\ "RESP" \in DataTypes /\ {"none", "APP"} \subseteq Flags
  BY <1>1, WireAssumption DEF Invocation, SessionState, DataTypes, Flags, Errors
<1>3. running' \subseteq Invocation
  BY <1>1 DEF HandlerReturns, HandlerFails
<1>4. CASE HandlerReturns(r)
  <2> DEFINE entry == [epoch |-> c.epoch, ch |-> r.ch, corr |-> r.corr,
                       state |-> IF r.body \in SdkCacheable THEN "cached" ELSE "gone",
                       body |-> IF r.body \in SdkCacheable THEN r.body ELSE NoBody]
             n == {d \in c.dedup : ~AnswerKey(d, r)} \cup {entry}
             t == [c EXCEPT !.dedup = n]
  <2>1. Do(SdkSend(Step(t), "RESP", "none", r.ch, r.corr, r.body))
    BY <1>4 DEF HandlerReturns
  <2>2. n \in SUBSET SdkDedup
    <3>1. entry \in SdkDedup
      BY <1>2 DEF SdkDedup
    <3> HIDE DEF entry
    <3> QED BY <1>1, <3>1 DEF SessionState
  <2> HIDE DEF n
  <2>3. /\ t \in SessionState /\ t.up = c.up /\ t.epoch = c.epoch
        /\ t.txSeq = c.txSeq /\ t.rxLast = c.rxLast
    BY <1>1, <2>2 DEF SessionState
  <2> HIDE DEF t
  <2> QED BY <1>2, <1>3, <2>1, <2>3, EditAndSend
<1>5. CASE HandlerFails(r)
  <2> DEFINE n == {d \in c.dedup : ~AnswerKey(d, r)}
             t == [c EXCEPT !.dedup = n]
  <2>1. Do(SdkSend(Step(t), "RESP", "APP", r.ch, r.corr, NoBody))
    BY <1>5 DEF HandlerFails
  <2>2. n \in SUBSET SdkDedup
    BY <1>1 DEF SessionState
  <2> HIDE DEF n
  <2>3. /\ t \in SessionState /\ t.up = c.up /\ t.epoch = c.epoch
        /\ t.txSeq = c.txSeq /\ t.rxLast = c.rxLast
    BY <1>1, <2>2 DEF SessionState
  <2> HIDE DEF t
  <2> QED BY <1>2, <1>3, <2>1, <2>3, EditAndSend
<1> QED BY <1>4, <1>5

\* So do the application's calls (Send, Resync, Request).
LEMMA SdkAppStep ==
  ASSUME CompanionTypeOK, NEW ch \in Chans, NEW b \in Bodies,
         \/ \E flag \in {"none", "snapshot"} : SdkAppSend(ch, flag, b)
         \/ SdkAppResync(ch) \/ SdkAppRequest(ch, b)
         \/ \E r \in running : HandlerRequests(r, ch, b)
  PROVE  Stays /\ c'.rxLast = c.rxLast
<1>1. c \in SessionState /\ running \subseteq Invocation /\ c.corrCtr \in Word
  BY DEF CompanionTypeOK, SessionState
<1>2. /\ {"MSG", "REQ", "RESYNC"} \subseteq DataTypes /\ {"none", "snapshot"} \subseteq Flags
      /\ 0 \in Word /\ NoBody \in Bodies
  BY WireAssumption DEF DataTypes, Flags, Word
<1>3. CASE \E flag \in {"none", "snapshot"} : SdkAppSend(ch, flag, b)
  <2>1. PICK flag \in {"none", "snapshot"} : SdkAppSend(ch, flag, b)
    BY <1>3
  <2>2. Do(SdkSend(Step(c), "MSG", flag, ch, 0, b)) /\ running' \subseteq Invocation
    BY <1>1, <2>1 DEF SdkAppSend
  <2>3. flag \in Flags /\ "MSG" \in DataTypes
    BY <1>2
  <2> QED BY <1>1, <1>2, <2>2, <2>3, EditAndSend
<1>4. CASE SdkAppResync(ch)
  <2>1. Do(SdkSend(Step(c), "RESYNC", "none", ch, 0, NoBody)) /\ running' \subseteq Invocation
    BY <1>1, <1>4 DEF SdkAppResync
  <2>2. "none" \in Flags /\ "RESYNC" \in DataTypes
    BY <1>2
  <2> QED BY <1>1, <1>2, <2>1, <2>2, EditAndSend
<1>5. ASSUME Asked(ch, b), running' \subseteq Invocation PROVE Stays /\ c'.rxLast = c.rxLast
  <2> DEFINE corr == NextCorr(c.corrCtr)
             p == [ch |-> ch, corr |-> corr, body |-> b, tries |-> 0]
             t == [c EXCEPT !.corrCtr = corr, !.pend = c.pend \cup {p}]
  <2>1. Do(SdkSend(Step(t), "REQ", "none", ch, corr, b))
    BY <1>5 DEF Asked
  <2>2. corr \in Word
    BY <1>1, MintedCorr
  <2> HIDE DEF corr
  <2>3. p \in SdkPending
    BY <2>2 DEF SdkPending
  <2> HIDE DEF p
  <2>4. /\ t \in SessionState /\ t.up = c.up /\ t.epoch = c.epoch
        /\ t.txSeq = c.txSeq /\ t.rxLast = c.rxLast
    BY <1>1, <2>2, <2>3 DEF SessionState
  <2> HIDE DEF t
  <2>5. "none" \in Flags /\ "REQ" \in DataTypes
    BY <1>2
  <2> QED BY <1>5, <2>1, <2>2, <2>4, <2>5, EditAndSend
<1>6. CASE SdkAppRequest(ch, b)
  BY <1>1, <1>5, <1>6 DEF SdkAppRequest
<1>7. CASE \E r \in running : HandlerRequests(r, ch, b)
  <2>1. PICK r \in running : HandlerRequests(r, ch, b)
    BY <1>7
  <2>2. r \in Invocation /\ NextCorr(c.corrCtr) \in Word
    BY <1>1, MintedCorr
  <2>3. [r EXCEPT !.awaits = NextCorr(c.corrCtr)] \in Invocation
    BY <2>2 DEF Invocation
  <2>4. running' \subseteq Invocation /\ Asked(ch, b)
    BY <1>1, <2>1, <2>3 DEF HandlerRequests
  <2> QED BY <1>5, <2>4
<1> QED BY <1>3, <1>4, <1>5, <1>6, <1>7

\* A timer ends the session or goes on with it (runTimers).
LEMMA TimerStep ==
  ASSUME CompanionTypeOK, Joined(c),
         \/ QuietTimer \/ PeerTimer \/ BeatTimer \/ ByeWindow
         \/ \E ch \in Chans : ReassemblyTimer(ch)
         \/ \E d \in c.dedup : DedupTimer(d)
         \/ \E p \in c.pend : SdkResend(p) \/ SdkGivesUp(p)
  PROVE  Leaves \/ (Stays /\ c'.rxLast = c.rxLast)
<1>1. /\ c \in SessionState /\ running \subseteq Invocation /\ c.epoch \in Epochs
      /\ toGuest \in Seq(Frame)
  BY DEF CompanionTypeOK, SessionState
<1>2. Step(c) \in Turn /\ Step(c).s = c /\ Step(c).sent = toGuest
  BY <1>1, StepTurn
<1>3. ASSUME c' \in SessionState, c'.up = c.up, c'.epoch = c.epoch, c'.txSeq = c.txSeq,
             c'.rxLast = c.rxLast, TimerIdle
      PROVE  Stays /\ c'.rxLast = c.rxLast
  BY <1>1, <1>3, QuietStays DEF TimerIdle
<1>4. CASE QuietTimer \/ ByeWindow
  BY <1>1, <1>3, <1>4 DEF QuietTimer, ByeWindow, SessionState
<1>5. CASE PeerTimer
  <2>1. c' = Down(c) /\ running' = running /\ toGuest' = toGuest
    BY <1>5 DEF PeerTimer, TimerIdle
  <2>2. Down(c) \in SessionState /\ ~Down(c).up /\ Down(c).epoch = 0
    BY <1>1, DownSound
  <2> QED BY <1>1, <2>1, <2>2 DEF Leaves, CompanionTypeOK
<1>6. CASE BeatTimer
  <2> DEFINE beat == [type |-> "HEARTBEAT", epoch |-> c.epoch, tick |-> 0]
             r == Raw(Step(c), beat)
  <2>1. beat \in ByeFrame \cup BeatFrame
    BY <1>1, WireAssumption DEF BeatFrame, Word
  <2> HIDE DEF beat
  <2>2. r \in Turn /\ r.s = c /\ GoesOn(Step(c), r, 0)
    BY <1>2, <2>1, RawGoesOn
  <2>3. Do(r) /\ running' \subseteq Invocation
    BY <1>1, <1>6 DEF BeatTimer, beat
  <2> HIDE DEF r
  <2>4. 0 \in Nat /\ 0 <= Spare
    BY WireAssumption DEF Spare
  <2> QED BY <2>2, <2>3, <2>4, DoStays
<1>7. CASE \E ch \in Chans : ReassemblyTimer(ch)
  <2>1. PICK ch \in Chans : ReassemblyTimer(ch)
    BY <1>7
  <2>2. Closed \in Reassembly
    BY WireAssumption DEF Closed, Reassembly, DataTypes, Flags, Word
  <2>3. [c.rasm EXCEPT ![ch] = Closed] \in [Chans -> Reassembly]
    BY <1>1, <2>2 DEF SessionState
  <2>4. c' = [c EXCEPT !.rasm = [c.rasm EXCEPT ![ch] = Closed]] /\ TimerIdle
    BY <2>1 DEF ReassemblyTimer
  <2> QED BY <1>1, <1>3, <2>3, <2>4 DEF SessionState
<1>8. CASE \E d \in c.dedup : DedupTimer(d)
  <2>1. PICK d \in c.dedup : DedupTimer(d)
    BY <1>8
  <2>2. c' = [c EXCEPT !.dedup = c.dedup \ {d}] /\ TimerIdle
    BY <2>1 DEF DedupTimer
  <2> QED BY <1>1, <1>3, <2>2 DEF SessionState
<1>9. ASSUME NEW p \in c.pend, SdkResend(p) PROVE Stays /\ c'.rxLast = c.rxLast
  <2> DEFINE q == [p EXCEPT !.tries = @ + 1]
             t == [c EXCEPT !.pend = (c.pend \ {p}) \cup {q}]
  <2>1. Do(SdkSend(Step(t), "REQ", "none", p.ch, p.corr, p.body)) /\ running' \subseteq Invocation
    BY <1>1, <1>9 DEF SdkResend
  <2>2. p \in SdkPending
    BY <1>1, <1>9 DEF SessionState
  <2>3. q \in SdkPending /\ p.ch \in Chans /\ p.corr \in Word /\ p.body \in Bodies
    BY <2>2 DEF SdkPending
  <2> HIDE DEF q
  <2>4. /\ t \in SessionState /\ t.up = c.up /\ t.epoch = c.epoch
        /\ t.txSeq = c.txSeq /\ t.rxLast = c.rxLast
    BY <1>1, <2>3 DEF SessionState
  <2> HIDE DEF t
  <2>5. "none" \in Flags /\ "REQ" \in DataTypes
    BY DEF Flags, DataTypes
  <2> QED BY <2>1, <2>3, <2>4, <2>5, EditAndSend
<1>10. ASSUME NEW p \in c.pend, SdkGivesUp(p) PROVE Stays /\ c'.rxLast = c.rxLast
  <2>1. c' = [c EXCEPT !.pend = c.pend \ {p}] /\ TimerIdle
    BY <1>10 DEF SdkGivesUp
  <2> QED BY <1>1, <1>3, <2>1 DEF SessionState
<1> QED BY <1>4, <1>5, <1>6, <1>7, <1>8, <1>9, <1>10

\* A companion that stops, or is started again, is in no session (Close, Dial).
LEMMA StopStep ==
  ASSUME CompanionTypeOK,
         \/ Close
         \/ c' \in {Gone, NewSession} /\ running' \in {{}, running} /\ toGuest' = toGuest
  PROVE  Leaves
<1>1. /\ c \in SessionState /\ running \subseteq Invocation /\ c.epoch \in Epochs
      /\ toGuest \in Seq(Frame) /\ running' \subseteq Invocation
  BY DEF CompanionTypeOK, SessionState, Close
<1>2. c' \in SessionState /\ ~c'.up /\ c'.epoch = 0
  BY NewSessionSound DEF Close
<1> DEFINE bye == [type |-> "BYE", epoch |-> c.epoch]
<1>3. /\ toGuest' \in Seq(Frame)
      /\ \A f \in Datagrams(toGuest') : f \in Datagrams(toGuest) \/ f.type = "BYE"
  <2>1. CASE Close /\ c.up
    <3>1. bye \in Frame /\ bye.type = "BYE"
      BY <1>1 DEF Frame, ByeFrame
    <3>2. toGuest' = Put(toGuest, bye, SdkSockBuf)
      BY <2>1 DEF Close
    <3> HIDE DEF bye
    <3> QED BY <1>1, <3>1, <3>2, CompanionAssumption, PutSound
  <2>2. CASE ~(Close /\ c.up)
    BY <1>1, <2>2 DEF Close
  <2> QED BY <2>1, <2>2
<1> QED BY <1>1, <1>2, <1>3 DEF Leaves, CompanionTypeOK

-----------------------------------------------------------------------------
(* The parts of a guest's handler, seen from its session. *)

\* All the frames a link has on their way to the companion.
Outbound == Datagrams(out) \cup Queued(g)

\* From s to t a link stays in its session and queues at most n frames of a
\* channel.
LinkGoesOn(s, t, n) ==
  /\ t.up = s.up /\ t.epoch = s.epoch /\ t.helloCorr = s.helloCorr
  /\ Sends(s.txSeq, Queued(s), s.epoch, t.txSeq, Queued(t), n)

\* Everything queued is a frame, and the counters are u32.
LEMMA LinkTyped ==
  ASSUME NEW s \in LinkState
  PROVE  Queued(s) \subseteq Frame /\ s.txSeq \in [Chans -> Word]
<1>1. ASSUME NEW p \in Queues PROVE Datagrams(s.q[p]) \subseteq Frame
  <2>1. s.q[p] \in Seq(BeatFrame \cup DataFrame)
    BY DEF LinkState
  <2> QED BY <2>1, ElementOfSeq, LenProperties DEF Datagrams, Frame
<1> QED BY <1>1 DEF Queued, LinkState

\* A part that queues nothing goes on as it was.
LEMMA LinkSame ==
  ASSUME NEW s, NEW t, SameCourse(s, t), t.txSeq = s.txSeq, t.q = s.q
  PROVE  LinkGoesOn(s, t, 0)
<1>1. Queued(t) = Queued(s) /\ \A m \in Nat : 0 + m = m
  BY DEF Queued
<1> QED BY <1>1 DEF LinkGoesOn, Sends, SameCourse

\* What may be queued may be queued with numbers to spare.
LEMMA SendsMore ==
  ASSUME NEW tx, NEW F, NEW e, NEW ux, NEW G, NEW m \in Nat, NEW n \in Nat, m <= n,
         Sends(tx, F, e, ux, G, m)
  PROVE  Sends(tx, F, e, ux, G, n)
<1> DEFINE H == U32 \div 2
<1>1. H \in Nat
  BY HalfModulus
<1>2. ASSUME NEW j \in Nat, NEW ch \in Chans, NEW x \in Word, Trails(tx, ch, x, n + j)
      PROVE  Trails(ux, ch, x, j)
  <2>1. n + j - m \in Nat /\ m + (n + j - m) = n + j
    OBVIOUS
  <2>2. Trails(ux, ch, x, n + j - m)
    BY <1>2, <2>1 DEF Sends
  <2> QED BY <1>1, <2>1, <2>2 DEF Trails
<1>3. ASSUME NEW f \in G
      PROVE  \/ f \in F \/ f.type \notin DataTypes
             \/ f.epoch = e /\ (n <= H => Trails(ux, f.ch, f.seq, H - n))
  <2>1. \/ f \in F \/ f.type \notin DataTypes
        \/ f.epoch = e /\ (m <= H => Trails(ux, f.ch, f.seq, H - m))
    BY <1>3 DEF Sends
  <2> QED BY <1>1, <2>1 DEF Trails
<1> QED BY <1>2, <1>3 DEF Sends

\* The same with more numbers allowed for.
LEMMA LinkMore ==
  ASSUME NEW s, NEW t, NEW m \in Nat, NEW n \in Nat, m <= n, LinkGoesOn(s, t, m)
  PROVE  LinkGoesOn(s, t, n)
BY SendsMore DEF LinkGoesOn

\* Two parts of a handler after another.
LEMMA LinkTwice ==
  ASSUME NEW s \in LinkState, NEW t \in LinkState, NEW u \in LinkState,
         NEW m \in Nat, NEW n \in Nat, LinkGoesOn(s, t, m), LinkGoesOn(t, u, n)
  PROVE  LinkGoesOn(s, u, m + n)
<1>1. /\ s.txSeq \in [Chans -> Word] /\ t.txSeq \in [Chans -> Word]
      /\ u.txSeq \in [Chans -> Word] /\ Queued(t) \subseteq Frame
  BY LinkTyped
<1>2. /\ Sends(s.txSeq, Queued(s), s.epoch, t.txSeq, Queued(t), m)
      /\ Sends(t.txSeq, Queued(t), s.epoch, u.txSeq, Queued(u), n)
  BY DEF LinkGoesOn
<1>3. Sends(s.txSeq, Queued(s), s.epoch, u.txSeq, Queued(u), m + n)
  BY <1>1, <1>2, SendsTwice
<1> QED BY <1>3 DEF LinkGoesOn

\* Where there is room, a message adds its fragments to the queue of its channel
\* and takes their numbers (sendMessage).
LEMMA MessageQueued ==
  ASSUME NEW s \in LinkState, NEW type \in DataTypes, NEW flag \in Flags,
         NEW ch \in Chans, NEW corr \in Word, NEW b \in Bodies, Room(s, ch, b)
  PROVE  LET t == SendMessage(s, type, flag, ch, corr, b)
             id == IF Mints(corr, b) THEN NextCorr(s.corrCtr) ELSE corr
         IN  /\ id \in Word
             /\ t.txSeq = [s.txSeq EXCEPT ![ch] = Add(@, Size[b])]
             /\ t.corrCtr = IF Mints(corr, b) THEN id ELSE s.corrCtr
             /\ Queued(t) \subseteq Queued(s) \cup
                  Datagrams(Fragments(type, flag, ch, s.epoch, s.txSeq[ch], id, b))
<1> DEFINE t == SendMessage(s, type, flag, ch, corr, b)
           id == IF Mints(corr, b) THEN NextCorr(s.corrCtr) ELSE corr
           fs == Fragments(type, flag, ch, s.epoch, s.txSeq[ch], id, b)
           k == QueueOf(ch)
<1>1. id \in Word
  BY MintedCorr DEF LinkState
<1>2. /\ s.epoch \in Epochs /\ s.txSeq \in [Chans -> Word] /\ k \in Queues
      /\ s.q \in [Queues -> Seq(BeatFrame \cup DataFrame)]
  BY DEF LinkState, QueueOf, Queues
<1>3. fs \in Seq(DataFrame)
  BY <1>1, <1>2, FragmentsAreFrames
<1>4. fs \in Seq(BeatFrame \cup DataFrame)
  BY <1>3, SeqMonotonic
<1>5. /\ t.q = [s.q EXCEPT ![k] = s.q[k] \o fs]
      /\ t.txSeq = [s.txSeq EXCEPT ![ch] = Add(@, Size[b])]
      /\ t.corrCtr = IF Mints(corr, b) THEN id ELSE s.corrCtr
  BY <1>2 DEF SendMessage, LinkState
<1> HIDE DEF t, k, id, fs
<1>6. Datagrams(s.q[k] \o fs) \subseteq Datagrams(s.q[k]) \cup Datagrams(fs)
  BY <1>2, <1>4, ConcatHolds
<1>7. ASSUME NEW p \in Queues PROVE Datagrams(t.q[p]) \subseteq Queued(s) \cup Datagrams(fs)
  <2>1. CASE p = k
    <3>1. t.q[p] = s.q[k] \o fs
      BY <1>2, <1>5, <2>1
    <3>2. Datagrams(s.q[k]) \subseteq Queued(s)
      BY <1>2 DEF Queued
    <3> QED BY <1>6, <3>1, <3>2
  <2>2. CASE p # k
    <3>1. t.q[p] = s.q[p]
      BY <1>2, <1>5, <2>2
    <3> QED BY <3>1 DEF Queued
  <2> QED BY <2>1, <2>2
<1>8. Queued(t) \subseteq Queued(s) \cup Datagrams(fs)
  BY <1>7 DEF Queued
<1> QED BY <1>1, <1>5, <1>8 DEF t, id, fs

\* A message takes a number of its channel for each frame it is queued as
\* (sendMessage).
LEMMA SendMessageGoesOn ==
  ASSUME NEW s, Sound(s), s.up,
         NEW type \in DataTypes, NEW flag \in Flags, NEW ch \in Chans,
         NEW corr \in Word, NEW b \in Bodies
  PROVE  LinkGoesOn(s, SendMessage(s, type, flag, ch, corr, b), Size[b])
<1> DEFINE t == SendMessage(s, type, flag, ch, corr, b)
           id == IF Mints(corr, b) THEN NextCorr(s.corrCtr) ELSE corr
           fs == Fragments(type, flag, ch, s.epoch, s.txSeq[ch], id, b)
<1>1. s \in LinkState /\ Size[b] \in Nat
  BY SizeRange DEF Sound
<1>2. SameCourse(s, t)
  BY SendMessageSound
<1>3. CASE ~Room(s, ch, b)
  <2>1. t = s
    BY <1>3 DEF SendMessage
  <2> HIDE DEF t
  <2>2. LinkGoesOn(s, t, 0)
    BY <1>2, <2>1, LinkSame
  <2> QED BY <1>1, <2>2, LinkMore DEF t
<1>4. CASE Room(s, ch, b)
  <2>1. /\ id \in Word /\ t.txSeq = [s.txSeq EXCEPT ![ch] = Add(@, Size[b])]
        /\ Queued(t) \subseteq Queued(s) \cup Datagrams(fs)
    BY <1>1, <1>4, MessageQueued
  <2>2. s.epoch \in Epochs /\ s.txSeq \in [Chans -> Word]
    BY <1>1 DEF LinkState
  <2> HIDE DEF t, id
  <2>3. Sends(s.txSeq, Queued(s), s.epoch, [s.txSeq EXCEPT ![ch] = Add(@, Size[b])],
              Queued(t), Size[b])
    BY <2>1, <2>2, MessageSends
  <2>4. Sends(s.txSeq, Queued(s), s.epoch, t.txSeq, Queued(t), Size[b])
    BY <2>1, <2>3
  <2>5. LinkGoesOn(s, t, Size[b])
    BY <1>2, <2>4 DEF LinkGoesOn, SameCourse
  <2> QED BY <2>5 DEF t
<1> QED BY <1>3, <1>4

\* Hearing a frame queues at most a RESYNC and hears its number (channelFrame).
LEMMA AcceptGoesOn ==
  ASSUME NEW s, Sound(s), s.up, NEW f \in DataFrame
  PROVE  LET t == Accept(s, f)
         IN  LinkGoesOn(s, t, 1) /\ t.rxLast = [s.rxLast EXCEPT ![f.ch] = f.seq]
<1> DEFINE h0 == [s EXCEPT !.lastRx = s.tick]
           a == [h0 EXCEPT !.resyncSent = [h0.resyncSent EXCEPT ![f.ch] = TRUE]]
           r == AskResync(h0, f)
           t == [r EXCEPT !.rxLast = [r.rxLast EXCEPT ![f.ch] = f.seq]]
<1>1. s \in LinkState /\ f.ch \in Chans /\ f.seq \in Word
  BY DEF Sound, DataFrame
<1>2. /\ h0 \in LinkState /\ SameCourse(s, h0) /\ h0.q = s.q /\ h0.dedup = s.dedup
      /\ h0.txSeq = s.txSeq /\ h0.rxLast = s.rxLast
  BY <1>1 DEF LinkState, SameCourse
<1>3. /\ a \in LinkState /\ SameCourse(s, a) /\ a.q = s.q /\ a.dedup = s.dedup
      /\ a.txSeq = s.txSeq /\ a.rxLast = s.rxLast
  <2>1. [h0.resyncSent EXCEPT ![f.ch] = TRUE] \in [Chans -> BOOLEAN]
    BY <1>2 DEF LinkState
  <2> HIDE DEF h0
  <2> QED BY <1>2, <2>1 DEF LinkState, SameCourse
<1>4. [h0 EXCEPT !.resyncSent[f.ch] = TRUE] = a
  BY <1>2 DEF LinkState
<1> HIDE DEF h0, a
<1>5. Sound(h0) /\ Sound(a) /\ a.up
  BY <1>2, <1>3, SoundKept DEF SameCourse
<1>6. r \in LinkState /\ LinkGoesOn(s, r, 1) /\ r.rxLast = s.rxLast
  <2>1. CASE Gap(h0, f) /\ ~h0.resyncSent[f.ch]
    <3>1. r = SendMessage(a, "RESYNC", "none", f.ch, 0, NoBody)
      BY <1>4, <2>1 DEF AskResync
    <3>2. /\ "RESYNC" \in DataTypes /\ "none" \in Flags
          /\ 0 \in Word /\ NoBody \in Bodies /\ Size[NoBody] = 1
      BY WireAssumption DEF DataTypes, Flags, Word
    <3> HIDE DEF r
    <3>3. Sound(r) /\ r.rxLast = a.rxLast /\ LinkGoesOn(a, r, 1)
      BY <1>1, <1>5, <3>1, <3>2, SendMessageSound, SendMessageGoesOn
    <3>4. LinkGoesOn(s, a, 0)
      BY <1>3, LinkSame
    <3>5. r \in LinkState /\ 0 + 1 = 1
      BY <3>3 DEF Sound
    <3>6. LinkGoesOn(s, r, 0 + 1)
      BY <1>1, <1>3, <3>3, <3>4, <3>5, LinkTwice
    <3> QED BY <1>3, <3>3, <3>5, <3>6
  <2>2. CASE ~(Gap(h0, f) /\ ~h0.resyncSent[f.ch])
    <3>1. r = h0
      BY <2>2 DEF AskResync
    <3> HIDE DEF r
    <3>2. LinkGoesOn(s, h0, 0)
      BY <1>2, LinkSame
    <3> QED BY <1>2, <3>1, <3>2, LinkMore
  <2> QED BY <2>1, <2>2
<1>7. Accept(s, f) = t
  BY <1>6 DEF Accept, h0, LinkState
<1> HIDE DEF r
<1>8. [r.rxLast EXCEPT ![f.ch] = f.seq] = [s.rxLast EXCEPT ![f.ch] = f.seq]
      /\ [r.rxLast EXCEPT ![f.ch] = f.seq] \in [Chans -> Word]
  BY <1>1, <1>6 DEF LinkState
<1>9. /\ t \in LinkState /\ SameCourse(r, t) /\ t.q = r.q /\ t.txSeq = r.txSeq
      /\ t.rxLast = [s.rxLast EXCEPT ![f.ch] = f.seq]
  BY <1>6, <1>8 DEF LinkState, SameCourse
<1> HIDE DEF t
<1>10. LinkGoesOn(r, t, 0) /\ 1 + 0 = 1
  BY <1>9, LinkSame
<1>11. LinkGoesOn(s, t, 1 + 0)
  BY <1>1, <1>6, <1>9, <1>10, LinkTwice
<1> QED BY <1>7, <1>9, <1>10, <1>11

\* Taking a completed message in does the same (channelFrame).
LEMMA ArrivedGoesOn ==
  ASSUME NEW s, Sound(s), s.up, NEW f \in DataFrame
  PROVE  LET t == Arrived(s, f)
         IN  LinkGoesOn(s, t, 1) /\ t.rxLast = [s.rxLast EXCEPT ![f.ch] = f.seq]
<1> DEFINE a == Accept(s, f)
           t == [a EXCEPT !.rasm = [a.rasm EXCEPT ![f.ch] = Closed]]
<1>1. Sound(a) /\ LinkGoesOn(s, a, 1) /\ a.rxLast = [s.rxLast EXCEPT ![f.ch] = f.seq]
  BY AcceptSound, AcceptGoesOn
<1>2. Arrived(s, f) = IF f.nfrag = 1 THEN a ELSE t
  BY <1>1 DEF Arrived, Sound, LinkState
<1> HIDE DEF a
<1>3. s \in LinkState /\ a \in LinkState /\ f.ch \in Chans
  BY <1>1 DEF Sound, DataFrame
<1>4. Closed \in Reassembly
  BY WireAssumption DEF Closed, Reassembly, DataTypes, Flags, Word
<1>5. [a.rasm EXCEPT ![f.ch] = Closed] \in [Chans -> Reassembly]
  BY <1>3, <1>4 DEF LinkState
<1>6. /\ t \in LinkState /\ SameCourse(a, t) /\ t.q = a.q /\ t.txSeq = a.txSeq
      /\ t.rxLast = a.rxLast
  BY <1>3, <1>5 DEF LinkState, SameCourse
<1> HIDE DEF t
<1>7. LinkGoesOn(a, t, 0) /\ 1 + 0 = 1
  BY <1>6, LinkSame
<1>8. LinkGoesOn(s, t, 1 + 0)
  BY <1>1, <1>3, <1>6, <1>7, LinkTwice
<1> QED BY <1>1, <1>2, <1>6, <1>7, <1>8

\* Dropping entries from the head of the table queues nothing.
LEMMA KeepFromSame ==
  ASSUME NEW s \in LinkState, NEW n \in Nat \ {0}
  PROVE  LET t == KeepFrom(s, n)
         IN t.q = s.q /\ t.txSeq = s.txSeq /\ t.rxLast = s.rxLast
BY DEF KeepFrom, LinkState

\* Neither does remembering an answer (addDedup).
LEMMA RememberSame ==
  ASSUME NEW s \in LinkState, NEW ch, NEW corr, NEW b
  PROVE  LET t == Remember(s, ch, corr, b)
         IN t.q = s.q /\ t.txSeq = s.txSeq /\ t.rxLast = s.rxLast
<1> DEFINE kept == IF Len(s.dedup) = MaxDedup THEN Tail(s.dedup) ELSE s.dedup
           e == [epoch |-> s.epoch, ch |-> ch, corr |-> corr, body |-> b,
                 cached |-> b \in Cacheable, tick |-> s.tick]
           d == Append(kept, e)
<1>1. Remember(s, ch, corr, b) = [s EXCEPT !.dedup = d]
  BY DEF Remember
<1> HIDE DEF d
<1> QED BY <1>1 DEF LinkState

\* Nor expiry (expireDedup, expireReassembly).
LEMMA ExpireSame ==
  ASSUME NEW s \in LinkState
  PROVE  /\ LET t == ExpireReassembly(s)
            IN t.q = s.q /\ t.txSeq = s.txSeq /\ t.rxLast = s.rxLast
         /\ LET t == ExpireDedup(s)
            IN t.q = s.q /\ t.txSeq = s.txSeq /\ t.rxLast = s.rxLast
<1>1. \E n : ExpireReassembly(s) = [s EXCEPT !.rasm = n]
  BY DEF ExpireReassembly
<1>2. \E n : ExpireDedup(s) = [s EXCEPT !.dedup = n]
  BY DEF ExpireDedup
<1>3. ASSUME NEW n PROVE LET t == [s EXCEPT !.rasm = n]
                         IN t.q = s.q /\ t.txSeq = s.txSeq /\ t.rxLast = s.rxLast
  BY DEF LinkState
<1>4. ASSUME NEW n PROVE LET t == [s EXCEPT !.dedup = n]
                         IN t.q = s.q /\ t.txSeq = s.txSeq /\ t.rxLast = s.rxLast
  BY DEF LinkState
<1> QED BY <1>1, <1>2, <1>3, <1>4

\* A link that lost its session is in none.
LEMMA ResetSessionDown ==
  ASSUME NEW s \in LinkState
  PROVE  /\ ~ResetSession(s).up /\ ResetSession(s).epoch = 0
         /\ ResetSession(s).helloCorr = 0 /\ ResetSession(s).corrCtr = s.corrCtr
<1> DEFINE d == [s EXCEPT !.up = FALSE, !.epoch = 0, !.helloCorr = 0,
                   !.helloDue = TRUE, !.boot = Add(@, 1), !.dedup = <<>>,
                   !.pend = {}, !.q = [p \in Queues |-> <<>>]]
<1>1. 0 \in Word /\ 0 \in Epochs
  BY WireAssumption DEF Word
<1>2. Add(s.boot, 1) \in Word
  BY AddSubWord DEF LinkState, Word
<1>3. d \in LinkState /\ ~d.up /\ d.epoch = 0 /\ d.helloCorr = 0 /\ d.corrCtr = s.corrCtr
  <2>1. /\ <<>> \in Seq(DedupEntry)
        /\ [p \in Queues |-> <<>>] \in [Queues -> Seq(BeatFrame \cup DataFrame)]
    OBVIOUS
  <2> QED BY <1>1, <1>2, <2>1 DEF LinkState
<1>4. ResetSession(s) = FreshChannels(d)
  BY DEF ResetSession
<1> HIDE DEF d
<1> DEFINE e == FreshChannels(d)
<1>5. e = [d EXCEPT !.txSeq = [ch \in Chans |-> 0], !.rxLast = [ch \in Chans |-> 0],
                    !.resyncSent = [ch \in Chans |-> FALSE],
                    !.rasm = [ch \in Chans |-> Closed]]
  BY <1>3, FreshChannelsType
<1> HIDE DEF e
<1>6. ~e.up /\ e.epoch = 0 /\ e.helloCorr = 0 /\ e.corrCtr = s.corrCtr
  BY <1>3, <1>5 DEF LinkState
<1> QED BY <1>4, <1>6 DEF e

-----------------------------------------------------------------------------
(* What a step of the guest does to its session. *)

GuestGoes ==
  /\ g'.up = g.up /\ g'.epoch = g.epoch /\ g'.helloCorr = g.helloCorr
  /\ Sends(g.txSeq, Outbound, g.epoch, g'.txSeq, Outbound', Spare)
  /\ Datagrams(out') \subseteq Outbound

GuestLeaves ==
  /\ ~g'.up /\ g'.epoch = 0 /\ g'.helloCorr = 0 /\ out' = out

GuestJoins(f) ==
  /\ f.type = "HELLO_ACK" /\ Answers(f) /\ ~g.up
  /\ g'.up /\ g'.epoch = f.epoch /\ g'.helloCorr = 0
  /\ g'.txSeq = [ch \in Chans |-> 0] /\ g'.rxLast = [ch \in Chans |-> 0]
  /\ g'.q = g.q /\ out' = out

GuestSearches ==
  /\ ~g.up /\ ~g'.up /\ g'.epoch = g.epoch
  /\ g'.helloCorr = NextCorr(g.corrCtr) /\ g'.corrCtr = NextCorr(g.corrCtr)
  /\ \A f \in Datagrams(out') :
       f \in Datagrams(out) \/ (f.type \notin DataTypes /\ f.corr = NextCorr(g.corrCtr))

\* A part that goes on leaves the guest going on.
LEMMA LinkGuestGoes ==
  ASSUME NEW n \in Nat, n <= Spare, LinkGoesOn(g, g', n), out' = out
  PROVE  GuestGoes
<1>1. Spare \in Nat
  BY WireAssumption DEF Spare
<1>2. Outbound' = Datagrams(out) \cup Queued(g')
  BY DEF Outbound, Queued, Datagrams
<1>3. Sends(g.txSeq, Outbound, g.epoch, g'.txSeq, Outbound', n)
  BY <1>2 DEF LinkGoesOn, Sends, Outbound
<1>4. Sends(g.txSeq, Outbound, g.epoch, g'.txSeq, Outbound', Spare)
  BY <1>1, <1>3, SendsMore
<1>5. Datagrams(out') = Datagrams(out)
  BY DEF Datagrams
<1> QED BY <1>4, <1>5 DEF GuestGoes, LinkGoesOn, Outbound

\* A step that leaves the session, its counters and its frames where they were.
LEMMA GuestSame ==
  ASSUME g'.up = g.up, g'.epoch = g.epoch, g'.helloCorr = g.helloCorr,
         g'.txSeq = g.txSeq, g'.q = g.q, out' = out
  PROVE  GuestGoes
<1>1. Queued(g') = Queued(g) /\ \A m \in Nat : 0 + m = m
  BY DEF Queued
<1>2. LinkGoesOn(g, g', 0)
  BY <1>1 DEF LinkGoesOn, Sends
<1>3. 0 <= Spare
  BY WireAssumption DEF Spare
<1> QED BY <1>2, <1>3, LinkGuestGoes

\* HELLO_ACK, a heartbeat, BYE, and what is ignored (deliver).
LEMMA SessionFrameEffect ==
  ASSUME Sound(g), NEW src, NEW f \in Frame,
         OnHelloAck(src, f) \/ OnHeartbeat(src, f) \/ OnBye(src, f) \/ OnIgnored(src, f)
  PROVE  \/ Mine(src) /\ GuestJoins(f)
         \/ GuestLeaves
         \/ GuestGoes /\ g'.rxLast = g.rxLast
<1>1. g \in LinkState
  BY DEF Sound
<1>2. CASE OnHelloAck(src, f)
  <2> DEFINE h0 == [g EXCEPT !.epoch = f.epoch, !.up = TRUE, !.helloCorr = 0,
                     !.lastRx = g.tick, !.lastHB = g.tick]
  <2>1. f.epoch \in Epochs /\ 0 \in Word
    BY FrameEpoch, WireAssumption DEF Word
  <2>2. h0 \in LinkState
    BY <1>1, <2>1 DEF LinkState
  <2>3. g' = FreshChannels(h0) /\ out' = out
    BY <1>2 DEF OnHelloAck
  <2>4. h0.up = TRUE /\ h0.helloCorr = 0 /\ h0.epoch = f.epoch /\ h0.q = g.q
    BY <1>1 DEF LinkState
  <2> HIDE DEF h0
  <2>5. g' = [h0 EXCEPT !.txSeq = [ch \in Chans |-> 0],
                        !.rxLast = [ch \in Chans |-> 0],
                        !.resyncSent = [ch \in Chans |-> FALSE],
                        !.rasm = [ch \in Chans |-> Closed]]
    BY <2>2, <2>3, FreshChannelsType
  <2>6. /\ g'.up = TRUE /\ g'.helloCorr = 0 /\ g'.epoch = f.epoch /\ g'.q = g.q
        /\ g'.txSeq = [ch \in Chans |-> 0] /\ g'.rxLast = [ch \in Chans |-> 0]
    BY <2>2, <2>4, <2>5 DEF LinkState
  <2>7. ~g.up
    BY <1>2 DEF OnHelloAck, Answers, Sound, DownFirst
  <2> QED BY <1>2, <2>3, <2>6, <2>7 DEF OnHelloAck, GuestJoins
<1>3. CASE OnHeartbeat(src, f)
  <2>1. /\ g'.up = g.up /\ g'.epoch = g.epoch /\ g'.helloCorr = g.helloCorr
        /\ g'.txSeq = g.txSeq /\ g'.q = g.q /\ g'.rxLast = g.rxLast /\ out' = out
    BY <1>1, <1>3 DEF OnHeartbeat, LinkState
  <2> QED BY <2>1, GuestSame
<1>4. CASE OnBye(src, f)
  <2> DEFINE h0 == [g EXCEPT !.lastRx = g.tick]
  <2>1. h0 \in LinkState /\ g' = ResetSession(h0) /\ out' = out
    BY <1>1, <1>4 DEF OnBye, LinkState
  <2> HIDE DEF h0
  <2>2. ~g'.up /\ g'.epoch = 0 /\ g'.helloCorr = 0
    BY <2>1, ResetSessionDown
  <2> QED BY <2>1, <2>2 DEF GuestLeaves
<1>5. CASE OnIgnored(src, f)
  <2>1. g' = g /\ out' = out
    BY <1>5 DEF OnIgnored, guestVars
  <2> QED BY <2>1, GuestSame
<1> QED BY <1>2, <1>3, <1>4, <1>5

\* Every frame of an application channel goes on with the session and at most
\* moves what was heard of its channel to its own number (channelFrame).
LEMMA DataFrameEffect ==
  ASSUME Sound(g), NEW src, NEW f \in Frame,
         \/ OnStale(src, f) \/ OnFragment(src, f) \/ OnMsg(src, f)
         \/ OnResync(src, f) \/ OnReqAgain(src, f) \/ OnReqUnserved(src, f)
         \/ OnReqNew(src, f) \/ OnResp(src, f)
  PROVE  /\ GuestGoes /\ Mine(src) /\ f \in DataFrame /\ InSession(f)
         /\ \/ g'.rxLast = g.rxLast
            \/ ~Stale(g, f) /\ g'.rxLast = [g.rxLast EXCEPT ![f.ch] = f.seq]
<1> DEFINE a == Arrived(g, f)
           m == Message(g, f)
           heard == ~Stale(g, f) /\ g'.rxLast = [g.rxLast EXCEPT ![f.ch] = f.seq]
<1>1. g \in LinkState /\ g.up /\ out' = out
  BY DEF Sound, OnStale, OnFragment, OnMsg, OnResync, OnReqAgain, OnReqUnserved,
         OnReqNew, OnResp, Dispatches, DataArrives, InSession
<1>2. f \in DataFrame /\ InSession(f) /\ Mine(src)
  BY DataFrames DEF OnStale, OnFragment, OnMsg, OnResync, OnReqAgain,
     OnReqUnserved, OnReqNew, OnResp, Dispatches, DataArrives
<1>3. f.ch \in Chans
  BY <1>2 DEF DataFrame
<1>4. /\ Sound(a) /\ a.up /\ a \in LinkState /\ LinkGoesOn(g, a, 1)
      /\ a.rxLast = [g.rxLast EXCEPT ![f.ch] = f.seq]
  BY <1>1, <1>2, ArrivedSound, ArrivedGoesOn DEF Sound
<1>5. ASSUME Completes(g, f)
      PROVE  m.corr \in Word /\ BodyOf(m.parts) \in Bodies
  BY <1>1, <1>2, <1>5, MessageType
<1>6. /\ "RESP" \in DataTypes /\ {"none", "DUPLICATE", "NO_HANDLER"} \subseteq Flags
      /\ NoBody \in Bodies
  BY WireAssumption DEF DataTypes, Flags, Errors
<1>7. 1 \in Nat /\ 1 <= Spare /\ 1 + 0 = 1 /\ Spare \in Nat
  BY WireAssumption DEF Spare
<1> HIDE DEF a, m
\* What has arrived, with an edit of what is not the session's.
<1>8. ASSUME NEW t \in LinkState, SameCourse(a, t), t.txSeq = a.txSeq, t.q = a.q,
             t.rxLast = a.rxLast, g' = t, ~Stale(g, f)
      PROVE  GuestGoes /\ heard
  <2>1. LinkGoesOn(a, t, 0)
    BY <1>8, LinkSame
  <2>2. LinkGoesOn(g, t, 1 + 0)
    BY <1>1, <1>4, <2>1, LinkTwice
  <2>3. LinkGoesOn(g, g', 1)
    BY <1>7, <1>8, <2>2
  <2>4. GuestGoes
    BY <1>1, <1>7, <2>3, LinkGuestGoes
  <2> QED BY <1>4, <1>8, <2>4
\* What has arrived, such an edit, and an answer.
<1>9. ASSUME NEW t, Sound(t), SameCourse(a, t), t.txSeq = a.txSeq, t.q = a.q,
             t.rxLast = a.rxLast, NEW flag \in Flags, NEW corr \in Word, NEW b \in Bodies,
             g' = SendMessage(t, "RESP", flag, f.ch, corr, b), ~Stale(g, f)
      PROVE  GuestGoes /\ heard
  <2>1. t \in LinkState /\ t.up
    BY <1>4, <1>9 DEF Sound, SameCourse
  <2>2. LinkGoesOn(a, t, 0)
    BY <1>9, LinkSame
  <2>3. LinkGoesOn(g, t, 1 + 0)
    BY <1>1, <1>4, <2>1, <2>2, LinkTwice
  <2>4. LinkGoesOn(t, g', Size[b]) /\ Sound(g') /\ g'.rxLast = t.rxLast
    BY <1>3, <1>6, <1>9, <2>1, SendMessageGoesOn, SendMessageSound
  <2>5. /\ Size[b] \in Nat /\ 1 + Size[b] \in Nat /\ 1 + Size[b] <= Spare
        /\ g' \in LinkState
    BY <2>4, SizeRange, WireAssumption DEF Spare, Sound
  <2>6. LinkGoesOn(g, t, 1)
    BY <1>7, <2>3
  <2>7. LinkGoesOn(g, g', 1 + Size[b])
    BY <1>1, <1>7, <2>1, <2>4, <2>5, <2>6, LinkTwice
  <2>8. GuestGoes
    BY <1>1, <2>5, <2>7, LinkGuestGoes
  <2> QED BY <1>4, <1>9, <2>4, <2>8
<1> HIDE DEF heard
<1>10. SameCourse(a, a)
  BY DEF SameCourse
<1>11. CASE OnStale(src, f)
  <2>1. /\ g'.up = g.up /\ g'.epoch = g.epoch /\ g'.helloCorr = g.helloCorr
        /\ g'.txSeq = g.txSeq /\ g'.q = g.q /\ g'.rxLast = g.rxLast
    BY <1>1, <1>11 DEF OnStale, LinkState
  <2> QED BY <1>1, <1>2, <2>1, GuestSame
<1>12. CASE OnFragment(src, f)
  <2> DEFINE k == Accept(g, f)
             r == IF Disagrees(k.rasm[f.ch], f) THEN Closed
                  ELSE Gather(k.rasm[f.ch], f)
             d == IF Disagrees(g.rasm[f.ch], f) THEN k.rasmDue[f.ch]
                  ELSE Add(g.tick, ReassemblyTicks)
             n == [k.rasm EXCEPT ![f.ch] = r]
             nd == [k.rasmDue EXCEPT ![f.ch] = d]
  <2>1. /\ Sound(k) /\ k \in LinkState /\ LinkGoesOn(g, k, 1)
        /\ k.rxLast = [g.rxLast EXCEPT ![f.ch] = f.seq]
    BY <1>1, <1>2, AcceptSound, AcceptGoesOn DEF Sound
  <2>2. g' = [k EXCEPT !.rasm = n, !.rasmDue = nd] /\ ~Stale(g, f)
    BY <1>3, <1>12, <2>1 DEF OnFragment, LinkState
  <2>3. Sound(g')
    BY <1>12, DataFrameStep
  <2> HIDE DEF n, nd, k
  <2>4. /\ SameCourse(k, g') /\ g'.txSeq = k.txSeq /\ g'.q = k.q /\ g'.rxLast = k.rxLast
        /\ g' \in LinkState
    BY <2>1, <2>2, <2>3 DEF LinkState, SameCourse, Sound
  <2>5. LinkGoesOn(k, g', 0)
    BY <2>4, LinkSame
  <2>6. LinkGoesOn(g, g', 1 + 0)
    BY <1>1, <2>1, <2>4, <2>5, LinkTwice
  <2>7. LinkGoesOn(g, g', 1)
    BY <1>7, <2>6
  <2>8. GuestGoes
    BY <1>1, <1>7, <2>7, LinkGuestGoes
  <2> QED BY <1>2, <2>1, <2>2, <2>4, <2>8
<1>13. CASE OnMsg(src, f)
  <2> DEFINE n == [a.resyncSent EXCEPT ![f.ch] = @ /\ m.flag # "snapshot"]
             t == [a EXCEPT !.resyncSent = n]
  <2>1. g' = t /\ ~Stale(g, f)
    BY <1>4, <1>13 DEF OnMsg, Dispatches, a, m, LinkState
  <2>2. n \in [Chans -> BOOLEAN]
    BY <1>4 DEF LinkState
  <2> HIDE DEF n
  <2>3. /\ t \in LinkState /\ SameCourse(a, t) /\ t.txSeq = a.txSeq /\ t.q = a.q
        /\ t.rxLast = a.rxLast
    BY <1>4, <2>2 DEF LinkState, SameCourse
  <2> HIDE DEF t
  <2>4. GuestGoes /\ heard
    BY <1>8, <2>1, <2>3
  <2> QED BY <1>2, <2>4 DEF heard
<1>14. CASE OnResync(src, f)
  <2>1. g' = a /\ ~Stale(g, f)
    BY <1>14 DEF OnResync, Dispatches, a
  <2>2. GuestGoes /\ heard
    BY <1>4, <1>8, <1>10, <2>1
  <2> QED BY <1>2, <2>2 DEF heard
<1>15. CASE OnReqAgain(src, f)
  <2> DEFINE hits == Remembered(a, f.ch, m.corr)
             e == a.dedup[CHOOSE i \in hits : \A j \in hits : i <= j]
  <2>1. Completes(g, f) /\ hits # {} /\ ~Stale(g, f)
    BY <1>15 DEF OnReqAgain, Dispatches, a, m
  <2>2. e.body \in Bodies
    <3> DEFINE i0 == CHOOSE i \in hits : \A j \in hits : i <= j
    <3>1. a.dedup \in Seq(DedupEntry)
      BY <1>4 DEF Sound, LinkState
    <3>2. hits \subseteq 1 .. Len(a.dedup) /\ Len(a.dedup) \in Nat
      BY <3>1, LenProperties DEF Remembered
    <3>3. \E i \in hits : \A j \in hits : i <= j
      <4>1. hits \subseteq Nat
        BY <3>2
      <4> HIDE DEF hits
      <4> QED BY <2>1, <4>1, LeastMember
    <3>4. i0 \in hits
      BY <3>3
    <3> HIDE DEF i0, hits
    <3>5. a.dedup[i0] \in DedupEntry
      BY <3>1, <3>2, <3>4, ElementOfSeq
    <3>6. e = a.dedup[i0]
      BY DEF i0
    <3> QED BY <3>5, <3>6 DEF DedupEntry
  <2>3. g' = IF e.cached THEN SendMessage(a, "RESP", "none", f.ch, m.corr, e.body)
             ELSE SendMessage(a, "RESP", "DUPLICATE", f.ch, m.corr, NoBody)
    BY <1>15 DEF OnReqAgain, a, m
  <2> HIDE DEF e, hits
  <2>4. \E flag \in Flags, b \in Bodies : g' = SendMessage(a, "RESP", flag, f.ch, m.corr, b)
    BY <1>6, <2>2, <2>3
  <2>5. GuestGoes /\ heard
    BY <1>4, <1>5, <1>9, <1>10, <2>1, <2>4
  <2> QED BY <1>2, <2>5 DEF heard
<1>16. CASE OnReqUnserved(src, f)
  <2>1. /\ Completes(g, f) /\ ~Stale(g, f)
        /\ g' = SendMessage(a, "RESP", "NO_HANDLER", f.ch, m.corr, NoBody)
    BY <1>16 DEF OnReqUnserved, Dispatches, a, m
  <2>2. GuestGoes /\ heard
    BY <1>4, <1>5, <1>6, <1>9, <1>10, <2>1
  <2> QED BY <1>2, <2>2 DEF heard
<1>17. CASE OnReqNew(src, f)
  <2> DEFINE b == BodyOf(m.parts)
             k == Remember(a, f.ch, m.corr, b)
  <2>1. /\ Completes(g, f) /\ ~Stale(g, f)
        /\ g' = SendMessage(k, "RESP", "none", f.ch, m.corr, b)
    BY <1>17 DEF OnReqNew, Dispatches, a, m
  <2>2. b \in Bodies /\ m.corr \in Word
    BY <1>5, <2>1
  <2> HIDE DEF b
  <2>3. Sound(k) /\ SameCourse(a, k) /\ k.q = a.q /\ k.txSeq = a.txSeq /\ k.rxLast = a.rxLast
    BY <1>3, <1>4, <2>2, RememberSound, RememberSame
  <2> HIDE DEF k
  <2>4. "none" \in Flags
    BY <1>6
  <2>5. GuestGoes /\ heard
    BY <1>9, <2>1, <2>2, <2>3, <2>4
  <2> QED BY <1>2, <2>5 DEF heard
<1>18. CASE OnResp(src, f)
  <2> DEFINE n == a.pend \ Answered(a, f.ch, m.corr)
             t == [a EXCEPT !.pend = n]
  <2>1. g' = t /\ ~Stale(g, f)
    BY <1>18 DEF OnResp, Dispatches, a, m
  <2>2. n \in SUBSET Pending
    BY <1>4 DEF LinkState
  <2> HIDE DEF n
  <2>3. /\ t \in LinkState /\ SameCourse(a, t) /\ t.txSeq = a.txSeq /\ t.q = a.q
        /\ t.rxLast = a.rxLast
    BY <1>4, <2>2 DEF LinkState, SameCourse
  <2> HIDE DEF t
  <2>4. GuestGoes /\ heard
    BY <1>8, <2>1, <2>3
  <2> QED BY <1>2, <2>4 DEF heard
<1> QED BY <1>11, <1>12, <1>13, <1>14, <1>15, <1>16, <1>17, <1>18

\* A datagram begins a session, ends one, or goes on with it (deliver).
LEMMA DeliverEffect ==
  ASSUME Sound(g), NEW src, NEW f \in Frame, Deliver(src, f)
  PROVE  \/ Mine(src) /\ GuestJoins(f)
         \/ GuestLeaves
         \/ /\ GuestGoes
            /\ \/ g'.rxLast = g.rxLast
               \/ /\ Mine(src) /\ f \in DataFrame /\ InSession(f) /\ ~Stale(g, f)
                  /\ g'.rxLast = [g.rxLast EXCEPT ![f.ch] = f.seq]
<1>1. CASE OnHelloAck(src, f) \/ OnHeartbeat(src, f) \/ OnBye(src, f) \/ OnIgnored(src, f)
  BY <1>1, SessionFrameEffect
<1>2. CASE \/ OnStale(src, f) \/ OnFragment(src, f) \/ OnMsg(src, f)
           \/ OnResync(src, f) \/ OnReqAgain(src, f) \/ OnReqUnserved(src, f)
           \/ OnReqNew(src, f) \/ OnResp(src, f)
  BY <1>2, DataFrameEffect
<1> QED BY <1>1, <1>2 DEF Deliver

\* A step that gives out no number and puts no message on its way that was not
\* on its way already.
LEMMA GuestQuiet ==
  ASSUME g'.up = g.up, g'.epoch = g.epoch, g'.helloCorr = g.helloCorr,
         g'.txSeq = g.txSeq, Datagrams(out') \subseteq Outbound,
         \A f \in Outbound' : f \in Outbound \/ f.type \notin DataTypes
  PROVE  GuestGoes
<1>1. \A m \in Nat : 0 + m = m
  OBVIOUS
<1>2. Sends(g.txSeq, Outbound, g.epoch, g'.txSeq, Outbound', 0)
  BY <1>1 DEF Sends
<1>3. 0 <= Spare /\ Spare \in Nat
  BY WireAssumption DEF Spare
<1>4. Sends(g.txSeq, Outbound, g.epoch, g'.txSeq, Outbound', Spare)
  BY <1>2, <1>3, SendsMore
<1> QED BY <1>4 DEF GuestGoes

\* The application's calls go on with the session (Send, Snapshot, Request).
LEMMA AppEffect ==
  ASSUME Sound(g), NEW ch \in Chans, NEW b \in Bodies,
         \/ \E flag \in {"none", "snapshot"} : AppSend(ch, flag, b)
         \/ AppRequest(ch, b) \/ AppRequestRefused(ch, b)
  PROVE  GuestGoes /\ g'.rxLast = g.rxLast
<1>1. g \in LinkState /\ g.up /\ out' = out
  BY DEF Sound, AppSend, AppRequest, AppRequestRefused, Callable
<1>2. /\ {"MSG", "REQ"} \subseteq DataTypes /\ {"none", "snapshot"} \subseteq Flags
      /\ 0 \in Word
  BY WireAssumption DEF DataTypes, Flags, Word
<1>3. NextCorr(g.corrCtr) \in Word
  BY <1>1, MintedCorr DEF LinkState
<1>4. Size[b] \in Nat /\ Size[b] <= Spare /\ 0 + Size[b] = Size[b]
  BY SizeRange, WireAssumption DEF Spare
<1>5. CASE \E flag \in {"none", "snapshot"} : AppSend(ch, flag, b)
  <2>1. PICK flag \in {"none", "snapshot"} : AppSend(ch, flag, b)
    BY <1>5
  <2>2. g' = SendMessage(g, "MSG", flag, ch, 0, b) /\ flag \in Flags /\ "MSG" \in DataTypes
    BY <1>2, <2>1 DEF AppSend
  <2>3. LinkGoesOn(g, g', Size[b]) /\ g'.rxLast = g.rxLast
    BY <1>1, <1>2, <2>2, SendMessageSound, SendMessageGoesOn
  <2> QED BY <1>1, <1>4, <2>3, LinkGuestGoes
<1>6. CASE AppRequest(ch, b)
  <2> DEFINE corr == NextCorr(g.corrCtr)
             p == [ch |-> ch, corr |-> corr, body |-> b, tries |-> 0,
                   interval |-> RetryTicks, due |-> Add(g.tick, RetryTicks)]
             k == [g EXCEPT !.corrCtr = corr, !.pend = @ \cup {p}]
  <2>1. g' = SendMessage(k, "REQ", "none", ch, corr, b)
    BY <1>6 DEF AppRequest
  <2>2. RetryTicks \in Word
    BY GuestAssumption, HalfModulus DEF Word
  <2>3. Add(g.tick, RetryTicks) \in Word
    BY <1>1, <2>2, AddSubWord DEF LinkState, Word
  <2>4. p \in Pending
    BY <1>3, <2>2, <2>3 DEF Pending
  <2> HIDE DEF p, corr
  <2>5. /\ k \in LinkState /\ SameCourse(g, k) /\ k.q = g.q /\ k.dedup = g.dedup
        /\ k.txSeq = g.txSeq /\ k.rxLast = g.rxLast
    BY <1>1, <1>3, <2>4 DEF LinkState, SameCourse, corr
  <2> HIDE DEF k
  <2>6. Sound(k) /\ k.up /\ LinkGoesOn(g, k, 0)
    BY <1>1, <2>5, SoundKept, LinkSame DEF SameCourse
  <2>7. "REQ" \in DataTypes /\ "none" \in Flags /\ corr \in Word
    BY <1>2, <1>3 DEF corr
  <2>8. Sound(g') /\ g'.rxLast = k.rxLast /\ LinkGoesOn(k, g', Size[b])
    BY <2>1, <2>6, <2>7, SendMessageSound, SendMessageGoesOn
  <2>9. g' \in LinkState
    BY <2>8 DEF Sound
  <2>10. LinkGoesOn(g, g', 0 + Size[b])
    BY <1>1, <1>4, <2>5, <2>6, <2>8, <2>9, LinkTwice
  <2>11. LinkGoesOn(g, g', Size[b])
    BY <1>4, <2>10
  <2> QED BY <1>1, <1>4, <2>5, <2>8, <2>11, LinkGuestGoes
<1>7. CASE AppRequestRefused(ch, b)
  <2>1. g' = [g EXCEPT !.corrCtr = NextCorr(@)]
    BY <1>7 DEF AppRequestRefused
  <2>2. /\ g'.up = g.up /\ g'.epoch = g.epoch /\ g'.helloCorr = g.helloCorr
        /\ g'.txSeq = g.txSeq /\ g'.q = g.q /\ g'.rxLast = g.rxLast
    BY <1>1, <2>1 DEF LinkState
  <2> QED BY <1>1, <2>2, GuestSame
<1> QED BY <1>5, <1>6, <1>7

\* A heartbeat joins the queue, and nothing else (serviceSession).
LEMMA BeatQueued ==
  ASSUME GuestInv, SessionBeat
  PROVE  /\ g'.up = g.up /\ g'.epoch = g.epoch /\ g'.helloCorr = g.helloCorr
         /\ g'.corrCtr = g.corrCtr /\ g'.txSeq = g.txSeq /\ g'.rxLast = g.rxLast
         /\ g'.rasm = g.rasm /\ g'.pend = g.pend /\ g'.dedup = g.dedup /\ out' = out
         /\ \A f \in Queued(g') : f \in Queued(g) \/ f.type \notin DataTypes
<1> DEFINE beat == [type |-> "HEARTBEAT", epoch |-> g.epoch, tick |-> g.tick]
           old == g.q["control"]
           new == Append(old, beat)
<1>1. g \in LinkState
  BY DEF GuestInv, Sound
<1>2. /\ out' = out
      /\ g' = [g EXCEPT !.lastHB = g.tick, !.q = [g.q EXCEPT !["control"] = new]]
  BY <1>1 DEF SessionBeat, LinkState
<1>3. /\ "control" \in Queues /\ g.q \in [Queues -> Seq(BeatFrame \cup DataFrame)]
      /\ old \in Seq(BeatFrame \cup DataFrame)
  BY <1>1 DEF Queues, LinkState
<1>4. beat \in BeatFrame \cup DataFrame /\ beat.type \notin DataTypes
  BY <1>1 DEF BeatFrame, LinkState, DataTypes
<1> HIDE DEF beat, old
<1>5. /\ new \in Seq(BeatFrame \cup DataFrame) /\ Len(new) = Len(old) + 1
      /\ \A i \in 1 .. Len(old) : new[i] = old[i]
      /\ new[Len(old) + 1] = beat
  BY <1>3, <1>4, AppendProperties
<1>6. /\ DOMAIN new = 1 .. Len(old) + 1 /\ DOMAIN old = 1 .. Len(old)
      /\ Len(old) \in Nat
  BY <1>3, <1>5, LenProperties
<1> HIDE DEF new
<1>7. Datagrams(new) \subseteq Datagrams(old) \cup {beat}
  <2>1. ASSUME NEW i \in DOMAIN new PROVE new[i] \in Datagrams(old) \cup {beat}
    <3>1. i \in DOMAIN old \/ i = Len(old) + 1
      BY <1>6
    <3> QED BY <1>5, <1>6, <3>1 DEF Datagrams
  <2> QED BY <2>1 DEF Datagrams
<1>8. /\ g'.up = g.up /\ g'.epoch = g.epoch /\ g'.helloCorr = g.helloCorr
      /\ g'.corrCtr = g.corrCtr /\ g'.txSeq = g.txSeq /\ g'.rxLast = g.rxLast
      /\ g'.rasm = g.rasm /\ g'.pend = g.pend /\ g'.dedup = g.dedup
      /\ g'.q = [g.q EXCEPT !["control"] = new]
  BY <1>1, <1>2 DEF LinkState
<1>9. ASSUME NEW f \in Queued(g') PROVE f \in Queued(g) \/ f.type \notin DataTypes
  <2>1. PICK p \in Queues : f \in Datagrams(g'.q[p])
    BY DEF Queued
  <2>2. CASE p = "control"
    <3>1. g'.q[p] = new
      BY <1>3, <1>8, <2>2
    <3>2. Datagrams(old) \subseteq Queued(g)
      BY <1>3 DEF Queued, old
    <3> QED BY <1>4, <1>7, <2>1, <3>1, <3>2
  <2>3. CASE p # "control"
    <3>1. g'.q[p] = g.q[p]
      BY <1>3, <1>8, <2>3
    <3> QED BY <2>1, <3>1 DEF Queued
  <2> QED BY <2>2, <2>3
<1> QED BY <1>2, <1>8, <1>9

\* The session stage of Pump ends the session, searches for one, or goes on
\* (serviceSession).
LEMMA SessionStageEffect ==
  ASSUME GuestInv, SessionLost \/ SessionSearch \/ SessionBeat \/ SessionIdle
  PROVE  \/ GuestLeaves
         \/ GuestSearches
         \/ GuestGoes /\ g'.rxLast = g.rxLast
<1>1. g \in LinkState /\ out \in Seq(Frame)
  BY DEF GuestInv, Sound
<1>2. CASE SessionLost
  <2>1. g' = ResetSession(g) /\ out' = out
    BY <1>2 DEF SessionLost
  <2> QED BY <1>1, <2>1, ResetSessionDown DEF GuestLeaves
<1>3. CASE SessionSearch
  <2> DEFINE corr == NextCorr(g.corrCtr)
             hello == [type |-> "HELLO", epoch |-> g.boot, corr |-> corr,
                       tick |-> g.tick, name |-> GuestName]
  <2>1. /\ ~g.up /\ out' = Put(out, hello, SockBuf)
        /\ g' = [g EXCEPT !.corrCtr = corr, !.helloCorr = corr, !.helloDue = FALSE,
                          !.lastHello = g.tick]
    BY <1>3 DEF SessionSearch
  <2>2. corr \in Word /\ g.boot \in Epochs
    BY <1>1, MintedCorr, WireAssumption DEF LinkState, Word
  <2>3. hello \in Frame /\ hello.type \notin DataTypes /\ hello.corr = corr
    BY <1>1, <2>2, GuestAssumption DEF Frame, HelloFrame, LinkState, DataTypes
  <2> HIDE DEF hello
  <2>4. Datagrams(out') \subseteq Datagrams(out) \cup {hello}
    BY <1>1, <2>1, <2>3, PutSound
  <2>5. g'.up = g.up /\ g'.epoch = g.epoch /\ g'.helloCorr = corr /\ g'.corrCtr = corr
    BY <1>1, <2>1 DEF LinkState
  <2> QED BY <2>1, <2>3, <2>4, <2>5 DEF GuestSearches
<1>4. CASE SessionBeat
  <2>1. /\ g'.up = g.up /\ g'.epoch = g.epoch /\ g'.helloCorr = g.helloCorr
        /\ g'.txSeq = g.txSeq /\ g'.rxLast = g.rxLast /\ out' = out
        /\ \A f \in Queued(g') : f \in Queued(g) \/ f.type \notin DataTypes
    BY <1>4, BeatQueued
  <2>2. Outbound' = Datagrams(out) \cup Queued(g')
    BY <2>1 DEF Outbound, Queued, Datagrams
  <2>3. \A f \in Outbound' : f \in Outbound \/ f.type \notin DataTypes
    BY <2>1, <2>2 DEF Outbound
  <2>4. Datagrams(out') \subseteq Outbound
    BY <2>1 DEF Outbound, Datagrams
  <2> QED BY <2>1, <2>3, <2>4, GuestQuiet
<1>5. CASE SessionIdle
  <2>1. g' = g /\ out' = out
    BY <1>5 DEF SessionIdle
  <2> QED BY <2>1, GuestSame
<1> QED BY <1>2, <1>3, <1>4, <1>5

\* The service of the requests goes on with the session (serviceRetries).
LEMMA RetryEffect ==
  ASSUME GuestInv,
         \/ \E p \in g.pend : RetryTimeout(p) \/ RetryResend(p)
         \/ RetriesDone
  PROVE  GuestGoes /\ g'.rxLast = g.rxLast
<1>1. g \in LinkState /\ Sound(g) /\ out' = out
  BY DEF GuestInv, Sound, RetryTimeout, RetryResend, RetriesDone
<1>2. ASSUME NEW p \in g.pend, RetryTimeout(p) PROVE GuestGoes /\ g'.rxLast = g.rxLast
  <2>1. g' = [g EXCEPT !.pend = @ \ {p}]
    BY <1>2 DEF RetryTimeout
  <2>2. /\ g'.up = g.up /\ g'.epoch = g.epoch /\ g'.helloCorr = g.helloCorr
        /\ g'.txSeq = g.txSeq /\ g'.q = g.q /\ g'.rxLast = g.rxLast
    BY <1>1, <2>1 DEF LinkState
  <2> QED BY <1>1, <2>2, GuestSame
<1>3. ASSUME NEW p \in g.pend, RetryResend(p) PROVE GuestGoes /\ g'.rxLast = g.rxLast
  <2> DEFINE q == [p EXCEPT !.tries = @ + 1, !.interval = Backoff(@),
                     !.due = Add(g.tick, Backoff(p.interval))]
             k == [g EXCEPT !.pend = (@ \ {p}) \cup {q}]
  <2>1. g' = SendMessage(k, "REQ", "none", p.ch, p.corr, p.body)
    BY <1>3 DEF RetryResend
  <2>2. /\ p \in Pending /\ p.ch \in Chans /\ p.corr \in Word /\ p.body \in Bodies
        /\ p.tries \in Nat /\ p.interval \in Nat /\ g.tick \in Word
    BY <1>1, <1>3 DEF Pending, LinkState, Word
  <2>3. Backoff(p.interval) \in Word
    BY <2>2, BackoffRange
  <2>4. Add(g.tick, Backoff(p.interval)) \in Word
    <3>1. g.tick \in Int /\ Backoff(p.interval) \in Int
      BY <2>2, <2>3 DEF Word
    <3> QED BY <3>1, AddSubWord
  <2>5. q \in Pending
    <3>1. p.tries + 1 \in Nat
      BY <2>2
    <3> QED BY <2>2, <2>3, <2>4, <3>1 DEF Pending
  <2> HIDE DEF q
  <2>6. g.up
    BY <1>1, <1>3, BusyIsUp
  <2>7. /\ k \in LinkState /\ SameCourse(g, k) /\ k.q = g.q /\ k.dedup = g.dedup
        /\ k.txSeq = g.txSeq /\ k.rxLast = g.rxLast
    BY <1>1, <2>5 DEF LinkState, SameCourse
  <2> HIDE DEF k
  <2>8. Sound(k) /\ k.up /\ LinkGoesOn(g, k, 0)
    BY <1>1, <2>6, <2>7, SoundKept, LinkSame DEF SameCourse
  <2>9. "REQ" \in DataTypes /\ "none" \in Flags
    BY DEF DataTypes, Flags
  <2>10. Sound(g') /\ g'.rxLast = k.rxLast /\ LinkGoesOn(k, g', Size[p.body])
    BY <2>1, <2>2, <2>8, <2>9, SendMessageSound, SendMessageGoesOn
  <2>11. /\ g' \in LinkState /\ Size[p.body] \in Nat
         /\ Size[p.body] <= Spare /\ 0 + Size[p.body] = Size[p.body]
    BY <2>2, <2>10, SizeRange, WireAssumption DEF Sound, Spare
  <2>12. LinkGoesOn(g, g', 0 + Size[p.body])
    BY <1>1, <2>7, <2>8, <2>10, <2>11, LinkTwice
  <2>13. LinkGoesOn(g, g', Size[p.body])
    BY <2>11, <2>12
  <2> QED BY <1>1, <2>7, <2>10, <2>11, <2>13, LinkGuestGoes
<1>4. CASE RetriesDone
  BY <1>1, <1>4, GuestSame DEF RetriesDone
<1> QED BY <1>2, <1>3, <1>4

\* The flush moves a frame from a queue to the socket (flush).
LEMMA FlushMoves ==
  ASSUME GuestInv, FlushFrame
  PROVE  /\ g'.up = g.up /\ g'.epoch = g.epoch /\ g'.helloCorr = g.helloCorr
         /\ g'.corrCtr = g.corrCtr /\ g'.txSeq = g.txSeq /\ g'.rxLast = g.rxLast
         /\ g'.rasm = g.rasm /\ g'.pend = g.pend /\ g'.dedup = g.dedup
         /\ Queued(g') \subseteq Queued(g)
         /\ Datagrams(out') \subseteq Datagrams(out) \cup Queued(g)
<1> DEFINE from == IF g.q["control"] # <<>> THEN "control" ELSE "bulk"
           old == g.q[from]
           new == Tail(old)
<1>1. g \in LinkState /\ out \in Seq(Frame)
  BY DEF GuestInv, Sound
<1>2. /\ old # <<>> /\ out' = Put(out, Head(old), SockBuf)
      /\ g' = [g EXCEPT !.q = [g.q EXCEPT ![from] = new]]
  BY <1>1 DEF FlushFrame, LinkState
<1>3. /\ from \in Queues /\ g.q \in [Queues -> Seq(BeatFrame \cup DataFrame)]
      /\ old \in Seq(BeatFrame \cup DataFrame)
  BY <1>1 DEF Queues, LinkState
<1> HIDE DEF from
<1>4. Datagrams(old) \subseteq Queued(g)
  BY <1>3 DEF Queued
<1> HIDE DEF old
<1>5. /\ Head(old) \in BeatFrame \cup DataFrame
      /\ new \in Seq(BeatFrame \cup DataFrame) /\ Len(new) = Len(old) - 1
      /\ \A i \in 1 .. Len(new) : new[i] = old[i + 1]
  BY <1>2, <1>3, HeadTailProperties
<1>6. /\ DOMAIN new = 1 .. Len(new) /\ DOMAIN old = 1 .. Len(old)
      /\ Len(old) \in Nat /\ Len(new) \in Nat /\ Len(old) >= 1
  BY <1>3, <1>5, LenProperties
<1> HIDE DEF new
<1>7. Datagrams(new) \subseteq Datagrams(old)
  <2>1. ASSUME NEW i \in DOMAIN new PROVE new[i] \in Datagrams(old)
    <3>1. i + 1 \in DOMAIN old /\ i \in 1 .. Len(new)
      BY <1>5, <1>6
    <3> QED BY <1>5, <3>1 DEF Datagrams
  <2> QED BY <2>1 DEF Datagrams
<1>8. Head(old) \in Datagrams(old)
  <2>1. 1 \in DOMAIN old /\ Head(old) = old[1]
    BY <1>3, <1>6
  <2> QED BY <2>1 DEF Datagrams
<1>9. Datagrams(out') \subseteq Datagrams(out) \cup {Head(old)}
  <2>1. Head(old) \in Frame
    BY <1>5 DEF Frame
  <2> QED BY <1>1, <1>2, <2>1, PutSound
<1>10. /\ g'.up = g.up /\ g'.epoch = g.epoch /\ g'.helloCorr = g.helloCorr
       /\ g'.corrCtr = g.corrCtr /\ g'.txSeq = g.txSeq /\ g'.rxLast = g.rxLast
       /\ g'.rasm = g.rasm /\ g'.pend = g.pend /\ g'.dedup = g.dedup
       /\ g'.q = [g.q EXCEPT ![from] = new]
  BY <1>1, <1>2 DEF LinkState
<1>11. ASSUME NEW f \in Queued(g') PROVE f \in Queued(g)
  <2>1. PICK p \in Queues : f \in Datagrams(g'.q[p])
    BY DEF Queued
  <2>2. CASE p = from
    <3>1. g'.q[p] = new
      BY <1>3, <1>10, <2>2
    <3> QED BY <1>4, <1>7, <2>1, <3>1
  <2>3. CASE p # from
    <3>1. g'.q[p] = g.q[p]
      BY <1>3, <1>10, <2>3
    <3> QED BY <2>1, <3>1 DEF Queued
  <2> QED BY <2>2, <2>3
<1> QED BY <1>4, <1>8, <1>9, <1>10, <1>11

\* The flush moves frames from a queue to the socket, and no number (flush).
LEMMA FlushEffect ==
  ASSUME GuestInv, FlushFrame \/ FlushDone
  PROVE  GuestGoes /\ g'.rxLast = g.rxLast
<1>1. CASE FlushFrame
  <2>1. /\ g'.up = g.up /\ g'.epoch = g.epoch /\ g'.helloCorr = g.helloCorr
        /\ g'.txSeq = g.txSeq /\ g'.rxLast = g.rxLast
        /\ Queued(g') \subseteq Queued(g)
        /\ Datagrams(out') \subseteq Datagrams(out) \cup Queued(g)
    BY <1>1, FlushMoves
  <2>2. Outbound' = Datagrams(out') \cup Queued(g')
    BY DEF Outbound, Queued, Datagrams
  <2>3. /\ \A f \in Outbound' : f \in Outbound \/ f.type \notin DataTypes
        /\ Datagrams(out') \subseteq Outbound
    BY <2>1, <2>2 DEF Outbound
  <2> QED BY <2>1, <2>3, GuestQuiet
<1>2. CASE FlushDone
  BY <1>2, GuestSame DEF FlushDone
<1> QED BY <1>1, <1>2

\* Every stage of Pump (Pump).
LEMMA PumpEffect ==
  ASSUME GuestInv, PumpBegin \/ PumpReceived \/ PumpStage
  PROVE  \/ GuestLeaves
         \/ GuestSearches
         \/ GuestGoes /\ g'.rxLast = g.rxLast
<1>1. g \in LinkState /\ Sound(g)
  BY DEF GuestInv, Sound
<1>2. CASE PumpBegin
  <2>1. /\ g'.up = g.up /\ g'.epoch = g.epoch /\ g'.helloCorr = g.helloCorr
        /\ g'.txSeq = g.txSeq /\ g'.q = g.q /\ g'.rxLast = g.rxLast /\ out' = out
    BY <1>1, <1>2 DEF PumpBegin, LinkState
  <2> QED BY <2>1, GuestSame
<1>3. CASE PumpReceived
  <2> DEFINE k == ExpireReassembly(g)
  <2>1. g' = ExpireDedup(k) /\ out' = out
    BY <1>3 DEF PumpReceived
  <2>2. Sound(k) /\ SameCourse(g, k)
    BY <1>1, ExpireReassemblySound
  <2>3. k.txSeq = g.txSeq /\ k.q = g.q /\ k.rxLast = g.rxLast
    BY <1>1, ExpireSame
  <2> HIDE DEF k
  <2>4. k \in LinkState /\ SameCourse(k, g')
    BY <2>1, <2>2, ExpireDedupSound DEF Sound
  <2>5. g'.txSeq = k.txSeq /\ g'.q = k.q /\ g'.rxLast = k.rxLast
    BY <2>1, <2>4, ExpireSame
  <2>6. g'.up = g.up /\ g'.epoch = g.epoch /\ g'.helloCorr = g.helloCorr
    BY <2>2, <2>4 DEF SameCourse
  <2> QED BY <2>1, <2>3, <2>5, <2>6, GuestSame
<1>4. CASE PumpStage
  <2>1. CASE SessionLost \/ SessionSearch \/ SessionBeat \/ SessionIdle
    BY <2>1, SessionStageEffect
  <2>2. CASE \/ \E p \in g.pend : RetryTimeout(p) \/ RetryResend(p)
             \/ RetriesDone
    BY <2>2, RetryEffect
  <2>3. CASE FlushFrame \/ FlushDone
    BY <2>3, FlushEffect
  <2> QED BY <1>4, <2>1, <2>2, <2>3 DEF PumpStage
<1> QED BY <1>2, <1>3, <1>4

-----------------------------------------------------------------------------
(* The invariant of the whole session, whatever is lost, copied, restored  *)
(* or restarted.                                                           *)

\* A HELLO_ACK on its way offers a session of this companion's.
AcksOwn == \A f \in Datagrams(toGuest) : f.type = "HELLO_ACK" => f.epoch \in Tokens

\* A save holds a link between two Pumps.
SavedSound(s) ==
  /\ Sound(s.link) /\ Joined(s.link)
  /\ \A p \in s.link.pend : OnTime(p, s.link.tick, 1)

HistoryOK(k) ==
  /\ k \in [{"asked", "ran", "told", "said", "heard"} ->
              {k.asked, k.ran, k.told, k.said, k.heard}]
  /\ k.said \in [guest : 0 .. GuestMsgs, sdk : 0 .. SdkMsgs]

BooksOK ==
  /\ HistoryOK(h)
  /\ owed \in [guest : SUBSET Chans, sdk : SUBSET Chans]
  /\ used \in [loss : 0 .. MaxLoss, dup : 0 .. MaxDup, loads : 0 .. MaxLoads,
              stops : 0 .. MaxStops, stray : 0 .. MaxStray]
  /\ lead \in 0 .. MaxDown

IpcInv ==
  /\ GuestInv /\ Joined(g)
  /\ CompanionSound /\ AcksOwn
  /\ \A s \in saved : SavedSound(s)
  /\ BooksOK

-----------------------------------------------------------------------------
(* The parts of a step of the whole. *)

\* What is left on a socket a datagram was taken from.
LEMMA WithoutSound ==
  ASSUME NEW sock \in Seq(Frame), NEW i \in DOMAIN sock
  PROVE  /\ Without(sock, i) \in Seq(Frame)
         /\ Datagrams(Without(sock, i)) \subseteq Datagrams(sock)
<1> DEFINE a == SubSeq(sock, 1, i - 1)
           b == SubSeq(sock, i + 1, Len(sock))
           D == Datagrams(sock)
<1>1. DOMAIN sock = 1 .. Len(sock) /\ Len(sock) \in Nat /\ i \in 1 .. Len(sock)
  BY LenProperties
<1>2. D \subseteq Frame /\ \A j \in 1 .. Len(sock) : sock[j] \in D
  BY <1>1, DatagramsFrames DEF Datagrams
<1>3. a \in Seq(D)
  <2>1. 1 \in Int /\ i - 1 \in Int /\ \A j \in 1 .. i - 1 : sock[j] \in D
    BY <1>1, <1>2
  <2> HIDE DEF D
  <2> QED BY <2>1, SubSeqProperties
<1>4. b \in Seq(D)
  <2>1. i + 1 \in Int /\ Len(sock) \in Int /\ \A j \in i + 1 .. Len(sock) : sock[j] \in D
    BY <1>1, <1>2
  <2> HIDE DEF D
  <2> QED BY <2>1, SubSeqProperties
<1> HIDE DEF a, b, D
<1>5. a \o b \in Seq(D)
  BY <1>3, <1>4, ConcatProperties
<1>6. Without(sock, i) = a \o b
  BY DEF Without, a, b
<1> DEFINE w == a \o b
<1> HIDE DEF w
<1>7. w \in Seq(D) /\ w \in Seq(Frame)
  <2>1. w \in Seq(D)
    BY <1>5 DEF w
  <2> QED BY <1>2, <2>1, SeqMonotonic
<1>8. Datagrams(w) \subseteq D
  BY <1>7, ElementOfSeq, LenProperties DEF Datagrams
<1> QED BY <1>6, <1>7, <1>8 DEF w, D

\* A datagram that is copied was on its way.
LEMMA CopySound ==
  ASSUME NEW sock \in Seq(Frame), NEW i \in DOMAIN sock
  PROVE  /\ Append(sock, sock[i]) \in Seq(Frame)
         /\ Datagrams(Append(sock, sock[i])) \subseteq Datagrams(sock)
<1>1. sock[i] \in Datagrams(sock) /\ sock[i] \in Frame /\ Len(sock) \in Nat
  BY DatagramsFrames, LenProperties DEF Datagrams
<1> DEFINE f == sock[i]
<1> HIDE DEF f
<1>2. f \in Datagrams(sock) /\ f \in Frame
  BY <1>1 DEF f
<1>3. Put(sock, f, Len(sock) + 1) = Append(sock, f)
  BY <1>1 DEF Put
<1>4. /\ Put(sock, f, Len(sock) + 1) \in Seq(Frame)
      /\ Datagrams(Put(sock, f, Len(sock) + 1)) \subseteq Datagrams(sock) \cup {f}
  BY <1>2, PutSound
<1> QED BY <1>2, <1>3, <1>4 DEF f

\* What is taken from a socket was on it, and a frame.
LEMMA TakenFrame ==
  ASSUME NEW sock \in Seq(Frame), NEW i \in Readable(sock)
  PROVE  i \in DOMAIN sock /\ sock[i] \in Frame /\ sock[i] \in Datagrams(sock)
<1>1. i \in DOMAIN sock
  BY DEF Readable
<1> QED BY <1>1, DatagramsFrames DEF Datagrams

\* Bookkeeping of what applications asked, were told and heard.
LEMMA HistoryKept ==
  ASSUME NEW k, HistoryOK(k), NEW v
  PROVE  /\ HistoryOK([k EXCEPT !.asked = v])
         /\ HistoryOK([k EXCEPT !.ran = v])
         /\ HistoryOK([k EXCEPT !.told = v])
         /\ HistoryOK([k EXCEPT !.heard = v])
BY DEF HistoryOK

\* And so does saying one message more.
LEMMA HistorySaid ==
  ASSUME NEW k, HistoryOK(k), NEW v \in [guest : 0 .. GuestMsgs, sdk : 0 .. SdkMsgs]
  PROVE  HistoryOK([k EXCEPT !.said = v])
BY DEF HistoryOK

\* A request that was executed is counted.
LEMMA RanHistory ==
  ASSUME HistoryOK(h), NEW r
  PROVE  HistoryOK(Ran(h, r))
<1>1. Ran(h, r) = h \/ \E v : Ran(h, r) = [h EXCEPT !.ran = v]
  BY DEF Ran, HistoryOK
<1>2. CASE \E v : Ran(h, r) = [h EXCEPT !.ran = v]
  <2>1. PICK v : Ran(h, r) = [h EXCEPT !.ran = v]
    BY <1>2
  <2>2. HistoryOK([h EXCEPT !.ran = v])
    BY HistoryKept
  <2> QED BY <2>1, <2>2
<1> QED BY <1>1, <1>2

\* What an end's application learns from a datagram.
LEMMA LearnsHistory ==
  ASSUME HistoryOK(h), NEW f
  PROVE  HistoryOK(GuestLearns(f)) /\ HistoryOK(SdkLearns(f))
<1>1. ASSUME NEW who, NEW epoch, NEW m PROVE HistoryOK(Heard(h, who, epoch, m))
  <2>1. \E v : Heard(h, who, epoch, m) = [h EXCEPT !.heard = v]
    BY DEF Heard, HistoryOK
  <2>2. PICK v : Heard(h, who, epoch, m) = [h EXCEPT !.heard = v]
    BY <2>1
  <2>3. HistoryOK([h EXCEPT !.heard = v])
    BY HistoryKept
  <2> QED BY <2>2, <2>3
<1>2. HistoryOK(GuestLearns(f))
  <2> DEFINE m == Message(g, f)
             lost == Settled(h, g.pend, g'.pend, Lost)
             told == Settled(h, g.pend, g'.pend, LAMBDA r : ReplyOf(m, r))
  <2>1. GuestLearns(f) \in {lost, told, Heard(h, "guest", f.epoch, m),
                            Ran(h, BodyOf(m.parts)), h}
    BY DEF GuestLearns
  <2>2. HistoryOK(lost)
    BY HistoryKept DEF Settled
  <2>3. HistoryOK(told)
    BY HistoryKept DEF Settled
  <2> HIDE DEF lost, told, m
  <2> QED BY RanHistory, <1>1, <2>1, <2>2, <2>3
<1>3. HistoryOK(SdkLearns(f))
  <2> DEFINE m == SdkMessage(f)
             lost == Settled(h, c.pend, c'.pend, Lost)
             told == Settled(h, c.pend, c'.pend, LAMBDA r : ReplyOf(m, r))
  <2>1. SdkLearns(f) \in {lost, told, Heard(h, "sdk", f.epoch, m), h}
    BY DEF SdkLearns
  <2>2. HistoryOK(lost)
    BY HistoryKept DEF Settled
  <2>3. HistoryOK(told)
    BY HistoryKept DEF Settled
  <2> HIDE DEF lost, told, m
  <2> QED BY <1>1, <2>1, <2>2, <2>3
<1> QED BY <1>2, <1>3

-----------------------------------------------------------------------------
(* What a step of the whole is: a turn of one end, or of what is between.  *)

Typed ==
  /\ GuestInv /\ CompanionTypeOK
  /\ \A s \in saved : SavedSound(s)
  /\ BooksOK

\* Between the ends nothing new comes up.
Between ==
  /\ g' = g /\ c' = c
  /\ Datagrams(out') \subseteq Datagrams(out)
  /\ Datagrams(toGuest') \subseteq Datagrams(toGuest)

GuestTurn ==
  /\ c' = c /\ Datagrams(toGuest') \subseteq Datagrams(toGuest)
  /\ \/ GuestLeaves \/ GuestSearches
     \/ \E f \in Datagrams(toGuest) : GuestJoins(f)
     \/ /\ GuestGoes
        /\ \/ g'.rxLast = g.rxLast
           \/ \E f \in Datagrams(toGuest) :
                /\ f \in DataFrame /\ InSession(f) /\ ~Stale(g, f)
                /\ g'.rxLast = [g.rxLast EXCEPT ![f.ch] = f.seq]
                /\ h' = GuestLearns(f)

\* A HELLO of the guest's, or another mod's.
Greets(f) == (f.type = "HELLO" /\ f \in Datagrams(out)) \/ f.corr = 1

SdkTurn ==
  /\ g' = g /\ Datagrams(out') \subseteq Datagrams(out)
  /\ \/ Leaves
     \/ \E f : Greets(f) /\ \E e \in Fresh(f) : Begins(e, f.corr)
     \/ /\ Stays
        /\ \/ c'.rxLast = c.rxLast
           \/ \E f \in Datagrams(out) :
                /\ f \in DataFrame /\ Current(f) /\ ~SdkStale(f)
                /\ c'.rxLast = [c.rxLast EXCEPT ![f.ch] = f.seq]
                /\ h' = SdkLearns(f)

Restored ==
  /\ used.loads < MaxLoads
  /\ \E s \in saved : g' = s.link
  /\ UNCHANGED <<c, out, toGuest>>

\* An end whose link did not move is as it was.
LEMMA GuestRest ==
  ASSUME GuestInv, g' = g, pump' = pump, out' \in Seq(Frame)
  PROVE  GuestInv'
BY DEF GuestInv, Punctual, Earliest, OnTime

\* And a companion that did not move.
LEMMA SdkRest ==
  ASSUME CompanionTypeOK, c' = c, running' = running, toGuest' \in Seq(Frame)
  PROVE  CompanionTypeOK'
BY DEF CompanionTypeOK

\* The books of a step that adds to them what follows.
LEMMA BooksKept ==
  ASSUME BooksOK, HistoryOK(h'), owed' = owed, used' = used, lead' = lead
  PROVE  BooksOK'
BY DEF BooksOK

\* The books of a step that uses up one of the faults allowed.
LEMMA FaultCounted ==
  ASSUME BooksOK, HistoryOK(h'), owed' = owed, lead' = lead,
         \/ May(used.loss, MaxLoss) /\ used' = [used EXCEPT !.loss = @ + 1]
         \/ May(used.dup, MaxDup) /\ used' = [used EXCEPT !.dup = @ + 1]
         \/ May(used.loads, MaxLoads) /\ used' = [used EXCEPT !.loads = @ + 1]
         \/ May(used.stops, MaxStops) /\ used' = [used EXCEPT !.stops = @ + 1]
         \/ May(used.stray, MaxStray) /\ used' = [used EXCEPT !.stray = @ + 1]
  PROVE  BooksOK'
<1>1. {MaxLoss, MaxDup, MaxLoads, MaxStops, MaxStray} \subseteq Nat
  BY FkIpcAssumption
<1>2. used \in [loss : 0 .. MaxLoss, dup : 0 .. MaxDup, loads : 0 .. MaxLoads,
                stops : 0 .. MaxStops, stray : 0 .. MaxStray]
  BY DEF BooksOK
<1>3. used' \in [loss : 0 .. MaxLoss, dup : 0 .. MaxDup, loads : 0 .. MaxLoads,
                 stops : 0 .. MaxStops, stray : 0 .. MaxStray]
  BY <1>1, <1>2 DEF May
<1> QED BY <1>3 DEF BooksOK

\* The network's steps (Lose, Duplicate), and datagrams nobody listens for.
LEMMA NetworkStep ==
  ASSUME IpcInv, Lose \/ Duplicate \/ NobodyListens
  PROVE  Typed' /\ Between
<1>1. /\ GuestInv /\ CompanionTypeOK /\ BooksOK /\ \A s \in saved : SavedSound(s)
      /\ out \in Seq(Frame) /\ toGuest \in Seq(Frame)
  BY DEF IpcInv, CompanionSound, GuestInv, CompanionTypeOK
<1>2. /\ g' = g /\ pump' = pump /\ c' = c /\ running' = running /\ saved' = saved
      /\ h' = h
  BY DEF Lose, Duplicate, NobodyListens
<1>3. /\ out' \in Seq(Frame) /\ Datagrams(out') \subseteq Datagrams(out)
      /\ toGuest' \in Seq(Frame) /\ Datagrams(toGuest') \subseteq Datagrams(toGuest)
  <2>1. CASE out' = out
    <3>1. toGuest' = toGuest \/ \E i \in DOMAIN toGuest : \/ toGuest' = Without(toGuest, i)
                                  \/ toGuest' = Append(toGuest, toGuest[i])
      BY <2>1 DEF Lose, Duplicate, NobodyListens
    <3> QED BY <1>1, <2>1, <3>1, WithoutSound, CopySound
  <2>2. CASE toGuest' = toGuest
    <3>1. \/ out' = out \/ out' = <<>>
          \/ \E i \in DOMAIN out : out' = Without(out, i) \/ out' = Append(out, out[i])
      BY <2>2 DEF Lose, Duplicate, NobodyListens
    <3>2. <<>> \in Seq(Frame) /\ Datagrams(<<>>) \subseteq Datagrams(out)
      BY DEF Datagrams
    <3>3. Datagrams(out') = {out'[i] : i \in DOMAIN out'}
      BY DEF Datagrams
    <3> QED BY <1>1, <2>2, <3>1, <3>2, WithoutSound, CopySound
  <2> QED BY <2>1, <2>2 DEF Lose, Duplicate, NobodyListens
<1>4. BooksOK'
  <2>1. HistoryOK(h') /\ owed' = owed /\ lead' = lead
    BY <1>1, <1>2 DEF BooksOK, Lose, Duplicate, NobodyListens
  <2>2. CASE NobodyListens
    BY <1>1, <2>1, <2>2, BooksKept DEF NobodyListens
  <2>3. CASE Lose \/ Duplicate
    BY <1>1, <2>1, <2>3, FaultCounted DEF Lose, Duplicate
  <2> QED BY <2>2, <2>3
<1> QED BY <1>1, <1>2, <1>3, <1>4, GuestRest, SdkRest DEF Typed, Between

\* A datagram the guest takes off its socket (recv_udp, deliver).
LEMMA GuestReceivesStep ==
  ASSUME IpcInv, GuestReceives
  PROVE  Typed' /\ GuestTurn
<1>1. /\ GuestInv /\ Sound(g) /\ CompanionTypeOK /\ BooksOK
      /\ HistoryOK(h) /\ toGuest \in Seq(Frame)
      /\ \A s \in saved : SavedSound(s)
  BY DEF IpcInv, CompanionSound, GuestInv, CompanionTypeOK, BooksOK
<1>2. PICK i \in Readable(toGuest) :
        /\ toGuest' = Without(toGuest, i) /\ Deliver("peer", toGuest[i])
        /\ h' = GuestLearns(toGuest[i])
        /\ owed' = [owed EXCEPT !.guest = @ \cup
                      Resyncs(toGuest[i], Dispatches("peer", toGuest[i], "RESYNC"))]
  BY DEF GuestReceives
<1> DEFINE f == toGuest[i]
<1>3. c' = c /\ running' = running /\ saved' = saved /\ used' = used /\ lead' = lead
  BY DEF GuestReceives
<1>4. i \in DOMAIN toGuest /\ f \in Frame /\ f \in Datagrams(toGuest)
  BY <1>1, TakenFrame
<1>5. toGuest' \in Seq(Frame) /\ Datagrams(toGuest') \subseteq Datagrams(toGuest)
  <2>1. Datagrams(toGuest') = Datagrams(Without(toGuest, i))
    BY <1>2 DEF Datagrams
  <2> QED BY <1>1, <1>2, <1>4, <2>1, WithoutSound
<1>6. GuestInv' /\ CompanionTypeOK'
  BY <1>1, <1>2, <1>3, <1>4, <1>5, DeliverStep, SdkRest
<1>7. HistoryOK(h')
  BY <1>1, <1>2, LearnsHistory
<1>8. BooksOK'
  <2> DEFINE r == Resyncs(f, Dispatches("peer", f, "RESYNC"))
  <2>1. r \subseteq Chans
    <3>1. CASE Dispatches("peer", f, "RESYNC")
      <4>1. f.ch \in Chans
        BY <1>4, <3>1, DataFrames DEF Dispatches, DataArrives, DataFrame
      <4> QED BY <4>1 DEF Resyncs
    <3>2. CASE ~Dispatches("peer", f, "RESYNC")
      BY <3>2 DEF Resyncs
    <3> QED BY <3>1, <3>2
  <2> HIDE DEF r
  <2>2. owed' = [owed EXCEPT !.guest = @ \cup r]
    BY <1>2 DEF r
  <2> QED BY <1>1, <1>3, <1>7, <2>1, <2>2 DEF BooksOK
<1>9. GuestTurn
  <2> HIDE DEF f
  <2>1. \/ GuestJoins(f)
        \/ GuestLeaves
        \/ /\ GuestGoes
           /\ \/ g'.rxLast = g.rxLast
              \/ /\ f \in DataFrame /\ InSession(f) /\ ~Stale(g, f)
                 /\ g'.rxLast = [g.rxLast EXCEPT ![f.ch] = f.seq]
    <3>1. Deliver("peer", f)
      BY <1>2 DEF f
    <3> QED BY <1>1, <1>4, <3>1, DeliverEffect
  <2>2. h' = GuestLearns(f)
    BY <1>2 DEF f
  <2> QED BY <1>3, <1>4, <1>5, <2>1, <2>2 DEF GuestTurn
<1> QED BY <1>1, <1>3, <1>6, <1>8, <1>9 DEF Typed

\* Another mod's datagram changes nothing (deliver's port filter).
LEMMA OtherModStep ==
  ASSUME IpcInv, OtherModAnswers
  PROVE  Typed' /\ GuestTurn
<1> DEFINE f == [type |-> "HELLO_ACK", epoch |-> OtherModsToken,
                 corr |-> g.helloCorr, name |-> SdkName]
<1>1. /\ GuestInv /\ CompanionTypeOK /\ BooksOK /\ HistoryOK(h)
      /\ toGuest \in Seq(Frame) /\ out \in Seq(Frame)
      /\ \A s \in saved : SavedSound(s)
  BY DEF IpcInv, CompanionSound, GuestInv, CompanionTypeOK, BooksOK
<1>2. /\ c' = c /\ running' = running /\ toGuest' = toGuest /\ saved' = saved
      /\ owed' = owed /\ used' = used /\ lead' = lead /\ h' = h
      /\ Deliver("other", f)
  BY DEF OtherModAnswers
<1>3. ~Mine("other")
  BY DEF Mine
<1> HIDE DEF f
<1>4. OnIgnored("other", f)
  BY <1>2, <1>3 DEF Deliver, OnHelloAck, OnHeartbeat, OnBye, OnStale, OnFragment, OnMsg,
     OnResync, OnReqAgain, OnReqUnserved, OnReqNew, OnResp, Dispatches, DataArrives
<1>5. g' = g /\ pump' = pump /\ out' = out
  BY <1>4 DEF OnIgnored, guestVars
<1>6. Typed'
  BY <1>1, <1>2, <1>5, GuestRest, SdkRest, BooksKept DEF Typed
<1>7. GuestTurn
  BY <1>2, <1>5, GuestSame DEF GuestTurn, Datagrams
<1> QED BY <1>6, <1>7

\* The application sends or asks (Send, Snapshot, Request).
LEMMA GuestCallsStep ==
  ASSUME IpcInv, GuestSays \/ GuestAsks
  PROVE  Typed' /\ GuestTurn
<1>1. /\ GuestInv /\ Sound(g) /\ CompanionTypeOK /\ BooksOK /\ HistoryOK(h)
      /\ toGuest \in Seq(Frame)
      /\ (\A s \in saved : SavedSound(s))
      /\ h.said \in [guest : 0 .. GuestMsgs, sdk : 0 .. SdkMsgs]
      /\ owed \in [guest : SUBSET Chans, sdk : SUBSET Chans]
  BY DEF IpcInv, CompanionSound, GuestInv, CompanionTypeOK, BooksOK, HistoryOK
<1>2. /\ c' = c /\ running' = running /\ toGuest' = toGuest /\ saved' = saved
      /\ used' = used /\ lead' = lead
  BY DEF GuestSays, GuestAsks
<1>3. /\ \E ch \in Chans, b \in Bodies :
           \/ \E flag \in {"none", "snapshot"} : AppSend(ch, flag, b)
           \/ AppRequest(ch, b) \/ AppRequestRefused(ch, b)
      /\ BooksOK'
  <2>1. CASE GuestAsks
    <3>1. PICK ch \in Chans, r \in GuestReqs \ h.asked :
            \/ AppRequest(ch, r) /\ h' = [h EXCEPT !.asked = @ \cup {r}]
            \/ AppRequestRefused(ch, r) /\ UNCHANGED h
      BY <2>1 DEF GuestAsks
    <3>2. r \in Bodies /\ owed' = owed
      BY <2>1, FkIpcAssumption DEF GuestAsks
    <3>3. HistoryOK([h EXCEPT !.asked = h.asked \cup {r}])
      BY <1>1, HistoryKept
    <3>4. h' = h \/ h' = [h EXCEPT !.asked = h.asked \cup {r}]
      BY <3>1
    <3>5. HistoryOK(h')
      BY <1>1, <3>3, <3>4
    <3> QED BY <1>1, <1>2, <3>1, <3>2, <3>5, BooksKept
  <2>2. CASE GuestSays
    <3>1. PICK ch \in Chans :
       \/ /\ h.said.guest < GuestMsgs
          /\ \E flag \in {"none", "snapshot"} : AppSend(ch, flag, h.said.guest + 1)
          /\ h' = [h EXCEPT !.said.guest = @ + 1]
          /\ UNCHANGED owed
       \/ /\ AppSend(ch, "snapshot", h.said.guest)
          /\ owed' = [owed EXCEPT !.guest = @ \ {ch}]
          /\ UNCHANGED h
      BY <2>2 DEF GuestSays
    <3>2. CASE AppSend(ch, "snapshot", h.said.guest) /\ h' = h
                 /\ owed' = [owed EXCEPT !.guest = @ \ {ch}]
      <4>1. h.said.guest \in Bodies
        BY <1>1, FkIpcAssumption
      <4>2. BooksOK'
        BY <1>1, <1>2, <3>2 DEF BooksOK
      <4> QED BY <3>2, <4>1, <4>2
    <3>3. CASE /\ h.said.guest < GuestMsgs
               /\ \E flag \in {"none", "snapshot"} : AppSend(ch, flag, h.said.guest + 1)
               /\ h' = [h EXCEPT !.said.guest = @ + 1]
               /\ UNCHANGED owed
      <4>1. h.said.guest + 1 \in 0 .. GuestMsgs
        BY <1>1, <3>3, FkIpcAssumption
      <4>2. h.said.guest + 1 \in Bodies
        BY <4>1, FkIpcAssumption
      <4> DEFINE t == [h.said EXCEPT !.guest = h.said.guest + 1]
      <4>3. t \in [guest : 0 .. GuestMsgs, sdk : 0 .. SdkMsgs]
        BY <1>1, <4>1
      <4>4. h' = [h EXCEPT !.said = t]
        BY <1>1, <3>3 DEF HistoryOK
      <4> HIDE DEF t
      <4>5. HistoryOK(h')
        BY <1>1, <4>3, <4>4, HistorySaid
      <4>6. BooksOK'
        BY <1>1, <1>2, <3>3, <4>5, BooksKept
      <4> QED BY <3>3, <4>2, <4>6
    <3> QED BY <3>1, <3>2, <3>3
  <2> QED BY <2>1, <2>2
<1>4. GuestInv' /\ GuestGoes /\ g'.rxLast = g.rxLast
  BY <1>1, <1>3, AppStep, AppEffect
<1>5. CompanionTypeOK' /\ Datagrams(toGuest') = Datagrams(toGuest)
  BY <1>1, <1>2, SdkRest DEF Datagrams
<1> QED BY <1>1, <1>2, <1>3, <1>4, <1>5 DEF Typed, GuestTurn

\* A stage of Pump (Pump, serviceSession, serviceRetries, flush).
LEMMA PumpTurn ==
  ASSUME IpcInv, PumpStarts \/ PumpRuns
  PROVE  Typed' /\ GuestTurn
<1>1. /\ GuestInv /\ CompanionTypeOK /\ BooksOK /\ HistoryOK(h) /\ toGuest \in Seq(Frame)
      /\ lead \in 0 .. MaxDown
      /\ (\A s \in saved : SavedSound(s))
  BY DEF IpcInv, CompanionSound, CompanionTypeOK, BooksOK
<1>2. /\ c' = c /\ running' = running /\ toGuest' = toGuest /\ saved' = saved
      /\ used' = used /\ owed' = owed
  BY DEF PumpStarts, PumpRuns
<1>3. PumpBegin \/ PumpReceived \/ PumpStage
  BY DEF PumpStarts, PumpRuns
<1>4. GuestInv'
  <2>1. CASE PumpStage
    <3>1. CASE SessionLost \/ SessionSearch \/ SessionBeat \/ SessionIdle
      BY <1>1, <3>1, SessionStep
    <3>2. CASE \/ \E p \in g.pend : RetryTimeout(p) \/ RetryResend(p)
               \/ RetriesDone
      BY <1>1, <3>2, RetryStep
    <3>3. CASE FlushFrame \/ FlushDone
      BY <1>1, <3>3, FlushStep
    <3> QED BY <2>1, <3>1, <3>2, <3>3 DEF PumpStage
  <2> QED BY <1>1, <1>3, <2>1, PumpBeginStep, PumpReceivedStep
<1>5. BooksOK'
  <2>1. CASE PumpStarts
    <3>1. lead' \in 0 .. MaxDown
      <4>1. Timed \in BOOLEAN /\ lead \in Nat /\ 0 \in 0 .. MaxDown
        BY <1>1, FkIpcAssumption DEF MaxDown
      <4>2. CASE Timed
        <5>1. lead < MaxDown /\ lead' = lead + 1
          BY <2>1, <4>1, <4>2 DEF PumpStarts, MaxDown, MaxLead
        <5> QED BY <4>1, <5>1 DEF MaxDown
      <4>3. CASE ~Timed
        BY <2>1, <4>1, <4>3 DEF PumpStarts
      <4> QED BY <4>2, <4>3
    <3>2. h' = h
      BY <2>1 DEF PumpStarts
    <3> QED BY <1>1, <1>2, <3>1, <3>2 DEF BooksOK
  <2>2. CASE PumpRuns
    <3>1. \E t : h' = [h EXCEPT !.told = t]
      BY <2>2 DEF PumpRuns, Settled
    <3>2. PICK t : h' = [h EXCEPT !.told = t]
      BY <3>1
    <3>3. HistoryOK([h EXCEPT !.told = t])
      BY <1>1, HistoryKept
    <3>4. HistoryOK(h') /\ lead' = lead
      BY <2>2, <3>2, <3>3 DEF PumpRuns
    <3> QED BY <1>1, <1>2, <3>4, BooksKept
  <2> QED BY <2>1, <2>2
<1>6. CompanionTypeOK' /\ Datagrams(toGuest') = Datagrams(toGuest)
  BY <1>1, <1>2, SdkRest DEF Datagrams
<1>7. \/ GuestLeaves
      \/ GuestSearches
      \/ GuestGoes /\ g'.rxLast = g.rxLast
  BY <1>1, <1>3, PumpEffect
<1> QED BY <1>1, <1>2, <1>4, <1>5, <1>6, <1>7 DEF Typed, GuestTurn

\* The game saves between two Pumps.
LEMMA SaveStep ==
  ASSUME IpcInv, Save
  PROVE  Typed' /\ Between
<1>1. /\ GuestInv /\ CompanionTypeOK /\ BooksOK /\ HistoryOK(h) /\ Joined(g)
      /\ toGuest \in Seq(Frame) /\ out \in Seq(Frame)
  BY DEF IpcInv, CompanionSound, CompanionTypeOK, BooksOK, GuestInv
<1>2. /\ g' = g /\ pump' = pump /\ c' = c /\ running' = running /\ toGuest' = toGuest
      /\ out' = out /\ used' = used /\ owed' = owed /\ lead' = lead /\ h' = h
      /\ saved' = {[link |-> g, h |-> h]} /\ pump.at = "idle"
  BY DEF Save, Quiescent
<1>3. SavedSound([link |-> g, h |-> h])
  BY <1>1, <1>2 DEF SavedSound, GuestInv, Punctual, Earliest
<1>4. Typed'
  BY <1>1, <1>2, <1>3, GuestRest, SdkRest, BooksKept DEF Typed
<1> QED BY <1>2, <1>4 DEF Between, Datagrams

\* A load puts a link back as it was between two Pumps (Reload).
LEMMA LoadStep ==
  ASSUME IpcInv, Load
  PROVE  Typed' /\ Restored
<1>1. /\ GuestInv /\ CompanionTypeOK /\ BooksOK /\ HistoryOK(h) /\ toGuest \in Seq(Frame)
      /\ (\A s \in saved : SavedSound(s))
  BY DEF IpcInv, CompanionSound, CompanionTypeOK, BooksOK, GuestInv
<1>2. /\ pump' = pump /\ out' = out /\ c' = c /\ running' = running /\ toGuest' = toGuest
      /\ saved' = saved /\ owed' = owed /\ lead' = lead /\ pump.at = "idle"
      /\ May(used.loads, MaxLoads) /\ used' = [used EXCEPT !.loads = @ + 1]
  BY DEF Load, Quiescent
<1>3. PICK s \in saved : g' = s.link /\ \E a, t : h' = [h EXCEPT !.asked = a, !.told = t]
  BY DEF Load
<1>4. PICK a, t : h' = [h EXCEPT !.asked = a, !.told = t]
  BY <1>3
<1>5. HistoryOK(h')
  BY <1>1, <1>4 DEF HistoryOK
<1>6. BooksOK'
  BY <1>1, <1>2, <1>5, FaultCounted
<1>7. GuestInv'
  <2>1. Sound(s.link) /\ \A p \in s.link.pend : OnTime(p, s.link.tick, 1)
    BY <1>1 DEF SavedSound
  <2> QED BY <1>1, <1>2, <1>3, <2>1 DEF GuestInv, Punctual, Earliest
<1>8. Restored
  BY <1>2, <1>3 DEF Restored, May
<1> QED BY <1>1, <1>2, <1>6, <1>7, <1>8, SdkRest DEF Typed

\* What a turn of the companion's leaves of the rest.
LEMMA SdkTurnTyped ==
  ASSUME IpcInv, g' = g, pump' = pump, saved' = saved, out' \in Seq(Frame),
         CompanionTypeOK', BooksOK'
  PROVE  Typed'
<1>1. GuestInv'
  BY GuestRest DEF IpcInv
<1> QED BY <1>1 DEF IpcInv, Typed

\* Stays, Leaves and Begins are each well-typed.
LEMMA SdkTyped ==
  ASSUME Leaves \/ Stays \/ \E f : \E e \in Fresh(f) : Begins(e, f.corr)
  PROVE  CompanionTypeOK'
BY DEF Leaves, Stays, Begins

\* A datagram the companion takes off its socket (recvLoop, deliver).
LEMMA SdkReceivesStep ==
  ASSUME IpcInv, SdkReceives
  PROVE  Typed' /\ SdkTurn
<1>1. /\ GuestInv /\ CompanionTypeOK /\ Joined(c) /\ BooksOK /\ HistoryOK(h)
      /\ out \in Seq(Frame)
  BY DEF IpcInv, CompanionSound, GuestInv, CompanionTypeOK, BooksOK
<1>2. PICK i \in Readable(out) :
        /\ out' = Without(out, i) /\ SdkDeliver(out[i], Fresh(out[i]))
        /\ h' = SdkLearns(out[i])
        /\ owed' = [owed EXCEPT !.sdk = @ \cup
                      Resyncs(out[i], SdkDispatches(out[i], "RESYNC"))]
  BY DEF SdkReceives
<1> DEFINE f == out[i]
<1>3. g' = g /\ pump' = pump /\ saved' = saved /\ used' = used /\ lead' = lead
  BY DEF SdkReceives
<1>4. i \in DOMAIN out /\ f \in Frame /\ f \in Datagrams(out)
  BY <1>1, TakenFrame
<1>5. out' \in Seq(Frame) /\ Datagrams(out') \subseteq Datagrams(out)
  <2>1. Datagrams(out') = Datagrams(Without(out, i))
    BY <1>2 DEF Datagrams
  <2> QED BY <1>1, <1>2, <1>4, <2>1, WithoutSound
<1>6. HistoryOK(h')
  BY <1>1, <1>2, LearnsHistory
<1>7. BooksOK'
  <2> DEFINE r == Resyncs(f, SdkDispatches(f, "RESYNC"))
  <2>1. r \subseteq Chans
    <3>1. CASE SdkDispatches(f, "RESYNC")
      <4>1. f.ch \in Chans
        BY <1>4, <3>1, SdkDataFrames DEF SdkDispatches, SdkDataArrives, DataFrame
      <4> QED BY <4>1 DEF Resyncs
    <3>2. CASE ~SdkDispatches(f, "RESYNC")
      BY <3>2 DEF Resyncs
    <3> QED BY <3>1, <3>2
  <2> HIDE DEF r
  <2>2. owed' = [owed EXCEPT !.sdk = @ \cup r]
    BY <1>2 DEF r
  <2> QED BY <1>1, <1>3, <1>6, <2>1, <2>2 DEF BooksOK
<1> HIDE DEF f
<1>8. \/ \E e \in Fresh(f) \ {f.epoch, c.epoch} : f.type = "HELLO" /\ Begins(e, f.corr)
      \/ Leaves
      \/ /\ Stays
         /\ \/ c'.rxLast = c.rxLast
            \/ /\ f \in DataFrame /\ Current(f) /\ ~SdkStale(f)
               /\ c'.rxLast = [c.rxLast EXCEPT ![f.ch] = f.seq]
  <2>1. SdkDeliver(f, Fresh(f)) /\ Fresh(f) \in SUBSET Tokens
    BY <1>2 DEF f, Fresh
  <2> QED BY <1>1, <1>4, <2>1, SdkDeliverStep
<1>9. SdkTurn
  <2>1. h' = SdkLearns(f)
    BY <1>2 DEF f
  <2> QED BY <1>3, <1>4, <1>5, <1>8, <2>1 DEF SdkTurn, Greets
<1> QED BY <1>3, <1>5, <1>7, <1>8, <1>9, SdkTyped, SdkTurnTyped

\* Another mod's HELLO (onHello).
LEMMA StrayStep ==
  ASSUME IpcInv, StrayHello
  PROVE  Typed' /\ SdkTurn
<1> DEFINE f == [type |-> "HELLO", epoch |-> 0, corr |-> 1, tick |-> 0,
                 name |-> OtherModName]
<1>1. /\ CompanionTypeOK /\ Joined(c) /\ BooksOK /\ HistoryOK(h) /\ out \in Seq(Frame)
  BY DEF IpcInv, CompanionSound, GuestInv, BooksOK
<1>2. /\ SdkDeliver(f, Fresh(f)) /\ h' = Settled(h, c.pend, c'.pend, Lost)
      /\ May(used.stray, MaxStray) /\ used' = [used EXCEPT !.stray = @ + 1]
      /\ g' = g /\ pump' = pump /\ out' = out /\ saved' = saved /\ owed' = owed
      /\ lead' = lead
  BY DEF StrayHello
<1>3. f \in Frame /\ f.type = "HELLO" /\ f.corr = 1
  <2>1. 0 \in Epochs /\ 0 \in Word /\ 1 \in Word
    BY WireAssumption DEF Word
  <2>2. OtherModName \in STRING
    BY FkIpcAssumption
  <2> QED BY <2>1, <2>2 DEF Frame, HelloFrame
<1> HIDE DEF f
<1>4. HistoryOK(h')
  BY <1>1, <1>2, HistoryKept DEF Settled
<1>5. BooksOK'
  BY <1>1, <1>2, <1>4, FaultCounted
<1>6. \/ \E e \in Fresh(f) : Begins(e, f.corr)
      \/ Leaves
      \/ Stays /\ c'.rxLast = c.rxLast
  <2>1. Fresh(f) \in SUBSET Tokens
    BY DEF Fresh
  <2>2. f \notin DataFrame
    BY <1>3 DEF DataFrame, DataTypes
  <2> QED BY <1>1, <1>2, <1>3, <2>1, <2>2, SdkDeliverStep
<1>7. Datagrams(out') = Datagrams(out)
  BY <1>2 DEF Datagrams
<1> QED BY <1>1, <1>2, <1>3, <1>5, <1>6, <1>7, SdkTyped, SdkTurnTyped DEF SdkTurn, Greets

\* A handler that ends or asks, and the application's calls (runHandler; Send,
\* Resync, Request).
LEMMA SdkCallsStep ==
  ASSUME IpcInv, HandlerEnds \/ HandlerAsks \/ SdkAsks \/ SdkSays
  PROVE  Typed' /\ SdkTurn
<1>1. /\ CompanionTypeOK /\ BooksOK /\ HistoryOK(h) /\ out \in Seq(Frame)
      /\ h.said \in [guest : 0 .. GuestMsgs, sdk : 0 .. SdkMsgs]
      /\ owed \in [guest : SUBSET Chans, sdk : SUBSET Chans]
  BY DEF IpcInv, CompanionSound, GuestInv, BooksOK, HistoryOK
<1>2. /\ g' = g /\ pump' = pump /\ out' = out /\ saved' = saved /\ used' = used
      /\ lead' = lead
  BY DEF HandlerEnds, HandlerAsks, SdkAsks, SdkSays
<1>3. CASE HandlerEnds
  <2>1. PICK r \in running : \/ HandlerReturns(r) /\ h' = Ran(h, r.body)
                             \/ HandlerFails(r) /\ h' = h
    BY <1>3 DEF HandlerEnds
  <2>2. Stays /\ c'.rxLast = c.rxLast
    BY <1>1, <2>1, HandlerStep
  <2>3. HistoryOK(h') /\ owed' = owed
    BY <1>1, <1>3, <2>1, RanHistory DEF HandlerEnds
  <2>4. BooksOK'
    BY <1>1, <1>2, <2>3, BooksKept
  <2> QED BY <1>1, <1>2, <2>2, <2>4, SdkTyped, SdkTurnTyped DEF SdkTurn, Datagrams
<1>4. CASE HandlerAsks \/ SdkAsks
  <2>1. PICK ch \in Chans, b \in SdkReqs \ h.asked :
          /\ SdkAppRequest(ch, b) \/ \E r \in running : HandlerRequests(r, ch, b)
          /\ h' = [h EXCEPT !.asked = h.asked \cup {b}]
    BY <1>4 DEF HandlerAsks, SdkAsks
  <2>2. b \in Bodies
    BY FkIpcAssumption
  <2>3. Stays /\ c'.rxLast = c.rxLast
    BY <1>1, <2>1, <2>2, SdkAppStep
  <2>4. HistoryOK(h') /\ owed' = owed
    BY <1>1, <1>4, <2>1, HistoryKept DEF HandlerAsks, SdkAsks
  <2>5. BooksOK'
    BY <1>1, <1>2, <2>4, BooksKept
  <2> QED BY <1>1, <1>2, <2>3, <2>5, SdkTyped, SdkTurnTyped DEF SdkTurn, Datagrams
<1>5. CASE SdkSays
  <2>1. PICK ch \in Chans :
       \/ /\ h.said.sdk < SdkMsgs
          /\ \/ \E flag \in {"none", "snapshot"} : SdkAppSend(ch, flag, h.said.sdk + 1)
             \/ SdkAppResync(ch)
          /\ h' = [h EXCEPT !.said.sdk = @ + 1]
          /\ UNCHANGED owed
       \/ /\ SdkAppSend(ch, "snapshot", h.said.sdk)
          /\ owed' = [owed EXCEPT !.sdk = @ \ {ch}]
          /\ UNCHANGED h
    BY <1>5 DEF SdkSays
  <2>2. /\ \E b \in Bodies : \/ \E flag \in {"none", "snapshot"} : SdkAppSend(ch, flag, b)
                             \/ SdkAppResync(ch)
        /\ BooksOK'
    <3>1. CASE SdkAppSend(ch, "snapshot", h.said.sdk) /\ h' = h
                 /\ owed' = [owed EXCEPT !.sdk = @ \ {ch}]
      <4>1. h.said.sdk \in Bodies
        BY <1>1, FkIpcAssumption
      <4>2. BooksOK'
        BY <1>1, <1>2, <3>1 DEF BooksOK
      <4> QED BY <3>1, <4>1, <4>2
    <3>2. CASE /\ h.said.sdk < SdkMsgs
               /\ \/ \E flag \in {"none", "snapshot"} : SdkAppSend(ch, flag, h.said.sdk + 1)
                  \/ SdkAppResync(ch)
               /\ h' = [h EXCEPT !.said.sdk = @ + 1]
               /\ UNCHANGED owed
      <4>1. h.said.sdk + 1 \in 0 .. SdkMsgs
        BY <1>1, <3>2, FkIpcAssumption
      <4>2. h.said.sdk + 1 \in Bodies
        BY <4>1, FkIpcAssumption
      <4> DEFINE t == [h.said EXCEPT !.sdk = h.said.sdk + 1]
      <4>3. t \in [guest : 0 .. GuestMsgs, sdk : 0 .. SdkMsgs]
        BY <1>1, <4>1
      <4>4. h' = [h EXCEPT !.said = t]
        BY <1>1, <3>2 DEF HistoryOK
      <4> HIDE DEF t
      <4>5. HistoryOK(h')
        BY <1>1, <4>3, <4>4, HistorySaid
      <4>6. BooksOK'
        BY <1>1, <1>2, <3>2, <4>5, BooksKept
      <4> QED BY <3>2, <4>2, <4>6
    <3> QED BY <2>1, <3>1, <3>2
  <2>3. Stays /\ c'.rxLast = c.rxLast
    BY <1>1, <2>2, SdkAppStep
  <2> QED BY <1>1, <1>2, <2>2, <2>3, SdkTyped, SdkTurnTyped DEF SdkTurn, Datagrams
<1> QED BY <1>3, <1>4, <1>5

\* The companion's timers and retries (runTimers, timerLoop).
LEMMA SdkTimersStep ==
  ASSUME IpcInv, SdkTimers \/ SdkRetries \/ TimerRound
  PROVE  Typed' /\ SdkTurn
<1>1. /\ CompanionTypeOK /\ Joined(c) /\ BooksOK /\ HistoryOK(h) /\ out \in Seq(Frame)
      /\ lead \in 0 .. MaxDown
  BY DEF IpcInv, CompanionSound, GuestInv, BooksOK
<1>2. /\ g' = g /\ pump' = pump /\ out' = out /\ saved' = saved /\ used' = used
      /\ owed' = owed
  BY DEF SdkTimers, DedupExpires, SdkRetries, TimerRound
<1>3. \/ QuietTimer \/ PeerTimer \/ BeatTimer \/ ByeWindow
      \/ \E ch \in Chans : ReassemblyTimer(ch)
      \/ \E d \in c.dedup : DedupTimer(d)
      \/ \E p \in c.pend : SdkResend(p) \/ SdkGivesUp(p)
      \/ UNCHANGED <<c, running, toGuest>>
  BY DEF SdkTimers, DedupExpires, SdkRetries, TimerRound
<1>4. Leaves \/ (Stays /\ c'.rxLast = c.rxLast)
  <2>1. CASE UNCHANGED <<c, running, toGuest>>
    BY <1>1, <2>1, QuietStays DEF CompanionTypeOK
  <2> QED BY <1>1, <1>3, <2>1, TimerStep
<1>5. HistoryOK(h')
  <2>1. h' = h \/ \E t : h' = [h EXCEPT !.told = t]
    BY DEF SdkTimers, DedupExpires, SdkRetries, TimerRound, Settled
  <2>2. CASE \E t : h' = [h EXCEPT !.told = t]
    <3>1. PICK t : h' = [h EXCEPT !.told = t]
      BY <2>2
    <3>2. HistoryOK([h EXCEPT !.told = t])
      BY <1>1, HistoryKept
    <3> QED BY <3>1, <3>2
  <2> QED BY <1>1, <2>1, <2>2
<1>6. BooksOK'
  <2>1. lead' = lead \/ lead' = 0
    BY DEF SdkTimers, DedupExpires, SdkRetries, TimerRound
  <2>2. lead' \in 0 .. MaxDown
    BY <1>1, <2>1 DEF MaxDown
  <2> QED BY <1>1, <1>2, <1>5, <2>2 DEF BooksOK
<1> QED BY <1>1, <1>2, <1>4, <1>6, SdkTyped, SdkTurnTyped DEF SdkTurn, Datagrams

\* The companion stops and is started again (Close, Dial).
LEMMA SdkStopsStep ==
  ASSUME IpcInv, SdkStops \/ SdkStarts
  PROVE  Typed' /\ SdkTurn
<1>1. /\ CompanionTypeOK /\ BooksOK /\ HistoryOK(h) /\ out \in Seq(Frame)
  BY DEF IpcInv, CompanionSound, GuestInv, BooksOK
<1>2. /\ g' = g /\ pump' = pump /\ out' = out /\ saved' = saved /\ owed' = owed
  BY DEF SdkStops, SdkStarts
<1>3. Leaves
  BY <1>1, StopStep DEF SdkStops, SdkStarts
<1>4. BooksOK'
  <2>1. CASE SdkStops
    <3>1. HistoryOK(h')
      <4>1. \E t : h' = [h EXCEPT !.told = t]
        BY <2>1 DEF SdkStops, Settled
      <4>2. PICK t : h' = [h EXCEPT !.told = t]
        BY <4>1
      <4>3. HistoryOK([h EXCEPT !.told = t])
        BY <1>1, HistoryKept
      <4> QED BY <4>2, <4>3
    <3> QED BY <1>1, <1>2, <2>1, <3>1, FaultCounted DEF SdkStops
  <2>2. CASE SdkStarts
    BY <1>1, <1>2, <2>2 DEF SdkStarts, BooksOK, MaxDown
  <2> QED BY <2>1, <2>2
<1> QED BY <1>1, <1>2, <1>3, <1>4, SdkTyped, SdkTurnTyped DEF SdkTurn, Datagrams

\* Every step of the whole is one of these.
LEMMA StepKind ==
  ASSUME IpcInv, Next
  PROVE  Typed' /\ (Between \/ GuestTurn \/ SdkTurn \/ Restored)
<1>1. CASE GuestMoves \/ GuestSays \/ GuestAsks \/ OtherModAnswers
  BY <1>1, GuestReceivesStep, PumpTurn, GuestCallsStep, OtherModStep DEF GuestMoves
<1>2. CASE SdkMoves \/ SdkSays \/ SdkAsks \/ HandlerAsks \/ SdkStops \/ SdkStarts \/ StrayHello
  BY <1>2, SdkReceivesStep, SdkCallsStep, SdkTimersStep, SdkStopsStep, StrayStep DEF SdkMoves
<1>3. CASE Lose \/ Duplicate \/ Save \/ Load \/ NobodyListens
  BY <1>3, NetworkStep, SaveStep, LoadStep
<1> QED BY <1>1, <1>2, <1>3 DEF Next

-----------------------------------------------------------------------------
(* What holds whatever goes wrong. *)

\* A session begins blank (configure, Dial).
LEMMA IpcInitInv == Init => IpcInv
<1> SUFFICES ASSUME Init PROVE IpcInv
  OBVIOUS
<1>1. GuestInv /\ Joined(g)
  <2>1. GuestInv
    BY GuestInitInv DEF Init
  <2>2. g.up = FALSE /\ g.epoch = 0
    BY DEF Init, GuestInit, NewLink
  <2> QED BY <2>1, <2>2 DEF Joined
<1>2. c = NewSession /\ running = {} /\ toGuest = <<>> /\ saved = {}
  BY DEF Init, CompanionInit
<1>3. CompanionSound /\ AcksOwn
  <2>1. <<>> \in Seq(Frame)
    OBVIOUS
  <2> QED BY <1>2, <2>1, NewSessionSound
           DEF CompanionSound, CompanionTypeOK, Joined, AcksOwn, Datagrams
<1>4. BooksOK
  <2>1. {GuestMsgs, SdkMsgs, MaxLoss, MaxDup, MaxLoads, MaxStops, MaxStray} \subseteq Nat
    BY FkIpcAssumption
  <2>2. HistoryOK(h)
    <3>1. \E a, r, t, d : h = [asked |-> a, ran |-> r, told |-> t,
                               said |-> [guest |-> 0, sdk |-> 0], heard |-> d]
      BY DEF Init
    <3>2. PICK a, r, t, d : h = [asked |-> a, ran |-> r, told |-> t,
                                 said |-> [guest |-> 0, sdk |-> 0], heard |-> d]
      BY <3>1
    <3> QED BY <2>1, <3>2 DEF HistoryOK
  <2> QED BY <2>1, <2>2 DEF BooksOK, Init, MaxDown
<1> QED BY <1>1, <1>2, <1>3, <1>4 DEF IpcInv

\* Every step of the whole preserves the invariant.
LEMMA IpcNextInv == IpcInv /\ [Next]_vars => IpcInv'
<1> SUFFICES ASSUME IpcInv, [Next]_vars PROVE IpcInv'
  OBVIOUS
<1>1. CASE Next
  <2>1. Typed' /\ (Between \/ GuestTurn \/ SdkTurn \/ Restored)
    BY <1>1, StepKind
  <2>2. /\ Joined(g) /\ Joined(c) /\ AcksOwn /\ (\A s \in saved : SavedSound(s))
        /\ c \in SessionState
    BY DEF IpcInv, CompanionSound, CompanionTypeOK
  <2>3. Joined(g') /\ Joined(c') /\ AcksOwn'
    <3>1. CASE Between
      BY <2>2, <3>1 DEF Between, Joined, AcksOwn
    <3>2. CASE GuestTurn
      <4>1. c' = c /\ AcksOwn'
        BY <2>2, <3>2 DEF GuestTurn, AcksOwn
      <4>2. Joined(g')
        <5>1. CASE GuestLeaves
          BY <5>1 DEF GuestLeaves, Joined
        <5>2. CASE GuestSearches
          BY <2>2, <5>2 DEF GuestSearches, Joined
        <5>3. CASE \E f \in Datagrams(toGuest) : GuestJoins(f)
          BY <2>2, <5>3 DEF GuestJoins, Joined, AcksOwn
        <5>4. CASE GuestGoes
          BY <2>2, <5>4 DEF GuestGoes, Joined
        <5> QED BY <3>2, <5>1, <5>2, <5>3, <5>4 DEF GuestTurn
      <4> QED BY <2>2, <4>1, <4>2 DEF Joined
    <3>3. CASE SdkTurn
      <4>1. Joined(g')
        BY <2>2, <3>3 DEF SdkTurn, Joined
      <4>2. CASE Leaves
        BY <2>2, <4>1, <4>2 DEF Leaves, Joined, AcksOwn
      <4>3. CASE \E f : \E e \in Fresh(f) : Begins(e, f.corr)
        BY <2>2, <4>1, <4>3 DEF Begins, Joined, AcksOwn, Fresh
      <4>4. CASE Stays
        BY <2>2, <4>1, <4>4 DEF Stays, Joined, AcksOwn
      <4> QED BY <3>3, <4>2, <4>3, <4>4 DEF SdkTurn
    <3>4. CASE Restored
      <4>1. PICK s \in saved : g' = s.link
        BY <3>4 DEF Restored
      <4>2. Joined(s.link)
        BY <2>2 DEF SavedSound
      <4> QED BY <2>2, <3>4, <4>1, <4>2 DEF Restored, Joined, AcksOwn, Datagrams
    <3> QED BY <2>1, <3>1, <3>2, <3>3, <3>4
  <2> QED BY <2>1, <2>3 DEF IpcInv, CompanionSound, Typed, Joined
<1>2. CASE UNCHANGED vars
  BY <1>2 DEF vars, IpcInv, GuestInv, Punctual, Earliest, OnTime, CompanionSound,
     CompanionTypeOK, Joined, AcksOwn, Datagrams, SavedSound, BooksOK, HistoryOK
<1> QED BY <1>1, <1>2

\* The invariant holds of every behaviour of the two ends, loads and all.
THEOREM IpcInvariance == Spec => []IpcInv
BY IpcInitInv, IpcNextInv, PTL DEF Spec

\* Every field of both ends, of the save and of what is on the sockets holds
\* what its Go type allows (link.go, type Link; session.go, type Session).
THEOREM IpcTypes == Spec => []TypeOK
<1>1. IpcInv => TypeOK
  BY DEF IpcInv, GuestInv, Sound, GuestTypeOK, CompanionSound, SavedSound, BooksOK, TypeOK
<1> QED BY <1>1, IpcInvariance, PTL

\* A link never adopts the session another mod's companion offers, whatever it
\* answers and whatever a load brings back (deliver's port filter, onHelloAck).
THEOREM OnlyOwnSession == Spec => []OwnSession
<1>1. IpcInv => OwnSession
  BY FkIpcAssumption DEF IpcInv, Joined, OwnSession
<1> QED BY <1>1, IpcInvariance, PTL

\* What the guest's link promises on its own it promises in the game: neither
\* the companion nor a load leaves anything of an old session, overfills a queue
\* or loses sight of a request (resetSession, onHelloAck, sendMessage,
\* serviceRetries; Reload).
THEOREM LinkKeptByLoads ==
  Spec => [](SessionBoundary /\ QueueBounded /\ NoRequestOverlooked)
<1>1. IpcInv => GuestInv
  BY DEF IpcInv
<1>2. GuestInv => SessionBoundary
  BY DEF GuestInv, Sound, OfSession, Blank, DownFirst, SessionBoundary,
         EpochOfQueue, EpochOfDedup, Quiesced, SearchingXorUp
<1>3. GuestInv => QueueBounded
  BY DEF GuestInv, Sound, Within, QueueBounded
<1>4. GuestInv => NoRequestOverlooked
  BY DEF GuestInv, Punctual, OnTime, Earliest, NoRequestOverlooked
<1> QED BY <1>1, <1>2, <1>3, <1>4, IpcInvariance, PTL

-----------------------------------------------------------------------------
(* Neither end has heard more than the other said.                         *)

\* A message of session e.
DataOf(f, e) == f.type \in DataTypes /\ f.epoch = e

\* Nothing was said of session e yet that anybody could hear or has heard.
Unused(e) ==
  /\ \A f \in Datagrams(out) : ~DataOf(f, e)
  /\ c.up /\ c.epoch = e => \A ch \in Chans : c.rxLast[ch] = 0

(***************************************************************************)
(* The serial comparison tells which of two numbers is newer while they    *)
(* are less than half the modulus apart: 2^31 frames in the program.  No   *)
(* datagram still on its way, and no number last heard, is left so far     *)
(* behind; and a HELLO_ACK that bears the correlation id minted next, a    *)
(* whole turn of that counter old, offers no session that was used.        *)
(***************************************************************************)
Fits(tx, ch, x) == SerialDelta(tx[ch], x) + Spare < U32 \div 2
Window ==
  /\ g.up => \A f \in Outbound : DataOf(f, g.epoch) => Fits(g.txSeq, f.ch, f.seq)
  /\ c.up => \A f \in Datagrams(toGuest) : DataOf(f, c.epoch) => Fits(c.txSeq, f.ch, f.seq)
  /\ SameSession => \A ch \in Chans : /\ Fits(g.txSeq, ch, c.rxLast[ch])
                                      /\ Fits(c.txSeq, ch, g.rxLast[ch])
  /\ \A a \in Datagrams(toGuest) : a.type = "HELLO_ACK" =>
       /\ c.up /\ c.epoch = a.epoch => \A ch \in Chans : Fits(c.txSeq, ch, 0)
       /\ a.corr = NextCorr(g.corrCtr) => Unused(a.epoch)

\* What is on its way was said: its number is not ahead of its sender's counter.
SaidByGuest ==
  g.up => \A f \in Outbound : DataOf(f, g.epoch) => Trails(g.txSeq, f.ch, f.seq, 0)
SaidBySdk ==
  c.up => \A f \in Datagrams(toGuest) : DataOf(f, c.epoch) => Trails(c.txSeq, f.ch, f.seq, 0)

\* So what was heard was said.
HeardOfEach ==
  SameSession => \A ch \in Chans : /\ Trails(g.txSeq, ch, c.rxLast[ch], 0)
                                   /\ Trails(c.txSeq, ch, g.rxLast[ch], 0)

\* A session the guest may still join starts at 0 on both sides: the guest has
\* said nothing in it, and what the companion said is ahead of 0.
OfferIsNew ==
  \A a \in Datagrams(toGuest) : a.type = "HELLO_ACK" =>
    /\ g.helloCorr # 0 /\ a.corr = g.helloCorr => Unused(a.epoch)
    /\ c.up /\ c.epoch = a.epoch => \A ch \in Chans : Trails(c.txSeq, ch, 0, 0)

SeqInv == IpcInv /\ SaidByGuest /\ SaidBySdk /\ HeardOfEach /\ OfferIsNew

\* Spare numbers more leave a counter ahead of what it was ahead of.
LEMMA SendsKeep ==
  ASSUME NEW tx, NEW F, NEW e, NEW ux, NEW G, Sends(tx, F, e, ux, G, Spare),
         NEW ch \in Chans, NEW x \in Word, Trails(tx, ch, x, 0), Fits(tx, ch, x)
  PROVE  Trails(ux, ch, x, 0)
<1>1. Spare \in Nat /\ U32 \div 2 \in Nat /\ Spare + 0 = Spare /\ 0 \in Nat
  BY HalfModulus, WireAssumption DEF Spare
<1>2. Trails(tx, ch, x, Spare)
  BY <1>1 DEF Trails, Fits
<1>3. Trails(tx, ch, x, Spare + 0)
  BY <1>1, <1>2
<1> QED BY <1>1, <1>3 DEF Sends

\* What an end sends is at or behind the counter it leaves.
LEMMA SaidKept ==
  ASSUME NEW tx, NEW F, F \subseteq Frame, NEW e, NEW ux, NEW G,
         Sends(tx, F, e, ux, G, Spare), MaxFragments < U32 \div 2,
         \A f \in F : DataOf(f, e) => Trails(tx, f.ch, f.seq, 0) /\ Fits(tx, f.ch, f.seq)
  PROVE  \A f \in G : DataOf(f, e) => Trails(ux, f.ch, f.seq, 0)
<1> SUFFICES ASSUME NEW f \in G, DataOf(f, e) PROVE Trails(ux, f.ch, f.seq, 0)
  OBVIOUS
<1>1. f.type \in DataTypes
  BY DEF DataOf
<1>2. CASE f \in F
  <2>1. f.ch \in Chans /\ f.seq \in Word
    BY <1>1, <1>2, DataFrames DEF DataFrame
  <2> QED BY <1>2, <2>1, SendsKeep
<1>3. CASE f \notin F
  <2>1. Spare \in Nat /\ U32 \div 2 \in Nat /\ Spare <= U32 \div 2
    BY HalfModulus, WireAssumption DEF Spare
  <2>2. Trails(ux, f.ch, f.seq, (U32 \div 2) - Spare)
    BY <1>1, <1>3, <2>1 DEF Sends
  <2> QED BY <2>1, <2>2 DEF Trails
<1> QED BY <1>2, <1>3

\* What an end has on its way are frames.
LEMMA OutboundFrames ==
  ASSUME GuestInv
  PROVE  /\ Outbound \subseteq Frame /\ Datagrams(out) \subseteq Frame
         /\ ~g.up => Queued(g) = {}
<1>1. g \in LinkState /\ out \in Seq(Frame) /\ Blank(g)
  BY DEF GuestInv, Sound
<1>2. Queued(g) \subseteq Frame /\ Datagrams(out) \subseteq Frame
  BY <1>1, LinkTyped, DatagramsFrames
<1>3. ASSUME ~g.up PROVE Queued(g) = {}
  BY <1>1, <1>3 DEF Blank, Queued, Datagrams
<1> QED BY <1>2, <1>3 DEF Outbound

\* What is on the way through the net keeps what was said of it.
LEMMA SeqBetween ==
  ASSUME SeqInv, Between
  PROVE  (SaidByGuest /\ SaidBySdk /\ HeardOfEach /\ OfferIsNew)'
<1>1. Outbound' \subseteq Outbound
  BY DEF Between, Outbound, Queued
<1>2. SaidByGuest' /\ SaidBySdk' /\ HeardOfEach'
  BY <1>1 DEF SeqInv, Between, SaidByGuest, SaidBySdk, HeardOfEach, SameSession, Trails
<1>3. OfferIsNew'
  BY DEF SeqInv, Between, OfferIsNew, Unused, Trails
<1> QED BY <1>2, <1>3

\* A turn of the guest's keeps it: what it says comes after what it said, and
\* what it joins is new.
LEMMA SeqGuest ==
  ASSUME SeqInv, Window, GuestTurn, MaxFragments < U32 \div 2
  PROVE  (SaidByGuest /\ SaidBySdk /\ HeardOfEach /\ OfferIsNew)'
<1>1. /\ GuestInv /\ g \in LinkState /\ c \in SessionState /\ DownFirst(g)
      /\ Outbound \subseteq Frame /\ (~g.up => Queued(g) = {})
  BY OutboundFrames DEF SeqInv, IpcInv, GuestInv, Sound, CompanionSound, CompanionTypeOK
<1>2. c' = c /\ Datagrams(toGuest') \subseteq Datagrams(toGuest)
  BY DEF GuestTurn
<1>3. SaidBySdk'
  BY <1>2 DEF SeqInv, SaidBySdk
<1>4. ASSUME NEW a \in Datagrams(toGuest'), a.type = "HELLO_ACK", c.up, c.epoch = a.epoch,
             NEW ch \in Chans
      PROVE  Trails(c.txSeq, ch, 0, 0)
  BY <1>2, <1>4 DEF SeqInv, OfferIsNew
<1>5. ASSUME g'.helloCorr # 0 =>
               \A a \in Datagrams(toGuest') :
                 a.type = "HELLO_ACK" /\ a.corr = g'.helloCorr => Unused(a.epoch)',
             ~g'.up
      PROVE  (SaidByGuest /\ HeardOfEach /\ OfferIsNew)'
  BY <1>2, <1>4, <1>5 DEF SaidByGuest, HeardOfEach, SameSession, OfferIsNew
<1>6. CASE GuestLeaves
  BY <1>3, <1>5, <1>6 DEF GuestLeaves
<1>7. CASE GuestSearches
  <2>1. ASSUME NEW a \in Datagrams(toGuest'), a.type = "HELLO_ACK", a.corr = g'.helloCorr
        PROVE  Unused(a.epoch)'
    <3>1. Unused(a.epoch)
      BY <1>2, <1>7, <2>1 DEF GuestSearches, Window
    <3>2. \A f \in Datagrams(out') : ~DataOf(f, a.epoch)
      BY <1>7, <3>1 DEF GuestSearches, Unused, DataOf
    <3> QED BY <1>2, <3>1, <3>2 DEF Unused, Datagrams
  <2> QED BY <1>3, <1>5, <1>7, <2>1 DEF GuestSearches
<1>8. ASSUME NEW f \in Datagrams(toGuest), GuestJoins(f)
      PROVE  (SaidByGuest /\ HeardOfEach /\ OfferIsNew)'
  <2>1. Unused(f.epoch)
    BY <1>8 DEF GuestJoins, Answers, SeqInv, OfferIsNew
  <2>2. Outbound' = Datagrams(out)
    <3>1. Queued(g') = Queued(g) /\ Datagrams(out') = Datagrams(out)
      BY <1>8 DEF GuestJoins, Queued, Datagrams
    <3>2. Outbound' = Datagrams(out') \cup Queued(g')
      BY DEF Outbound, Queued, Datagrams
    <3> QED BY <1>1, <1>8, <3>1, <3>2 DEF GuestJoins
  <2>3. SaidByGuest'
    BY <1>8, <2>1, <2>2 DEF GuestJoins, SaidByGuest, Unused
  <2>4. ASSUME SameSession', NEW ch \in Chans
        PROVE  Trails(g'.txSeq, ch, c.rxLast[ch], 0) /\ Trails(c.txSeq, ch, g'.rxLast[ch], 0)
    <3>1. c.up /\ c.epoch = f.epoch /\ c.rxLast[ch] = 0
      BY <1>2, <1>8, <2>1, <2>4 DEF SameSession, GuestJoins, Unused
    <3>2. g'.txSeq[ch] = 0 /\ g'.rxLast[ch] = 0
      BY <1>8 DEF GuestJoins
    <3>3. SerialDelta(0, 0) = 0 /\ 0 \in 0 .. (U32 \div 2) - 1 - 0
      BY SerialDeltaSelf, HalfModulus, WireAssumption DEF Word
    <3>4. Trails(g'.txSeq, ch, 0, 0)
      BY <3>2, <3>3 DEF Trails
    <3>5. Trails(c.txSeq, ch, 0, 0)
      BY <1>8, <3>1 DEF GuestJoins, SeqInv, OfferIsNew
    <3> QED BY <3>1, <3>2, <3>4, <3>5
  <2>5. HeardOfEach'
    BY <1>2, <2>4 DEF HeardOfEach
  <2>6. OfferIsNew'
    BY <1>2, <1>4, <1>8 DEF GuestJoins, OfferIsNew
  <2> QED BY <2>3, <2>5, <2>6
<1>9. ASSUME GuestGoes,
             \/ g'.rxLast = g.rxLast
             \/ \E f \in Datagrams(toGuest) :
                  /\ f \in DataFrame /\ InSession(f) /\ ~Stale(g, f)
                  /\ g'.rxLast = [g.rxLast EXCEPT ![f.ch] = f.seq]
      PROVE  (SaidByGuest /\ HeardOfEach /\ OfferIsNew)'
  <2>1. /\ g'.up = g.up /\ g'.epoch = g.epoch /\ g'.helloCorr = g.helloCorr
        /\ Sends(g.txSeq, Outbound, g.epoch, g'.txSeq, Outbound', Spare)
    BY <1>9 DEF GuestGoes
  <2>2. SaidByGuest'
    <3>1. SUFFICES ASSUME g.up
                   PROVE  \A f \in Outbound' : DataOf(f, g.epoch) =>
                            Trails(g'.txSeq, f.ch, f.seq, 0)
      BY <2>1 DEF SaidByGuest
    <3>2. \A f \in Outbound : DataOf(f, g.epoch) =>
            Trails(g.txSeq, f.ch, f.seq, 0) /\ Fits(g.txSeq, f.ch, f.seq)
      BY <3>1 DEF SeqInv, SaidByGuest, Window
    <3> DEFINE tx == g.txSeq  F == Outbound  ux == g'.txSeq  G == Outbound'  e == g.epoch
    <3>3. /\ F \subseteq Frame /\ Sends(tx, F, e, ux, G, Spare)
          /\ \A f \in F : DataOf(f, e) => Trails(tx, f.ch, f.seq, 0) /\ Fits(tx, f.ch, f.seq)
      BY <1>1, <2>1, <3>2
    <3> HIDE DEF tx, F, ux, G, e
    <3>4. \A f \in G : DataOf(f, e) => Trails(ux, f.ch, f.seq, 0)
      BY <3>3, SaidKept
    <3> QED BY <3>4 DEF ux, G, e
  <2>3. ASSUME SameSession', NEW ch \in Chans
        PROVE  Trails(g'.txSeq, ch, c.rxLast[ch], 0) /\ Trails(c.txSeq, ch, g'.rxLast[ch], 0)
    <3>1. SameSession
      BY <1>2, <2>1, <2>3 DEF SameSession
    <3>2. /\ c.rxLast[ch] \in Word
          /\ Trails(g.txSeq, ch, c.rxLast[ch], 0) /\ Fits(g.txSeq, ch, c.rxLast[ch])
          /\ Trails(c.txSeq, ch, g.rxLast[ch], 0)
      BY <1>1, <3>1 DEF SeqInv, HeardOfEach, Window, SessionState
    <3>3. Trails(g'.txSeq, ch, c.rxLast[ch], 0)
      BY <2>1, <3>2, SendsKeep
    <3>4. Trails(c.txSeq, ch, g'.rxLast[ch], 0)
      <4>1. CASE g'.rxLast = g.rxLast
        BY <3>2, <4>1
      <4>2. ASSUME NEW f \in Datagrams(toGuest), f \in DataFrame, InSession(f),
                   g'.rxLast = [g.rxLast EXCEPT ![f.ch] = f.seq]
            PROVE  Trails(c.txSeq, ch, g'.rxLast[ch], 0)
        <5>1. DataOf(f, c.epoch) /\ c.up
          BY <3>1, <4>2 DEF DataOf, InSession, SameSession, DataFrame
        <5>2. Trails(c.txSeq, f.ch, f.seq, 0)
          BY <4>2, <5>1 DEF SeqInv, SaidBySdk
        <5>3. g'.rxLast[ch] = IF ch = f.ch THEN f.seq ELSE g.rxLast[ch]
          BY <1>1, <4>2 DEF LinkState
        <5> QED BY <3>2, <5>2, <5>3
      <4> QED BY <1>9, <4>1, <4>2
    <3> QED BY <3>3, <3>4
  <2>4. HeardOfEach'
    BY <1>2, <2>3 DEF HeardOfEach
  <2>5. OfferIsNew'
    <3>1. ASSUME NEW a \in Datagrams(toGuest'), a.type = "HELLO_ACK",
                 g.helloCorr # 0, a.corr = g.helloCorr
          PROVE  Unused(a.epoch)'
      <4>1. Unused(a.epoch) /\ Outbound = Datagrams(out)
        BY <1>1, <1>2, <3>1 DEF SeqInv, OfferIsNew, DownFirst, Outbound
      <4>2. \A f \in Datagrams(out') : ~DataOf(f, a.epoch)
        BY <1>9, <4>1 DEF GuestGoes, Unused, DataOf
      <4> QED BY <1>2, <4>1, <4>2 DEF Unused, Datagrams
    <3> QED BY <1>2, <1>4, <2>1, <3>1 DEF OfferIsNew
  <2> QED BY <2>2, <2>4, <2>5
<1> QED BY <1>3, <1>6, <1>7, <1>8, <1>9 DEF GuestTurn

\* So does a turn of the companion's; a session it begins nobody has used.
LEMMA SeqSdk ==
  ASSUME SeqInv, Window, SdkTurn, MaxFragments < U32 \div 2
  PROVE  (SaidByGuest /\ SaidBySdk /\ HeardOfEach /\ OfferIsNew)'
<1>1. /\ g \in LinkState /\ c \in SessionState /\ toGuest \in Seq(Frame)
      /\ Datagrams(toGuest) \subseteq Frame /\ Joined(g)
  BY DatagramsFrames DEF SeqInv, IpcInv, GuestInv, Sound, CompanionSound, CompanionTypeOK
<1>2. g' = g /\ Datagrams(out') \subseteq Datagrams(out)
  BY DEF SdkTurn
<1>3. Outbound' \subseteq Outbound
  BY <1>2 DEF Outbound, Queued
<1>4. SaidByGuest'
  BY <1>2, <1>3 DEF SeqInv, SaidByGuest
\* What nobody used is used no more by what leaves the socket.
<1>5. ASSUME NEW e, Unused(e), c'.up /\ c'.epoch = e => \A ch \in Chans : c'.rxLast[ch] = 0
      PROVE  Unused(e)'
  BY <1>2, <1>5 DEF Unused
<1>6. CASE Leaves
  <2>1. /\ ~c'.up
        /\ \A f \in Datagrams(toGuest') : f \in Datagrams(toGuest) \/ f.type = "BYE"
    BY <1>6 DEF Leaves
  <2>2. SaidBySdk' /\ HeardOfEach'
    BY <2>1 DEF SaidBySdk, HeardOfEach, SameSession
  <2>3. OfferIsNew'
    <3>1. ASSUME NEW a \in Datagrams(toGuest'), a.type = "HELLO_ACK",
                 g.helloCorr # 0, a.corr = g.helloCorr
          PROVE  Unused(a.epoch)'
      <4>1. Unused(a.epoch)
        BY <2>1, <3>1 DEF SeqInv, OfferIsNew
      <4> QED BY <1>5, <2>1, <4>1
    <3> QED BY <1>2, <2>1, <3>1 DEF OfferIsNew
  <2> QED BY <1>4, <2>2, <2>3
<1>7. ASSUME NEW f, NEW e \in Fresh(f), Begins(e, f.corr)
      PROVE  (SaidBySdk /\ HeardOfEach /\ OfferIsNew)'
  <2> DEFINE ack == [type |-> "HELLO_ACK", epoch |-> e, corr |-> f.corr, name |-> SdkName]
  <2>1. /\ c'.up /\ c'.epoch = e /\ c'.txSeq = [ch \in Chans |-> 0]
        /\ c'.rxLast = [ch \in Chans |-> 0]
        /\ Datagrams(toGuest') \subseteq Datagrams(toGuest) \cup {ack}
    BY <1>7 DEF Begins
  <2>2. /\ e # g.epoch /\ (\A x \in Datagrams(out) : x.epoch # e)
        /\ (\A x \in Datagrams(toGuest) : x.epoch # e)
    BY <1>7 DEF Fresh, Held, Datagrams
  <2>3. ack.type = "HELLO_ACK" /\ ack.epoch = e /\ ack.type \notin DataTypes
    BY DEF DataTypes
  <2> HIDE DEF ack
  <2>4. SaidBySdk'
    BY <2>1, <2>2, <2>3 DEF SaidBySdk, DataOf
  <2>5. HeardOfEach'
    BY <1>2, <2>1, <2>2 DEF HeardOfEach, SameSession
  <2>6. OfferIsNew'
    <3>1. ASSUME NEW a \in Datagrams(toGuest'), a.type = "HELLO_ACK",
                 g.helloCorr # 0, a.corr = g.helloCorr
          PROVE  Unused(a.epoch)'
      <4>1. CASE a \in Datagrams(toGuest)
        <5>1. Unused(a.epoch)
          BY <3>1, <4>1 DEF SeqInv, OfferIsNew
        <5> QED BY <1>5, <2>1, <5>1
      <4>2. CASE a = ack
        BY <1>2, <2>1, <2>2, <2>3, <4>2 DEF Unused, DataOf
      <4> QED BY <2>1, <3>1, <4>1, <4>2
    <3>2. \A ch \in Chans : Trails(c'.txSeq, ch, 0, 0)
      <4>1. SerialDelta(0, 0) = 0 /\ 0 \in 0 .. (U32 \div 2) - 1 - 0
        BY SerialDeltaSelf, HalfModulus, WireAssumption DEF Word
      <4> QED BY <2>1, <4>1 DEF Trails
    <3> QED BY <1>2, <3>1, <3>2 DEF OfferIsNew
  <2> QED BY <2>4, <2>5, <2>6
<1>8. ASSUME Stays,
             \/ c'.rxLast = c.rxLast
             \/ \E f \in Datagrams(out) :
                  /\ f \in DataFrame /\ Current(f) /\ ~SdkStale(f)
                  /\ c'.rxLast = [c.rxLast EXCEPT ![f.ch] = f.seq]
      PROVE  (SaidBySdk /\ HeardOfEach /\ OfferIsNew)'
  <2>1. /\ c'.up = c.up /\ c'.epoch = c.epoch
        /\ Sends(c.txSeq, Datagrams(toGuest), c.epoch, c'.txSeq, Datagrams(toGuest'), Spare)
        /\ \A f \in Datagrams(toGuest') : f \in Datagrams(toGuest) \/ f.type # "HELLO_ACK"
    BY <1>8 DEF Stays
  <2>2. SaidBySdk'
    <3>1. SUFFICES ASSUME c.up
                   PROVE  \A f \in Datagrams(toGuest') : DataOf(f, c.epoch) =>
                            Trails(c'.txSeq, f.ch, f.seq, 0)
      BY <2>1 DEF SaidBySdk
    <3> DEFINE tx == c.txSeq  F == Datagrams(toGuest)  ux == c'.txSeq
               G == Datagrams(toGuest')  e == c.epoch
    <3>2. \A f \in F : DataOf(f, e) => Trails(tx, f.ch, f.seq, 0) /\ Fits(tx, f.ch, f.seq)
      BY <3>1 DEF SeqInv, SaidBySdk, Window
    <3>3. F \subseteq Frame /\ Sends(tx, F, e, ux, G, Spare)
      BY <1>1, <2>1
    <3> HIDE DEF tx, F, ux, G, e
    <3>4. \A f \in G : DataOf(f, e) => Trails(ux, f.ch, f.seq, 0)
      BY <3>2, <3>3, SaidKept
    <3> QED BY <3>4 DEF ux, G, e
  <2>3. ASSUME SameSession', NEW ch \in Chans
        PROVE  Trails(g.txSeq, ch, c'.rxLast[ch], 0) /\ Trails(c'.txSeq, ch, g.rxLast[ch], 0)
    <3>1. SameSession
      BY <1>2, <2>1, <2>3 DEF SameSession
    <3>2. /\ g.rxLast[ch] \in Word
          /\ Trails(c.txSeq, ch, g.rxLast[ch], 0) /\ Fits(c.txSeq, ch, g.rxLast[ch])
          /\ Trails(g.txSeq, ch, c.rxLast[ch], 0)
      BY <1>1, <3>1 DEF SeqInv, HeardOfEach, Window, LinkState
    <3>3. Trails(c'.txSeq, ch, g.rxLast[ch], 0)
      BY <2>1, <3>2, SendsKeep
    <3>4. Trails(g.txSeq, ch, c'.rxLast[ch], 0)
      <4>1. CASE c'.rxLast = c.rxLast
        BY <3>2, <4>1
      <4>2. ASSUME NEW f \in Datagrams(out), f \in DataFrame, Current(f),
                   c'.rxLast = [c.rxLast EXCEPT ![f.ch] = f.seq]
            PROVE  Trails(g.txSeq, ch, c'.rxLast[ch], 0)
        <5>1. DataOf(f, g.epoch) /\ g.up /\ f \in Outbound
          BY <3>1, <4>2 DEF DataOf, Current, SameSession, DataFrame, Outbound
        <5>2. Trails(g.txSeq, f.ch, f.seq, 0)
          BY <5>1 DEF SeqInv, SaidByGuest
        <5>3. c'.rxLast[ch] = IF ch = f.ch THEN f.seq ELSE c.rxLast[ch]
          BY <1>1, <4>2 DEF SessionState
        <5> QED BY <3>2, <5>2, <5>3
      <4> QED BY <1>8, <4>1, <4>2
    <3> QED BY <3>3, <3>4
  <2>4. HeardOfEach'
    BY <1>2, <2>3 DEF HeardOfEach
  <2>5. OfferIsNew'
    <3>1. ASSUME NEW a \in Datagrams(toGuest'), a.type = "HELLO_ACK"
          PROVE  a \in Datagrams(toGuest)
      BY <2>1, <3>1
    <3>2. ASSUME NEW a \in Datagrams(toGuest'), a.type = "HELLO_ACK",
                 g.helloCorr # 0, a.corr = g.helloCorr
          PROVE  Unused(a.epoch)'
      <4>1. Unused(a.epoch)
        BY <3>1, <3>2 DEF SeqInv, OfferIsNew
      <4>2. ASSUME c.up, c.epoch = a.epoch
            PROVE  c'.rxLast = c.rxLast
        <5>1. ASSUME NEW f \in Datagrams(out), f \in DataFrame, Current(f) PROVE FALSE
          <6>1. DataOf(f, a.epoch)
            BY <4>2, <5>1 DEF DataOf, Current, DataFrame
          <6> QED BY <4>1, <6>1 DEF Unused
        <5> QED BY <1>8, <5>1
      <4> QED BY <1>5, <2>1, <4>1, <4>2 DEF Unused
    <3>3. ASSUME NEW a \in Datagrams(toGuest'), a.type = "HELLO_ACK", c.up, c.epoch = a.epoch,
                 NEW ch \in Chans
          PROVE  Trails(c'.txSeq, ch, 0, 0)
      <4>1. Trails(c.txSeq, ch, 0, 0) /\ Fits(c.txSeq, ch, 0) /\ 0 \in Word
        BY <3>1, <3>3, WireAssumption DEF SeqInv, OfferIsNew, Window, Word
      <4> QED BY <2>1, <4>1, SendsKeep
    <3> QED BY <1>2, <2>1, <3>2, <3>3 DEF OfferIsNew
  <2> QED BY <2>2, <2>4, <2>5
<1> QED BY <1>4, <1>6, <1>7, <1>8 DEF SdkTurn

\* An end starts with nothing said.
LEMMA SeqInitInv == Init => SeqInv
<1> SUFFICES ASSUME Init PROVE SeqInv
  OBVIOUS
<1>1. ~g.up /\ ~c.up /\ toGuest = <<>>
  BY DEF Init, GuestInit, NewLink, CompanionInit, NewSession
<1>2. SaidByGuest /\ SaidBySdk /\ HeardOfEach /\ OfferIsNew
  BY <1>1 DEF SaidByGuest, SaidBySdk, HeardOfEach, SameSession, OfferIsNew, Datagrams
<1> QED BY <1>2, IpcInitInv DEF SeqInv

\* Without a load, every step from inside the window keeps the invariant.
LEMMA SeqNextInv ==
  ASSUME MaxLoads = 0, MaxFragments < U32 \div 2
  PROVE  SeqInv /\ Window /\ [Next]_vars => SeqInv'
<1> SUFFICES ASSUME SeqInv, Window, [Next]_vars PROVE SeqInv'
  OBVIOUS
<1>1. IpcInv'
  BY IpcNextInv DEF SeqInv
<1>2. CASE Next
  <2>1. Between \/ GuestTurn \/ SdkTurn \/ Restored
    BY <1>2, StepKind DEF SeqInv
  <2>2. ~Restored
    <3>1. used.loads \in 0 .. MaxLoads
      BY DEF SeqInv, IpcInv, BooksOK
    <3> QED BY <3>1 DEF Restored
  <2> QED BY <1>1, <2>1, <2>2, SeqBetween, SeqGuest, SeqSdk DEF SeqInv
<1>3. CASE UNCHANGED vars
  <2>1. Between
    BY <1>3 DEF vars, Between, Datagrams
  <2> QED BY <1>1, <2>1, SeqBetween DEF SeqInv
<1> QED BY <1>2, <1>3

\* Within the window and without a load, neither end of a session has heard more
\* of a channel than the other has said: no reset, adoption, repeated HELLO, copy
\* or late frame leaves the two ends' counters apart (resetSession, onHelloAck;
\* onHello, resetLocked; channelFrame).
THEOREM NothingHeardUnsaid ==
  ASSUME MaxLoads = 0, MaxFragments < U32 \div 2
  PROVE  Spec /\ []Window => []HeardWasSaid
<1>1. SeqInv => HeardWasSaid
  <2> SUFFICES ASSUME SeqInv, SameSession, NEW ch \in Chans
               PROVE  /\ SerialDelta(g.txSeq[ch], c.rxLast[ch]) >= 0
                      /\ SerialDelta(c.txSeq[ch], g.rxLast[ch]) >= 0
    BY DEF HeardWasSaid
  <2>1. Trails(g.txSeq, ch, c.rxLast[ch], 0) /\ Trails(c.txSeq, ch, g.rxLast[ch], 0)
    BY DEF SeqInv, HeardOfEach
  <2> QED BY <2>1, HalfModulus DEF Trails
<1>2. Init => SeqInv
  BY SeqInitInv
<1>3. SeqInv /\ Window /\ [Next]_vars => SeqInv'
  BY SeqNextInv
<1> QED BY <1>1, <1>2, <1>3, PTL DEF Spec

=============================================================================
