--------------------------- MODULE GuestLinkProofs ---------------------------
(***************************************************************************)
(* What GuestLink promises, proved for every value of its constants: any   *)
(* modulus, any channels, payloads, queue and table sizes and timeouts     *)
(* that its assumptions admit, and any datagrams whatever from the peer.   *)
(*                                                                         *)
(* Sound is the inductive invariant, as a predicate of a link value, so    *)
(* that the parts a handler is composed of are shown to preserve it once   *)
(* each and a handler by composition.  Punctual is its part about the      *)
(* pending requests, which depends on the stage of Pump as well.           *)
(***************************************************************************)
EXTENDS GuestLink, WireProofs

\* Frames and answers belong to the session the link is in.
OfSession(s) ==
  /\ \A p \in Queues : \A i \in DOMAIN s.q[p] : s.q[p][i].epoch = s.epoch
  /\ \A i \in DOMAIN s.dedup : s.dedup[i].epoch = s.epoch

\* A link that is down holds nothing of a session.
Blank(s) ==
  ~s.up => /\ s.epoch = 0 /\ s.pend = {} /\ s.dedup = <<>>
           /\ \A p \in Queues : s.q[p] = <<>>
           /\ \A c \in Chans : /\ s.txSeq[c] = 0 /\ s.rxLast[c] = 0
                               /\ ~s.rasm[c].open /\ ~s.resyncSent[c]

\* It searches only when down, and is down until the engine gate opens.
DownFirst(s) == (s.helloCorr # 0 => ~s.up) /\ (~s.enabled => ~s.up)

Within(s) == \A p \in Queues : Len(s.q[p]) <= MaxQueue

Sound(s) == s \in LinkState /\ OfSession(s) /\ Blank(s) /\ DownFirst(s) /\ Within(s)

\* A request's deadline lies ahead of the tick, within its interval.
OnTime(p, tick, low) ==
  /\ p.tries <= MaxRetries /\ p.interval <= RetryBackoffCap
  /\ SerialDelta(p.due, tick) \in low .. p.interval
Earliest == IF pump.at \in {"flush", "idle"} THEN 1 ELSE 0
Punctual == \A p \in g.pend : OnTime(p, g.tick, Earliest)

GuestInv ==
  /\ Sound(g)
  /\ pump \in [at : Stages, sent : Nat]
  /\ out \in Seq(Frame)
  /\ Punctual

-----------------------------------------------------------------------------
(* The parts of a handler. *)

\* Clearing the channels' state is well-typed and leaves the rest alone
\* (resetSession, onHelloAck).
LEMMA FreshChannelsType ==
  ASSUME NEW s \in LinkState
  PROVE  /\ FreshChannels(s) \in LinkState
         /\ FreshChannels(s) =
              [s EXCEPT !.txSeq = [c \in Chans |-> 0],
                        !.rxLast = [c \in Chans |-> 0],
                        !.resyncSent = [c \in Chans |-> FALSE],
                        !.rasm = [c \in Chans |-> Closed]]
<1>1. 0 \in Word
  BY WireAssumption DEF Word
<1>2. Closed \in Reassembly
  BY <1>1, WireAssumption DEF Closed, Reassembly, DataTypes, Flags
<1>3. FreshChannels(s) =
        [s EXCEPT !.txSeq = [c \in Chans |-> 0],
                  !.rxLast = [c \in Chans |-> 0],
                  !.resyncSent = [c \in Chans |-> FALSE],
                  !.rasm = [c \in Chans |-> Closed]]
  BY DEF FreshChannels, NoChannelState
<1>4. /\ [c \in Chans |-> 0] \in [Chans -> Word]
      /\ [c \in Chans |-> FALSE] \in [Chans -> BOOLEAN]
      /\ [c \in Chans |-> Closed] \in [Chans -> Reassembly]
  BY <1>1, <1>2
<1>5. FreshChannels(s) \in LinkState
  BY <1>3, <1>4 DEF LinkState
<1> QED BY <1>3, <1>5

\* A link that lost its session is blank and sound, whatever it was before.
LEMMA ResetSessionSound ==
  ASSUME NEW s \in LinkState
  PROVE  /\ Sound(ResetSession(s))
         /\ ResetSession(s).pend = {}
<1> DEFINE d == [s EXCEPT !.up = FALSE, !.epoch = 0, !.helloCorr = 0,
                   !.helloDue = TRUE, !.boot = Add(@, 1), !.dedup = <<>>,
                   !.pend = {}, !.q = [p \in Queues |-> <<>>]]
<1>1. 0 \in Word /\ 0 \in Epochs
  BY WireAssumption DEF Word
<1>2. Add(s.boot, 1) \in Word
  BY AddSubWord DEF LinkState, Word
<1>3. /\ <<>> \in Seq(DedupEntry)
      /\ [p \in Queues |-> <<>>] \in [Queues -> Seq(BeatFrame \cup DataFrame)]
  OBVIOUS
<1>4. d \in LinkState
  BY <1>1, <1>2, <1>3 DEF LinkState
<1>5. /\ d.up = FALSE /\ d.epoch = 0 /\ d.helloCorr = 0 /\ d.dedup = <<>>
      /\ d.pend = {} /\ d.q = [p \in Queues |-> <<>>]
  BY DEF LinkState
<1>6. ResetSession(s) = FreshChannels(d)
  BY DEF ResetSession
<1> DEFINE e == FreshChannels(d)
<1> HIDE DEF d
<1>7. /\ e \in LinkState
      /\ e = [d EXCEPT !.txSeq = [c \in Chans |-> 0],
                       !.rxLast = [c \in Chans |-> 0],
                       !.resyncSent = [c \in Chans |-> FALSE],
                       !.rasm = [c \in Chans |-> Closed]]
  BY <1>4, FreshChannelsType
<1>8. /\ e.up = FALSE /\ e.epoch = 0 /\ e.helloCorr = 0 /\ e.dedup = <<>>
      /\ e.pend = {} /\ e.q = [p \in Queues |-> <<>>]
      /\ e.txSeq = [c \in Chans |-> 0] /\ e.rxLast = [c \in Chans |-> 0]
      /\ e.resyncSent = [c \in Chans |-> FALSE]
      /\ e.rasm = [c \in Chans |-> Closed]
  BY <1>4, <1>5, <1>7 DEF LinkState
<1> HIDE DEF e
<1>9. OfSession(e) /\ Blank(e) /\ DownFirst(e)
  BY <1>8 DEF OfSession, Blank, DownFirst, Closed
<1>10. Within(e)
  BY <1>8, GuestAssumption DEF Within
<1> QED BY <1>6, <1>7, <1>8, <1>9, <1>10 DEF Sound, e

\* What the parts of a handler leave alone.
SameCourse(s, t) ==
  /\ t.enabled = s.enabled /\ t.tick = s.tick /\ t.up = s.up
  /\ t.epoch = s.epoch /\ t.helloCorr = s.helloCorr

\* Queueing a message on a link that is up keeps it sound, whether or not there
\* is room, and touches no request, table or reassembly (sendMessage).
LEMMA SendMessageSound ==
  ASSUME NEW s, Sound(s), s.up,
         NEW type \in DataTypes, NEW flag \in Flags, NEW ch \in Chans,
         NEW corr \in Word, NEW b \in Bodies
  PROVE  LET t == SendMessage(s, type, flag, ch, corr, b)
         IN  /\ Sound(t) /\ SameCourse(s, t)
             /\ t.pend = s.pend /\ t.rasm = s.rasm /\ t.dedup = s.dedup
             /\ t.rxLast = s.rxLast /\ t.resyncSent = s.resyncSent
<1> DEFINE t == SendMessage(s, type, flag, ch, corr, b)
           c == IF Mints(corr, b) THEN NextCorr(s.corrCtr) ELSE corr
           fs == Fragments(type, flag, ch, s.epoch, s.txSeq[ch], c, b)
           k == QueueOf(ch)
<1>1. s \in LinkState
  BY DEF Sound
<1>2. CASE ~Room(s, ch, b)
  BY <1>2 DEF SendMessage, SameCourse
<1>3. CASE Room(s, ch, b)
  <2>1. c \in Word
    BY <1>1, MintedCorr DEF LinkState
  <2>2. s.epoch \in Epochs /\ s.txSeq[ch] \in Word
    BY <1>1 DEF LinkState
  <2>3. /\ fs \in Seq(DataFrame) /\ Len(fs) = Size[b]
        /\ \A i \in DOMAIN fs : fs[i].epoch = s.epoch
    BY <2>1, <2>2, FragmentsAreFrames
  <2>4. fs \in Seq(BeatFrame \cup DataFrame)
    BY <2>3, SeqMonotonic
  <2>5. k \in Queues /\ s.q \in [Queues -> Seq(BeatFrame \cup DataFrame)]
    BY <1>1 DEF QueueOf, Queues, LinkState
  <2> DEFINE ctr == IF Mints(corr, b) THEN c ELSE s.corrCtr
             nq == s.q[k] \o fs
             x == [s EXCEPT !.q = [s.q EXCEPT ![k] = nq],
                     !.txSeq = [s.txSeq EXCEPT ![ch] = Add(@, Size[b])],
                     !.corrCtr = ctr]
  <2>6. t = x
    BY <1>1, <1>3 DEF SendMessage, LinkState
  <2>7. /\ nq \in Seq(BeatFrame \cup DataFrame)
        /\ Len(nq) = Len(s.q[k]) + Size[b]
        /\ \A i \in 1 .. Len(nq) : nq[i] = IF i <= Len(s.q[k]) THEN s.q[k][i]
                                         ELSE fs[i - Len(s.q[k])]
    <3>1. s.q[k] \in Seq(BeatFrame \cup DataFrame)
      BY <2>5
    <3>2. Len(fs) = Size[b]
      BY <2>3
    <3> HIDE DEF fs, k
    <3>3. /\ s.q[k] \o fs \in Seq(BeatFrame \cup DataFrame)
          /\ Len(s.q[k] \o fs) = Len(s.q[k]) + Len(fs)
          /\ \A i \in 1 .. Len(s.q[k]) + Len(fs) :
               (s.q[k] \o fs)[i] = IF i <= Len(s.q[k]) THEN s.q[k][i]
                                   ELSE fs[i - Len(s.q[k])]
      BY <2>4, <3>1, ConcatProperties
    <3> QED BY <3>2, <3>3
  <2>8. ctr \in Word
    BY <1>1, <2>1 DEF LinkState
  <2>9. [s.txSeq EXCEPT ![ch] = Add(@, Size[b])] \in [Chans -> Word]
    <3>1. s.txSeq \in [Chans -> Word] /\ s.txSeq[ch] \in Int /\ Size[b] \in Int
      BY <1>1, SizeRange DEF LinkState, Word
    <3>2. Add(s.txSeq[ch], Size[b]) \in Word
      BY <3>1, AddSubWord
    <3> QED BY <3>1, <3>2
  <2> HIDE DEF c, fs, nq, ctr, k, t
  <2>10. [s.q EXCEPT ![k] = nq] \in [Queues -> Seq(BeatFrame \cup DataFrame)]
    BY <2>5, <2>7
  <2>11. x \in LinkState
    BY <1>1, <2>8, <2>9, <2>10 DEF LinkState
  <2>12. /\ x.q = [s.q EXCEPT ![k] = nq] /\ SameCourse(s, x)
         /\ x.pend = s.pend /\ x.rasm = s.rasm /\ x.dedup = s.dedup
         /\ x.rxLast = s.rxLast /\ x.resyncSent = s.resyncSent
    BY <1>1 DEF LinkState, SameCourse
  <2> HIDE DEF x
  <2>13. OfSession(x)
    <3>1. ASSUME NEW p \in Queues, NEW i \in DOMAIN x.q[p]
          PROVE  x.q[p][i].epoch = s.epoch
      <4>1. CASE p # k
        BY <2>5, <2>12, <3>1, <4>1 DEF Sound, OfSession
      <4>2. CASE p = k
        <5>1. x.q[p] = nq /\ i \in 1 .. Len(nq)
          BY <2>5, <2>7, <2>12, <4>2, LenProperties
        <5>2. CASE i <= Len(s.q[k])
          <6>1. Len(s.q[k]) \in Nat /\ DOMAIN s.q[k] = 1 .. Len(s.q[k])
            BY <2>5, LenProperties
          <6>2. i \in DOMAIN s.q[k] /\ nq[i] = s.q[k][i]
            BY <2>7, <5>1, <5>2, <6>1
          <6> QED BY <2>5, <5>1, <6>2 DEF Sound, OfSession
        <5>3. CASE ~(i <= Len(s.q[k]))
          <6>1. Len(s.q[k]) \in Nat
            BY <2>5, LenProperties
          <6>2. DOMAIN fs = 1 .. Size[b] /\ Size[b] \in Nat
            BY <2>3, SizeRange, LenProperties
          <6>3. i - Len(s.q[k]) \in DOMAIN fs
            BY <2>7, <5>1, <5>3, <6>1, <6>2
          <6> QED BY <2>3, <2>7, <5>1, <5>3, <6>3
        <5> QED BY <5>2, <5>3
      <4> QED BY <4>1, <4>2
    <3>2. x.epoch = s.epoch /\ x.dedup = s.dedup
      BY <2>12 DEF SameCourse
    <3> QED BY <3>1, <3>2 DEF Sound, OfSession
  <2>14. Within(x)
    BY <1>3, <2>5, <2>7, <2>12 DEF Within, Sound, Room, k
  <2>15. Blank(x) /\ DownFirst(x)
    BY <2>12 DEF SameCourse, Blank, DownFirst, Sound
  <2> QED BY <2>6, <2>11, <2>12, <2>13, <2>14, <2>15 DEF Sound, t
<1> QED BY <1>2, <1>3

\* A link that is up stays sound under a change of anything but its queues, its
\* table and its course.
LEMMA SoundKept ==
  ASSUME NEW s, NEW t, Sound(s), s.up, t \in LinkState, SameCourse(s, t),
         t.q = s.q, t.dedup = s.dedup
  PROVE  Sound(t)
BY DEF Sound, SameCourse, OfSession, Blank, DownFirst, Within

\* Hearing a frame of a session, the RESYNC a gap queues included, keeps the
\* link sound (channelFrame).
LEMMA AcceptSound ==
  ASSUME NEW s, Sound(s), s.up, NEW f \in DataFrame
  PROVE  LET t == Accept(s, f)
         IN  /\ Sound(t) /\ SameCourse(s, t)
             /\ t.pend = s.pend /\ t.rasm = s.rasm /\ t.dedup = s.dedup
<1> DEFINE h == [s EXCEPT !.lastRx = s.tick]
           a == [h EXCEPT !.resyncSent = [h.resyncSent EXCEPT ![f.ch] = TRUE]]
           r == AskResync(h, f)
           t == [r EXCEPT !.rxLast = [r.rxLast EXCEPT ![f.ch] = f.seq]]
<1>1. s \in LinkState /\ f.ch \in Chans /\ f.seq \in Word
  BY DEF Sound, DataFrame
<1>2. /\ h \in LinkState /\ SameCourse(s, h) /\ h.q = s.q
      /\ h.pend = s.pend /\ h.rasm = s.rasm /\ h.dedup = s.dedup
  BY <1>1 DEF LinkState, SameCourse
<1>3. /\ a \in LinkState /\ SameCourse(s, a) /\ a.q = s.q
      /\ a.pend = s.pend /\ a.rasm = s.rasm /\ a.dedup = s.dedup
  <2>1. [h.resyncSent EXCEPT ![f.ch] = TRUE] \in [Chans -> BOOLEAN]
    BY <1>2 DEF LinkState
  <2> HIDE DEF h
  <2> QED BY <1>2, <2>1 DEF LinkState, SameCourse
<1>4. [h EXCEPT !.resyncSent[f.ch] = TRUE] = a
  BY <1>2 DEF LinkState
<1> HIDE DEF h, a
<1>5. Sound(h) /\ Sound(a) /\ a.up
  BY <1>2, <1>3, SoundKept DEF SameCourse
<1>6. /\ Sound(r) /\ SameCourse(s, r) /\ r.pend = s.pend
      /\ r.rasm = s.rasm /\ r.dedup = s.dedup
  <2>1. CASE Gap(h, f) /\ ~h.resyncSent[f.ch]
    <3>1. r = SendMessage(a, "RESYNC", "none", f.ch, 0, NoBody)
      BY <1>4, <2>1 DEF AskResync
    <3>2. /\ "RESYNC" \in DataTypes /\ "none" \in Flags
          /\ 0 \in Word /\ NoBody \in Bodies
      BY WireAssumption DEF DataTypes, Flags, Word
    <3> HIDE DEF r
    <3> QED BY <1>1, <1>3, <1>5, <3>1, <3>2, SendMessageSound DEF SameCourse
  <2>2. CASE ~(Gap(h, f) /\ ~h.resyncSent[f.ch])
    BY <1>2, <1>5, <2>2 DEF AskResync
  <2> QED BY <2>1, <2>2
<1>7. Accept(s, f) = t
  BY <1>6 DEF Accept, h, Sound, LinkState
<1> HIDE DEF r
<1>8. [r.rxLast EXCEPT ![f.ch] = f.seq] \in [Chans -> Word]
  BY <1>1, <1>6 DEF Sound, LinkState
<1>9. /\ t \in LinkState /\ SameCourse(r, t) /\ t.q = r.q
      /\ t.pend = r.pend /\ t.rasm = r.rasm /\ t.dedup = r.dedup
  BY <1>6, <1>8 DEF Sound, LinkState, SameCourse
<1> HIDE DEF t
<1>10. Sound(t)
  BY <1>6, <1>9, SoundKept DEF SameCourse
<1> QED BY <1>6, <1>7, <1>9, <1>10 DEF SameCourse

\* What a frame completes is a message of a known type with a payload to read
\* (reassemble, dispatch).
LEMMA MessageType ==
  ASSUME NEW s \in LinkState, NEW f \in DataFrame, Completes(s, f)
  PROVE  /\ Message(s, f).type \in DataTypes
         /\ Message(s, f).corr \in Word
         /\ BodyOf(Message(s, f).parts) \in Bodies
<1>1. CASE f.nfrag = 1
  <2>1. Message(s, f) = [type |-> f.type, flag |-> f.flag, corr |-> f.corr,
                         parts |-> {<<0, f.body>>}]
    BY <1>1 DEF Message
  <2>2. <<0, f.body>> \in (0 .. MaxFragments - 1) \X Bodies
    BY WireAssumption DEF DataFrame
  <2>3. BodyOf({<<0, f.body>>}) \in Bodies
    <3>1. {<<0, f.body>>} \in SUBSET ((0 .. MaxFragments - 1) \X Bodies)
      BY <2>2
    <3>2. \E p \in {<<0, f.body>>} : p[1] = 0
      OBVIOUS
    <3> QED BY <3>1, <3>2, BodyOfWhole
  <2> QED BY <2>1, <2>3 DEF DataFrame
<1>2. CASE f.nfrag # 1
  <2> DEFINE r == Gather(s.rasm[f.ch], f)
  <2>1. Message(s, f) = [type |-> r.type, flag |-> r.flag, corr |-> r.corr,
                         parts |-> r.parts]
    BY <1>2 DEF Message
  <2>2. s.rasm[f.ch] \in Reassembly
    BY DEF LinkState, DataFrame
  <2>3. r \in Reassembly /\ r.nfrag = f.nfrag
    BY <2>2, GatherType
  <2>4. Whole(r)
    BY <1>2 DEF Completes
  <2> HIDE DEF r
  <2>5. 0 \in 0 .. r.nfrag - 1
    BY <2>3 DEF DataFrame
  <2>6. \E p \in r.parts : p[1] = 0
    BY <2>4, <2>5 DEF Whole
  <2>7. BodyOf(r.parts) \in Bodies
    <3>1. r.parts \in SUBSET ((0 .. MaxFragments - 1) \X Bodies)
      BY <2>3 DEF Reassembly
    <3> QED BY <2>6, <3>1, BodyOfWhole
  <2> QED BY <2>1, <2>3, <2>7 DEF Reassembly
<1> QED BY <1>1, <1>2

\* Taking a completed message in keeps the link sound (channelFrame).
LEMMA ArrivedSound ==
  ASSUME NEW s, Sound(s), s.up, NEW f \in DataFrame
  PROVE  LET t == Arrived(s, f)
         IN  /\ Sound(t) /\ SameCourse(s, t) /\ t.up
             /\ t.pend = s.pend /\ t.dedup = s.dedup
<1> DEFINE a == Accept(s, f)
           t == [a EXCEPT !.rasm = [a.rasm EXCEPT ![f.ch] = Closed]]
<1>1. Sound(a) /\ SameCourse(s, a) /\ a.pend = s.pend /\ a.dedup = s.dedup
  BY AcceptSound
<1> HIDE DEF a
<1>2. CASE f.nfrag = 1
  BY <1>1, <1>2 DEF Arrived, a, SameCourse
<1>3. CASE f.nfrag # 1
  <2>1. Arrived(s, f) = t
    BY <1>1, <1>3 DEF Arrived, a, Sound, LinkState
  <2>2. Closed \in Reassembly
    BY WireAssumption DEF Closed, Reassembly, DataTypes, Flags, Word
  <2>3. [a.rasm EXCEPT ![f.ch] = Closed] \in [Chans -> Reassembly]
    BY <1>1, <2>2 DEF Sound, LinkState
  <2>4. /\ t \in LinkState /\ SameCourse(a, t) /\ t.q = a.q
        /\ t.pend = a.pend /\ t.dedup = a.dedup
    BY <1>1, <2>3 DEF Sound, LinkState, SameCourse
  <2> HIDE DEF t
  <2>5. a.up /\ Sound(t)
    BY <1>1, <2>4, SoundKept DEF SameCourse
  <2> QED BY <1>1, <2>1, <2>4, <2>5 DEF SameCourse
<1> QED BY <1>2, <1>3

\* The link with the entries before the n-th gone from its table.
KeepFrom(s, n) == [s EXCEPT !.dedup = SubSeq(@, n, Len(@))]

\* Dropping from the head of the table keeps answers of the session only.
LEMMA DedupTailSound ==
  ASSUME NEW s, Sound(s), NEW n \in Nat \ {0}
  PROVE  LET t == KeepFrom(s, n)
         IN  Sound(t) /\ SameCourse(s, t) /\ t.pend = s.pend
<1> DEFINE d == SubSeq(s.dedup, n, Len(s.dedup))
           t == KeepFrom(s, n)
<1>1. s \in LinkState /\ s.dedup \in Seq(DedupEntry)
  BY DEF Sound, LinkState
<1>2. /\ Len(s.dedup) \in Nat /\ DOMAIN s.dedup = 1 .. Len(s.dedup)
      /\ \A i \in n .. Len(s.dedup) : s.dedup[i] \in DedupEntry
  BY <1>1, LenProperties, ElementOfSeq
<1>3. /\ d \in Seq(DedupEntry)
      /\ \A i \in 1 .. Len(s.dedup) - n + 1 : d[i] = s.dedup[n + i - 1]
      /\ Len(d) = IF n <= Len(s.dedup) THEN Len(s.dedup) - n + 1 ELSE 0
  <2>1. n \in Int /\ Len(s.dedup) \in Int
    BY <1>2
  <2> QED BY <1>2, <2>1, SubSeqProperties
<1>4. DOMAIN d = 1 .. Len(d)
  BY <1>3, LenProperties
<1>5. ASSUME NEW i \in DOMAIN d PROVE d[i].epoch = s.epoch
  <2>1. i \in 1 .. Len(s.dedup) - n + 1
    BY <1>2, <1>3, <1>4, <1>5
  <2>2. n + i - 1 \in DOMAIN s.dedup
    BY <1>2, <2>1
  <2> QED BY <1>3, <2>1, <2>2 DEF Sound, OfSession
<1>6. s.dedup = <<>> => d = <<>>
  <2>1. CASE s.dedup = <<>>
    <3>1. Len(s.dedup) = 0
      BY <2>1
    <3>2. Len(d) = 0
      BY <1>3, <3>1
    <3> QED BY <1>3, <3>2, EmptySeq
  <2> QED BY <2>1
<1>7. t = [s EXCEPT !.dedup = d]
  BY DEF KeepFrom
<1> HIDE DEF d, t
<1>8. /\ t \in LinkState /\ SameCourse(s, t) /\ t.pend = s.pend
      /\ t.q = s.q /\ t.dedup = d /\ t.txSeq = s.txSeq /\ t.rxLast = s.rxLast
      /\ t.rasm = s.rasm /\ t.resyncSent = s.resyncSent
  BY <1>1, <1>3, <1>7 DEF LinkState, SameCourse
<1>9. OfSession(t) /\ DownFirst(t) /\ Within(t)
  BY <1>5, <1>8 DEF Sound, OfSession, DownFirst, Within, SameCourse
<1>10. Blank(t)
  BY <1>6, <1>8 DEF Sound, Blank, SameCourse
<1> QED BY <1>8, <1>9, <1>10 DEF Sound, t

\* Expiry leaves a tail of the table, sound (expireDedup).
LEMMA ExpireDedupSound ==
  ASSUME NEW s, Sound(s)
  PROVE  LET t == ExpireDedup(s)
         IN  Sound(t) /\ SameCourse(s, t) /\ t.pend = s.pend
<1> DEFINE live == {i \in DOMAIN s.dedup :
                      Sub(s.tick, s.dedup[i].tick) < DedupTicks}
<1>1. s \in LinkState /\ s.dedup \in Seq(DedupEntry)
  BY DEF Sound, LinkState
<1>2. Len(s.dedup) \in Nat /\ DOMAIN s.dedup = 1 .. Len(s.dedup)
  BY <1>1, LenProperties
<1>3. CASE live = {}
  <2>1. SubSeq(s.dedup, Len(s.dedup) + 1, Len(s.dedup)) = <<>>
    BY <1>2, SubSeqEmpty
  <2>2. ExpireDedup(s) = [s EXCEPT !.dedup = <<>>]
    BY <1>3 DEF ExpireDedup
  <2>3. ExpireDedup(s) = KeepFrom(s, Len(s.dedup) + 1)
    BY <2>1, <2>2 DEF KeepFrom
  <2>4. Len(s.dedup) + 1 \in Nat \ {0}
    BY <1>2
  <2> QED BY <2>3, <2>4, DedupTailSound
<1>4. CASE live # {}
  <2> DEFINE first == CHOOSE i \in live : \A j \in live : i <= j
  <2>1. \E i \in live : \A j \in live : i <= j
    <3>1. live \subseteq Nat
      BY <1>2
    <3> HIDE DEF live
    <3> QED BY <1>4, <3>1, LeastMember
  <2>2. first \in live
    BY <2>1
  <2>3. first \in Nat \ {0}
    <3> HIDE DEF first
    <3> QED BY <1>2, <2>2
  <2>4. ExpireDedup(s) = KeepFrom(s, first)
    BY <1>4, Zenon DEF ExpireDedup, KeepFrom
  <2> HIDE DEF first
  <2> QED BY <2>3, <2>4, DedupTailSound
<1> QED BY <1>3, <1>4

\* Remembering an answer, an eviction included, keeps the link sound (addDedup).
LEMMA RememberSound ==
  ASSUME NEW s, Sound(s), s.up, NEW ch \in Chans, NEW corr \in Word,
         NEW b \in Bodies
  PROVE  LET t == Remember(s, ch, corr, b)
         IN  Sound(t) /\ SameCourse(s, t) /\ t.pend = s.pend
<1> DEFINE e == [epoch |-> s.epoch, ch |-> ch, corr |-> corr, body |-> b,
                 cached |-> b \in Cacheable, tick |-> s.tick]
           k == IF Len(s.dedup) = MaxDedup
                THEN KeepFrom(s, 2) ELSE s
           t == [k EXCEPT !.dedup = Append(k.dedup, e)]
<1>1. s \in LinkState /\ s.dedup \in Seq(DedupEntry)
  BY DEF Sound, LinkState
<1>2. e \in DedupEntry
  BY <1>1 DEF LinkState, DedupEntry
<1>3. Sound(k) /\ SameCourse(s, k) /\ k.pend = s.pend
  <2>1. CASE Len(s.dedup) = MaxDedup
    <3>1. k = KeepFrom(s, 2)
      BY <2>1
    <3> HIDE DEF k
    <3> QED BY <3>1, DedupTailSound
  <2>2. CASE Len(s.dedup) # MaxDedup
    BY <2>2 DEF SameCourse
  <2> QED BY <2>1, <2>2
<1>4. Remember(s, ch, corr, b) = t
  <2>1. CASE Len(s.dedup) = MaxDedup
    <3>1. s.dedup # <<>>
      BY <1>1, <2>1, EmptySeq, GuestAssumption
    <3>2. Tail(s.dedup) = SubSeq(s.dedup, 2, Len(s.dedup))
      BY <1>1, <3>1, TailIsSubSeq
    <3>3. /\ k = [s EXCEPT !.dedup = Tail(s.dedup)]
          /\ k.dedup = Tail(s.dedup)
      BY <1>1, <2>1, <3>2 DEF LinkState, KeepFrom
    <3>4. Remember(s, ch, corr, b) = [s EXCEPT !.dedup = Append(Tail(s.dedup), e)]
      BY <2>1 DEF Remember
    <3>5. t = [s EXCEPT !.dedup = Append(Tail(s.dedup), e)]
      <4> HIDE DEF k
      <4> QED BY <1>1, <3>3 DEF LinkState
    <3> QED BY <3>4, <3>5
  <2>2. CASE Len(s.dedup) # MaxDedup
    BY <2>2 DEF Remember
  <2> QED BY <2>1, <2>2
<1> HIDE DEF k, e
<1>5. k.dedup \in Seq(DedupEntry)
  BY <1>3 DEF Sound, LinkState
<1> DEFINE d == Append(k.dedup, e)
<1>6. /\ d \in Seq(DedupEntry) /\ Len(d) = Len(k.dedup) + 1
      /\ \A i \in 1 .. Len(k.dedup) : d[i] = k.dedup[i]
      /\ d[Len(k.dedup) + 1] = e
  BY <1>2, <1>5, AppendProperties
<1>7. /\ DOMAIN d = 1 .. Len(d) /\ Len(k.dedup) \in Nat
      /\ DOMAIN k.dedup = 1 .. Len(k.dedup)
  <2> HIDE DEF d
  <2> QED BY <1>5, <1>6, LenProperties
<1> HIDE DEF d
<1>8. t = [k EXCEPT !.dedup = d]
  BY DEF d
<1> HIDE DEF t
<1>9. /\ t \in LinkState /\ SameCourse(k, t) /\ t.pend = k.pend
      /\ t.q = k.q /\ t.dedup = d
  BY <1>3, <1>6, <1>8 DEF Sound, LinkState, SameCourse
<1>10. e.epoch = k.epoch
  BY <1>3 DEF e, SameCourse
<1>11. OfSession(t)
  <2>1. ASSUME NEW i \in DOMAIN d PROVE d[i].epoch = k.epoch
    <3>1. CASE i \in 1 .. Len(k.dedup)
      BY <1>3, <1>6, <1>7, <3>1 DEF Sound, OfSession
    <3>2. CASE i = Len(k.dedup) + 1
      BY <1>6, <1>10, <3>2
    <3> QED BY <1>6, <1>7, <3>1, <3>2
  <2> QED BY <1>3, <1>9, <2>1 DEF Sound, OfSession, SameCourse
<1>12. Blank(t) /\ DownFirst(t) /\ Within(t)
  BY <1>3, <1>9 DEF Sound, Blank, DownFirst, Within, SameCourse
<1> QED BY <1>3, <1>4, <1>9, <1>11, <1>12 DEF Sound, SameCourse, t

\* A message whose time to be completed is over is dropped, and nothing else
\* (expireReassembly).
LEMMA ExpireReassemblySound ==
  ASSUME NEW s, Sound(s)
  PROVE  LET t == ExpireReassembly(s)
         IN  Sound(t) /\ SameCourse(s, t) /\ t.pend = s.pend
<1> DEFINE n == [c \in Chans |->
                   IF s.rasm[c].open /\ SerialDelta(s.tick, s.rasmDue[c]) >= 0
                   THEN Closed ELSE s.rasm[c]]
           t == [s EXCEPT !.rasm = n]
<1>1. s \in LinkState
  BY DEF Sound
<1>2. Closed \in Reassembly /\ Closed.open = FALSE
  BY WireAssumption DEF Closed, Reassembly, DataTypes, Flags, Word
<1>3. n \in [Chans -> Reassembly]
  <2>1. ASSUME NEW c \in Chans PROVE n[c] \in Reassembly
    BY <1>1, <1>2 DEF LinkState
  <2> QED BY <2>1
<1>4. \A c \in Chans : ~s.rasm[c].open => ~n[c].open
  BY <1>2
<1>5. ExpireReassembly(s) = t
  BY DEF ExpireReassembly
<1> HIDE DEF n
<1>6. /\ t \in LinkState /\ SameCourse(s, t) /\ t.pend = s.pend /\ t.q = s.q
      /\ t.dedup = s.dedup /\ t.txSeq = s.txSeq /\ t.rxLast = s.rxLast
      /\ t.resyncSent = s.resyncSent /\ t.rasm = n
  BY <1>1, <1>3 DEF LinkState, SameCourse
<1> HIDE DEF t
<1>7. Blank(t)
  BY <1>4, <1>6 DEF Sound, Blank, SameCourse
<1>8. OfSession(t) /\ DownFirst(t) /\ Within(t)
  BY <1>6 DEF Sound, OfSession, DownFirst, Within, SameCourse
<1> QED BY <1>5, <1>6, <1>7, <1>8 DEF Sound

-----------------------------------------------------------------------------
(* The steps. *)

\* A step that arms no request and moves no clock leaves every deadline where
\* it was.
LEMMA PunctualKept ==
  ASSUME Punctual, g'.pend \subseteq g.pend, g'.tick = g.tick,
         pump'.at \in {"flush", "idle"} => pump.at \in {"flush", "idle"}
  PROVE  Punctual'
BY DEF Punctual, OnTime, Earliest

\* A data frame is what its type says it is.
LEMMA DataFrames ==
  ASSUME NEW f \in Frame, f.type \in DataTypes
  PROVE  f \in DataFrame
BY DEF Frame, DataTypes, HelloFrame, AckFrame, BeatFrame, ByeFrame

\* A datagram leaves the link sound: HELLO_ACK, a heartbeat, BYE (deliver).
LEMMA SessionFrameStep ==
  ASSUME Sound(g), NEW src, NEW f \in Frame,
         OnHelloAck(src, f) \/ OnHeartbeat(src, f) \/ OnBye(src, f)
  PROVE  Sound(g') /\ g'.pend \subseteq g.pend /\ g'.tick = g.tick
<1>1. g \in LinkState
  BY DEF Sound
<1>2. CASE OnHelloAck(src, f)
  <2> DEFINE h == [g EXCEPT !.epoch = f.epoch, !.up = TRUE, !.helloCorr = 0,
                     !.lastRx = g.tick, !.lastHB = g.tick]
  <2>1. f.epoch \in Epochs /\ 0 \in Word
    <3>1. f.epoch \in Epochs
      BY DEF Frame, HelloFrame, AckFrame, BeatFrame, ByeFrame, DataFrame
    <3> QED BY <3>1, WireAssumption DEF Word
  <2>2. h \in LinkState
    BY <1>1, <2>1 DEF LinkState
  <2>3. g' = FreshChannels(h)
    BY <1>2 DEF OnHelloAck
  <2>4. /\ h.up = TRUE /\ h.helloCorr = 0 /\ h.enabled = g.enabled
        /\ h.q = g.q /\ h.dedup = g.dedup /\ h.pend = g.pend /\ h.tick = g.tick
    BY <1>1 DEF LinkState
  <2> HIDE DEF h
  <2>5. /\ g' \in LinkState
        /\ g' = [h EXCEPT !.txSeq = [c \in Chans |-> 0],
                          !.rxLast = [c \in Chans |-> 0],
                          !.resyncSent = [c \in Chans |-> FALSE],
                          !.rasm = [c \in Chans |-> Closed]]
    BY <2>2, <2>3, FreshChannelsType
  <2>6. /\ g'.up = TRUE /\ g'.helloCorr = 0 /\ g'.enabled = g.enabled
        /\ g'.q = g.q /\ g'.dedup = g.dedup /\ g'.pend = g.pend /\ g'.tick = g.tick
    BY <2>2, <2>4, <2>5 DEF LinkState
  <2>7. ~g.up /\ g.enabled
    BY <1>2 DEF OnHelloAck, Answers, Receiving, Sound, DownFirst
  <2>8. g.dedup = <<>> /\ \A p \in Queues : g.q[p] = <<>>
    BY <2>7 DEF Sound, Blank
  <2>9. OfSession(g') /\ Blank(g') /\ DownFirst(g') /\ Within(g')
    BY <2>6, <2>7, <2>8 DEF OfSession, Blank, DownFirst, Within, Sound
  <2> QED BY <2>5, <2>6, <2>9 DEF Sound
<1>3. CASE OnHeartbeat(src, f)
  <2>1. /\ g' \in LinkState /\ SameCourse(g, g') /\ g'.q = g.q
        /\ g'.dedup = g.dedup /\ g'.pend = g.pend /\ g'.tick = g.tick
    BY <1>1, <1>3 DEF OnHeartbeat, LinkState, SameCourse
  <2>2. g.up
    BY <1>3 DEF OnHeartbeat, InSession
  <2> QED BY <2>1, <2>2, SoundKept
<1>4. CASE OnBye(src, f)
  <2> DEFINE h == [g EXCEPT !.lastRx = g.tick]
  <2>1. h \in LinkState /\ g' = ResetSession(h)
    BY <1>1, <1>4 DEF OnBye, LinkState
  <2>2. g'.tick = g.tick
    BY <1>1, <2>1 DEF ResetSession, FreshChannels, LinkState
  <2> HIDE DEF h
  <2> QED BY <2>1, <2>2, ResetSessionSound
<1> QED BY <1>2, <1>3, <1>4

\* So does every frame of an application channel (channelFrame, dispatch).
LEMMA DataFrameStep ==
  ASSUME Sound(g), NEW src, NEW f \in Frame,
         \/ OnStale(src, f) \/ OnFragment(src, f) \/ OnMsg(src, f)
         \/ OnResync(src, f) \/ OnReqAgain(src, f) \/ OnReqUnserved(src, f)
         \/ OnReqNew(src, f) \/ OnResp(src, f)
  PROVE  Sound(g') /\ g'.pend \subseteq g.pend /\ g'.tick = g.tick
<1> DEFINE a == Arrived(g, f)
           m == Message(g, f)
<1>1. g \in LinkState /\ g.up
  BY DEF Sound, OnStale, OnFragment, OnMsg, OnResync, OnReqAgain, OnReqUnserved,
         OnReqNew, OnResp, Dispatches, DataArrives, InSession
<1>2. f \in DataFrame
  BY DataFrames DEF OnStale, OnFragment, OnMsg, OnResync, OnReqAgain,
     OnReqUnserved, OnReqNew, OnResp, Dispatches, DataArrives
<1>3. f.ch \in Chans
  BY <1>2 DEF DataFrame
<1>4. Sound(a) /\ SameCourse(g, a) /\ a.up /\ a.pend = g.pend /\ a.dedup = g.dedup
  BY <1>1, <1>2, ArrivedSound
<1>5. ASSUME Completes(g, f)
      PROVE  m.corr \in Word /\ BodyOf(m.parts) \in Bodies
  BY <1>1, <1>2, <1>5, MessageType
<1>6. /\ "RESP" \in DataTypes /\ {"none", "DUPLICATE", "NO_HANDLER"} \subseteq Flags
      /\ NoBody \in Bodies
  BY WireAssumption DEF DataTypes, Flags, Errors
<1> HIDE DEF a, m
<1>7. CASE OnStale(src, f)
  <2>1. /\ g' \in LinkState /\ SameCourse(g, g') /\ g'.q = g.q
        /\ g'.dedup = g.dedup /\ g'.pend = g.pend /\ g'.tick = g.tick
    BY <1>1, <1>7 DEF OnStale, LinkState, SameCourse
  <2> QED BY <1>1, <2>1, SoundKept
<1>8. CASE OnFragment(src, f)
  <2> DEFINE k == Accept(g, f)
             r == IF Disagrees(k.rasm[f.ch], f) THEN Closed
                  ELSE Gather(k.rasm[f.ch], f)
             d == IF Disagrees(g.rasm[f.ch], f) THEN k.rasmDue[f.ch]
                  ELSE Add(g.tick, ReassemblyTicks)
  <2>1. Sound(k) /\ SameCourse(g, k) /\ k.pend = g.pend
    BY <1>1, <1>2, AcceptSound
  <2>2. k.up /\ k \in LinkState
    BY <1>1, <2>1 DEF SameCourse, Sound
  <2>3. r \in Reassembly
    <3>1. Closed \in Reassembly
      BY WireAssumption DEF Closed, Reassembly, DataTypes, Flags, Word
    <3>2. k.rasm[f.ch] \in Reassembly
      BY <1>3, <2>2 DEF LinkState
    <3>3. Gather(k.rasm[f.ch], f) \in Reassembly
      BY <1>2, <3>2, GatherType
    <3> QED BY <3>1, <3>3
  <2>4. d \in Word
    <3>1. g.tick \in Int /\ ReassemblyTicks \in Int
      BY <1>1, GuestAssumption, HalfModulus DEF LinkState, Word
    <3> QED BY <1>3, <2>2, <3>1, AddSubWord DEF LinkState
  <2>5. g' = [k EXCEPT !.rasm = [k.rasm EXCEPT ![f.ch] = r],
                       !.rasmDue = [k.rasmDue EXCEPT ![f.ch] = d]]
    BY <1>3, <1>8, <2>2 DEF OnFragment, LinkState
  <2> HIDE DEF k, r, d
  <2>6. /\ [k.rasm EXCEPT ![f.ch] = r] \in [Chans -> Reassembly]
        /\ [k.rasmDue EXCEPT ![f.ch] = d] \in [Chans -> Word]
    BY <2>2, <2>3, <2>4 DEF LinkState
  <2>7. /\ g' \in LinkState /\ SameCourse(k, g') /\ g'.q = k.q
        /\ g'.dedup = k.dedup /\ g'.pend = k.pend /\ g'.tick = k.tick
    BY <2>2, <2>5, <2>6 DEF LinkState, SameCourse
  <2> QED BY <2>1, <2>2, <2>7, SoundKept DEF SameCourse
<1>9. CASE OnMsg(src, f)
  <2> DEFINE n == [a.resyncSent EXCEPT ![f.ch] = @ /\ m.flag # "snapshot"]
  <2>1. n \in [Chans -> BOOLEAN]
    BY <1>4 DEF Sound, LinkState
  <2>2. g' = [a EXCEPT !.resyncSent = n]
    BY <1>4, <1>9 DEF OnMsg, a, m, Sound, LinkState
  <2> HIDE DEF n
  <2>3. /\ g' \in LinkState /\ SameCourse(a, g') /\ g'.q = a.q
        /\ g'.dedup = a.dedup /\ g'.pend = a.pend /\ g'.tick = a.tick
    BY <1>4, <2>1, <2>2 DEF Sound, LinkState, SameCourse
  <2> QED BY <1>4, <2>3, SoundKept DEF SameCourse
<1>10. CASE OnResync(src, f)
  BY <1>4, <1>10 DEF OnResync, a, SameCourse
<1>11. CASE OnReqAgain(src, f)
  <2> DEFINE hits == Remembered(a, f.ch, m.corr)
             e == a.dedup[CHOOSE i \in hits : \A j \in hits : i <= j]
  <2>1. Completes(g, f) /\ hits # {}
    BY <1>11 DEF OnReqAgain, Dispatches, a, m
  <2>2. e.body \in Bodies
    <3> DEFINE i0 == CHOOSE i \in hits : \A j \in hits : i <= j
    <3>1. a.dedup \in Seq(DedupEntry)
      BY <1>4 DEF Sound, LinkState
    <3>2. hits \subseteq 1 .. Len(a.dedup) /\ Len(a.dedup) \in Nat
      BY <3>1, LenProperties DEF Remembered
    <3>3. \E i \in hits : \A j \in hits : i <= j
      <4>1. hits \subseteq Nat
        BY <3>2
      <4> HIDE DEF hits
      <4> QED BY <2>1, <4>1, LeastMember
    <3>4. i0 \in hits
      BY <3>3
    <3> HIDE DEF i0, hits
    <3>5. a.dedup[i0] \in DedupEntry
      BY <3>1, <3>2, <3>4, ElementOfSeq
    <3>6. e = a.dedup[i0]
      BY DEF i0
    <3> QED BY <3>5, <3>6 DEF DedupEntry
  <2>3. g' = IF e.cached THEN SendMessage(a, "RESP", "none", f.ch, m.corr, e.body)
             ELSE SendMessage(a, "RESP", "DUPLICATE", f.ch, m.corr, NoBody)
    BY <1>11 DEF OnReqAgain, a, m
  <2> HIDE DEF e, hits
  <2> QED BY <1>3, <1>4, <1>5, <1>6, <2>1, <2>2, <2>3, SendMessageSound DEF SameCourse
<1>12. CASE OnReqUnserved(src, f)
  <2>1. /\ Completes(g, f)
        /\ g' = SendMessage(a, "RESP", "NO_HANDLER", f.ch, m.corr, NoBody)
    BY <1>12 DEF OnReqUnserved, Dispatches, a, m
  <2> QED BY <1>3, <1>4, <1>5, <1>6, <2>1, SendMessageSound DEF SameCourse
<1>13. CASE OnReqNew(src, f)
  <2> DEFINE b == BodyOf(m.parts)
             k == Remember(a, f.ch, m.corr, b)
  <2>1. Completes(g, f) /\ g' = SendMessage(k, "RESP", "none", f.ch, m.corr, b)
    BY <1>13 DEF OnReqNew, Dispatches, a, m
  <2>2. Sound(k) /\ SameCourse(a, k) /\ k.pend = a.pend
    BY <1>3, <1>4, <1>5, <2>1, RememberSound
  <2>3. b \in Bodies /\ m.corr \in Word /\ k.up
    BY <1>4, <1>5, <2>1, <2>2 DEF SameCourse
  <2> HIDE DEF k, b
  <2> QED BY <1>3, <1>4, <1>6, <2>1, <2>2, <2>3, SendMessageSound DEF SameCourse
<1>14. CASE OnResp(src, f)
  <2> DEFINE n == a.pend \ Answered(a, f.ch, m.corr)
  <2>1. g' = [a EXCEPT !.pend = n]
    BY <1>14 DEF OnResp, a, m
  <2>2. n \in SUBSET Pending /\ n \subseteq a.pend
    BY <1>4 DEF Sound, LinkState
  <2> HIDE DEF n
  <2>3. /\ g' \in LinkState /\ SameCourse(a, g') /\ g'.q = a.q
        /\ g'.dedup = a.dedup /\ g'.pend = n /\ g'.tick = a.tick
    BY <1>4, <2>1, <2>2 DEF Sound, LinkState, SameCourse
  <2> QED BY <1>4, <2>2, <2>3, SoundKept DEF SameCourse
<1> QED BY <1>7, <1>8, <1>9, <1>10, <1>11, <1>12, <1>13, <1>14

\* Any datagram at all: the link stays sound, and neither its clock nor the
\* stage of Pump moves.
LEMMA DeliverStep ==
  ASSUME GuestInv, NEW src, NEW f \in Frame, Deliver(src, f)
  PROVE  GuestInv'
<1>1. f \in Frame /\ Sound(g)
  BY DEF GuestInv
<1>2. Sound(g') /\ g'.pend \subseteq g.pend /\ g'.tick = g.tick
  <2>1. CASE OnIgnored(src, f)
    BY <1>1, <2>1 DEF OnIgnored, guestVars
  <2>2. CASE OnHelloAck(src, f) \/ OnHeartbeat(src, f) \/ OnBye(src, f)
    BY <1>1, <2>2, SessionFrameStep
  <2>3. CASE \/ OnStale(src, f) \/ OnFragment(src, f) \/ OnMsg(src, f)
             \/ OnResync(src, f) \/ OnReqAgain(src, f) \/ OnReqUnserved(src, f)
             \/ OnReqNew(src, f) \/ OnResp(src, f)
    BY <1>1, <2>3, DataFrameStep
  <2> QED BY <2>1, <2>2, <2>3 DEF Deliver
<1>3. pump' = pump /\ out' = out
  BY DEF Deliver, OnHelloAck, OnIgnored, OnHeartbeat, OnBye, OnStale, OnFragment,
     OnMsg, OnResync, OnReqAgain, OnReqUnserved, OnReqNew, OnResp, guestVars
<1>4. Punctual'
  BY <1>2, <1>3, PunctualKept DEF GuestInv
<1> QED BY <1>2, <1>3, <1>4 DEF GuestInv

\* An application's call leaves the link sound, and a request it makes is armed
\* within its interval (Channel.Send, Channel.Request).
LEMMA AppStep ==
  ASSUME GuestInv, NEW ch \in Chans, NEW b \in Bodies,
         \/ \E flag \in {"none", "snapshot"} : AppSend(ch, flag, b)
         \/ AppRequest(ch, b) \/ AppRequestRefused(ch, b)
  PROVE  GuestInv'
<1>1. g \in LinkState /\ Sound(g) /\ g.up
  BY DEF GuestInv, Sound, AppSend, AppRequest, AppRequestRefused, Callable
<1>2. pump' = pump /\ out' = out
  BY DEF AppSend, AppRequest, AppRequestRefused
<1>3. /\ {"MSG", "REQ"} \subseteq DataTypes /\ {"none", "snapshot"} \subseteq Flags
      /\ 0 \in Word
  BY WireAssumption DEF DataTypes, Flags, Word
<1>4. NextCorr(g.corrCtr) \in Word
  BY <1>1, MintedCorr DEF LinkState
<1>5. ASSUME NEW flag \in {"none", "snapshot"}, AppSend(ch, flag, b)
      PROVE  Sound(g') /\ Punctual'
  <2>1. g' = SendMessage(g, "MSG", flag, ch, 0, b)
    BY <1>5 DEF AppSend
  <2>2. flag \in Flags
    BY <1>3
  <2>3. Sound(g') /\ g'.pend = g.pend /\ g'.tick = g.tick
    BY <1>1, <1>3, <2>1, <2>2, SendMessageSound DEF SameCourse
  <2> QED BY <1>2, <2>3, PunctualKept DEF GuestInv
<1>6. CASE AppRequest(ch, b)
  <2> DEFINE corr == NextCorr(g.corrCtr)
             p == [ch |-> ch, corr |-> corr, body |-> b, tries |-> 0,
                   interval |-> RetryTicks, due |-> Add(g.tick, RetryTicks)]
             k == [g EXCEPT !.corrCtr = corr, !.pend = @ \cup {p}]
  <2>1. g' = SendMessage(k, "REQ", "none", ch, corr, b)
    BY <1>6 DEF AppRequest
  <2>2. /\ RetryTicks \in Word /\ RetryTicks \in 0 .. (U32 \div 2) - 1
        /\ RetryTicks \in Nat
    BY GuestAssumption, HalfModulus DEF Word
  <2>3. g.tick \in Word /\ Add(g.tick, RetryTicks) \in Word
    BY <1>1, <2>2, AddSubWord DEF LinkState, Word
  <2>4. p \in Pending
    BY <1>4, <2>2, <2>3 DEF Pending
  <2>5. OnTime(p, g.tick, Earliest)
    <3>1. SerialDelta(Add(g.tick, RetryTicks), g.tick) = RetryTicks
      BY <2>2, <2>3, SerialDeltaOfAdd
    <3>2. RetryTicks <= RetryBackoffCap /\ 0 <= MaxRetries /\ 1 <= RetryTicks
      BY GuestAssumption
    <3>3. Earliest \in 0 .. 1
      BY DEF Earliest
    <3> QED BY <2>2, <3>1, <3>2, <3>3 DEF OnTime
  <2> HIDE DEF p, corr
  <2>6. /\ k \in LinkState /\ SameCourse(g, k) /\ k.q = g.q /\ k.dedup = g.dedup
        /\ k.pend = g.pend \cup {p}
    BY <1>1, <1>4, <2>4 DEF LinkState, SameCourse, corr
  <2> HIDE DEF k
  <2>7. Sound(k) /\ k.up
    BY <1>1, <2>6, SoundKept DEF SameCourse
  <2>8. Sound(g') /\ g'.pend = k.pend /\ g'.tick = k.tick
    BY <1>3, <1>4, <2>1, <2>7, SendMessageSound DEF SameCourse, corr
  <2>9. Punctual'
    <3>1. \A x \in g'.pend : OnTime(x, g'.tick, Earliest)
      BY <2>5, <2>6, <2>8 DEF GuestInv, Punctual, SameCourse
    <3>2. Earliest' = Earliest
      BY <1>2 DEF Earliest
    <3> QED BY <3>1, <3>2 DEF Punctual, OnTime
  <2> QED BY <1>2, <2>8, <2>9 DEF GuestInv
<1>7. CASE AppRequestRefused(ch, b)
  <2>1. g' = [g EXCEPT !.corrCtr = NextCorr(@)]
    BY <1>7 DEF AppRequestRefused
  <2>2. /\ g' \in LinkState /\ SameCourse(g, g') /\ g'.q = g.q
        /\ g'.dedup = g.dedup /\ g'.pend = g.pend /\ g'.tick = g.tick
    BY <1>1, <1>4, <2>1 DEF LinkState, SameCourse
  <2>3. Sound(g')
    BY <1>1, <2>2, SoundKept
  <2> QED BY <1>2, <2>2, <2>3, PunctualKept DEF GuestInv
<1> QED BY <1>2, <1>5, <1>6, <1>7 DEF GuestInv

\* Only a link that is up has requests pending or frames queued.
LEMMA BusyIsUp ==
  ASSUME Sound(g), g.pend # {} \/ \E p \in Queues : g.q[p] # <<>>
  PROVE  g.up
BY DEF Sound, Blank

\* The tick advances, which brings every deadline one nearer (Pump,
\* serviceGate).
LEMMA PumpBeginStep ==
  ASSUME GuestInv, PumpBegin
  PROVE  GuestInv'
<1>1. g \in LinkState /\ Sound(g) /\ pump.at = "idle" /\ out' = out
  BY DEF GuestInv, Sound, PumpBegin
<1> DEFINE tick == Add(g.tick, 1)
<1>2. PICK open \in BOOLEAN :
        /\ g' = [g EXCEPT !.tick = tick, !.enabled = open]
        /\ pump' = IF open THEN [pump EXCEPT !.at = "recv"] ELSE pump
        /\ g.enabled => open
  <2>1. PICK ok \in BOOLEAN :
          LET open == g.enabled \/ (ok /\ tick % SearchTicks = 0)
          IN /\ g' = [g EXCEPT !.tick = tick, !.enabled = open]
             /\ pump' = IF open THEN [pump EXCEPT !.at = "recv"] ELSE pump
    BY DEF PumpBegin
  <2>2. (g.enabled \/ (ok /\ tick % SearchTicks = 0)) \in BOOLEAN
    OBVIOUS
  <2> QED BY <2>1, <2>2
<1>3. tick \in Word
  BY <1>1, AddSubWord DEF LinkState, Word
<1> HIDE DEF tick
<1>4. /\ g' \in LinkState /\ g'.up = g.up /\ g'.epoch = g.epoch
      /\ g'.helloCorr = g.helloCorr /\ g'.q = g.q /\ g'.dedup = g.dedup
      /\ g'.pend = g.pend /\ g'.txSeq = g.txSeq /\ g'.rxLast = g.rxLast
      /\ g'.rasm = g.rasm /\ g'.resyncSent = g.resyncSent
      /\ g'.enabled = open /\ g'.tick = tick
  BY <1>1, <1>2, <1>3 DEF LinkState
<1>5. Sound(g')
  BY <1>1, <1>2, <1>4 DEF Sound, OfSession, Blank, DownFirst, Within
<1>6. pump' \in [at : Stages, sent : Nat]
  BY <1>2 DEF GuestInv, Stages
<1>7. Punctual'
  <2>1. CASE ~open
    <3>1. g'.pend = {}
      BY <1>1, <1>2, <1>4, <2>1 DEF Sound, Blank, DownFirst
    <3> QED BY <3>1 DEF Punctual
  <2>2. CASE open
    <3>1. ASSUME NEW x \in g.pend PROVE OnTime(x, tick, 0)
      <4>1. OnTime(x, g.tick, 1)
        BY <1>1 DEF GuestInv, Punctual, Earliest
      <4>2. x.due \in Word /\ g.tick \in Word /\ x.interval \in Nat
        BY <1>1 DEF LinkState, Pending, Word
      <4>3. SerialDelta(x.due, g.tick) \in 1 .. x.interval
        BY <4>1 DEF OnTime
      <4>4. SerialDelta(x.due, tick) = SerialDelta(x.due, g.tick) - 1
        BY <4>2, <4>3, SerialDeltaTick DEF tick
      <4>5. SerialDelta(x.due, tick) \in 0 .. x.interval
        BY <4>2, <4>3, <4>4
      <4> QED BY <4>1, <4>5 DEF OnTime
    <3>2. Earliest' = 0
      BY <1>2, <2>2 DEF Earliest, GuestInv
    <3> QED BY <1>4, <3>1, <3>2 DEF Punctual, OnTime
  <2> QED BY <2>1, <2>2
<1> QED BY <1>1, <1>5, <1>6, <1>7 DEF GuestInv

\* Expiry, once recv_udp has returned (expireReassembly, expireDedup).
LEMMA PumpReceivedStep ==
  ASSUME GuestInv, PumpReceived
  PROVE  GuestInv'
<1> DEFINE k == ExpireReassembly(g)
<1>1. /\ g' = ExpireDedup(k) /\ pump' = [pump EXCEPT !.at = "session"]
      /\ out' = out /\ Sound(g)
  BY DEF PumpReceived, GuestInv
<1>2. Sound(k) /\ SameCourse(g, k) /\ k.pend = g.pend
  BY <1>1, ExpireReassemblySound
<1> HIDE DEF k
<1>3. Sound(g') /\ SameCourse(k, g') /\ g'.pend = k.pend
  BY <1>1, <1>2, ExpireDedupSound
<1>4. pump' \in [at : Stages, sent : Nat] /\ pump'.at = "session"
  BY <1>1 DEF GuestInv, Stages
<1>5. Punctual'
  BY <1>2, <1>3, <1>4, PunctualKept DEF GuestInv, SameCourse
<1> QED BY <1>1, <1>3, <1>4, <1>5 DEF GuestInv

\* The session's service: the search, the heartbeat, the loss (serviceSession).
LEMMA SessionStep ==
  ASSUME GuestInv, SessionLost \/ SessionSearch \/ SessionBeat \/ SessionIdle
  PROVE  GuestInv'
<1>1. g \in LinkState /\ Sound(g) /\ pump.at = "session" /\ out \in Seq(Frame)
  BY DEF GuestInv, Sound, SessionLost, SessionSearch, SessionBeat, SessionIdle
<1>2. pump \in [at : Stages, sent : Nat]
  BY DEF GuestInv
<1>3. /\ [pump EXCEPT !.at = "retry"]
           \in [at : Stages, sent : Nat]
      /\ [pump EXCEPT !.at = "retry"].at = "retry"
  BY <1>2 DEF Stages
<1>4. CASE SessionLost
  <2>1. g' = ResetSession(g) /\ pump' = pump /\ out' = out
    BY <1>4 DEF SessionLost
  <2>2. Sound(g') /\ g'.pend = {}
    BY <1>1, <2>1, ResetSessionSound
  <2> QED BY <2>1, <2>2 DEF GuestInv, Punctual
<1>5. CASE SessionSearch
  <2> DEFINE corr == NextCorr(g.corrCtr)
             hello == [type |-> "HELLO", epoch |-> g.boot, corr |-> corr,
                       tick |-> g.tick, name |-> GuestName]
  <2>1. /\ ~g.up /\ pump' = [pump EXCEPT !.at = "retry"]
        /\ out' = Put(out, hello, SockBuf)
        /\ g' = [g EXCEPT !.corrCtr = corr, !.helloCorr = corr,
                          !.helloDue = FALSE, !.lastHello = g.tick]
    BY <1>5 DEF SessionSearch
  <2>2. corr \in Word /\ g.boot \in Epochs /\ g.tick \in Word
    BY <1>1, MintedCorr, WireAssumption DEF LinkState, Word
  <2>3. hello \in Frame
    BY <2>2, GuestAssumption DEF Frame, HelloFrame
  <2> HIDE DEF hello, corr
  <2>4. out' \in Seq(Frame)
    BY <1>1, <2>1, <2>3, AppendProperties DEF Put
  <2>5. /\ g' \in LinkState /\ g'.up = g.up /\ g'.epoch = g.epoch
        /\ g'.enabled = g.enabled /\ g'.q = g.q /\ g'.dedup = g.dedup
        /\ g'.pend = g.pend /\ g'.txSeq = g.txSeq /\ g'.rxLast = g.rxLast
        /\ g'.rasm = g.rasm /\ g'.resyncSent = g.resyncSent /\ g'.tick = g.tick
    BY <1>1, <2>1, <2>2 DEF LinkState
  <2>6. Sound(g')
    BY <1>1, <2>1, <2>5 DEF Sound, OfSession, Blank, DownFirst, Within
  <2>7. Punctual'
    BY <1>3, <2>1, <2>5, PunctualKept DEF GuestInv
  <2> QED BY <1>3, <2>1, <2>4, <2>6, <2>7 DEF GuestInv
<1>6. CASE SessionBeat
  <2> DEFINE beat == [type |-> "HEARTBEAT", epoch |-> g.epoch, tick |-> g.tick]
             old == g.q["control"]
             new == Append(old, beat)
  <2>1. /\ g.up /\ BeatDue /\ pump' = [pump EXCEPT !.at = "retry"] /\ out' = out
        /\ g' = [g EXCEPT !.lastHB = g.tick, !.q = [g.q EXCEPT !["control"] = new]]
    BY <1>1, <1>6 DEF SessionBeat, LinkState
  <2>2. /\ "control" \in Queues /\ g.q \in [Queues -> Seq(BeatFrame \cup DataFrame)]
        /\ old \in Seq(BeatFrame \cup DataFrame)
    BY <1>1 DEF Queues, LinkState
  <2>3. beat \in BeatFrame \cup DataFrame /\ beat.epoch = g.epoch
    BY <1>1 DEF BeatFrame, LinkState
  <2> HIDE DEF beat
  <2>4. /\ new \in Seq(BeatFrame \cup DataFrame) /\ Len(new) = Len(old) + 1
        /\ \A i \in 1 .. Len(old) : new[i] = old[i]
        /\ new[Len(old) + 1] = beat
    BY <2>2, <2>3, AppendProperties
  <2>5. /\ DOMAIN new = 1 .. Len(new) /\ DOMAIN old = 1 .. Len(old)
        /\ Len(old) \in Nat
    BY <2>2, <2>4, LenProperties
  <2>6. Len(old) < MaxQueue
    BY <2>1 DEF BeatDue
  <2>7. \A i \in DOMAIN old : old[i].epoch = g.epoch
    BY <1>1, <2>2 DEF Sound, OfSession
  <2> HIDE DEF new
  <2>8. \A i \in DOMAIN new : new[i].epoch = g.epoch
    <3>1. ASSUME NEW i \in DOMAIN new PROVE i \in DOMAIN old \/ i = Len(old) + 1
      BY <2>4, <2>5
    <3> HIDE DEF old
    <3> QED BY <2>3, <2>4, <2>5, <2>7, <3>1
  <2> HIDE DEF old
  <2>9. /\ g' \in LinkState /\ SameCourse(g, g') /\ g'.dedup = g.dedup
        /\ g'.q = [g.q EXCEPT !["control"] = new] /\ g'.pend = g.pend
    <3>1. [g.q EXCEPT !["control"] = new] \in [Queues -> Seq(BeatFrame \cup DataFrame)]
      BY <2>2, <2>4
    <3> QED BY <1>1, <2>1, <3>1 DEF LinkState, SameCourse
  <2>10. OfSession(g')
    BY <1>1, <2>2, <2>8, <2>9 DEF Sound, OfSession, SameCourse
  <2>11. Within(g')
    <3>1. Len(new) <= MaxQueue
      BY <2>4, <2>5, <2>6, GuestAssumption
    <3> QED BY <1>1, <2>2, <2>9, <3>1 DEF Sound, Within
  <2>12. Sound(g')
    BY <1>1, <2>1, <2>9, <2>10, <2>11 DEF Sound, Blank, DownFirst, SameCourse
  <2>13. Punctual'
    BY <1>3, <2>1, <2>9, PunctualKept DEF GuestInv, SameCourse
  <2> QED BY <1>1, <1>3, <2>1, <2>12, <2>13 DEF GuestInv
<1>7. CASE SessionIdle
  <2>1. pump' = [pump EXCEPT !.at = "retry"] /\ g' = g /\ out' = out
    BY <1>7 DEF SessionIdle
  <2>2. Punctual'
    BY <1>3, <2>1, PunctualKept DEF GuestInv
  <2> QED BY <1>1, <1>3, <2>1, <2>2 DEF GuestInv
<1> QED BY <1>4, <1>5, <1>6, <1>7

\* Doubling an interval keeps it within its cap and half the clock's width.
LEMMA BackoffRange ==
  ASSUME NEW i \in Nat
  PROVE  /\ Backoff(i) \in Nat /\ Backoff(i) <= RetryBackoffCap
         /\ Backoff(i) \in Word /\ Backoff(i) \in 0 .. (U32 \div 2) - 1
BY GuestAssumption, HalfModulus DEF Backoff, Word

\* The service of the requests: a request due is given up or armed again, and
\* the stage ends with none due (serviceRetries).
LEMMA RetryStep ==
  ASSUME GuestInv,
         \/ \E p \in g.pend : RetryTimeout(p) \/ RetryResend(p)
         \/ RetriesDone
  PROVE  GuestInv'
<1>1. g \in LinkState /\ Sound(g) /\ pump.at = "retry"
  BY DEF GuestInv, Sound, RetryTimeout, RetryResend, RetriesDone
<1>2. \A x \in g.pend : x \in Pending /\ OnTime(x, g.tick, 0)
  BY <1>1 DEF GuestInv, Punctual, Earliest, LinkState
<1>3. ASSUME NEW p \in g.pend, RetryTimeout(p) PROVE GuestInv'
  <2>1. g' = [g EXCEPT !.pend = @ \ {p}] /\ pump' = pump /\ out' = out
    BY <1>3 DEF RetryTimeout
  <2>2. g.up
    BY <1>1, BusyIsUp
  <2>3. /\ g' \in LinkState /\ SameCourse(g, g') /\ g'.q = g.q
        /\ g'.dedup = g.dedup /\ g'.pend = g.pend \ {p} /\ g'.tick = g.tick
    BY <1>1, <2>1 DEF LinkState, SameCourse
  <2>4. Sound(g')
    BY <1>1, <2>2, <2>3, SoundKept
  <2>5. Punctual'
    BY <2>1, <2>3, PunctualKept DEF GuestInv
  <2> QED BY <2>1, <2>4, <2>5 DEF GuestInv
<1>4. ASSUME NEW p \in g.pend, RetryResend(p) PROVE GuestInv'
  <2> DEFINE q == [p EXCEPT !.tries = @ + 1, !.interval = Backoff(@),
                     !.due = Add(g.tick, Backoff(p.interval))]
             k == [g EXCEPT !.pend = (@ \ {p}) \cup {q}]
  <2>1. /\ g' = SendMessage(k, "REQ", "none", p.ch, p.corr, p.body)
        /\ p.tries < MaxRetries /\ pump' = pump /\ out' = out
    BY <1>4 DEF RetryResend
  <2>2. /\ p \in Pending /\ p.ch \in Chans /\ p.corr \in Word /\ p.body \in Bodies
        /\ p.tries \in Nat /\ p.interval \in Nat /\ g.tick \in Word
    BY <1>1, <1>2 DEF Pending, LinkState, Word
  <2>3. /\ Backoff(p.interval) \in Nat /\ Backoff(p.interval) <= RetryBackoffCap
        /\ Backoff(p.interval) \in Word
        /\ Backoff(p.interval) \in 0 .. (U32 \div 2) - 1
    BY <2>2, BackoffRange
  <2>4. Add(g.tick, Backoff(p.interval)) \in Word
    <3>1. g.tick \in Int /\ Backoff(p.interval) \in Int
      BY <2>2, <2>3 DEF Word
    <3> QED BY <3>1, AddSubWord
  <2>5. /\ q \in Pending /\ q.tries = p.tries + 1
        /\ q.interval = Backoff(p.interval)
        /\ q.due = Add(g.tick, Backoff(p.interval))
    <3>1. p.tries + 1 \in Nat /\ Backoff(p.interval) \in Word
      BY <2>2, <2>3
    <3> QED BY <2>2, <2>4, <3>1 DEF Pending
  <2>6. OnTime(q, g.tick, 0)
    <3>1. SerialDelta(q.due, g.tick) = q.interval
      BY <2>2, <2>3, <2>5, SerialDeltaOfAdd
    <3>2. q.tries <= MaxRetries
      BY <2>1, <2>2, <2>5, GuestAssumption
    <3> HIDE DEF q
    <3> QED BY <2>3, <2>5, <3>1, <3>2 DEF OnTime
  <2> HIDE DEF q
  <2>7. g.up
    BY <1>1, BusyIsUp
  <2>8. /\ k \in LinkState /\ SameCourse(g, k) /\ k.q = g.q /\ k.dedup = g.dedup
        /\ k.pend = (g.pend \ {p}) \cup {q}
    BY <1>1, <2>5 DEF LinkState, SameCourse
  <2> HIDE DEF k
  <2>9. Sound(k) /\ k.up
    BY <1>1, <2>7, <2>8, SoundKept DEF SameCourse
  <2>10. "REQ" \in DataTypes /\ "none" \in Flags
    BY DEF DataTypes, Flags
  <2>11. Sound(g') /\ g'.pend = k.pend /\ g'.tick = k.tick
    BY <2>1, <2>2, <2>9, <2>10, SendMessageSound DEF SameCourse
  <2>12. Punctual'
    <3>1. \A x \in g'.pend : OnTime(x, g'.tick, 0)
      BY <1>2, <2>6, <2>8, <2>11 DEF SameCourse
    <3>2. Earliest' = 0
      BY <1>1, <2>1 DEF Earliest
    <3> QED BY <3>1, <3>2 DEF Punctual, OnTime
  <2> QED BY <2>1, <2>11, <2>12 DEF GuestInv
<1>5. CASE RetriesDone
  <2>1. /\ g' = g /\ out' = out /\ pump' = [at |-> "flush", sent |-> 0]
        /\ \A x \in g.pend : ~(SerialDelta(g.tick, x.due) >= 0)
    BY <1>5 DEF RetriesDone, Due
  <2>2. ASSUME NEW x \in g.pend PROVE OnTime(x, g.tick, 1)
    <3>1. /\ x.due \in Word /\ g.tick \in Word
          /\ SerialDelta(x.due, g.tick) \in 0 .. x.interval /\ x.interval \in Nat
      BY <1>1, <1>2 DEF OnTime, Pending, LinkState, Word
    <3>2. SerialDelta(x.due, g.tick) >= 0
      BY <3>1
    <3>3. SerialDelta(x.due, g.tick) >= 1
      BY <2>1, <3>1, <3>2, SerialDeltaNotDue
    <3> QED BY <1>2, <3>1, <3>3 DEF OnTime
  <2>3. Earliest' = 1
    BY <2>1 DEF Earliest
  <2>4. Punctual'
    BY <2>1, <2>2, <2>3 DEF Punctual, OnTime
  <2> QED BY <2>1, <2>4 DEF GuestInv, Stages
<1> QED BY <1>3, <1>4, <1>5

\* The flush hands frames out in order within the budget (flush).
LEMMA FlushStep ==
  ASSUME GuestInv, FlushFrame \/ FlushDone
  PROVE  GuestInv'
<1>1. /\ g \in LinkState /\ Sound(g) /\ pump.at = "flush" /\ out \in Seq(Frame)
      /\ pump.sent \in Nat
  BY DEF GuestInv, Sound, FlushFrame, FlushDone
<1>2. CASE FlushFrame
  <2> DEFINE from == IF g.q["control"] # <<>> THEN "control" ELSE "bulk"
             old == g.q[from]
             new == Tail(old)
  <2>1. /\ old # <<>> /\ out' = Put(out, Head(old), SockBuf)
        /\ g' = [g EXCEPT !.q = [g.q EXCEPT ![from] = new]]
        /\ pump' = [pump EXCEPT !.sent = @ + 1]
    BY <1>1, <1>2 DEF FlushFrame, LinkState
  <2>2. /\ from \in Queues /\ g.q \in [Queues -> Seq(BeatFrame \cup DataFrame)]
        /\ old \in Seq(BeatFrame \cup DataFrame)
    BY <1>1 DEF Queues, LinkState
  <2>3. g.up
    BY <1>1, <2>1, <2>2, BusyIsUp
  <2> HIDE DEF from
  <2>4. /\ Head(old) \in BeatFrame \cup DataFrame
        /\ new \in Seq(BeatFrame \cup DataFrame) /\ Len(new) = Len(old) - 1
        /\ \A i \in 1 .. Len(new) : new[i] = old[i + 1]
    BY <2>1, <2>2, HeadTailProperties
  <2>5. /\ DOMAIN new = 1 .. Len(new) /\ DOMAIN old = 1 .. Len(old)
        /\ Len(old) \in Nat /\ Len(new) \in Nat
    BY <2>2, <2>4, LenProperties
  <2>6. out' \in Seq(Frame)
    <3>1. Head(old) \in Frame
      BY <2>4 DEF Frame
    <3> HIDE DEF old
    <3> QED BY <1>1, <2>1, <3>1, AppendProperties DEF Put
  <2>7. \A i \in DOMAIN old : old[i].epoch = g.epoch
    BY <1>1, <2>2 DEF Sound, OfSession
  <2>8. Len(old) <= MaxQueue
    BY <1>1, <2>2 DEF Sound, Within
  <2> HIDE DEF new, old
  <2>9. \A i \in DOMAIN new : new[i].epoch = g.epoch
    <3>1. ASSUME NEW i \in DOMAIN new PROVE i \in 1 .. Len(new) /\ i + 1 \in DOMAIN old
      BY <2>4, <2>5
    <3> QED BY <2>4, <2>7, <3>1
  <2>10. /\ g' \in LinkState /\ SameCourse(g, g') /\ g'.dedup = g.dedup
         /\ g'.q = [g.q EXCEPT ![from] = new] /\ g'.pend = g.pend
    <3>1. [g.q EXCEPT ![from] = new] \in [Queues -> Seq(BeatFrame \cup DataFrame)]
      BY <2>2, <2>4
    <3> QED BY <1>1, <2>1, <3>1 DEF LinkState, SameCourse
  <2>11. OfSession(g')
    BY <1>1, <2>2, <2>9, <2>10 DEF Sound, OfSession, SameCourse
  <2>12. Within(g')
    <3>1. Len(new) <= MaxQueue
      BY <2>4, <2>5, <2>8, GuestAssumption
    <3> QED BY <1>1, <2>2, <2>10, <3>1 DEF Sound, Within
  <2>13. Sound(g')
    BY <1>1, <2>3, <2>10, <2>11, <2>12 DEF Sound, Blank, DownFirst, SameCourse
  <2>14. /\ pump' \in [at : Stages, sent : Nat]
         /\ pump'.at = pump.at
    BY <2>1 DEF GuestInv
  <2>15. Punctual'
    BY <2>10, <2>14, PunctualKept DEF GuestInv, SameCourse
  <2> QED BY <2>6, <2>13, <2>14, <2>15 DEF GuestInv
<1>3. CASE FlushDone
  <2>1. g' = g /\ pump' = Idle /\ out' = out
    BY <1>3 DEF FlushDone
  <2>2. Earliest' = Earliest
    BY <1>1, <2>1 DEF Earliest, Idle
  <2>3. Punctual'
    BY <2>1, <2>2 DEF GuestInv, Punctual, OnTime
  <2> QED BY <2>1, <2>3 DEF GuestInv, Idle, Stages
<1> QED BY <1>2, <1>3

-----------------------------------------------------------------------------
(* The theorems. *)

\* A link just configured satisfies the invariant (configure).
LEMMA GuestInitInv == GuestInit => GuestInv
<1> SUFFICES ASSUME GuestInit PROVE GuestInv
  OBVIOUS
<1>1. PICK enabled \in BOOLEAN : g = NewLink(enabled)
  BY DEF GuestInit
<1>2. 0 \in Word /\ 0 \in Epochs
  BY WireAssumption DEF Word
<1>3. Closed \in Reassembly /\ Closed.open = FALSE
  BY <1>2, WireAssumption DEF Closed, Reassembly, DataTypes, Flags
<1>4. /\ g.enabled = enabled /\ g.up = FALSE /\ g.epoch = 0 /\ g.helloCorr = 0
      /\ g.pend = {} /\ g.dedup = <<>> /\ g.q = [p \in Queues |-> <<>>]
      /\ g.txSeq = [c \in Chans |-> 0] /\ g.rxLast = [c \in Chans |-> 0]
      /\ g.resyncSent = [c \in Chans |-> FALSE]
      /\ g.rasm = [c \in Chans |-> Closed]
  BY <1>1 DEF NewLink, NoChannelState
<1>5. g \in LinkState
  <2>1. /\ [c \in Chans |-> 0] \in [Chans -> Word]
        /\ [c \in Chans |-> FALSE] \in [Chans -> BOOLEAN]
        /\ [c \in Chans |-> Closed] \in [Chans -> Reassembly]
        /\ [p \in Queues |-> <<>>] \in [Queues -> Seq(BeatFrame \cup DataFrame)]
        /\ <<>> \in Seq(DedupEntry)
    BY <1>2, <1>3
  <2> QED BY <1>1, <1>2, <2>1 DEF NewLink, NoChannelState, LinkState
<1>6. OfSession(g) /\ Blank(g) /\ DownFirst(g) /\ Within(g)
  <2>1. Within(g)
    BY <1>4, GuestAssumption DEF Within
  <2> QED BY <1>3, <1>4, <2>1 DEF OfSession, Blank, DownFirst
<1>7. pump = Idle /\ out = <<>>
  BY DEF GuestInit
<1> QED BY <1>4, <1>5, <1>6, <1>7 DEF GuestInv, Sound, Idle, Stages, Punctual

\* Every step of the link preserves the invariant.
LEMMA GuestNextInv == GuestInv /\ [GuestNext]_guestVars => GuestInv'
<1> SUFFICES ASSUME GuestInv, [GuestNext]_guestVars PROVE GuestInv'
  OBVIOUS
<1>1. CASE \E src \in {"peer", "other"}, f \in Inbound : Deliver(src, f)
  BY <1>1, DeliverStep, GuestAssumption
<1>2. CASE \E ch \in Chans, b \in Bodies \ {NoBody} :
             \/ \E flag \in {"none", "snapshot"} : AppSend(ch, flag, b)
             \/ AppRequest(ch, b) \/ AppRequestRefused(ch, b)
  BY <1>2, AppStep
<1>3. CASE PumpBegin \/ PumpReceived
  BY <1>3, PumpBeginStep, PumpReceivedStep
<1>4. CASE PumpStage
  <2>1. CASE SessionLost \/ SessionSearch \/ SessionBeat \/ SessionIdle
    BY <2>1, SessionStep
  <2>2. CASE \/ \E p \in g.pend : RetryTimeout(p) \/ RetryResend(p)
             \/ RetriesDone
    BY <2>2, RetryStep
  <2>3. CASE FlushFrame \/ FlushDone
    BY <2>3, FlushStep
  <2> QED BY <1>4, <2>1, <2>2, <2>3 DEF PumpStage
<1>5. CASE NetworkTakes
  <2>1. g' = g /\ pump' = pump /\ out' = <<>>
    BY <1>5 DEF NetworkTakes
  <2> QED BY <2>1 DEF GuestInv, Punctual, Earliest, OnTime
<1>6. CASE UNCHANGED guestVars
  BY <1>6 DEF guestVars, GuestInv, Punctual, Earliest, OnTime
<1> QED BY <1>1, <1>2, <1>3, <1>4, <1>5, <1>6 DEF GuestNext

\* The invariant holds of every behaviour of the link.
THEOREM GuestInvariance == GuestSpec => []GuestInv
BY GuestInitInv, GuestNextInv, PTL DEF GuestSpec

\* Every field always holds what its Go type allows, whatever datagrams arrive
\* and whatever the application calls (link.go, type Link).
THEOREM GuestTypeCorrect == GuestSpec => []GuestTypeOK
<1>1. GuestInv => GuestTypeOK
  BY DEF GuestInv, Sound, GuestTypeOK
<1> QED BY <1>1, GuestInvariance, PTL

\* Nothing outlives a session: no queued frame, remembered answer, pending
\* request, counter or half-read message (resetSession, onHelloAck).
THEOREM SessionBoundaryKept == GuestSpec => []SessionBoundary
<1>1. GuestInv => SessionBoundary
  BY DEF GuestInv, Sound, OfSession, Blank, DownFirst, SessionBoundary,
         EpochOfQueue, EpochOfDedup, Quiesced, SearchingXorUp
<1> QED BY <1>1, GuestInvariance, PTL

\* A send queue never passes MaxQueue frames (sendMessage, queueHeartbeat).
THEOREM QueuesAreBounded == GuestSpec => []QueueBounded
<1>1. GuestInv => QueueBounded
  BY DEF GuestInv, Sound, Within, QueueBounded
<1> QED BY <1>1, GuestInvariance, PTL

\* Every pending request is due within its interval and no Pump ends with one
\* due, across the wrap of the tick counter (Request, serviceRetries).
THEOREM RequestsAreServed == GuestSpec => []NoRequestOverlooked
<1>1. GuestInv => NoRequestOverlooked
  BY DEF GuestInv, Punctual, OnTime, Earliest, NoRequestOverlooked
<1> QED BY <1>1, GuestInvariance, PTL
=============================================================================
