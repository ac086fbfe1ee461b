----------------------------- MODULE WireProofs -----------------------------
(***************************************************************************)
(* Facts about the u32 arithmetic, the framing and the reassembly both     *)
(* ends of a link are built from, for every modulus and every payload set. *)
(***************************************************************************)
EXTENDS Wire, SequenceTheorems, WellFoundedInduction, TLAPS

\* A nonempty set of naturals has a least member: what a scan from the head of
\* the dedup ring stops at (findDedup, expireDedup).
LEMMA LeastMember ==
  ASSUME NEW T, T \subseteq Nat, T # {}
  PROVE  \E x \in T : \A y \in T : x <= y
<1> DEFINE R == {ss \in Nat \X Nat : ss[1] < ss[2]}
<1>1. IsWellFoundedOn(R, Nat)
  BY NatLessThanWellFounded DEF OpToRel
<1>2. \E x \in T : \A y \in T : ~ (<<y, x>> \in R)
  <2> HIDE DEF R
  <2> QED BY <1>1, WFMin
<1>3. PICK x \in T : \A y \in T : ~ (<<y, x>> \in R)
  BY <1>2
<1>4. ASSUME NEW y \in T PROVE x <= y
  <2>1. x \in Nat /\ y \in Nat
    BY <1>3
  <2>2. ~ (<<y, x>> \in R)
    BY <1>3
  <2>3. ~ (y < x)
    BY <2>1, <2>2
  <2> QED BY <2>1, <2>3
<1> QED BY <1>3, <1>4

-----------------------------------------------------------------------------
(* The u32 arithmetic. *)

\* Reducing an integer gives a u32.
LEMMA ModWord == \A a \in Int : a % U32 \in Word
BY WireAssumption DEF Word

\* Sums and differences of u32 values wrap into u32 values.
LEMMA AddSubWord ==
  \A a, b \in Int : Add(a, b) \in Word /\ Sub(a, b) \in Word
BY ModWord DEF Add, Sub

\* Half the modulus is exact: the range of the serial comparison.
LEMMA HalfModulus == U32 \div 2 \in Nat /\ 2 * (U32 \div 2) = U32
BY WireAssumption

\* Reduction of a value less than one modulus away from u32.
LEMMA ModNear ==
  ASSUME NEW a \in Int
  PROVE  /\ a \in 0 .. U32 - 1 => a % U32 = a
         /\ a \in -U32 .. -1 => a % U32 = a + U32
         /\ a \in U32 .. 2 * U32 - 1 => a % U32 = a - U32
BY WireAssumption

\* SerialDelta is a signed number of half the width, equal to the difference
\* modulo the width (wire.SerialDelta).
LEMMA SerialDeltaRange ==
  ASSUME NEW a \in Word, NEW b \in Word
  PROVE  /\ SerialDelta(a, b) \in -(U32 \div 2) .. (U32 \div 2) - 1
         /\ SerialDelta(a, b) \in {a - b, a - b + U32, a - b - U32}
<1>1. a - b \in -(U32 - 1) .. U32 - 1
  BY WireAssumption DEF Word
<1>2. Sub(a, b) = IF a - b >= 0 THEN a - b ELSE a - b + U32
  BY <1>1, ModNear, WireAssumption DEF Sub
<1> QED BY <1>1, <1>2, HalfModulus, WireAssumption DEF SerialDelta, Word

\* What is sent d after a, d less than half the width, is d newer than a:
\* how a deadline is compared with the tick it was armed at (Request,
\* serviceRetries).
LEMMA SerialDeltaOfAdd ==
  ASSUME NEW a \in Word, NEW d \in 0 .. (U32 \div 2) - 1
  PROVE  SerialDelta(Add(a, d), a) = d
<1>1. a + d \in 0 .. 2 * U32 - 1
  BY HalfModulus, WireAssumption DEF Word
<1>2. Add(a, d) = IF a + d < U32 THEN a + d ELSE a + d - U32
  BY <1>1, ModNear, WireAssumption DEF Add, Word
<1>3. Add(a, d) \in Word
  BY AddSubWord, HalfModulus DEF Word
<1>4. SerialDelta(Add(a, d), a) \in -(U32 \div 2) .. (U32 \div 2) - 1
  BY <1>3, SerialDeltaRange
<1>5. SerialDelta(Add(a, d), a)
        \in {Add(a, d) - a, Add(a, d) - a + U32, Add(a, d) - a - U32}
  BY <1>3, SerialDeltaRange
<1> QED BY <1>2, <1>4, <1>5, HalfModulus, WireAssumption DEF Word

\* One tick brings a deadline one tick nearer.
LEMMA SerialDeltaTick ==
  ASSUME NEW due \in Word, NEW now \in Word, SerialDelta(due, now) >= 1
  PROVE  SerialDelta(due, Add(now, 1)) = SerialDelta(due, now) - 1
<1>1. Add(now, 1) \in Word
  BY AddSubWord DEF Word
<1>2. Add(now, 1) = IF now + 1 < U32 THEN now + 1 ELSE now + 1 - U32
  <2>1. now + 1 \in 0 .. 2 * U32 - 1
    BY WireAssumption DEF Word
  <2> QED BY <2>1, ModNear, WireAssumption DEF Add, Word
<1>3. /\ SerialDelta(due, now) \in -(U32 \div 2) .. (U32 \div 2) - 1
      /\ SerialDelta(due, now) \in {due - now, due - now + U32, due - now - U32}
  BY SerialDeltaRange
<1>4. SerialDelta(due, Add(now, 1)) \in -(U32 \div 2) .. (U32 \div 2) - 1
  BY <1>1, SerialDeltaRange
<1>5. SerialDelta(due, Add(now, 1))
        \in {due - Add(now, 1), due - Add(now, 1) + U32, due - Add(now, 1) - U32}
  BY <1>1, SerialDeltaRange
<1> QED BY <1>2, <1>3, <1>4, <1>5, HalfModulus, WireAssumption DEF Word

\* A deadline not yet reached is still ahead, seen from the other side.
LEMMA SerialDeltaNotDue ==
  ASSUME NEW due \in Word, NEW now \in Word,
         SerialDelta(due, now) >= 0, ~(SerialDelta(now, due) >= 0)
  PROVE  SerialDelta(due, now) >= 1
<1>1. due # now
  <2>1. SerialDelta(due, due) \in {0, U32, -U32}
    <3>1. due - due = 0 /\ 0 + U32 = U32 /\ 0 - U32 = -U32
      BY WireAssumption DEF Word
    <3>2. SerialDelta(due, due) \in {due - due, due - due + U32, due - due - U32}
      BY SerialDeltaRange
    <3> QED BY <3>1, <3>2
  <2>2. SerialDelta(due, due) \in -(U32 \div 2) .. (U32 \div 2) - 1
    BY SerialDeltaRange
  <2>3. SerialDelta(due, due) = 0
    BY <2>1, <2>2, HalfModulus, WireAssumption
  <2> QED BY <2>3
<1>2. SerialDelta(due, now) \in {due - now, due - now + U32, due - now - U32}
  BY SerialDeltaRange
<1>3. SerialDelta(due, now) # 0
  BY <1>1, <1>2, WireAssumption DEF Word
<1>4. SerialDelta(due, now) \in Int
  BY SerialDeltaRange, HalfModulus
<1> QED BY <1>3, <1>4

\* A minted correlation id is a u32 and never 0, which stands for "none"
\* (nextCorr).
LEMMA MintedCorr ==
  ASSUME NEW ctr \in Word
  PROVE  NextCorr(ctr) \in Word \ {0}
BY AddSubWord, WireAssumption DEF NextCorr, Word

-----------------------------------------------------------------------------
(* Frames. *)

\* Every application message is cut into at least one frame and no more than
\* the ceiling.
LEMMA SizeRange ==
  ASSUME NEW b \in Bodies
  PROVE  Size[b] \in 1 .. MaxFragments /\ Size[b] \in Nat
BY WireAssumption

\* The frames of a message are well-formed data frames of one epoch, as many as
\* the payload needs (sendMessage).
LEMMA FragmentsAreFrames ==
  ASSUME NEW type \in DataTypes, NEW flag \in Flags, NEW ch \in Chans,
         NEW epoch \in Epochs, NEW seq \in Word, NEW corr \in Word,
         NEW b \in Bodies
  PROVE  LET fs == Fragments(type, flag, ch, epoch, seq, corr, b)
         IN  /\ fs \in Seq(DataFrame)
             /\ Len(fs) = Size[b]
             /\ \A i \in DOMAIN fs : fs[i].epoch = epoch
<1> DEFINE fs == Fragments(type, flag, ch, epoch, seq, corr, b)
<1>1. ASSUME NEW i \in 1 .. Size[b] PROVE fs[i] \in DataFrame
  <2>1. Add(seq, i) \in Word
    <3>1. seq \in Int /\ i \in Int
      BY SizeRange DEF Word
    <3> QED BY <3>1, AddSubWord
  <2>2. i - 1 \in 0 .. MaxFragments - 1
    BY SizeRange, WireAssumption
  <2>3. fs[i] = [type |-> type, flag |-> flag, ch |-> ch, epoch |-> epoch,
                 seq |-> Add(seq, i), corr |-> corr, frag |-> i - 1,
                 nfrag |-> Size[b], body |-> b]
    BY DEF Fragments
  <2> QED BY <2>1, <2>2, <2>3, SizeRange DEF DataFrame
<1>2. fs \in [1 .. Size[b] -> DataFrame]
  BY <1>1 DEF Fragments
<1>3. fs \in Seq(DataFrame)
  BY <1>2, SizeRange, SeqDef
<1>4. DOMAIN fs = 1 .. Size[b]
  BY DEF Fragments
<1>5. Len(fs) = Size[b]
  BY <1>3, <1>4, SizeRange, LenProperties
<1>6. \A i \in DOMAIN fs : fs[i].epoch = epoch
  BY DEF Fragments
<1> QED BY <1>3, <1>5, <1>6

\* A message in reassembly stays within its ceiling of fragments.
LEMMA GatherType ==
  ASSUME NEW r \in Reassembly, NEW f \in DataFrame
  PROVE  /\ Gather(r, f) \in Reassembly
         /\ Gather(r, f).nfrag = f.nfrag
<1> DEFINE base == IF Continues(r, f) THEN r
                   ELSE [open |-> TRUE, corr |-> f.corr, nfrag |-> f.nfrag,
                         type |-> f.type, flag |-> f.flag, parts |-> {}]
<1>1. f.nfrag \in 0 .. MaxFragments
  BY WireAssumption DEF DataFrame
<1>2. base \in Reassembly /\ base.nfrag = f.nfrag
  BY <1>1, WireAssumption DEF DataFrame, Reassembly, Continues
<1>3. <<f.frag, f.body>> \in (0 .. MaxFragments - 1) \X Bodies
  BY DEF DataFrame
<1> HIDE DEF base
<1>4. [base EXCEPT !.parts = {p \in @ : p[1] # f.frag} \cup {<<f.frag, f.body>>}]
        \in Reassembly
  BY <1>2, <1>3 DEF Reassembly
<1>5. Gather(r, f) =
        [base EXCEPT !.parts = {p \in @ : p[1] # f.frag} \cup {<<f.frag, f.body>>}]
  BY DEF Gather, base
<1> QED BY <1>2, <1>4, <1>5 DEF Reassembly

\* What a handler of a whole message reads is a payload.
LEMMA BodyOfWhole ==
  ASSUME NEW parts \in SUBSET ((0 .. MaxFragments - 1) \X Bodies),
         \E p \in parts : p[1] = 0
  PROVE  BodyOf(parts) \in Bodies
<1>1. (CHOOSE p \in parts : p[1] = 0) \in parts
  OBVIOUS
<1> QED BY <1>1 DEF BodyOf
-----------------------------------------------------------------------------
(* Sequence numbers on their way.                                          *)

\* Two sequences after another hold what either holds.
LEMMA ConcatHolds ==
  ASSUME NEW S, NEW a \in Seq(S), NEW b \in Seq(S)
  PROVE  Datagrams(a \o b) \subseteq Datagrams(a) \cup Datagrams(b)
<1>1. /\ Len(a \o b) = Len(a) + Len(b) /\ a \o b \in Seq(S)
      /\ \A i \in 1 .. Len(a) + Len(b) :
           (a \o b)[i] = IF i <= Len(a) THEN a[i] ELSE b[i - Len(a)]
  BY ConcatProperties
<1>2. /\ DOMAIN (a \o b) = 1 .. Len(a) + Len(b) /\ Len(a) \in Nat /\ Len(b) \in Nat
      /\ DOMAIN a = 1 .. Len(a) /\ DOMAIN b = 1 .. Len(b)
  BY <1>1, LenProperties
<1>3. ASSUME NEW i \in DOMAIN (a \o b)
      PROVE  (a \o b)[i] \in Datagrams(a) \cup Datagrams(b)
  <2>1. CASE i <= Len(a)
    <3>1. i \in DOMAIN a
      BY <1>2, <1>3, <2>1
    <3> QED BY <1>1, <1>2, <1>3, <2>1, <3>1 DEF Datagrams
  <2>2. CASE ~(i <= Len(a))
    <3>1. i - Len(a) \in DOMAIN b
      BY <1>2, <1>3, <2>2
    <3> QED BY <1>1, <1>2, <1>3, <2>2, <3>1 DEF Datagrams
  <2> QED BY <2>1, <2>2
<1> QED BY <1>3 DEF Datagrams

\* Number x of a channel is at or behind the sender's counter, and n numbers
\* more may be given out before the serial comparison takes it for newer.
Trails(tx, ch, x, n) == SerialDelta(tx[ch], x) \in 0 .. (U32 \div 2) - 1 - n

\* A sender of session e gave out at most n numbers of a channel: what trailed
\* its counters still does, and so do its new frames.
Sends(tx, F, e, txAfter, FAfter, n) ==
  /\ \A m \in Nat, ch \in Chans, x \in Word :
       Trails(tx, ch, x, n + m) => Trails(txAfter, ch, x, m)
  /\ \A f \in FAfter :
       \/ f \in F \/ f.type \notin DataTypes
       \/ /\ f.epoch = e
          /\ n <= U32 \div 2 => Trails(txAfter, f.ch, f.seq, (U32 \div 2) - n)

\* Counting k on moves a counter k away from what trails it.
LEMMA SerialDeltaOfSum ==
  ASSUME NEW t \in Word, NEW x \in Word, NEW k \in Nat,
         SerialDelta(t, x) \in 0 .. (U32 \div 2) - 1 - k
  PROVE  SerialDelta(Add(t, k), x) = SerialDelta(t, x) + k
<1>1. t + k \in 0 .. 2 * U32 - 1
  BY HalfModulus, WireAssumption DEF Word
<1>2. Add(t, k) = IF t + k < U32 THEN t + k ELSE t + k - U32
  BY <1>1, ModNear, WireAssumption DEF Add, Word
<1>3. Add(t, k) \in Word
  BY AddSubWord DEF Word
<1>4. SerialDelta(Add(t, k), x) \in -(U32 \div 2) .. (U32 \div 2) - 1
      /\ SerialDelta(Add(t, k), x)
           \in {Add(t, k) - x, Add(t, k) - x + U32, Add(t, k) - x - U32}
  BY <1>3, SerialDeltaRange
<1>5. SerialDelta(t, x) \in {t - x, t - x + U32, t - x - U32}
  BY SerialDeltaRange
<1> QED BY <1>2, <1>4, <1>5, HalfModulus, WireAssumption DEF Word

\* The frames of a message trail the counter the message leaves behind
\* (sendMessage).
LEMMA SerialDeltaWithin ==
  ASSUME NEW t \in Word, NEW k \in 0 .. (U32 \div 2), NEW i \in 1 .. k
  PROVE  SerialDelta(Add(t, k), Add(t, i)) = k - i
<1>1. t + k \in 0 .. 2 * U32 - 1 /\ t + i \in 0 .. 2 * U32 - 1
  BY HalfModulus, WireAssumption DEF Word
<1>2. /\ Add(t, k) = IF t + k < U32 THEN t + k ELSE t + k - U32
      /\ Add(t, i) = IF t + i < U32 THEN t + i ELSE t + i - U32
  BY <1>1, ModNear, WireAssumption DEF Add, Word
<1>3. Add(t, k) \in Word /\ Add(t, i) \in Word
  <2>1. t \in Int /\ k \in Int /\ i \in Int
    BY HalfModulus DEF Word
  <2> QED BY <2>1, AddSubWord
<1>4. SerialDelta(Add(t, k), Add(t, i)) \in -(U32 \div 2) .. (U32 \div 2) - 1
      /\ SerialDelta(Add(t, k), Add(t, i))
           \in {Add(t, k) - Add(t, i), Add(t, k) - Add(t, i) + U32, Add(t, k) - Add(t, i) - U32}
  BY <1>3, SerialDeltaRange
<1> QED BY <1>2, <1>4, HalfModulus, WireAssumption DEF Word

\* Nothing is newer than itself.
LEMMA SerialDeltaSelf == ASSUME NEW t \in Word PROVE SerialDelta(t, t) = 0
<1>1. SerialDelta(t, t) \in {t - t, t - t + U32, t - t - U32}
      /\ SerialDelta(t, t) \in -(U32 \div 2) .. (U32 \div 2) - 1
  BY SerialDeltaRange
<1> QED BY <1>1, HalfModulus, WireAssumption DEF Word

\* Two sends in a row are a send (a RESYNC before an answer).
LEMMA SendsTwice ==
  ASSUME NEW t0 \in [Chans -> Word], NEW t1 \in [Chans -> Word], NEW t2 \in [Chans -> Word],
         NEW F0, NEW F1, F1 \subseteq Frame, NEW F2, NEW e, NEW m \in Nat, NEW n \in Nat,
         Sends(t0, F0, e, t1, F1, m), Sends(t1, F1, e, t2, F2, n)
  PROVE  Sends(t0, F0, e, t2, F2, m + n)
<1> DEFINE H == U32 \div 2
<1>0. H \in Nat
  BY HalfModulus
<1>1. ASSUME NEW k \in Nat, NEW ch \in Chans, NEW x \in Word, Trails(t0, ch, x, m + n + k)
      PROVE  Trails(t2, ch, x, k)
  <2>1. n + k \in Nat /\ m + n + k = m + (n + k)
    OBVIOUS
  <2>2. Trails(t1, ch, x, n + k)
    BY <1>1, <2>1 DEF Sends
  <2> QED BY <2>2 DEF Sends
<1>2. ASSUME NEW f \in F2, f \notin F0, f.type \in DataTypes
      PROVE  f.epoch = e /\ (m + n <= H => Trails(t2, f.ch, f.seq, H - (m + n)))
  <2>1. CASE f \in F1
    <3>1. f.epoch = e /\ (m <= H => Trails(t1, f.ch, f.seq, H - m))
      BY <1>2, <2>1 DEF Sends
    <3> SUFFICES ASSUME m + n <= H PROVE Trails(t2, f.ch, f.seq, H - (m + n))
      BY <3>1
    <3>2. f.ch \in Chans /\ f.seq \in Word
      BY <1>2, <2>1 DEF Frame, HelloFrame, AckFrame, BeatFrame, ByeFrame, DataFrame, DataTypes
    <3>3. H - (m + n) \in Nat /\ H - m = n + (H - (m + n))
      BY <1>0
    <3>4. Trails(t1, f.ch, f.seq, n + (H - (m + n)))
      BY <1>0, <3>1, <3>3
    <3> HIDE DEF H
    <3> QED BY <3>2, <3>3, <3>4 DEF Sends
  <2>2. CASE f \notin F1
    <3>1. f.epoch = e /\ (n <= H => Trails(t2, f.ch, f.seq, H - n))
      BY <1>2, <2>2 DEF Sends
    <3> QED BY <1>0, <3>1 DEF Trails
  <2> QED BY <2>1, <2>2
<1> QED BY <1>1, <1>2 DEF Sends

\* A message of body b takes as many numbers of its channel as it has frames.
LEMMA MessageSends ==
  ASSUME NEW tx \in [Chans -> Word], NEW F, NEW FAfter, NEW e \in Epochs,
         NEW type \in DataTypes, NEW flag \in Flags, NEW ch \in Chans,
         NEW corr \in Word, NEW b \in Bodies,
         FAfter \subseteq F \cup Datagrams(Fragments(type, flag, ch, e, tx[ch], corr, b))
  PROVE  Sends(tx, F, e, [tx EXCEPT ![ch] = Add(@, Size[b])], FAfter, Size[b])
<1> DEFINE n == Size[b]
           after == [tx EXCEPT ![ch] = Add(@, n)]
           fs == Fragments(type, flag, ch, e, tx[ch], corr, b)
<1>1. n \in Nat /\ n >= 1 /\ tx[ch] \in Word /\ Add(tx[ch], n) \in Word
      /\ U32 \div 2 \in Nat
  BY SizeRange, AddSubWord, HalfModulus, WireAssumption DEF Word
<1>2. after[ch] = Add(tx[ch], n) /\ \A d \in Chans \ {ch} : after[d] = tx[d]
  OBVIOUS
<1>3. ASSUME NEW m \in Nat, NEW d \in Chans, NEW x \in Word, Trails(tx, d, x, n + m)
      PROVE  Trails(after, d, x, m)
  <2>1. tx[d] \in Word
    OBVIOUS
  <2>2. SerialDelta(tx[d], x) \in 0 .. (U32 \div 2) - 1 - (n + m)
    BY <1>3 DEF Trails
  <2> HIDE DEF n, after
  <2>3. SerialDelta(tx[d], x) \in 0 .. (U32 \div 2) - 1 - n
    BY <1>1, <2>2
  <2>4. SerialDelta(Add(tx[d], n), x) = SerialDelta(tx[d], x) + n
    BY <1>1, <2>1, <2>3, SerialDeltaOfSum
  <2>5. SerialDelta(after[d], x) \in 0 .. (U32 \div 2) - 1 - m
    <3>1. CASE d = ch
      BY <1>1, <1>2, <2>2, <2>4, <3>1
    <3>2. CASE d # ch
      BY <1>1, <1>2, <2>2, <3>2
    <3> QED BY <3>1, <3>2
  <2> QED BY <2>5 DEF Trails
<1>4. ASSUME NEW f \in Datagrams(fs)
      PROVE  /\ f.epoch = e
             /\ n <= U32 \div 2 => Trails(after, f.ch, f.seq, (U32 \div 2) - n)
  <2>1. PICK i \in 1 .. n : f = fs[i]
    BY <1>4 DEF Datagrams, Fragments
  <2>2. f.epoch = e /\ f.ch = ch /\ f.seq = Add(tx[ch], i)
    BY <2>1 DEF Fragments
  <2> HIDE DEF n, after
  <2> SUFFICES ASSUME n <= U32 \div 2 PROVE Trails(after, f.ch, f.seq, (U32 \div 2) - n)
    BY <2>2
  <2>3. SerialDelta(Add(tx[ch], n), Add(tx[ch], i)) = n - i
    BY <1>1, SerialDeltaWithin
  <2>4. n - i \in 0 .. (U32 \div 2) - 1 - ((U32 \div 2) - n)
    BY <1>1
  <2> QED BY <1>2, <2>2, <2>3, <2>4 DEF Trails
<1> QED BY <1>3, <1>4 DEF Sends
=============================================================================
