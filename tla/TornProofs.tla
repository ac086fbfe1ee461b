----------------------------- MODULE TornProofs -----------------------------
(***************************************************************************)
(* What an application is handed. No message is torn: it was put together  *)
(* from frames of one message, whatever is lost, copied, overtaken or      *)
(* forgotten on the way. And it is news: within a session it is newer than *)
(* what was handed over before it.                                         *)
(*                                                                         *)
(* A message of several frames is recognised by its correlation id and the *)
(* number of its frames alone, so the first invariant is about its pieces: *)
(* of one id, all that are on their way were cut from one payload, and so  *)
(* were those that are read already. The second is about the order of what *)
(* was said and is on its way.                                             *)
(***************************************************************************)
EXTENDS AtMostOnceProofs

-----------------------------------------------------------------------------
(* The invariant *)

\* A frame of a payload cut to size; only an application's message is long.
Cut(f) == f.nfrag = Size[f.body] /\ (f.type # "MSG" => f.nfrag = 1)
AllCut(F) == \A f \in F : f.type \in DataTypes => Cut(f)
Short(X) == \A x \in X : Size[x.body] = 1
Pieces(F) == {f \in F : f.type \in DataTypes /\ f.nfrag > 1}

OfOne(F) == \A f, k \in F : f.epoch = k.epoch /\ f.corr = k.corr => f.body = k.body

\* The frames read of a message were cut from one payload, and so is what may
\* still be taken for one of them.
ReadOf(r, P) ==
  r.open => /\ r.type = "MSG"
            /\ \E b \in Bodies : /\ r.nfrag = Size[b] /\ \A p \in r.parts : p[2] = b
                                 /\ \A f \in P : f.corr = r.corr => f.body = b

\* What each end may still be handed, and the pieces in it.
ToSdk == Pieces(Outbound)
ToLink == Pieces(Datagrams(toGuest))

ShortAnswers == /\ Short(g.pend) /\ Short(Datagrams(g.dedup))
                /\ Short(c.pend) /\ Short(c.dedup) /\ Short(running)
LinkPieces ==
  /\ \A f, k \in ToSdk : f.corr = k.corr => f.body = k.body
  /\ \A f \in ToSdk : f.corr <= g.corrCtr
  /\ \A ch \in Chans : /\ ReadOf(c.rasm[ch], ToSdk)
                       /\ c.rasm[ch].open => c.rasm[ch].corr <= g.corrCtr
SdkPieces ==
  /\ OfOne(ToLink)
  /\ \A f \in ToLink : c.up /\ f.epoch = c.epoch => f.corr <= c.corrCtr
  /\ \A ch \in Chans :
       /\ ReadOf(g.rasm[ch], {f \in ToLink : f.epoch = g.epoch})
       /\ g.rasm[ch].open /\ c.up /\ g.epoch = c.epoch => g.rasm[ch].corr <= c.corrCtr

\* What the applications were handed is whole.
Report == [epoch : Epochs, n : Bodies, snapshot : BOOLEAN, intact : {TRUE}]
Reported == h.heard \in [{"guest", "sdk"} -> Seq(Report)]

TornInv ==
  /\ AllCut(Outbound) /\ AllCut(Datagrams(toGuest)) /\ ShortAnswers
  /\ LinkPieces /\ SdkPieces /\ Reported

-----------------------------------------------------------------------------
(* Reassembly. *)

\* Reading a piece goes on with its own message, or begins it (reassemble).
LEMMA GatherReads ==
  ASSUME NEW r \in Reassembly, NEW P, P \subseteq DataFrame, ReadOf(r, P), AllCut(P),
         \A f, k \in P : f.corr = k.corr => f.body = k.body,
         NEW f \in P, f.nfrag > 1
  PROVE  ReadOf(Gather(r, f), P) /\ Gather(r, f).corr = f.corr
<1> DEFINE base == IF Continues(r, f) THEN r
                   ELSE [open |-> TRUE, corr |-> f.corr, nfrag |-> f.nfrag,
                         type |-> f.type, flag |-> f.flag, parts |-> {}]
           ps == {p \in base.parts : p[1] # f.frag} \cup {<<f.frag, f.body>>}
           t == [base EXCEPT !.parts = ps]
<1>1. Gather(r, f) = t
  BY DEF Gather
<1>2. /\ f.type = "MSG" /\ f.nfrag = Size[f.body] /\ f.body \in Bodies
      /\ f.nfrag \in 1 .. MaxFragments
  BY DEF AllCut, Cut, DataFrame
<1>3. /\ base.open /\ base.corr = f.corr /\ base.nfrag = f.nfrag /\ base.type = "MSG"
      /\ \A p \in base.parts : p[2] = f.body
      /\ base \in [{"open", "corr", "nfrag", "type", "flag", "parts"} ->
           {base.open, base.corr, base.nfrag, base.type, base.flag, base.parts}]
  <2>1. CASE Continues(r, f)
    BY <1>2, <2>1 DEF Continues, ReadOf, Reassembly
  <2>2. CASE ~Continues(r, f)
    BY <1>2, <2>2
  <2> QED BY <2>1, <2>2
<1>4. \A p \in ps : p[2] = f.body
  BY <1>3
<1> HIDE DEF base, ps
<1>5. /\ t.open /\ t.corr = f.corr /\ t.nfrag = f.nfrag /\ t.type = "MSG" /\ t.parts = ps
  BY <1>3
<1> HIDE DEF t
<1> QED BY <1>1, <1>2, <1>4, <1>5 DEF ReadOf

\* A message of which every piece was read is one payload, whole.
LEMMA ReadWhole ==
  ASSUME NEW r \in Reassembly, NEW P, ReadOf(r, P), r.open, Whole(r)
  PROVE  Intact(r.parts)
<1>1. PICK b \in Bodies : r.nfrag = Size[b] /\ \A p \in r.parts : p[2] = b
  BY DEF ReadOf
<1>2. r.parts \subseteq (0 .. MaxFragments - 1) \X Bodies
  BY DEF Reassembly
<1>3. \A p \in r.parts : p = <<p[1], p[2]>>
  BY <1>2
<1>4. {p[1] : p \in r.parts} = 0 .. Size[b] - 1
  BY <1>1 DEF Whole
<1>5. \A p \in r.parts : p \in {<<i, b>> : i \in 0 .. Size[b] - 1}
  BY <1>1, <1>3, <1>4
<1>6. ASSUME NEW i \in 0 .. Size[b] - 1 PROVE <<i, b>> \in r.parts
  <2>1. PICK p \in r.parts : p[1] = i
    BY <1>4
  <2> QED BY <1>1, <1>3, <2>1
<1>7. r.parts = {<<i, b>> : i \in 0 .. Size[b] - 1}
  BY <1>5, <1>6
<1> QED BY <1>7 DEF Intact

\* So the message a frame completes is whole.
LEMMA CompletedWhole ==
  ASSUME NEW r \in Reassembly, NEW P, P \subseteq DataFrame, ReadOf(r, Pieces(P)), AllCut(P),
         \A f, k \in Pieces(P) : f.corr = k.corr => f.body = k.body,
         NEW f \in P, f.nfrag = 1 \/ Whole(Gather(r, f))
  PROVE  Intact(IF f.nfrag = 1 THEN {<<0, f.body>>} ELSE Gather(r, f).parts)
<1>1. f \in DataFrame /\ f.type \in DataTypes /\ f.nfrag \in 1 .. MaxFragments
      /\ f.body \in Bodies
  BY DEF DataFrame
<1>2. CASE f.nfrag = 1
  <2>1. Size[f.body] = 1
    BY <1>1, <1>2 DEF AllCut, Cut
  <2>2. 0 .. Size[f.body] - 1 = {0}
    BY <2>1
  <2>3. {<<0, f.body>>} = {<<i, f.body>> : i \in 0 .. Size[f.body] - 1}
    BY <2>2
  <2> QED BY <1>1, <1>2, <2>3 DEF Intact
<1>3. CASE f.nfrag # 1
  <2>1. f \in Pieces(P) /\ f.nfrag > 1 /\ Pieces(P) \subseteq DataFrame /\ AllCut(Pieces(P))
    BY <1>1, <1>3, WireAssumption DEF Pieces, AllCut
  <2>2. ReadOf(Gather(r, f), Pieces(P))
    BY <2>1, GatherReads
  <2>3. Gather(r, f) \in Reassembly
    BY <1>1, GatherType
  <2>4. Gather(r, f).open
    BY <1>1 DEF Gather, Continues, Reassembly
  <2> QED BY <1>3, <2>2, <2>3, <2>4, ReadWhole
<1> QED BY <1>2, <1>3

\* What is read of a message needs no more than the pieces still to come.
LEMMA ReadOfFewer ==
  ASSUME NEW r, NEW P, NEW Q, Q \subseteq P, ReadOf(r, P)
  PROVE  ReadOf(r, Q)
BY DEF ReadOf

-----------------------------------------------------------------------------
(* What a step does to the pieces. *)

\* A reading that was not given up goes on as it was or takes one piece more.
GoesOnReading(r, t, P) == ~t.open \/ t = r \/ \E f \in P : t = Gather(r, f)

\* The guest cuts at most one message, under a new id.
GuestCuts ==
  /\ g.corrCtr <= g'.corrCtr /\ AllCut(Outbound')
  /\ Short(g'.pend) /\ Short(Datagrams(g'.dedup))
  /\ \E b : \A f \in ToSdk' :
       f \in ToSdk \/ (g.corrCtr < g'.corrCtr /\ f.corr = g'.corrCtr /\ f.body = b)
  /\ GuestSays \/ \A f \in Outbound' : f \in Outbound \/ f.type # "MSG"
GuestReads ==
  \A ch \in Chans :
    \/ ~g'.rasm[ch].open
    \/ /\ g'.epoch = g.epoch
       /\ GoesOnReading(g.rasm[ch], g'.rasm[ch], {f \in ToLink : f.epoch = g.epoch})
GuestTurns == /\ c' = c /\ running' = running /\ Datagrams(toGuest') \subseteq Datagrams(toGuest)
              /\ GuestCuts /\ GuestReads /\ Reported'

\* The same of the companion.
SdkCuts ==
  /\ AllCut(Datagrams(toGuest')) /\ Short(c'.pend) /\ Short(c'.dedup) /\ Short(running')
  /\ \E b : \A f \in ToLink' :
       \/ f \in ToLink
       \/ /\ c.up /\ c'.up /\ c'.epoch = c.epoch /\ f.epoch = c.epoch
          /\ c.corrCtr < c'.corrCtr /\ f.corr = c'.corrCtr /\ f.body = b
  /\ SdkSays \/ \A f \in Datagrams(toGuest') : f \in Datagrams(toGuest) \/ f.type # "MSG"
SdkSession ==
  c'.up => \/ c.up /\ c'.epoch = c.epoch /\ c.corrCtr <= c'.corrCtr
           \/ c'.epoch # g.epoch /\ \A f \in ToLink : f.epoch # c'.epoch
SdkReads == \A ch \in Chans : GoesOnReading(c.rasm[ch], c'.rasm[ch], ToSdk)
SdkTurns == /\ g' = g /\ Datagrams(out') \subseteq Datagrams(out)
            /\ SdkCuts /\ SdkSession /\ SdkReads /\ Reported'

\* What is on a socket or queued is frames.
LEMMA FramesOnTheirWay ==
  ASSUME IpcInv
  PROVE  /\ Outbound \subseteq Frame /\ Datagrams(toGuest) \subseteq Frame
         /\ ToSdk \subseteq DataFrame /\ ToLink \subseteq DataFrame
         /\ \A ch \in Chans : g.rasm[ch] \in Reassembly /\ c.rasm[ch] \in Reassembly
         /\ g.corrCtr \in Nat /\ c.corrCtr \in Nat
<1>1. g \in LinkState /\ c \in SessionState /\ out \in Seq(Frame) /\ toGuest \in Seq(Frame)
  BY DEF IpcInv, GuestInv, Sound, CompanionSound, CompanionTypeOK
<1>2. Outbound \subseteq Frame /\ Datagrams(toGuest) \subseteq Frame
  BY <1>1, LinkTyped, DatagramsFrames DEF Outbound
<1>3. ToSdk \subseteq DataFrame /\ ToLink \subseteq DataFrame
  BY <1>2, DataFrames DEF ToSdk, ToLink, Pieces
<1>4. \A ch \in Chans : g.rasm[ch] \in Reassembly /\ c.rasm[ch] \in Reassembly
  BY <1>1 DEF LinkState, SessionState
<1> QED BY <1>2, <1>3, <1>4, Counters

\* The counters of correlation ids are numbers after a step (IpcInv).
LEMMA LaterCounters ==
  ASSUME IpcInv'
  PROVE  g'.corrCtr \in Nat /\ c'.corrCtr \in Nat
<1>1. g' \in LinkState /\ c' \in SessionState
  BY DEF IpcInv, GuestInv, Sound, CompanionSound, CompanionTypeOK
<1> QED BY <1>1 DEF LinkState, SessionState, Word

\* A step of the guest tears nothing.
LEMMA GuestTurnsTorn ==
  ASSUME IpcInv, IpcInv', TornInv, GuestTurns
  PROVE  TornInv'
<1>1. /\ ToLink' \subseteq ToLink /\ AllCut(Datagrams(toGuest'))
  BY DEF GuestTurns, ToLink, Pieces, TornInv, AllCut
<1>2. /\ g.corrCtr \in Nat /\ g'.corrCtr \in Nat /\ g.corrCtr <= g'.corrCtr
  BY FramesOnTheirWay, LaterCounters DEF GuestTurns, GuestCuts
<1>3. PICK b : \A f \in ToSdk' :
        f \in ToSdk \/ (g.corrCtr < g'.corrCtr /\ f.corr = g'.corrCtr /\ f.body = b)
  BY DEF GuestTurns, GuestCuts
<1>4. \A f \in ToSdk : f.corr \in Nat /\ f.corr <= g.corrCtr
  BY FramesOnTheirWay DEF TornInv, LinkPieces, DataFrame, Word
<1>5. \A f, k \in ToSdk' : f.corr = k.corr => f.body = k.body
  <2> SUFFICES ASSUME NEW f \in ToSdk', NEW k \in ToSdk', f.corr = k.corr
               PROVE  f.body = k.body
    OBVIOUS
  <2>1. CASE f \in ToSdk /\ k \in ToSdk
    BY <2>1 DEF TornInv, LinkPieces
  <2>2. CASE f \notin ToSdk \/ k \notin ToSdk
    BY <1>2, <1>3, <1>4, <2>2
  <2> QED BY <2>1, <2>2
<1>6. \A f \in ToSdk' : f.corr <= g'.corrCtr
  BY <1>2, <1>3, <1>4
<1>7. ASSUME NEW ch \in Chans
      PROVE  /\ ReadOf(c'.rasm[ch], ToSdk')
             /\ c'.rasm[ch].open => c'.rasm[ch].corr <= g'.corrCtr
  <2>1. c'.rasm[ch] = c.rasm[ch] /\ c.rasm[ch].corr \in Nat
    BY FramesOnTheirWay DEF GuestTurns, Reassembly, Word
  <2>2. ReadOf(c.rasm[ch], ToSdk) /\ (c.rasm[ch].open => c.rasm[ch].corr <= g.corrCtr)
    BY DEF TornInv, LinkPieces
  <2>3. c.rasm[ch].open => \A f \in ToSdk' : f.corr = c.rasm[ch].corr => f \in ToSdk
    BY <1>2, <1>3, <2>1, <2>2
  <2> QED BY <1>2, <2>1, <2>2, <2>3 DEF ReadOf
<1>8. OfOne(ToLink') /\ \A f \in ToLink' : c'.up /\ f.epoch = c'.epoch => f.corr <= c'.corrCtr
  BY <1>1 DEF TornInv, SdkPieces, OfOne, GuestTurns
<1>9. ASSUME NEW ch \in Chans
      PROVE  /\ ReadOf(g'.rasm[ch], {f \in ToLink' : f.epoch = g'.epoch})
             /\ g'.rasm[ch].open /\ c'.up /\ g'.epoch = c'.epoch => g'.rasm[ch].corr <= c'.corrCtr
  <2> DEFINE P == {f \in ToLink : f.epoch = g.epoch}
  <2>1. CASE ~g'.rasm[ch].open
    BY <2>1 DEF ReadOf
  <2>2. CASE g'.rasm[ch].open
    <3>1. /\ g'.epoch = g.epoch /\ {f \in ToLink' : f.epoch = g'.epoch} \subseteq P
          /\ g'.rasm[ch] = g.rasm[ch] \/ \E f \in P : g'.rasm[ch] = Gather(g.rasm[ch], f)
      BY <1>1, <2>2 DEF GuestTurns, GuestReads, GoesOnReading
    <3>2. /\ ReadOf(g.rasm[ch], P)
          /\ g.rasm[ch].open /\ c.up /\ g.epoch = c.epoch => g.rasm[ch].corr <= c.corrCtr
      BY DEF TornInv, SdkPieces
    <3>3. /\ P \subseteq DataFrame /\ g.rasm[ch] \in Reassembly /\ AllCut(P)
          /\ \A f, k \in P : f.corr = k.corr => f.body = k.body
          /\ \A f \in P : f.nfrag > 1 /\ (c.up /\ g.epoch = c.epoch => f.corr <= c.corrCtr)
      <4>1. P \subseteq DataFrame /\ g.rasm[ch] \in Reassembly
        BY FramesOnTheirWay
      <4>2. AllCut(P)
        BY DEF TornInv, AllCut, ToLink, Pieces
      <4>3. /\ \A f, k \in P : f.corr = k.corr => f.body = k.body
            /\ \A f \in P : f.nfrag > 1 /\ (c.up /\ g.epoch = c.epoch => f.corr <= c.corrCtr)
        BY DEF TornInv, SdkPieces, OfOne, ToLink, Pieces
      <4> QED BY <4>1, <4>2, <4>3
    <3> HIDE DEF P
    <3>4. ReadOf(g'.rasm[ch], P) /\ (c.up /\ g.epoch = c.epoch => g'.rasm[ch].corr <= c.corrCtr)
      <4>1. CASE g'.rasm[ch] = g.rasm[ch]
        BY <2>2, <3>2, <4>1
      <4>2. CASE \E f \in P : g'.rasm[ch] = Gather(g.rasm[ch], f)
        <5>1. PICK f \in P : g'.rasm[ch] = Gather(g.rasm[ch], f)
          BY <4>2
        <5>2. ReadOf(Gather(g.rasm[ch], f), P) /\ Gather(g.rasm[ch], f).corr = f.corr
          BY <3>2, <3>3, GatherReads
        <5> QED BY <3>3, <5>1, <5>2
      <4> QED BY <3>1, <4>1, <4>2
    <3>5. ReadOf(g'.rasm[ch], {f \in ToLink' : f.epoch = g'.epoch})
      BY <3>1, <3>4, ReadOfFewer
    <3>6. c' = c
      BY DEF GuestTurns
    <3> QED BY <3>1, <3>4, <3>5, <3>6
  <2> QED BY <2>1, <2>2
<1>10. ShortAnswers'
  BY DEF GuestTurns, GuestCuts, TornInv, ShortAnswers
<1>11. LinkPieces'
  BY <1>5, <1>6, <1>7 DEF LinkPieces
<1>12. SdkPieces'
  BY <1>8, <1>9 DEF SdkPieces
<1>13. AllCut(Outbound') /\ Reported'
  BY DEF GuestTurns, GuestCuts
<1> QED BY <1>1, <1>10, <1>11, <1>12, <1>13 DEF TornInv

\* Neither does a step of the companion.
LEMMA SdkTurnsTorn ==
  ASSUME IpcInv, IpcInv', TornInv, SdkTurns
  PROVE  TornInv'
<1>1. Outbound' \subseteq Outbound
  BY DEF SdkTurns, Outbound
<1>2. ToSdk' \subseteq ToSdk /\ AllCut(Outbound')
  BY <1>1 DEF ToSdk, Pieces, TornInv, AllCut
<1>3. c.corrCtr \in Nat /\ c'.corrCtr \in Nat /\ g' = g
  BY FramesOnTheirWay, LaterCounters DEF SdkTurns
<1>4. PICK b : \A f \in ToLink' :
        \/ f \in ToLink
        \/ /\ c.up /\ c'.up /\ c'.epoch = c.epoch /\ f.epoch = c.epoch
           /\ c.corrCtr < c'.corrCtr /\ f.corr = c'.corrCtr /\ f.body = b
  BY DEF SdkTurns, SdkCuts
<1>5. \A f \in ToLink : f.corr \in Nat /\ (c.up /\ f.epoch = c.epoch => f.corr <= c.corrCtr)
  BY FramesOnTheirWay DEF TornInv, SdkPieces, DataFrame, Word
<1>6. OfOne(ToLink')
  <2> SUFFICES ASSUME NEW f \in ToLink', NEW k \in ToLink', f.epoch = k.epoch, f.corr = k.corr
               PROVE  f.body = k.body
    BY DEF OfOne
  <2>1. CASE f \in ToLink /\ k \in ToLink
    BY <2>1 DEF TornInv, SdkPieces, OfOne
  <2>2. CASE f \notin ToLink \/ k \notin ToLink
    BY <1>3, <1>4, <1>5, <2>2
  <2> QED BY <2>1, <2>2
<1>7. c'.up => \/ c.up /\ c'.epoch = c.epoch /\ c.corrCtr <= c'.corrCtr
               \/ c'.epoch # g.epoch /\ \A f \in ToLink : f.epoch # c'.epoch
  BY DEF SdkTurns, SdkSession
<1>8. \A f \in ToLink' : c'.up /\ f.epoch = c'.epoch => f.corr <= c'.corrCtr
  BY <1>3, <1>4, <1>5, <1>7
<1>9. ASSUME NEW ch \in Chans
      PROVE  /\ ReadOf(g'.rasm[ch], {f \in ToLink' : f.epoch = g'.epoch})
             /\ g'.rasm[ch].open /\ c'.up /\ g'.epoch = c'.epoch => g'.rasm[ch].corr <= c'.corrCtr
  <2>1. /\ ReadOf(g.rasm[ch], {f \in ToLink : f.epoch = g.epoch})
        /\ g.rasm[ch].open /\ c.up /\ g.epoch = c.epoch => g.rasm[ch].corr <= c.corrCtr
        /\ g.rasm[ch].corr \in Nat
    BY FramesOnTheirWay DEF TornInv, SdkPieces, Reassembly, Word
  <2>2. g.rasm[ch].open => \A f \in ToLink' : f.epoch = g.epoch /\ f.corr = g.rasm[ch].corr
                             => f \in ToLink
    BY <1>3, <1>4, <2>1
  <2>3. ReadOf(g.rasm[ch], {f \in ToLink' : f.epoch = g.epoch})
    BY <2>1, <2>2 DEF ReadOf
  <2> QED BY <1>3, <1>7, <2>1, <2>3
<1>10. \A f, k \in ToSdk' : f.corr = k.corr => f.body = k.body
  BY <1>2 DEF TornInv, LinkPieces
<1>11. \A f \in ToSdk' : f.corr <= g'.corrCtr
  BY <1>2, <1>3 DEF TornInv, LinkPieces
<1>12. ASSUME NEW ch \in Chans
       PROVE  /\ ReadOf(c'.rasm[ch], ToSdk')
              /\ c'.rasm[ch].open => c'.rasm[ch].corr <= g'.corrCtr
  <2>1. ReadOf(c.rasm[ch], ToSdk) /\ (c.rasm[ch].open => c.rasm[ch].corr <= g.corrCtr)
    BY DEF TornInv, LinkPieces
  <2>2. /\ ~c'.rasm[ch].open \/ c'.rasm[ch] = c.rasm[ch]
           \/ \E f \in ToSdk : c'.rasm[ch] = Gather(c.rasm[ch], f)
    BY DEF SdkTurns, SdkReads, GoesOnReading
  <2>3. CASE ~c'.rasm[ch].open
    BY <2>3 DEF ReadOf
  <2>4. CASE c'.rasm[ch] = c.rasm[ch]
    BY <1>2, <1>3, <2>1, <2>4, ReadOfFewer
  <2>5. CASE \E f \in ToSdk : c'.rasm[ch] = Gather(c.rasm[ch], f)
    <3>1. PICK f \in ToSdk : c'.rasm[ch] = Gather(c.rasm[ch], f)
      BY <2>5
    <3>2. /\ ToSdk \subseteq DataFrame /\ c.rasm[ch] \in Reassembly /\ AllCut(ToSdk)
          /\ f.nfrag > 1 /\ f.corr <= g.corrCtr
          /\ \A k, l \in ToSdk : k.corr = l.corr => k.body = l.body
      <4>1. AllCut(ToSdk) /\ f.nfrag > 1
        BY DEF TornInv, AllCut, ToSdk, Pieces
      <4>2. f.corr <= g.corrCtr /\ \A k, l \in ToSdk : k.corr = l.corr => k.body = l.body
        BY DEF TornInv, LinkPieces
      <4> QED BY <4>1, <4>2, FramesOnTheirWay
    <3>3. ReadOf(Gather(c.rasm[ch], f), ToSdk) /\ Gather(c.rasm[ch], f).corr = f.corr
      BY <2>1, <3>2, GatherReads
    <3>4. ReadOf(c'.rasm[ch], ToSdk')
      BY <1>2, <3>1, <3>3, ReadOfFewer
    <3> QED BY <1>3, <3>1, <3>2, <3>3, <3>4
  <2> QED BY <2>2, <2>3, <2>4, <2>5
<1>13. LinkPieces'
  BY <1>10, <1>11, <1>12 DEF LinkPieces
<1>14. SdkPieces'
  BY <1>6, <1>8, <1>9 DEF SdkPieces
<1>15. ShortAnswers'
  BY <1>3 DEF SdkTurns, SdkCuts, TornInv, ShortAnswers
<1>16. AllCut(Datagrams(toGuest')) /\ Reported'
  BY DEF SdkTurns, SdkCuts
<1> QED BY <1>2, <1>13, <1>14, <1>15, <1>16 DEF TornInv

-----------------------------------------------------------------------------
(* The parts of a guest's handler, seen from the pieces. *)

\* A protocol message: one frame, and nothing an application said.
Single(f) == f.nfrag = 1 /\ Size[f.body] = 1 /\ f.type # "MSG"

\* From s to t a link queues nothing that comes in pieces, and mints no id.
LinkShort(s, t) ==
  /\ t.corrCtr = s.corrCtr
  /\ \A f \in Queued(t) : f \in Queued(s) \/ f.type \notin DataTypes \/ Single(f)

\* A reading is as it was or given up.
ReadsNoMore(old, new) == \A ch \in Chans : ~new[ch].open \/ new[ch] = old[ch]

\* Setting fields that neither mint an id nor queue a frame sends nothing long.
LEMMA LinkShortEdit ==
  ASSUME NEW s, NEW t, t.corrCtr = s.corrCtr, t.q = s.q
  PROVE  LinkShort(s, t)
BY DEF LinkShort, Queued

\* Two parts of a handler that send nothing long send nothing long together.
LEMMA LinkShortTwice ==
  ASSUME NEW s, NEW t, NEW u, LinkShort(s, t), LinkShort(t, u)
  PROVE  LinkShort(s, u)
BY DEF LinkShort

\* A short message is queued as one frame (sendMessage).
LEMMA SendShort ==
  ASSUME NEW s, Sound(s), s.up, NEW type \in DataTypes, type # "MSG", NEW flag \in Flags,
         NEW ch \in Chans, NEW corr \in Word, NEW b \in Bodies, Size[b] = 1
  PROVE  LinkShort(s, SendMessage(s, type, flag, ch, corr, b))
<1> DEFINE t == SendMessage(s, type, flag, ch, corr, b)
           id == IF Mints(corr, b) THEN NextCorr(s.corrCtr) ELSE corr
           fs == Fragments(type, flag, ch, s.epoch, s.txSeq[ch], id, b)
<1>1. CASE ~Room(s, ch, b)
  <2>1. t = s
    BY <1>1 DEF SendMessage
  <2> HIDE DEF t
  <2>2. LinkShort(s, t)
    BY <2>1, LinkShortEdit
  <2> QED BY <2>2 DEF t
<1>2. CASE Room(s, ch, b)
  <2>0. s \in LinkState
    BY DEF Sound
  <2>1. /\ id \in Word
        /\ t.txSeq = [s.txSeq EXCEPT ![ch] = Add(@, Size[b])]
        /\ t.corrCtr = IF Mints(corr, b) THEN id ELSE s.corrCtr
        /\ Queued(t) \subseteq Queued(s) \cup Datagrams(fs)
    BY <1>2, <2>0, MessageQueued
  <2>2. ~Mints(corr, b)
    BY DEF Mints
  <2>3. ASSUME NEW f \in Datagrams(fs) PROVE Single(f)
    <3>1. /\ f.nfrag = Size[b] /\ f.type = type
          /\ Call(f.epoch, f) = [epoch |-> s.epoch, ch |-> ch, corr |-> id, body |-> b]
      BY FragmentSays
    <3>2. f.body = b
      BY <3>1 DEF Call
    <3> QED BY <3>1, <3>2 DEF Single
  <2> HIDE DEF t, fs, id
  <2>4. LinkShort(s, t)
    BY <2>1, <2>2, <2>3 DEF LinkShort
  <2> QED BY <2>4 DEF t
<1> QED BY <1>1, <1>2

\* Hearing a frame queues at most a RESYNC (channelFrame).
LEMMA AcceptShort ==
  ASSUME NEW s, Sound(s), s.up, NEW f \in DataFrame
  PROVE  LinkShort(s, Accept(s, f))
<1> DEFINE h0 == [s EXCEPT !.lastRx = s.tick]
           a == [h0 EXCEPT !.resyncSent = [h0.resyncSent EXCEPT ![f.ch] = TRUE]]
           r == AskResync(h0, f)
           t == [r EXCEPT !.rxLast = [r.rxLast EXCEPT ![f.ch] = f.seq]]
<1>1. s \in LinkState /\ f.ch \in Chans /\ f.seq \in Word
  BY DEF Sound, DataFrame
<1>2. /\ h0 \in LinkState /\ SameCourse(s, h0) /\ h0.q = s.q /\ h0.dedup = s.dedup
      /\ h0.corrCtr = s.corrCtr
  BY <1>1 DEF LinkState, SameCourse
<1>3. /\ a \in LinkState /\ SameCourse(s, a) /\ a.q = s.q /\ a.dedup = s.dedup
      /\ a.corrCtr = s.corrCtr
  <2>1. [h0.resyncSent EXCEPT ![f.ch] = TRUE] \in [Chans -> BOOLEAN]
    BY <1>2 DEF LinkState
  <2> HIDE DEF h0
  <2> QED BY <1>2, <2>1 DEF LinkState, SameCourse
<1>4. [h0 EXCEPT !.resyncSent[f.ch] = TRUE] = a
  BY <1>2 DEF LinkState
<1> HIDE DEF h0, a
<1>5. Sound(a) /\ a.up
  BY <1>2, <1>3, SoundKept DEF SameCourse
<1>6. LinkShort(s, h0) /\ LinkShort(s, a)
  BY <1>2, <1>3, LinkShortEdit
<1>7. r \in LinkState /\ LinkShort(s, r)
  <2>1. CASE Gap(h0, f) /\ ~h0.resyncSent[f.ch]
    <3>1. r = SendMessage(a, "RESYNC", "none", f.ch, 0, NoBody)
      BY <1>4, <2>1 DEF AskResync
    <3>2. /\ "RESYNC" \in DataTypes /\ "none" \in Flags
          /\ 0 \in Word /\ NoBody \in Bodies /\ Size[NoBody] = 1
      BY WireAssumption DEF DataTypes, Flags, Word
    <3> HIDE DEF r
    <3>3. Sound(r) /\ LinkShort(a, r)
      BY <1>1, <1>5, <3>1, <3>2, SendMessageSound, SendShort
    <3> QED BY <1>6, <3>3, LinkShortTwice DEF Sound
  <2>2. CASE ~(Gap(h0, f) /\ ~h0.resyncSent[f.ch])
    BY <1>2, <1>6, <2>2 DEF AskResync
  <2> QED BY <2>1, <2>2
<1>8. Accept(s, f) = t
  BY <1>7 DEF Accept, h0, LinkState
<1> HIDE DEF r
<1>9. t.q = r.q /\ t.corrCtr = r.corrCtr
  BY <1>7 DEF LinkState
<1> HIDE DEF t
<1> QED BY <1>7, <1>8, <1>9, LinkShortEdit, LinkShortTwice

\* Taking a message in queues no more, and ends its reading (channelFrame).
LEMMA ArrivedShort ==
  ASSUME NEW s, Sound(s), s.up, NEW f \in DataFrame
  PROVE  LinkShort(s, Arrived(s, f)) /\ ReadsNoMore(s.rasm, Arrived(s, f).rasm)
<1> DEFINE a == Accept(s, f)
           t == [a EXCEPT !.rasm = [a.rasm EXCEPT ![f.ch] = Closed]]
<1>1. Sound(a) /\ LinkShort(s, a) /\ a.rasm = s.rasm
  BY AcceptSound, AcceptShort
<1>2. Arrived(s, f) = IF f.nfrag = 1 THEN a ELSE t
  BY <1>1 DEF Arrived, Sound, LinkState
<1> HIDE DEF a
<1>3. a \in LinkState /\ f.ch \in Chans
  BY <1>1 DEF Sound, DataFrame
<1>4. ~Closed.open
  BY DEF Closed
<1>5. t.q = a.q /\ t.corrCtr = a.corrCtr /\ t.rasm = [a.rasm EXCEPT ![f.ch] = Closed]
  BY <1>3 DEF LinkState
<1> HIDE DEF t
<1>6. ReadsNoMore(s.rasm, t.rasm) /\ ReadsNoMore(s.rasm, a.rasm)
  BY <1>1, <1>3, <1>4, <1>5 DEF ReadsNoMore, LinkState
<1>7. LinkShort(s, t)
  BY <1>1, <1>5, LinkShortEdit, LinkShortTwice
<1> QED BY <1>1, <1>2, <1>6, <1>7

\* A guest that queued nothing in pieces has cut nothing.
LEMMA ShortGuestCuts ==
  ASSUME IpcInv, TornInv, g.corrCtr <= g'.corrCtr,
         \A f \in Outbound' : f \in Outbound \/ f.type \notin DataTypes \/ Single(f),
         Short(g'.pend), Short(Datagrams(g'.dedup))
  PROVE  GuestCuts
<1>1. AllCut(Outbound')
  BY DEF TornInv, AllCut, Cut, Single
<1>2. \A f \in ToSdk' : f \in ToSdk
  BY DEF ToSdk, Pieces, Single
<1>3. \A f \in Outbound' : f \in Outbound \/ f.type # "MSG"
  BY DEF Single, DataTypes
<1> QED BY <1>1, <1>2, <1>3 DEF GuestCuts

\* A handler that leaves reassembly alone, or forgets what is read, reads no
\* piece (serviceReassembly, resetSession).
LEMMA ShortGuestReads ==
  ASSUME ReadsNoMore(g.rasm, g'.rasm), g'.epoch = g.epoch
  PROVE  GuestReads
BY DEF ReadsNoMore, GuestReads, GoesOnReading

\* What a handler that queues nothing long leaves behind.
GuestShort == /\ LinkShort(g, g') /\ out' = out /\ GuestReads
              /\ Short(g'.pend) /\ Short(Datagrams(g'.dedup))

\* A guest step that queues nothing long mints no piece, and what it reads is
\* of one message.
LEMMA GuestShortCuts ==
  ASSUME IpcInv, TornInv, GuestShort
  PROVE  GuestCuts /\ GuestReads
<1>1. g.corrCtr <= g'.corrCtr
  BY Counters DEF GuestShort, LinkShort
<1>2. \A f \in Outbound' : f \in Outbound \/ f.type \notin DataTypes \/ Single(f)
  BY DEF GuestShort, LinkShort, Outbound
<1> QED BY <1>1, <1>2, ShortGuestCuts DEF GuestShort

\* A request, an answer or a RESYNC the guest was sent is one frame (channelFrame).
LEMMA GuestHearsShort ==
  ASSUME TornInv, NEW f \in DataFrame, f \in Datagrams(toGuest), Message(g, f).type # "MSG"
  PROVE  /\ f.nfrag = 1 /\ f.type = Message(g, f).type /\ f.corr = Message(g, f).corr
         /\ BodyOf(Message(g, f).parts) = f.body /\ Size[f.body] = 1
<1> DEFINE m == Message(g, f)
           r == g.rasm[f.ch]
<1>1. f.type \in DataTypes /\ f.ch \in Chans
  BY DEF DataFrame
<1>2. Cut(f)
  BY <1>1 DEF TornInv, AllCut
<1>3. Plain({f})
  BY <1>2 DEF Cut, Plain
<1>4. r.open => r.type = "MSG"
  BY <1>1 DEF TornInv, SdkPieces, ReadOf
<1>5. m = (IF f.nfrag = 1
           THEN [type |-> f.type, flag |-> f.flag, corr |-> f.corr, parts |-> {<<0, f.body>>}]
           ELSE [type |-> Gather(r, f).type, flag |-> Gather(r, f).flag,
                 corr |-> Gather(r, f).corr, parts |-> Gather(r, f).parts])
  BY DEF Message
<1> HIDE DEF m, r
<1>6. m.type # "MSG"
  BY DEF m
<1>7. /\ f.nfrag = 1 /\ f.type = m.type /\ f.flag = m.flag /\ f.corr = m.corr
      /\ m.parts = {<<0, f.body>>} /\ BodyOf(m.parts) = f.body
  BY <1>1, <1>3, <1>4, <1>5, <1>6, OneFrameMessage
<1>8. Size[f.body] = 1
  BY <1>2, <1>7 DEF Cut
<1> QED BY <1>7, <1>8 DEF m

\* An edit of what has arrived and the answer to it (onReq, onResp).
LEMMA AnswerShort ==
  ASSUME NEW s, Sound(s), s.up, LinkShort(g, s), s.epoch = g.epoch, ReadsNoMore(g.rasm, s.rasm),
         Short(s.pend), Short(Datagrams(s.dedup)), out' = out
  PROVE  /\ g' = s => GuestShort
         /\ \A flag \in Flags, ch \in Chans, corr \in Word, b \in Bodies :
              Size[b] = 1 /\ g' = SendMessage(s, "RESP", flag, ch, corr, b) => GuestShort
<1>1. ASSUME g' = s PROVE GuestShort
  <2>1. GuestReads
    BY <1>1, ShortGuestReads
  <2> QED BY <1>1, <2>1 DEF GuestShort
<1>2. ASSUME NEW flag \in Flags, NEW ch \in Chans, NEW corr \in Word, NEW b \in Bodies,
             Size[b] = 1, g' = SendMessage(s, "RESP", flag, ch, corr, b)
      PROVE  GuestShort
  <2>1. "RESP" \in DataTypes
    BY DEF DataTypes
  <2>2. /\ SameCourse(s, g') /\ g'.pend = s.pend /\ g'.rasm = s.rasm /\ g'.dedup = s.dedup
    BY <1>2, <2>1, SendMessageSound
  <2>3. LinkShort(s, g')
    BY <1>2, <2>1, SendShort
  <2>4. GuestReads
    BY <2>2, ShortGuestReads DEF SameCourse
  <2> QED BY <2>2, <2>3, <2>4, LinkShortTwice DEF GuestShort
<1> QED BY <1>1, <1>2

\* An answer of one frame is remembered (addDedup).
LEMMA RememberShort ==
  ASSUME NEW s, Sound(s), s.up, NEW ch \in Chans, NEW corr \in Word, NEW b \in Bodies,
         Size[b] = 1, Short(Datagrams(s.dedup))
  PROVE  LET t == Remember(s, ch, corr, b)
         IN  /\ t.q = s.q /\ t.corrCtr = s.corrCtr /\ t.rasm = s.rasm
             /\ Short(Datagrams(t.dedup))
<1> DEFINE t == Remember(s, ch, corr, b)
           x == [epoch |-> s.epoch, ch |-> ch, corr |-> corr, body |-> b]
<1>1. /\ LinkCalls(s, t, {}, {x}) /\ GuestKnows(t, x) /\ t.rasm = s.rasm
      /\ \A d \in Datagrams(t.dedup) : d \in Datagrams(s.dedup) \/ Call(d.epoch, d) = x
  BY RememberCalls
<1>2. s \in LinkState
  BY DEF Sound
<1>3. t.q = s.q /\ t.corrCtr = s.corrCtr
  BY <1>2 DEF Remember, LinkState
<1> HIDE DEF t, x
<1>4. Short(Datagrams(t.dedup))
  <2> SUFFICES ASSUME NEW d \in Datagrams(t.dedup) PROVE Size[d.body] = 1
    BY DEF Short
  <2>1. d \in Datagrams(s.dedup) \/ Call(d.epoch, d) = x
    BY <1>1
  <2> QED BY <2>1 DEF Short, Call, x
<1> QED BY <1>1, <1>3, <1>4 DEF t

\* A frame the guest reads adds at most itself to what is half-read, and is
\* answered with no more than a frame (channelFrame, onReq, onResp).
LEMMA DataFrameShort ==
  ASSUME IpcInv, TornInv, NEW f \in Frame, f \in Datagrams(toGuest),
         \/ OnStale("peer", f) \/ OnFragment("peer", f) \/ OnMsg("peer", f)
         \/ OnResync("peer", f) \/ OnReqAgain("peer", f) \/ OnReqUnserved("peer", f)
         \/ OnReqNew("peer", f) \/ OnResp("peer", f)
  PROVE  GuestShort
<1> DEFINE a == Arrived(g, f)
           m == Message(g, f)
<1>1. /\ Sound(g) /\ g \in LinkState /\ g.up /\ out' = out /\ f.epoch = g.epoch
      /\ f.type \in DataTypes
  BY DEF IpcInv, GuestInv, Sound, OnStale, OnFragment, OnMsg, OnResync, OnReqAgain,
         OnReqUnserved, OnReqNew, OnResp, Dispatches, DataArrives, InSession
<1>2. f \in DataFrame
  BY <1>1, DataFrames
<1>3. f.ch \in Chans /\ f.nfrag \in 1 .. MaxFragments
  BY <1>2 DEF DataFrame
<1>4. Short(g.pend) /\ Short(Datagrams(g.dedup))
  BY DEF TornInv, ShortAnswers
<1>5. /\ Sound(a) /\ a.up /\ a \in LinkState /\ LinkShort(g, a) /\ ReadsNoMore(g.rasm, a.rasm)
      /\ a.epoch = g.epoch /\ a.dedup = g.dedup /\ a.pend = g.pend
  <2>1. /\ Sound(a) /\ SameCourse(g, a) /\ a.up /\ a.pend = g.pend /\ a.dedup = g.dedup
    BY <1>1, <1>2, ArrivedSound
  <2>2. LinkShort(g, a) /\ ReadsNoMore(g.rasm, a.rasm)
    BY <1>1, <1>2, ArrivedShort
  <2> QED BY <2>1, <2>2 DEF Sound, SameCourse
<1>6. ASSUME Completes(g, f) PROVE m.corr \in Word /\ BodyOf(m.parts) \in Bodies
  BY <1>1, <1>2, <1>6, MessageType
<1>7. ASSUME m.type = "REQ" PROVE BodyOf(m.parts) = f.body /\ Size[f.body] = 1
  BY <1>1, <1>2, <1>7, GuestHearsShort
<1>8. /\ {"none", "DUPLICATE", "NO_HANDLER"} \subseteq Flags
      /\ NoBody \in Bodies /\ Size[NoBody] = 1
  BY WireAssumption DEF Flags, Errors
<1> HIDE DEF a
<1>9. /\ Short(a.pend) /\ Short(Datagrams(a.dedup))
  BY <1>4, <1>5
<1>10. /\ g' = a => GuestShort
       /\ \A flag \in Flags, ch \in Chans, corr \in Word, b \in Bodies :
            Size[b] = 1 /\ g' = SendMessage(a, "RESP", flag, ch, corr, b) => GuestShort
  BY <1>1, <1>5, <1>9, AnswerShort
\* An edit of what has arrived that queues nothing.
<1>11. ASSUME NEW t, t.corrCtr = a.corrCtr, t.q = a.q, t.rasm = a.rasm, t.pend \subseteq a.pend,
              t.dedup = a.dedup, t.epoch = a.epoch, g' = t
       PROVE  GuestShort
  <2>1. LinkShort(g, g')
    BY <1>5, <1>11, LinkShortEdit, LinkShortTwice
  <2>2. GuestReads
    BY <1>5, <1>11, ShortGuestReads
  <2> QED BY <1>1, <1>9, <1>11, <2>1, <2>2 DEF GuestShort, Short
<1>12. CASE OnStale("peer", f)
  <2>1. /\ g'.epoch = g.epoch /\ g'.corrCtr = g.corrCtr /\ g'.q = g.q /\ g'.rasm = g.rasm
        /\ g'.pend = g.pend /\ g'.dedup = g.dedup
    BY <1>1, <1>12 DEF OnStale, LinkState
  <2>2. LinkShort(g, g') /\ ReadsNoMore(g.rasm, g'.rasm)
    BY <2>1, LinkShortEdit DEF ReadsNoMore
  <2> QED BY <1>1, <1>4, <2>1, <2>2, ShortGuestReads DEF GuestShort
<1>13. CASE OnFragment("peer", f)
  <2> DEFINE k == Accept(g, f)
             r == IF Disagrees(k.rasm[f.ch], f) THEN Closed ELSE Gather(k.rasm[f.ch], f)
             d == IF Disagrees(g.rasm[f.ch], f) THEN k.rasmDue[f.ch]
                  ELSE Add(g.tick, ReassemblyTicks)
             n == [k.rasm EXCEPT ![f.ch] = r]
             nd == [k.rasmDue EXCEPT ![f.ch] = d]
  <2>1. /\ Sound(k) /\ k \in LinkState /\ LinkShort(g, k) /\ k.rasm = g.rasm
        /\ k.pend = g.pend /\ k.dedup = g.dedup /\ k.epoch = g.epoch
    BY <1>1, <1>2, AcceptSound, AcceptShort DEF Sound, SameCourse
  <2>2. g' = [k EXCEPT !.rasm = n, !.rasmDue = nd] /\ f.nfrag # 1
    BY <1>3, <1>13, <2>1 DEF OnFragment, LinkState, Completes
  <2>3. ~Closed.open
    BY DEF Closed
  <2>4. f \in {k1 \in ToLink : k1.epoch = g.epoch}
    BY <1>1, <1>3, <2>2 DEF ToLink, Pieces
  <2>5. ASSUME NEW ch \in Chans
        PROVE  GoesOnReading(g.rasm[ch], n[ch], {k1 \in ToLink : k1.epoch = g.epoch})
    <3>1. CASE ch = f.ch
      <4>1. n[ch] = r
        BY <2>1, <3>1 DEF LinkState
      <4> HIDE DEF k, n
      <4> QED BY <2>1, <2>3, <2>4, <3>1, <4>1 DEF GoesOnReading
    <3>2. CASE ch # f.ch
      <4>1. n[ch] = g.rasm[ch]
        BY <2>1, <3>2 DEF LinkState
      <4> QED BY <4>1 DEF GoesOnReading
    <3> QED BY <3>1, <3>2
  <2> HIDE DEF n, nd, k
  <2>6. /\ g'.epoch = k.epoch /\ g'.corrCtr = k.corrCtr /\ g'.q = k.q /\ g'.rasm = n
        /\ g'.pend = k.pend /\ g'.dedup = k.dedup
    BY <2>1, <2>2 DEF LinkState
  <2>7. GuestReads
    BY <2>1, <2>5, <2>6 DEF GuestReads
  <2>8. LinkShort(g, g')
    BY <2>1, <2>6, LinkShortEdit, LinkShortTwice
  <2> QED BY <1>1, <1>4, <2>1, <2>6, <2>7, <2>8 DEF GuestShort
<1>14. CASE OnMsg("peer", f)
  <2> DEFINE n == [a.resyncSent EXCEPT ![f.ch] = @ /\ m.flag # "snapshot"]
             t == [a EXCEPT !.resyncSent = n]
  <2>1. g' = t
    BY <1>5, <1>14 DEF OnMsg, a, m, LinkState
  <2> HIDE DEF n
  <2>2. /\ t.epoch = a.epoch /\ t.corrCtr = a.corrCtr /\ t.q = a.q /\ t.rasm = a.rasm
        /\ t.pend \subseteq a.pend /\ t.dedup = a.dedup
    BY <1>5 DEF LinkState
  <2> HIDE DEF t
  <2> QED BY <1>11, <2>1, <2>2
<1>15. CASE OnResync("peer", f)
  BY <1>10, <1>15 DEF OnResync, a
<1>16. CASE OnResp("peer", f)
  <2> DEFINE n == a.pend \ Answered(a, f.ch, m.corr)
             t == [a EXCEPT !.pend = n]
  <2>1. g' = t
    BY <1>16 DEF OnResp, a, m
  <2>2. n \subseteq a.pend
    OBVIOUS
  <2> HIDE DEF n
  <2>3. /\ t.epoch = a.epoch /\ t.corrCtr = a.corrCtr /\ t.q = a.q /\ t.rasm = a.rasm
        /\ t.pend \subseteq a.pend /\ t.dedup = a.dedup
    BY <1>5, <2>2 DEF LinkState
  <2> HIDE DEF t
  <2> QED BY <1>11, <2>1, <2>3
<1>17. CASE OnReqUnserved("peer", f)
  <2>1. Completes(g, f) /\ g' = SendMessage(a, "RESP", "NO_HANDLER", f.ch, m.corr, NoBody)
    BY <1>17 DEF OnReqUnserved, Dispatches, a, m
  <2> HIDE DEF m
  <2> QED BY <1>3, <1>6, <1>8, <1>10, <2>1
<1>18. CASE OnReqAgain("peer", f)
  <2> DEFINE hits == Remembered(a, f.ch, m.corr)
             i0 == CHOOSE i \in hits : \A j \in hits : i <= j
             e == a.dedup[CHOOSE i \in hits : \A j \in hits : i <= j]
  <2>1. Completes(g, f) /\ hits # {}
    BY <1>18 DEF OnReqAgain, Dispatches, a, m
  <2>2. a.dedup \in Seq(DedupEntry)
    BY <1>5 DEF LinkState
  <2>3. hits \subseteq DOMAIN a.dedup /\ DOMAIN a.dedup = 1 .. Len(a.dedup) /\ Len(a.dedup) \in Nat
    BY <2>2, LenProperties DEF Remembered
  <2>4. \E i \in hits : \A j \in hits : i <= j
    <3>1. hits \subseteq Nat
      BY <2>3
    <3> HIDE DEF hits
    <3> QED BY <2>1, <3>1, LeastMember
  <2>5. i0 \in hits
    BY <2>4
  <2>6. a.dedup[i0] \in Datagrams(a.dedup) /\ a.dedup[i0] \in DedupEntry
    <3> HIDE DEF i0
    <3> QED BY <2>2, <2>3, <2>5, ElementOfSeq DEF Datagrams
  <2>7. e = a.dedup[i0]
    BY DEF i0
  <2>8. g' = IF e.cached THEN SendMessage(a, "RESP", "none", f.ch, m.corr, e.body)
             ELSE SendMessage(a, "RESP", "DUPLICATE", f.ch, m.corr, NoBody)
    BY <1>18 DEF OnReqAgain, a, m
  <2> HIDE DEF e, hits, i0, m
  <2>9. e.body \in Bodies /\ Size[e.body] = 1
    BY <1>9, <2>6, <2>7 DEF Short, DedupEntry
  <2> QED BY <1>3, <1>6, <1>8, <1>10, <2>1, <2>8, <2>9
<1>19. CASE OnReqNew("peer", f)
  <2> DEFINE b == BodyOf(m.parts)
             k == Remember(a, f.ch, m.corr, b)
  <2>1. Completes(g, f) /\ m.type = "REQ" /\ g' = SendMessage(k, "RESP", "none", f.ch, m.corr, b)
    BY <1>19 DEF OnReqNew, Dispatches, a, m
  <2>2. m.corr \in Word /\ b \in Bodies /\ Size[b] = 1
    BY <1>6, <1>7, <2>1
  <2> HIDE DEF m, b
  <2>3. Sound(k) /\ SameCourse(a, k) /\ k.pend = a.pend
    BY <1>3, <1>5, <2>2, RememberSound
  <2>4. k.q = a.q /\ k.corrCtr = a.corrCtr /\ k.rasm = a.rasm /\ Short(Datagrams(k.dedup))
    BY <1>3, <1>5, <1>9, <2>2, RememberShort
  <2> HIDE DEF k
  <2>5. LinkShort(g, k) /\ ReadsNoMore(g.rasm, k.rasm) /\ Short(k.pend) /\ k.up /\ k.epoch = g.epoch
    <3>1. LinkShort(a, k)
      BY <2>4, LinkShortEdit
    <3> QED BY <1>5, <1>9, <2>3, <2>4, <3>1, LinkShortTwice DEF SameCourse
  <2>6. \A flag \in Flags, ch \in Chans, corr \in Word, b1 \in Bodies :
          Size[b1] = 1 /\ g' = SendMessage(k, "RESP", flag, ch, corr, b1) => GuestShort
    BY <1>1, <2>3, <2>4, <2>5, AnswerShort
  <2> QED BY <1>3, <1>8, <2>1, <2>2, <2>6
<1> QED BY <1>12, <1>13, <1>14, <1>15, <1>16, <1>17, <1>18, <1>19

\* A session that ends leaves nothing half-read and nothing queued (resetSession).
LEMMA ResetShort ==
  ASSUME NEW k \in LinkState, g' = ResetSession(k), k.corrCtr = g.corrCtr, out' = out
  PROVE  GuestShort
<1>1. /\ Sound(g') /\ ~g'.up /\ g'.pend = {} /\ g'.corrCtr = g.corrCtr
  BY ResetSessionSound, ResetSessionDown
<1>2. /\ g'.dedup = <<>> /\ \A p \in Queues : g'.q[p] = <<>>
      /\ \A ch \in Chans : ~g'.rasm[ch].open
  BY <1>1 DEF Sound, Blank
<1>3. Queued(g') = {} /\ Datagrams(g'.dedup) = {}
  BY <1>2 DEF Queued, Datagrams
<1>4. LinkShort(g, g') /\ GuestReads
  BY <1>1, <1>2, <1>3 DEF LinkShort, GuestReads
<1> QED BY <1>1, <1>3, <1>4 DEF GuestShort, Short

\* HELLO_ACK, a heartbeat, BYE, and what is ignored (deliver).
LEMMA SessionFrameShort ==
  ASSUME IpcInv, TornInv, NEW src, NEW f \in Frame,
         \/ OnHelloAck(src, f) \/ OnHeartbeat(src, f) \/ OnBye(src, f) \/ OnIgnored(src, f)
  PROVE  GuestShort
<1>1. g \in LinkState /\ Sound(g) /\ Short(g.pend) /\ Short(Datagrams(g.dedup))
  BY DEF IpcInv, GuestInv, Sound, TornInv, ShortAnswers
<1>2. CASE OnHelloAck(src, f)
  <2> DEFINE h0 == [g EXCEPT !.epoch = f.epoch, !.up = TRUE, !.helloCorr = 0,
                     !.lastRx = g.tick, !.lastHB = g.tick]
  <2>1. h0 \in LinkState
    <3>1. f.epoch \in Epochs /\ 0 \in Word
      BY FrameEpoch, WireAssumption DEF Word
    <3> QED BY <1>1, <3>1 DEF LinkState
  <2>2. g' = FreshChannels(h0) /\ out' = out
    BY <1>2 DEF OnHelloAck
  <2>3. /\ h0.q = g.q /\ h0.pend = g.pend /\ h0.dedup = g.dedup /\ h0.corrCtr = g.corrCtr
    BY <1>1 DEF LinkState
  <2> HIDE DEF h0
  <2>4. g' = [h0 EXCEPT !.txSeq = [ch \in Chans |-> 0],
                        !.rxLast = [ch \in Chans |-> 0],
                        !.resyncSent = [ch \in Chans |-> FALSE],
                        !.rasm = [ch \in Chans |-> Closed]]
    BY <2>1, <2>2, FreshChannelsType
  <2>5. /\ g'.q = g.q /\ g'.pend = g.pend /\ g'.dedup = g.dedup /\ g'.corrCtr = g.corrCtr
        /\ g'.rasm = [ch \in Chans |-> Closed]
    BY <2>1, <2>3, <2>4 DEF LinkState
  <2>6. ~Closed.open
    BY DEF Closed
  <2>7. GuestReads
    BY <2>5, <2>6 DEF GuestReads
  <2> QED BY <1>1, <2>2, <2>5, <2>7, LinkShortEdit DEF GuestShort
<1>3. CASE OnHeartbeat(src, f)
  <2>1. /\ g'.epoch = g.epoch /\ g'.corrCtr = g.corrCtr /\ g'.q = g.q /\ g'.rasm = g.rasm
        /\ g'.pend = g.pend /\ g'.dedup = g.dedup /\ out' = out
    BY <1>1, <1>3 DEF OnHeartbeat, LinkState
  <2>2. GuestReads
    BY <2>1, ShortGuestReads DEF ReadsNoMore
  <2> QED BY <1>1, <2>1, <2>2, LinkShortEdit DEF GuestShort
<1>4. CASE OnBye(src, f)
  <2> DEFINE h0 == [g EXCEPT !.lastRx = g.tick]
  <2>1. h0 \in LinkState /\ g' = ResetSession(h0) /\ out' = out /\ h0.corrCtr = g.corrCtr
    BY <1>1, <1>4 DEF OnBye, LinkState
  <2> HIDE DEF h0
  <2> QED BY <2>1, ResetShort
<1>5. CASE OnIgnored(src, f)
  <2>1. g' = g /\ out' = out
    BY <1>5 DEF OnIgnored, guestVars
  <2>2. GuestReads
    BY <2>1, ShortGuestReads DEF ReadsNoMore
  <2> QED BY <1>1, <2>1, <2>2, LinkShortEdit DEF GuestShort
<1> QED BY <1>2, <1>3, <1>4, <1>5

-----------------------------------------------------------------------------
(* What the applications hear. *)

\* A report of a whole message is one more (Heard).
LEMMA ReportAdded ==
  ASSUME HistoryOK(h), Reported, NEW who \in {"guest", "sdk"}, NEW e \in Epochs, NEW m,
         BodyOf(m.parts) \in Bodies, Intact(m.parts), h' = Heard(h, who, e, m)
  PROVE  Reported'
<1> DEFINE r == [epoch |-> e, n |-> BodyOf(m.parts), snapshot |-> m.flag = "snapshot",
                 intact |-> Intact(m.parts)]
           n == [h.heard EXCEPT ![who] = Append(h.heard[who], r)]
<1>1. r \in Report
  BY DEF Report
<1>2. h' = [h EXCEPT !.heard = n]
  BY DEF Heard, HistoryOK
<1>3. h.heard[who] \in Seq(Report)
  BY DEF Reported
<1> HIDE DEF r
<1>4. Append(h.heard[who], r) \in Seq(Report)
  BY <1>1, <1>3, AppendProperties
<1>5. n \in [{"guest", "sdk"} -> Seq(Report)]
  BY <1>4 DEF Reported
<1> HIDE DEF n
<1>6. h'.heard = n
  BY <1>2 DEF HistoryOK
<1> QED BY <1>5, <1>6 DEF Reported

\* A step that hands nothing over keeps what was handed over whole.
LEMMA ReportsKept ==
  ASSUME Reported, h'.heard = h.heard
  PROVE  Reported'
BY DEF Reported

\* What is learnt of requests is no message (Settled).
LEMMA NothingHeard ==
  ASSUME HistoryOK(h), NEW t, NEW a, NEW s,
         \/ h' = h \/ h' = [h EXCEPT !.told = t] \/ h' = [h EXCEPT !.asked = a]
         \/ h' = [h EXCEPT !.ran = t] \/ h' = [h EXCEPT !.said = s]
  PROVE  h'.heard = h.heard
BY DEF HistoryOK

\* What the guest hands to its application is whole (deliver of link.go).
LEMMA GuestHearsWhole ==
  ASSUME IpcInv, TornInv, NEW f \in Frame, f \in Datagrams(toGuest), h' = GuestLearns(f)
  PROVE  Reported'
<1> DEFINE m == Message(g, f)
           whole == f.type \in DataTypes /\ InSession(f) /\ ~Stale(g, f) /\ Completes(g, f)
<1>1. HistoryOK(h) /\ Reported /\ g \in LinkState
  BY DEF IpcInv, BooksOK, TornInv, GuestInv, Sound
<1>2. CASE whole /\ m.type = "MSG"
  <2> DEFINE P == {k \in Datagrams(toGuest) : k.type \in DataTypes /\ k.epoch = g.epoch}
             r == g.rasm[f.ch]
  <2>1. h' = Heard(h, "guest", f.epoch, m)
    BY <1>2, GuestLearnt
  <2>2. f \in DataFrame /\ f.ch \in Chans /\ f.epoch \in Epochs
    BY <1>2, DataFrames DEF DataFrame
  <2>3. r \in Reassembly
    BY <2>2, FramesOnTheirWay
  <2>4. Pieces(P) = {k \in ToLink : k.epoch = g.epoch}
    BY DEF Pieces, ToLink
  <2>5. P \subseteq DataFrame /\ AllCut(P)
    BY FramesOnTheirWay, DataFrames DEF TornInv, AllCut
  <2>6. ReadOf(r, Pieces(P)) /\ \A k, l \in Pieces(P) : k.corr = l.corr => k.body = l.body
    BY <2>2, <2>4 DEF TornInv, SdkPieces, OfOne
  <2>7. f \in P /\ (f.nfrag = 1 \/ Whole(Gather(r, f)))
    BY <1>2 DEF InSession, Completes
  <2> HIDE DEF P, r
  <2>8. Intact(IF f.nfrag = 1 THEN {<<0, f.body>>} ELSE Gather(r, f).parts)
    BY <2>3, <2>5, <2>6, <2>7, CompletedWhole
  <2>9. m.parts = IF f.nfrag = 1 THEN {<<0, f.body>>} ELSE Gather(r, f).parts
    BY DEF Message, r
  <2>10. BodyOf(m.parts) \in Bodies
    BY <1>1, <1>2, <2>2, MessageType
  <2> HIDE DEF m
  <2> QED BY <1>1, <2>1, <2>2, <2>8, <2>9, <2>10, ReportAdded
<1>3. CASE ~(whole /\ m.type = "MSG")
  <2>1. h'.heard = h.heard
    BY <1>1, <1>3 DEF GuestLearns, Settled, Ran, HistoryOK
  <2> QED BY <1>1, <2>1, ReportsKept
<1> QED BY <1>2, <1>3

-----------------------------------------------------------------------------
(* The steps of the guest. *)

\* A step of the guest alone that queues nothing in pieces.
LEMMA ShortTurns ==
  ASSUME IpcInv, TornInv, GuestShort, c' = c, running' = running,
         Datagrams(toGuest') \subseteq Datagrams(toGuest), Reported'
  PROVE  GuestTurns
BY GuestShortCuts DEF GuestTurns

\* A datagram the guest reads (recv_udp, deliver).
LEMMA ReceiveTurns ==
  ASSUME IpcInv, TornInv, GuestReceives
  PROVE  GuestTurns
<1>1. PICK i \in DOMAIN toGuest :
        /\ toGuest' = Without(toGuest, i) /\ Deliver("peer", toGuest[i])
        /\ h' = GuestLearns(toGuest[i])
  BY DEF GuestReceives, Readable
<1> DEFINE f == toGuest[i]
<1>2. toGuest \in Seq(Frame)
  BY DEF IpcInv, CompanionSound, CompanionTypeOK
<1>3. f \in Frame /\ f \in Datagrams(toGuest)
  BY <1>2, ElementOfSeq, LenProperties DEF Datagrams
<1>4. c' = c /\ running' = running /\ Datagrams(toGuest') \subseteq Datagrams(toGuest)
  BY <1>1, <1>2, WithoutSound DEF GuestReceives
<1>5. Deliver("peer", f) /\ h' = GuestLearns(f)
  BY <1>1
<1> HIDE DEF f
<1>6. Reported'
  BY <1>3, <1>5, GuestHearsWhole
<1>7. CASE OnHelloAck("peer", f) \/ OnHeartbeat("peer", f) \/ OnBye("peer", f) \/ OnIgnored("peer", f)
  BY <1>3, <1>4, <1>6, <1>7, SessionFrameShort, ShortTurns
<1>8. CASE \/ OnStale("peer", f) \/ OnFragment("peer", f) \/ OnMsg("peer", f)
           \/ OnResync("peer", f) \/ OnReqAgain("peer", f) \/ OnReqUnserved("peer", f)
           \/ OnReqNew("peer", f) \/ OnResp("peer", f)
  BY <1>3, <1>4, <1>6, <1>8, DataFrameShort, ShortTurns
<1> QED BY <1>5, <1>7, <1>8 DEF Deliver

\* A datagram of another mod's companion (deliver's port filter).
LEMMA OtherModTurns ==
  ASSUME IpcInv, TornInv, OtherModAnswers
  PROVE  GuestTurns
<1> DEFINE f == [type |-> "HELLO_ACK", epoch |-> OtherModsToken, corr |-> g.helloCorr,
                 name |-> SdkName]
<1>1. Deliver("other", f) /\ c' = c /\ running' = running /\ toGuest' = toGuest /\ h' = h
  BY DEF OtherModAnswers
<1>2. f \in Frame
  <2>1. g \in LinkState
    BY DEF IpcInv, GuestInv, Sound
  <2> QED BY <2>1, FkIpcAssumption, CompanionAssumption DEF Frame, AckFrame, LinkState
<1> HIDE DEF f
<1>3. OnIgnored("other", f)
  BY <1>1 DEF Deliver, OnHelloAck, OnHeartbeat, OnBye, OnStale, OnFragment, OnMsg, OnResync,
              OnReqAgain, OnReqUnserved, OnReqNew, OnResp, Dispatches, DataArrives, Mine
<1>4. Reported' /\ Datagrams(toGuest') \subseteq Datagrams(toGuest)
  BY <1>1 DEF TornInv, Reported, Datagrams
<1> QED BY <1>1, <1>2, <1>3, <1>4, SessionFrameShort, ShortTurns

\* The network, and a companion that is not there (Lose, Duplicate).
LEMMA NetworkTurns ==
  ASSUME IpcInv, TornInv, Lose \/ Duplicate \/ NobodyListens \/ UNCHANGED vars
  PROVE  GuestTurns
<1>1. out \in Seq(Frame) /\ toGuest \in Seq(Frame)
  BY DEF IpcInv, GuestInv, CompanionSound, CompanionTypeOK
<1>2. /\ g' = g /\ c' = c /\ running' = running /\ h' = h
      /\ Datagrams(out') \subseteq Datagrams(out) /\ Datagrams(toGuest') \subseteq Datagrams(toGuest)
  <2>1. CASE Lose
    <3>1. g' = g /\ c' = c /\ running' = running /\ h' = h
      BY <2>1 DEF Lose
    <3>2. \/ \E i \in DOMAIN out : out' = Without(out, i) /\ toGuest' = toGuest
          \/ \E i \in DOMAIN toGuest : toGuest' = Without(toGuest, i) /\ out' = out
      BY <2>1 DEF Lose
    <3> QED BY <1>1, <3>1, <3>2, WithoutSound
  <2>2. CASE Duplicate
    <3>1. g' = g /\ c' = c /\ running' = running /\ h' = h
      BY <2>2 DEF Duplicate
    <3>2. \/ \E i \in DOMAIN out : out' = Append(out, out[i]) /\ toGuest' = toGuest
          \/ \E i \in DOMAIN toGuest : toGuest' = Append(toGuest, toGuest[i]) /\ out' = out
      BY <2>2 DEF Duplicate
    <3> QED BY <1>1, <3>1, <3>2, CopySound
  <2>3. CASE NobodyListens
    <3>1. Datagrams(<<>>) = {}
      BY DEF Datagrams
    <3> QED BY <2>3, <3>1 DEF NobodyListens
  <2>4. CASE UNCHANGED vars
    BY <2>4 DEF vars
  <2> QED BY <2>1, <2>2, <2>3, <2>4
<1>3. g.corrCtr <= g'.corrCtr /\ Outbound' \subseteq Outbound
  BY <1>2, Counters DEF Outbound, Queued, Datagrams
<1>4. GuestCuts
  BY <1>2, <1>3, ShortGuestCuts DEF TornInv, ShortAnswers
<1>5. GuestReads
  BY <1>2, ShortGuestReads DEF ReadsNoMore
<1>6. Reported'
  BY <1>2 DEF TornInv, Reported
<1> QED BY <1>2, <1>4, <1>5, <1>6 DEF GuestTurns

\* An application's message is cut under an id of its own (Send, Snapshot).
LEMMA SaysTurns ==
  ASSUME IpcInv, TornInv, IdsLast, GuestSays
  PROVE  GuestTurns
<1>1. c' = c /\ running' = running /\ toGuest' = toGuest /\ h'.heard = h.heard
  <2>1. HistoryOK(h)
    BY DEF IpcInv, BooksOK
  <2>2. h' = h \/ h' = [h EXCEPT !.said.guest = @ + 1]
    BY DEF GuestSays
  <2>3. \E n : [h EXCEPT !.said.guest = @ + 1] = [h EXCEPT !.said = n]
    BY <2>1 DEF HistoryOK
  <2> QED BY <2>1, <2>2, <2>3 DEF GuestSays, HistoryOK
<1>2. \E ch \in Chans, flag \in {"none", "snapshot"}, b \in 0 .. GuestMsgs : AppSend(ch, flag, b)
  <2>1. h.said.guest \in 0 .. GuestMsgs /\ GuestMsgs \in Nat
    BY FkIpcAssumption DEF IpcInv, BooksOK, HistoryOK
  <2>2. h.said.guest < GuestMsgs => h.said.guest + 1 \in 0 .. GuestMsgs
    BY <2>1
  <2> QED BY <2>1, <2>2 DEF GuestSays
<1>3. PICK ch \in Chans, flag \in {"none", "snapshot"}, b \in 0 .. GuestMsgs : AppSend(ch, flag, b)
  BY <1>2
<1>4. /\ Sound(g) /\ g \in LinkState /\ g.up /\ out' = out /\ Room(g, ch, b)
      /\ g' = SendMessage(g, "MSG", flag, ch, 0, b) /\ g.corrCtr \in Word /\ g.corrCtr \in Nat
  BY <1>3, Counters DEF IpcInv, GuestInv, Sound, AppSend, Callable
<1>5. b \in Bodies /\ flag \in Flags /\ 0 \in Word /\ "MSG" \in DataTypes
  BY FkIpcAssumption, WireAssumption DEF Flags, DataTypes, Word
<1> DEFINE id == IF Mints(0, b) THEN NextCorr(g.corrCtr) ELSE 0
           fs == Fragments("MSG", flag, ch, g.epoch, g.txSeq[ch], id, b)
<1>6. /\ id \in Word
      /\ g'.txSeq = [g.txSeq EXCEPT ![ch] = Add(@, Size[b])]
      /\ g'.corrCtr = IF Mints(0, b) THEN id ELSE g.corrCtr
      /\ Queued(g') \subseteq Queued(g) \cup Datagrams(fs)
  BY <1>4, <1>5, MessageQueued
<1>7. Mints(0, b) => id = g.corrCtr + 1
  BY <1>4, MintedNext DEF IdsLast
<1>8. ASSUME NEW f \in Datagrams(fs)
      PROVE  f.type = "MSG" /\ f.nfrag = Size[b] /\ f.corr = id /\ f.body = b
  <2>1. /\ f.type = "MSG" /\ f.flag = flag /\ f.nfrag = Size[b]
        /\ Call(f.epoch, f) = [epoch |-> g.epoch, ch |-> ch, corr |-> id, body |-> b]
    BY <1>5, FragmentSays
  <2>2. Call(f.epoch, f).corr = f.corr /\ Call(f.epoch, f).body = f.body
    BY DEF Call
  <2> HIDE DEF id
  <2> QED BY <2>1, <2>2
<1>9. SameCourse(g, g') /\ g'.pend = g.pend /\ g'.rasm = g.rasm /\ g'.dedup = g.dedup
  BY <1>4, <1>5, SendMessageSound
<1> HIDE DEF fs
<1>10. \A f \in Outbound' : f \in Outbound \/ f \in Datagrams(fs)
  BY <1>4, <1>6 DEF Outbound
<1>11. AllCut(Outbound')
  BY <1>8, <1>10 DEF TornInv, AllCut, Cut
<1>12. \A f \in ToSdk' : f \in ToSdk \/ (g.corrCtr < g'.corrCtr /\ f.corr = g'.corrCtr /\ f.body = b)
  <2> SUFFICES ASSUME NEW f \in Datagrams(fs), f.nfrag > 1
               PROVE  g.corrCtr < g'.corrCtr /\ f.corr = g'.corrCtr /\ f.body = b
    BY <1>10 DEF ToSdk, Pieces
  <2>1. Mints(0, b)
    BY <1>8 DEF Mints
  <2> QED BY <1>4, <1>6, <1>7, <1>8, <2>1
<1>13. g.corrCtr <= g'.corrCtr
  BY <1>4, <1>6, <1>7
<1>14. GuestCuts
  <2>1. Short(g'.pend) /\ Short(Datagrams(g'.dedup))
    BY <1>9 DEF TornInv, ShortAnswers
  <2> QED BY <1>11, <1>12, <1>13, <2>1 DEF GuestCuts
<1>15. GuestReads
  BY <1>9, ShortGuestReads DEF ReadsNoMore, SameCourse
<1>16. Reported' /\ Datagrams(toGuest') \subseteq Datagrams(toGuest)
  BY <1>1 DEF TornInv, Reported, Datagrams
<1> QED BY <1>1, <1>14, <1>15, <1>16 DEF GuestTurns

\* A request is one frame, under a new id (Request).
LEMMA AsksTurns ==
  ASSUME IpcInv, TornInv, IdsLast, \A r \in Reqs : Size[r] = 1, GuestAsks
  PROVE  GuestTurns
<1>1. PICK ch \in Chans, b \in GuestReqs \ h.asked :
        \/ AppRequest(ch, b) /\ h' = [h EXCEPT !.asked = @ \cup {b}]
        \/ AppRequestRefused(ch, b) /\ h' = h
  BY DEF GuestAsks
<1>2. /\ c' = c /\ running' = running /\ toGuest' = toGuest /\ out' = out /\ g.up
      /\ Sound(g) /\ g \in LinkState /\ HistoryOK(h) /\ g.corrCtr \in Nat /\ g.corrCtr \in Word
      /\ Short(g.pend) /\ Short(Datagrams(g.dedup)) /\ Reported
  <2>1. /\ c' = c /\ running' = running /\ toGuest' = toGuest
        /\ Sound(g) /\ g \in LinkState /\ HistoryOK(h)
        /\ Short(g.pend) /\ Short(Datagrams(g.dedup)) /\ Reported
    BY DEF GuestAsks, IpcInv, GuestInv, Sound, BooksOK, TornInv, ShortAnswers
  <2>2. g.corrCtr \in Nat /\ g.corrCtr \in Word
    BY <2>1, Counters DEF LinkState
  <2> QED BY <1>1, <2>1, <2>2 DEF AppRequest, AppRequestRefused, Callable
<1>3. NextCorr(g.corrCtr) = g.corrCtr + 1 /\ g.corrCtr + 1 \in Word
  <2>1. NextCorr(g.corrCtr) = g.corrCtr + 1
    BY <1>2, MintedNext DEF IdsLast
  <2> QED BY <1>2, <2>1, MintedCorr
<1>4. b \in Bodies /\ Size[b] = 1
  BY FkIpcAssumption DEF Reqs
<1>5. Reported' /\ Datagrams(toGuest') \subseteq Datagrams(toGuest)
  <2>1. h'.heard = h.heard
    BY <1>1, <1>2 DEF HistoryOK
  <2> QED BY <1>2, <2>1 DEF Reported, Datagrams
<1>6. CASE AppRequest(ch, b)
  <2> DEFINE corr == g.corrCtr + 1
             p == [ch |-> ch, corr |-> corr, body |-> b, tries |-> 0,
                   interval |-> RetryTicks, due |-> Add(g.tick, RetryTicks)]
             k == [g EXCEPT !.corrCtr = corr, !.pend = @ \cup {p}]
  <2>1. g' = SendMessage(k, "REQ", "none", ch, corr, b)
    BY <1>3, <1>6 DEF AppRequest
  <2>2. RetryTicks \in Word
    BY GuestAssumption, HalfModulus DEF Word
  <2>3. Add(g.tick, RetryTicks) \in Word
    BY <1>2, <2>2, AddSubWord DEF LinkState, Word
  <2>4. p \in Pending /\ p.body = b
    BY <1>3, <1>4, <2>2, <2>3 DEF Pending
  <2> HIDE DEF p
  <2>5. /\ k \in LinkState /\ SameCourse(g, k) /\ k.q = g.q /\ k.dedup = g.dedup
        /\ k.up = g.up /\ k.epoch = g.epoch /\ k.rasm = g.rasm /\ k.corrCtr = corr
        /\ k.pend = g.pend \cup {p}
    BY <1>2, <1>3, <2>4 DEF LinkState, SameCourse
  <2> HIDE DEF k
  <2>6. Sound(k) /\ k.up
    BY <1>2, <2>5, SoundKept
  <2>7. "REQ" \in DataTypes /\ "none" \in Flags /\ corr \in Word
    BY <1>3 DEF DataTypes, Flags
  <2> HIDE DEF corr
  <2>8. LinkShort(k, g')
    BY <1>4, <2>1, <2>6, <2>7, SendShort
  <2>9. /\ SameCourse(k, g') /\ g'.pend = k.pend /\ g'.rasm = k.rasm /\ g'.dedup = k.dedup
    BY <1>4, <2>1, <2>6, <2>7, SendMessageSound
  <2>10. \A f \in Outbound' : f \in Outbound \/ f.type \notin DataTypes \/ Single(f)
    BY <1>2, <2>5, <2>8 DEF LinkShort, Outbound, Queued
  <2>11. g.corrCtr <= g'.corrCtr
    BY <1>2, <2>5, <2>8 DEF LinkShort, corr
  <2>12. Short(g'.pend) /\ Short(Datagrams(g'.dedup))
    BY <1>2, <1>4, <2>4, <2>5, <2>9 DEF Short
  <2>13. GuestCuts
    BY <2>10, <2>11, <2>12, ShortGuestCuts
  <2>14. GuestReads
    BY <2>5, <2>9, ShortGuestReads DEF ReadsNoMore, SameCourse
  <2> QED BY <1>2, <1>5, <2>13, <2>14 DEF GuestTurns
<1>7. CASE AppRequestRefused(ch, b)
  <2>1. g' = [g EXCEPT !.corrCtr = g.corrCtr + 1]
    BY <1>3, <1>7 DEF AppRequestRefused
  <2>2. /\ g'.epoch = g.epoch /\ g'.corrCtr = g.corrCtr + 1 /\ g'.q = g.q /\ g'.rasm = g.rasm
        /\ g'.pend = g.pend /\ g'.dedup = g.dedup
    BY <1>2, <2>1 DEF LinkState
  <2>3. GuestCuts
    <3>1. \A f \in Outbound' : f \in Outbound
      BY <1>2, <2>2 DEF Outbound, Queued
    <3>2. g.corrCtr <= g'.corrCtr
      BY <1>2, <2>2
    <3> QED BY <1>2, <2>2, <3>1, <3>2, ShortGuestCuts
  <2>4. GuestReads
    BY <2>2, ShortGuestReads DEF ReadsNoMore
  <2> QED BY <1>2, <1>5, <2>3, <2>4 DEF GuestTurns
<1> QED BY <1>1, <1>6, <1>7

\* What an application learns of its requests is no message (Settled).
LEMMA TellingsKept ==
  ASSUME HistoryOK(h), Reported, \E t : h' = [h EXCEPT !.told = t]
  PROVE  Reported'
BY DEF HistoryOK, Reported

\* The session stage of Pump (serviceSession).
LEMMA SessionTurns ==
  ASSUME IpcInv, TornInv, IdsLast, c' = c, running' = running, toGuest' = toGuest, Reported',
         SessionLost \/ SessionSearch \/ SessionBeat \/ SessionIdle
  PROVE  GuestTurns
<1>1. /\ GuestInv /\ Sound(g) /\ g \in LinkState /\ out \in Seq(Frame)
      /\ g.corrCtr \in Word /\ g.corrCtr \in Nat
      /\ Short(g.pend) /\ Short(Datagrams(g.dedup))
  <2>1. /\ GuestInv /\ Sound(g) /\ g \in LinkState /\ out \in Seq(Frame)
        /\ Short(g.pend) /\ Short(Datagrams(g.dedup))
    BY DEF IpcInv, GuestInv, Sound, TornInv, ShortAnswers
  <2> QED BY <2>1, Counters DEF LinkState
<1>2. Datagrams(toGuest') \subseteq Datagrams(toGuest)
  BY DEF Datagrams
<1>3. CASE SessionLost
  <2>1. g' = ResetSession(g) /\ out' = out
    BY <1>3 DEF SessionLost
  <2>2. GuestShort
    BY <1>1, <2>1, ResetShort
  <2> QED BY <1>2, <2>2, ShortTurns
<1>4. CASE SessionSearch
  <2> DEFINE corr == g.corrCtr + 1
             hello == [type |-> "HELLO", epoch |-> g.boot, corr |-> corr,
                       tick |-> g.tick, name |-> GuestName]
  <2>1. NextCorr(g.corrCtr) = corr /\ corr \in Word
    <3>1. NextCorr(g.corrCtr) = corr
      BY <1>1, MintedNext DEF IdsLast
    <3> QED BY <1>1, <3>1, MintedCorr
  <2>2. /\ out' = Put(out, hello, SockBuf) /\ ~g.up
        /\ g' = [g EXCEPT !.corrCtr = corr, !.helloCorr = corr, !.helloDue = FALSE,
                          !.lastHello = g.tick]
    BY <1>4, <2>1 DEF SessionSearch
  <2>3. hello \in Frame /\ hello.type \notin DataTypes
    <3>1. g.boot \in Epochs
      BY <1>1, WireAssumption DEF LinkState, Word
    <3> QED BY <1>1, <2>1, <3>1, GuestAssumption DEF Frame, HelloFrame, LinkState, DataTypes
  <2> HIDE DEF hello
  <2>4. Datagrams(out') \subseteq Datagrams(out) \cup {hello}
    BY <1>1, <2>2, <2>3, PutSound
  <2>5. /\ g'.corrCtr = corr /\ g'.pend = g.pend /\ g'.dedup = g.dedup /\ g'.q = g.q
        /\ g'.rasm = g.rasm
    BY <1>1, <2>2 DEF LinkState
  <2>6. g.corrCtr <= g'.corrCtr
    BY <1>1, <2>5
  <2>7. \A f \in Outbound' : f \in Outbound \/ f.type \notin DataTypes
    BY <2>3, <2>4, <2>5 DEF Outbound, Queued
  <2>8. GuestCuts
    BY <1>1, <2>5, <2>6, <2>7, ShortGuestCuts
  <2>9. GuestReads
    BY <1>1, <2>2, <2>5 DEF Sound, Blank, GuestReads
  <2> QED BY <1>2, <2>8, <2>9 DEF GuestTurns
<1>5. CASE SessionBeat
  <2>1. /\ g'.epoch = g.epoch /\ g'.corrCtr = g.corrCtr /\ g'.rasm = g.rasm
        /\ g'.pend = g.pend /\ g'.dedup = g.dedup /\ out' = out
        /\ \A f \in Queued(g') : f \in Queued(g) \/ f.type \notin DataTypes
    BY <1>1, <1>5, BeatQueued
  <2>2. GuestShort
    BY <1>1, <2>1, ShortGuestReads DEF GuestShort, LinkShort, ReadsNoMore
  <2> QED BY <1>2, <2>2, ShortTurns
<1>6. CASE SessionIdle
  <2>1. g' = g /\ out' = out
    BY <1>6 DEF SessionIdle
  <2>2. GuestShort
    BY <1>1, <2>1, LinkShortEdit, ShortGuestReads DEF GuestShort, ReadsNoMore
  <2> QED BY <1>2, <2>2, ShortTurns
<1> QED BY <1>3, <1>4, <1>5, <1>6

\* The service of the requests (serviceRetries).
LEMMA RetryTurns ==
  ASSUME IpcInv, TornInv, c' = c, running' = running, toGuest' = toGuest, Reported',
         \/ \E p \in g.pend : RetryTimeout(p) \/ RetryResend(p)
         \/ RetriesDone
  PROVE  GuestTurns
<1>1. /\ Sound(g) /\ g \in LinkState /\ out' = out
      /\ Short(g.pend) /\ Short(Datagrams(g.dedup))
      /\ Datagrams(toGuest') \subseteq Datagrams(toGuest)
  <2>1. Sound(g) /\ g \in LinkState /\ Short(g.pend) /\ Short(Datagrams(g.dedup))
    BY DEF IpcInv, GuestInv, Sound, TornInv, ShortAnswers
  <2>2. out' = out
    BY DEF RetryTimeout, RetryResend, RetriesDone
  <2> QED BY <2>1, <2>2 DEF Datagrams
<1>2. ASSUME g'.epoch = g.epoch, g'.corrCtr = g.corrCtr, g'.q = g.q, g'.rasm = g.rasm,
             g'.pend \subseteq g.pend, g'.dedup = g.dedup
      PROVE  GuestTurns
  <2>1. LinkShort(g, g')
    BY <1>2, LinkShortEdit
  <2>2. GuestReads
    BY <1>2, ShortGuestReads DEF ReadsNoMore
  <2>3. GuestShort
    BY <1>1, <1>2, <2>1, <2>2 DEF GuestShort, Short
  <2> QED BY <1>1, <2>3, ShortTurns
<1>3. ASSUME NEW p \in g.pend, RetryTimeout(p) PROVE GuestTurns
  <2>1. g' = [g EXCEPT !.pend = @ \ {p}]
    BY <1>3 DEF RetryTimeout
  <2> QED BY <1>1, <1>2, <2>1 DEF LinkState
<1>4. ASSUME NEW p \in g.pend, RetryResend(p) PROVE GuestTurns
  <2> DEFINE q == [p EXCEPT !.tries = @ + 1, !.interval = Backoff(@),
                     !.due = Add(g.tick, Backoff(p.interval))]
             k == [g EXCEPT !.pend = (@ \ {p}) \cup {q}]
  <2>1. g' = SendMessage(k, "REQ", "none", p.ch, p.corr, p.body)
    BY <1>4 DEF RetryResend
  <2>2. /\ p \in Pending /\ p.ch \in Chans /\ p.corr \in Word /\ p.body \in Bodies
        /\ p.tries \in Nat /\ p.interval \in Nat /\ g.tick \in Word /\ Size[p.body] = 1
    BY <1>1, <1>4 DEF Pending, LinkState, Word, Short
  <2>3. Backoff(p.interval) \in Word
    BY <2>2, BackoffRange
  <2>4. Add(g.tick, Backoff(p.interval)) \in Word
    <3>1. g.tick \in Int /\ Backoff(p.interval) \in Int
      BY <2>2, <2>3 DEF Word
    <3> QED BY <3>1, AddSubWord
  <2>5. q \in Pending /\ q.body = p.body
    <3>1. p.tries + 1 \in Nat
      BY <2>2
    <3> QED BY <2>2, <2>3, <2>4, <3>1 DEF Pending
  <2> HIDE DEF q
  <2>6. g.up
    BY <1>1, <1>4, BusyIsUp
  <2>7. /\ k \in LinkState /\ SameCourse(g, k) /\ k.q = g.q /\ k.dedup = g.dedup
        /\ k.up = g.up /\ k.epoch = g.epoch /\ k.rasm = g.rasm /\ k.corrCtr = g.corrCtr
        /\ k.pend = (g.pend \ {p}) \cup {q}
    BY <1>1, <2>5 DEF LinkState, SameCourse
  <2> HIDE DEF k
  <2>8. Sound(k) /\ k.up
    BY <1>1, <2>6, <2>7, SoundKept
  <2>9. "REQ" \in DataTypes /\ "none" \in Flags
    BY DEF DataTypes, Flags
  <2>10. LinkShort(k, g')
    BY <2>1, <2>2, <2>8, <2>9, SendShort
  <2>11. SameCourse(k, g') /\ g'.pend = k.pend /\ g'.rasm = k.rasm /\ g'.dedup = k.dedup
    BY <2>1, <2>2, <2>8, <2>9, SendMessageSound
  <2>12. LinkShort(g, g')
    BY <2>7, <2>10, LinkShortEdit, LinkShortTwice
  <2>13. GuestReads
    BY <2>7, <2>11, ShortGuestReads DEF ReadsNoMore, SameCourse
  <2>14. Short(g'.pend) /\ Short(Datagrams(g'.dedup))
    BY <1>1, <2>2, <2>5, <2>7, <2>11 DEF Short
  <2>15. GuestShort
    BY <1>1, <2>12, <2>13, <2>14 DEF GuestShort
  <2> QED BY <1>1, <2>15, ShortTurns
<1>5. CASE RetriesDone
  <2>1. g' = g
    BY <1>5 DEF RetriesDone
  <2> QED BY <1>2, <2>1
<1> QED BY <1>3, <1>4, <1>5

\* The stages of a Pump (Pump, serviceSession, serviceRetries, flush).
LEMMA PumpTurns ==
  ASSUME IpcInv, TornInv, IdsLast, PumpStarts \/ PumpRuns
  PROVE  GuestTurns
<1>1. /\ GuestInv /\ Sound(g) /\ g \in LinkState /\ HistoryOK(h) /\ Reported
      /\ Short(g.pend) /\ Short(Datagrams(g.dedup))
  BY DEF IpcInv, GuestInv, Sound, BooksOK, TornInv, ShortAnswers
<1>2. c' = c /\ running' = running /\ toGuest' = toGuest
  BY DEF PumpStarts, PumpRuns
<1>3. Datagrams(toGuest') \subseteq Datagrams(toGuest)
  BY <1>2 DEF Datagrams
<1>4. Reported'
  <2>1. CASE PumpStarts
    BY <1>1, <2>1 DEF PumpStarts, Reported
  <2>2. CASE PumpRuns
    <3>1. h' = Settled(h, g.pend, g'.pend,
                       LAMBDA r : IF pump.at = "session" THEN "lost" ELSE "timeout")
      BY <2>2 DEF PumpRuns
    <3>2. \E t : h' = [h EXCEPT !.told = t]
      BY <3>1 DEF Settled
    <3> QED BY <1>1, <3>2, TellingsKept
  <2> QED BY <2>1, <2>2
\* An edit of the link that queues nothing.
<1>5. ASSUME g'.epoch = g.epoch, g'.corrCtr = g.corrCtr, g'.q = g.q, g'.pend = g.pend,
             ReadsNoMore(g.rasm, g'.rasm), Datagrams(g'.dedup) \subseteq Datagrams(g.dedup),
             out' = out
      PROVE  GuestTurns
  <2>1. LinkShort(g, g')
    BY <1>5, LinkShortEdit
  <2>2. GuestReads
    BY <1>5, ShortGuestReads
  <2>3. GuestShort
    BY <1>1, <1>5, <2>1, <2>2 DEF GuestShort, Short
  <2> QED BY <1>2, <1>3, <1>4, <2>3, ShortTurns
<1>6. CASE PumpStarts
  <2>1. out' = out /\ \E tick, open : g' = [g EXCEPT !.tick = tick, !.enabled = open]
    BY <1>6 DEF PumpStarts, PumpBegin
  <2>2. /\ g'.epoch = g.epoch /\ g'.corrCtr = g.corrCtr /\ g'.q = g.q /\ g'.rasm = g.rasm
        /\ g'.pend = g.pend /\ g'.dedup = g.dedup
    BY <1>1, <2>1 DEF LinkState
  <2> QED BY <1>5, <2>1, <2>2 DEF ReadsNoMore
<1>7. CASE PumpReceived
  <2> DEFINE k == ExpireReassembly(g)
             t == ExpireDedup(k)
  <2>1. g' = t /\ out' = out
    BY <1>7 DEF PumpReceived
  <2>2. Sound(k) /\ SameCourse(g, k) /\ k.pend = g.pend /\ k \in LinkState
    <3>1. Sound(k) /\ SameCourse(g, k) /\ k.pend = g.pend
      BY <1>1, ExpireReassemblySound
    <3> QED BY <3>1 DEF Sound
  <2>3. k.q = g.q
    BY <1>1, ExpireSame
  <2>4. k.corrCtr = g.corrCtr /\ k.dedup = g.dedup /\ ReadsNoMore(g.rasm, k.rasm)
    BY <1>1 DEF ExpireReassembly, LinkState, ReadsNoMore, Closed
  <2> HIDE DEF k
  <2>5. SameCourse(k, t) /\ t.pend = k.pend
    BY <2>2, ExpireDedupSound
  <2>6. t.q = k.q
    BY <2>2, ExpireSame
  <2>7. Datagrams(t.dedup) \subseteq Datagrams(k.dedup)
    BY <2>2, ExpireCalls
  <2>8. t.corrCtr = k.corrCtr /\ t.rasm = k.rasm
    BY <2>2 DEF ExpireDedup, LinkState
  <2> HIDE DEF t
  <2> QED BY <1>5, <2>1, <2>2, <2>3, <2>4, <2>5, <2>6, <2>7, <2>8 DEF SameCourse
<1>8. CASE SessionLost \/ SessionSearch \/ SessionBeat \/ SessionIdle
  BY <1>2, <1>4, <1>8, SessionTurns
<1>9. CASE (\E p \in g.pend : RetryTimeout(p) \/ RetryResend(p)) \/ RetriesDone
  BY <1>2, <1>4, <1>9, RetryTurns
<1>10. CASE FlushFrame
  <2>1. /\ g'.epoch = g.epoch /\ g'.corrCtr = g.corrCtr /\ g'.rasm = g.rasm
        /\ g'.pend = g.pend /\ g'.dedup = g.dedup /\ Queued(g') \subseteq Queued(g)
        /\ Datagrams(out') \subseteq Datagrams(out) \cup Queued(g)
    BY <1>1, <1>10, FlushMoves
  <2>2. Queued(g)' = Queued(g') /\ Datagrams(out)' = Datagrams(out')
    BY DEF Queued, Datagrams
  <2>3. Outbound' \subseteq Outbound
    BY <2>1, <2>2 DEF Outbound
  <2>4. g.corrCtr <= g'.corrCtr
    BY <2>1, Counters
  <2>5. GuestCuts
    BY <1>1, <2>1, <2>3, <2>4, ShortGuestCuts
  <2>6. GuestReads
    BY <2>1, ShortGuestReads DEF ReadsNoMore
  <2> QED BY <1>2, <1>3, <1>4, <2>5, <2>6 DEF GuestTurns
<1>11. CASE FlushDone
  <2>1. g' = g /\ out' = out
    BY <1>11 DEF FlushDone
  <2> QED BY <1>5, <2>1 DEF ReadsNoMore
<1> QED BY <1>6, <1>7, <1>8, <1>9, <1>10, <1>11 DEF PumpRuns, PumpStage

-----------------------------------------------------------------------------
(* The companion's side of it. *)

\* From k to r a section stays in its session and sends nothing in pieces.
TurnShort(k, r) ==
  /\ r.s.up = k.s.up /\ r.s.epoch = k.s.epoch /\ r.s.corrCtr = k.s.corrCtr
  /\ \A f \in Datagrams(r.sent) : f \in Datagrams(k.sent) \/ f.type \notin DataTypes \/ Single(f)

\* Two parts of a locked section that send nothing long send nothing long together.
LEMMA TurnShortTwice ==
  ASSUME NEW k, NEW r, NEW q, TurnShort(k, r), TurnShort(r, q)
  PROVE  TurnShort(k, q)
BY DEF TurnShort

\* A short message is sent as one frame (sendMessage).
LEMMA TurnSendShort ==
  ASSUME NEW k \in Turn, NEW type \in DataTypes, type # "MSG", NEW flag \in Flags,
         NEW ch \in Chans, NEW corr \in Word, NEW b \in Bodies, Size[b] = 1
  PROVE  LET r == SdkSend(k, type, flag, ch, corr, b)
         IN  /\ r \in Turn /\ TurnShort(k, r)
             /\ r.s.pend = k.s.pend /\ r.s.dedup = k.s.dedup /\ r.s.rasm = k.s.rasm
<1> DEFINE r == SdkSend(k, type, flag, ch, corr, b)
           mints == corr = 0 /\ Size[b] > 1
           id == IF mints THEN NextCorr(k.s.corrCtr) ELSE corr
           fs == Fragments(type, flag, ch, k.s.epoch, k.s.txSeq[ch], id, b)
<1>1. /\ GoesOn(k, r, Size[b])
      /\ r.s.pend = k.s.pend /\ r.s.dedup = k.s.dedup /\ r.s.rasm = k.s.rasm
      /\ r.s.corrCtr = IF mints THEN id ELSE k.s.corrCtr
      /\ Datagrams(r.sent) \subseteq Datagrams(k.sent) \cup Datagrams(fs)
  <2>1. /\ GoesOn(k, r, Size[b])
        /\ r.s.rxLast = k.s.rxLast /\ r.s.pend = k.s.pend /\ r.s.dedup = k.s.dedup
        /\ r.s.rasm = k.s.rasm
        /\ id \in Word /\ r.s.corrCtr = IF mints THEN id ELSE k.s.corrCtr
        /\ Datagrams(r.sent) \subseteq Datagrams(k.sent) \cup Datagrams(fs)
    BY SdkSendSound
  <2> QED BY <2>1
<1>2. ~mints
  OBVIOUS
<1>3. ASSUME NEW f \in Datagrams(fs) PROVE Single(f)
  <2>1. /\ f.nfrag = Size[b] /\ f.type = type
        /\ Call(f.epoch, f) = [epoch |-> k.s.epoch, ch |-> ch, corr |-> id, body |-> b]
    BY FragmentSays
  <2>2. f.body = b
    BY <2>1 DEF Call
  <2> QED BY <2>1, <2>2 DEF Single
<1> HIDE DEF r, fs, id, mints
<1>4. TurnShort(k, r) /\ r \in Turn
  BY <1>1, <1>2, <1>3 DEF TurnShort, GoesOn
<1> QED BY <1>1, <1>4 DEF r

\* Hearing a frame sends at most a RESYNC (channelFrame).
LEMMA SdkAcceptShort ==
  ASSUME CompanionTypeOK, NEW f \in DataFrame
  PROVE  LET r == SdkAccept(f)
         IN  /\ r \in Turn /\ TurnShort(Step(c), r)
             /\ r.s.pend = c.pend /\ r.s.dedup = c.dedup /\ r.s.rasm = c.rasm
<1> DEFINE k == Step(Hear(c))
           t == [k.s EXCEPT !.resyncSent = [k.s.resyncSent EXCEPT ![f.ch] = TRUE]]
           j == [k EXCEPT !.s = t]
           a == IF SdkGap(f) /\ ~c.resyncSent[f.ch]
                THEN SdkSend(j, "RESYNC", "none", f.ch, 0, NoBody) ELSE k
           u == [a.s EXCEPT !.rxLast = [a.s.rxLast EXCEPT ![f.ch] = f.seq]]
           r == [a EXCEPT !.s = u]
           Same(s) == /\ s.pend = c.pend /\ s.dedup = c.dedup /\ s.rasm = c.rasm
           Course(s) == s.corrCtr = c.corrCtr /\ s.up = c.up /\ s.epoch = c.epoch
<1>1. f.ch \in Chans /\ f.seq \in Word /\ c \in SessionState
  BY DEF DataFrame, CompanionTypeOK
<1>2. Step(c) \in Turn /\ Step(c).s = c /\ Step(c).sent = toGuest
  BY <1>1, StepTurn
<1>3. Hear(c) \in SessionState /\ Same(Hear(c)) /\ Course(Hear(c))
  BY <1>1 DEF Hear, SessionState
<1>4. k \in Turn /\ k.s = Hear(c) /\ k.sent = toGuest
  BY <1>3, StepTurn
<1>5. SdkAccept(f) = r
  <2>1. [k EXCEPT !.s.resyncSent[f.ch] = TRUE] = j
    OBVIOUS
  <2>2. SdkAccept(f) = [a EXCEPT !.s.rxLast[f.ch] = f.seq]
    BY <2>1 DEF SdkAccept
  <2> QED BY <2>2
<1> HIDE DEF k
<1>6. Same(k.s) /\ Course(k.s)
  BY <1>3, <1>4
<1>7. t \in SessionState /\ Same(t) /\ Course(t)
  <2>1. k.s \in SessionState /\ [k.s.resyncSent EXCEPT ![f.ch] = TRUE] \in [Chans -> BOOLEAN]
    BY <1>4 DEF Turn, SessionState
  <2> QED BY <1>6, <2>1 DEF SessionState
<1> HIDE DEF t
<1>8. j \in Turn /\ j.s = t /\ j.sent = toGuest
  BY <1>4, <1>7 DEF Turn
<1> HIDE DEF j
<1>9. TurnShort(Step(c), k) /\ TurnShort(Step(c), j)
  BY <1>2, <1>4, <1>6, <1>7, <1>8 DEF TurnShort
<1>10. a \in Turn /\ TurnShort(Step(c), a) /\ Same(a.s)
  <2>1. CASE SdkGap(f) /\ ~c.resyncSent[f.ch]
    <3>1. a = SdkSend(j, "RESYNC", "none", f.ch, 0, NoBody)
      BY <2>1
    <3>2. /\ "RESYNC" \in DataTypes /\ "none" \in Flags
          /\ 0 \in Word /\ NoBody \in Bodies /\ Size[NoBody] = 1
      BY WireAssumption DEF DataTypes, Flags, Word
    <3> HIDE DEF a
    <3>3. LET q == SdkSend(j, "RESYNC", "none", f.ch, 0, NoBody)
          IN  /\ q \in Turn /\ TurnShort(j, q)
              /\ q.s.pend = j.s.pend /\ q.s.dedup = j.s.dedup /\ q.s.rasm = j.s.rasm
      BY <1>1, <1>8, <3>2, TurnSendShort
    <3>4. a \in Turn /\ TurnShort(j, a) /\ Same(a.s)
      BY <1>7, <1>8, <3>1, <3>3
    <3> QED BY <1>9, <3>4, TurnShortTwice
  <2>2. CASE ~(SdkGap(f) /\ ~c.resyncSent[f.ch])
    <3>1. a = k
      BY <2>2
    <3> HIDE DEF a
    <3> QED BY <1>4, <1>6, <1>9, <3>1
  <2> QED BY <2>1, <2>2
<1> HIDE DEF a
<1>11. u \in SessionState /\ Same(u) /\ u.up = a.s.up /\ u.epoch = a.s.epoch
       /\ u.corrCtr = a.s.corrCtr
  <2>1. a.s \in SessionState /\ [a.s.rxLast EXCEPT ![f.ch] = f.seq] \in [Chans -> Word]
    BY <1>1, <1>10 DEF Turn, SessionState
  <2> QED BY <1>10, <2>1 DEF SessionState
<1> HIDE DEF u
<1>12. r \in Turn /\ r.s = u /\ r.sent = a.sent
  BY <1>10, <1>11 DEF Turn
<1> HIDE DEF r
<1>13. TurnShort(a, r)
  BY <1>11, <1>12 DEF TurnShort
<1>14. TurnShort(Step(c), r)
  BY <1>10, <1>13, TurnShortTwice
<1> QED BY <1>5, <1>11, <1>12, <1>14

\* Taking a message in sends no more, and ends its reading.
LEMMA SdkArrivedShort ==
  ASSUME CompanionTypeOK, NEW f \in DataFrame
  PROVE  LET r == SdkArrived(f)
         IN  /\ r \in Turn /\ TurnShort(Step(c), r)
             /\ r.s.pend = c.pend /\ r.s.dedup = c.dedup /\ ReadsNoMore(c.rasm, r.s.rasm)
<1> DEFINE a == SdkAccept(f)
           u == [a.s EXCEPT !.rasm = [a.s.rasm EXCEPT ![f.ch] = Closed]]
           r == [a EXCEPT !.s = u]
<1>1. /\ a \in Turn /\ TurnShort(Step(c), a)
      /\ a.s.pend = c.pend /\ a.s.dedup = c.dedup /\ a.s.rasm = c.rasm
  BY SdkAcceptShort
<1>2. SdkArrived(f) = IF f.nfrag = 1 THEN a ELSE r
  BY DEF SdkArrived
<1> HIDE DEF a
<1>3. Closed \in Reassembly /\ f.ch \in Chans /\ ~Closed.open
  BY WireAssumption DEF Closed, Reassembly, DataTypes, Flags, Word, DataFrame
<1>4. /\ u \in SessionState /\ u.up = a.s.up /\ u.epoch = a.s.epoch /\ u.pend = a.s.pend
      /\ u.dedup = a.s.dedup /\ u.corrCtr = a.s.corrCtr
      /\ u.rasm = [a.s.rasm EXCEPT ![f.ch] = Closed] /\ a.s.rasm \in [Chans -> Reassembly]
  <2>1. a.s \in SessionState /\ [a.s.rasm EXCEPT ![f.ch] = Closed] \in [Chans -> Reassembly]
    BY <1>1, <1>3 DEF Turn, SessionState
  <2> QED BY <2>1 DEF SessionState
<1> HIDE DEF u
<1>5. r \in Turn /\ r.s = u /\ r.sent = a.sent
  BY <1>1, <1>4 DEF Turn
<1> HIDE DEF r
<1>6. TurnShort(a, r)
  BY <1>4, <1>5 DEF TurnShort
<1>7. TurnShort(Step(c), r)
  BY <1>1, <1>6, TurnShortTwice
<1>8. ReadsNoMore(c.rasm, r.s.rasm) /\ ReadsNoMore(c.rasm, a.s.rasm)
  BY <1>1, <1>3, <1>4, <1>5 DEF ReadsNoMore
<1> QED BY <1>1, <1>2, <1>4, <1>5, <1>7, <1>8

\* What a section that sends nothing in pieces leaves behind.
SdkShort ==
  /\ \A f \in Datagrams(toGuest') : f \in Datagrams(toGuest) \/ f.type \notin DataTypes \/ Single(f)
  /\ Short(c'.pend) /\ Short(c'.dedup) /\ Short(running') /\ SdkSession /\ SdkReads

\* A locked section that sends nothing long sends no piece.
LEMMA ShortSdkTurns ==
  ASSUME TornInv, SdkShort, g' = g, Datagrams(out') \subseteq Datagrams(out), Reported'
  PROVE  SdkTurns
<1>1. AllCut(Datagrams(toGuest'))
  BY DEF TornInv, SdkShort, AllCut, Cut, Single
<1>2. \A f \in ToLink' : f \in ToLink
  BY DEF SdkShort, ToLink, Pieces, Single
<1>3. \A f \in Datagrams(toGuest') : f \in Datagrams(toGuest) \/ f.type # "MSG"
  BY DEF SdkShort, Single, DataTypes
<1>4. SdkCuts
  BY <1>1, <1>2, <1>3 DEF SdkCuts, SdkShort
<1> QED BY <1>4 DEF SdkTurns, SdkShort

\* A section that leaves reassembly alone, or forgets what is read, reads no piece.
LEMMA NoMoreSdkReads ==
  ASSUME ReadsNoMore(c.rasm, c'.rasm)
  PROVE  SdkReads
BY DEF ReadsNoMore, SdkReads, GoesOnReading

\* A section that stays in its session.
LEMMA TurnShortStep ==
  ASSUME IpcInv, NEW r, TurnShort(Step(c), r), Do(r), ReadsNoMore(c.rasm, r.s.rasm) \/ SdkReads,
         Short(r.s.pend), Short(r.s.dedup), Short(running')
  PROVE  SdkShort
<1>1. Step(c).s = c /\ Step(c).sent = toGuest /\ c' = r.s /\ toGuest' = r.sent
  BY DEF Step, Do
<1>2. c.corrCtr <= c'.corrCtr
  BY <1>1, Counters DEF TurnShort
<1>3. SdkSession
  BY <1>1, <1>2 DEF SdkSession, TurnShort
<1>4. SdkReads
  BY <1>1, NoMoreSdkReads
<1>5. \A f \in Datagrams(toGuest') :
        f \in Datagrams(toGuest) \/ f.type \notin DataTypes \/ Single(f)
  BY <1>1 DEF TurnShort, Datagrams
<1> QED BY <1>1, <1>3, <1>4, <1>5 DEF SdkShort

\* A request, an answer or a RESYNC the companion was sent is one frame.
LEMMA SdkHearsShort ==
  ASSUME TornInv, NEW f \in DataFrame, f \in Datagrams(out), SdkMessage(f).type # "MSG"
  PROVE  f.nfrag = 1 /\ BodyOf(SdkMessage(f).parts) = f.body /\ Size[f.body] = 1
<1> DEFINE m == SdkMessage(f)
           r == c.rasm[f.ch]
<1>1. f.type \in DataTypes /\ f.ch \in Chans
  BY DEF DataFrame
<1>2. Cut(f)
  BY <1>1 DEF TornInv, AllCut, Outbound
<1>3. Plain({f})
  BY <1>2 DEF Cut, Plain
<1>4. r.open => r.type = "MSG"
  BY <1>1 DEF TornInv, LinkPieces, ReadOf
<1>5. m = (IF f.nfrag = 1
           THEN [type |-> f.type, flag |-> f.flag, corr |-> f.corr, parts |-> {<<0, f.body>>}]
           ELSE [type |-> Gather(r, f).type, flag |-> Gather(r, f).flag,
                 corr |-> Gather(r, f).corr, parts |-> Gather(r, f).parts])
  BY DEF SdkMessage
<1> HIDE DEF m, r
<1>6. m.type # "MSG"
  BY DEF m
<1>7. /\ f.nfrag = 1 /\ f.type = m.type /\ f.flag = m.flag /\ f.corr = m.corr
      /\ m.parts = {<<0, f.body>>} /\ BodyOf(m.parts) = f.body
  BY <1>1, <1>3, <1>4, <1>5, <1>6, OneFrameMessage, SMTT(90)
<1>8. Size[f.body] = 1
  BY <1>2, <1>7 DEF Cut
<1> QED BY <1>7, <1>8 DEF m

\* A frame the companion reads adds at most itself to what is half-read, and is
\* answered with no more than a frame (channelFrame, onReq, onResp).
LEMMA SdkFrameShort ==
  ASSUME IpcInv, TornInv, NEW f \in Frame, f \in Datagrams(out),
         \/ SdkOnStale(f) \/ SdkOnFragment(f) \/ SdkOnMsg(f) \/ SdkOnResync(f)
         \/ SdkOnReqAgain(f) \/ SdkOnReqUnserved(f) \/ SdkOnReqNew(f) \/ SdkOnResp(f)
  PROVE  SdkShort
<1>1. /\ c \in SessionState /\ c.epoch \in Epochs /\ CompanionTypeOK
      /\ Short(c.pend) /\ Short(c.dedup) /\ Short(running)
  BY DEF IpcInv, CompanionSound, CompanionTypeOK, SessionState, TornInv, ShortAnswers
<1>2. f \in DataFrame
  BY SdkDataFrames DEF SdkOnStale, SdkOnFragment, SdkOnMsg, SdkOnResync, SdkOnReqAgain,
     SdkOnReqUnserved, SdkOnReqNew, SdkOnResp, SdkDispatches, SdkDataArrives
<1>3. f.ch \in Chans
  BY <1>2 DEF DataFrame
<1>4. Step(c) \in Turn /\ Step(c).s = c /\ Step(c).sent = toGuest
  BY <1>1, StepTurn
<1> DEFINE a == SdkArrived(f)
           m == SdkMessage(f)
<1>5. /\ a \in Turn /\ TurnShort(Step(c), a)
      /\ a.s.pend = c.pend /\ a.s.dedup = c.dedup /\ ReadsNoMore(c.rasm, a.s.rasm)
  BY <1>1, <1>2, SdkArrivedShort
<1>6. ASSUME SdkCompletes(f)
      PROVE  m.type \in DataTypes /\ m.corr \in Word /\ BodyOf(m.parts) \in Bodies
  BY <1>1, <1>2, <1>6, SdkMessageType
<1>7. /\ {"none", "BUSY", "DUPLICATE", "NO_HANDLER"} \subseteq Flags /\ "RESP" \in DataTypes
      /\ NoBody \in Bodies /\ Size[NoBody] = 1
  BY WireAssumption DEF Flags, Errors, DataTypes
<1> HIDE DEF a, m
<1>8. a.s \in SessionState /\ a = [s |-> a.s, sent |-> a.sent]
  BY <1>5 DEF Turn
\* What has arrived, with an edit that sends nothing.
<1>9. ASSUME NEW t \in SessionState, t.up = a.s.up, t.epoch = a.s.epoch,
             t.corrCtr = a.s.corrCtr, t.rasm = a.s.rasm, t.pend \subseteq a.s.pend,
             Short(t.dedup), Short(running'), Do([a EXCEPT !.s = t])
      PROVE  SdkShort
  <2> DEFINE r == [a EXCEPT !.s = t]
  <2>1. r \in Turn /\ r.s = t /\ r.sent = a.sent
    BY <1>5, <1>9 DEF Turn
  <2>2. Do(r)
    BY <1>9
  <2> HIDE DEF r
  <2>3. TurnShort(a, r)
    BY <1>9, <2>1 DEF TurnShort
  <2>4. TurnShort(Step(c), r)
    BY <1>5, <2>3, TurnShortTwice
  <2>5. Short(r.s.pend) /\ Short(r.s.dedup) /\ ReadsNoMore(c.rasm, r.s.rasm)
    BY <1>1, <1>5, <1>9, <2>1 DEF Short
  <2> QED BY <1>9, <2>2, <2>4, <2>5, TurnShortStep
\* What has arrived, and an answer.
<1>10. ASSUME NEW flag \in Flags, NEW corr \in Word, NEW b \in Bodies, Size[b] = 1,
              Do(SdkSend(a, "RESP", flag, f.ch, corr, b)), running' = running
       PROVE  SdkShort
  <2> DEFINE r == SdkSend(a, "RESP", flag, f.ch, corr, b)
  <2>1. /\ r \in Turn /\ TurnShort(a, r)
        /\ r.s.pend = a.s.pend /\ r.s.dedup = a.s.dedup /\ r.s.rasm = a.s.rasm
    BY <1>3, <1>5, <1>7, <1>10, TurnSendShort
  <2>2. Do(r)
    BY <1>10
  <2> HIDE DEF r
  <2>3. TurnShort(Step(c), r)
    BY <1>5, <2>1, TurnShortTwice
  <2>4. Short(r.s.pend) /\ Short(r.s.dedup) /\ ReadsNoMore(c.rasm, r.s.rasm) /\ Short(running')
    BY <1>1, <1>5, <1>10, <2>1
  <2> QED BY <2>2, <2>3, <2>4, TurnShortStep
<1>11. CASE SdkOnStale(f)
  <2> DEFINE r == Step(Hear(c))
  <2>1. /\ Hear(c) \in SessionState /\ Hear(c).up = c.up /\ Hear(c).epoch = c.epoch
        /\ Hear(c).corrCtr = c.corrCtr /\ Hear(c).rasm = c.rasm /\ Hear(c).pend = c.pend
        /\ Hear(c).dedup = c.dedup
    BY <1>1 DEF Hear, SessionState
  <2>2. Do(r) /\ r.s = Hear(c) /\ r.sent = toGuest /\ running' = running
    BY <1>11 DEF SdkOnStale, Step
  <2> HIDE DEF r
  <2>3. TurnShort(Step(c), r)
    BY <1>4, <2>1, <2>2 DEF TurnShort
  <2>4. ReadsNoMore(c.rasm, r.s.rasm) /\ Short(r.s.pend) /\ Short(r.s.dedup) /\ Short(running')
    BY <1>1, <2>1, <2>2 DEF ReadsNoMore
  <2> QED BY <2>2, <2>3, <2>4, TurnShortStep
<1>12. CASE SdkOnFragment(f)
  <2> DEFINE k == SdkAccept(f)
             o == k.s.rasm[f.ch]
             n == IF Disagrees(o, f) THEN Closed ELSE Gather(o, f)
             t == [k.s EXCEPT !.rasm = [k.s.rasm EXCEPT ![f.ch] = n]]
             r == [k EXCEPT !.s = t]
  <2>1. /\ k \in Turn /\ TurnShort(Step(c), k)
        /\ k.s.pend = c.pend /\ k.s.dedup = c.dedup /\ k.s.rasm = c.rasm
    BY <1>1, <1>2, SdkAcceptShort
  <2>2. Do(r) /\ f.nfrag # 1 /\ running' = running
    BY <1>12 DEF SdkOnFragment, SdkCompletes
  <2> HIDE DEF k
  <2>3. o \in Reassembly /\ o = c.rasm[f.ch]
    BY <1>1, <1>3, <2>1 DEF SessionState
  <2>4. f \in ToSdk
    <3>1. f.nfrag > 1 /\ f.type \in DataTypes
      BY <1>2, <2>2, WireAssumption DEF DataFrame
    <3> QED BY <3>1 DEF ToSdk, Pieces, Outbound
  <2>5. n \in Reassembly
    <3>1. Closed \in Reassembly
      BY WireAssumption DEF Closed, Reassembly, DataTypes, Flags, Word
    <3>2. Gather(o, f) \in Reassembly
      BY <1>2, <2>3, GatherType
    <3> QED BY <3>1, <3>2
  <2>6. ~n.open \/ n = Gather(c.rasm[f.ch], f)
    <3>1. ~Closed.open
      BY DEF Closed
    <3> QED BY <2>3, <3>1
  <2> HIDE DEF n, o
  <2>7. /\ t \in SessionState /\ t.up = k.s.up /\ t.epoch = k.s.epoch /\ t.pend = c.pend
        /\ t.dedup = c.dedup /\ t.corrCtr = k.s.corrCtr
        /\ t.rasm = [c.rasm EXCEPT ![f.ch] = n]
    <3>1. k.s \in SessionState /\ [k.s.rasm EXCEPT ![f.ch] = n] \in [Chans -> Reassembly]
      BY <2>1, <2>5 DEF Turn, SessionState
    <3> QED BY <2>1, <3>1 DEF SessionState
  <2> HIDE DEF t
  <2>8. r \in Turn /\ r.s = t /\ r.sent = k.sent
    BY <2>1, <2>7 DEF Turn
  <2> HIDE DEF r
  <2>9. c'.rasm = [c.rasm EXCEPT ![f.ch] = n]
    BY <2>2, <2>7, <2>8 DEF Do
  <2>10. SdkReads
    <3> SUFFICES ASSUME NEW ch \in Chans PROVE GoesOnReading(c.rasm[ch], c'.rasm[ch], ToSdk)
      BY DEF SdkReads
    <3>1. c.rasm \in [Chans -> Reassembly]
      BY <1>1 DEF SessionState
    <3>2. CASE ch = f.ch
      BY <2>4, <2>6, <2>9, <3>1, <3>2 DEF GoesOnReading
    <3>3. CASE ch # f.ch
      BY <2>9, <3>1, <3>3 DEF GoesOnReading
    <3> QED BY <3>2, <3>3
  <2>11. TurnShort(k, r)
    BY <2>7, <2>8 DEF TurnShort
  <2>12. TurnShort(Step(c), r)
    BY <2>1, <2>11, TurnShortTwice
  <2>13. Short(r.s.pend) /\ Short(r.s.dedup) /\ Short(running')
    BY <1>1, <2>2, <2>7, <2>8
  <2> QED BY <2>2, <2>10, <2>12, <2>13, TurnShortStep
<1>13. CASE SdkOnMsg(f)
  <2> DEFINE n == [a.s.resyncSent EXCEPT ![f.ch] = @ /\ m.flag # "snapshot"]
             t == [a.s EXCEPT !.resyncSent = n]
  <2>1. Do([a EXCEPT !.s = t]) /\ running' = running
    BY <1>13 DEF SdkOnMsg, a, m
  <2>2. n \in [Chans -> BOOLEAN]
    BY <1>5 DEF Turn, SessionState
  <2> HIDE DEF n
  <2>3. /\ t \in SessionState /\ t.up = a.s.up /\ t.epoch = a.s.epoch
        /\ t.corrCtr = a.s.corrCtr /\ t.rasm = a.s.rasm /\ t.pend = a.s.pend
        /\ t.dedup = a.s.dedup
    BY <1>8, <2>2 DEF SessionState
  <2> HIDE DEF t
  <2>4. Short(t.dedup) /\ Short(running')
    BY <1>1, <1>5, <2>1, <2>3
  <2> QED BY <1>9, <2>1, <2>3, <2>4
<1>14. CASE SdkOnResync(f)
  <2>1. Do(a) /\ running' = running
    BY <1>14 DEF SdkOnResync, a
  <2>2. Short(a.s.pend) /\ Short(a.s.dedup) /\ Short(running')
    BY <1>1, <1>5, <2>1
  <2> QED BY <1>5, <2>1, <2>2, TurnShortStep
<1>15. CASE SdkOnReqAgain(f)
  <2>1. SdkCompletes(f) /\ running' = running
    BY <1>15 DEF SdkOnReqAgain, SdkDispatches
  <2>2. PICK d \in Known(f.ch, m.corr) :
          Do(CASE d.state = "inflight" -> SdkSend(a, "RESP", "BUSY", f.ch, m.corr, NoBody)
               [] d.state = "cached" -> SdkSend(a, "RESP", "none", f.ch, m.corr, d.body)
               [] d.state = "gone" -> SdkSend(a, "RESP", "DUPLICATE", f.ch, m.corr, NoBody))
    BY <1>15 DEF SdkOnReqAgain, a, m
  <2>3. d \in SdkDedup /\ d \in c.dedup
    BY <1>1, <2>2 DEF Known, SessionState
  <2>4. /\ d.state \in {"inflight", "cached", "gone"} /\ m.corr \in Word
        /\ d.body \in Bodies /\ Size[d.body] = 1
    BY <1>1, <1>6, <2>1, <2>3 DEF SdkDedup, Short
  <2>5. CASE d.state = "inflight"
    <3>1. Do(SdkSend(a, "RESP", "BUSY", f.ch, m.corr, NoBody))
      BY <2>2, <2>5
    <3> QED BY <1>7, <1>10, <2>1, <2>4, <3>1
  <2>6. CASE d.state = "cached"
    <3>1. Do(SdkSend(a, "RESP", "none", f.ch, m.corr, d.body))
      BY <2>2, <2>6
    <3> QED BY <1>7, <1>10, <2>1, <2>4, <3>1
  <2>7. CASE d.state = "gone"
    <3>1. Do(SdkSend(a, "RESP", "DUPLICATE", f.ch, m.corr, NoBody))
      BY <2>2, <2>7
    <3> QED BY <1>7, <1>10, <2>1, <2>4, <3>1
  <2> QED BY <2>4, <2>5, <2>6, <2>7
<1>16. CASE SdkOnReqUnserved(f)
  <2>1. /\ SdkCompletes(f) /\ Do(SdkSend(a, "RESP", "NO_HANDLER", f.ch, m.corr, NoBody))
        /\ running' = running
    BY <1>16 DEF SdkOnReqUnserved, SdkDispatches, a, m
  <2> QED BY <1>6, <1>7, <1>10, <2>1
<1>17. CASE SdkOnReqNew(f)
  <2> DEFINE mark == [epoch |-> c.epoch, ch |-> f.ch, corr |-> m.corr,
                      state |-> "inflight", body |-> NoBody]
             t == [a.s EXCEPT !.dedup = a.s.dedup \cup {mark}]
  <2>0. PICK n \in FreeNumbers :
          running' = running \cup {[n |-> n, epoch |-> c.epoch, ch |-> f.ch, corr |-> m.corr,
                                    body |-> BodyOf(m.parts), awaits |-> 0]}
    BY <1>17 DEF SdkOnReqNew, m
  <2> DEFINE run == [n |-> n, epoch |-> c.epoch, ch |-> f.ch, corr |-> m.corr,
                     body |-> BodyOf(m.parts), awaits |-> 0]
  <2>1. /\ SdkCompletes(f) /\ Do([a EXCEPT !.s = t]) /\ running' = running \cup {run}
        /\ SdkMessage(f).type # "MSG"
    BY <1>17, <2>0 DEF SdkOnReqNew, SdkDispatches, a, m
  <2>2. mark \in SdkDedup /\ Size[mark.body] = 1
    BY <1>1, <1>3, <1>6, <1>7, <2>1 DEF SdkDedup
  <2>3. Size[run.body] = 1
    BY <1>2, <2>1, SdkHearsShort DEF m
  <2> HIDE DEF mark, run
  <2>4. /\ t \in SessionState /\ t.up = a.s.up /\ t.epoch = a.s.epoch
        /\ t.corrCtr = a.s.corrCtr /\ t.rasm = a.s.rasm /\ t.pend = a.s.pend
        /\ t.dedup = a.s.dedup \cup {mark}
    BY <1>8, <2>2 DEF SessionState
  <2> HIDE DEF t
  <2>5. Short(t.dedup) /\ Short(running')
    BY <1>1, <1>5, <2>1, <2>2, <2>3, <2>4 DEF Short
  <2> QED BY <1>9, <2>1, <2>4, <2>5
<1>18. CASE SdkOnResp(f)
  <2> DEFINE n == {p \in a.s.pend : p.corr # m.corr}
             t == [a.s EXCEPT !.pend = n]
  <2>1. Do([a EXCEPT !.s = t]) /\ running' = running
    BY <1>18 DEF SdkOnResp, a, m
  <2>2. n \in SUBSET SdkPending /\ n \subseteq a.s.pend
    BY <1>8 DEF SessionState
  <2> HIDE DEF n
  <2>3. /\ t \in SessionState /\ t.up = a.s.up /\ t.epoch = a.s.epoch
        /\ t.corrCtr = a.s.corrCtr /\ t.rasm = a.s.rasm /\ t.pend \subseteq a.s.pend
        /\ t.dedup = a.s.dedup
    BY <1>8, <2>2 DEF SessionState
  <2> HIDE DEF t
  <2>4. Short(t.dedup) /\ Short(running')
    BY <1>1, <1>5, <2>1, <2>3
  <2> QED BY <1>9, <2>1, <2>3, <2>4
<1> QED BY <1>11, <1>12, <1>13, <1>14, <1>15, <1>16, <1>17, <1>18

\* What the companion's application is handed is whole (onMsg).
LEMMA SdkHearsWhole ==
  ASSUME IpcInv, TornInv, NEW f \in DataFrame, f \in Datagrams(out), SdkCompletes(f),
         f.epoch \in Epochs, SdkMessage(f).type = "MSG", h' = Heard(h, "sdk", f.epoch, SdkMessage(f))
  PROVE  Reported'
<1> DEFINE P == {x \in Datagrams(out) : x.type \in DataTypes}
           m == SdkMessage(f)
           r == c.rasm[f.ch]
<1>1. f.ch \in Chans /\ f.type \in DataTypes
  BY DEF DataFrame
<1>2. P \subseteq Outbound /\ Outbound \subseteq Frame /\ r \in Reassembly /\ P \subseteq Frame
  BY <1>1, FramesOnTheirWay DEF Outbound
<1>3. P \subseteq DataFrame
  BY <1>2, DataFrames
<1>4. Pieces(P) \subseteq ToSdk
  BY <1>2 DEF Pieces, ToSdk
<1>5. ReadOf(r, Pieces(P))
  <2>1. ReadOf(r, ToSdk)
    BY <1>1 DEF TornInv, LinkPieces
  <2> HIDE DEF r, P
  <2> QED BY <1>4, <2>1, ReadOfFewer
<1>6. AllCut(P) /\ \A x, y \in Pieces(P) : x.corr = y.corr => x.body = y.body
  BY <1>2, <1>4 DEF TornInv, LinkPieces, AllCut
<1>7. f \in P /\ (f.nfrag = 1 \/ Whole(Gather(r, f)))
  BY <1>1 DEF SdkCompletes
<1> HIDE DEF P
<1>8. Intact(IF f.nfrag = 1 THEN {<<0, f.body>>} ELSE Gather(r, f).parts)
  BY <1>2, <1>3, <1>5, <1>6, <1>7, CompletedWhole
<1>9. Intact(m.parts)
  <2>1. CASE f.nfrag = 1
    BY <1>8, <2>1 DEF SdkMessage
  <2>2. CASE f.nfrag # 1
    BY <1>8, <2>2 DEF SdkMessage
  <2> QED BY <2>1, <2>2
<1>10. BodyOf(m.parts) \in Bodies
  <2>1. CompanionTypeOK
    BY DEF IpcInv, CompanionSound
  <2> QED BY <2>1, SdkMessageType
<1> HIDE DEF m
<1>11. h' = Heard(h, "sdk", f.epoch, m)
  BY DEF m
<1>12. HistoryOK(h) /\ Reported
  BY DEF IpcInv, BooksOK, TornInv
<1> QED BY <1>9, <1>10, <1>11, <1>12, ReportAdded

\* A companion whose session ended or began holds nothing of another.
LEMMA SdkEmptyShort ==
  ASSUME IpcInv, TornInv, c'.pend = {}, c'.dedup = {}, \A ch \in Chans : ~c'.rasm[ch].open,
         \A f \in Datagrams(toGuest') : f \in Datagrams(toGuest) \/ f.type \notin DataTypes,
         running' \subseteq running,
         c'.up => c'.epoch # g.epoch /\ \A f \in ToLink : f.epoch # c'.epoch
  PROVE  SdkShort
<1>1. Short(c'.pend) /\ Short(c'.dedup) /\ Short(running')
  BY DEF Short, TornInv, ShortAnswers
<1>2. SdkReads /\ SdkSession
  BY DEF SdkReads, GoesOnReading, SdkSession
<1> QED BY <1>1, <1>2 DEF SdkShort

\* An unsolicited BYE is no message.
LEMMA LimitedByeShort ==
  ASSUME NEW k \in Turn, NEW e \in Epochs
  PROVE  LET r == LimitedBye(k, e)
         IN  /\ TurnShort(k, r) /\ r.s.dedup = k.s.dedup /\ r.s.pend = k.s.pend
             /\ r.s.rasm = k.s.rasm
<1> DEFINE bye == [type |-> "BYE", epoch |-> e]
           t == [k.s EXCEPT !.byeAllowed = FALSE]
           j == [s |-> t, sent |-> k.sent]
           r == LimitedBye(k, e)
<1>1. k.s \in SessionState /\ k.sent \in Seq(Frame)
  BY DEF Turn
<1>2. /\ t \in SessionState /\ t.up = k.s.up /\ t.epoch = k.s.epoch /\ t.pend = k.s.pend
      /\ t.dedup = k.s.dedup /\ t.rasm = k.s.rasm /\ t.corrCtr = k.s.corrCtr
  BY <1>1 DEF SessionState
<1>3. [k EXCEPT !.s.byeAllowed = FALSE] = j
  <2>1. [k EXCEPT !.s.byeAllowed = FALSE] = [k EXCEPT !.s = t]
    OBVIOUS
  <2> HIDE DEF t
  <2> QED BY <2>1 DEF Turn
<1> HIDE DEF t
<1>4. j \in Turn /\ j.s = t /\ j.sent = k.sent
  BY <1>1, <1>2 DEF Turn
<1>5. bye \in ByeFrame \cup BeatFrame /\ bye.type \notin DataTypes
  BY DEF ByeFrame, DataTypes
<1> HIDE DEF j, bye
<1>6. CASE k.s.byeAllowed
  <2>1. r = Raw(j, bye)
    BY <1>3, <1>6 DEF LimitedBye, bye
  <2>2. /\ r \in Turn /\ r.s = j.s /\ GoesOn(j, r, 0)
        /\ Datagrams(r.sent) \subseteq Datagrams(j.sent) \cup {bye}
    BY <1>4, <1>5, <2>1, RawGoesOn
  <2> HIDE DEF r
  <2> QED BY <1>2, <1>4, <1>5, <2>2 DEF TurnShort, r
<1>7. CASE ~k.s.byeAllowed
  <2>1. r = k
    BY <1>7 DEF LimitedBye
  <2> QED BY <2>1 DEF TurnShort
<1> QED BY <1>6, <1>7

\* A frame that is of no channel carries no message, and a HELLO starts a session
\* that nothing on its way is of (deliver, onHello, onHeartbeat, onBye).
LEMMA SdkSessionShort ==
  ASSUME IpcInv, TornInv, NEW f \in Frame,
         \/ OnHello(f, Fresh(f)) \/ OnHelloRefused(f) \/ OnUnknownEpoch(f)
         \/ OnBeat(f) \/ OnRollback(f) \/ OnPeerBye(f)
  PROVE  SdkShort
<1>1. /\ CompanionTypeOK /\ c \in SessionState /\ toGuest \in Seq(Frame)
      /\ f.epoch \in Epochs /\ c.epoch \in Epochs
      /\ Short(c.pend) /\ Short(c.dedup) /\ Short(running)
  BY FrameEpoch DEF IpcInv, CompanionSound, CompanionTypeOK, SessionState, TornInv, ShortAnswers
<1>2. Step(c) \in Turn /\ Step(c).s = c /\ Step(c).sent = toGuest
  BY <1>1, StepTurn
<1>3. running' = running
  BY DEF OnHello, OnHelloRefused, OnUnknownEpoch, OnBeat, OnRollback, OnPeerBye
<1>4. /\ Hear(c) \in SessionState /\ Hear(c).up = c.up /\ Hear(c).epoch = c.epoch
      /\ Hear(c).corrCtr = c.corrCtr /\ Hear(c).rasm = c.rasm /\ Hear(c).pend = c.pend
      /\ Hear(c).dedup = c.dedup
  BY <1>1 DEF Hear, SessionState
<1>5. CASE OnHello(f, Fresh(f))
  <2> DEFINE S(e) == [Cleared(c) EXCEPT !.epoch = e, !.up = TRUE, !.quiet = FALSE,
                                        !.guestHi = f.tick]
             ack(e) == [type |-> "HELLO_ACK", epoch |-> e, corr |-> f.corr,
                        name |-> SdkName]
  <2>1. PICK e \in Fresh(f) \ {f.epoch, c.epoch} : Do(Raw(Step(S(e)), ack(e)))
    BY <1>5 DEF OnHello
  <2>2. f \in HelloFrame
    BY <1>5 DEF OnHello, Frame, HelloFrame, AckFrame, BeatFrame, ByeFrame, DataFrame, DataTypes
  <2>3. f.corr \in Word /\ e \in Epochs /\ e \notin Held
    BY <2>2, CompanionAssumption DEF Fresh, HelloFrame
  <2>4. /\ S(e).up /\ S(e).epoch = e /\ S(e).pend = {} /\ S(e).dedup = {}
        /\ \A ch \in Chans : ~S(e).rasm[ch].open
    <3>1. /\ Cleared(c).pend = {} /\ Cleared(c).dedup = {}
          /\ \A ch \in Chans : ~Cleared(c).rasm[ch].open
      BY <1>1, ClearedCalls
    <3>2. Cleared(c) \in SessionState
      BY <1>1, ClearedSound
    <3> QED BY <3>1, <3>2 DEF SessionState
  <2>5. ack(e) \in Frame /\ ack(e).type \notin DataTypes
    BY <2>3, CompanionAssumption DEF Frame, AckFrame, DataTypes
  <2> HIDE DEF S, ack
  <2>6. c' = S(e) /\ toGuest' = Put(toGuest, ack(e), SdkSockBuf)
    BY <2>1 DEF Do, Raw, Step
  <2>7. Datagrams(toGuest') \subseteq Datagrams(toGuest) \cup {ack(e)}
    BY <1>1, <2>5, <2>6, PutSound
  <2>8. e # g.epoch /\ \A d \in ToLink : d.epoch # e
    BY <2>3 DEF Held, ToLink, Pieces, Datagrams
  <2>9. \A d \in Datagrams(toGuest') : d \in Datagrams(toGuest) \/ d.type \notin DataTypes
    BY <2>5, <2>7
  <2> QED BY <1>3, <2>4, <2>6, <2>8, <2>9, SdkEmptyShort
<1>6. CASE OnHelloRefused(f) \/ OnUnknownEpoch(f)
  <2> DEFINE r == LimitedBye(Step(c), f.epoch)
  <2>1. Do(r)
    BY <1>6 DEF OnHelloRefused, OnUnknownEpoch
  <2>2. /\ TurnShort(Step(c), r) /\ r.s.dedup = Step(c).s.dedup /\ r.s.pend = Step(c).s.pend
        /\ r.s.rasm = Step(c).s.rasm
    BY <1>1, <1>2, LimitedByeShort
  <2> HIDE DEF r
  <2>3. ReadsNoMore(c.rasm, r.s.rasm) /\ Short(r.s.pend) /\ Short(r.s.dedup) /\ Short(running')
    BY <1>1, <1>2, <1>3, <2>2 DEF ReadsNoMore
  <2> QED BY <2>1, <2>2, <2>3, TurnShortStep
<1>7. CASE OnBeat(f)
  <2> DEFINE t == [Hear(c) EXCEPT !.guestHi = IF SerialDelta(f.tick, @) > 0 THEN f.tick ELSE @]
             r == Step(t)
  <2>1. Do(r) /\ r.s = t /\ r.sent = toGuest
    BY <1>7 DEF OnBeat, Step
  <2>2. /\ t.up = c.up /\ t.epoch = c.epoch /\ t.corrCtr = c.corrCtr /\ t.rasm = c.rasm
        /\ t.pend = c.pend /\ t.dedup = c.dedup
    BY <1>4 DEF SessionState
  <2> HIDE DEF r, t
  <2>3. TurnShort(Step(c), r)
    BY <1>2, <2>1, <2>2 DEF TurnShort
  <2>4. ReadsNoMore(c.rasm, r.s.rasm) /\ Short(r.s.pend) /\ Short(r.s.dedup) /\ Short(running')
    BY <1>1, <1>3, <2>1, <2>2 DEF ReadsNoMore
  <2> QED BY <2>1, <2>3, <2>4, TurnShortStep
<1>8. CASE OnRollback(f)
  <2> DEFINE t == [Hear(c) EXCEPT !.byeAllowed = FALSE]
             bye == [type |-> "BYE", epoch |-> c.epoch]
             told == Raw(Step(t), bye)
  <2>1. Do([told EXCEPT !.s = Down(@)]) /\ c.up
    BY <1>8 DEF OnRollback, Current
  <2>2. t \in SessionState /\ t.up = c.up
    BY <1>4 DEF SessionState
  <2> HIDE DEF t
  <2>3. bye \in ByeFrame \cup BeatFrame /\ bye.type \notin DataTypes
    BY <1>1 DEF ByeFrame, DataTypes
  <2> HIDE DEF bye
  <2>4. Step(t) \in Turn /\ Step(t).s = t /\ Step(t).sent = toGuest
    BY <1>1, <2>2, StepTurn
  <2>5. told \in Turn /\ told.s = t
        /\ Datagrams(told.sent) \subseteq Datagrams(toGuest) \cup {bye}
    <3>1. /\ told \in Turn /\ GoesOn(Step(t), told, 0) /\ told.s = Step(t).s
          /\ Datagrams(told.sent) \subseteq Datagrams(Step(t).sent) \cup {bye}
      BY <2>3, <2>4, RawGoesOn
    <3> QED BY <2>4, <3>1
  <2> HIDE DEF told
  <2>6. /\ ~Down(t).up /\ Down(t).pend = {} /\ Down(t).dedup = {}
        /\ \A ch \in Chans : ~Down(t).rasm[ch].open
    BY <2>1, <2>2, ClearedCalls
  <2>7. c' = Down(t) /\ toGuest' = told.sent
    BY <2>1, <2>5 DEF Do, Turn
  <2>8. \A d \in Datagrams(toGuest') : d \in Datagrams(toGuest) \/ d.type \notin DataTypes
    BY <2>3, <2>5, <2>7
  <2> QED BY <1>3, <2>6, <2>7, <2>8, SdkEmptyShort
<1>9. CASE OnPeerBye(f)
  <2>1. c' = Down(Hear(c)) /\ toGuest' = toGuest /\ c.up
    BY <1>9 DEF OnPeerBye, Do, Step, Current
  <2>2. /\ ~Down(Hear(c)).up /\ Down(Hear(c)).pend = {} /\ Down(Hear(c)).dedup = {}
        /\ \A ch \in Chans : ~Down(Hear(c)).rasm[ch].open
    BY <1>4, <2>1, ClearedCalls
  <2>3. \A d \in Datagrams(toGuest') : d \in Datagrams(toGuest) \/ d.type \notin DataTypes
    BY <2>1 DEF Datagrams
  <2> QED BY <1>3, <2>1, <2>2, <2>3, SdkEmptyShort
<1> QED BY <1>5, <1>6, <1>7, <1>8, <1>9

-----------------------------------------------------------------------------
(* The steps of the companion. *)

\* A datagram the companion reads (recvLoop, deliver).
LEMMA SdkReceiveTurns ==
  ASSUME IpcInv, TornInv, SdkReceives
  PROVE  SdkTurns
<1>1. PICK i \in Readable(out) :
        /\ out' = Without(out, i) /\ SdkDeliver(out[i], Fresh(out[i]))
        /\ h' = SdkLearns(out[i])
  BY DEF SdkReceives
<1> DEFINE f == out[i]
           m == SdkMessage(f)
           whole == f.type \in DataTypes /\ Current(f) /\ ~SdkStale(f) /\ SdkCompletes(f)
<1>2. out \in Seq(Frame) /\ HistoryOK(h) /\ Reported
  BY DEF IpcInv, GuestInv, BooksOK, TornInv
<1>3. i \in DOMAIN out /\ f \in Frame /\ f \in Datagrams(out)
  BY <1>2, TakenFrame
<1>4. g' = g /\ Datagrams(out') \subseteq Datagrams(out)
  BY <1>1, <1>2, <1>3, WithoutSound DEF SdkReceives
<1>5. SdkDeliver(f, Fresh(f)) /\ h' = SdkLearns(f)
  BY <1>1
<1> HIDE DEF f
<1>6. Reported'
  <2>1. CASE whole /\ m.type = "MSG"
    <3>1. h' = Heard(h, "sdk", f.epoch, m)
      BY <1>5, <2>1, SdkLearnt
    <3>2. f \in DataFrame /\ f.epoch \in Epochs
      BY <1>3, <2>1, SdkDataFrames, FrameEpoch
    <3> QED BY <1>3, <2>1, <3>1, <3>2, SdkHearsWhole
  <2>2. CASE ~(whole /\ m.type = "MSG")
    <3>1. h'.heard = h.heard
      BY <1>2, <1>5, <2>2 DEF SdkLearns, Settled, HistoryOK
    <3> QED BY <1>2, <3>1, ReportsKept
  <2> QED BY <2>1, <2>2
<1>7. SdkShort
  <2>1. CASE \/ OnHello(f, Fresh(f)) \/ OnHelloRefused(f) \/ OnUnknownEpoch(f)
             \/ OnBeat(f) \/ OnRollback(f) \/ OnPeerBye(f)
    BY <1>3, <2>1, SdkSessionShort
  <2>2. CASE \/ SdkOnStale(f) \/ SdkOnFragment(f) \/ SdkOnMsg(f) \/ SdkOnResync(f)
             \/ SdkOnReqAgain(f) \/ SdkOnReqUnserved(f) \/ SdkOnReqNew(f) \/ SdkOnResp(f)
    BY <1>3, <2>2, SdkFrameShort
  <2> QED BY <1>5, <2>1, <2>2 DEF SdkDeliver
<1> QED BY <1>4, <1>6, <1>7, ShortSdkTurns

\* Another mod's HELLO (onHello).
LEMMA StrayTurns ==
  ASSUME IpcInv, TornInv, StrayHello
  PROVE  SdkTurns
<1> DEFINE f == [type |-> "HELLO", epoch |-> 0, corr |-> 1, tick |-> 0, name |-> OtherModName]
<1>1. /\ SdkDeliver(f, Fresh(f)) /\ h' = Settled(h, c.pend, c'.pend, Lost)
      /\ g' = g /\ out' = out
  BY DEF StrayHello
<1>2. f \in Frame
  BY WireAssumption, FkIpcAssumption DEF Frame, HelloFrame, Word
<1>3. f.type = "HELLO"
  OBVIOUS
<1> HIDE DEF f
<1>4. OnHello(f, Fresh(f)) \/ OnHelloRefused(f)
  BY <1>1, <1>3 DEF SdkDeliver, OnUnknownEpoch, OnBeat, OnRollback, OnPeerBye, SdkOnStale,
     SdkOnFragment, SdkOnMsg, SdkOnResync, SdkOnReqAgain, SdkOnReqUnserved, SdkOnReqNew,
     SdkOnResp, SdkDispatches, SdkDataArrives, DataTypes
<1>5. HistoryOK(h) /\ Reported
  BY DEF IpcInv, BooksOK, TornInv
<1>6. Reported'
  <2>1. \E t : h' = [h EXCEPT !.told = t]
    BY <1>1 DEF Settled
  <2> QED BY <1>5, <2>1, TellingsKept
<1>7. Datagrams(out') \subseteq Datagrams(out)
  BY <1>1 DEF Datagrams
<1> QED BY <1>1, <1>2, <1>4, <1>6, <1>7, SdkSessionShort, ShortSdkTurns

\* A section that edits the session and then sends a short message (finish,
\* request, runTimers).
LEMMA EditSendShort ==
  ASSUME IpcInv, NEW t \in SessionState, t.up = c.up, t.epoch = c.epoch,
         c.corrCtr <= t.corrCtr, t.rasm = c.rasm, Short(t.pend), Short(t.dedup), Short(running'),
         NEW type \in DataTypes, type # "MSG", NEW flag \in Flags, NEW ch \in Chans,
         NEW corr \in Word, NEW b \in Bodies, Size[b] = 1, Do(SdkSend(Step(t), type, flag, ch, corr, b))
  PROVE  SdkShort
<1> DEFINE k == Step(t)
           r == SdkSend(k, type, flag, ch, corr, b)
<1>1. CompanionTypeOK
  BY DEF IpcInv, CompanionSound
<1>2. k \in Turn /\ k.s = t /\ k.sent = toGuest
  BY <1>1, StepTurn
<1> HIDE DEF k
<1>3. /\ r \in Turn /\ TurnShort(k, r)
      /\ r.s.pend = k.s.pend /\ r.s.dedup = k.s.dedup /\ r.s.rasm = k.s.rasm
  BY <1>2, TurnSendShort
<1>4. c' = r.s /\ toGuest' = r.sent
  BY DEF Do, k
<1> HIDE DEF r
<1>5. c'.up = c.up /\ c'.epoch = c.epoch /\ c.corrCtr <= c'.corrCtr
  BY <1>2, <1>3, <1>4 DEF TurnShort
<1>6. SdkSession
  BY <1>5 DEF SdkSession
<1>7. SdkReads
  BY <1>2, <1>3, <1>4, NoMoreSdkReads DEF ReadsNoMore
<1>8. \A f \in Datagrams(toGuest') :
        f \in Datagrams(toGuest) \/ f.type \notin DataTypes \/ Single(f)
  BY <1>2, <1>3, <1>4 DEF TurnShort, Datagrams
<1> QED BY <1>2, <1>3, <1>4, <1>6, <1>7, <1>8 DEF SdkShort

\* A timer that edits the session and sends nothing (runTimers).
LEMMA EditShort ==
  ASSUME IpcInv, TornInv, c'.up = c.up, c'.epoch = c.epoch, c'.corrCtr = c.corrCtr,
         c'.pend \subseteq c.pend, c'.dedup \subseteq c.dedup, ReadsNoMore(c.rasm, c'.rasm),
         running' = running, toGuest' = toGuest
  PROVE  SdkShort
<1>1. Short(c'.pend) /\ Short(c'.dedup) /\ Short(running')
  BY DEF Short, TornInv, ShortAnswers
<1>2. SdkSession
  BY Counters DEF SdkSession
<1>3. SdkReads
  BY NoMoreSdkReads
<1> QED BY <1>1, <1>2, <1>3 DEF SdkShort, Datagrams

\* A handler that returns, or fails (finish, onReq's error path).
LEMMA HandlerTurns ==
  ASSUME IpcInv, TornInv, HandlerEnds
  PROVE  SdkTurns
<1>1. g' = g /\ Datagrams(out') \subseteq Datagrams(out)
  BY DEF HandlerEnds, Datagrams
<1>2. PICK r \in running : \/ HandlerReturns(r) /\ h' = Ran(h, r.body)
                           \/ HandlerFails(r) /\ h' = h
  BY DEF HandlerEnds
<1> DEFINE kept == {d \in c.dedup : ~AnswerKey(d, r)}
<1>3. /\ c \in SessionState /\ c.epoch \in Epochs /\ r \in Invocation
      /\ HistoryOK(h) /\ Reported /\ c.corrCtr <= c.corrCtr
      /\ Short(c.pend) /\ Short(c.dedup) /\ Short(running)
  BY Counters DEF IpcInv, CompanionSound, CompanionTypeOK, SessionState, BooksOK, TornInv,
     ShortAnswers
<1>4. r.ch \in Chans /\ r.corr \in Word /\ r.body \in Bodies /\ Size[r.body] = 1
  BY <1>3 DEF Invocation, Short
<1>5. kept \subseteq SdkDedup /\ Short(kept)
  BY <1>3 DEF SessionState, Short
<1>6. /\ "RESP" \in DataTypes /\ "none" \in Flags /\ "APP" \in Flags
      /\ NoBody \in Bodies /\ Size[NoBody] = 1
  BY WireAssumption DEF DataTypes, Flags, Errors
<1>7. Reported'
  BY <1>2, <1>3, ReportsKept DEF Ran, HistoryOK
<1>8. CASE HandlerReturns(r)
  <2> DEFINE entry == [epoch |-> c.epoch, ch |-> r.ch, corr |-> r.corr,
                       state |-> IF r.body \in SdkCacheable THEN "cached" ELSE "gone",
                       body |-> IF r.body \in SdkCacheable THEN r.body ELSE NoBody]
             n == kept \cup {entry}
             t == [c EXCEPT !.dedup = n]
  <2>1. running' = running \ {r} /\ Do(SdkSend(Step(t), "RESP", "none", r.ch, r.corr, r.body))
    BY <1>8 DEF HandlerReturns
  <2>2. entry \in SdkDedup /\ Size[entry.body] = 1
    BY <1>3, <1>4, <1>6 DEF SdkDedup
  <2> HIDE DEF entry, kept
  <2>3. n \subseteq SdkDedup /\ Short(n)
    BY <1>5, <2>2 DEF Short
  <2> HIDE DEF n
  <2>4. /\ t \in SessionState /\ t.up = c.up /\ t.epoch = c.epoch /\ t.corrCtr = c.corrCtr
        /\ t.rasm = c.rasm /\ t.pend = c.pend /\ t.dedup = n
    BY <1>3, <2>3 DEF SessionState
  <2> HIDE DEF t
  <2>5. Short(t.pend) /\ Short(t.dedup) /\ Short(running') /\ c.corrCtr <= t.corrCtr
    BY <1>3, <2>1, <2>3, <2>4 DEF Short
  <2>6. SdkShort
    BY <1>4, <1>6, <2>1, <2>4, <2>5, EditSendShort
  <2> QED BY <1>1, <1>7, <2>6, ShortSdkTurns
<1>9. CASE HandlerFails(r)
  <2> DEFINE t == [c EXCEPT !.dedup = kept]
  <2>1. running' = running \ {r} /\ Do(SdkSend(Step(t), "RESP", "APP", r.ch, r.corr, NoBody))
    BY <1>9 DEF HandlerFails
  <2> HIDE DEF kept
  <2>2. /\ t \in SessionState /\ t.up = c.up /\ t.epoch = c.epoch /\ t.corrCtr = c.corrCtr
        /\ t.rasm = c.rasm /\ t.pend = c.pend /\ t.dedup = kept
    BY <1>3, <1>5 DEF SessionState
  <2> HIDE DEF t
  <2>3. Short(t.pend) /\ Short(t.dedup) /\ Short(running') /\ c.corrCtr <= t.corrCtr
    BY <1>3, <1>5, <2>1, <2>2 DEF Short
  <2>4. SdkShort
    BY <1>4, <1>6, <2>1, <2>2, <2>3, EditSendShort
  <2> QED BY <1>1, <1>7, <2>4, ShortSdkTurns
<1> QED BY <1>2, <1>8, <1>9

\* The companion cuts a message under an id of its own (Send, Snapshot,
\* RequestResync).
LEMMA SdkSaysTurns ==
  ASSUME IpcInv, TornInv, IdsLast, SdkSays
  PROVE  SdkTurns
<1>1. g' = g /\ out' = out /\ running' = running /\ h'.heard = h.heard /\ Sendable
  <2>1. HistoryOK(h)
    BY DEF IpcInv, BooksOK
  <2>2. h' = h \/ h' = [h EXCEPT !.said.sdk = @ + 1]
    BY DEF SdkSays
  <2>3. \E n : [h EXCEPT !.said.sdk = @ + 1] = [h EXCEPT !.said = n]
    BY <2>1 DEF HistoryOK
  <2>4. Sendable
    BY DEF SdkSays, SdkAppSend, SdkAppResync
  <2> QED BY <2>1, <2>2, <2>3, <2>4 DEF SdkSays, HistoryOK
<1>2. \E ch \in Chans, type \in {"MSG", "RESYNC"}, flag \in {"none", "snapshot"}, b \in Bodies :
        (type # "MSG" => b = NoBody) /\ Do(SdkSend(Step(c), type, flag, ch, 0, b))
  <2>1. PICK ch \in Chans :
          \/ /\ h.said.sdk < SdkMsgs
             /\ \/ \E flag \in {"none", "snapshot"} : SdkAppSend(ch, flag, h.said.sdk + 1)
                \/ SdkAppResync(ch)
          \/ SdkAppSend(ch, "snapshot", h.said.sdk)
    BY DEF SdkSays
  <2>2. h.said.sdk \in 0 .. SdkMsgs /\ SdkMsgs \in Nat
    BY FkIpcAssumption DEF IpcInv, BooksOK, HistoryOK
  <2>3. h.said.sdk \in Bodies /\ (h.said.sdk < SdkMsgs => h.said.sdk + 1 \in Bodies)
    <3>1. h.said.sdk < SdkMsgs => h.said.sdk + 1 \in 0 .. SdkMsgs
      BY <2>2
    <3> QED BY <2>2, <3>1, FkIpcAssumption
  <2>4. NoBody \in Bodies
    BY WireAssumption
  <2> QED BY <2>1, <2>3, <2>4 DEF SdkAppSend, SdkAppResync
<1>3. PICK ch \in Chans, type \in {"MSG", "RESYNC"}, flag \in {"none", "snapshot"}, b \in Bodies :
        (type # "MSG" => b = NoBody) /\ Do(SdkSend(Step(c), type, flag, ch, 0, b))
  BY <1>2
<1>4. /\ CompanionTypeOK /\ c \in SessionState /\ c.corrCtr \in Word /\ c.corrCtr \in Nat
      /\ type \in DataTypes /\ flag \in Flags /\ 0 \in Word /\ (type # "MSG" => Size[b] = 1)
      /\ c.corrCtr < U32 - 1 /\ Short(c.pend) /\ Short(c.dedup) /\ Short(running)
  BY <1>3, WireAssumption, Counters
     DEF IpcInv, CompanionSound, CompanionTypeOK, Word, DataTypes, Flags, IdsLast, TornInv,
         ShortAnswers
<1> DEFINE k == Step(c)
           r == SdkSend(k, type, flag, ch, 0, b)
           mints == 0 = 0 /\ Size[b] > 1
           id == IF mints THEN NextCorr(c.corrCtr) ELSE 0
           fs == Fragments(type, flag, ch, c.epoch, c.txSeq[ch], id, b)
<1>5. k \in Turn /\ k.s = c /\ k.sent = toGuest
  BY <1>4, StepTurn
<1> HIDE DEF k
<1>6. /\ GoesOn(k, r, Size[b])
      /\ r.s.pend = c.pend /\ r.s.dedup = c.dedup /\ r.s.rasm = c.rasm
      /\ r.s.corrCtr = IF mints THEN id ELSE c.corrCtr
      /\ Datagrams(r.sent) \subseteq Datagrams(toGuest) \cup Datagrams(fs)
  <2>1. LET q == SdkSend(k, type, flag, ch, 0, b)
        IN  /\ GoesOn(k, q, Size[b])
            /\ q.s.rxLast = k.s.rxLast /\ q.s.pend = k.s.pend /\ q.s.dedup = k.s.dedup
            /\ q.s.rasm = k.s.rasm
            /\ LET mt == 0 = 0 /\ Size[b] > 1
                   n == IF mt THEN NextCorr(k.s.corrCtr) ELSE 0
               IN  /\ n \in Word /\ q.s.corrCtr = IF mt THEN n ELSE k.s.corrCtr
                   /\ Datagrams(q.sent) \subseteq Datagrams(k.sent) \cup
                        Datagrams(Fragments(type, flag, ch, k.s.epoch, k.s.txSeq[ch], n, b))
    BY <1>4, <1>5, SdkSendSound
  <2> HIDE DEF r
  <2> QED BY <1>5, <2>1 DEF r
<1>7. mints => id = c.corrCtr + 1
  BY <1>4, MintedNext
<1>8. ASSUME NEW f \in Datagrams(fs)
      PROVE  f.type = type /\ f.nfrag = Size[b] /\ f.corr = id /\ f.body = b /\ f.epoch = c.epoch
  <2>1. /\ f.type = type /\ f.flag = flag /\ f.nfrag = Size[b]
        /\ Call(f.epoch, f) = [epoch |-> c.epoch, ch |-> ch, corr |-> id, body |-> b]
    BY FragmentSays
  <2>2. Call(f.epoch, f).corr = f.corr /\ Call(f.epoch, f).body = f.body
        /\ Call(f.epoch, f).epoch = f.epoch
    BY DEF Call
  <2> HIDE DEF id
  <2> QED BY <2>1, <2>2
<1>9. c' = r.s /\ toGuest' = r.sent
  BY <1>3 DEF Do, k
<1> HIDE DEF r, fs
<1>10. c'.up = c.up /\ c'.epoch = c.epoch /\ c.up
  BY <1>1, <1>5, <1>6, <1>9 DEF GoesOn, Sendable
<1>11. \A f \in Datagrams(toGuest') : f \in Datagrams(toGuest) \/ f \in Datagrams(fs)
  BY <1>6, <1>9 DEF Datagrams
<1>12. AllCut(Datagrams(toGuest'))
  BY <1>4, <1>8, <1>11 DEF TornInv, AllCut, Cut
<1>13. \A f \in ToLink' :
         \/ f \in ToLink
         \/ /\ c.up /\ c'.up /\ c'.epoch = c.epoch /\ f.epoch = c.epoch
            /\ c.corrCtr < c'.corrCtr /\ f.corr = c'.corrCtr /\ f.body = b
  <2> SUFFICES ASSUME NEW f \in Datagrams(fs), f.nfrag > 1
               PROVE  /\ f.epoch = c.epoch
                      /\ c.corrCtr < c'.corrCtr /\ f.corr = c'.corrCtr /\ f.body = b
    BY <1>10, <1>11 DEF ToLink, Pieces
  <2>1. mints
    BY <1>8
  <2> QED BY <1>4, <1>6, <1>7, <1>8, <1>9, <2>1
<1>14. c.corrCtr <= c'.corrCtr
  BY <1>4, <1>6, <1>7, <1>9
<1>15. SdkCuts
  BY <1>1, <1>4, <1>6, <1>9, <1>12, <1>13 DEF SdkCuts
<1>16. SdkSession /\ SdkReads
  BY <1>6, <1>9, <1>10, <1>14, NoMoreSdkReads DEF SdkSession, ReadsNoMore
<1>17. Reported' /\ Datagrams(out') \subseteq Datagrams(out)
  BY <1>1, ReportsKept DEF TornInv, Datagrams
<1> QED BY <1>1, <1>15, <1>16, <1>17 DEF SdkTurns

\* A Request at the companion is one frame, under a new id (request).
LEMMA AskedShort ==
  ASSUME IpcInv, TornInv, IdsLast, NEW ch \in Chans, NEW b \in Bodies, Size[b] = 1,
         Asked(ch, b), Short(running')
  PROVE  SdkShort
<1> DEFINE corr == NextCorr(c.corrCtr)
           p == [ch |-> ch, corr |-> corr, body |-> b, tries |-> 0]
           n == c.pend \cup {p}
           t == [c EXCEPT !.corrCtr = corr, !.pend = n]
<1>1. /\ c \in SessionState /\ c.corrCtr \in Word /\ c.corrCtr \in Nat
      /\ Short(c.pend) /\ Short(c.dedup)
  BY Counters DEF IpcInv, CompanionSound, CompanionTypeOK, TornInv, ShortAnswers
<1>2. corr \in Word /\ corr = c.corrCtr + 1
  BY <1>1, MintedNext, MintedCorr DEF IdsLast
<1>3. Do(SdkSend(Step(t), "REQ", "none", ch, corr, b))
  BY DEF Asked
<1> HIDE DEF corr
<1>4. p \in SdkPending /\ Size[p.body] = 1
  BY <1>2 DEF SdkPending
<1> HIDE DEF p
<1>5. n \subseteq SdkPending /\ Short(n)
  BY <1>1, <1>4 DEF SessionState, Short
<1> HIDE DEF n
<1>6. /\ t \in SessionState /\ t.up = c.up /\ t.epoch = c.epoch /\ t.corrCtr = corr
      /\ t.rasm = c.rasm /\ t.pend = n /\ t.dedup = c.dedup
  BY <1>1, <1>2, <1>5 DEF SessionState
<1> HIDE DEF t
<1>7. /\ Short(t.pend) /\ Short(t.dedup) /\ c.corrCtr <= t.corrCtr
      /\ "REQ" \in DataTypes /\ "none" \in Flags
  BY <1>1, <1>2, <1>5, <1>6 DEF DataTypes, Flags
<1> QED BY <1>2, <1>3, <1>6, <1>7, EditSendShort

\* It may be a handler that issues it (Request within Handle).
LEMMA SdkAsksTurns ==
  ASSUME IpcInv, TornInv, IdsLast, \A r \in Reqs : Size[r] = 1, SdkAsks \/ HandlerAsks
  PROVE  SdkTurns
<1>1. g' = g /\ Datagrams(out') \subseteq Datagrams(out) /\ Short(running)
  BY DEF SdkAsks, HandlerAsks, Datagrams, TornInv, ShortAnswers
<1>2. SdkReqs \subseteq Bodies /\ \A b \in SdkReqs : Size[b] = 1
  BY FkIpcAssumption DEF Reqs
<1>3. Reported'
  <2>1. HistoryOK(h) /\ Reported
    BY DEF IpcInv, BooksOK, TornInv
  <2>2. \E n : h' = [h EXCEPT !.asked = n]
    BY DEF SdkAsks, HandlerAsks
  <2> QED BY <2>1, <2>2 DEF HistoryOK, Reported
<1>4. CASE SdkAsks
  <2>1. PICK ch \in Chans, b \in SdkReqs : Asked(ch, b) /\ running' = running
    BY <1>4 DEF SdkAsks, SdkAppRequest
  <2>2. SdkShort
    BY <1>1, <1>2, <2>1, AskedShort
  <2> QED BY <1>1, <1>3, <2>2, ShortSdkTurns
<1>5. CASE HandlerAsks
  <2>1. PICK r \in running, ch \in Chans, b \in SdkReqs : HandlerRequests(r, ch, b)
    BY <1>5 DEF HandlerAsks
  <2> DEFINE n == [r EXCEPT !.awaits = NextCorr(c.corrCtr)]
  <2>2. running' = (running \ {r}) \cup {n} /\ Asked(ch, b)
    BY <2>1 DEF HandlerRequests
  <2>3. r \in Invocation
    BY DEF IpcInv, CompanionSound, CompanionTypeOK
  <2>4. n.body = r.body
    BY <2>3 DEF Invocation
  <2> HIDE DEF n
  <2>5. Short(running')
    BY <1>1, <2>2, <2>4 DEF Short
  <2>6. SdkShort
    BY <1>2, <2>2, <2>5, AskedShort
  <2> QED BY <1>1, <1>3, <2>6, ShortSdkTurns
<1> QED BY <1>4, <1>5

\* The companion's timers (runTimers).
LEMMA TimersTurns ==
  ASSUME IpcInv, TornInv, SdkTimers \/ TimerRound
  PROVE  SdkTurns
<1>1. /\ g' = g /\ Datagrams(out') \subseteq Datagrams(out) /\ CompanionTypeOK
      /\ c \in SessionState /\ c.epoch \in Epochs /\ HistoryOK(h) /\ Reported
      /\ Short(c.pend) /\ Short(c.dedup) /\ Short(running)
  BY DEF SdkTimers, DedupExpires, TimerRound, Datagrams, IpcInv, CompanionSound, CompanionTypeOK, SessionState,
         BooksOK, TornInv, ShortAnswers
<1>2. Reported'
  <2>1. h' = h \/ \E t : h' = [h EXCEPT !.told = t]
    BY DEF SdkTimers, DedupExpires, TimerRound, Settled
  <2> QED BY <1>1, <2>1, TellingsKept, ReportsKept
<1>3. CASE QuietTimer
  <2>1. /\ c' = [c EXCEPT !.quiet = TRUE] /\ running' = running /\ toGuest' = toGuest
    BY <1>3 DEF QuietTimer, TimerIdle
  <2>2. /\ c'.up = c.up /\ c'.epoch = c.epoch /\ c'.corrCtr = c.corrCtr
        /\ c'.pend = c.pend /\ c'.rasm = c.rasm /\ c'.dedup = c.dedup
    BY <1>1, <2>1 DEF SessionState
  <2>3. SdkShort
    BY <2>1, <2>2, EditShort DEF ReadsNoMore
  <2> QED BY <1>1, <1>2, <2>3, ShortSdkTurns
<1>4. CASE PeerTimer
  <2>1. c.up /\ c' = Down(c) /\ running' = running /\ toGuest' = toGuest
    BY <1>4 DEF PeerTimer, TimerIdle
  <2>2. /\ ~c'.up /\ c'.pend = {} /\ c'.dedup = {} /\ \A ch \in Chans : ~c'.rasm[ch].open
    <3>1. LET t == Down(c)
          IN  ~t.up /\ t.pend = {} /\ t.dedup = {} /\ \A ch \in Chans : ~t.rasm[ch].open
      BY <1>1, <2>1, ClearedCalls
    <3> QED BY <2>1, <3>1
  <2>3. \A f \in Datagrams(toGuest') : f \in Datagrams(toGuest) \/ f.type \notin DataTypes
    BY <2>1 DEF Datagrams
  <2>4. SdkShort
    BY <2>1, <2>2, <2>3, SdkEmptyShort
  <2> QED BY <1>1, <1>2, <2>4, ShortSdkTurns
<1>5. ASSUME NEW ch \in Chans, ReassemblyTimer(ch) PROVE SdkTurns
  <2> DEFINE n == [c.rasm EXCEPT ![ch] = Closed]
  <2>1. c' = [c EXCEPT !.rasm = n] /\ running' = running /\ toGuest' = toGuest
    BY <1>5 DEF ReassemblyTimer, TimerIdle
  <2>2. ReadsNoMore(c.rasm, n)
    BY <1>1 DEF ReadsNoMore, Closed, SessionState
  <2> HIDE DEF n
  <2>3. /\ c'.up = c.up /\ c'.epoch = c.epoch /\ c'.corrCtr = c.corrCtr
        /\ c'.pend = c.pend /\ c'.rasm = n /\ c'.dedup = c.dedup
    BY <1>1, <2>1 DEF SessionState
  <2>4. SdkShort
    BY <2>1, <2>2, <2>3, EditShort
  <2> QED BY <1>1, <1>2, <2>4, ShortSdkTurns
<1>6. ASSUME NEW d \in c.dedup, DedupTimer(d) PROVE SdkTurns
  <2>1. c' = [c EXCEPT !.dedup = c.dedup \ {d}] /\ running' = running /\ toGuest' = toGuest
    BY <1>6 DEF DedupTimer, TimerIdle
  <2>2. /\ c'.up = c.up /\ c'.epoch = c.epoch /\ c'.corrCtr = c.corrCtr
        /\ c'.pend = c.pend /\ c'.rasm = c.rasm /\ c'.dedup = c.dedup \ {d}
    BY <1>1, <2>1 DEF SessionState
  <2>3. SdkShort
    BY <2>1, <2>2, EditShort DEF ReadsNoMore
  <2> QED BY <1>1, <1>2, <2>3, ShortSdkTurns
<1>7. CASE BeatTimer
  <2> DEFINE f == [type |-> "HEARTBEAT", epoch |-> c.epoch, tick |-> 0]
             r == Raw(Step(c), f)
  <2>1. Step(c) \in Turn /\ Step(c).s = c
    BY <1>1, StepTurn
  <2>2. f \in ByeFrame \cup BeatFrame /\ f.type \notin DataTypes
    BY <1>1, WireAssumption DEF BeatFrame, Word, DataTypes
  <2>3. Do(r) /\ running' = running
    BY <1>7 DEF BeatTimer
  <2> HIDE DEF f
  <2>4. /\ r \in Turn /\ r.s = Step(c).s /\ GoesOn(Step(c), r, 0)
        /\ Datagrams(r.sent) \subseteq Datagrams(Step(c).sent) \cup {f}
    BY <2>1, <2>2, RawGoesOn
  <2> HIDE DEF r
  <2>5. TurnShort(Step(c), r)
    BY <2>2, <2>4 DEF TurnShort
  <2>6. ReadsNoMore(c.rasm, r.s.rasm) /\ Short(r.s.pend) /\ Short(r.s.dedup) /\ Short(running')
    BY <1>1, <2>1, <2>3, <2>4 DEF ReadsNoMore
  <2>7. SdkShort
    BY <2>3, <2>5, <2>6, TurnShortStep
  <2> QED BY <1>1, <1>2, <2>7, ShortSdkTurns
<1>8. CASE ByeWindow
  <2>1. c' = [c EXCEPT !.byeAllowed = TRUE] /\ running' = running /\ toGuest' = toGuest
    BY <1>8 DEF ByeWindow, TimerIdle
  <2>2. /\ c'.up = c.up /\ c'.epoch = c.epoch /\ c'.corrCtr = c.corrCtr
        /\ c'.pend = c.pend /\ c'.rasm = c.rasm /\ c'.dedup = c.dedup
    BY <1>1, <2>1 DEF SessionState
  <2>3. SdkShort
    BY <2>1, <2>2, EditShort DEF ReadsNoMore
  <2> QED BY <1>1, <1>2, <2>3, ShortSdkTurns
<1>9. CASE UNCHANGED <<c, running, toGuest>>
  <2>1. SdkShort
    BY <1>9, EditShort DEF ReadsNoMore
  <2> QED BY <1>1, <1>2, <2>1, ShortSdkTurns
<1> QED BY <1>3, <1>4, <1>5, <1>6, <1>7, <1>8, <1>9 DEF SdkTimers, DedupExpires, TimerRound

\* A retry repeats what was asked (runTimers).
LEMMA SdkRetryTurns ==
  ASSUME IpcInv, TornInv, SdkRetries
  PROVE  SdkTurns
<1>1. /\ g' = g /\ Datagrams(out') \subseteq Datagrams(out)
      /\ c \in SessionState /\ HistoryOK(h) /\ Reported /\ c.corrCtr <= c.corrCtr
      /\ Short(c.pend) /\ Short(c.dedup) /\ Short(running)
  <2>1. g' = g /\ out' = out
    BY DEF SdkRetries
  <2>2. /\ c \in SessionState /\ HistoryOK(h) /\ Reported
        /\ Short(c.pend) /\ Short(c.dedup) /\ Short(running)
    BY DEF IpcInv, CompanionSound, CompanionTypeOK, BooksOK, TornInv, ShortAnswers
  <2>3. c.corrCtr <= c.corrCtr
    BY Counters
  <2> QED BY <2>1, <2>2, <2>3 DEF Datagrams
<1>2. Reported'
  <2>1. h' = h \/ \E t : h' = [h EXCEPT !.told = t]
    BY DEF SdkRetries, Settled
  <2> QED BY <1>1, <2>1, TellingsKept, ReportsKept
<1>3. ASSUME NEW p \in c.pend, SdkResend(p) PROVE SdkTurns
  <2> DEFINE o == [p EXCEPT !.tries = @ + 1]
             n == (c.pend \ {p}) \cup {o}
             t == [c EXCEPT !.pend = n]
  <2>1. Do(SdkSend(Step(t), "REQ", "none", p.ch, p.corr, p.body)) /\ running' = running
    BY <1>3 DEF SdkResend
  <2>2. p \in SdkPending
    BY <1>1 DEF SessionState
  <2>3. o \in SdkPending /\ o.body = p.body
    BY <2>2 DEF SdkPending
  <2>4. /\ p.ch \in Chans /\ p.corr \in Word /\ p.body \in Bodies /\ Size[p.body] = 1
        /\ "REQ" \in DataTypes /\ "none" \in Flags
    BY <1>1, <2>2 DEF SdkPending, Short, DataTypes, Flags
  <2> HIDE DEF o
  <2>5. n \subseteq SdkPending /\ Short(n)
    BY <1>1, <2>3, <2>4 DEF SessionState, Short
  <2> HIDE DEF n
  <2>6. /\ t \in SessionState /\ t.up = c.up /\ t.epoch = c.epoch /\ t.corrCtr = c.corrCtr
        /\ t.pend = n /\ t.rasm = c.rasm /\ t.dedup = c.dedup
    BY <1>1, <2>5 DEF SessionState
  <2> HIDE DEF t
  <2>7. Short(t.pend) /\ Short(t.dedup) /\ Short(running') /\ c.corrCtr <= t.corrCtr
    BY <1>1, <2>1, <2>5, <2>6
  <2>8. SdkShort
    BY <2>1, <2>4, <2>6, <2>7, EditSendShort
  <2> QED BY <1>1, <1>2, <2>8, ShortSdkTurns
<1>4. ASSUME NEW p \in c.pend, SdkGivesUp(p) PROVE SdkTurns
  <2>1. c' = [c EXCEPT !.pend = c.pend \ {p}] /\ running' = running /\ toGuest' = toGuest
    BY <1>4 DEF SdkGivesUp, TimerIdle
  <2>2. /\ c'.up = c.up /\ c'.epoch = c.epoch /\ c'.corrCtr = c.corrCtr
        /\ c'.pend = c.pend \ {p} /\ c'.rasm = c.rasm /\ c'.dedup = c.dedup
    BY <1>1, <2>1 DEF SessionState
  <2>3. SdkShort
    BY <2>1, <2>2, EditShort DEF ReadsNoMore
  <2> QED BY <1>1, <1>2, <2>3, ShortSdkTurns
<1> QED BY <1>3, <1>4 DEF SdkRetries

\* A companion that stops or starts has cut and read nothing (Close, Dial).
LEMMA StopsTurns ==
  ASSUME IpcInv, TornInv, SdkStops \/ SdkStarts
  PROVE  SdkTurns
<1>1. /\ g' = g /\ Datagrams(out') \subseteq Datagrams(out) /\ HistoryOK(h) /\ Reported
      /\ c.epoch \in Epochs /\ toGuest \in Seq(Frame)
  <2>1. g' = g /\ out' = out
    BY DEF SdkStops, SdkStarts
  <2>2. HistoryOK(h) /\ Reported /\ c.epoch \in Epochs /\ toGuest \in Seq(Frame)
    BY DEF IpcInv, CompanionSound, CompanionTypeOK, SessionState, BooksOK, TornInv
  <2> QED BY <2>1, <2>2 DEF Datagrams
<1>2. /\ ~NewSession.up /\ NewSession.pend = {} /\ NewSession.dedup = {}
      /\ ~Gone.up /\ Gone.pend = {} /\ Gone.dedup = {}
      /\ \A ch \in Chans : ~NewSession.rasm[ch].open /\ ~Gone.rasm[ch].open
  BY DEF NewSession, Gone, Closed
<1>3. c' \in {NewSession, Gone} /\ running' \subseteq running
  BY DEF SdkStops, SdkStarts, Close
<1>4. Reported'
  <2>1. h' = h \/ \E t : h' = [h EXCEPT !.told = t]
    BY DEF SdkStops, SdkStarts, Settled
  <2> QED BY <1>1, <2>1, TellingsKept, ReportsKept
<1>5. \A f \in Datagrams(toGuest') : f \in Datagrams(toGuest) \/ f.type \notin DataTypes
  <2> DEFINE bye == [type |-> "BYE", epoch |-> c.epoch]
  <2>1. bye \in Frame /\ bye.type \notin DataTypes
    BY <1>1 DEF Frame, ByeFrame, DataTypes
  <2>2. toGuest' = toGuest \/ toGuest' = Put(toGuest, bye, SdkSockBuf)
    BY DEF SdkStops, SdkStarts, Close
  <2> HIDE DEF bye
  <2>3. Datagrams(Put(toGuest, bye, SdkSockBuf)) \subseteq Datagrams(toGuest) \cup {bye}
    BY <1>1, <2>1, PutSound
  <2>4. Datagrams(toGuest') \subseteq Datagrams(toGuest) \cup {bye}
    BY <2>2, <2>3 DEF Datagrams
  <2> QED BY <2>1, <2>4
<1>6. SdkShort
  <2>1. ~c'.up /\ c'.pend = {} /\ c'.dedup = {} /\ \A ch \in Chans : ~c'.rasm[ch].open
    BY <1>2, <1>3
  <2> QED BY <1>3, <1>5, <2>1, SdkEmptyShort
<1> QED BY <1>1, <1>4, <1>6, ShortSdkTurns

-----------------------------------------------------------------------------
(* Every step tears nothing. *)

\* At the start nothing is on its way, nothing read and nothing handed over.
LEMMA TornInitInv == Init => TornInv
<1> SUFFICES ASSUME Init PROVE TornInv
  OBVIOUS
<1>1. PICK enabled \in BOOLEAN : g = NewLink(enabled)
  BY DEF Init, GuestInit
<1>2. /\ g.pend = {} /\ g.dedup = <<>> /\ g.q = [p \in Queues |-> <<>>]
      /\ g.rasm = [ch \in Chans |-> Closed]
  BY <1>1 DEF NewLink, NoChannelState
<1>3. /\ c.pend = {} /\ c.dedup = {} /\ c.rasm = [ch \in Chans |-> Closed]
      /\ running = {} /\ toGuest = <<>> /\ out = <<>>
  BY DEF Init, CompanionInit, GuestInit, NewSession
<1>4. /\ Datagrams(out) = {} /\ Datagrams(toGuest) = {} /\ Queued(g) = {}
      /\ Datagrams(g.dedup) = {}
  <2>1. Datagrams(<<>>) = {}
    BY DEF Datagrams
  <2>2. \A p \in Queues : g.q[p] = <<>>
    BY <1>2
  <2> QED BY <1>2, <1>3, <2>1, <2>2 DEF Queued
<1>5. /\ Outbound = {} /\ ToSdk = {} /\ ToLink = {}
      /\ \A ch \in Chans : ~g.rasm[ch].open /\ ~c.rasm[ch].open
  BY <1>2, <1>3, <1>4 DEF Outbound, ToSdk, ToLink, Pieces, Closed
<1>6. AllCut(Outbound) /\ AllCut(Datagrams(toGuest)) /\ ShortAnswers
  BY <1>2, <1>3, <1>4, <1>5 DEF AllCut, ShortAnswers, Short
<1>7. LinkPieces /\ SdkPieces
  BY <1>5 DEF LinkPieces, SdkPieces, OfOne, ReadOf
<1>8. Reported
  <2>1. h.heard = [who \in {"guest", "sdk"} |-> <<>>]
    BY DEF Init
  <2>2. <<>> \in Seq(Report)
    OBVIOUS
  <2> QED BY <2>1, <2>2 DEF Reported
<1> QED BY <1>6, <1>7, <1>8 DEF TornInv

\* Every step of the game, the companion and the network is a turn of one end.
LEMMA EveryTurn ==
  ASSUME MaxLoads = 0, \A r \in Reqs : Size[r] = 1, IpcInv, TornInv, IdsLast, [Next]_vars
  PROVE  GuestTurns \/ SdkTurns
<1>1. ~Save /\ ~Load
  <2>1. used.loads \in 0 .. MaxLoads
    BY DEF IpcInv, BooksOK
  <2>2. ~(used.loads < MaxLoads)
    BY <2>1
  <2> QED BY <2>2 DEF Save, Load, May
<1>2. CASE GuestMoves
  BY <1>2, ReceiveTurns, PumpTurns DEF GuestMoves
<1>3. CASE GuestSays \/ GuestAsks \/ OtherModAnswers
  BY <1>3, SaysTurns, AsksTurns, OtherModTurns
<1>4. CASE Lose \/ Duplicate \/ NobodyListens \/ UNCHANGED vars
  BY <1>4, NetworkTurns
<1>5. CASE SdkMoves
  BY <1>5, SdkReceiveTurns, HandlerTurns, TimersTurns, SdkRetryTurns DEF SdkMoves
<1>6. CASE SdkSays \/ SdkAsks \/ HandlerAsks
  BY <1>6, SdkSaysTurns, SdkAsksTurns
<1>7. CASE SdkStops \/ SdkStarts \/ StrayHello
  BY <1>7, StopsTurns, StrayTurns
<1> QED BY <1>1, <1>2, <1>3, <1>4, <1>5, <1>6, <1>7 DEF Next

\* So every step keeps the pieces of one id together.
LEMMA TornNextInv ==
  ASSUME MaxLoads = 0, \A r \in Reqs : Size[r] = 1
  PROVE  IpcInv /\ IpcInv' /\ TornInv /\ IdsLast /\ [Next]_vars => TornInv'
BY EveryTurn, GuestTurnsTorn, SdkTurnsTorn

\* What the applications are handed is whole: with every loss, copy, change of
\* order, expiry and end of a session, the frames put together were cut from one
\* message (reassemble of link.go and session.go, which know a message by its
\* correlation id and the number of its frames alone; sendMessage).  A load or a
\* counter that wraps may give two messages one id, so there is neither.
THEOREM NoMessageTorn ==
  ASSUME MaxLoads = 0, \A r \in Reqs : Size[r] = 1
  PROVE  Spec /\ []IdsLast => []NothingTorn
<1>1. Init => TornInv
  BY TornInitInv
<1>2. IpcInv /\ IpcInv' /\ TornInv /\ IdsLast /\ [Next]_vars => TornInv'
  BY TornNextInv
<1>3. TornInv => NothingTorn
  <2> SUFFICES ASSUME TornInv, NEW who \in {"guest", "sdk"}, NEW i \in DOMAIN h.heard[who]
               PROVE  h.heard[who][i].intact
    BY DEF NothingTorn
  <2>1. h.heard[who] \in Seq(Report)
    BY DEF TornInv, Reported
  <2>2. h.heard[who][i] \in Report
    BY <2>1, ElementOfSeq, LenProperties
  <2> QED BY <2>2 DEF Report
<1>4. Spec => []IpcInv
  BY IpcInvariance
<1> QED BY <1>1, <1>2, <1>3, <1>4, PTL DEF Spec

-----------------------------------------------------------------------------
(* News: within a session, what is heard is newer than what was heard.     *)
(*                                                                         *)
(* The applications count what they say, so this is about the counts that  *)
(* are on their way: a frame ahead of another of its session bears as late *)
(* a count, and a message that is not a snapshot a later one.  An end that *)
(* skips a number to a protocol message it heard must not bring an older   *)
(* message ahead with it: the numbers it compares lie on a line.           *)

\* The serial comparison takes x for newer than y.
Ahead(x, y) == SerialDelta(x, y) > 0

\* The applications' messages among the frames F.
News(F) == {f \in F : f.type = "MSG"}
Snapshot(f) == f.flag = "snapshot"

InOrder(F) ==
  \A f, k \in News(F) : f.epoch = k.epoch /\ Ahead(f.seq, k.seq) =>
    k.body <= f.body /\ (~Snapshot(f) => k.body < f.body)

\* Nobody has heard or will hear of what was not said: n counts what was.
SaidOf(F, hd, n) ==
  (\A f \in News(F) : f.body \in 0 .. n) /\ (\A i \in DOMAIN hd : hd[i].n \in 0 .. n)

\* A message of session e would be newer than the last one heard, if that was of e too.
LastOf(hd, e) == hd # <<>> /\ hd[Len(hd)].epoch = e
Newer(f, e, hd) == LastOf(hd, e) /\ f.epoch = e /\ ~Snapshot(f) => hd[Len(hd)].n < f.body

Awaited(F, e, rx, hd) == \A f \in News(F) : Ahead(f.seq, rx[f.ch]) => Newer(f, e, hd)
Unopened(F, e, hd) == \A f \in News(F) : Newer(f, e, hd)

\* The numbers an end in session e compares lie on a line.
Numbered(x, F, e, rx) ==
  (\E ch \in Chans : x = rx[ch]) \/ (\E f \in F : DataOf(f, e) /\ x = f.seq)
Line(F, e, rx) ==
  \A x, y, z : /\ Numbered(x, F, e, rx) /\ Numbered(y, F, e, rx) /\ Numbered(z, F, e, rx)
               /\ Ahead(x, y) /\ Ahead(y, z)
               => Ahead(x, z)

Ordered(hd) ==
  \A i \in 2 .. Len(hd) :
    hd[i].epoch = hd[i - 1].epoch /\ ~hd[i].snapshot => hd[i].n > hd[i - 1].n

Zeros == [ch \in Chans |-> 0]
FromGuest == /\ InOrder(Outbound) /\ Ordered(h.heard.sdk)
             /\ SaidOf(Outbound, h.heard.sdk, h.said.guest)
             /\ c.up => /\ Awaited(Outbound, c.epoch, c.rxLast, h.heard.sdk)
                        /\ Line(Outbound, c.epoch, c.rxLast)
FromSdk == /\ InOrder(Datagrams(toGuest)) /\ Ordered(h.heard.guest)
           /\ SaidOf(Datagrams(toGuest), h.heard.guest, h.said.sdk)
           /\ g.up => /\ Awaited(Datagrams(toGuest), g.epoch, g.rxLast, h.heard.guest)
                      /\ Line(Datagrams(toGuest), g.epoch, g.rxLast)

\* A session that is offered will be heard from its start: the offer answers a
\* HELLO the guest sent before, and the last HELLO only if nothing of that
\* session was heard.
Offers ==
  \A a \in Datagrams(toGuest) : a.type = "HELLO_ACK" =>
    /\ a.corr <= g.corrCtr \/ a.corr = 1
    /\ Line(Datagrams(toGuest), a.epoch, Zeros)
    /\ g.helloCorr # 0 /\ a.corr = g.helloCorr =>
         Unopened(Datagrams(toGuest), a.epoch, h.heard.guest)
Greetings ==
  /\ \A f \in Datagrams(out) : f.type = "HELLO" => f.corr <= g.corrCtr
  /\ g.up \/ g.helloCorr # 0 \/ h.heard.guest # <<>> => g.corrCtr >= 1

NewsInv == FromGuest /\ FromSdk /\ Offers /\ Greetings

OneChannel == \A ch, d \in Chans : ch = d

\* Two numbers at or behind a third are as far apart as their distances to it.
LEMMA SerialDeltaBehind ==
  ASSUME NEW t \in Word, NEW x \in Word, NEW y \in Word,
         SerialDelta(t, x) >= 0, SerialDelta(t, y) >= 0
  PROVE  SerialDelta(x, y) = SerialDelta(t, y) - SerialDelta(t, x)
<1> DEFINE m == U32  p == SerialDelta(t, x)  q == SerialDelta(t, y)  r == SerialDelta(x, y)
<1>1. /\ p \in {t - x, t - x + m, t - x - m} /\ q \in {t - y, t - y + m, t - y - m}
      /\ r \in {x - y, x - y + m, x - y - m}
      /\ p \in 0 .. (m \div 2) - 1 /\ q \in 0 .. (m \div 2) - 1
      /\ r \in -(m \div 2) .. (m \div 2) - 1
  BY SerialDeltaRange
<1>2. m \in Nat /\ 2 * (m \div 2) = m /\ m \div 2 \in Nat
      /\ t \in 0 .. m - 1 /\ x \in 0 .. m - 1 /\ y \in 0 .. m - 1
  BY HalfModulus, WireAssumption DEF Word
<1> HIDE DEF m, p, q, r
<1>3. \E i \in -2 .. 2 : q - p = x - y + i * m
  <2>1. q - p = x - y \/ q - p = x - y + m \/ q - p = x - y - m
        \/ q - p = x - y + 2 * m \/ q - p = x - y - 2 * m
    BY <1>1, <1>2
  <2>2. 0 * m = 0 /\ 1 * m = m /\ (-1) * m = -m /\ (-2) * m = -(2 * m)
    BY <1>2
  <2> QED BY <1>2, <2>1, <2>2
<1>4. r = q - p
  <2>1. q - p = x - y \/ q - p = x - y + m \/ q - p = x - y - m
        \/ q - p = x - y + 2 * m \/ q - p = x - y - 2 * m
    BY <1>1, <1>2
  <2> QED BY <1>1, <1>2, <2>1
<1> QED BY <1>4 DEF p, q, r

\* Of two numbers one is newer at most.
LEMMA AheadOnce ==
  ASSUME NEW x \in Word, NEW y \in Word, Ahead(x, y)
  PROVE  ~Ahead(y, x) /\ x # y
<1>1. SerialDelta(x, x) = 0 /\ SerialDelta(x, y) >= 0 /\ SerialDelta(x, y) \in Int
  BY SerialDeltaSelf, SerialDeltaRange DEF Ahead
<1>2. SerialDelta(y, x) = SerialDelta(x, x) - SerialDelta(x, y)
  BY <1>1, SerialDeltaBehind
<1> QED BY <1>1, <1>2 DEF Ahead

\* Numbers at or behind one counter lie on a line.
LEMMA LineBehind ==
  ASSUME NEW t \in Word, NEW F, NEW e, NEW rx,
         \A x : Numbered(x, F, e, rx) => x \in Word /\ SerialDelta(t, x) >= 0
  PROVE  Line(F, e, rx)
<1> SUFFICES ASSUME NEW x, NEW y, NEW z, Numbered(x, F, e, rx), Numbered(y, F, e, rx),
                    Numbered(z, F, e, rx), Ahead(x, y), Ahead(y, z)
             PROVE  Ahead(x, z)
  BY DEF Line
<1>1. /\ x \in Word /\ y \in Word /\ z \in Word
      /\ SerialDelta(t, x) \in Nat /\ SerialDelta(t, y) \in Nat /\ SerialDelta(t, z) \in Nat
  BY SerialDeltaRange, HalfModulus
<1>2. /\ SerialDelta(x, y) = SerialDelta(t, y) - SerialDelta(t, x)
      /\ SerialDelta(y, z) = SerialDelta(t, z) - SerialDelta(t, y)
      /\ SerialDelta(x, z) = SerialDelta(t, z) - SerialDelta(t, x)
  BY <1>1, SerialDeltaBehind
<1> QED BY <1>1, <1>2 DEF Ahead

\* Fewer numbers do too.
LEMMA LineFewer ==
  ASSUME NEW F, NEW e, NEW rx, Line(F, e, rx), NEW G, NEW d, NEW ry,
         \A x : Numbered(x, G, d, ry) => Numbered(x, F, e, rx)
  PROVE  Line(G, d, ry)
BY DEF Line

\* So do those of fewer frames.
LEMMA LineOfLess ==
  ASSUME NEW F, NEW e, NEW rx, Line(F, e, rx), NEW G, \A f \in G : DataOf(f, e) => f \in F
  PROVE  Line(G, e, rx)
<1>1. \A x : Numbered(x, G, e, rx) => Numbered(x, F, e, rx)
  BY DEF Numbered
<1> QED BY <1>1, LineFewer

-----------------------------------------------------------------------------
(* What is said and what is heard. *)

\* An end of session e whose counters are at tx, and that had said n messages,
\* has now said m: its only new one bears the next number and the last count.
Speaks(up, e, tx, F, G, n, m) ==
  /\ n \in Nat /\ m \in Nat /\ n <= m
  /\ \A f \in News(G) :
       \/ f \in F
       \/ /\ up /\ f.epoch = e /\ f.seq = Add(tx[f.ch], 1)
          /\ f.body = m /\ (Snapshot(f) \/ n < m)

\* What is said comes after all that was said before.
LEMMA TellsKeep ==
  ASSUME OneChannel, NEW F, NEW G, G \subseteq Frame, NEW up, NEW e, NEW tx \in [Chans -> Word],
         NEW n, NEW m, Speaks(up, e, tx, F, G, n, m), NEW hd, InOrder(F), SaidOf(F, hd, n),
         hd # <<>> => Len(hd) \in DOMAIN hd,
         up => \A f \in F : DataOf(f, e) => Trails(tx, f.ch, f.seq, 0) /\ Fits(tx, f.ch, f.seq)
  PROVE  /\ InOrder(G) /\ SaidOf(G, hd, m)
         /\ \A f \in News(G) : \A d : f \in F \/ Newer(f, d, hd)
<1>1. n \in Nat /\ m \in Nat /\ n <= m
  BY DEF Speaks
<1>2. \A f \in News(G) : f \in DataFrame /\ f.ch \in Chans /\ f.seq \in Word /\ f.type = "MSG"
  <2>1. \A f \in News(G) : f \in Frame /\ f.type \in DataTypes /\ f.type = "MSG"
    BY DEF News, DataTypes
  <2> QED BY <2>1, DataFrames DEF DataFrame
<1>3. ASSUME NEW f \in News(G), f \notin F
      PROVE  /\ up /\ f.epoch = e /\ f.seq = Add(tx[f.ch], 1)
             /\ f.body = m /\ (Snapshot(f) \/ n < m)
  BY <1>3 DEF Speaks
<1>4. ASSUME NEW f \in News(G), f \in F
      PROVE  f \in News(F) /\ f.body \in Nat /\ f.body <= n
  BY <1>1, <1>4 DEF News, SaidOf
<1>5. ASSUME NEW f \in News(G), f \in F, NEW k \in News(G), k \notin F, f.epoch = k.epoch
      PROVE  ~Ahead(f.seq, k.seq)
  <2>1. up /\ k.epoch = e /\ k.seq = Add(tx[k.ch], 1) /\ f.ch = k.ch
    BY <1>2, <1>3, <1>5 DEF OneChannel
  <2>2. DataOf(f, e)
    BY <1>2, <1>5, <2>1 DEF DataOf, DataFrame
  <2>3. Trails(tx, f.ch, f.seq, 0) /\ Fits(tx, f.ch, f.seq)
    BY <1>5, <2>1, <2>2
  <2> DEFINE t == tx[f.ch]  x == f.seq
  <2>4. t \in Word /\ x \in Word
    BY <1>2
  <2>5. SerialDelta(t, x) \in 0 .. (U32 \div 2) - 1 - 1
    BY <2>3, <2>4, HalfModulus, WireAssumption DEF Trails, Fits, Spare
  <2> HIDE DEF t, x
  <2>6. SerialDelta(Add(t, 1), x) = SerialDelta(t, x) + 1
    BY <2>4, <2>5, SerialDeltaOfSum
  <2>7. Add(t, 1) \in Word /\ Ahead(Add(t, 1), x)
    <3>1. t \in Int /\ SerialDelta(t, x) >= 0 /\ SerialDelta(t, x) \in Int
      BY <2>4, <2>5, HalfModulus, WireAssumption DEF Word
    <3>2. Add(t, 1) \in Word
      BY <3>1, AddSubWord
    <3>3. SerialDelta(Add(t, 1), x) > 0
      BY <2>6, <3>1
    <3> QED BY <3>2, <3>3 DEF Ahead
  <2>8. ~Ahead(x, Add(t, 1))
    BY <2>4, <2>7, AheadOnce
  <2> QED BY <2>1, <2>8 DEF t, x
<1>6. ASSUME NEW f \in News(G), NEW k \in News(G), f.epoch = k.epoch, Ahead(f.seq, k.seq)
      PROVE  k.body <= f.body /\ (~Snapshot(f) => k.body < f.body)
  <2>1. CASE f \in F /\ k \in F
    BY <1>4, <1>6, <2>1 DEF InOrder
  <2>2. CASE f \notin F /\ k \in F
    BY <1>1, <1>3, <1>4, <2>2
  <2>3. CASE f \in F /\ k \notin F
    BY <1>5, <1>6, <2>3
  <2>4. CASE f \notin F /\ k \notin F
    <3>1. f.seq = k.seq
      BY <1>2, <1>3, <2>4 DEF OneChannel
    <3> QED BY <1>2, <1>6, <3>1, AheadOnce
  <2> QED BY <2>1, <2>2, <2>3, <2>4
<1>7. InOrder(G)
  BY <1>6 DEF InOrder
<1>8. SaidOf(G, hd, m)
  <2>1. \A f \in News(G) : f.body \in 0 .. m
    BY <1>1, <1>3, <1>4
  <2> QED BY <1>1, <2>1 DEF SaidOf
<1>9. ASSUME NEW f \in News(G), f \notin F, NEW d
      PROVE  Newer(f, d, hd)
  <2>1. hd # <<>> => hd[Len(hd)].n \in 0 .. n
    BY DEF SaidOf
  <2> QED BY <1>1, <1>3, <1>9, <2>1 DEF Newer, LastOf
<1> QED BY <1>7, <1>8, <1>9

\* An end of session e that had last heard the numbers rx, and its application hd,
\* takes nothing of the session, or one frame of F: of an application's message,
\* which the application is handed, or of another.
HandedOver(f, hd, kd) ==
  \E r : kd = Append(hd, r) /\ r.epoch = f.epoch /\ r.n = f.body /\ r.snapshot = Snapshot(f)
Takes(up, e, F, rx, ry, hd, kd) ==
  \/ ry = rx /\ kd = hd
  \/ \E f \in F :
       /\ up /\ DataOf(f, e) /\ ry = [rx EXCEPT ![f.ch] = f.seq]
       /\ (f.type = "MSG" /\ Snapshot(f)) \/ Ahead(f.seq, rx[f.ch])
       /\ IF f.type = "MSG" THEN HandedOver(f, hd, kd) ELSE kd = hd

\* What is heard is newer, and what is still to come newer than that.
LEMMA TakesKeep ==
  ASSUME OneChannel, NEW F, F \subseteq Frame, NEW up, NEW e, NEW rx \in [Chans -> Word], NEW ry,
         NEW S, NEW hd \in Seq(S), NEW kd, Takes(up, e, F, rx, ry, hd, kd), NEW n,
         Ordered(hd), InOrder(F), SaidOf(F, hd, n),
         up => Awaited(F, e, rx, hd) /\ Line(F, e, rx)
  PROVE  /\ Ordered(kd) /\ SaidOf(F, kd, n)
         /\ up => Awaited(F, e, ry, kd) /\ Line(F, e, ry)
<1>1. CASE ry = rx /\ kd = hd
  BY <1>1
<1>2. ASSUME NEW f \in F, up, DataOf(f, e), ry = [rx EXCEPT ![f.ch] = f.seq],
             (f.type = "MSG" /\ Snapshot(f)) \/ Ahead(f.seq, rx[f.ch]),
             IF f.type = "MSG" THEN HandedOver(f, hd, kd) ELSE kd = hd
      PROVE  Ordered(kd) /\ SaidOf(F, kd, n) /\ Awaited(F, e, ry, kd) /\ Line(F, e, ry)
  <2>1. f \in DataFrame /\ f.ch \in Chans /\ f.seq \in Word /\ f.epoch = e
    BY <1>2, DataFrames DEF DataOf, DataFrame
  <2>2. ASSUME NEW ch \in Chans PROVE ry[ch] = f.seq
    BY <1>2, <2>1 DEF OneChannel
  <2>3. Line(F, e, ry)
    <3>1. Numbered(f.seq, F, e, rx)
      BY <1>2 DEF Numbered
    <3>2. \A x : Numbered(x, F, e, ry) => Numbered(x, F, e, rx)
      BY <2>2, <3>1 DEF Numbered
    <3> QED BY <1>2, <3>2, LineFewer
  <2>4. \A k \in News(F) : k.ch \in Chans /\ (k.epoch = e => DataOf(k, e))
    <3>1. \A k \in News(F) : k \in Frame /\ k.type \in DataTypes
      BY DEF News, DataTypes
    <3> QED BY <3>1, DataFrames DEF DataFrame, DataOf
  <2>5. CASE f.type # "MSG"
    <3>1. kd = hd
      BY <1>2, <2>5
    <3>2. ASSUME NEW k \in News(F), Ahead(k.seq, ry[k.ch]) PROVE Newer(k, e, hd)
      <4>1. CASE k.epoch = e
        <5>1. /\ Numbered(k.seq, F, e, rx) /\ Numbered(f.seq, F, e, rx)
              /\ Numbered(rx[f.ch], F, e, rx)
          BY <1>2, <2>1, <2>4, <4>1 DEF Numbered, News
        <5>2. Ahead(k.seq, f.seq) /\ Ahead(f.seq, rx[f.ch])
          BY <1>2, <2>2, <2>4, <2>5, <3>2
        <5>3. Ahead(k.seq, rx[f.ch]) /\ k.ch = f.ch
          BY <1>2, <2>1, <2>4, <5>1, <5>2 DEF Line, OneChannel
        <5> QED BY <1>2, <5>3 DEF Awaited
      <4>2. CASE k.epoch # e
        BY <4>2 DEF Newer
      <4> QED BY <4>1, <4>2
    <3>3. Awaited(F, e, ry, kd)
      BY <3>1, <3>2 DEF Awaited
    <3> QED BY <2>3, <3>1, <3>3
  <2>6. CASE f.type = "MSG"
    <3>1. PICK r : /\ kd = Append(hd, r) /\ r.epoch = f.epoch /\ r.n = f.body
                   /\ r.snapshot = Snapshot(f)
      BY <1>2, <2>6 DEF HandedOver
    <3>2. /\ Len(hd) \in Nat /\ Len(kd) = Len(hd) + 1 /\ kd # <<>> /\ kd[Len(kd)] = r
          /\ DOMAIN kd = 1 .. Len(hd) + 1 /\ DOMAIN hd = 1 .. Len(hd)
          /\ \A i \in 1 .. Len(hd) : kd[i] = hd[i]
      <4>1. hd \in Seq(S \cup {r})
        BY SeqMonotonic
      <4>2. r \in S \cup {r}
        OBVIOUS
      <4> DEFINE T == S \cup {r}
      <4> HIDE DEF T
      <4>3. hd \in Seq(T) /\ r \in T
        BY <4>1, <4>2 DEF T
      <4>4. /\ kd \in Seq(T) /\ Len(kd) = Len(hd) + 1 /\ kd[Len(hd) + 1] = r
            /\ \A i \in 1 .. Len(hd) : kd[i] = hd[i]
        BY <3>1, <4>3, AppendProperties
      <4>5. Len(hd) \in Nat /\ DOMAIN hd = 1 .. Len(hd) /\ DOMAIN kd = 1 .. Len(kd)
        BY <4>3, <4>4, LenProperties
      <4> QED BY <4>4, <4>5
    <3>3. f \in News(F)
      BY <2>6 DEF News
    <3>4. SaidOf(F, kd, n)
      <4>1. f.body \in 0 .. n
        BY <3>3 DEF SaidOf
      <4>2. ASSUME NEW i \in DOMAIN kd PROVE kd[i].n \in 0 .. n
        <5>1. i \in 1 .. Len(hd) \/ i = Len(kd)
          BY <3>2
        <5>2. \A j \in DOMAIN hd : hd[j].n \in 0 .. n
          BY DEF SaidOf
        <5> QED BY <3>1, <3>2, <4>1, <5>1, <5>2
      <4> QED BY <4>2 DEF SaidOf
    <3>5. Awaited(F, e, ry, kd)
      <4> SUFFICES ASSUME NEW k \in News(F), Ahead(k.seq, ry[k.ch]), k.epoch = e, ~Snapshot(k)
                   PROVE  f.body < k.body
        BY <3>1, <3>2 DEF Awaited, Newer
      <4>1. Ahead(k.seq, f.seq) /\ k.epoch = f.epoch
        BY <2>1, <2>2, <2>4
      <4> QED BY <3>3, <4>1 DEF InOrder
    <3>6. Ordered(kd)
      <4> SUFFICES ASSUME NEW i \in 2 .. Len(kd), kd[i].epoch = kd[i - 1].epoch, ~kd[i].snapshot
                   PROVE  kd[i].n > kd[i - 1].n
        BY DEF Ordered
      <4>1. CASE i \in 2 .. Len(hd)
        <5>1. kd[i] = hd[i] /\ kd[i - 1] = hd[i - 1]
          BY <3>2, <4>1
        <5> QED BY <4>1, <5>1 DEF Ordered
      <4>2. CASE i = Len(kd)
        <5>1. kd[i] = r /\ kd[i - 1] = hd[Len(hd)] /\ hd # <<>> /\ Len(hd) \in DOMAIN hd
          <6>1. i - 1 = Len(hd) /\ Len(hd) \in 1 .. Len(hd)
            BY <3>2, <4>2
          <6> QED BY <3>2, <4>2, <6>1
        <5>2. Ahead(f.seq, rx[f.ch]) /\ ~Snapshot(f)
          BY <1>2, <3>1, <5>1
        <5>3. Newer(f, e, hd)
          BY <1>2, <3>3, <5>2 DEF Awaited
        <5>4. hd[Len(hd)].n < f.body /\ hd[Len(hd)].n \in Int /\ f.body \in Int
          BY <2>1, <3>1, <3>3, <5>1, <5>2, <5>3 DEF Newer, LastOf, SaidOf
        <5> QED BY <3>1, <5>1, <5>4
      <4> QED BY <3>2, <4>1, <4>2
    <3> QED BY <2>3, <3>4, <3>5, <3>6
  <2> QED BY <2>5, <2>6
<1>3. CASE \E f \in F :
       /\ up /\ DataOf(f, e) /\ ry = [rx EXCEPT ![f.ch] = f.seq]
       /\ (f.type = "MSG" /\ Snapshot(f)) \/ Ahead(f.seq, rx[f.ch])
       /\ IF f.type = "MSG" THEN HandedOver(f, hd, kd) ELSE kd = hd
  BY <1>2, <1>3
<1> QED BY <1>1, <1>3 DEF Takes

\* What is recorded of requests is neither said nor heard (Settled, Ran).
LEMMA OfRequests ==
  ASSUME HistoryOK(h), NEW v,
         \/ h' = h \/ h' = [h EXCEPT !.told = v] \/ h' = [h EXCEPT !.asked = v]
         \/ h' = [h EXCEPT !.ran = v]
  PROVE  h'.said = h.said /\ h'.heard = h.heard
BY DEF HistoryOK

\* Only a datagram that is read is heard, and only an application says.
LEMMA OthersSayNothing ==
  ASSUME IpcInv, [Next]_vars, ~Load, ~GuestSays, ~SdkSays
  PROVE  /\ h'.said = h.said
         /\ GuestReceives \/ SdkReceives \/ h'.heard = h.heard
<1>1. HistoryOK(h)
  BY DEF IpcInv, BooksOK
<1>2. CASE Lose \/ Duplicate \/ NobodyListens \/ Save \/ OtherModAnswers \/ PumpStarts
           \/ TimerRound \/ SdkStarts \/ UNCHANGED vars
  <2>1. h' = h
    BY <1>2 DEF Lose, Duplicate, NobodyListens, Save, OtherModAnswers, PumpStarts,
                TimerRound, SdkStarts, vars
  <2> QED BY <1>1, <2>1, OfRequests
<1>3. CASE PumpRuns \/ SdkTimers \/ SdkRetries \/ SdkStops \/ StrayHello
  <2>1. h' = h \/ \E t : h' = [h EXCEPT !.told = t]
    BY <1>3 DEF PumpRuns, SdkTimers, DedupExpires, SdkRetries, SdkStops, StrayHello, Settled
  <2> QED BY <1>1, <2>1, OfRequests
<1>4. CASE GuestAsks \/ SdkAsks \/ HandlerAsks
  <2>1. h' = h \/ \E a : h' = [h EXCEPT !.asked = a]
    BY <1>4 DEF GuestAsks, SdkAsks, HandlerAsks
  <2> QED BY <1>1, <2>1, OfRequests
<1>5. CASE HandlerEnds
  <2>1. PICK r : h' = Ran(h, r) \/ h' = h
    BY <1>5 DEF HandlerEnds
  <2>2. Ran(h, r) = h \/ \E v : Ran(h, r) = [h EXCEPT !.ran = v]
    BY <1>1 DEF Ran, HistoryOK
  <2>3. h' = h \/ \E v : h' = [h EXCEPT !.ran = v]
    BY <2>1, <2>2
  <2> QED BY <1>1, <2>3, OfRequests
<1>6. CASE GuestReceives \/ SdkReceives
  <2>1. PICK f : h' = GuestLearns(f) \/ h' = SdkLearns(f)
    BY <1>6 DEF GuestReceives, SdkReceives
  <2>2. h'.said = h.said
    <3>1. ASSUME NEW who, NEW e, NEW m PROVE Heard(h, who, e, m).said = h.said
      BY <1>1 DEF Heard, HistoryOK
    <3>2. ASSUME NEW r PROVE Ran(h, r).said = h.said
      BY <1>1 DEF Ran, HistoryOK
    <3>3. ASSUME NEW v PROVE [h EXCEPT !.told = v].said = h.said
      BY <1>1 DEF HistoryOK
    <3>4. CASE h' = GuestLearns(f)
      <4> DEFINE m == Message(g, f)
                 lost == Settled(h, g.pend, g'.pend, Lost)
                 told == Settled(h, g.pend, g'.pend, LAMBDA r : ReplyOf(m, r))
      <4>1. GuestLearns(f) \in {lost, told, Heard(h, "guest", f.epoch, m),
                                Ran(h, BodyOf(m.parts)), h}
        BY DEF GuestLearns
      <4>2. lost.said = h.said /\ told.said = h.said
        BY <3>3 DEF Settled
      <4> HIDE DEF lost, told, m
      <4> QED BY <3>1, <3>2, <3>4, <4>1, <4>2
    <3>5. CASE h' = SdkLearns(f)
      <4> DEFINE m == SdkMessage(f)
                 lost == Settled(h, c.pend, c'.pend, Lost)
                 told == Settled(h, c.pend, c'.pend, LAMBDA r : ReplyOf(m, r))
      <4>1. SdkLearns(f) \in {lost, told, Heard(h, "sdk", f.epoch, m), h}
        BY DEF SdkLearns
      <4>2. lost.said = h.said /\ told.said = h.said
        BY <3>3 DEF Settled
      <4> HIDE DEF lost, told, m
      <4> QED BY <3>1, <3>5, <4>1, <4>2
    <3> QED BY <2>1, <3>4, <3>5
  <2> QED BY <1>6, <2>2
<1> QED BY <1>2, <1>3, <1>4, <1>5, <1>6 DEF Next, GuestMoves, SdkMoves

GuestTells == Speaks(g.up, g.epoch, g.txSeq, Outbound, Outbound', h.said.guest, h'.said.guest)
SdkTells == Speaks(c.up, c.epoch, c.txSeq, Datagrams(toGuest), Datagrams(toGuest'),
                  h.said.sdk, h'.said.sdk)

\* A step that says nothing puts no message on its way.
LEMMA TellsNothing ==
  ASSUME NEW up, NEW e, NEW tx, NEW F, NEW G, NEW n \in Nat,
         \A f \in G : f \in F \/ f.type # "MSG"
  PROVE  Speaks(up, e, tx, F, G, n, n)
BY DEF Speaks, News

\* What was said is counted.
LEMMA SaidCounts ==
  ASSUME IpcInv
  PROVE  h.said.guest \in Nat /\ h.said.sdk \in Nat
BY FkIpcAssumption DEF IpcInv, BooksOK, HistoryOK

\* A message of one frame takes the next number of its channel (sendMessage).
LEMMA OneFragment ==
  ASSUME NEW type, NEW flag, NEW ch, NEW e, NEW seq, NEW corr, NEW b \in Bodies, Size[b] = 1,
         NEW f \in Datagrams(Fragments(type, flag, ch, e, seq, corr, b))
  PROVE  /\ f.type = type /\ f.flag = flag /\ f.ch = ch /\ f.epoch = e /\ f.body = b
         /\ f.seq = Add(seq, 1)
<1> DEFINE fs == Fragments(type, flag, ch, e, seq, corr, b)
<1>1. DOMAIN fs = 1 .. Size[b]
  BY DEF Fragments
<1>2. PICK i \in 1 .. Size[b] : f = fs[i]
  BY <1>1 DEF Datagrams
<1>3. i = 1
  BY <1>2
<1>4. f = [type |-> type, flag |-> flag, ch |-> ch, epoch |-> e, seq |-> Add(seq, 1),
           corr |-> corr, frag |-> 1 - 1, nfrag |-> Size[b], body |-> b]
  BY <1>2, <1>3 DEF Fragments
<1> QED BY <1>4

\* So does what the guest's application says (Send, Snapshot).
LEMMA GuestSaysTells ==
  ASSUME \A b \in Bodies : Size[b] = 1, IpcInv, GuestSays
  PROVE  GuestTells /\ h'.said.sdk = h.said.sdk /\ h'.heard = h.heard
<1> DEFINE n == h.said.guest  m == h'.said.guest
<1>1. HistoryOK(h) /\ n \in 0 .. GuestMsgs /\ GuestMsgs \in Nat /\ n \in Nat
  BY FkIpcAssumption, SaidCounts DEF IpcInv, BooksOK, HistoryOK
<1>2. PICK ch \in Chans :
       \/ /\ n < GuestMsgs
          /\ \E flag \in {"none", "snapshot"} : AppSend(ch, flag, n + 1)
          /\ h' = [h EXCEPT !.said.guest = @ + 1]
       \/ AppSend(ch, "snapshot", n) /\ h' = h
  BY DEF GuestSays
<1>3. /\ m \in 0 .. GuestMsgs /\ n <= m /\ h'.said.sdk = h.said.sdk /\ h'.heard = h.heard
      /\ \E flag \in {"none", "snapshot"} : AppSend(ch, flag, m) /\ (flag = "snapshot" \/ n < m)
  <2>1. CASE AppSend(ch, "snapshot", n) /\ h' = h
    BY <1>1, <2>1
  <2>2. CASE /\ n < GuestMsgs
             /\ \E flag \in {"none", "snapshot"} : AppSend(ch, flag, n + 1)
             /\ h' = [h EXCEPT !.said.guest = @ + 1]
    <3>1. /\ [h EXCEPT !.said.guest = @ + 1].said.guest = n + 1
          /\ [h EXCEPT !.said.guest = @ + 1].said.sdk = h.said.sdk
          /\ [h EXCEPT !.said.guest = @ + 1].heard = h.heard
      BY <1>1 DEF HistoryOK
    <3>2. m = n + 1 /\ h'.said.sdk = h.said.sdk /\ h'.heard = h.heard
      BY <2>2, <3>1
    <3>3. m \in 0 .. GuestMsgs /\ n < m /\ n <= m
      BY <1>1, <2>2, <3>2
    <3> HIDE DEF n, m
    <3> QED BY <2>2, <3>2, <3>3
  <2> QED BY <1>2, <2>1, <2>2
<1> HIDE DEF n, m
<1>4. PICK flag \in {"none", "snapshot"} : AppSend(ch, flag, m) /\ (flag = "snapshot" \/ n < m)
  BY <1>3
<1>5. /\ g \in LinkState /\ g.up /\ out' = out /\ Room(g, ch, m)
      /\ g' = SendMessage(g, "MSG", flag, ch, 0, m)
  BY <1>4 DEF IpcInv, GuestInv, Sound, AppSend, Callable
<1>6. m \in Bodies /\ flag \in Flags /\ 0 \in Word /\ "MSG" \in DataTypes
  BY <1>3, FkIpcAssumption, WireAssumption DEF Flags, DataTypes, Word
<1> DEFINE id == IF Mints(0, m) THEN NextCorr(g.corrCtr) ELSE 0
           fs == Fragments("MSG", flag, ch, g.epoch, g.txSeq[ch], id, m)
<1>7. Queued(g') \subseteq Queued(g) \cup Datagrams(fs)
  BY <1>5, <1>6, MessageQueued
<1>8. \A f \in Datagrams(fs) :
        /\ f.flag = flag /\ f.ch = ch /\ f.epoch = g.epoch /\ f.body = m
        /\ f.seq = Add(g.txSeq[ch], 1)
  BY <1>6, OneFragment
<1> HIDE DEF fs
<1>9. \A f \in Outbound' : f \in Outbound \/ f \in Datagrams(fs)
  BY <1>5, <1>7 DEF Outbound
<1>10. Speaks(g.up, g.epoch, g.txSeq, Outbound, Outbound', n, m)
  BY <1>1, <1>3, <1>4, <1>5, <1>8, <1>9 DEF Speaks, News, Snapshot
<1> QED BY <1>3, <1>10 DEF GuestTells, n, m

\* And what the companion's says (Send, Resync).
LEMMA SdkSaysTells ==
  ASSUME \A b \in Bodies : Size[b] = 1, IpcInv, SdkSays
  PROVE  SdkTells /\ h'.said.guest = h.said.guest /\ h'.heard = h.heard
<1> DEFINE n == h.said.sdk  m == h'.said.sdk
<1>1. HistoryOK(h) /\ n \in 0 .. SdkMsgs /\ SdkMsgs \in Nat /\ n \in Nat
  BY FkIpcAssumption, SaidCounts DEF IpcInv, BooksOK, HistoryOK
<1>2. PICK ch \in Chans :
       \/ /\ n < SdkMsgs
          /\ \/ \E flag \in {"none", "snapshot"} : SdkAppSend(ch, flag, n + 1)
             \/ SdkAppResync(ch)
          /\ h' = [h EXCEPT !.said.sdk = @ + 1]
       \/ SdkAppSend(ch, "snapshot", n) /\ h' = h
  BY DEF SdkSays
<1>3. /\ m \in 0 .. SdkMsgs /\ n <= m /\ h'.said.guest = h.said.guest /\ h'.heard = h.heard
      /\ \/ SdkAppResync(ch)
         \/ \E flag \in {"none", "snapshot"} : SdkAppSend(ch, flag, m) /\ (flag = "snapshot" \/ n < m)
  <2>1. CASE SdkAppSend(ch, "snapshot", n) /\ h' = h
    BY <1>1, <2>1
  <2>2. CASE /\ n < SdkMsgs
             /\ \/ \E flag \in {"none", "snapshot"} : SdkAppSend(ch, flag, n + 1)
                \/ SdkAppResync(ch)
             /\ h' = [h EXCEPT !.said.sdk = @ + 1]
    <3>1. /\ [h EXCEPT !.said.sdk = @ + 1].said.sdk = n + 1
          /\ [h EXCEPT !.said.sdk = @ + 1].said.guest = h.said.guest
          /\ [h EXCEPT !.said.sdk = @ + 1].heard = h.heard
      BY <1>1 DEF HistoryOK
    <3>2. m = n + 1 /\ h'.said.guest = h.said.guest /\ h'.heard = h.heard
      BY <2>2, <3>1
    <3>3. m \in 0 .. SdkMsgs /\ n < m /\ n <= m
      BY <1>1, <2>2, <3>2
    <3> HIDE DEF n, m
    <3> QED BY <2>2, <3>2, <3>3
  <2> QED BY <1>2, <2>1, <2>2
<1> HIDE DEF n, m
<1>4. \E type \in {"MSG", "RESYNC"}, flag \in {"none", "snapshot"}, b \in Bodies :
        /\ Do(SdkSend(Step(c), type, flag, ch, 0, b)) /\ c.up
        /\ type = "MSG" => b = m /\ (flag = "snapshot" \/ n < m)
  <2>1. m \in Bodies /\ NoBody \in Bodies
    BY <1>3, FkIpcAssumption, WireAssumption
  <2>2. CASE SdkAppResync(ch)
    BY <2>1, <2>2 DEF SdkAppResync, Sendable, Do
  <2>3. CASE \E flag \in {"none", "snapshot"} : SdkAppSend(ch, flag, m) /\ (flag = "snapshot" \/ n < m)
    <3>1. PICK flag \in {"none", "snapshot"} : SdkAppSend(ch, flag, m) /\ (flag = "snapshot" \/ n < m)
      BY <2>3
    <3>2. Do(SdkSend(Step(c), "MSG", flag, ch, 0, m)) /\ c.up
      BY <3>1 DEF SdkAppSend, Sendable
    <3> QED BY <2>1, <3>1, <3>2 DEF Do
  <2> QED BY <1>3, <2>2, <2>3
<1>5. PICK type \in {"MSG", "RESYNC"}, flag \in {"none", "snapshot"}, b \in Bodies :
        /\ Do(SdkSend(Step(c), type, flag, ch, 0, b)) /\ c.up
        /\ type = "MSG" => b = m /\ (flag = "snapshot" \/ n < m)
  BY <1>4
<1>6. CompanionTypeOK /\ type \in DataTypes /\ flag \in Flags /\ 0 \in Word
  BY WireAssumption DEF IpcInv, CompanionSound, DataTypes, Flags, Word
<1> DEFINE k == Step(c)
           r == SdkSend(k, type, flag, ch, 0, b)
<1>7. k \in Turn /\ k.s = c /\ k.sent = toGuest /\ toGuest' = r.sent
  <2>1. c \in SessionState
    BY <1>6 DEF CompanionTypeOK
  <2>2. k \in Turn /\ k.s = c /\ k.sent = toGuest
    BY <1>6, <2>1, StepTurn
  <2> QED BY <1>5, <2>2 DEF Do
<1> HIDE DEF k
<1>8. \E id : Datagrams(r.sent) \subseteq Datagrams(toGuest) \cup
                Datagrams(Fragments(type, flag, ch, c.epoch, c.txSeq[ch], id, b))
  <2>1. LET q == SdkSend(k, type, flag, ch, 0, b)
            mt == 0 = 0 /\ Size[b] > 1
            id == IF mt THEN NextCorr(k.s.corrCtr) ELSE 0
        IN  Datagrams(q.sent) \subseteq Datagrams(k.sent) \cup
              Datagrams(Fragments(type, flag, ch, k.s.epoch, k.s.txSeq[ch], id, b))
    BY <1>6, <1>7, SdkSendSound
  <2> HIDE DEF r
  <2> QED BY <1>7, <2>1 DEF r
<1>9. PICK id : Datagrams(r.sent) \subseteq Datagrams(toGuest) \cup
                  Datagrams(Fragments(type, flag, ch, c.epoch, c.txSeq[ch], id, b))
  BY <1>8
<1> DEFINE fs == Fragments(type, flag, ch, c.epoch, c.txSeq[ch], id, b)
<1>10. \A f \in Datagrams(fs) :
         /\ f.type = type /\ f.flag = flag /\ f.ch = ch /\ f.epoch = c.epoch /\ f.body = b
         /\ f.seq = Add(c.txSeq[ch], 1)
  BY OneFragment
<1> HIDE DEF fs, r
<1>11. \A f \in Datagrams(toGuest') : f \in Datagrams(toGuest) \/ f \in Datagrams(fs)
  <2>1. Datagrams(toGuest') = Datagrams(r.sent)
    BY <1>7 DEF Datagrams
  <2> QED BY <1>9, <2>1 DEF fs
<1>12. Speaks(c.up, c.epoch, c.txSeq, Datagrams(toGuest), Datagrams(toGuest'), n, m)
  BY <1>1, <1>3, <1>5, <1>10, <1>11 DEF Speaks, News, Snapshot
<1> QED BY <1>3, <1>12 DEF SdkTells, n, m

\* Every step says at most one message more, under the next number.
LEMMA EveryTells ==
  ASSUME MaxLoads = 0, \A b \in Bodies : Size[b] = 1, IpcInv, TornInv, IdsLast, [Next]_vars
  PROVE  /\ GuestTells /\ SdkTells
         /\ GuestReceives \/ SdkReceives \/ h'.heard = h.heard
<1>1. GuestTurns \/ SdkTurns
  <2>1. \A r \in Reqs : Size[r] = 1
    BY FkIpcAssumption DEF Reqs
  <2> QED BY <2>1, EveryTurn
<1>2. GuestSays \/ \A f \in Outbound' : f \in Outbound \/ f.type # "MSG"
  <2>1. CASE GuestTurns
    BY <2>1 DEF GuestTurns, GuestCuts
  <2>2. CASE SdkTurns
    <3>1. Outbound' \subseteq Outbound
      BY <2>2 DEF SdkTurns, Outbound
    <3> QED BY <3>1
  <2> QED BY <1>1, <2>1, <2>2
<1>3. SdkSays \/ \A f \in Datagrams(toGuest') : f \in Datagrams(toGuest) \/ f.type # "MSG"
  BY <1>1 DEF GuestTurns, SdkTurns, SdkCuts
<1>4. ~Load
  <2>1. used.loads \in 0 .. MaxLoads
    BY DEF IpcInv, BooksOK
  <2>2. ~(used.loads < MaxLoads)
    BY <2>1
  <2> QED BY <2>2 DEF Load, May
<1>5. h.said.guest \in Nat /\ h.said.sdk \in Nat
  BY SaidCounts
<1>6. CASE GuestSays
  <2>1. GuestTells /\ h'.said.sdk = h.said.sdk /\ h'.heard = h.heard
    BY <1>6, GuestSaysTells
  <2>2. SdkTells
    <3>1. Datagrams(toGuest') = Datagrams(toGuest)
      BY <1>6 DEF GuestSays, Datagrams
    <3> QED BY <1>5, <2>1, <3>1, TellsNothing DEF SdkTells
  <2> QED BY <2>1, <2>2
<1>7. CASE SdkSays
  <2>1. SdkTells /\ h'.said.guest = h.said.guest /\ h'.heard = h.heard
    BY <1>7, SdkSaysTells
  <2>2. GuestTells
    <3>1. Outbound' = Outbound
      BY <1>7 DEF SdkSays, Outbound, Datagrams
    <3> QED BY <1>5, <2>1, <3>1, TellsNothing DEF GuestTells
  <2> QED BY <2>1, <2>2
<1>8. CASE ~GuestSays /\ ~SdkSays
  <2>1. /\ h'.said = h.said
        /\ GuestReceives \/ SdkReceives \/ h'.heard = h.heard
    BY <1>4, <1>8, OthersSayNothing
  <2> QED BY <1>2, <1>3, <1>5, <1>8, <2>1, TellsNothing DEF GuestTells, SdkTells
<1> QED BY <1>6, <1>7, <1>8

-----------------------------------------------------------------------------
(* Hearing: what a step hands an application is what the end takes.        *)

GuestTakes ==
  /\ h'.heard.sdk = h.heard.sdk
  /\ \/ /\ GuestGoes
        /\ Takes(g.up, g.epoch, Datagrams(toGuest), g.rxLast, g'.rxLast,
                 h.heard.guest, h'.heard.guest)
     \/ /\ h'.heard.guest = h.heard.guest
        /\ GuestLeaves \/ GuestSearches \/ \E f \in Datagrams(toGuest) : GuestJoins(f)
SdkTakes ==
  /\ h'.heard.guest = h.heard.guest
  /\ \/ /\ Stays
        /\ Takes(c.up, c.epoch, Datagrams(out), c.rxLast, c'.rxLast,
                 h.heard.sdk, h'.heard.sdk)
     \/ /\ h'.heard.sdk = h.heard.sdk
        /\ Leaves \/ \E f : Greets(f) /\ \E e \in Fresh(f) : Begins(e, f.corr)

\* Messages of one frame travel in one.
LEMMA FramesAreMessages ==
  ASSUME \A b \in Bodies : Size[b] = 1, IpcInv, TornInv,
         NEW f \in Outbound \cup Datagrams(toGuest), f.type \in DataTypes
  PROVE  f \in DataFrame /\ f.nfrag = 1
<1>1. f \in DataFrame
  BY FramesOnTheirWay, DataFrames
<1>2. f.body \in Bodies
  BY <1>1 DEF DataFrame
<1>3. Cut(f)
  BY DEF TornInv, AllCut
<1> QED BY <1>1, <1>2, <1>3 DEF Cut

\* A message of one frame says what the frame says.
LEMMA MessageOfOne ==
  ASSUME NEW f, f.nfrag = 1
  PROVE  /\ Completes(g, f) /\ SdkCompletes(f)
         /\ Message(g, f).type = f.type /\ Message(g, f).flag = f.flag
         /\ BodyOf(Message(g, f).parts) = f.body
         /\ SdkMessage(f) = Message(g, f)
<1> DEFINE m == [type |-> f.type, flag |-> f.flag, corr |-> f.corr, parts |-> {<<0, f.body>>}]
<1>1. Message(g, f) = m /\ SdkMessage(f) = m
  BY DEF Message, SdkMessage
<1>2. BodyOf({<<0, f.body>>}) = f.body
  <2>1. \A p : p \in {<<0, f.body>>} /\ p[1] = 0 <=> p = <<0, f.body>>
    OBVIOUS
  <2>2. (CHOOSE p \in {<<0, f.body>>} : p[1] = 0) = <<0, f.body>>
    BY <2>1
  <2> QED BY <2>2 DEF BodyOf
<1> QED BY <1>1, <1>2 DEF Completes, SdkCompletes

\* An application that is handed a message has one report more.
LEMMA ReportOf ==
  ASSUME HistoryOK(h), Reported, NEW who \in {"guest", "sdk"}, NEW e, NEW m,
         h' = Heard(h, who, e, m)
  PROVE  /\ \E r : /\ h'.heard[who] = Append(h.heard[who], r) /\ r.epoch = e
                   /\ r.n = BodyOf(m.parts) /\ r.snapshot = (m.flag = "snapshot")
         /\ \A x \in {"guest", "sdk"} : x # who => h'.heard[x] = h.heard[x]
<1> DEFINE r == [epoch |-> e, n |-> BodyOf(m.parts), snapshot |-> m.flag = "snapshot",
                 intact |-> Intact(m.parts)]
           n == [h.heard EXCEPT ![who] = Append(h.heard[who], r)]
<1>1. h' = [h EXCEPT !.heard = n]
  BY DEF Heard, HistoryOK
<1>2. r.epoch = e /\ r.n = BodyOf(m.parts) /\ r.snapshot = (m.flag = "snapshot")
  OBVIOUS
<1> HIDE DEF r
<1>3. /\ n[who] = Append(h.heard[who], r)
      /\ \A x \in {"guest", "sdk"} : x # who => n[x] = h.heard[x]
  BY DEF Reported
<1> HIDE DEF n
<1>4. h'.heard = n
  BY <1>1 DEF HistoryOK
<1> QED BY <1>2, <1>3, <1>4

\* What the guest's application hears is what the link accepts (GuestReceives).
LEMMA GuestIsHanded ==
  ASSUME IpcInv, TornInv, NEW f \in DataFrame, f.nfrag = 1, h' = GuestLearns(f)
  PROVE  IF f.type = "MSG" /\ InSession(f) /\ ~Stale(g, f)
         THEN HandedOver(f, h.heard.guest, h'.heard.guest) /\ h'.heard.sdk = h.heard.sdk
         ELSE h'.heard = h.heard
<1> DEFINE m == Message(g, f)
<1>1. HistoryOK(h) /\ Reported
  BY DEF IpcInv, BooksOK, TornInv
<1>2. Completes(g, f) /\ m.type = f.type /\ m.flag = f.flag /\ BodyOf(m.parts) = f.body
  BY MessageOfOne
<1>3. CASE f.type = "MSG" /\ InSession(f) /\ ~Stale(g, f)
  <2>1. f.type \in DataTypes
    BY <1>3 DEF DataTypes
  <2>2. h' = Heard(h, "guest", f.epoch, m)
    BY <1>2, <1>3, <2>1, GuestLearnt
  <2> HIDE DEF m
  <2> QED BY <1>1, <1>2, <1>3, <2>2, ReportOf DEF HandedOver, Snapshot
<1>4. CASE ~(f.type = "MSG" /\ InSession(f) /\ ~Stale(g, f))
  BY <1>1, <1>2, <1>4 DEF GuestLearns, Settled, Ran, HistoryOK
<1> QED BY <1>3, <1>4

\* So with the companion (SdkReceives).
LEMMA SdkIsHanded ==
  ASSUME IpcInv, TornInv, NEW f \in DataFrame, f.nfrag = 1, h' = SdkLearns(f)
  PROVE  IF f.type = "MSG" /\ Current(f) /\ ~SdkStale(f)
         THEN HandedOver(f, h.heard.sdk, h'.heard.sdk) /\ h'.heard.guest = h.heard.guest
         ELSE h'.heard = h.heard
<1> DEFINE m == SdkMessage(f)
<1>1. HistoryOK(h) /\ Reported
  BY DEF IpcInv, BooksOK, TornInv
<1>2. SdkCompletes(f) /\ m.type = f.type /\ m.flag = f.flag /\ BodyOf(m.parts) = f.body
  BY MessageOfOne
<1>3. CASE f.type = "MSG" /\ Current(f) /\ ~SdkStale(f)
  <2>1. f.type \in DataTypes
    BY <1>3 DEF DataTypes
  <2>2. h' = Heard(h, "sdk", f.epoch, m)
    BY <1>2, <1>3, <2>1, SdkLearnt
  <2> HIDE DEF m
  <2> QED BY <1>1, <1>2, <1>3, <2>2, ReportOf DEF HandedOver, Snapshot
<1>4. CASE ~(f.type = "MSG" /\ Current(f) /\ ~SdkStale(f))
  BY <1>1, <1>2, <1>4 DEF SdkLearns, Settled, HistoryOK
<1> QED BY <1>3, <1>4

\* Hearing makes the list longer.
LEMMA HandedIsMore ==
  ASSUME NEW S, NEW hd \in Seq(S), NEW kd, NEW f, HandedOver(f, hd, kd)
  PROVE  kd # hd
<1>1. PICK r : kd = Append(hd, r)
  BY DEF HandedOver
<1>2. hd \in Seq(S \cup {r}) /\ r \in S \cup {r}
  BY SeqMonotonic
<1> DEFINE T == S \cup {r}
<1> HIDE DEF T
<1>3. hd \in Seq(T) /\ r \in T
  BY <1>2 DEF T
<1>4. Len(kd) = Len(hd) + 1 /\ Len(hd) \in Nat
  BY <1>1, <1>3, AppendProperties, LenProperties
<1> QED BY <1>4

\* A step that hands the applications nothing takes at most a frame of the protocol.
LEMMA QuietGuestHears ==
  ASSUME \A b \in Bodies : Size[b] = 1, IpcInv, TornInv, GuestTurn, h'.heard = h.heard
  PROVE  GuestTakes
<1>1. CASE GuestLeaves \/ GuestSearches \/ \E f \in Datagrams(toGuest) : GuestJoins(f)
  BY <1>1 DEF GuestTakes
<1>2. CASE GuestGoes /\ g'.rxLast = g.rxLast
  BY <1>2 DEF GuestTakes, Takes
<1>3. ASSUME GuestGoes, NEW f \in Datagrams(toGuest), f \in DataFrame, InSession(f), ~Stale(g, f),
             g'.rxLast = [g.rxLast EXCEPT ![f.ch] = f.seq], h' = GuestLearns(f)
      PROVE  GuestTakes
  <2>1. f.nfrag = 1 /\ f.type \in DataTypes
    BY <1>3, FramesAreMessages DEF DataFrame
  <2>2. f.type # "MSG"
    <3>1. h.heard.guest \in Seq(Report)
      BY DEF TornInv, Reported
    <3>2. ~HandedOver(f, h.heard.guest, h'.heard.guest)
      BY <3>1, HandedIsMore
    <3> QED BY <1>3, <2>1, <3>2, GuestIsHanded
  <2>3. Ahead(f.seq, g.rxLast[f.ch])
    <3>1. ~(SerialDelta(f.seq, g.rxLast[f.ch]) <= 0)
      BY <1>3, <2>2 DEF Stale, IsSnapshot, Delta
    <3>2. SerialDelta(f.seq, g.rxLast[f.ch]) \in Int
      <4>1. f.seq \in Word /\ g.rxLast[f.ch] \in Word
        BY <1>3 DEF DataFrame, IpcInv, GuestInv, Sound, LinkState
      <4> QED BY <4>1, SerialDeltaRange, HalfModulus
    <3> QED BY <3>1, <3>2 DEF Ahead
  <2>4. g.up /\ DataOf(f, g.epoch)
    BY <1>3, <2>1 DEF InSession, DataOf
  <2>5. Takes(g.up, g.epoch, Datagrams(toGuest), g.rxLast, g'.rxLast,
              h.heard.guest, h'.heard.guest)
    BY <1>3, <2>2, <2>3, <2>4 DEF Takes
  <2> QED BY <1>3, <2>5 DEF GuestTakes
<1> QED BY <1>1, <1>2, <1>3 DEF GuestTurn

\* So with the companion.
LEMMA QuietSdkHears ==
  ASSUME \A b \in Bodies : Size[b] = 1, IpcInv, TornInv, SdkTurn, h'.heard = h.heard
  PROVE  SdkTakes
<1>1. CASE Leaves \/ \E f : Greets(f) /\ \E e \in Fresh(f) : Begins(e, f.corr)
  BY <1>1 DEF SdkTakes
<1>2. CASE Stays /\ c'.rxLast = c.rxLast
  BY <1>2 DEF SdkTakes, Takes
<1>3. ASSUME Stays, NEW f \in Datagrams(out), f \in DataFrame, Current(f), ~SdkStale(f),
             c'.rxLast = [c.rxLast EXCEPT ![f.ch] = f.seq], h' = SdkLearns(f)
      PROVE  SdkTakes
  <2>1. f.nfrag = 1 /\ f.type \in DataTypes
    <3>1. f \in Outbound
      BY <1>3 DEF Outbound
    <3> QED BY <1>3, <3>1, FramesAreMessages DEF DataFrame
  <2>2. f.type # "MSG"
    <3>1. h.heard.sdk \in Seq(Report)
      BY DEF TornInv, Reported
    <3>2. ~HandedOver(f, h.heard.sdk, h'.heard.sdk)
      BY <3>1, HandedIsMore
    <3> QED BY <1>3, <2>1, <3>2, SdkIsHanded
  <2>3. Ahead(f.seq, c.rxLast[f.ch])
    <3>1. ~(SerialDelta(f.seq, c.rxLast[f.ch]) <= 0)
      BY <1>3, <2>2 DEF SdkStale, SdkIsSnapshot, SdkDelta
    <3>2. SerialDelta(f.seq, c.rxLast[f.ch]) \in Int
      <4>1. f.seq \in Word /\ c.rxLast[f.ch] \in Word
        BY <1>3 DEF DataFrame, IpcInv, CompanionSound, CompanionTypeOK, SessionState
      <4> QED BY <4>1, SerialDeltaRange, HalfModulus
    <3> QED BY <3>1, <3>2 DEF Ahead
  <2>4. c.up /\ DataOf(f, c.epoch)
    BY <1>3, <2>1 DEF Current, DataOf
  <2>5. Takes(c.up, c.epoch, Datagrams(out), c.rxLast, c'.rxLast, h.heard.sdk, h'.heard.sdk)
    BY <1>3, <2>2, <2>3, <2>4 DEF Takes
  <2> QED BY <1>3, <2>5 DEF SdkTakes
<1> QED BY <1>1, <1>2, <1>3 DEF SdkTurn

\* A message the link accepts is what its application is handed, and the link
\* has heard its number (onMsg).
LEMMA GuestReceivesHears ==
  ASSUME \A b \in Bodies : Size[b] = 1, IpcInv, TornInv, GuestReceives
  PROVE  GuestTurn /\ GuestTakes
<1>1. GuestTurn
  BY GuestReceivesStep
<1>2. Sound(g) /\ g \in LinkState /\ HistoryOK(h) /\ Reported /\ toGuest \in Seq(Frame)
  BY DEF IpcInv, GuestInv, Sound, BooksOK, TornInv, CompanionSound, CompanionTypeOK
<1>3. PICK i \in Readable(toGuest) : Deliver("peer", toGuest[i]) /\ h' = GuestLearns(toGuest[i])
  BY DEF GuestReceives
<1> DEFINE f == toGuest[i]
<1>4. f \in Frame /\ f \in Datagrams(toGuest)
  BY <1>2, TakenFrame
<1>5. Deliver("peer", f) /\ h' = GuestLearns(f)
  BY <1>3
<1> HIDE DEF f
<1>6. CASE f.type \in DataTypes /\ f.type = "MSG" /\ InSession(f) /\ ~Stale(g, f)
  <2>1. f \in DataFrame /\ f.nfrag = 1
    BY <1>4, <1>6, FramesAreMessages
  <2>2. Completes(g, f) /\ Message(g, f).type = "MSG"
    BY <1>6, <2>1, MessageOfOne
  <2>3. OnMsg("peer", f)
    BY <1>5, <1>6, <2>2 DEF Deliver, OnHelloAck, OnIgnored, Ignored, Mine, OnHeartbeat, OnBye,
       OnStale, OnFragment, OnResync, OnReqAgain, OnReqUnserved, OnReqNew, OnResp, Dispatches
  <2>4. GuestGoes
    BY <1>2, <1>4, <2>3, DataFrameEffect
  <2>5. g'.rxLast = [g.rxLast EXCEPT ![f.ch] = f.seq]
    <3>1. g.up
      BY <1>6 DEF InSession
    <3> DEFINE a == Arrived(g, f)
    <3>2. a \in LinkState /\ a.rxLast = [g.rxLast EXCEPT ![f.ch] = f.seq]
      BY <1>2, <2>1, <3>1, ArrivedSound, ArrivedGoesOn DEF Sound
    <3>3. g' = [a EXCEPT !.resyncSent[f.ch] = @ /\ Message(g, f).flag # "snapshot"]
      BY <2>3 DEF OnMsg
    <3> HIDE DEF a
    <3> QED BY <3>2, <3>3 DEF LinkState
  <2>6. HandedOver(f, h.heard.guest, h'.heard.guest) /\ h'.heard.sdk = h.heard.sdk
    BY <1>5, <1>6, <2>1, GuestIsHanded
  <2>7. Snapshot(f) \/ Ahead(f.seq, g.rxLast[f.ch])
    <3>1. Snapshot(f) \/ ~(SerialDelta(f.seq, g.rxLast[f.ch]) <= 0)
      BY <1>6 DEF Stale, IsSnapshot, Delta, Snapshot
    <3>2. SerialDelta(f.seq, g.rxLast[f.ch]) \in Int
      <4>1. f.seq \in Word /\ g.rxLast[f.ch] \in Word
        BY <1>2, <2>1 DEF DataFrame, LinkState
      <4> QED BY <4>1, SerialDeltaRange, HalfModulus
    <3> QED BY <3>1, <3>2 DEF Ahead
  <2>8. g.up /\ DataOf(f, g.epoch)
    BY <1>6 DEF InSession, DataOf
  <2>9. Takes(g.up, g.epoch, Datagrams(toGuest), g.rxLast, g'.rxLast,
              h.heard.guest, h'.heard.guest)
    BY <1>4, <1>6, <2>5, <2>6, <2>7, <2>8 DEF Takes
  <2> QED BY <1>1, <2>4, <2>6, <2>9 DEF GuestTakes
<1>7. CASE ~(f.type \in DataTypes /\ f.type = "MSG" /\ InSession(f) /\ ~Stale(g, f))
  <2>1. h'.heard = h.heard
    <3>1. CASE f.type \in DataTypes
      <4>1. f \in DataFrame /\ f.nfrag = 1
        BY <1>4, <3>1, FramesAreMessages
      <4> QED BY <1>5, <1>7, <3>1, <4>1, GuestIsHanded
    <3>2. CASE f.type \notin DataTypes
      BY <1>2, <1>5, <3>2 DEF GuestLearns, Settled, HistoryOK
    <3> QED BY <3>1, <3>2
  <2> QED BY <1>1, <2>1, QuietGuestHears
<1> QED BY <1>6, <1>7

\* So with the companion (channelFrame in session.go).
LEMMA SdkReceivesHears ==
  ASSUME \A b \in Bodies : Size[b] = 1, IpcInv, TornInv, SdkReceives
  PROVE  SdkTurn /\ SdkTakes
<1>1. SdkTurn
  BY SdkReceivesStep
<1>2. CompanionTypeOK /\ c \in SessionState /\ HistoryOK(h) /\ Reported /\ out \in Seq(Frame)
  BY DEF IpcInv, GuestInv, BooksOK, TornInv, CompanionSound, CompanionTypeOK
<1>3. PICK i \in Readable(out) : /\ SdkDeliver(out[i], Fresh(out[i])) /\ h' = SdkLearns(out[i])
  BY DEF SdkReceives
<1> DEFINE f == out[i]
<1>4. f \in Frame /\ f \in Datagrams(out) /\ f \in Outbound
  BY <1>2, TakenFrame DEF Outbound
<1>5. SdkDeliver(f, Fresh(f)) /\ h' = SdkLearns(f)
  BY <1>3
<1> HIDE DEF f
<1>6. CASE f.type \in DataTypes /\ f.type = "MSG" /\ Current(f) /\ ~SdkStale(f)
  <2>1. f \in DataFrame /\ f.nfrag = 1
    BY <1>4, <1>6, FramesAreMessages
  <2>2. SdkCompletes(f) /\ SdkMessage(f).type = "MSG"
    BY <1>6, <2>1, MessageOfOne
  <2>3. SdkOnMsg(f)
    BY <1>5, <1>6, <2>2 DEF SdkDeliver, OnHello, OnHelloRefused, OnUnknownEpoch, OnBeat,
       OnRollback, OnPeerBye, SdkOnStale, SdkOnFragment, SdkOnResync, SdkOnReqAgain,
       SdkOnReqUnserved, SdkOnReqNew, SdkOnResp, SdkDispatches
  <2>4. Stays
    BY <1>2, <1>4, <2>3, ChannelFrames
  <2>5. c'.rxLast = [c.rxLast EXCEPT ![f.ch] = f.seq]
    <3> DEFINE a == SdkArrived(f)
               q == [a EXCEPT !.s.resyncSent[f.ch] = @ /\ SdkMessage(f).flag # "snapshot"]
    <3>1. a \in Turn /\ a.s.rxLast = [c.rxLast EXCEPT ![f.ch] = f.seq]
      BY <1>2, <2>1, SdkArrivedGoesOn
    <3>2. c' = q.s
      BY <2>3 DEF SdkOnMsg, Do
    <3> HIDE DEF a
    <3> QED BY <3>1, <3>2 DEF Turn, SessionState
  <2>6. HandedOver(f, h.heard.sdk, h'.heard.sdk) /\ h'.heard.guest = h.heard.guest
    BY <1>5, <1>6, <2>1, SdkIsHanded
  <2>7. Snapshot(f) \/ Ahead(f.seq, c.rxLast[f.ch])
    <3>1. Snapshot(f) \/ ~(SerialDelta(f.seq, c.rxLast[f.ch]) <= 0)
      BY <1>6 DEF SdkStale, SdkIsSnapshot, SdkDelta, Snapshot
    <3>2. SerialDelta(f.seq, c.rxLast[f.ch]) \in Int
      <4>1. f.seq \in Word /\ c.rxLast[f.ch] \in Word
        BY <1>2, <2>1 DEF DataFrame, SessionState
      <4> QED BY <4>1, SerialDeltaRange, HalfModulus
    <3> QED BY <3>1, <3>2 DEF Ahead
  <2>8. c.up /\ DataOf(f, c.epoch)
    BY <1>6 DEF Current, DataOf
  <2>9. Takes(c.up, c.epoch, Datagrams(out), c.rxLast, c'.rxLast, h.heard.sdk, h'.heard.sdk)
    BY <1>4, <1>6, <2>5, <2>6, <2>7, <2>8 DEF Takes
  <2> QED BY <1>1, <2>4, <2>6, <2>9 DEF SdkTakes
<1>7. CASE ~(f.type \in DataTypes /\ f.type = "MSG" /\ Current(f) /\ ~SdkStale(f))
  <2>1. h'.heard = h.heard
    <3>1. CASE f.type \in DataTypes
      <4>1. f \in DataFrame /\ f.nfrag = 1
        BY <1>4, <3>1, FramesAreMessages
      <4> QED BY <1>5, <1>7, <3>1, <4>1, SdkIsHanded
    <3>2. CASE f.type \notin DataTypes
      BY <1>2, <1>5, <3>2 DEF SdkLearns, Settled, HistoryOK
    <3> QED BY <3>1, <3>2
  <2> QED BY <1>1, <2>1, QuietSdkHears
<1> QED BY <1>6, <1>7

\* So with every step.
LEMMA EveryHears ==
  ASSUME MaxLoads = 0, \A b \in Bodies : Size[b] = 1, IpcInv, TornInv, IdsLast, [Next]_vars
  PROVE  \/ Between /\ h'.heard = h.heard
         \/ GuestTurn /\ GuestTakes
         \/ SdkTurn /\ SdkTakes
<1>1. CASE GuestReceives
  BY <1>1, GuestReceivesHears
<1>2. CASE SdkReceives
  BY <1>2, SdkReceivesHears
<1>3. CASE ~GuestReceives /\ ~SdkReceives
  <2>1. h'.heard = h.heard
    BY <1>3, EveryTells
  <2>2. CASE UNCHANGED vars
    <3>1. g' = g /\ c' = c /\ out' = out /\ toGuest' = toGuest
      BY <2>2 DEF vars
    <3>2. Between
      BY <3>1 DEF Between, Datagrams
    <3> QED BY <2>1, <3>2
  <2>3. CASE Next
    <3>1. ~Restored
      <4>1. used.loads \in 0 .. MaxLoads
        BY DEF IpcInv, BooksOK
      <4>2. ~(used.loads < MaxLoads)
        BY <4>1
      <4> QED BY <4>2 DEF Restored
    <3>2. Between \/ GuestTurn \/ SdkTurn
      BY <2>3, <3>1, StepKind
    <3> QED BY <2>1, <3>2, QuietGuestHears, QuietSdkHears
  <2> QED BY <2>2, <2>3
<1> QED BY <1>1, <1>2, <1>3

-----------------------------------------------------------------------------
(* Every step keeps the invariant. *)

\* A step of a reachable state that says no more than it counts.
NewsStep == SeqInv /\ SeqInv' /\ TornInv /\ Window /\ NewsInv /\ GuestTells /\ SdkTells

\* What is on its way after a step is typed, and so is what it is compared with.
LEMMA LaterFrames ==
  ASSUME IpcInv'
  PROVE  /\ Outbound' \subseteq Frame /\ Datagrams(toGuest') \subseteq Frame
         /\ g'.txSeq \in [Chans -> Word] /\ g'.rxLast \in [Chans -> Word]
         /\ c'.txSeq \in [Chans -> Word] /\ c'.rxLast \in [Chans -> Word]
         /\ Outbound' = Datagrams(out') \cup Queued(g') /\ (~g'.up => Queued(g') = {})
         /\ AcksOwn' /\ (g'.up => g'.epoch \in Tokens) /\ (c'.up => c'.epoch \in Tokens)
<1>1. /\ g' \in LinkState /\ c' \in SessionState /\ Blank(g') /\ out' \in Seq(Frame)
      /\ toGuest' \in Seq(Frame) /\ AcksOwn' /\ Joined(g)' /\ Joined(c)'
  BY DEF IpcInv, GuestInv, Sound, CompanionSound, CompanionTypeOK
<1>2. Outbound' = Datagrams(out') \cup Queued(g')
  BY DEF Outbound, Queued, Datagrams
<1>3. Datagrams(out') \subseteq Frame /\ Datagrams(toGuest') \subseteq Frame /\ Queued(g') \subseteq Frame
  BY <1>1, DatagramsFrames, LinkTyped
<1>4. ~g'.up => Queued(g') = {}
  BY <1>1 DEF Blank, Queued, Datagrams
<1>5. /\ Outbound' \subseteq Frame /\ Datagrams(toGuest') \subseteq Frame
  BY <1>2, <1>3 DEF Datagrams
<1>6. /\ g'.txSeq \in [Chans -> Word] /\ g'.rxLast \in [Chans -> Word]
      /\ c'.txSeq \in [Chans -> Word] /\ c'.rxLast \in [Chans -> Word]
  BY <1>1 DEF LinkState, SessionState
<1> QED BY <1>1, <1>2, <1>4, <1>5, <1>6 DEF Joined

\* So it is before the step; and the tokens of sessions are not 0.
LEMMA NewsTyped ==
  ASSUME IpcInv, TornInv
  PROVE  /\ Outbound \subseteq Frame /\ Datagrams(toGuest) \subseteq Frame
         /\ g.txSeq \in [Chans -> Word] /\ g.rxLast \in [Chans -> Word]
         /\ c.txSeq \in [Chans -> Word] /\ c.rxLast \in [Chans -> Word]
         /\ (IF g.up THEN g.epoch \in Tokens ELSE g.epoch = 0)
         /\ (IF c.up THEN c.epoch \in Tokens ELSE c.epoch = 0) /\ 0 \notin Tokens
         /\ AcksOwn /\ g.corrCtr \in Word
         /\ h.heard.guest \in Seq(Report) /\ h.heard.sdk \in Seq(Report)
<1>1. g \in LinkState /\ c \in SessionState /\ Joined(g) /\ Joined(c) /\ AcksOwn
  BY DEF IpcInv, GuestInv, Sound, CompanionSound, CompanionTypeOK
<1>2. h.heard.guest \in Seq(Report) /\ h.heard.sdk \in Seq(Report)
  BY DEF TornInv, Reported
<1>3. /\ g.txSeq \in [Chans -> Word] /\ g.rxLast \in [Chans -> Word] /\ g.corrCtr \in Word
      /\ c.txSeq \in [Chans -> Word] /\ c.rxLast \in [Chans -> Word]
  BY <1>1 DEF LinkState, SessionState
<1>4. 0 \notin Tokens
  BY CompanionAssumption
<1> QED BY <1>1, <1>2, <1>3, <1>4, FramesOnTheirWay DEF Joined

\* The numbers that trail one counter lie on a line.
LEMMA TrailLine ==
  ASSUME OneChannel, NEW tx \in [Chans -> Word], NEW F, F \subseteq Frame, NEW e,
         NEW rx \in [Chans -> Word], \A f \in F : DataOf(f, e) => Trails(tx, f.ch, f.seq, 0),
         \A ch \in Chans : Trails(tx, ch, rx[ch], 0)
  PROVE  Line(F, e, rx)
<1>1. ASSUME NEW x, Numbered(x, F, e, rx) PROVE x \in Word /\ \E ch \in Chans : Trails(tx, ch, x, 0)
  <2>1. CASE \E ch \in Chans : x = rx[ch]
    BY <2>1
  <2>2. ASSUME NEW f \in F, DataOf(f, e), x = f.seq
        PROVE  x \in Word /\ \E ch \in Chans : Trails(tx, ch, x, 0)
    <3>1. f.ch \in Chans /\ f.seq \in Word
      BY <2>2, DataFrames DEF DataOf, DataFrame
    <3> QED BY <2>2, <3>1
  <2> QED BY <1>1, <2>1, <2>2 DEF Numbered
<1>2. CASE Chans = {}
  BY <1>1, <1>2 DEF Line
<1>3. ASSUME NEW ch \in Chans PROVE Line(F, e, rx)
  <2>1. tx[ch] \in Word
    OBVIOUS
  <2>2. ASSUME NEW x, Numbered(x, F, e, rx) PROVE x \in Word /\ SerialDelta(tx[ch], x) >= 0
    <3>1. x \in Word /\ Trails(tx, ch, x, 0)
      BY <1>1, <2>2 DEF OneChannel
    <3> QED BY <3>1, HalfModulus DEF Trails
  <2> QED BY <2>1, <2>2, LineBehind
<1> QED BY <1>2, <1>3

\* So does zero alone.
LEMMA LineOfNone ==
  ASSUME NEW F, NEW e, \A f \in F : ~DataOf(f, e)
  PROVE  Line(F, e, Zeros)
<1>1. \A x : Numbered(x, F, e, Zeros) => x = 0
  BY DEF Numbered, Zeros
<1>2. SerialDelta(0, 0) = 0
  BY SerialDeltaSelf, WireAssumption DEF Word
<1>3. ~Ahead(0, 0)
  BY <1>2 DEF Ahead
<1> QED BY <1>1, <1>3 DEF Line

\* What is said keeps its order, and is newer than all that was heard.
LEMMA OrderKept ==
  ASSUME OneChannel, NewsStep
  PROVE  /\ InOrder(Outbound') /\ SaidOf(Outbound', h.heard.sdk, h'.said.guest)
         /\ \A f \in News(Outbound') : \A d : f \in Outbound \/ Newer(f, d, h.heard.sdk)
         /\ InOrder(Datagrams(toGuest')) /\ SaidOf(Datagrams(toGuest'), h.heard.guest, h'.said.sdk)
         /\ \A f \in News(Datagrams(toGuest')) : \A d :
              f \in Datagrams(toGuest) \/ Newer(f, d, h.heard.guest)
<1>1. IpcInv /\ IpcInv' /\ TornInv
  BY DEF NewsStep, SeqInv
<1>2. Outbound' \subseteq Frame /\ Datagrams(toGuest') \subseteq Frame
  BY <1>1, LaterFrames
<1>3. /\ g.txSeq \in [Chans -> Word] /\ c.txSeq \in [Chans -> Word]
      /\ h.heard.guest \in Seq(Report) /\ h.heard.sdk \in Seq(Report)
  BY <1>1, NewsTyped
<1>4. ASSUME NEW hd \in Seq(Report) PROVE hd # <<>> => Len(hd) \in DOMAIN hd
  BY <1>4, EmptySeq, LenProperties
<1>5. /\ g.up => \A f \in Outbound : DataOf(f, g.epoch) =>
                   Trails(g.txSeq, f.ch, f.seq, 0) /\ Fits(g.txSeq, f.ch, f.seq)
      /\ c.up => \A f \in Datagrams(toGuest) : DataOf(f, c.epoch) =>
                   Trails(c.txSeq, f.ch, f.seq, 0) /\ Fits(c.txSeq, f.ch, f.seq)
  BY DEF NewsStep, SeqInv, SaidByGuest, SaidBySdk, Window
<1>6. /\ InOrder(Outbound) /\ SaidOf(Outbound, h.heard.sdk, h.said.guest)
      /\ InOrder(Datagrams(toGuest)) /\ SaidOf(Datagrams(toGuest), h.heard.guest, h.said.sdk)
  BY DEF NewsStep, NewsInv, FromGuest, FromSdk
<1>7. /\ Speaks(g.up, g.epoch, g.txSeq, Outbound, Outbound', h.said.guest, h'.said.guest)
      /\ Speaks(c.up, c.epoch, c.txSeq, Datagrams(toGuest), Datagrams(toGuest'),
               h.said.sdk, h'.said.sdk)
  BY DEF NewsStep, GuestTells, SdkTells
<1>8. /\ InOrder(Outbound') /\ SaidOf(Outbound', h.heard.sdk, h'.said.guest)
      /\ \A f \in News(Outbound') : \A d : f \in Outbound \/ Newer(f, d, h.heard.sdk)
  <2> DEFINE F == Outbound  G == Outbound'  up == g.up  e == g.epoch
             tx == g.txSeq  n == h.said.guest  m == h'.said.guest  hd == h.heard.sdk
  <2>1. hd # <<>> => Len(hd) \in DOMAIN hd
    BY <1>3, <1>4
  <2>2. /\ G \subseteq Frame /\ tx \in [Chans -> Word] /\ Speaks(up, e, tx, F, G, n, m)
        /\ InOrder(F) /\ SaidOf(F, hd, n)
        /\ up => \A f \in F : DataOf(f, e) => Trails(tx, f.ch, f.seq, 0) /\ Fits(tx, f.ch, f.seq)
    BY <1>2, <1>3, <1>5, <1>6, <1>7
  <2> HIDE DEF F, G, up, e, tx, n, m, hd
  <2>3. /\ InOrder(G) /\ SaidOf(G, hd, m)
        /\ \A f \in News(G) : \A d : f \in F \/ Newer(f, d, hd)
    BY <2>1, <2>2, TellsKeep
  <2> QED BY <2>3 DEF F, G, m, hd
<1>9. /\ InOrder(Datagrams(toGuest')) /\ SaidOf(Datagrams(toGuest'), h.heard.guest, h'.said.sdk)
      /\ \A f \in News(Datagrams(toGuest')) : \A d :
           f \in Datagrams(toGuest) \/ Newer(f, d, h.heard.guest)
  <2> DEFINE F == Datagrams(toGuest)  G == Datagrams(toGuest)'  up == c.up  e == c.epoch
             tx == c.txSeq  n == h.said.sdk  m == h'.said.sdk  hd == h.heard.guest
  <2>1. hd # <<>> => Len(hd) \in DOMAIN hd
    BY <1>3, <1>4
  <2>2. /\ G \subseteq Frame /\ tx \in [Chans -> Word] /\ Speaks(up, e, tx, F, G, n, m)
        /\ InOrder(F) /\ SaidOf(F, hd, n)
        /\ up => \A f \in F : DataOf(f, e) => Trails(tx, f.ch, f.seq, 0) /\ Fits(tx, f.ch, f.seq)
    BY <1>2, <1>3, <1>5, <1>6, <1>7
  <2> HIDE DEF F, G, up, e, tx, n, m, hd
  <2>3. /\ InOrder(G) /\ SaidOf(G, hd, m)
        /\ \A f \in News(G) : \A d : f \in F \/ Newer(f, d, hd)
    BY <2>1, <2>2, TellsKeep
  <2> QED BY <2>3 DEF F, G, m, hd
<1> QED BY <1>8, <1>9

\* A frame of a session is put on its way by the end that is in it.
LEMMA GuestAdds ==
  ASSUME IpcInv, IpcInv', TornInv, GuestTurn, NEW e \in Tokens, NEW f \in Outbound', DataOf(f, e)
  PROVE  f \in Outbound \/ (g.up /\ g'.up /\ g'.epoch = e)
<1>1. CASE GuestGoes
  <2>1. f \in Outbound \/ f.epoch = g.epoch
    BY <1>1 DEF GuestGoes, Sends, DataOf
  <2>2. g.epoch = e => g.up
    BY NewsTyped
  <2> QED BY <1>1, <2>1, <2>2 DEF GuestGoes, DataOf
<1>2. CASE GuestLeaves
  <2>1. Outbound' = Datagrams(out)
    BY <1>2, LaterFrames DEF GuestLeaves
  <2> QED BY <2>1 DEF Outbound
<1>3. CASE GuestSearches
  <2>1. Outbound' = Datagrams(out')
    BY <1>3, LaterFrames DEF GuestSearches
  <2> QED BY <1>3, <2>1 DEF GuestSearches, DataOf, Outbound
<1>4. ASSUME NEW a \in Datagrams(toGuest), GuestJoins(a) PROVE f \in Outbound
  <2>1. Queued(g') = Queued(g) /\ Datagrams(out') = Datagrams(out)
    BY <1>4 DEF GuestJoins, Queued, Datagrams
  <2>2. Outbound' = Outbound
    BY <2>1, LaterFrames DEF Outbound
  <2> QED BY <2>2
<1> QED BY <1>1, <1>2, <1>3, <1>4 DEF GuestTurn

\* So with the companion.
LEMMA SdkAdds ==
  ASSUME IpcInv, TornInv, SdkTurn, NEW e \in Tokens, NEW f \in Datagrams(toGuest'), DataOf(f, e)
  PROVE  f \in Datagrams(toGuest) \/ (c.up /\ c'.up /\ c'.epoch = e)
<1>1. CASE Stays
  <2>1. f \in Datagrams(toGuest) \/ f.epoch = c.epoch
    BY <1>1 DEF Stays, Sends, DataOf
  <2>2. c.epoch = e => c.up
    BY NewsTyped
  <2> QED BY <1>1, <2>1, <2>2 DEF Stays, DataOf
<1>2. CASE Leaves
  BY <1>2 DEF Leaves, DataOf, DataTypes
<1>3. ASSUME NEW x, NEW d \in Fresh(x), Begins(d, x.corr) PROVE f \in Datagrams(toGuest)
  <2> DEFINE ack == [type |-> "HELLO_ACK", epoch |-> d, corr |-> x.corr, name |-> SdkName]
  <2>1. f \in Datagrams(toGuest) \/ f = ack
    BY <1>3 DEF Begins
  <2>2. ack.type = "HELLO_ACK"
    OBVIOUS
  <2> HIDE DEF ack
  <2> QED BY <2>1, <2>2 DEF DataOf, DataTypes
<1> QED BY <1>1, <1>2, <1>3 DEF SdkTurn

\* A companion that takes nothing awaits what it awaited, and what is newer.
LEMMA SdkWaits ==
  ASSUME OneChannel, NewsStep, c' = c, h'.heard.sdk = h.heard.sdk,
         \A e \in Tokens, f \in Outbound' : DataOf(f, e) => f \in Outbound \/ (g'.up /\ g'.epoch = e)
  PROVE  FromGuest'
<1>1. IpcInv /\ IpcInv' /\ TornInv /\ FromGuest
  BY DEF NewsStep, SeqInv, NewsInv
<1>2. /\ InOrder(Outbound') /\ SaidOf(Outbound', h.heard.sdk, h'.said.guest)
      /\ \A f \in News(Outbound') : \A d : f \in Outbound \/ Newer(f, d, h.heard.sdk)
  BY OrderKept
<1>3. ASSUME c.up PROVE Awaited(Outbound', c.epoch, c.rxLast, h.heard.sdk)
  BY <1>1, <1>2, <1>3 DEF Awaited, FromGuest, News
<1>4. ASSUME c.up PROVE Line(Outbound', c.epoch, c.rxLast)
  <2>1. CASE g'.up /\ g'.epoch = c.epoch
    <3>1. /\ \A f \in Outbound' : DataOf(f, c.epoch) => Trails(g'.txSeq, f.ch, f.seq, 0)
          /\ \A ch \in Chans : Trails(g'.txSeq, ch, c.rxLast[ch], 0)
      BY <1>4, <2>1 DEF NewsStep, SeqInv, SaidByGuest, HeardOfEach, SameSession
    <3>2. /\ g'.txSeq \in [Chans -> Word] /\ Outbound' \subseteq Frame
          /\ c.rxLast \in [Chans -> Word]
      BY <1>1, LaterFrames, NewsTyped
    <3> QED BY <3>1, <3>2, TrailLine
  <2>2. CASE ~(g'.up /\ g'.epoch = c.epoch)
    <3>1. c.epoch \in Tokens /\ Line(Outbound, c.epoch, c.rxLast)
      BY <1>1, <1>4, NewsTyped DEF FromGuest
    <3>2. \A f \in Outbound' : DataOf(f, c.epoch) => f \in Outbound
      BY <2>2, <3>1
    <3> QED BY <3>1, <3>2, LineOfLess
  <2> QED BY <2>1, <2>2
<1> QED BY <1>1, <1>2, <1>3, <1>4 DEF FromGuest

\* So with a link that takes nothing.
LEMMA GuestWaits ==
  ASSUME OneChannel, NewsStep, g' = g, h'.heard.guest = h.heard.guest,
         \A e \in Tokens, f \in Datagrams(toGuest') :
           DataOf(f, e) => f \in Datagrams(toGuest) \/ (c'.up /\ c'.epoch = e)
  PROVE  FromSdk'
<1> DEFINE F == Datagrams(toGuest)  G == Datagrams(toGuest')
<1>1. IpcInv /\ IpcInv' /\ TornInv /\ FromSdk
  BY DEF NewsStep, SeqInv, NewsInv
<1>2. /\ InOrder(G) /\ SaidOf(G, h.heard.guest, h'.said.sdk)
      /\ \A f \in News(G) : \A d : f \in F \/ Newer(f, d, h.heard.guest)
  BY OrderKept
<1>3. ASSUME g.up PROVE Awaited(G, g.epoch, g.rxLast, h.heard.guest)
  BY <1>1, <1>2, <1>3 DEF Awaited, FromSdk, News
<1>4. ASSUME g.up PROVE Line(G, g.epoch, g.rxLast)
  <2>1. CASE c'.up /\ c'.epoch = g.epoch
    <3>1. /\ \A f \in G : DataOf(f, g.epoch) => Trails(c'.txSeq, f.ch, f.seq, 0)
          /\ \A ch \in Chans : Trails(c'.txSeq, ch, g.rxLast[ch], 0)
      BY <1>4, <2>1 DEF NewsStep, SeqInv, SaidBySdk, HeardOfEach, SameSession
    <3>2. c'.txSeq \in [Chans -> Word] /\ G \subseteq Frame /\ g.rxLast \in [Chans -> Word]
      BY <1>1, LaterFrames, NewsTyped
    <3> HIDE DEF G
    <3> QED BY <3>1, <3>2, TrailLine
  <2>2. CASE ~(c'.up /\ c'.epoch = g.epoch)
    <3>1. g.epoch \in Tokens /\ Line(F, g.epoch, g.rxLast)
      BY <1>1, <1>4, NewsTyped DEF FromSdk
    <3>2. \A f \in G : DataOf(f, g.epoch) => f \in F
      BY <2>2, <3>1
    <3> HIDE DEF F, G
    <3> QED BY <3>1, <3>2, LineOfLess
  <2> QED BY <2>1, <2>2
<1> QED BY <1>1, <1>2, <1>3, <1>4 DEF FromSdk, Datagrams

\* An end that takes one of some frames may take it of more.
LEMMA TakesOfMore ==
  ASSUME NEW up, NEW e, NEW F, NEW G, F \subseteq G, NEW rx, NEW ry, NEW hd, NEW kd,
         Takes(up, e, F, rx, ry, hd, kd)
  PROVE  Takes(up, e, G, rx, ry, hd, kd)
BY DEF Takes

\* What an end awaits of fewer frames is no more.
LEMMA AwaitedOfLess ==
  ASSUME NEW F, NEW G, G \subseteq F, NEW e, NEW rx, NEW hd, NEW n, NEW m,
         n \in Nat, m \in Nat, n <= m
  PROVE  /\ InOrder(F) => InOrder(G)
         /\ SaidOf(F, hd, n) => SaidOf(G, hd, m)
         /\ Awaited(F, e, rx, hd) => Awaited(G, e, rx, hd)
         /\ Unopened(F, e, hd) => Unopened(G, e, hd)
         /\ Line(F, e, rx) => Line(G, e, rx)
<1>1. News(G) \subseteq News(F)
  BY DEF News
<1>2. Line(F, e, rx) => Line(G, e, rx)
  BY LineOfLess
<1>3. SaidOf(F, hd, n) => SaidOf(G, hd, m)
  BY <1>1 DEF SaidOf
<1> QED BY <1>1, <1>2, <1>3 DEF InOrder, Awaited, Unopened

\* A companion that takes a frame hears news, and awaits newer.
LEMMA SdkListens ==
  ASSUME OneChannel, NewsStep, SdkTurn, SdkTakes
  PROVE  FromGuest'
<1>1. IpcInv /\ IpcInv' /\ TornInv /\ FromGuest
  BY DEF NewsStep, SeqInv, NewsInv
<1>2. g' = g /\ Datagrams(out') \subseteq Datagrams(out) /\ Outbound' \subseteq Outbound
  <2>1. Queued(g') = Queued(g) /\ Outbound' = Datagrams(out') \cup Queued(g')
    BY <1>1, LaterFrames DEF SdkTurn, Queued
  <2> QED BY <2>1 DEF SdkTurn, Outbound
<1>3. /\ InOrder(Outbound') /\ SaidOf(Outbound', h.heard.sdk, h'.said.guest)
      /\ h.said.guest \in Nat /\ h'.said.guest \in Nat /\ h.said.guest <= h'.said.guest
  BY OrderKept DEF NewsStep, GuestTells, Speaks
<1>4. CASE Stays /\ Takes(c.up, c.epoch, Datagrams(out), c.rxLast, c'.rxLast,
                          h.heard.sdk, h'.heard.sdk)
  <2> DEFINE F == Outbound  G == Outbound'  up == c.up  e == c.epoch  rx == c.rxLast  ry == c'.rxLast
             hd == h.heard.sdk  kd == h'.heard.sdk  n == h.said.guest  m == h'.said.guest
  <2>1. /\ F \subseteq Frame /\ rx \in [Chans -> Word] /\ hd \in Seq(Report)
    BY <1>1, NewsTyped
  <2>2. Takes(up, e, F, rx, ry, hd, kd)
    <3>1. Datagrams(out) \subseteq F
      BY DEF Outbound
    <3> HIDE DEF F, up, e, rx, ry, hd, kd
    <3> QED BY <1>4, <3>1, TakesOfMore DEF up, e, rx, ry, hd, kd
  <2>3. /\ Ordered(hd) /\ InOrder(F) /\ SaidOf(F, hd, n)
        /\ up => Awaited(F, e, rx, hd) /\ Line(F, e, rx)
    BY <1>1 DEF FromGuest
  <2>4. G \subseteq F /\ InOrder(G) /\ n \in Nat /\ m \in Nat /\ n <= m
    BY <1>2, <1>3
  <2>5. c'.up = up /\ c'.epoch = e
    BY <1>4 DEF Stays
  <2> HIDE DEF F, G, up, e, rx, ry, hd, kd, n, m
  <2>6. /\ Ordered(kd) /\ SaidOf(F, kd, n)
        /\ up => Awaited(F, e, ry, kd) /\ Line(F, e, ry)
    BY <2>1, <2>2, <2>3, TakesKeep
  <2>7. /\ SaidOf(G, kd, m) /\ (up => Awaited(G, e, ry, kd) /\ Line(G, e, ry))
    BY <2>4, <2>6, AwaitedOfLess
  <2> QED BY <2>4, <2>5, <2>6, <2>7 DEF FromGuest, G, ry, kd, m
<1>5. CASE h'.heard.sdk = h.heard.sdk /\ Leaves
  BY <1>1, <1>3, <1>5 DEF FromGuest, Leaves
<1>6. ASSUME h'.heard.sdk = h.heard.sdk, NEW f, NEW e \in Fresh(f), Begins(e, f.corr)
      PROVE  FromGuest'
  <2>1. \A x \in Outbound' : x.epoch # e
    <3>1. e # g.epoch /\ \A x \in Datagrams(out) : x.epoch # e
      BY <1>6 DEF Fresh, Held, Datagrams
    <3>2. \A x \in Queued(g) : x.epoch = g.epoch
      BY <1>1 DEF IpcInv, GuestInv, Sound, OfSession, Queued, Datagrams
    <3> QED BY <1>2, <3>1, <3>2 DEF Outbound
  <2>2. c'.epoch = e /\ c'.rxLast = Zeros
    BY <1>6 DEF Begins, Zeros
  <2>3. Awaited(Outbound', e, Zeros, h.heard.sdk)
    BY <2>1 DEF Awaited, News, Newer
  <2>4. Line(Outbound', e, Zeros)
    BY <2>1, LineOfNone DEF DataOf
  <2> QED BY <1>1, <1>3, <1>6, <2>2, <2>3, <2>4 DEF FromGuest
<1> QED BY <1>4, <1>5, <1>6 DEF SdkTakes

\* So with the link, which may join the session it was offered.
LEMMA GuestListens ==
  ASSUME OneChannel, NewsStep, GuestTurn, GuestTakes
  PROVE  FromSdk'
<1> DEFINE F == Datagrams(toGuest)  G == Datagrams(toGuest')
<1>1. IpcInv /\ IpcInv' /\ TornInv /\ FromSdk /\ Offers
  BY DEF NewsStep, SeqInv, NewsInv
<1>2. c' = c /\ G \subseteq F
  BY DEF GuestTurn
<1>3. /\ InOrder(G) /\ SaidOf(G, h.heard.guest, h'.said.sdk)
      /\ h.said.sdk \in Nat /\ h'.said.sdk \in Nat /\ h.said.sdk <= h'.said.sdk
  BY OrderKept DEF NewsStep, SdkTells, Speaks
<1>4. CASE GuestGoes /\ Takes(g.up, g.epoch, F, g.rxLast, g'.rxLast, h.heard.guest, h'.heard.guest)
  <2> DEFINE up == g.up  e == g.epoch  rx == g.rxLast  ry == g'.rxLast
             hd == h.heard.guest  kd == h'.heard.guest  n == h.said.sdk  m == h'.said.sdk
  <2>1. /\ F \subseteq Frame /\ rx \in [Chans -> Word] /\ hd \in Seq(Report)
    BY <1>1, NewsTyped
  <2>2. Takes(up, e, F, rx, ry, hd, kd)
    BY <1>4
  <2>3. /\ Ordered(hd) /\ InOrder(F) /\ SaidOf(F, hd, n)
        /\ up => Awaited(F, e, rx, hd) /\ Line(F, e, rx)
    BY <1>1 DEF FromSdk
  <2>4. G \subseteq F /\ InOrder(G) /\ n \in Nat /\ m \in Nat /\ n <= m
    BY <1>2, <1>3
  <2>5. g'.up = up /\ g'.epoch = e
    BY <1>4 DEF GuestGoes
  <2> HIDE DEF F, G, up, e, rx, ry, hd, kd, n, m
  <2>6. /\ Ordered(kd) /\ SaidOf(F, kd, n)
        /\ up => Awaited(F, e, ry, kd) /\ Line(F, e, ry)
    BY <2>1, <2>2, <2>3, TakesKeep
  <2>7. /\ SaidOf(G, kd, m) /\ (up => Awaited(G, e, ry, kd) /\ Line(G, e, ry))
    BY <2>4, <2>6, AwaitedOfLess
  <2> QED BY <2>4, <2>5, <2>6, <2>7 DEF FromSdk, Datagrams, G, ry, kd, m
<1>5. CASE h'.heard.guest = h.heard.guest /\ ~g'.up
  BY <1>1, <1>3, <1>5 DEF FromSdk, Datagrams
<1>6. ASSUME h'.heard.guest = h.heard.guest, NEW f \in F, GuestJoins(f)
      PROVE  FromSdk'
  <2>1. g'.epoch = f.epoch /\ g'.rxLast = Zeros /\ f.type = "HELLO_ACK"
        /\ g.helloCorr # 0 /\ f.corr = g.helloCorr
    BY <1>6 DEF GuestJoins, Zeros, Answers
  <2>2. Unopened(F, f.epoch, h.heard.guest) /\ Line(F, f.epoch, Zeros)
    BY <1>1, <2>1 DEF Offers
  <2>3. Unopened(G, f.epoch, h.heard.guest) /\ Line(G, f.epoch, Zeros)
    <3> HIDE DEF F, G
    <3> QED BY <1>2, <2>2, LineOfLess DEF Unopened, News
  <2>4. Awaited(G, f.epoch, Zeros, h.heard.guest)
    BY <2>3 DEF Awaited, Unopened
  <2> QED BY <1>1, <1>3, <1>6, <2>1, <2>3, <2>4 DEF FromSdk, Datagrams
<1> QED BY <1>4, <1>5, <1>6 DEF GuestTakes, GuestLeaves, GuestSearches

\* An old offer stays good for the guest that looks for it (sendHello): a new
\* HELLO bears an id no ACK on its way can bear, unless nothing was heard yet.
LEMMA OffersToGuest ==
  ASSUME IdsLast, NewsStep, GuestTurn, GuestTakes, g.corrCtr <= g'.corrCtr
  PROVE  Offers'
<1> DEFINE F == Datagrams(toGuest)  G == Datagrams(toGuest')
<1>1. /\ IpcInv /\ IpcInv' /\ TornInv /\ Offers /\ Greetings /\ G \subseteq F /\ F \subseteq Frame
      /\ g.corrCtr \in Word /\ g.corrCtr \in Nat /\ g'.corrCtr \in Nat /\ DownFirst(g)
  BY NewsTyped, FramesOnTheirWay, LaterCounters
     DEF NewsStep, SeqInv, NewsInv, GuestTurn, IpcInv, GuestInv, Sound
<1>2. SUFFICES ASSUME NEW a \in G, a.type = "HELLO_ACK"
               PROVE  /\ a.corr <= g'.corrCtr \/ a.corr = 1
                      /\ Line(G, a.epoch, Zeros)
                      /\ g'.helloCorr # 0 /\ a.corr = g'.helloCorr =>
                           Unopened(G, a.epoch, h'.heard.guest)
  BY DEF Offers, Datagrams
<1>3. /\ a \in F /\ a.corr \in Word /\ (a.corr <= g.corrCtr \/ a.corr = 1)
      /\ Line(F, a.epoch, Zeros)
      /\ g.helloCorr # 0 /\ a.corr = g.helloCorr => Unopened(F, a.epoch, h.heard.guest)
  <2>1. a.corr \in Word
    BY <1>1, <1>2 DEF Frame, HelloFrame, AckFrame, BeatFrame, ByeFrame, DataFrame, DataTypes
  <2> QED BY <1>1, <1>2, <2>1 DEF Offers
<1>4. a.corr <= g'.corrCtr \/ a.corr = 1
  BY <1>1, <1>3, WireAssumption DEF Word
<1>5. Line(G, a.epoch, Zeros)
  <2> HIDE DEF F, G
  <2> QED BY <1>1, <1>3, LineOfLess
<1>6. ASSUME g'.helloCorr # 0, a.corr = g'.helloCorr
      PROVE  Unopened(G, a.epoch, h'.heard.guest)
  <2>1. CASE GuestGoes /\ Takes(g.up, g.epoch, F, g.rxLast, g'.rxLast, h.heard.guest, h'.heard.guest)
    <3>1. g.helloCorr # 0 /\ a.corr = g.helloCorr /\ ~g.up
      BY <1>1, <1>6, <2>1 DEF GuestGoes, DownFirst
    <3>2. h'.heard.guest = h.heard.guest
      BY <2>1, <3>1 DEF Takes
    <3> QED BY <1>1, <1>3, <3>1, <3>2 DEF Unopened, News
  <2>2. CASE GuestLeaves \/ \E f \in F : GuestJoins(f)
    BY <1>6, <2>2 DEF GuestLeaves, GuestJoins
  <2>3. CASE h'.heard.guest = h.heard.guest /\ GuestSearches
    <3>1. a.corr = g.corrCtr + 1
      <4>1. NextCorr(g.corrCtr) = g.corrCtr + 1
        BY <1>1, MintedNext DEF IdsLast
      <4> QED BY <1>6, <2>3, <4>1 DEF GuestSearches
    <3>2. ~(g.corrCtr >= 1)
      BY <1>1, <1>3, <3>1
    <3>3. h'.heard.guest = <<>>
      BY <1>1, <2>3, <3>2 DEF Greetings
    <3> QED BY <3>3 DEF Unopened, Newer, LastOf
  <2> QED BY <2>1, <2>2, <2>3 DEF GuestTakes
<1> QED BY <1>4, <1>5, <1>6

\* So does it while the companion speaks on, and a new offer is of a session
\* in which nothing was said (onHello).
LEMMA OffersOfSdk ==
  ASSUME OneChannel, NewsStep, SdkTurn, h'.heard.guest = h.heard.guest
  PROVE  Offers'
<1> DEFINE F == Datagrams(toGuest)  G == Datagrams(toGuest')
<1>1. /\ IpcInv /\ IpcInv' /\ TornInv /\ Offers /\ Greetings /\ g' = g
  BY DEF NewsStep, SeqInv, NewsInv, SdkTurn
<1>2. SUFFICES ASSUME NEW a \in G, a.type = "HELLO_ACK"
               PROVE  /\ a.corr <= g.corrCtr \/ a.corr = 1
                      /\ Line(G, a.epoch, Zeros)
                      /\ g.helloCorr # 0 /\ a.corr = g.helloCorr =>
                           Unopened(G, a.epoch, h.heard.guest)
  BY <1>1 DEF Offers, Datagrams
<1>3. CASE a \in F
  <2>1. /\ a.corr <= g.corrCtr \/ a.corr = 1
        /\ Line(F, a.epoch, Zeros) /\ a.epoch \in Tokens
        /\ g.helloCorr # 0 /\ a.corr = g.helloCorr => Unopened(F, a.epoch, h.heard.guest)
    BY <1>1, <1>2, <1>3, NewsTyped DEF Offers, AcksOwn
  <2>2. Line(G, a.epoch, Zeros)
    <3>1. CASE c'.up /\ c'.epoch = a.epoch
      <4>1. /\ \A f \in G : DataOf(f, a.epoch) => Trails(c'.txSeq, f.ch, f.seq, 0)
            /\ \A ch \in Chans : Trails(c'.txSeq, ch, 0, 0)
        BY <1>2, <3>1 DEF NewsStep, SeqInv, SaidBySdk, OfferIsNew
      <4>2. c'.txSeq \in [Chans -> Word] /\ G \subseteq Frame /\ Zeros \in [Chans -> Word]
        BY <1>1, LaterFrames, WireAssumption DEF Zeros, Word
      <4>3. \A ch \in Chans : Trails(c'.txSeq, ch, Zeros[ch], 0)
        BY <4>1 DEF Zeros
      <4> HIDE DEF G
      <4> QED BY <4>1, <4>2, <4>3, TrailLine
    <3>2. CASE ~(c'.up /\ c'.epoch = a.epoch)
      <4>1. \A f \in G : DataOf(f, a.epoch) => f \in F
        BY <1>1, <2>1, <3>2, SdkAdds
      <4> HIDE DEF F, G
      <4> QED BY <2>1, <4>1, LineOfLess
    <3> QED BY <3>1, <3>2
  <2>3. ASSUME Unopened(F, a.epoch, h.heard.guest) PROVE Unopened(G, a.epoch, h.heard.guest)
    <3>1. \A f \in News(G) : \A d : f \in F \/ Newer(f, d, h.heard.guest)
      BY OrderKept
    <3> HIDE DEF F, G
    <3> QED BY <2>3, <3>1 DEF Unopened, News
  <2> QED BY <2>1, <2>2, <2>3
<1>4. CASE a \notin F
  <2>1. PICK f : Greets(f) /\ \E e \in Fresh(f) : Begins(e, f.corr)
    BY <1>2, <1>4 DEF SdkTurn, Leaves, Stays
  <2>2. PICK e \in Fresh(f) : Begins(e, f.corr)
    BY <2>1
  <2> DEFINE ack == [type |-> "HELLO_ACK", epoch |-> e, corr |-> f.corr, name |-> SdkName]
  <2>3. G \subseteq F \cup {ack}
    BY <2>2 DEF Begins
  <2>4. ack.type = "HELLO_ACK" /\ ack.epoch = e /\ ack.corr = f.corr
    OBVIOUS
  <2> HIDE DEF ack
  <2>5. a = ack
    BY <1>2, <1>4, <2>3
  <2>6. \A x \in G : ~DataOf(x, e)
    <3>1. \A x \in F : x.epoch # e
      BY <2>2 DEF Fresh, Held, Datagrams
    <3> QED BY <2>3, <2>4, <3>1 DEF DataOf, DataTypes
  <2>7. a.corr <= g.corrCtr \/ a.corr = 1
    BY <1>1, <2>1, <2>4, <2>5 DEF Greets, Greetings
  <2>8. Line(G, e, Zeros)
    <3> HIDE DEF G
    <3> QED BY <2>6, LineOfNone
  <2>9. Unopened(G, e, h.heard.guest)
    BY <2>6 DEF Unopened, News, Newer, DataOf, DataTypes
  <2> QED BY <2>4, <2>5, <2>7, <2>8, <2>9
<1> QED BY <1>3, <1>4

\* No HELLO is older than the counter that numbers them (sendHello).
LEMMA GreetingsKept ==
  ASSUME IdsLast, NewsStep, GuestTurn, GuestTakes, g.corrCtr <= g'.corrCtr
  PROVE  Greetings'
<1>1. /\ IpcInv /\ IpcInv' /\ TornInv /\ Greetings
      /\ g.corrCtr \in Word /\ g.corrCtr \in Nat /\ g'.corrCtr \in Nat
      /\ Datagrams(out) \subseteq Frame /\ Datagrams(out') \subseteq Frame
  BY NewsTyped, LaterFrames, FramesOnTheirWay, LaterCounters DEF NewsStep, SeqInv, NewsInv, Outbound
<1>2. \A f \in Datagrams(out) : f.type = "HELLO" => f.corr \in Word /\ f.corr <= g.corrCtr
  BY <1>1 DEF Greetings, Frame, HelloFrame, AckFrame, BeatFrame, ByeFrame, DataFrame, DataTypes
<1>3. \A f \in Datagrams(out) : f.type = "HELLO" => f.corr <= g'.corrCtr
  BY <1>1, <1>2, WireAssumption DEF Word
<1>4. CASE GuestGoes /\ Takes(g.up, g.epoch, Datagrams(toGuest), g.rxLast, g'.rxLast,
                              h.heard.guest, h'.heard.guest)
  <2>1. \A f \in Queued(g) : f.type # "HELLO"
    <3>1. \A p \in Queues : g.q[p] \in Seq(BeatFrame \cup DataFrame)
      BY <1>1 DEF IpcInv, GuestInv, Sound, LinkState
    <3>2. ASSUME NEW p \in Queues, NEW i \in DOMAIN g.q[p] PROVE g.q[p][i] \in BeatFrame \cup DataFrame
      <4>1. g.q[p] \in Seq(BeatFrame \cup DataFrame)
        BY <3>1
      <4> QED BY <3>2, <4>1, ElementOfSeq, LenProperties
    <3> QED BY <3>2 DEF Queued, Datagrams, BeatFrame, DataFrame, DataTypes
  <2>2. \A f \in Datagrams(out') : f.type = "HELLO" => f.corr <= g'.corrCtr
    BY <1>3, <1>4, <2>1 DEF GuestGoes, Outbound
  <2>3. g'.up \/ g'.helloCorr # 0 \/ h'.heard.guest # <<>> =>
          g.up \/ g.helloCorr # 0 \/ h.heard.guest # <<>>
    BY <1>4 DEF GuestGoes, Takes
  <2> QED BY <1>1, <2>2, <2>3 DEF Greetings, Datagrams
<1>5. CASE h'.heard.guest = h.heard.guest /\ GuestLeaves
  BY <1>1, <1>3, <1>5 DEF Greetings, GuestLeaves, Datagrams
<1>6. CASE h'.heard.guest = h.heard.guest /\ \E f \in Datagrams(toGuest) : GuestJoins(f)
  BY <1>1, <1>3, <1>6 DEF Greetings, GuestJoins, Answers, Datagrams
<1>7. CASE h'.heard.guest = h.heard.guest /\ GuestSearches
  <2>1. g'.corrCtr = g.corrCtr + 1
    <3>1. NextCorr(g.corrCtr) = g.corrCtr + 1
      BY <1>1, MintedNext DEF IdsLast
    <3> QED BY <1>7, <3>1 DEF GuestSearches
  <2>2. g'.corrCtr >= 1
    BY <1>1, <2>1
  <2>3. \A f \in Datagrams(out') : f.type = "HELLO" => f.corr <= g'.corrCtr
    <3>1. \A f \in Datagrams(out') : f \in Datagrams(out) \/ f.corr = g'.corrCtr
      BY <1>7 DEF GuestSearches
    <3> QED BY <1>1, <1>3, <3>1
  <2> QED BY <2>2, <2>3 DEF Greetings, Datagrams
<1> QED BY <1>4, <1>5, <1>6, <1>7 DEF GuestTakes

\* A step of the guest keeps the order of news.
LEMMA NewsGuest ==
  ASSUME OneChannel, IdsLast, NewsStep, GuestTurn, GuestTakes, g.corrCtr <= g'.corrCtr
  PROVE  NewsInv'
<1>1. FromGuest'
  <2>1. IpcInv /\ IpcInv' /\ TornInv /\ c' = c /\ h'.heard.sdk = h.heard.sdk
    BY DEF NewsStep, SeqInv, GuestTurn, GuestTakes
  <2>2. \A e \in Tokens, f \in Outbound' : DataOf(f, e) => f \in Outbound \/ (g'.up /\ g'.epoch = e)
    BY <2>1, GuestAdds
  <2> QED BY <2>1, <2>2, SdkWaits
<1>2. FromSdk' /\ Offers' /\ Greetings'
  BY GuestListens, OffersToGuest, GreetingsKept
<1> QED BY <1>1, <1>2 DEF NewsInv

\* So does a step of the companion.
LEMMA NewsSdk ==
  ASSUME OneChannel, NewsStep, SdkTurn, SdkTakes
  PROVE  NewsInv'
<1>1. IpcInv /\ TornInv /\ Greetings /\ g' = g /\ h'.heard.guest = h.heard.guest
      /\ Datagrams(out') \subseteq Datagrams(out)
  BY DEF NewsStep, SeqInv, NewsInv, SdkTurn, SdkTakes
<1>2. FromSdk'
  <2>1. \A e \in Tokens, f \in Datagrams(toGuest') :
          DataOf(f, e) => f \in Datagrams(toGuest) \/ (c'.up /\ c'.epoch = e)
    BY <1>1, SdkAdds
  <2> QED BY <1>1, <2>1, GuestWaits
<1>3. Greetings'
  BY <1>1 DEF Greetings, Datagrams
<1> QED BY <1>1, <1>2, <1>3, SdkListens, OffersOfSdk DEF NewsInv

\* What the network and the player do makes nothing newer (Lose, Duplicate, Save).
LEMMA NewsBetween ==
  ASSUME OneChannel, NewsStep, Between, h'.heard = h.heard
  PROVE  NewsInv'
<1>1. IpcInv' /\ Offers /\ Greetings /\ g' = g /\ c' = c
      /\ Datagrams(out') \subseteq Datagrams(out) /\ Datagrams(toGuest') \subseteq Datagrams(toGuest)
  BY DEF NewsStep, SeqInv, NewsInv, Between
<1>2. Outbound' \subseteq Outbound
  <2>1. Queued(g') = Queued(g) /\ Outbound' = Datagrams(out') \cup Queued(g')
    BY <1>1, LaterFrames DEF Queued
  <2> QED BY <1>1, <2>1 DEF Outbound
<1>3. FromGuest'
  <2>1. c' = c /\ h'.heard.sdk = h.heard.sdk
        /\ \A e \in Tokens, f \in Outbound' : DataOf(f, e) => f \in Outbound \/ (g'.up /\ g'.epoch = e)
    BY <1>1, <1>2
  <2> QED BY <2>1, SdkWaits
<1>4. FromSdk'
  <2>1. g' = g /\ h'.heard.guest = h.heard.guest
        /\ \A e \in Tokens, f \in Datagrams(toGuest') :
             DataOf(f, e) => f \in Datagrams(toGuest) \/ (c'.up /\ c'.epoch = e)
    BY <1>1
  <2> QED BY <2>1, GuestWaits
<1>5. Greetings'
  BY <1>1 DEF Greetings, Datagrams
<1>6. Offers'
  <2> DEFINE F == Datagrams(toGuest)  G == Datagrams(toGuest')
  <2>1. ASSUME NEW a \in G, a.type = "HELLO_ACK"
        PROVE  /\ a.corr <= g.corrCtr \/ a.corr = 1
               /\ Line(G, a.epoch, Zeros)
               /\ g.helloCorr # 0 /\ a.corr = g.helloCorr =>
                    Unopened(G, a.epoch, h.heard.guest)
    <3>1. /\ a.corr <= g.corrCtr \/ a.corr = 1
          /\ Line(F, a.epoch, Zeros)
          /\ g.helloCorr # 0 /\ a.corr = g.helloCorr => Unopened(F, a.epoch, h.heard.guest)
      BY <1>1, <2>1 DEF Offers
    <3>2. G \subseteq F
      BY <1>1
    <3> HIDE DEF F, G
    <3> QED BY <3>1, <3>2, LineOfLess DEF Unopened, News
  <2> QED BY <1>1, <2>1 DEF Offers, Datagrams
<1> QED BY <1>3, <1>4, <1>5, <1>6 DEF NewsInv

\* Before anything is said the order holds.
LEMMA NewsInitInv == Init => NewsInv
<1> SUFFICES ASSUME Init PROVE NewsInv
  OBVIOUS
<1>1. /\ ~g.up /\ g.helloCorr = 0 /\ ~c.up /\ Outbound = {} /\ Datagrams(toGuest) = {}
      /\ Datagrams(out) = {}
      /\ h.heard.guest = <<>> /\ h.heard.sdk = <<>> /\ h.said.guest = 0 /\ h.said.sdk = 0
  BY DEF Init, GuestInit, CompanionInit, NewLink, NewSession, Outbound, Queued, Datagrams
<1>2. DOMAIN <<>> = {} /\ 2 .. Len(<<>>) = {}
  OBVIOUS
<1>3. Ordered(<<>>) /\ SaidOf({}, <<>>, 0) /\ InOrder({})
  BY <1>2 DEF Ordered, SaidOf, InOrder, News
<1> QED BY <1>1, <1>3 DEF NewsInv, FromGuest, FromSdk, Offers, Greetings

\* So every step keeps it.
LEMMA NewsNextInv ==
  ASSUME MaxLoads = 0, MaxFragments < U32 \div 2, OneChannel, \A b \in Bodies : Size[b] = 1
  PROVE  SeqInv /\ TornInv /\ NewsInv /\ Window /\ IdsLast /\ [Next]_vars => NewsInv'
<1> SUFFICES ASSUME SeqInv, TornInv, NewsInv, Window, IdsLast, [Next]_vars
             PROVE  NewsInv'
  OBVIOUS
<1>1. IpcInv /\ SeqInv'
  BY SeqNextInv DEF SeqInv
<1>2. GuestTells /\ SdkTells
  BY <1>1, EveryTells
<1>3. NewsStep
  BY <1>1, <1>2 DEF NewsStep
<1>4. \/ Between /\ h'.heard = h.heard
      \/ GuestTurn /\ GuestTakes
      \/ SdkTurn /\ SdkTakes
  BY <1>1, EveryHears
<1>5. g.corrCtr <= g'.corrCtr
  <2>1. \A r \in Reqs : Size[r] = 1
    BY FkIpcAssumption DEF Reqs
  <2>2. GuestTurns \/ SdkTurns
    BY <1>1, <2>1, EveryTurn
  <2>3. g.corrCtr \in Nat
    BY <1>1, FramesOnTheirWay
  <2> QED BY <2>2, <2>3 DEF GuestTurns, GuestCuts, SdkTurns
<1> QED BY <1>3, <1>4, <1>5, NewsBetween, NewsGuest, NewsSdk

\* Within a session, a message that is not a snapshot is newer than the one
\* heard before it, whatever the sockets lose, copy or reorder and however often
\* the two ends meet, on a link of one channel whose messages travel in one
\* frame and no load takes back what was said (channelFrame on both sides,
\* onHello, onHelloAck, sendHello).
THEOREM NewsComesInOrder ==
  ASSUME MaxLoads = 0, MaxFragments < U32 \div 2, OneChannel, \A b \in Bodies : Size[b] = 1
  PROVE  Spec /\ []Window /\ []IdsLast => []NewsIsNew
<1>1. \A r \in Reqs : Size[r] = 1
  BY FkIpcAssumption DEF Reqs
<1>2. Init => SeqInv /\ TornInv /\ NewsInv
  BY SeqInitInv, TornInitInv, NewsInitInv
<1>3. SeqInv /\ TornInv /\ NewsInv /\ Window /\ IdsLast /\ [Next]_vars
        => SeqInv' /\ TornInv' /\ NewsInv'
  <2> SUFFICES ASSUME SeqInv, TornInv, NewsInv, Window, IdsLast, [Next]_vars
               PROVE  SeqInv' /\ TornInv' /\ NewsInv'
    OBVIOUS
  <2>1. SeqInv' /\ IpcInv /\ IpcInv'
    BY SeqNextInv DEF SeqInv
  <2>2. TornInv'
    BY <1>1, <2>1, TornNextInv
  <2>3. NewsInv'
    BY NewsNextInv
  <2> QED BY <2>1, <2>2, <2>3
<1>4. NewsInv => NewsIsNew
  <2> SUFFICES ASSUME NewsInv, NEW who \in {"guest", "sdk"}, NEW i \in 2 .. Len(h.heard[who]),
                      h.heard[who][i].epoch = h.heard[who][i - 1].epoch,
                      ~h.heard[who][i].snapshot
               PROVE  h.heard[who][i].n > h.heard[who][i - 1].n
    BY DEF NewsIsNew
  <2>1. Ordered(h.heard.guest) /\ Ordered(h.heard.sdk)
    BY DEF NewsInv, FromGuest, FromSdk
  <2>2. Ordered(h.heard[who])
    BY <2>1
  <2> QED BY <2>2 DEF Ordered
<1> QED BY <1>2, <1>3, <1>4, PTL DEF Spec

=============================================================================
