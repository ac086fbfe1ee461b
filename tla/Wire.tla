-------------------------------- MODULE Wire --------------------------------
(***************************************************************************)
(* The frames of the fkipc link and the u32 arithmetic both ends share     *)
(* (guest/go/fkipc/wire/frame.go, control.go).                             *)
(*                                                                         *)
(* A datagram is one frame.  A payload is a member of Bodies; Size says    *)
(* how many frames a payload is cut into at the negotiated frame size.     *)
(* Codec detail (offsets, magic, lengths) is left out: a frame that does   *)
(* not decode is dropped by both ends before it reaches any state.         *)
(***************************************************************************)
EXTENDS Integers, Sequences, FiniteSets

CONSTANTS
  U32,          \* the modulus of the u32 counters; even
  Epochs,       \* the u32 values of the epoch field; a small instance has more
                \* of them than its counters have values
  Chans,        \* the application channels (channel 0 is the protocol's)
  Bodies,       \* the payloads, NoBody among them
  NoBody,       \* the empty payload: RESYNC, error RESP
  Size,         \* frames a payload is cut into
  MaxFragments  \* the ceiling both ends put on that

ASSUME WireAssumption ==
  /\ U32 \in Nat /\ U32 > 2 /\ U32 % 2 = 0
  /\ 0 .. U32 - 1 \subseteq Epochs /\ Epochs \subseteq Nat
  /\ MaxFragments \in Nat \ {0}
  /\ NoBody \in Bodies
  /\ Size \in [Bodies -> 1 .. MaxFragments]
  /\ Size[NoBody] = 1

Word == 0 .. U32 - 1

\* a - b and a + b in u32.
Sub(a, b) == (a - b) % U32
Add(a, b) == (a + b) % U32

\* int32(seq - last): the RFC 1982 comparison of seq numbers and of ticks.
SerialDelta(seq, last) ==
  IF Sub(seq, last) < U32 \div 2 THEN Sub(seq, last) ELSE Sub(seq, last) - U32

\* A correlation id is minted from a counter that steps over 0.
NextCorr(ctr) == IF Add(ctr, 1) = 0 THEN 1 ELSE Add(ctr, 1)

\* What a RESP says besides its payload: an ordinary answer or an error code.
Errors == {"NO_HANDLER", "DUPLICATE", "BUSY", "APP"}
Flags  == {"none", "snapshot"} \cup Errors
DataTypes == {"MSG", "REQ", "RESP", "RESYNC"}

HelloFrame == [type : {"HELLO"}, epoch : Epochs, corr : Word, tick : Word, name : STRING]
AckFrame   == [type : {"HELLO_ACK"}, epoch : Epochs, corr : Word, name : STRING]
BeatFrame  == [type : {"HEARTBEAT"}, epoch : Epochs, tick : Word]
ByeFrame   == [type : {"BYE"}, epoch : Epochs]
DataFrame  == [type : DataTypes, flag : Flags, ch : Chans, epoch : Epochs,
               seq : Word, corr : Word, frag : 0 .. MaxFragments - 1,
               nfrag : 1 .. MaxFragments, body : Bodies]
Frame == HelloFrame \cup AckFrame \cup BeatFrame \cup ByeFrame \cup DataFrame

\* Mutant: fragments counted from 1.
FragmentsFromOne(type, flag, ch, epoch, seq, corr, b) ==
  [i \in 1 .. Size[b] |->
     [type |-> type, flag |-> flag, ch |-> ch, epoch |-> epoch,
      seq |-> Add(seq, i), corr |-> corr, frag |-> i,
      nfrag |-> Size[b], body |-> b]]

\* The frames of one message, from sequence number seq + 1 on.
Fragments(type, flag, ch, epoch, seq, corr, b) ==
  [i \in 1 .. Size[b] |->
     [type |-> type, flag |-> flag, ch |-> ch, epoch |-> epoch,
      seq |-> Add(seq, i), corr |-> corr, frag |-> i - 1,
      nfrag |-> Size[b], body |-> b]]

(***************************************************************************)
(* Reassembly: at most one open message per channel and direction, keyed   *)
(* by corr alone.                                                          *)
(***************************************************************************)
Closed == [open |-> FALSE, corr |-> 0, nfrag |-> 0, type |-> "MSG",
           flag |-> "none", parts |-> {}]

Reassembly == [open : BOOLEAN, corr : Word, nfrag : 0 .. MaxFragments,
               type : DataTypes, flag : Flags,
               parts : SUBSET ((0 .. MaxFragments - 1) \X Bodies)]

\* Mutant: the corr of a fragment is not compared.
ContinuesAnyCorr(r, f) == r.open /\ r.nfrag = f.nfrag

\* The frame belongs to the open message: same corr, same fragment count.
Continues(r, f) == r.open /\ r.corr = f.corr /\ r.nfrag = f.nfrag

\* Same corr, another fragment count: neither message can be trusted.
Disagrees(r, f) == r.open /\ r.corr = f.corr /\ r.nfrag # f.nfrag

\* A frame of another corr abandons the open message and starts its own.
Gather(r, f) ==
  LET base == IF Continues(r, f) THEN r
              ELSE [open |-> TRUE, corr |-> f.corr, nfrag |-> f.nfrag,
                    type |-> f.type, flag |-> f.flag, parts |-> {}]
  IN [base EXCEPT !.parts = {p \in @ : p[1] # f.frag} \cup {<<f.frag, f.body>>}]

Whole(r) == {p[1] : p \in r.parts} = 0 .. r.nfrag - 1

\* A message every part of which was cut from the same payload.
Intact(parts) == \E b \in Bodies : parts = {<<i, b>> : i \in 0 .. Size[b] - 1}

\* The payload a handler reads: the one the message begins with.
BodyOf(parts) == (CHOOSE p \in parts : p[1] = 0)[2]

\* What a socket or a queue holds.
Datagrams(sock) == {sock[i] : i \in DOMAIN sock}

\* A socket holds SockBuf datagrams; what does not fit is dropped in silence.
Put(sock, f, SockBuf) == IF Len(sock) < SockBuf THEN Append(sock, f) ELSE sock
=============================================================================
