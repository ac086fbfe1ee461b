----------------------------- MODULE MCGuestLink -----------------------------
(* The guest's link against every datagram of a small set, in any order. *)
EXTENDS GuestLink

CONSTANTS b1, b2, MaxTick, MaxBoot, MaxCorr, MaxSeq

\* b2 takes two frames.
MCSize == [b \in Bodies |-> IF b = b2 THEN 2 ELSE 1]
MCSeq == <<3, 0>>
MCEpochs == Word \cup {9}

\* The companion's token is 9; seq and corr run over what can matter.
Data(type, flag, ch, seq, corr, frag, nfrag, b) ==
  [type |-> type, flag |-> flag, ch |-> ch, epoch |-> 9, seq |-> seq,
   corr |-> corr, frag |-> frag, nfrag |-> nfrag, body |-> b]
MCInbound ==
  {[type |-> "HELLO_ACK", epoch |-> 9, corr |-> k, name |-> "sdk"] : k \in {1, 2}}
  \cup {[type |-> "HELLO_ACK", epoch |-> 9, corr |-> 1, name |-> "other"],
        [type |-> "HEARTBEAT", epoch |-> 9, tick |-> 0],
        [type |-> "BYE", epoch |-> 9],
        Data("RESYNC", "none", 1, 2, 0, 0, 1, NoBody),
        Data("MSG", "snapshot", 1, 1, 0, 0, 1, b1),
        Data("REQ", "none", 2, 1, 1, 0, 1, b1)}
  \cup {Data("REQ", "none", 1, s, 1, 0, 1, b1) : s \in {1, 2}}
  \cup {Data("REQ", "none", 1, s, 2, s - 1, 2, b2) : s \in {1, 2}}
  \cup {Data("RESP", "none", 1, s, k, 0, 1, b1) : s \in {1}, k \in {2, 3}}

\* Bounds.  The network takes what a Pump sent before the next one: nothing the
\* link does depends on it.
Bounded == /\ g.tick <= MaxTick /\ g.boot <= MaxBoot /\ g.corrCtr <= MaxCorr
           /\ \A ch \in Chans : g.txSeq[ch] <= MaxSeq[ch]
           /\ pump.at \in {"idle", "recv"} => out = <<>>
=============================================================================
