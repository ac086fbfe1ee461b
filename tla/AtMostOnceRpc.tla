--------------------------- MODULE AtMostOnceRpc ----------------------------
(***************************************************************************)
(* What REQ and RESP promise, seen from the two applications: a request is *)
(* executed to its end at most once however often it is sent, its sender   *)
(* is told one outcome, an answer is the answer to that very request, and  *)
(* any other outcome leaves open whether it was executed - before it was   *)
(* told or afterwards.                                                     *)
(*                                                                         *)
(* The promise lasts as long as the answerer remembers: of a request that  *)
(* it forgot while a retry was still to come it is only promised that one  *)
(* outcome is told, and an answer only after it was executed.              *)
(***************************************************************************)
EXTENDS Naturals, Sequences

CONSTANT Requests
VARIABLES
  asked,  \* the requests issued
  ran,    \* how often each was executed
  told,   \* the outcomes its sender was told
  lapsed  \* those the answerer forgot while a retry was still to come
calls == <<asked, ran, told, lapsed>>

\* ErrTimeout, ErrSessionLost, ErrSessionShut and the error codes of a RESP.
Unknown == {"timeout", "lost", "shut", "BUSY", "DUPLICATE", "NO_HANDLER", "APP"}

Init == /\ asked = {}
        /\ ran = [r \in Requests |-> 0]
        /\ told = [r \in Requests |-> <<>>]
        /\ lapsed = {}

Ask(r) == /\ r \notin asked /\ asked' = asked \cup {r}
          /\ UNCHANGED <<ran, told>>

Execute(r) == /\ r \in asked
              /\ ran[r] = 0 \/ r \in lapsed
              /\ ran' = [ran EXCEPT ![r] = @ + 1]
              /\ UNCHANGED <<asked, told>>

\* A session's end tells every pending request at once.
Tell == /\ \A r \in Requests :
             \/ told'[r] = told[r]
             \/ /\ r \in asked /\ told[r] = <<>>
                /\ \/ told'[r] = <<"answer">> /\ ran[r] > 0
                   \/ \E u \in Unknown : told'[r] = <<u>>
        /\ told' \in [Requests -> {told'[r] : r \in Requests}]
        /\ UNCHANGED <<asked, ran>>

\* Whatever happens, some of what was asked may be forgotten with it, for good.
Forget == lapsed \subseteq lapsed' /\ lapsed' \in SUBSET asked

Next == /\ \/ \E r \in Requests : Ask(r) \/ Execute(r)
           \/ Tell
           \/ UNCHANGED <<asked, ran, told>>
        /\ Forget
Spec == Init /\ [][Next]_calls
=============================================================================
