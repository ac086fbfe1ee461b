------------------------------ MODULE MCFkIpc -------------------------------
(* Small instances of the whole link; payloads are numbers. *)
EXTENDS FkIpc

OneFrame == [b \in Bodies |-> 1]
TwoFrames == [b \in Bodies |-> IF b = NoBody THEN 1 ELSE 2]
NoFrames == {}

\* Session tokens are numbers no counter reaches.
MCEpochs == Word \cup 20 .. 24
=============================================================================
