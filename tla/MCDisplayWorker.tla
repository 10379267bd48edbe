-------------------------- MODULE MCDisplayWorker --------------------------
(* Instances of DisplayWorker small enough for TLC. *)
EXTENDS DisplayWorker

CONSTANTS Text, Score, Web, Overlay, Card, Gif, Clock, P1, P2

\* Only the overlay plays over something: the held display its message also makes.
MCThen == [d \in Displays |-> IF d = Overlay THEN CHOOSE h \in Held : TRUE ELSE None]
=============================================================================
