--------------------------- MODULE DisplayHandOff ---------------------------
(***************************************************************************)
(* What submit() promises its callers, with the panel left out: a bounded  *)
(* queue from which nothing disappears uncounted and in which the newest   *)
(* item is never the one that has to go.                                   *)
(***************************************************************************)
EXTENDS Integers, Sequences

CONSTANTS Items,   \* what is handed off
          Size     \* how many may wait

VARIABLES waiting, offered, taken, dropped, closed

vars == <<waiting, offered, taken, dropped, closed>>

Init ==
    /\ waiting = <<>>
    /\ offered = 0 /\ taken = 0 /\ dropped = 0
    /\ closed = FALSE

\* x is new and goes last.  To make room the oldest items go, and an item that only
\* waits to be replaced: the last one.
Offer(x) ==
    /\ \A i \in DOMAIN waiting : waiting[i] # x
    /\ \E from \in 1..Len(waiting) + 1, to \in {Len(waiting) - 1, Len(waiting)} :
            waiting' = Append(SubSeq(waiting, from, to), x)
    /\ Len(waiting') <= Size
    /\ offered' = offered + 1
    /\ dropped' = dropped + (Len(waiting) + 1 - Len(waiting'))
    /\ UNCHANGED <<taken, closed>>

\* Everything waiting is dropped, for good once the hand-off is closed.
Discard ==
    /\ waiting' = <<>>
    /\ dropped' = dropped + Len(waiting)
    /\ closed' \in {closed, TRUE}
    /\ UNCHANGED <<offered, taken>>

Take ==
    /\ waiting # <<>> /\ ~closed
    /\ waiting' = Tail(waiting)
    /\ taken' = taken + 1
    /\ UNCHANGED <<offered, dropped, closed>>

Next == Discard \/ Take \/ \E x \in Items : Offer(x)

Spec == Init /\ [][Next]_vars /\ WF_vars(Take)
=============================================================================
