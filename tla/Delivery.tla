------------------------------ MODULE Delivery ------------------------------
(***************************************************************************)
(* What the consumer of some streams promises, with Redis, subscriptions   *)
(* and failures left out: the entries of a stream reach the handlers in    *)
(* the order they were added, none of them twice.  Entries may be left out *)
(* for good; one that was left out does not come after a later one.        *)
(***************************************************************************)
EXTENDS Integers, Sequences

CONSTANT Streams

VARIABLES sent,    \* how many entries were added to each stream
          shown    \* the entries that reached the handlers, in order

vars == <<sent, shown>>

Init == sent = [s \in Streams |-> 0] /\ shown = <<>>

Send(s) == sent' = [sent EXCEPT ![s] = @ + 1] /\ UNCHANGED shown

Show(s, id) ==
    /\ id \in 1..sent[s]
    /\ \A i \in DOMAIN shown : shown[i][1] = s => shown[i][2] < id
    /\ shown' = Append(shown, <<s, id>>)
    /\ UNCHANGED sent

Next == \E s \in Streams : Send(s) \/ \E id \in 1..sent[s] : Show(s, id)

Spec == Init /\ [][Next]_vars
=============================================================================
