------------------------------ MODULE LaneFifo ------------------------------
(***************************************************************************)
(* What an inbox promises: every producer has a queue of its own, and the  *)
(* consumer takes from it, in order and once, exactly what was pushed.     *)
(***************************************************************************)
EXTENDS Sequences

CONSTANTS Producers, Values

VARIABLES
    queue,  \* queue[p]: pushed and not yet taken
    taken   \* the item the consumer is taking, with its producer, or <<>>

Init ==
    /\ queue = [p \in Producers |-> <<>>]
    /\ taken = <<>>

Push(p, items) ==
    /\ queue' = [queue EXCEPT ![p] = @ \o items]
    /\ UNCHANGED taken

Take(p) ==
    /\ taken = <<>>
    /\ queue[p] # <<>>
    /\ queue' = [queue EXCEPT ![p] = Tail(@)]
    /\ taken' = <<p, Head(queue[p])>>

Took ==
    /\ taken # <<>>
    /\ taken' = <<>>
    /\ UNCHANGED queue

Next ==
    Took \/ \E p \in Producers :
        \/ Take(p)
        \/ \E v \in Values : Push(p, <<v>>)
        \/ \E v, w \in Values : Push(p, <<v, w>>)

Spec == Init /\ [][Next]_<<queue, taken>>
=============================================================================
