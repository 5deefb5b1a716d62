-------------------------------- MODULE Fifo --------------------------------
(***************************************************************************)
(* What a Ring_Buffer promises its users: a queue of at most N elements,    *)
(* first in first out, that refuses a push when full and a pop when empty.  *)
(***************************************************************************)
EXTENDS Integers, Sequences

CONSTANTS N, Values

VARIABLES
    queue,      \* the elements, oldest first
    returned,   \* result of the last pop_front
    refused     \* whether an assertion has stopped the program

Init == queue = <<>> /\ returned \in Values /\ refused = FALSE

Push(e) ==
    /\ IF Len(queue) = N
       THEN refused' = TRUE /\ UNCHANGED queue
       ELSE queue' = Append(queue, e) /\ UNCHANGED refused
    /\ UNCHANGED returned

Pop ==
    IF queue = <<>>
    THEN refused' = TRUE /\ UNCHANGED <<queue, returned>>
    ELSE returned' = Head(queue) /\ queue' = Tail(queue) /\ UNCHANGED refused

Clear == queue' = <<>> /\ UNCHANGED <<returned, refused>>

Next == ~refused /\ (Pop \/ Clear \/ \E e \in Values : Push(e))

Spec == Init /\ [][Next]_<<queue, returned, refused>>
=============================================================================
