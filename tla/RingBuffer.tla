----------------------------- MODULE RingBuffer -----------------------------
(***************************************************************************)
(* Ring_Buffer of kstd/ring_buffer.hh, the queue behind threads::ready_queue *)
(* and input::events.  Both users hold their spinlock around every call, so *)
(* a call is one action.                                                    *)
(***************************************************************************)
EXTENDS Integers, Sequences

CONSTANTS
    N,          \* capacity
    Values      \* elements

ASSUME CapacityAssumption == N \in Nat \ {0}

VARIABLES
    data, head, tail, size,
    element,    \* what the last pop_front returned
    panic

vars == <<data, head, tail, size, element, panic>>

Init ==
    /\ data \in [0 .. N - 1 -> Values]
    /\ head = 0 /\ tail = 0 /\ size = 0
    /\ element \in Values
    /\ panic = "none"

full == size = N
empty == size = 0

After(index) == (index + 1) % N

Panic(message) == panic' = message /\ UNCHANGED <<data, head, tail, size, element>>

push_back_Overwrites(e) ==
    /\ data' = [data EXCEPT ![tail] = e]
    /\ tail' = After(tail)
    /\ size' = IF full THEN size ELSE size + 1
    /\ UNCHANGED <<head, element, panic>>

push_back(e) ==
    IF full THEN Panic("push_back on full Ring_Buffer")
    ELSE /\ data' = [data EXCEPT ![tail] = e]
         /\ tail' = After(tail)
         /\ size' = size + 1
         /\ UNCHANGED <<head, element, panic>>

pop_front ==
    IF empty THEN Panic("pop_front on empty Ring_Buffer")
    ELSE /\ element' = data[head]
         /\ head' = After(head)
         /\ size' = size - 1
         /\ UNCHANGED <<data, tail, panic>>

clear == head' = 0 /\ tail' = 0 /\ size' = 0 /\ UNCHANGED <<data, element, panic>>

Next == panic = "none" /\ (pop_front \/ clear \/ \E e \in Values : push_back(e))

Spec == Init /\ [][Next]_vars

-----------------------------------------------------------------------------
TypeOK ==
    /\ data \in [0 .. N - 1 -> Values]
    /\ head \in 0 .. N - 1
    /\ tail \in 0 .. N - 1
    /\ size \in 0 .. N
    /\ element \in Values
    /\ panic \in {"none", "push_back on full Ring_Buffer", "pop_front on empty Ring_Buffer"}

(* The two indices and the size never drift apart, across wrap-around and   *)
(* clear(): size elements lie between head and tail.                        *)
TailFollowsHead == tail = (head + size) % N

\* The elements in order, as format() walks them.
Contents == [i \in 1 .. size |-> data[(head + i - 1) % N]]

Queue == INSTANCE Fifo WITH queue <- Contents, returned <- element, refused <- (panic # "none")

(* Elements leave in the order they came in and none is lost, duplicated or *)
(* overwritten, wherever the indices wrap: Ring_Buffer implements Fifo.     *)
ImplementsFifo == Queue!Spec
=============================================================================
