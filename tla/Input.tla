-------------------------------- MODULE Input --------------------------------
(***************************************************************************)
(* The input state of gameos/input.hh: interrupt handlers submit events,    *)
(* the game reads per-frame edges and, or, polls the event queue.  Every    *)
(* operation holds the lock with interrupts off, so it is one action.       *)
(*                                                                          *)
(* Keys and mouse buttons are handled alike and are one set of switches     *)
(* here, each with a held flag and its edges; motion and wheel, x and y,    *)
(* are axes that are summed alike.                                          *)
(***************************************************************************)
EXTENDS Integers, Sequences

CONSTANTS
    Keys, Buttons,
    UNKNOWN,                \* Key::UNKNOWN, which backends submit for other codes
    Axes, Deltas,           \* axes and the relative movements devices report
    EVENT_QUEUE_CAPACITY,
    MAX_TRAVEL,             \* bound on the movement submitted along an axis
    MAX_DROPPED             \* bound on dropped_event_count

Switches == Keys \cup Buttons

ASSUME InputAssumption ==
    /\ UNKNOWN \notin Switches
    /\ Keys \cap Buttons = {}
    /\ Deltas \subseteq Int
    /\ EVENT_QUEUE_CAPACITY \in Nat \ {0}

VARIABLES
    events,                 \* Ring_Buffer of events, oldest first
    held,                   \* keys and mouse_buttons
    next_pressed, next_released, next_repeated,     \* next_frame_*
    frame_pressed, frame_released, frame_repeated,  \* frame_*
    next_delta, frame_delta,                        \* *_motion and *_wheel
    dropped_event_count,
    \* What the properties compare this with:
    physical,               \* what the devices reported last of each switch
    held_then, held_before, \* held at the last begin_frame, and at the one before
    polled,                 \* held flags of a game that only polls events
    travel,                 \* per axis: movement submitted,
    reported                \*           and the sum of the frames' movements

edges == <<next_pressed, next_released, next_repeated>>
frame == <<frame_pressed, frame_released, frame_repeated, frame_delta, held_then,
           held_before, reported>>
vars == <<events, held, edges, frame, next_delta, dropped_event_count, physical, polled, travel>>

None == [k \in Switches |-> FALSE]
NoDelta == [a \in Axes |-> 0]

Init ==
    /\ events = <<>>
    /\ held = None
    /\ next_pressed = None /\ next_released = None /\ next_repeated = None
    /\ frame_pressed = None /\ frame_released = None /\ frame_repeated = None
    /\ next_delta = NoDelta /\ frame_delta = NoDelta
    /\ dropped_event_count = 0
    /\ physical = None /\ held_then = None /\ held_before = None /\ polled = None
    /\ travel = NoDelta /\ reported = NoDelta

-----------------------------------------------------------------------------
(* The end of submit_event: queue the event, or count it as dropped.        *)
Enqueue(event) ==
    IF Len(events) = EVENT_QUEUE_CAPACITY
    THEN /\ dropped_event_count < MAX_DROPPED
         /\ dropped_event_count' = dropped_event_count + 1
         /\ UNCHANGED events
    ELSE events' = Append(events, event) /\ UNCHANGED dropped_event_count

\* Device and queue of a submission that is not about a switch.
Untouched == UNCHANGED <<held, edges, physical>>

submit_switch_IfQueued(k, down, repeat) ==
    IF Len(events) = EVENT_QUEUE_CAPACITY
    THEN UNCHANGED <<held, edges>>
    ELSE /\ held' = [held EXCEPT ![k] = down]
         /\ next_pressed' = [next_pressed EXCEPT ![k] = @ \/ (down /\ ~held[k])]
         /\ next_released' = [next_released EXCEPT ![k] = @ \/ (~down /\ held[k])]
         /\ next_repeated' = [next_repeated EXCEPT ![k] = @ \/ (down /\ held[k] /\ repeat)]

submit_switch_EveryDown(k, down, repeat) ==
    /\ held' = [held EXCEPT ![k] = down]
    /\ next_pressed' = [next_pressed EXCEPT ![k] = @ \/ down]
    /\ next_released' = [next_released EXCEPT ![k] = @ \/ (~down /\ held[k])]
    /\ next_repeated' = [next_repeated EXCEPT ![k] = @ \/ (down /\ repeat)]

(* submit_key and submit_mouse_button: edges against the previous flag.     *)
submit_switch(k, down, repeat) ==
    /\ held' = [held EXCEPT ![k] = down]
    /\ next_pressed' = [next_pressed EXCEPT ![k] = @ \/ (down /\ ~held[k])]
    /\ next_released' = [next_released EXCEPT ![k] = @ \/ (~down /\ held[k])]
    /\ next_repeated' = [next_repeated EXCEPT ![k] = @ \/ (down /\ held[k] /\ repeat)]

SubmitSwitch(k, down, repeat) ==
    /\ repeat => k \in Keys /\ down
    /\ submit_switch(k, down, repeat)
    /\ physical' = [physical EXCEPT ![k] = down]
    /\ Enqueue([switch |-> k, down |-> down])
    /\ UNCHANGED <<frame, next_delta, polled, travel>>

SubmitUnknown(down) ==
    /\ Untouched
    /\ Enqueue([switch |-> UNKNOWN, down |-> down])
    /\ UNCHANGED <<frame, next_delta, polled, travel>>

SubmitDelta(a, d) ==
    /\ travel[a] + d \in -MAX_TRAVEL .. MAX_TRAVEL
    /\ next_delta' = [next_delta EXCEPT ![a] = @ + d]
    /\ travel' = [travel EXCEPT ![a] = @ + d]
    /\ Untouched
    /\ Enqueue([axis |-> a, delta |-> d])
    /\ UNCHANGED <<frame, polled>>

StartFrame ==
    /\ frame_pressed' = next_pressed
    /\ frame_released' = next_released
    /\ frame_repeated' = next_repeated
    /\ frame_delta' = next_delta
    /\ held_before' = held_then
    /\ held_then' = held
    /\ reported' = [a \in Axes |-> reported[a] + next_delta[a]]

ClearNext_KeepsRest == UNCHANGED <<edges, next_delta>>
ClearNext ==
    /\ next_pressed' = None /\ next_released' = None /\ next_repeated' = None
    /\ next_delta' = NoDelta

begin_frame ==
    /\ StartFrame
    /\ ClearNext
    /\ UNCHANGED <<events, held, dropped_event_count, physical, polled, travel>>

poll_event_Newest ==
    /\ events # <<>>
    /\ LET event == events[Len(events)] IN
       polled' = IF "switch" \in DOMAIN event /\ event.switch \in Switches
                 THEN [polled EXCEPT ![event.switch] = event.down] ELSE polled
    /\ events' = SubSeq(events, 1, Len(events) - 1)
    /\ UNCHANGED <<held, edges, frame, next_delta, dropped_event_count, physical, travel>>

poll_event ==
    /\ events # <<>>
    /\ LET event == Head(events) IN
       polled' = IF "switch" \in DOMAIN event /\ event.switch \in Switches
                 THEN [polled EXCEPT ![event.switch] = event.down] ELSE polled
    /\ events' = Tail(events)
    /\ UNCHANGED <<held, edges, frame, next_delta, dropped_event_count, physical, travel>>

(* reset: clear_state(), after which every device counts as untouched.      *)
reset ==
    /\ events' = <<>>
    /\ held' = None
    /\ next_pressed' = None /\ next_released' = None /\ next_repeated' = None
    /\ frame_pressed' = None /\ frame_released' = None /\ frame_repeated' = None
    /\ next_delta' = NoDelta /\ frame_delta' = NoDelta
    /\ dropped_event_count' = 0
    /\ physical' = None /\ held_then' = None /\ held_before' = None /\ polled' = None
    /\ travel' = NoDelta /\ reported' = NoDelta

Next ==
    \/ \E k \in Switches, down, repeat \in BOOLEAN : SubmitSwitch(k, down, repeat)
    \/ \E down \in BOOLEAN : SubmitUnknown(down)
    \/ \E a \in Axes, d \in Deltas : SubmitDelta(a, d)
    \/ begin_frame
    \/ poll_event
    \/ reset

Spec == Init /\ [][Next]_vars

-----------------------------------------------------------------------------
Events == [switch : Switches \cup {UNKNOWN}, down : BOOLEAN] \cup [axis : Axes, delta : Deltas]
Flags == [Switches -> BOOLEAN]
TypeOK ==
    /\ events \in Seq(Events) /\ Len(events) <= EVENT_QUEUE_CAPACITY
    /\ held \in Flags /\ physical \in Flags /\ polled \in Flags
    /\ held_then \in Flags /\ held_before \in Flags
    /\ next_pressed \in Flags /\ next_released \in Flags /\ next_repeated \in Flags
    /\ frame_pressed \in Flags /\ frame_released \in Flags /\ frame_repeated \in Flags
    /\ next_delta \in [Axes -> Int] /\ frame_delta \in [Axes -> Int]
    /\ travel \in [Axes -> Int] /\ reported \in [Axes -> Int]
    /\ dropped_event_count \in Nat

(* Pressed and released flags that account for the way from one held flag   *)
(* to another: presses and releases alternate, so a switch that changed has *)
(* its last edge flagged, and one that did not has both or neither.         *)
Explains(pressed, released, repeated, before, after) ==
    \A k \in Switches :
        /\ ~before[k] /\ after[k] => pressed[k]
        /\ before[k] /\ ~after[k] => released[k]
        /\ before[k] = after[k] => pressed[k] = released[k]
        /\ repeated[k] => before[k] \/ pressed[k]

(* No press or release is lost or invented between frames, whatever the     *)
(* interrupt handlers submit before, between and after begin_frame: the     *)
(* edges of the current frame explain how held changed between the two last *)
(* begin_frame calls, and the pending ones how it has changed since.        *)
EdgesExplainHeld ==
    /\ Explains(frame_pressed, frame_released, frame_repeated, held_before, held_then)
    /\ Explains(next_pressed, next_released, next_repeated, held_then, held)

(* "State is updated even when queue is full so a dropped event cannot      *)
(* leave a key held forever".                                               *)
HeldIsPhysical == held = physical

Mentions(i, k) == "switch" \in DOMAIN events[i] /\ events[i].switch = k

(* A game that only polls sees the same keys as one that asks key_held, as  *)
(* soon as it has drained the queue, unless an event was dropped: the last  *)
(* queued event about a switch, or else what was polled before, is held.    *)
QueueTellsHeld ==
    dropped_event_count = 0 =>
        \A k \in Switches :
            \/ \E i \in DOMAIN events :
                 /\ Mentions(i, k) /\ events[i].down = held[k]
                 /\ \A j \in i + 1 .. Len(events) : ~Mentions(j, k)
            \/ polled[k] = held[k] /\ \A i \in DOMAIN events : ~Mentions(i, k)

(* Mouse movement is reported once: the frames' movements and the pending   *)
(* one add up to what the devices submitted.                                *)
TravelConserved == \A a \in Axes : travel[a] = reported[a] + next_delta[a]
=============================================================================
