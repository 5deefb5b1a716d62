----------------------------- MODULE InputProofs -----------------------------
(***************************************************************************)
(* The frame edges and sums of input.hh are exact for any keyboard, mouse   *)
(* and queue size; and the keyboard and mouse drivers that feed it          *)
(* (ps2.hh, from "The PS/2 drivers" on) follow their devices.               *)
(***************************************************************************)
EXTENDS Input, Ps2, SequenceTheorems, TLAPS

(* The flags and sums alone; the queue plays no part in them.               *)
FlagsOK ==
    /\ held \in Flags /\ held_then \in Flags /\ held_before \in Flags
    /\ next_pressed \in Flags /\ next_released \in Flags /\ next_repeated \in Flags
    /\ frame_pressed \in Flags /\ frame_released \in Flags /\ frame_repeated \in Flags
    /\ next_delta \in [Axes -> Int] /\ travel \in [Axes -> Int] /\ reported \in [Axes -> Int]
    /\ physical \in Flags

IInv == FlagsOK /\ EdgesExplainHeld /\ HeldIsPhysical /\ TravelConserved

(* After clear_state nothing is held, pressed, released or moved.           *)
LEMMA InitIInv == Init => IInv
  <1> SUFFICES ASSUME Init PROVE IInv
    OBVIOUS
  <1>1. FlagsOK
    BY DEF Init, FlagsOK, Flags, None, NoDelta
  <1>2. EdgesExplainHeld
    BY DEF Init, EdgesExplainHeld, Explains, None
  <1>3. HeldIsPhysical /\ TravelConserved
    BY DEF Init, HeldIsPhysical, TravelConserved, NoDelta
  <1> QED
    BY <1>1, <1>2, <1>3 DEF IInv

(* One key or button event.                                                 *)
LEMMA SubmitSwitchStep ==
    ASSUME IInv, NEW k \in Switches, NEW down \in BOOLEAN, NEW repeat \in BOOLEAN,
           SubmitSwitch(k, down, repeat)
    PROVE  IInv'
  <1>1. FlagsOK'
    BY DEF IInv, FlagsOK, Flags, SubmitSwitch, submit_switch, frame
  <1>2. Explains(frame_pressed, frame_released, frame_repeated, held_before, held_then)'
    BY DEF IInv, EdgesExplainHeld, Explains, SubmitSwitch, frame
  <1>3. ASSUME NEW j \in Switches
        PROVE  /\ ~held_then'[j] /\ held'[j] => next_pressed'[j]
               /\ held_then'[j] /\ ~held'[j] => next_released'[j]
               /\ held_then'[j] = held'[j] => next_pressed'[j] = next_released'[j]
               /\ next_repeated'[j] => held_then'[j] \/ next_pressed'[j]
    <2>1. /\ ~held_then[j] /\ held[j] => next_pressed[j]
          /\ held_then[j] /\ ~held[j] => next_released[j]
          /\ held_then[j] = held[j] => next_pressed[j] = next_released[j]
          /\ next_repeated[j] => held_then[j] \/ next_pressed[j]
      BY DEF IInv, EdgesExplainHeld, Explains
    <2>2. held_then' = held_then
      BY DEF SubmitSwitch, frame
    <2>3. /\ held[j] \in BOOLEAN /\ held_then[j] \in BOOLEAN
          /\ next_pressed[j] \in BOOLEAN /\ next_released[j] \in BOOLEAN
          /\ next_repeated[j] \in BOOLEAN
      BY DEF IInv, FlagsOK, Flags
    <2>4. CASE j # k
      <3>1. /\ held'[j] = held[j] /\ next_pressed'[j] = next_pressed[j]
            /\ next_released'[j] = next_released[j] /\ next_repeated'[j] = next_repeated[j]
        BY <2>4 DEF IInv, FlagsOK, Flags, SubmitSwitch, submit_switch
      <3> QED
        BY <2>1, <2>2, <3>1
    <2>5. CASE j = k
      <3>1. /\ held'[j] = down
            /\ next_pressed'[j] = (next_pressed[j] \/ (down /\ ~held[j]))
            /\ next_released'[j] = (next_released[j] \/ (~down /\ held[j]))
            /\ next_repeated'[j] = (next_repeated[j] \/ (down /\ held[j] /\ repeat))
        BY <2>5 DEF IInv, FlagsOK, Flags, SubmitSwitch, submit_switch
      <3> QED
        BY <2>1, <2>2, <2>3, <3>1
    <2> QED
      BY <2>4, <2>5
  <1>4. EdgesExplainHeld'
    BY <1>2, <1>3 DEF EdgesExplainHeld, Explains
  <1>5. HeldIsPhysical' /\ TravelConserved'
    BY DEF IInv, HeldIsPhysical, TravelConserved, SubmitSwitch, submit_switch, frame
  <1> QED
    BY <1>1, <1>4, <1>5 DEF IInv

(* Events that leave the switches alone.                                    *)
LEMMA UntouchedStep ==
    ASSUME IInv, Untouched, UNCHANGED frame
    PROVE  EdgesExplainHeld' /\ HeldIsPhysical'
  BY DEF IInv, Untouched, edges, frame, EdgesExplainHeld, Explains, HeldIsPhysical

(* One movement of the mouse or its wheel.                                  *)
LEMMA SubmitDeltaStep ==
    ASSUME IInv, NEW a \in Axes, NEW d \in Deltas, SubmitDelta(a, d)
    PROVE  IInv'
  <1>1. FlagsOK'
    BY InputAssumption DEF IInv, FlagsOK, SubmitDelta, Untouched, edges, frame
  <1>2. EdgesExplainHeld' /\ HeldIsPhysical'
    BY UntouchedStep DEF SubmitDelta
  <1>3. TravelConserved'
    BY InputAssumption DEF IInv, FlagsOK, TravelConserved, SubmitDelta, frame
  <1> QED
    BY <1>1, <1>2, <1>3 DEF IInv

(* begin_frame moves the pending edges and sums to the frame.               *)
LEMMA BeginFrameStep ==
    ASSUME IInv, begin_frame
    PROVE  IInv'
  <1>1. FlagsOK'
    BY DEF IInv, FlagsOK, Flags, begin_frame, StartFrame, ClearNext, None, NoDelta
  <1>2. Explains(frame_pressed, frame_released, frame_repeated, held_before, held_then)'
    BY DEF IInv, EdgesExplainHeld, Explains, begin_frame, StartFrame
  <1>3. Explains(next_pressed, next_released, next_repeated, held_then, held)'
    BY DEF Explains, begin_frame, StartFrame, ClearNext, None
  <1>4. HeldIsPhysical'
    BY DEF IInv, HeldIsPhysical, begin_frame
  <1>5. TravelConserved'
    BY DEF IInv, FlagsOK, TravelConserved, begin_frame, StartFrame, ClearNext, NoDelta
  <1> QED
    BY <1>1, <1>2, <1>3, <1>4, <1>5 DEF IInv, EdgesExplainHeld

(* Every operation keeps the edges and sums exact.                          *)
LEMMA NextIInv == IInv /\ [Next]_vars => IInv'
  <1> SUFFICES ASSUME IInv, [Next]_vars PROVE IInv'
    OBVIOUS
  <1>1. ASSUME NEW k \in Switches, NEW down \in BOOLEAN, NEW repeat \in BOOLEAN,
               SubmitSwitch(k, down, repeat)
        PROVE  IInv'
    BY <1>1, SubmitSwitchStep
  <1>2. ASSUME NEW down \in BOOLEAN, SubmitUnknown(down) PROVE IInv'
    <2>1. EdgesExplainHeld' /\ HeldIsPhysical'
      BY <1>2, UntouchedStep DEF SubmitUnknown
    <2> QED
      BY <1>2, <2>1 DEF IInv, SubmitUnknown, Untouched, edges, frame, FlagsOK, TravelConserved
  <1>3. ASSUME NEW a \in Axes, NEW d \in Deltas, SubmitDelta(a, d) PROVE IInv'
    BY <1>3, SubmitDeltaStep
  <1>4. CASE begin_frame
    BY <1>4, BeginFrameStep
  <1>5. CASE poll_event
    BY <1>5 DEF poll_event, IInv, edges, frame, FlagsOK, EdgesExplainHeld, Explains,
                HeldIsPhysical, TravelConserved
  <1>6. CASE reset
    <2>1. FlagsOK'
      BY <1>6 DEF reset, FlagsOK, Flags, None, NoDelta
    <2>2. EdgesExplainHeld'
      BY <1>6 DEF reset, EdgesExplainHeld, Explains, None
    <2>3. HeldIsPhysical' /\ TravelConserved'
      BY <1>6 DEF reset, HeldIsPhysical, TravelConserved, NoDelta
    <2> QED
      BY <2>1, <2>2, <2>3 DEF IInv
  <1>7. CASE UNCHANGED vars
    BY <1>7 DEF vars, IInv, edges, frame, FlagsOK, EdgesExplainHeld, Explains,
                HeldIsPhysical, TravelConserved
  <1> QED
    BY <1>1, <1>2, <1>3, <1>4, <1>5, <1>6, <1>7 DEF Next

(* key_pressed and key_released of a frame account exactly for what         *)
(* happened to each key between two begin_frame calls.                      *)
THEOREM EdgesAreExact == Spec => []EdgesExplainHeld
  BY InitIInv, NextIInv, PTL DEF Spec, IInv

(* A full queue never leaves a key held.                                    *)
THEOREM HeldNeverStale == Spec => []HeldIsPhysical
  BY InitIInv, NextIInv, PTL DEF Spec, IInv

(* No mouse movement is lost between frames or reported twice.              *)
THEOREM MovementIsExact == Spec => []TravelConserved
  BY InitIInv, NextIInv, PTL DEF Spec, IInv

-----------------------------------------------------------------------------
(* The queue.  Of an event only what it says of a switch matters here.      *)
About(e, k) == "switch" \in DOMAIN e /\ e.switch = k

Typed == events \in Seq(Events) /\ dropped_event_count \in Nat /\ held \in Flags /\ polled \in Flags

(* What the three kinds of submission say.                                  *)
LEMMA EventsSay ==
    /\ \A k \in Switches \cup {UNKNOWN}, down \in BOOLEAN, j \in Switches \cup {UNKNOWN} :
          /\ [switch |-> k, down |-> down] \in Events
          /\ About([switch |-> k, down |-> down], j) <=> k = j
    /\ \A a \in Axes, d \in Deltas :
          /\ [axis |-> a, delta |-> d] \in Events
          /\ \A j \in Switches : ~About([axis |-> a, delta |-> d], j)
    /\ \A e \in Events : "switch" \in DOMAIN e => e.down \in BOOLEAN
  BY DEF Events, About

(* The last event about k says what is held, or none is queued and the game *)
(* knows already.                                                           *)
Told(k) ==
    \/ \E i \in 1 .. Len(events) :
          /\ About(events[i], k) /\ events[i].down = held[k]
          /\ \A j \in i + 1 .. Len(events) : ~About(events[j], k)
    \/ polled[k] = held[k] /\ \A i \in 1 .. Len(events) : ~About(events[i], k)

(* What the queue says, switch by switch.                                   *)
LEMMA QueueTold ==
    Typed => (QueueTellsHeld <=> (dropped_event_count = 0 => \A k \in Switches : Told(k)))
  <1> SUFFICES ASSUME Typed
               PROVE  QueueTellsHeld <=> (dropped_event_count = 0 => \A k \in Switches : Told(k))
    OBVIOUS
  <1>1. DOMAIN events = 1 .. Len(events)
    BY DEF Typed
  <1> QED
    BY <1>1 DEF QueueTellsHeld, Told, About, Mentions

(* An event at the end of the queue: about k it says what is held, and      *)
(* about the others it says nothing and leaves them as they were.           *)
LEMMA EnqueueTells ==
    ASSUME Typed, NEW k \in Switches, Told(k), NEW e \in Events, Enqueue(e), dropped_event_count' = 0,
           polled' = polled,
           \/ About(e, k) /\ e.down = held'[k]
           \/ ~About(e, k) /\ held'[k] = held[k]
    PROVE  Told(k)'
  <1>1. events' = Append(events, e)
    BY DEF Enqueue, Typed
  <1>2. /\ Len(events') = Len(events) + 1 /\ Len(events) \in Nat /\ events'[Len(events) + 1] = e
        /\ \A i \in 1 .. Len(events) : events'[i] = events[i]
    BY <1>1 DEF Typed
  <1>3. CASE About(e, k) /\ e.down = held'[k]
    BY <1>2, <1>3 DEF Told
  <1>4. CASE ~About(e, k) /\ held'[k] = held[k]
    <2>1. CASE \E i \in 1 .. Len(events) :
                  /\ About(events[i], k) /\ events[i].down = held[k]
                  /\ \A j \in i + 1 .. Len(events) : ~About(events[j], k)
      <3>1. PICK i \in 1 .. Len(events) :
                  /\ About(events[i], k) /\ events[i].down = held[k]
                  /\ \A j \in i + 1 .. Len(events) : ~About(events[j], k)
        BY <2>1
      <3>2. i \in 1 .. Len(events') /\ About(events'[i], k) /\ events'[i].down = held'[k]
        BY <1>2, <1>4, <3>1
      <3>3. ASSUME NEW j \in i + 1 .. Len(events') PROVE ~About(events'[j], k)
        BY <1>2, <1>4, <3>1
      <3> QED
        BY <3>2, <3>3 DEF Told
    <2>2. CASE polled[k] = held[k] /\ \A i \in 1 .. Len(events) : ~About(events[i], k)
      BY <1>2, <1>4, <2>2 DEF Told
    <2> QED
      BY <2>1, <2>2 DEF Told
  <1> QED
    BY <1>3, <1>4

(* Polling takes the oldest event and learns what it says.                  *)
LEMMA PollTells ==
    ASSUME Typed, NEW k \in Switches, Told(k), poll_event
    PROVE  Told(k)'
  <1> DEFINE event == Head(events)
  <1>1. /\ events # <<>> /\ events' = Tail(events) /\ held' = held
        /\ polled' = IF "switch" \in DOMAIN event /\ event.switch \in Switches
                     THEN [polled EXCEPT ![event.switch] = event.down] ELSE polled
    BY DEF poll_event
  <1>2. /\ Len(events) \in Nat /\ Len(events) > 0 /\ Len(events') = Len(events) - 1
        /\ event = events[1] /\ \A i \in 1 .. Len(events') : events'[i] = events[i + 1]
    BY <1>1 DEF Typed
  <1>3. polled'[k] = IF About(events[1], k) THEN events[1].down ELSE polled[k]
    BY <1>1, <1>2 DEF Typed, About, Flags
  <1>4. CASE \E i \in 1 .. Len(events) :
                /\ About(events[i], k) /\ events[i].down = held[k]
                /\ \A j \in i + 1 .. Len(events) : ~About(events[j], k)
    <2>1. PICK i \in 1 .. Len(events) :
                /\ About(events[i], k) /\ events[i].down = held[k]
                /\ \A j \in i + 1 .. Len(events) : ~About(events[j], k)
      BY <1>4
    <2>2. \A j \in 1 .. Len(events') : j + 1 \in i + 1 .. Len(events) => ~About(events'[j], k)
      BY <1>2, <2>1
    <2>3. CASE i = 1
      <3>1. \A j \in 1 .. Len(events') : ~About(events'[j], k)
        BY <1>2, <2>2, <2>3
      <3> QED
        BY <1>1, <1>3, <2>1, <2>3, <3>1 DEF Told
    <2>4. CASE i # 1
      <3>1. i - 1 \in 1 .. Len(events') /\ events'[i - 1] = events[i]
        BY <1>2, <2>1, <2>4
      <3>2. \A j \in (i - 1) + 1 .. Len(events') : ~About(events'[j], k)
        BY <1>2, <2>1, <2>2
      <3> QED
        BY <1>1, <2>1, <3>1, <3>2 DEF Told
    <2> QED
      BY <2>3, <2>4
  <1>5. CASE polled[k] = held[k] /\ \A i \in 1 .. Len(events) : ~About(events[i], k)
    <2>1. \A j \in 1 .. Len(events') : ~About(events'[j], k)
      BY <1>2, <1>5
    <2>2. polled'[k] = held'[k]
      BY <1>1, <1>2, <1>3, <1>5
    <2> QED
      BY <2>1, <2>2 DEF Told
  <1> QED
    BY <1>4, <1>5 DEF Told

(* The whole type invariant, for the bound of the queue with it.            *)
LEMMA NextTypes == TypeOK /\ [Next]_vars => TypeOK'
  <1> SUFFICES ASSUME TypeOK, [Next]_vars PROVE TypeOK'
    OBVIOUS
  <1> USE InputAssumption
  <1>1. ASSUME NEW e \in Events, Enqueue(e)
        PROVE  events' \in Seq(Events) /\ Len(events') <= EVENT_QUEUE_CAPACITY /\ dropped_event_count' \in Nat
    <2>1. events \in Seq(Events) /\ Len(events) \in Nat /\ Len(events) <= EVENT_QUEUE_CAPACITY
      BY DEF TypeOK
    <2>2. Append(events, e) \in Seq(Events) /\ Len(Append(events, e)) = Len(events) + 1
      BY <2>1
    <2>3. CASE Len(events) = EVENT_QUEUE_CAPACITY
      BY <1>1, <2>1, <2>3 DEF Enqueue, TypeOK
    <2>4. CASE Len(events) # EVENT_QUEUE_CAPACITY
      <3>1. events' = Append(events, e) /\ dropped_event_count' = dropped_event_count
        BY <1>1, <2>4 DEF Enqueue
      <3>2. Len(events) + 1 <= EVENT_QUEUE_CAPACITY
        BY <2>1, <2>4
      <3> QED
        BY <2>2, <3>1, <3>2 DEF TypeOK
    <2> QED
      BY <2>3, <2>4
  <1>2. ASSUME NEW k \in Switches, NEW down \in BOOLEAN, NEW repeat \in BOOLEAN,
               SubmitSwitch(k, down, repeat)
        PROVE  TypeOK'
    <2>1. events' \in Seq(Events) /\ Len(events') <= EVENT_QUEUE_CAPACITY /\ dropped_event_count' \in Nat
      BY <1>1, <1>2, EventsSay DEF SubmitSwitch
    <2>2. /\ held' \in Flags /\ next_pressed' \in Flags /\ next_released' \in Flags
          /\ next_repeated' \in Flags /\ physical' \in Flags
      BY <1>2 DEF SubmitSwitch, submit_switch, TypeOK, Flags
    <2> QED
      BY <1>2, <2>1, <2>2 DEF SubmitSwitch, TypeOK, frame
  <1>3. ASSUME NEW down \in BOOLEAN, SubmitUnknown(down) PROVE TypeOK'
    <2>1. events' \in Seq(Events) /\ Len(events') <= EVENT_QUEUE_CAPACITY /\ dropped_event_count' \in Nat
      <3>1. [switch |-> UNKNOWN, down |-> down] \in Events
        BY EventsSay
      <3> QED
        BY <1>1, <1>3, <3>1 DEF SubmitUnknown
    <2> QED
      BY <1>3, <2>1 DEF SubmitUnknown, Untouched, edges, TypeOK, frame
  <1>4. ASSUME NEW a \in Axes, NEW d \in Deltas, SubmitDelta(a, d) PROVE TypeOK'
    <2>1. events' \in Seq(Events) /\ Len(events') <= EVENT_QUEUE_CAPACITY /\ dropped_event_count' \in Nat
      <3>1. [axis |-> a, delta |-> d] \in Events
        BY EventsSay
      <3> QED
        BY <1>1, <1>4, <3>1 DEF SubmitDelta
    <2>2. next_delta' \in [Axes -> Int] /\ travel' \in [Axes -> Int]
      BY <1>4 DEF SubmitDelta, TypeOK
    <2> QED
      BY <1>4, <2>1, <2>2 DEF SubmitDelta, Untouched, edges, TypeOK, frame
  <1>5. CASE begin_frame
    BY <1>5 DEF begin_frame, StartFrame, ClearNext, TypeOK, Flags, None, NoDelta
  <1>6. CASE poll_event
    <2>1. events' \in Seq(Events) /\ Len(events') <= EVENT_QUEUE_CAPACITY
      BY <1>6 DEF poll_event, TypeOK
    <2>2. Head(events) \in Events
      BY <1>6 DEF poll_event, TypeOK
    <2>3. polled' \in Flags
      <3>1. CASE "switch" \in DOMAIN Head(events) /\ Head(events).switch \in Switches
        <4>1. Head(events).down \in BOOLEAN
          BY <2>2, <3>1, EventsSay
        <4>2. polled' = [polled EXCEPT ![Head(events).switch] = Head(events).down]
          BY <1>6, <3>1 DEF poll_event
        <4> QED
          BY <3>1, <4>1, <4>2 DEF TypeOK, Flags
      <3>2. CASE ~("switch" \in DOMAIN Head(events) /\ Head(events).switch \in Switches)
        BY <1>6, <3>2 DEF poll_event, TypeOK
      <3> QED
        BY <3>1, <3>2
    <2> QED
      BY <1>6, <2>1, <2>3 DEF poll_event, TypeOK, edges, frame
  <1>7. CASE reset
    BY <1>7 DEF reset, TypeOK, Flags, None, NoDelta
  <1>8. CASE UNCHANGED vars
    BY <1>8 DEF vars, TypeOK, edges, frame
  <1> QED
    BY <1>2, <1>3, <1>4, <1>5, <1>6, <1>7, <1>8 DEF Next

(* After clear_state the queue is empty and nothing was polled.             *)
LEMMA InitTypes == Init => TypeOK /\ QueueTellsHeld
  BY InputAssumption DEF Init, TypeOK, QueueTellsHeld, Flags, None, NoDelta, Mentions

(* Every operation keeps the queue and the held flags in step.              *)
LEMMA NextTold == TypeOK /\ QueueTellsHeld /\ [Next]_vars => QueueTellsHeld'
  <1> SUFFICES ASSUME TypeOK, QueueTellsHeld, [Next]_vars PROVE QueueTellsHeld'
    OBVIOUS
  <1>1. Typed /\ Typed'
    <2>1. TypeOK'
      BY NextTypes
    <2> QED
      BY <2>1 DEF Typed, TypeOK
  <1>2. dropped_event_count = 0 => \A k \in Switches : Told(k)
    BY <1>1, QueueTold
  <1>3. (Typed => (QueueTellsHeld <=> (dropped_event_count = 0 => \A k \in Switches : Told(k))))'
    BY QueueTold, PTL
  <1> SUFFICES ASSUME dropped_event_count' = 0, NEW k \in Switches PROVE Told(k)'
    BY <1>1, <1>3
  <1>4. ASSUME NEW e, Enqueue(e) PROVE dropped_event_count = 0
    BY <1>1, <1>4 DEF Enqueue, Typed
  <1>5. ASSUME NEW l \in Switches, NEW down \in BOOLEAN, NEW repeat \in BOOLEAN,
               SubmitSwitch(l, down, repeat)
        PROVE  Told(k)'
    <2> DEFINE e == [switch |-> l, down |-> down]
    <2>1. e \in Events /\ (About(e, k) <=> l = k) /\ e.down = down
      BY EventsSay
    <2>2. Enqueue(e) /\ polled' = polled /\ held' = [held EXCEPT ![l] = down]
      BY <1>5 DEF SubmitSwitch, submit_switch
    <2>3. held'[k] = IF l = k THEN down ELSE held[k]
      BY <1>1, <2>2 DEF Typed, Flags
    <2>4. Told(k)
      BY <1>2, <1>4, <2>2
    <2> HIDE DEF e
    <2> QED
      BY <1>1, <2>1, <2>2, <2>3, <2>4, EnqueueTells
  <1>6. ASSUME NEW down \in BOOLEAN, SubmitUnknown(down) PROVE Told(k)'
    <2> DEFINE e == [switch |-> UNKNOWN, down |-> down]
    <2>1. e \in Events /\ ~About(e, k)
      BY EventsSay, InputAssumption
    <2>2. Enqueue(e) /\ polled' = polled /\ held' = held
      BY <1>6 DEF SubmitUnknown, Untouched
    <2>3. Told(k)
      BY <1>2, <1>4, <2>2
    <2> HIDE DEF e
    <2> QED
      BY <1>1, <2>1, <2>2, <2>3, EnqueueTells
  <1>7. ASSUME NEW a \in Axes, NEW d \in Deltas, SubmitDelta(a, d) PROVE Told(k)'
    <2> DEFINE e == [axis |-> a, delta |-> d]
    <2>1. e \in Events /\ ~About(e, k)
      BY EventsSay
    <2>2. Enqueue(e) /\ polled' = polled /\ held' = held
      BY <1>7 DEF SubmitDelta, Untouched
    <2>3. Told(k)
      BY <1>2, <1>4, <2>2
    <2> HIDE DEF e
    <2> QED
      BY <1>1, <2>1, <2>2, <2>3, EnqueueTells
  <1>8. CASE begin_frame
    BY <1>2, <1>8 DEF begin_frame, Told
  <1>9. CASE poll_event
    <2>1. dropped_event_count = 0
      BY <1>9 DEF poll_event
    <2> QED
      BY <1>1, <1>2, <1>9, <2>1, PollTells
  <1>10. CASE reset
    BY <1>10 DEF reset, Told, None
  <1>11. CASE UNCHANGED vars
    BY <1>2, <1>11 DEF vars, Told
  <1> QED
    BY <1>5, <1>6, <1>7, <1>8, <1>9, <1>10, <1>11 DEF Next

(* The queue never outgrows its capacity.                                   *)
THEOREM InputTyped == Spec => []TypeOK
  BY InitTypes, NextTypes, PTL DEF Spec

(* A game that only polls events sees the keys that key_held reports, for   *)
(* any set of keys and any queue size, as long as no event was dropped.     *)
THEOREM PollingSeesHeld == Spec => []QueueTellsHeld
  BY InitTypes, NextTypes, NextTold, PTL DEF Spec


-----------------------------------------------------------------------------
(* The PS/2 drivers.  What the keyboard handler makes of a byte, and of the *)
(* bytes that are still to come: a run of decoder states, one more than     *)
(* bytes.                                                                   *)
KeysOf(prefix, byte) ==
    {k \in KnownKeys : Scancode(k) = (IF byte >= KEY_UP_RANGE_START THEN byte - KEY_UP_RANGE_START ELSE byte)
                                     + (IF prefix THEN KEY_EXTENDED_OFFSET ELSE 0)}
Decoder == [prefix : BOOLEAN, held : SUBSET KnownKeys]
AfterByte(s, byte) ==
    IF byte = EXTENDED_PREFIX
    THEN [prefix |-> TRUE, held |-> s.held]
    ELSE [prefix |-> FALSE, held |-> IF byte >= KEY_UP_RANGE_START THEN s.held \ KeysOf(s.prefix, byte)
                                     ELSE s.held \cup KeysOf(s.prefix, byte)]
Decodes(s, bytes, t) ==
    \E run \in [0 .. Len(bytes) -> Decoder] :
        /\ run[0] = s /\ run[Len(bytes)] = t
        /\ \A i \in 1 .. Len(bytes) : run[i] = AfterByte(run[i - 1], bytes[i])

Bytes == 0 .. 255

(* A byte leaves a decoder a decoder.                                       *)
LEMMA AfterByteType ==
    ASSUME NEW s \in Decoder, NEW byte
    PROVE  AfterByte(s, byte) \in Decoder
  BY DEF AfterByte, Decoder, KeysOf

(* No bytes leave a decoder as it is.                                       *)
LEMMA DecodesNothing ==
    ASSUME NEW s, NEW t
    PROVE  /\ Decodes(s, <<>>, t) => s = t
           /\ s \in Decoder => Decodes(s, <<>>, s)
  <1>1. Len(<<>>) = 0
    OBVIOUS
  <1>2. Decodes(s, <<>>, t) => s = t
    BY <1>1 DEF Decodes
  <1>3. ASSUME s \in Decoder PROVE Decodes(s, <<>>, s)
    <2>1. PICK run : run = [i \in 0 .. 0 |-> s]
      OBVIOUS
    <2>2. run \in [0 .. 0 -> Decoder] /\ run[0] = s
      BY <1>3, <2>1
    <2>3. \A i \in 1 .. 0 : run[i] = AfterByte(run[i - 1], <<>>[i])
      OBVIOUS
    <2> QED
      BY <1>1, <2>2, <2>3 DEF Decodes
  <1> QED
    BY <1>2, <1>3

(* One more byte at the end is one more step of the decoder.                *)
LEMMA DecodesMore ==
    ASSUME NEW s, NEW t, NEW bytes \in Seq(Bytes), NEW byte \in Bytes, Decodes(s, bytes, t)
    PROVE  Decodes(s, Append(bytes, byte), AfterByte(t, byte))
  <1>1. PICK n \in Nat : n = Len(bytes)
    BY LenProperties
  <1>2. PICK run \in [0 .. n -> Decoder] :
          run[0] = s /\ run[n] = t /\ \A i \in 1 .. n : run[i] = AfterByte(run[i - 1], bytes[i])
    BY <1>1 DEF Decodes
  <1>3. /\ Len(Append(bytes, byte)) = n + 1 /\ Append(bytes, byte)[n + 1] = byte
        /\ \A i \in 1 .. n : Append(bytes, byte)[i] = bytes[i]
    BY <1>1, AppendProperties
  <1>4. PICK longer : longer = [i \in 0 .. n + 1 |-> IF i = n + 1 THEN AfterByte(t, byte) ELSE run[i]]
    OBVIOUS
  <1>5. t \in Decoder
    BY <1>2
  <1>6. longer \in [0 .. n + 1 -> Decoder] /\ longer[n + 1] = AfterByte(t, byte)
        /\ \A i \in 0 .. n : longer[i] = run[i]
    BY <1>1, <1>4, <1>5, AfterByteType
  <1>7. ASSUME NEW i \in 1 .. n + 1 PROVE longer[i] = AfterByte(longer[i - 1], Append(bytes, byte)[i])
    <2>1. CASE i = n + 1
      <3>1. i - 1 = n /\ n \in 0 .. n
        BY <2>1
      <3> QED
        BY <1>2, <1>3, <1>6, <2>1, <3>1
    <2>2. CASE i # n + 1
      <3>1. i \in 1 .. n /\ i \in 0 .. n /\ i - 1 \in 0 .. n
        BY <2>2
      <3> QED
        BY <1>2, <1>3, <1>6, <3>1
    <2> QED
      BY <2>1, <2>2
  <1>8. longer[0] = s
    BY <1>2, <1>6
  <1> QED
    BY <1>3, <1>6, <1>7, <1>8 DEF Decodes

(* Reading the first byte takes the decoder's first step.                   *)
LEMMA DecodesNext ==
    ASSUME NEW s, NEW t, NEW bytes \in Seq(Bytes), bytes # <<>>, Decodes(s, bytes, t)
    PROVE  Decodes(AfterByte(s, Head(bytes)), Tail(bytes), t)
  <1>1. PICK n \in Nat : n + 1 = Len(bytes)
    <2>1. Len(bytes) \in Nat /\ Len(bytes) # 0
      BY LenProperties, EmptySeq
    <2> QED
      BY <2>1
  <1>2. PICK run \in [0 .. n + 1 -> Decoder] :
          run[0] = s /\ run[n + 1] = t /\ \A i \in 1 .. n + 1 : run[i] = AfterByte(run[i - 1], bytes[i])
    BY <1>1 DEF Decodes
  <1>3. /\ Len(Tail(bytes)) = n /\ Head(bytes) = bytes[1]
        /\ \A i \in 1 .. n : Tail(bytes)[i] = bytes[i + 1]
    BY <1>1, HeadTailProperties
  <1>4. PICK shorter : shorter = [i \in 0 .. n |-> run[i + 1]]
    OBVIOUS
  <1>5. shorter \in [0 .. n -> Decoder] /\ \A i \in 0 .. n : shorter[i] = run[i + 1]
    <2>1. \A i \in 0 .. n : i + 1 \in 0 .. n + 1
      OBVIOUS
    <2> QED
      BY <1>4, <2>1
  <1>6. shorter[0] = AfterByte(s, Head(bytes))
    <2>1. run[1] = AfterByte(run[0], bytes[1])
      BY <1>2
    <2> QED
      BY <1>2, <1>3, <1>5, <2>1
  <1>7. shorter[n] = t
    BY <1>2, <1>5
  <1>8. ASSUME NEW i \in 1 .. n PROVE shorter[i] = AfterByte(shorter[i - 1], Tail(bytes)[i])
    <2>1. i \in 0 .. n /\ i - 1 \in 0 .. n /\ (i - 1) + 1 = i /\ i + 1 \in 1 .. n + 1 /\ (i + 1) - 1 = i
      OBVIOUS
    <2> QED
      BY <1>2, <1>3, <1>5, <2>1
  <1> QED
    BY <1>3, <1>5, <1>6, <1>7, <1>8 DEF Decodes

-----------------------------------------------------------------------------
(* What a key's bytes do to a decoder that expects no extended one.         *)
Quiet(S) == [prefix |-> FALSE, held |-> S]

(* A key's code, with or without the bit for up, stands for that key alone. *)
LEMMA KeyBytes ==
    ASSUME NEW k \in KnownKeys, NEW code, NEW up \in {0, KEY_UP_RANGE_START}, code = KeyCodes[k].code + up
    PROVE  /\ code \in Bytes /\ code # EXTENDED_PREFIX /\ (code >= KEY_UP_RANGE_START <=> up # 0)
           /\ KeysOf(KeyCodes[k].extended, code) = {k}
  <1>1. KeyCodes[k] \in [code : 0 .. 127 \ {96}, extended : BOOLEAN]
    BY KeyCodesAssumption DEF KnownKeys
  <1>2. /\ code \in Bytes /\ code # EXTENDED_PREFIX /\ (code >= KEY_UP_RANGE_START <=> up # 0)
        /\ (IF code >= KEY_UP_RANGE_START THEN code - KEY_UP_RANGE_START ELSE code) = KeyCodes[k].code
    BY <1>1 DEF Bytes, EXTENDED_PREFIX, KEY_UP_RANGE_START
  <1>3. KeysOf(KeyCodes[k].extended, code) = {l \in KnownKeys : Scancode(l) = Scancode(k)}
    BY <1>2 DEF KeysOf, Scancode
  <1>4. ASSUME NEW l \in KnownKeys, Scancode(l) = Scancode(k) PROVE l = k
    <2>1. KeyCodes[l] \in [code : 0 .. 127 \ {96}, extended : BOOLEAN]
      BY KeyCodesAssumption DEF KnownKeys
    <2>2. KeyCodes[l].code = KeyCodes[k].code /\ KeyCodes[l].extended = KeyCodes[k].extended
      <3>1. PICK a \in 0 .. 127, b \in 0 .. 127 : a = KeyCodes[k].code /\ b = KeyCodes[l].code
        BY <1>1, <2>1
      <3>2. KeyCodes[k].extended \in BOOLEAN /\ KeyCodes[l].extended \in BOOLEAN
        BY <1>1, <2>1
      <3>3. a + (IF KeyCodes[k].extended THEN 128 ELSE 0) = b + (IF KeyCodes[l].extended THEN 128 ELSE 0)
        BY <1>4, <3>1 DEF Scancode, KEY_EXTENDED_OFFSET
      <3>4. a = b /\ (KeyCodes[k].extended <=> KeyCodes[l].extended)
        <4>1. CASE KeyCodes[k].extended /\ KeyCodes[l].extended
          BY <3>3, <4>1
        <4>2. CASE ~KeyCodes[k].extended /\ ~KeyCodes[l].extended
          BY <3>3, <4>2
        <4>3. CASE KeyCodes[k].extended /\ ~KeyCodes[l].extended
          BY <3>3, <4>3
        <4>4. CASE ~KeyCodes[k].extended /\ KeyCodes[l].extended
          BY <3>3, <4>4
        <4> QED
          BY <4>1, <4>2, <4>3, <4>4
      <3> QED
        BY <3>1, <3>2, <3>4
    <2>3. KeyCodes[l] = KeyCodes[k]
      BY <1>1, <2>1, <2>2
    <2> QED
      BY <2>3, KeyCodesAssumption DEF KnownKeys
  <1> QED
    BY <1>2, <1>3, <1>4

(* The bytes of a key that goes down or up put exactly it down or up.       *)
LEMMA KeyChanges ==
    ASSUME NEW k \in KnownKeys, NEW S \in SUBSET KnownKeys, NEW code, NEW up \in {0, KEY_UP_RANGE_START},
           code = KeyCodes[k].code + up
    PROVE  LET s == IF KeyCodes[k].extended THEN AfterByte(Quiet(S), EXTENDED_PREFIX) ELSE Quiet(S)
           IN  AfterByte(s, code) = Quiet(IF up = 0 THEN S \cup {k} ELSE S \ {k})
  <1>1. /\ code # EXTENDED_PREFIX /\ (code >= KEY_UP_RANGE_START <=> up # 0)
        /\ KeysOf(KeyCodes[k].extended, code) = {k} /\ KeyCodes[k].extended \in BOOLEAN
    BY KeyBytes, KeyCodesAssumption DEF KnownKeys
  <1>2. PICK s : s = IF KeyCodes[k].extended THEN AfterByte(Quiet(S), EXTENDED_PREFIX) ELSE Quiet(S)
    OBVIOUS
  <1>3. s.held = S /\ s.prefix = KeyCodes[k].extended
    BY <1>1, <1>2 DEF AfterByte, Quiet
  <1>4. AfterByte(s, code) = Quiet(IF up = 0 THEN S \cup {k} ELSE S \ {k})
    BY <1>1, <1>3 DEF AfterByte, Quiet
  <1> QED
    BY <1>2, <1>4

(* A byte of a key without a name changes nothing.                          *)
LEMMA UnknownByte ==
    ASSUME NEW code \in UnknownCodes, NEW S
    PROVE  code \in Bytes /\ AfterByte(Quiet(S), code) = Quiet(S)
  <1>1. /\ code \in 0 .. 255 \ {224}
        /\ \A k \in KnownKeys : KeyCodes[k] # [code |-> code % 128, extended |-> FALSE]
    BY KeyCodesAssumption DEF KnownKeys
  <1>2. (IF code >= KEY_UP_RANGE_START THEN code - KEY_UP_RANGE_START ELSE code) = code % 128
    BY <1>1 DEF KEY_UP_RANGE_START
  <1>3. PICK c \in 0 .. 127 : c = code % 128
    BY <1>1
  <1>4. ASSUME NEW k \in KnownKeys, Scancode(k) = c PROVE FALSE
    <2>1. KeyCodes[k] \in [code : 0 .. 127 \ {96}, extended : BOOLEAN]
      BY KeyCodesAssumption DEF KnownKeys
    <2>2. KeyCodes[k].extended = FALSE /\ KeyCodes[k].code = c
      <3>1. PICK a \in 0 .. 127, e \in BOOLEAN : a = KeyCodes[k].code /\ e = KeyCodes[k].extended
        BY <2>1
      <3>2. a + (IF e THEN 128 ELSE 0) = c
        BY <1>4, <3>1 DEF Scancode, KEY_EXTENDED_OFFSET
      <3>3. ~e /\ a = c
        BY <3>2
      <3> QED
        BY <3>1, <3>3
    <2>3. KeyCodes[k] = [code |-> c, extended |-> FALSE]
      BY <2>1, <2>2
    <2> QED
      BY <1>1, <1>3, <2>3
  <1>5. KeysOf(FALSE, code) = {}
    BY <1>1, <1>2, <1>3, <1>4 DEF KeysOf
  <1>6. code \in Bytes /\ code # EXTENDED_PREFIX
    BY <1>1 DEF Bytes, EXTENDED_PREFIX
  <1>7. Quiet(S).prefix = FALSE /\ Quiet(S).held = S
    BY DEF Quiet
  <1>8. AfterByte(Quiet(S), code) = [prefix |-> FALSE, held |-> S]
    BY <1>5, <1>6, <1>7 DEF AfterByte
  <1> QED
    BY <1>6, <1>8 DEF Quiet

-----------------------------------------------------------------------------
(* What every step keeps.                                                   *)
MouseBytes == [byte : Bytes, place : 0 .. 3]
Ps2Typed ==
    /\ keyboardOut \in Seq(Bytes) /\ mouseOut \in Seq(MouseBytes)
    /\ keysDown \in SUBSET KnownKeys /\ buttonDown \in BOOLEAN /\ moved \in Int
    /\ outputBuffer \in [byte : Bytes, place : 0 .. 3, aux : BOOLEAN, full : BOOLEAN]
    /\ extended_pending \in BOOLEAN /\ mouse_packet \in Seq(MouseBytes)
    /\ heldKeys \in SUBSET KnownKeys /\ heldButton \in BOOLEAN /\ motion \in Int
    /\ lost \in Nat /\ beyond \in Int
    /\ inStep \in {"no", "again", "yes"} /\ plainRun \in 0 .. 2

(* What the keyboard handler will have made of all bytes is the keyboard's  *)
(* truth.                                                                   *)
HasKeyByte == outputBuffer.full /\ ~outputBuffer.aux
Handled == [prefix |-> extended_pending, held |-> heldKeys]
Handling == IF HasKeyByte THEN AfterByte(Handled, outputBuffer.byte) ELSE Handled
KeyboardFollows == Decodes(Handling, keyboardOut, Quiet(keysDown))

(* The mouse's bytes from the ones that were read to the ones to be sent    *)
(* are none, one packet or two.                                             *)
InPackets(a, b, i) == IF i <= 3 THEN a[i] ELSE b[i - 3]
BufferedByte == MouseByte(outputBuffer.byte, outputBuffer.place)
Buffered == IF HasMouseByte THEN 1 ELSE 0
Underway(a, b, n) ==
    /\ Len(mouse_packet) + Buffered + Len(mouseOut) = n
    /\ \A i \in 1 .. Len(mouse_packet) : mouse_packet[i] = InPackets(a, b, i)
    /\ HasMouseByte => BufferedByte = InPackets(a, b, Len(mouse_packet) + 1)
    /\ \A i \in 1 .. Len(mouseOut) : mouseOut[i] = InPackets(a, b, Len(mouse_packet) + Buffered + i)
Proper(a) == StartsPacket(a[1].byte) /\ \A i \in 1 .. 3 : a[i].place = i
Seen == moved - 256 * beyond
Tells(a, b, n) ==
    \/ n = 0 /\ (inStep = "yes" => heldButton = buttonDown) /\ (lost = 0 => motion = Seen)
    \/ /\ n = 3 /\ Proper(a)
       /\ has_flag(a[1].byte, LEFT_BUTTON) = buttonDown /\ (lost = 0 => motion + MotionOf(a) = Seen)
    \/ /\ n = 6 /\ Proper(a) /\ Proper(b)
       /\ has_flag(b[1].byte, LEFT_BUTTON) = buttonDown
       /\ lost = 0 => motion + MotionOf(a) + MotionOf(b) = Seen
Packets == [1 .. 3 -> MouseBytes]
MouseFollows ==
    /\ lost = 0 => inStep = "yes"
    /\ inStep # "no" => \E a, b \in Packets, n \in {0, 3, 6} : Underway(a, b, n) /\ Tells(a, b, n)

(* What the mouse has not sent is a packet, if it begins with a first byte. *)
MouseSends ==
    /\ \A i \in 2 .. Len(mouseOut) : mouseOut[i].place # 1
    /\ mouseOut # <<>> /\ Head(mouseOut).place = 1 =>
          \E a \in Packets : /\ Proper(a) /\ has_flag(a[1].byte, LEFT_BUTTON) = buttonDown
                            /\ Len(mouseOut) = 3 /\ \A i \in 1 .. 3 : mouseOut[i] = a[i]

(* After a byte that does not look like a first one, the driver has none or  *)
(* two; after two such bytes, none.                                         *)
PlainKept ==
    /\ plainRun # 0 => Len(mouse_packet) = 0 \/ Len(mouse_packet) = 2
    /\ plainRun = 2 => Len(mouse_packet) = 0

MouseKeeps == MouseFollows /\ MouseSends /\ PlainKept

PInv == Ps2Typed /\ Ps2TypeOK /\ KeyboardFollows /\ MouseKeeps

(* Steps that touch neither the keyboard nor its decoder.                   *)
LEMMA SameKeyboard ==
    ASSUME KeyboardFollows, Handling' = Handling, UNCHANGED <<keyboardOut, keysDown>>
    PROVE  KeyboardFollows'
  BY DEF KeyboardFollows

(* Steps that touch neither the mouse nor its packet.                       *)
LEMMA SameMouse ==
    ASSUME MouseKeeps, UNCHANGED <<lost, inStep, plainRun>>, mouseOut' = mouseOut, mouse_packet' = mouse_packet,
           HasMouseByte' <=> HasMouseByte, HasMouseByte => BufferedByte' = BufferedByte,
           UNCHANGED <<heldButton, buttonDown, motion, moved, beyond>>
    PROVE  MouseKeeps'
  <1>1. MouseFollows'
    <2> SUFFICES ASSUME inStep # "no"
                 PROVE  \E a, b \in Packets, n \in {0, 3, 6} : Underway(a, b, n)' /\ Tells(a, b, n)'
      BY DEF MouseKeeps, MouseFollows
    <2>1. PICK a \in Packets, b \in Packets, n \in {0, 3, 6} : Underway(a, b, n) /\ Tells(a, b, n)
      BY DEF MouseKeeps, MouseFollows
    <2>2. Buffered' = Buffered
      BY DEF Buffered
    <2>3. Underway(a, b, n)'
      BY <2>1, <2>2 DEF Underway
    <2>4. Tells(a, b, n)'
      BY <2>1 DEF Tells, Seen
    <2> QED
      BY <2>3, <2>4
  <1>2. MouseSends' /\ PlainKept'
    BY DEF MouseKeeps, MouseSends, PlainKept
  <1> QED
    BY <1>1, <1>2 DEF MouseKeeps

(* Nothing is down, buffered or decoded at first.                           *)
LEMMA Ps2Start == Ps2Init => PInv
  <1> SUFFICES ASSUME Ps2Init PROVE PInv
    OBVIOUS
  <1>1. Ps2Typed
    <2>1. EmptyBuffer \in [byte : Bytes, place : 0 .. 3, aux : BOOLEAN, full : BOOLEAN]
      BY DEF EmptyBuffer, Bytes
    <2>2. <<>> \in Seq(Bytes) /\ <<>> \in Seq(MouseBytes)
      OBVIOUS
    <2> QED
      <3>1. keyboardOut \in Seq(Bytes) /\ mouseOut \in Seq(MouseBytes) /\ mouse_packet \in Seq(MouseBytes)
        BY <2>2 DEF Ps2Init
      <3>2. outputBuffer \in [byte : Bytes, place : 0 .. 3, aux : BOOLEAN, full : BOOLEAN]
        BY <2>1 DEF Ps2Init
      <3>3. /\ keysDown \in SUBSET KnownKeys /\ buttonDown \in BOOLEAN /\ moved \in Int
            /\ extended_pending \in BOOLEAN /\ heldKeys \in SUBSET KnownKeys /\ heldButton \in BOOLEAN
            /\ motion \in Int /\ lost \in Nat /\ beyond \in Int
            /\ inStep \in {"no", "again", "yes"} /\ plainRun \in 0 .. 2
        <4>1. /\ keysDown = {} /\ heldKeys = {} /\ buttonDown = FALSE /\ moved = 0
              /\ extended_pending = FALSE /\ heldButton = FALSE /\ motion = 0 /\ lost = 0
              /\ beyond = 0 /\ inStep = "yes" /\ plainRun = 0
          BY DEF Ps2Init
        <4>2. moved \in Int /\ motion \in Int /\ lost \in Nat /\ beyond \in Int /\ plainRun \in 0 .. 2
          BY <4>1
        <4>3. buttonDown \in BOOLEAN /\ extended_pending \in BOOLEAN /\ heldButton \in BOOLEAN
          BY <4>1, Zenon
        <4>4. keysDown \in SUBSET KnownKeys /\ heldKeys \in SUBSET KnownKeys
          BY <4>1
        <4> QED
          BY <4>1, <4>2, <4>3, <4>4
      <3> QED
        BY <3>1, <3>2, <3>3 DEF Ps2Typed
  <1>2. Ps2TypeOK /\ ~HasMouseByte /\ ~HasKeyByte
    BY DEF Ps2Init, Ps2TypeOK, EmptyBuffer, MOUSE_PACKET_SIZE, HasMouseByte, HasKeyByte
  <1>3. KeyboardFollows
    <2>1. Handling = Quiet({}) /\ Quiet({}) \in Decoder
      BY <1>2 DEF Ps2Init, Handling, Handled, Quiet, Decoder
    <2> QED
      BY <2>1, DecodesNothing DEF Ps2Init, KeyboardFollows
  <1>4. MouseFollows
    <2>1. PICK a \in Packets : TRUE
      <3>1. [i \in 1 .. 3 |-> MouseByte(0, 0)] \in Packets
        BY DEF Packets, MouseBytes, MouseByte, Bytes
      <3> QED
        BY <3>1
    <2>2. Underway(a, a, 0)
      BY <1>2 DEF Ps2Init, Underway, Buffered
    <2>3. Tells(a, a, 0)
      <3>1. heldButton = buttonDown /\ motion = 0 /\ Seen = 0 - 256 * 0
        BY DEF Ps2Init, Seen
      <3>2. motion = Seen
        BY <3>1
      <3> QED
        BY <3>1, <3>2 DEF Tells
    <2> QED
      BY <2>1, <2>2, <2>3 DEF MouseFollows, Ps2Init
  <1>5. MouseSends /\ PlainKept
    BY EmptySeq DEF Ps2Init, MouseSends, PlainKept
  <1> QED
    BY <1>1, <1>2, <1>3, <1>4, <1>5 DEF PInv, MouseKeeps

-----------------------------------------------------------------------------
(* Set-up and the keyboard.                                                 *)
LEMMA InitializeStep ==
    ASSUME PInv, initialize_step \/ initialize_timeout
    PROVE  PInv'
  <1>1. /\ UNCHANGED <<keyboardOut, keysDown, buttonDown, moved, outputBuffer, pendingIrqs, inMouseIsr,
                       extended_pending, mouse_packet, heldKeys, heldButton, motion, beyond, plainRun>>
        /\ \/ UNCHANGED <<mouseOut, lost, inStep>>
           \/ mouseOut' = <<[byte |-> ACK, place |-> 0]>> /\ lost' = 1 /\ inStep' = "no"
    BY DEF initialize_step, initialize_timeout, deviceVars, inputVars, stepVars
  <1>2. PICK ack : ack = [byte |-> ACK, place |-> 0]
    OBVIOUS
  <1>3. ack \in MouseBytes /\ ack.place = 0
    BY <1>2 DEF MouseBytes, Bytes, ACK
  <1>4. Ps2Typed'
    <2>1. mouseOut' \in Seq(MouseBytes) /\ lost' \in Nat /\ inStep' \in {"no", "again", "yes"}
      <3>1. CASE UNCHANGED <<mouseOut, lost, inStep>>
        BY <3>1 DEF PInv, Ps2Typed
      <3>2. CASE mouseOut' = <<ack>> /\ lost' = 1 /\ inStep' = "no"
        BY <1>3, <3>2
      <3> QED
        BY <1>1, <1>2, <3>1, <3>2
    <2> QED
      BY <1>1, <2>1 DEF PInv, Ps2Typed
  <1>5. Ps2TypeOK'
    BY <1>1 DEF PInv, Ps2TypeOK
  <1>6. KeyboardFollows'
    <2>1. Handling' = Handling
      BY <1>1 DEF Handling, Handled, HasKeyByte
    <2> QED
      BY <1>1, <2>1, SameKeyboard DEF PInv
  <1>7. MouseKeeps'
    <2>1. CASE UNCHANGED <<mouseOut, lost, inStep>>
      <3>1. (HasMouseByte' <=> HasMouseByte) /\ BufferedByte' = BufferedByte
        BY <1>1 DEF HasMouseByte, BufferedByte
      <3> QED
        BY <1>1, <2>1, <3>1, SameMouse DEF PInv
    <2>2. CASE mouseOut' = <<ack>> /\ lost' = 1 /\ inStep' = "no"
      <3>1. MouseFollows'
        BY <2>2 DEF MouseFollows
      <3>2. Len(mouseOut') = 1 /\ Head(mouseOut') = ack
        BY <2>2
      <3>3. MouseSends'
        BY <1>3, <3>2 DEF MouseSends
      <3>4. PlainKept'
        BY <1>1 DEF PInv, MouseKeeps, PlainKept
      <3> QED
        BY <3>1, <3>3, <3>4 DEF MouseKeeps
    <2> QED
      BY <1>1, <1>2, <2>1, <2>2
  <1> QED
    BY <1>4, <1>5, <1>6, <1>7 DEF PInv

(* The keyboard sends bytes that its change of state explains.              *)
LEMMA KeyboardSends ==
    ASSUME PInv, keyboardOut' \in Seq(Bytes), keysDown' \in SUBSET KnownKeys,
           Decodes(Handling, keyboardOut', Quiet(keysDown')),
           UNCHANGED <<mouseOut, buttonDown, moved, outputBuffer, pendingIrqs, inMouseIsr,
                       extended_pending, mouse_packet, heldKeys, heldButton, motion, lost, beyond, inStep, plainRun>>
    PROVE  PInv'
  <1>1. Ps2Typed'
    BY DEF PInv, Ps2Typed
  <1>2. Ps2TypeOK'
    BY DEF PInv, Ps2TypeOK
  <1>3. KeyboardFollows'
    <2>1. Handling' = Handling
      BY DEF Handling, Handled, HasKeyByte
    <2> QED
      BY <2>1 DEF KeyboardFollows
  <1>4. MouseKeeps'
    <2>1. (HasMouseByte' <=> HasMouseByte) /\ BufferedByte' = BufferedByte
      BY DEF HasMouseByte, BufferedByte
    <2> QED
      BY <2>1, SameMouse DEF PInv
  <1> QED
    BY <1>1, <1>2, <1>3, <1>4 DEF PInv

(* Sequences of bytes, with one more.                                       *)
LEMMA Appended ==
    ASSUME NEW bytes \in Seq(Bytes), NEW byte \in Bytes
    PROVE  /\ bytes \o <<>> = bytes
           /\ bytes \o <<byte>> = Append(bytes, byte)
           /\ Append(bytes, byte) \in Seq(Bytes)
  <1>1. bytes \o <<>> = bytes
    BY ConcatEmptySeq
  <1>2. Append(bytes, byte) \in Seq(Bytes)
    BY AppendProperties
  <1> QED
    BY <1>1, <1>2, AppendIsConcat

(* A key goes down or up: its one or two bytes are on their way.            *)
LEMMA PressStep ==
    ASSUME PInv, NEW k \in KnownKeys, press_or_release(k)
    PROVE  PInv'
  <1> DEFINE change == IF k \notin keysDown THEN 0 ELSE KEY_UP_RANGE_START
  <1>0. PICK up \in {0, KEY_UP_RANGE_START} : up = change
    OBVIOUS
  <1>1. PICK code : /\ up = IF k \notin keysDown THEN 0 ELSE KEY_UP_RANGE_START
                    /\ code = KeyCodes[k].code + up
    BY <1>0
  <1>2. keysDown' = IF up = 0 THEN keysDown \cup {k} ELSE keysDown \ {k}
    BY <1>1 DEF press_or_release, KEY_UP_RANGE_START
  <1>3. code \in Bytes /\ EXTENDED_PREFIX \in Bytes
    BY <1>1, KeyBytes DEF Bytes, EXTENDED_PREFIX
  <1>4. PICK sent : sent = keyboardOut \o (IF KeyCodes[k].extended THEN <<EXTENDED_PREFIX>> ELSE <<>>)
    OBVIOUS
  <1>5. keyboardOut' = sent \o <<code>>
    BY <1>1, <1>4 DEF press_or_release
  <1>6. PICK s : s = IF KeyCodes[k].extended THEN AfterByte(Quiet(keysDown), EXTENDED_PREFIX) ELSE Quiet(keysDown)
    OBVIOUS
  <1>7. sent \in Seq(Bytes) /\ Decodes(Handling, sent, s)
    <2>1. keyboardOut \in Seq(Bytes) /\ Decodes(Handling, keyboardOut, Quiet(keysDown))
      BY DEF PInv, Ps2Typed, KeyboardFollows
    <2>2. CASE KeyCodes[k].extended
      <3>1. sent = Append(keyboardOut, EXTENDED_PREFIX) /\ s = AfterByte(Quiet(keysDown), EXTENDED_PREFIX)
        BY <1>3, <1>4, <1>6, <2>1, <2>2, Appended
      <3> QED
        BY <1>3, <2>1, <3>1, Appended, DecodesMore
    <2>3. CASE ~KeyCodes[k].extended
      <3>1. sent = keyboardOut /\ s = Quiet(keysDown)
        BY <1>3, <1>4, <1>6, <2>1, <2>3, Appended
      <3> QED
        BY <2>1, <3>1
    <2> QED
      BY <2>2, <2>3
  <1>8. AfterByte(s, code) = Quiet(keysDown')
    <2>1. keysDown \in SUBSET KnownKeys
      BY DEF PInv, Ps2Typed
    <2> QED
      BY <1>1, <1>2, <1>6, <2>1, KeyChanges
  <1>9. keyboardOut' \in Seq(Bytes) /\ Decodes(Handling, keyboardOut', Quiet(keysDown'))
    <2>1. keyboardOut' = Append(sent, code) /\ Append(sent, code) \in Seq(Bytes)
      BY <1>3, <1>5, <1>7, Appended
    <2>2. Decodes(Handling, Append(sent, code), AfterByte(s, code))
      BY <1>3, <1>7, DecodesMore
    <2> QED
      BY <1>8, <2>1, <2>2
  <1>10. keysDown' \in SUBSET KnownKeys
    BY <1>2 DEF PInv, Ps2Typed
  <1> QED
    BY <1>9, <1>10, KeyboardSends DEF press_or_release, inputVars, stepVars

(* A byte that stands for no change of the keys held.                       *)
LEMMA OtherByteStep ==
    ASSUME PInv, NEW code \in Bytes, other_key_byte(code), AfterByte(Quiet(keysDown), code) = Quiet(keysDown)
    PROVE  PInv'
  <1>1. keyboardOut \in Seq(Bytes) /\ Decodes(Handling, keyboardOut, Quiet(keysDown)) /\ keysDown \in SUBSET KnownKeys
    BY DEF PInv, Ps2Typed, KeyboardFollows
  <1>2. keyboardOut' = Append(keyboardOut, code) /\ keysDown' = keysDown
    BY DEF other_key_byte
  <1>3. keyboardOut' \in Seq(Bytes)
    BY <1>1, <1>2, Appended
  <1>4. Decodes(Handling, Append(keyboardOut, code), AfterByte(Quiet(keysDown), code))
    BY <1>1, DecodesMore
  <1>5. Decodes(Handling, keyboardOut', Quiet(keysDown'))
    BY <1>2, <1>4
  <1> QED
    BY <1>1, <1>2, <1>3, <1>5, KeyboardSends DEF other_key_byte, inputVars, stepVars

(* The repetition of a key held down changes nothing.                       *)
LEMMA RepeatStep ==
    ASSUME PInv, NEW k \in KnownKeys, repeat_key(k)
    PROVE  PInv'
  <1>1. k \in keysDown /\ ~KeyCodes[k].extended /\ other_key_byte(KeyCodes[k].code)
    BY DEF repeat_key
  <1>2. PICK code : code = KeyCodes[k].code + 0
    OBVIOUS
  <1>3. code = KeyCodes[k].code
    BY <1>2, KeyCodesAssumption DEF KnownKeys
  <1>4. AfterByte(Quiet(keysDown), code) = Quiet(keysDown \cup {k}) /\ code \in Bytes
    <2>1. keysDown \in SUBSET KnownKeys
      BY DEF PInv, Ps2Typed
    <2> QED
      BY <1>1, <1>2, <2>1, KeyChanges, KeyBytes
  <1>5. keysDown \cup {k} = keysDown
    BY <1>1
  <1> QED
    BY <1>1, <1>3, <1>4, <1>5, OtherByteStep

-----------------------------------------------------------------------------
(* The mouse: the first byte of a packet tells button and overflow.         *)
LEMMA FirstByteTells ==
    ASSUME NEW down \in BOOLEAN, NEW d \in Motions
    PROVE  /\ FirstByte(down, d) \in Bytes /\ StartsPacket(FirstByte(down, d))
           /\ has_flag(FirstByte(down, d), LEFT_BUTTON) = down
           /\ has_flag(FirstByte(down, d), X_OVERFLOW) = d.overflow
  <1>1. d.x \in Int /\ d.y \in Int /\ d.overflow \in BOOLEAN
    BY Ps2Assumption
  <1>2. PICK l \in {0, 1}, x \in {0, 1}, y \in {0, 1}, o \in {0, 1} :
           /\ (l = 1 <=> down) /\ (o = 1 <=> d.overflow)
           /\ FirstByte(down, d) = 8 + l + 16 * x + 32 * y + 64 * o
    <2>1. PICK l \in {0, 1} : (l = 1 <=> down) /\ (IF down THEN LEFT_BUTTON ELSE 0) = l
      BY DEF LEFT_BUTTON
    <2>2. PICK o \in {0, 1} : (o = 1 <=> d.overflow) /\ (IF d.overflow THEN X_OVERFLOW ELSE 0) = 64 * o
      BY DEF X_OVERFLOW
    <2>3. PICK x \in {0, 1} : (IF d.x < 0 THEN X_SIGN ELSE 0) = 16 * x
      BY DEF X_SIGN
    <2>4. PICK y \in {0, 1} : (IF d.y < 0 THEN Y_SIGN ELSE 0) = 32 * y
      BY DEF Y_SIGN
    <2> QED
      BY <2>1, <2>2, <2>3, <2>4 DEF FirstByte, ALWAYS_ONE
  <1> DEFINE n == 8 + l + 16 * x + 32 * y + 64 * o
  <1>3. n \in 0 .. 255 /\ (n \div 8) % 2 = 1 /\ (n \div 1) % 2 = l /\ (n \div 64) % 2 = o
    <2>1. n \div 8 = 1 + 2 * (x + 2 * y + 4 * o)
      OBVIOUS
    <2>2. n \div 64 = o
      OBVIOUS
    <2>3. n \div 1 = n /\ n = l + 2 * (4 + 8 * x + 16 * y + 32 * o)
      OBVIOUS
    <2> QED
      BY <2>1, <2>2, <2>3
  <1>4. FirstByte(down, d) = n
    BY <1>2
  <1>5. n \in Bytes /\ StartsPacket(n) /\ (has_flag(n, LEFT_BUTTON) <=> l = 1) /\ (has_flag(n, X_OVERFLOW) <=> o = 1)
    BY <1>3 DEF Bytes, StartsPacket, has_flag, ALWAYS_ONE, LEFT_BUTTON, X_OVERFLOW
  <1>6. (has_flag(n, LEFT_BUTTON) <=> down) /\ (has_flag(n, X_OVERFLOW) <=> d.overflow)
    BY <1>2, <1>5
  <1>7. has_flag(n, LEFT_BUTTON) \in BOOLEAN /\ has_flag(n, X_OVERFLOW) \in BOOLEAN
    BY Zenon DEF has_flag
  <1>8. has_flag(n, LEFT_BUTTON) = down /\ has_flag(n, X_OVERFLOW) = d.overflow
    <2> HIDE DEF n
    <2> QED
      BY <1>1, <1>6, <1>7, Zenon
  <1> QED
    <2> HIDE DEF n
    <2> QED
      BY <1>4, <1>5, <1>8

(* A movement comes back from its byte, less what a signed byte cannot hold. *)
LEMMA SignedBack ==
    ASSUME NEW d \in -256 .. 255
    PROVE  d % 256 \in Bytes /\ Beyond(d) \in Int /\ SignedByte(d % 256) = d - 256 * Beyond(d)
  <1>1. CASE d >= 0
    <2>1. d % 256 = d
      BY <1>1
    <2> QED
      BY <1>1, <2>1 DEF SignedByte, Bytes, Beyond
  <1>2. CASE d < 0
    <2>1. d % 256 = d + 256
      BY <1>2
    <2> QED
      BY <1>2, <2>1 DEF SignedByte, Bytes, Beyond
  <1> QED
    BY <1>1, <1>2

(* A packet moves by an integer.                                            *)
LEMMA MotionType ==
    ASSUME NEW a \in Packets
    PROVE  MotionOf(a) \in Int
  <1>1. a[2].byte \in 0 .. 255
    BY DEF Packets, MouseBytes, Bytes
  <1> QED
    BY <1>1 DEF MotionOf, SignedByte

(* A packet is on its way behind at most what is left of the one before.    *)
LEMMA MouseMoveStep ==
    ASSUME PInv, NEW down \in BOOLEAN, NEW d \in Motions, mouse_moves(down, d)
    PROVE  PInv'
  <1>1. d.x \in -256 .. 255 /\ d.y \in -256 .. 255 /\ d.overflow \in BOOLEAN
    BY Ps2Assumption
  <1>2. PICK a : a = <<MouseByte(FirstByte(down, d), 1), MouseByte(d.x % 256, 2), MouseByte(d.y % 256, 3)>>
    OBVIOUS
  <1>3. /\ mouseOut = <<>> /\ mouseOut' = a /\ buttonDown' = down
        /\ moved' = IF d.overflow THEN moved ELSE moved + d.x
        /\ beyond' = IF d.overflow THEN beyond ELSE beyond + Beyond(d.x)
        /\ UNCHANGED <<keyboardOut, keysDown, outputBuffer, pendingIrqs, inMouseIsr, extended_pending,
                       mouse_packet, heldKeys, heldButton, motion, lost, inStep, plainRun>>
    BY <1>2 DEF mouse_moves, inputVars, stepVars
  <1>4. /\ a \in Packets /\ a \in Seq(MouseBytes) /\ Len(a) = 3
        /\ a[1].byte = FirstByte(down, d) /\ a[2].byte = d.x % 256
        /\ \A i \in 1 .. 3 : a[i].place = i
    <2>1. /\ MouseByte(FirstByte(down, d), 1) \in MouseBytes /\ MouseByte(d.x % 256, 2) \in MouseBytes
          /\ MouseByte(d.y % 256, 3) \in MouseBytes
      BY <1>1, FirstByteTells, SignedBack DEF MouseByte, MouseBytes
    <2>2. a \in Seq(MouseBytes) /\ Len(a) = 3 /\ a \in Packets
      <3>1. a \in Seq(MouseBytes) /\ Len(a) = 3
        <4>1. PICK x \in MouseBytes, y \in MouseBytes, z \in MouseBytes : a = <<x, y, z>>
          BY <1>2, <2>1
        <4> QED
          BY <4>1
      <3> QED
        BY <3>1, LenProperties DEF Packets
    <2>3. a[1].byte = FirstByte(down, d) /\ a[2].byte = d.x % 256
      BY <1>2 DEF MouseByte
    <2>4. a[1].place = 1 /\ a[2].place = 2 /\ a[3].place = 3
      BY <1>2 DEF MouseByte
    <2> QED
      BY <2>2, <2>3, <2>4
  <1>5. /\ Proper(a) /\ has_flag(a[1].byte, LEFT_BUTTON) = down
        /\ MotionOf(a) = IF d.overflow THEN 0 ELSE d.x - 256 * Beyond(d.x)
    <2>1. StartsPacket(a[1].byte) /\ has_flag(a[1].byte, LEFT_BUTTON) = down
          /\ has_flag(a[1].byte, X_OVERFLOW) = d.overflow
      BY <1>4, FirstByteTells
    <2>2. SignedByte(a[2].byte) = d.x - 256 * Beyond(d.x)
      <3>1. d.x \in -256 .. 255
        BY <1>1
      <3>2. SignedByte(d.x % 256) = d.x - 256 * Beyond(d.x)
        BY <3>1, SignedBack, Zenon
      <3>3. a[2].byte = d.x % 256
        BY <1>4
      <3> QED
        BY <3>2, <3>3, Zenon
    <2> QED
      BY <1>4, <2>1, <2>2 DEF MotionOf, Proper
  <1>6. moved \in Int /\ beyond \in Int /\ Seen \in Int /\ motion \in Int /\ Len(mouse_packet) \in Nat /\ Buffered \in {0, 1}
    BY LenProperties DEF PInv, Ps2Typed, Buffered, Seen
  <1>7. Seen' = Seen + MotionOf(a) /\ moved' \in Int /\ beyond' \in Int
    <2>1. PICK x \in Int, v \in Int : x = d.x /\ v = Beyond(d.x)
      <3>1. d.x \in Int /\ Beyond(d.x) \in Int
        BY <1>1, SignedBack
      <3> QED
        BY <3>1, Zenon
    <2>2. PICK m \in Int, w \in Int : m = moved /\ w = beyond
      BY <1>6
    <2>3. CASE d.overflow
      <3>1. moved' = m /\ beyond' = w /\ MotionOf(a) = 0
        BY <1>3, <1>5, <2>2, <2>3
      <3> QED
        BY <2>2, <3>1 DEF Seen
    <2>4. CASE ~d.overflow
      <3>1. moved' = m + x /\ beyond' = w + v /\ MotionOf(a) = x - 256 * v
        BY <1>3, <1>5, <2>1, <2>2, <2>4
      <3>2. (m + x) - 256 * (w + v) = (m - 256 * w) + (x - 256 * v)
        OBVIOUS
      <3> QED
        BY <2>2, <3>1, <3>2 DEF Seen
    <2> QED
      BY <2>3, <2>4
  <1>8. Ps2Typed'
    BY <1>3, <1>4, <1>7 DEF PInv, Ps2Typed
  <1>9. Ps2TypeOK'
    BY <1>3 DEF PInv, Ps2TypeOK
  <1>10. KeyboardFollows'
    <2>1. Handling' = Handling
      BY <1>3 DEF Handling, Handled, HasKeyByte
    <2> QED
      BY <1>3, <2>1, SameKeyboard DEF PInv
  <1>11. MouseFollows'
    <2> SUFFICES ASSUME inStep # "no"
                 PROVE  \E x, y \in Packets, n \in {0, 3, 6} : Underway(x, y, n)' /\ Tells(x, y, n)'
      BY <1>3 DEF PInv, MouseKeeps, MouseFollows
    <2>1. PICK x \in Packets, y \in Packets, n \in {0, 3, 6} : Underway(x, y, n) /\ Tells(x, y, n)
      BY DEF PInv, MouseKeeps, MouseFollows
    <2>2. Len(mouseOut) = 0
      BY <1>3
    <2>3. /\ (HasMouseByte' <=> HasMouseByte) /\ BufferedByte' = BufferedByte /\ Buffered' = Buffered
          /\ Len(mouse_packet') = Len(mouse_packet) /\ Len(mouseOut') = 3
      BY <1>3, <1>4 DEF HasMouseByte, BufferedByte, Buffered
    <2>4. Len(mouse_packet) < 3 /\ Len(mouse_packet) + Buffered = n
      BY <1>6, <2>1, <2>2 DEF PInv, Ps2TypeOK, Underway, MOUSE_PACKET_SIZE
    <2>5. CASE n = 0
      <3>1. Len(mouse_packet) = 0 /\ Buffered = 0 /\ ~HasMouseByte
        BY <1>6, <2>4, <2>5 DEF Buffered
      <3>2. \A i \in 1 .. 3 : mouseOut'[i] = InPackets(a, a, 0 + 0 + i)
        BY <1>3 DEF InPackets
      <3>3. Underway(a, a, 3)'
        BY <2>3, <3>1, <3>2 DEF Underway
      <3>4. Tells(a, a, 3)'
        BY <1>3, <1>5, <1>7, <2>1, <2>5 DEF Tells
      <3> QED
        BY <1>4, <3>3, <3>4
    <2>6. CASE n = 3
      <3>1. Len(mouse_packet) = 2 /\ Buffered = 1 /\ HasMouseByte
        <4>1. PICK l \in Nat, f \in {0, 1} : l = Len(mouse_packet) /\ f = Buffered
          BY <1>6
        <4>2. l = 2 /\ f = 1
          BY <2>4, <2>6, <4>1
        <4> QED
          BY <4>1, <4>2 DEF Buffered
      <3>2. \A i \in 1 .. 2 : mouse_packet[i] = InPackets(x, a, i)
        BY <2>1, <3>1 DEF Underway, InPackets
      <3>3. BufferedByte = InPackets(x, a, 2 + 1)
        BY <2>1, <3>1 DEF Underway, InPackets
      <3>4. \A i \in 1 .. 3 : mouseOut'[i] = InPackets(x, a, 2 + 1 + i)
        BY <1>3 DEF InPackets
      <3>5. Underway(x, a, 6)'
        BY <1>3, <2>3, <3>1, <3>2, <3>3, <3>4 DEF Underway
      <3>6. MotionOf(x) \in Int /\ MotionOf(a) \in Int
        BY <1>4, MotionType
      <3>7. Proper(x) /\ (lost = 0 => motion + MotionOf(x) = Seen)
        BY <2>1, <2>6 DEF Tells
      <3>8. lost = 0 => motion' + MotionOf(x) + MotionOf(a) = Seen'
        BY <1>3, <1>6, <1>7, <3>6, <3>7
      <3>9. Tells(x, a, 6)'
        BY <1>3, <1>5, <3>7, <3>8 DEF Tells
      <3> QED
        BY <1>4, <3>5, <3>9
    <2>7. n # 6
      BY <1>6, <2>4
    <2> QED
      BY <2>5, <2>6, <2>7
  <1>12. MouseSends'
    <2>1. Len(mouseOut') = 3 /\ mouseOut'[2].place # 1 /\ mouseOut'[3].place # 1
      BY <1>3, <1>4
    <2>2. \A i \in 2 .. Len(mouseOut') : mouseOut'[i].place # 1
      BY <2>1
    <2> QED
      BY <1>3, <1>4, <1>5, <2>1, <2>2 DEF MouseSends
  <1>13. PlainKept'
    BY <1>3 DEF PInv, MouseKeeps, PlainKept
  <1> QED
    BY <1>8, <1>9, <1>10, <1>11, <1>12, <1>13 DEF PInv, MouseKeeps

(* What is left of a packet does not begin with a first byte.                *)
LEMMA TailSends ==
    ASSUME MouseSends, mouseOut \in Seq(MouseBytes), mouseOut # <<>>, mouseOut' = Tail(mouseOut)
    PROVE  MouseSends'
  <1>1. PICK n \in Nat : n = Len(mouseOut) /\ n >= 1
    BY LenProperties, EmptySeq
  <1>2. Len(mouseOut') = n - 1 /\ \A i \in 1 .. n - 1 : mouseOut'[i] = mouseOut[i + 1]
    BY <1>1, HeadTailProperties
  <1>3. \A i \in 1 .. n - 1 : mouseOut'[i].place # 1
    <2> SUFFICES ASSUME NEW i \in 1 .. n - 1 PROVE mouseOut'[i].place # 1
      OBVIOUS
    <2>1. i + 1 \in 2 .. n
      OBVIOUS
    <2> QED
      BY <1>1, <1>2, <2>1 DEF MouseSends
  <1>4. mouseOut' # <<>> => Head(mouseOut') = mouseOut'[1] /\ n - 1 >= 1
    <2> SUFFICES ASSUME mouseOut' # <<>> PROVE Head(mouseOut') = mouseOut'[1] /\ n - 1 >= 1
      OBVIOUS
    <2>1. mouseOut' \in Seq(MouseBytes)
      BY HeadTailProperties
    <2> QED
      BY <1>1, <1>2, <2>1, HeadTailProperties, EmptySeq
  <1>5. mouseOut' # <<>> => Head(mouseOut').place # 1
    BY <1>1, <1>3, <1>4
  <1> QED
    BY <1>1, <1>2, <1>3, <1>5 DEF MouseSends

(* After a lost byte nothing is promised of button and movement.            *)
LEMMA LoseStep ==
    ASSUME PInv, lose_mouse_byte
    PROVE  PInv'
  <1>1. /\ mouseOut # <<>> /\ mouseOut' = Tail(mouseOut) /\ lost' = lost + 1 /\ inStep' = "no"
        /\ UNCHANGED <<keyboardOut, keysDown, buttonDown, moved, outputBuffer, pendingIrqs, inMouseIsr,
                       extended_pending, mouse_packet, heldKeys, heldButton, motion, beyond, plainRun>>
    BY DEF lose_mouse_byte, inputVars
  <1>2. mouseOut' \in Seq(MouseBytes) /\ lost' \in Nat /\ lost' # 0
    <2>1. Tail(mouseOut) \in Seq(MouseBytes)
      BY <1>1, HeadTailProperties DEF PInv, Ps2Typed
    <2> QED
      BY <1>1, <2>1 DEF PInv, Ps2Typed
  <1>3. Ps2Typed'
    BY <1>1, <1>2 DEF PInv, Ps2Typed
  <1>4. Ps2TypeOK'
    BY <1>1 DEF PInv, Ps2TypeOK
  <1>5. KeyboardFollows'
    <2>1. Handling' = Handling
      BY <1>1 DEF Handling, Handled, HasKeyByte
    <2> QED
      BY <1>1, <2>1, SameKeyboard DEF PInv
  <1>6. MouseFollows'
    BY <1>1, <1>2 DEF MouseFollows
  <1>7. MouseSends'
    BY <1>1, TailSends DEF PInv, MouseKeeps, Ps2Typed
  <1>8. PlainKept'
    BY <1>1 DEF PInv, MouseKeeps, PlainKept
  <1> QED
    BY <1>3, <1>4, <1>5, <1>6, <1>7, <1>8 DEF PInv, MouseKeeps

-----------------------------------------------------------------------------
(* The controller and the handlers.                                         *)
LEMMA DeliverKeyStep ==
    ASSUME PInv, deliver(FALSE)
    PROVE  PInv'
  <1>1. /\ ~outputBuffer.full /\ keyboardOut # <<>> /\ keyboardOut' = Tail(keyboardOut)
        /\ outputBuffer' = [EmptyBuffer EXCEPT !.byte = Head(keyboardOut), !.full = TRUE]
        /\ pendingIrqs' = pendingIrqs \cup {1}
        /\ UNCHANGED <<mouseOut, keysDown, buttonDown, moved, inMouseIsr, extended_pending, mouse_packet,
                       heldKeys, heldButton, motion, lost, beyond, inStep, plainRun>>
    BY DEF deliver, inputVars, stepVars
  <1>2. keyboardOut \in Seq(Bytes) /\ Head(keyboardOut) \in Bytes /\ Tail(keyboardOut) \in Seq(Bytes)
    BY <1>1, HeadTailProperties DEF PInv, Ps2Typed
  <1>3. /\ outputBuffer' \in [byte : Bytes, place : 0 .. 3, aux : BOOLEAN, full : BOOLEAN]
        /\ outputBuffer'.byte = Head(keyboardOut) /\ outputBuffer'.full /\ ~outputBuffer'.aux
    <2>1. outputBuffer' = [byte |-> Head(keyboardOut), place |-> 0, aux |-> FALSE, full |-> TRUE]
      BY <1>1 DEF EmptyBuffer
    <2>2. 0 \in 0 .. 3
      OBVIOUS
    <2> QED
      BY <1>2, <2>1, <2>2
  <1>4. Ps2Typed'
    BY <1>1, <1>2, <1>3 DEF PInv, Ps2Typed
  <1>5. Ps2TypeOK'
    BY <1>1, <1>3 DEF PInv, Ps2TypeOK
  <1>6. KeyboardFollows'
    <2>1. Handling = Handled /\ Handling' = AfterByte(Handled, Head(keyboardOut))
      BY <1>1, <1>3 DEF Handling, Handled, HasKeyByte
    <2>2. Decodes(Handled, keyboardOut, Quiet(keysDown))
      BY <2>1 DEF PInv, KeyboardFollows
    <2>3. Decodes(AfterByte(Handled, Head(keyboardOut)), Tail(keyboardOut), Quiet(keysDown))
      BY <1>1, <1>2, <2>2, DecodesNext
    <2>4. Decodes(Handling', keyboardOut', Quiet(keysDown'))
      BY <1>1, <2>1, <2>3
    <2> QED
      BY <2>4 DEF KeyboardFollows
  <1>7. MouseKeeps'
    <2>1. ~HasMouseByte /\ ~HasMouseByte'
      BY <1>1, <1>3 DEF HasMouseByte
    <2> QED
      BY <1>1, <2>1, SameMouse DEF PInv
  <1> QED
    BY <1>4, <1>5, <1>6, <1>7 DEF PInv

(* A mouse byte moves from the device to the buffer.                        *)
LEMMA DeliverMouseStep ==
    ASSUME PInv, deliver(TRUE)
    PROVE  PInv'
  <1>1. /\ ~outputBuffer.full /\ mouseOut # <<>> /\ mouseOut' = Tail(mouseOut)
        /\ outputBuffer' = [byte |-> Head(mouseOut).byte, place |-> Head(mouseOut).place, aux |-> TRUE, full |-> TRUE]
        /\ pendingIrqs' = pendingIrqs \cup {12}
        /\ UNCHANGED <<keyboardOut, keysDown, buttonDown, moved, inMouseIsr, extended_pending, mouse_packet,
                       heldKeys, heldButton, motion, lost, beyond, inStep, plainRun>>
    BY DEF deliver, inputVars, stepVars
  <1>2. mouseOut \in Seq(MouseBytes) /\ Head(mouseOut) \in MouseBytes /\ Tail(mouseOut) \in Seq(MouseBytes)
        /\ Len(mouseOut) \in Nat /\ Len(Tail(mouseOut)) = Len(mouseOut) - 1 /\ Head(mouseOut) = mouseOut[1]
        /\ \A i \in 1 .. Len(mouseOut) - 1 : Tail(mouseOut)[i] = mouseOut[i + 1]
    BY <1>1, HeadTailProperties, LenProperties DEF PInv, Ps2Typed
  <1>3. Head(mouseOut).byte \in Bytes /\ Head(mouseOut).place \in 0 .. 3
        /\ MouseByte(Head(mouseOut).byte, Head(mouseOut).place) = Head(mouseOut)
    BY <1>2 DEF MouseBytes, MouseByte
  <1>4. /\ outputBuffer' \in [byte : Bytes, place : 0 .. 3, aux : BOOLEAN, full : BOOLEAN]
        /\ outputBuffer'.full /\ outputBuffer'.aux /\ HasMouseByte' /\ BufferedByte' = Head(mouseOut)
    BY <1>1, <1>3 DEF HasMouseByte, BufferedByte
  <1>5. Ps2Typed'
    BY <1>1, <1>2, <1>4 DEF PInv, Ps2Typed
  <1>6. Ps2TypeOK'
    BY <1>1, <1>4 DEF PInv, Ps2TypeOK
  <1>7. KeyboardFollows'
    <2>1. Handling' = Handling
      BY <1>1, <1>4 DEF Handling, Handled, HasKeyByte
    <2> QED
      BY <1>1, <2>1, SameKeyboard DEF PInv
  <1>8. MouseFollows'
    <2> SUFFICES ASSUME inStep # "no"
                 PROVE  \E x, y \in Packets, n \in {0, 3, 6} : Underway(x, y, n)' /\ Tells(x, y, n)'
      BY <1>1 DEF PInv, MouseKeeps, MouseFollows
    <2>1. PICK x \in Packets, y \in Packets, n \in {0, 3, 6} : Underway(x, y, n) /\ Tells(x, y, n)
      BY DEF PInv, MouseKeeps, MouseFollows
    <2>2. ~HasMouseByte /\ Buffered = 0 /\ Buffered' = 1
      BY <1>1, <1>4 DEF HasMouseByte, Buffered
    <2>3. PICK l \in Nat, m \in Nat : l = Len(mouse_packet) /\ m = Len(mouseOut)
      BY <1>2, LenProperties DEF PInv, Ps2Typed
    <2>4. m >= 1 /\ Len(mouseOut') = m - 1 /\ Len(mouse_packet') = l /\ l + 0 + m = n
      <3>1. m # 0
        BY <1>1, <1>2, <2>3, EmptySeq
      <3> QED
        BY <1>1, <1>2, <2>1, <2>2, <2>3, <3>1 DEF Underway
    <2>5. l + 1 + (m - 1) = n
      BY <2>4
    <2>6. BufferedByte' = InPackets(x, y, l + 1)
      <3>1. 1 \in 1 .. m /\ l + 0 + 1 = l + 1
        BY <2>4
      <3>2. mouseOut[1] = InPackets(x, y, l + 0 + 1)
        BY <2>1, <2>2, <2>3, <3>1 DEF Underway
      <3> QED
        BY <1>2, <1>4, <3>1, <3>2
    <2>7. ASSUME NEW i \in 1 .. m - 1 PROVE mouseOut'[i] = InPackets(x, y, l + 1 + i)
      <3>1. i + 1 \in 1 .. m /\ l + 0 + (i + 1) = l + 1 + i
        BY <2>4
      <3>2. mouseOut[i + 1] = InPackets(x, y, l + 0 + (i + 1))
        BY <2>1, <2>2, <2>3, <3>1 DEF Underway
      <3> QED
        BY <1>1, <1>2, <2>3, <3>1, <3>2
    <2>8. \A i \in 1 .. l : mouse_packet'[i] = InPackets(x, y, i)
      BY <1>1, <2>1, <2>3 DEF Underway
    <2>9. Underway(x, y, n)'
      BY <2>2, <2>4, <2>5, <2>6, <2>7, <2>8 DEF Underway
    <2>10. Tells(x, y, n)'
      BY <1>1, <2>1 DEF Tells, Seen
    <2> QED
      BY <2>9, <2>10
  <1>9. MouseSends'
    BY <1>1, <1>2, TailSends DEF PInv, MouseKeeps
  <1>10. PlainKept'
    BY <1>1 DEF PInv, MouseKeeps, PlainKept
  <1> QED
    BY <1>5, <1>6, <1>7, <1>8, <1>9, <1>10 DEF PInv, MouseKeeps

(* The keyboard handler decodes the byte that the buffer holds.             *)
LEMMA KeyboardIsrStep ==
    ASSUME PInv, isr_handle_ps2_keyboard
    PROVE  PInv'
  <1>1. /\ 1 \in pendingIrqs /\ pendingIrqs' = pendingIrqs \ {1} /\ outputBuffer' = EmptyBuffer
        /\ UNCHANGED <<keyboardOut, mouseOut, keysDown, buttonDown, moved, inMouseIsr, mouse_packet,
                       heldButton, motion, lost, beyond, inStep, plainRun>>
    BY DEF isr_handle_ps2_keyboard, deviceVars, stepVars
  <1>2. outputBuffer.full /\ ~outputBuffer.aux /\ outputBuffer.byte \in Bytes
    BY <1>1 DEF PInv, Ps2TypeOK, Ps2Typed
  <1>3. PICK byte \in Bytes : byte = outputBuffer.byte
    BY <1>2
  <1>4. to_input_key(Decoded(byte)) = KeysOf(extended_pending, byte)
    BY DEF to_input_key, Decoded, KeysOf
  <1>5. \/ byte = EXTENDED_PREFIX /\ extended_pending' = TRUE /\ heldKeys' = heldKeys
        \/ /\ byte # EXTENDED_PREFIX /\ extended_pending' = FALSE
           /\ heldKeys' = IF byte >= KEY_UP_RANGE_START THEN heldKeys \ KeysOf(extended_pending, byte)
                          ELSE heldKeys \cup KeysOf(extended_pending, byte)
    BY <1>3, <1>4 DEF isr_handle_ps2_keyboard
  <1>6. Handled' = AfterByte(Handled, byte)
    BY <1>5 DEF Handled, AfterByte
  <1>7. extended_pending' \in BOOLEAN /\ heldKeys' \in SUBSET KnownKeys
    BY <1>5 DEF PInv, Ps2Typed, KeysOf
  <1>8. EmptyBuffer \in [byte : Bytes, place : 0 .. 3, aux : BOOLEAN, full : BOOLEAN] /\ ~EmptyBuffer.full
    BY DEF EmptyBuffer, Bytes
  <1>9. Ps2Typed'
    BY <1>1, <1>7, <1>8 DEF PInv, Ps2Typed
  <1>10. Ps2TypeOK'
    BY <1>1, <1>8 DEF PInv, Ps2TypeOK
  <1>11. KeyboardFollows'
    <2>1. Handling = AfterByte(Handled, byte)
      BY <1>2, <1>3 DEF Handling, HasKeyByte
    <2>2. Handling' = Handled'
      BY <1>1, <1>8 DEF Handling, HasKeyByte
    <2> QED
      BY <1>1, <1>6, <2>1, <2>2, SameKeyboard DEF PInv
  <1>12. MouseKeeps'
    <2>1. ~HasMouseByte /\ ~HasMouseByte'
      BY <1>1, <1>2, <1>8 DEF HasMouseByte
    <2> QED
      BY <1>1, <2>1, SameMouse DEF PInv
  <1> QED
    BY <1>9, <1>10, <1>11, <1>12 DEF PInv

(* The mouse handler comes and goes; it leaves no byte of its own behind.   *)
LEMMA MouseIsrEdges ==
    ASSUME PInv, mouse_isr_enter \/ mouse_isr_leave
    PROVE  PInv'
  <1>1. UNCHANGED <<keyboardOut, mouseOut, keysDown, buttonDown, moved, outputBuffer, extended_pending, mouse_packet,
                    heldKeys, heldButton, motion, lost, beyond, inStep, plainRun>>
    BY DEF mouse_isr_enter, mouse_isr_leave, deviceVars, inputVars, stepVars
  <1>2. Ps2Typed'
    BY <1>1 DEF PInv, Ps2Typed
  <1>3. Ps2TypeOK'
    <2>1. CASE mouse_isr_enter
      BY <1>1, <2>1 DEF mouse_isr_enter, PInv, Ps2TypeOK
    <2>2. CASE mouse_isr_leave
      BY <1>1, <2>2 DEF mouse_isr_leave, PInv, Ps2TypeOK, HasMouseByte
    <2> QED
      BY <2>1, <2>2
  <1>4. KeyboardFollows'
    <2>1. Handling' = Handling
      BY <1>1 DEF Handling, Handled, HasKeyByte
    <2> QED
      BY <1>1, <2>1, SameKeyboard DEF PInv
  <1>5. MouseKeeps'
    <2>1. (HasMouseByte' <=> HasMouseByte) /\ BufferedByte' = BufferedByte
      BY <1>1 DEF HasMouseByte, BufferedByte
    <2> QED
      BY <1>1, <2>1, SameMouse DEF PInv
  <1> QED
    BY <1>2, <1>3, <1>4, <1>5 DEF PInv

(* A packet with one more byte.                                             *)
LEMMA AppendedByte ==
    ASSUME NEW q \in Seq(MouseBytes), NEW b \in MouseBytes
    PROVE  /\ Append(q, b) \in Seq(MouseBytes) /\ Len(Append(q, b)) = Len(q) + 1
           /\ \A i \in 1 .. Len(q) : Append(q, b)[i] = q[i]
           /\ Append(q, b)[Len(q) + 1] = b
  BY AppendProperties

(* The mouse handler takes a byte; the third completes a packet.            *)
LEMMA MouseReadStep ==
    ASSUME PInv, mouse_isr_read
    PROVE  PInv'
  <1>1. /\ inMouseIsr /\ HasMouseByte /\ process_mouse_byte(BufferedByte) /\ outputBuffer' = EmptyBuffer
        /\ UNCHANGED <<keyboardOut, mouseOut, keysDown, buttonDown, moved, pendingIrqs, inMouseIsr,
                       extended_pending, lost, beyond>>
        /\ inStep' = StepAfterByte(outputBuffer.byte, outputBuffer.place)
        /\ plainRun' = PlainRunAfter(outputBuffer.byte)
    BY DEF mouse_isr_read, deviceVars, BufferedByte
  <1>2. PICK l \in 0 .. 2 : l = Len(mouse_packet)
    <2>1. mouse_packet \in Seq(MouseBytes) /\ Len(mouse_packet) < 3
      BY DEF PInv, Ps2Typed, Ps2TypeOK, MOUSE_PACKET_SIZE
    <2>2. PICK n \in Nat : n = Len(mouse_packet)
      BY <2>1, LenProperties
    <2>3. n < 3 => n \in 0 .. 2
      BY <2>2
    <2> QED
      BY <2>1, <2>2, <2>3
  <1>3. PICK bytes : bytes = Append(mouse_packet, BufferedByte)
    OBVIOUS
  <1>4. BufferedByte \in MouseBytes /\ mouse_packet \in Seq(MouseBytes)
    BY DEF PInv, Ps2Typed, BufferedByte, MouseByte, MouseBytes
  <1>5. /\ bytes \in Seq(MouseBytes) /\ Len(bytes) = l + 1
        /\ \A i \in 1 .. l : bytes[i] = mouse_packet[i]
        /\ bytes[l + 1] = BufferedByte
    BY <1>2, <1>3, <1>4, AppendedByte
  <1>6. \/ /\ l = 0 /\ ~StartsPacket(BufferedByte.byte)
           /\ UNCHANGED <<mouse_packet, heldKeys, heldButton, motion>>
        \/ /\ l < 2 /\ (l = 0 => StartsPacket(BufferedByte.byte))
           /\ mouse_packet' = bytes /\ UNCHANGED <<heldKeys, heldButton, motion>>
        \/ /\ l = 2 /\ mouse_packet' = <<>> /\ heldKeys' = heldKeys
           /\ heldButton' = has_flag(bytes[1].byte, LEFT_BUTTON) /\ motion' = motion + MotionOf(bytes)
    <2>1. mouse_packet = <<>> <=> l = 0
      BY <1>2, <1>4, EmptySeq
    <2>2. Len(bytes) < MOUSE_PACKET_SIZE <=> l < 2
      BY <1>5 DEF MOUSE_PACKET_SIZE
    <2>3. CASE mouse_packet = <<>> /\ ~StartsPacket(BufferedByte.byte)
      BY <1>1, <2>1, <2>3 DEF process_mouse_byte, inputVars
    <2>4. CASE ~(mouse_packet = <<>> /\ ~StartsPacket(BufferedByte.byte)) /\ l < 2
      BY <1>1, <1>3, <2>1, <2>2, <2>4 DEF process_mouse_byte, inputVars
    <2>5. CASE ~(mouse_packet = <<>> /\ ~StartsPacket(BufferedByte.byte)) /\ ~(l < 2)
      BY <1>1, <1>3, <2>1, <2>2, <2>5 DEF process_mouse_byte, inputVars
    <2> QED
      BY <2>3, <2>4, <2>5
  <1>7. ASSUME l = 2
        PROVE  /\ bytes \in Packets /\ MotionOf(bytes) \in Int
               /\ has_flag(bytes[1].byte, LEFT_BUTTON) \in BOOLEAN
    <2>1. bytes \in [1 .. 3 -> MouseBytes]
      <3>1. Len(bytes) = 3 /\ bytes \in Seq(MouseBytes)
        BY <1>5, <1>7
      <3>2. bytes \in [1 .. Len(bytes) -> MouseBytes]
        BY <3>1, LenProperties
      <3> QED
        BY <3>1, <3>2
    <2> QED
      BY <2>1, MotionType DEF Packets, has_flag
  <1>8. EmptyBuffer \in [byte : Bytes, place : 0 .. 3, aux : BOOLEAN, full : BOOLEAN] /\ ~EmptyBuffer.full
    BY DEF EmptyBuffer, Bytes
  <1>9. Ps2Typed'
    <2>1. mouse_packet' \in Seq(MouseBytes) /\ heldKeys' = heldKeys
      <3>1. <<>> \in Seq(MouseBytes)
        OBVIOUS
      <3> QED
        BY <1>4, <1>5, <1>6, <3>1
    <2>2. heldButton' \in BOOLEAN /\ motion' \in Int
      <3>1. heldButton \in BOOLEAN /\ motion \in Int
        BY DEF PInv, Ps2Typed
      <3>2. CASE l = 2
        BY <1>6, <1>7, <3>1, <3>2
      <3>3. CASE l # 2
        BY <1>6, <3>1, <3>3
      <3> QED
        BY <3>2, <3>3
    <2>3. inStep' \in {"no", "again", "yes"} /\ plainRun' \in 0 .. 2
      BY <1>1 DEF PInv, Ps2Typed, StepAfterByte, PlainRunAfter
    <2> QED
      BY <1>1, <1>8, <2>1, <2>2, <2>3 DEF PInv, Ps2Typed
  <1>10. Ps2TypeOK'
    <2>1. Len(mouse_packet') < 3
      <3>1. Len(<<>>) = 0
        OBVIOUS
      <3> QED
        BY <1>2, <1>5, <1>6, <3>1
    <2>2. 1 \notin pendingIrqs
      BY <1>1 DEF PInv, Ps2TypeOK, HasMouseByte
    <2> QED
      BY <1>1, <1>8, <2>1, <2>2 DEF Ps2TypeOK, MOUSE_PACKET_SIZE
  <1>11. KeyboardFollows'
    <2>1. ~HasKeyByte /\ ~HasKeyByte'
      BY <1>1, <1>8 DEF HasKeyByte, HasMouseByte
    <2>2. Handled' = Handled
      BY <1>1, <1>6 DEF Handled
    <2>3. Handling' = Handling
      BY <2>1, <2>2 DEF Handling
    <2> QED
      BY <1>1, <2>3, SameKeyboard DEF PInv
  <1>12. PlainKept'
    <2>1. ASSUME plainRun' # 0 PROVE l # 1 \/ plainRun = 0
      BY <1>2 DEF PInv, MouseKeeps, PlainKept
    <2>2. ASSUME plainRun' = 2 PROVE plainRun # 0
      BY <1>1, <2>2 DEF PlainRunAfter
    <2>3. plainRun' # 0 => ~StartsPacket(BufferedByte.byte)
      BY <1>1 DEF PlainRunAfter, Plain, StartsPacket, BufferedByte, MouseByte
    <2>4. ASSUME ~StartsPacket(BufferedByte.byte) PROVE Len(mouse_packet') = IF l = 1 THEN 2 ELSE 0
      <3>1. Len(<<>>) = 0
        OBVIOUS
      <3>2. CASE l = 0
        BY <1>2, <1>6, <2>4, <3>2
      <3>3. CASE l = 1
        BY <1>5, <1>6, <3>3
      <3>4. CASE l = 2
        BY <1>6, <3>1, <3>4
      <3> QED
        BY <3>2, <3>3, <3>4
    <2> QED
      BY <2>1, <2>2, <2>3, <2>4 DEF PlainKept
  <1>13. MouseSends'
    BY <1>1 DEF PInv, MouseKeeps, MouseSends
  <1>14. lost' = 0 => inStep' = "yes"
    BY <1>1 DEF PInv, MouseKeeps, MouseFollows, StepAfterByte
  <1>15. ASSUME inStep = "no", inStep' # "no"
         PROVE  \E x, y \in Packets, n \in {0, 3, 6} : Underway(x, y, n)' /\ Tells(x, y, n)'
    <2>1. inStep' = "again" /\ plainRun' = 2 /\ (mouseOut = <<>> \/ Head(mouseOut).place = 1) /\ lost # 0
      BY <1>1, <1>14, <1>15 DEF StepAfterByte
    <2>2. Len(mouse_packet') = 0 /\ ~HasMouseByte' /\ Buffered' = 0
      BY <1>1, <1>8, <1>12, <2>1 DEF PlainKept, HasMouseByte, Buffered
    <2>3. CASE mouseOut = <<>>
      <3>1. PICK x \in Packets : TRUE
        <4>1. [i \in 1 .. 3 |-> MouseByte(0, 0)] \in Packets
          BY DEF Packets, MouseBytes, MouseByte, Bytes
        <4> QED
          BY <4>1
      <3>2. Len(mouseOut') = 0
        BY <1>1, <2>3
      <3>3. Underway(x, x, 0)'
        BY <2>2, <3>2 DEF Underway
      <3>4. Tells(x, x, 0)'
        BY <1>1, <2>1 DEF Tells
      <3> QED
        BY <3>3, <3>4
    <2>4. CASE mouseOut # <<>>
      <3>1. PICK x \in Packets : /\ Proper(x) /\ has_flag(x[1].byte, LEFT_BUTTON) = buttonDown
                                /\ Len(mouseOut) = 3 /\ \A i \in 1 .. 3 : mouseOut[i] = x[i]
        BY <2>1, <2>4 DEF PInv, MouseKeeps, MouseSends
      <3>2. \A i \in 1 .. 3 : mouseOut'[i] = InPackets(x, x, 0 + 0 + i)
        BY <1>1, <3>1 DEF InPackets
      <3>3. Underway(x, x, 3)'
        BY <1>1, <2>2, <3>1, <3>2 DEF Underway
      <3>4. Tells(x, x, 3)'
        BY <1>1, <2>1, <3>1 DEF Tells
      <3> QED
        BY <3>3, <3>4
    <2> QED
      BY <2>3, <2>4
  <1>16. ASSUME inStep # "no"
         PROVE  \E x, y \in Packets, n \in {0, 3, 6} : Underway(x, y, n)' /\ Tells(x, y, n)'
    <2>1. PICK x \in Packets, y \in Packets, n \in {0, 3, 6} : Underway(x, y, n) /\ Tells(x, y, n)
      BY <1>16 DEF PInv, MouseKeeps, MouseFollows
    <2>2. Buffered = 1 /\ Buffered' = 0 /\ ~HasMouseByte'
      BY <1>1, <1>8 DEF HasMouseByte, Buffered
    <2>3. PICK m \in Nat : m = Len(mouseOut) /\ m = Len(mouseOut')
      BY <1>1, LenProperties DEF PInv, Ps2Typed
    <2>4. /\ l + 1 + m = n
          /\ \A i \in 1 .. l : mouse_packet[i] = InPackets(x, y, i)
          /\ BufferedByte = InPackets(x, y, l + 1)
          /\ \A i \in 1 .. m : mouseOut[i] = InPackets(x, y, l + 1 + i)
      BY <1>1, <1>2, <2>1, <2>2, <2>3 DEF Underway
    <2>5. n \in {3, 6} /\ Proper(x)
      BY <2>1, <2>4 DEF Tells
    <2>6. \A i \in 1 .. l + 1 : bytes[i] = x[i]
      <3>1. \A i \in 1 .. l : mouse_packet[i] = x[i]
        BY <2>4 DEF InPackets
      <3>2. BufferedByte = x[l + 1]
        BY <2>4 DEF InPackets
      <3> QED
        BY <1>5, <3>1, <3>2
    <2>7. CASE l < 2
      <3>1. l = 0 => StartsPacket(BufferedByte.byte)
        BY <1>5, <2>5, <2>6 DEF Proper
      <3>2. mouse_packet' = bytes /\ UNCHANGED <<heldButton, motion>>
        BY <1>6, <2>7, <3>1
      <3>3. \A i \in 1 .. l + 1 : bytes[i] = InPackets(x, y, i)
        BY <2>6, <2>7 DEF InPackets
      <3>4. \A i \in 1 .. m : mouseOut'[i] = InPackets(x, y, l + 1 + 0 + i)
        BY <1>1, <2>4
      <3>5. Len(mouse_packet') = l + 1 /\ l + 1 + 0 + m = n
        BY <1>5, <2>4, <3>2
      <3>6. Underway(x, y, n)'
        BY <2>2, <2>3, <3>2, <3>3, <3>4, <3>5 DEF Underway
      <3>7. inStep' = inStep
        <4>1. outputBuffer.place = l + 1
          BY <2>4, <2>5, <2>7 DEF InPackets, Proper, BufferedByte, MouseByte
        <4> QED
          BY <1>1, <1>16, <2>7, <4>1 DEF StepAfterByte
      <3>8. Tells(x, y, n)'
        BY <1>1, <2>1, <3>2, <3>7 DEF Tells, Seen
      <3> QED
        BY <3>6, <3>8
    <2>8. CASE l = 2
      <3>1. mouse_packet' = <<>> /\ Len(mouse_packet') = 0
            /\ heldButton' = has_flag(bytes[1].byte, LEFT_BUTTON) /\ motion' = motion + MotionOf(bytes)
        BY <1>6, <2>8
      <3>2. bytes[1] = x[1] /\ bytes[2] = x[2] /\ MotionOf(bytes) = MotionOf(x)
        BY <2>6, <2>8 DEF MotionOf
      <3>3. motion \in Int /\ Seen \in Int /\ Seen' = Seen /\ MotionOf(x) \in Int /\ MotionOf(y) \in Int
        BY <1>1, MotionType DEF PInv, Ps2Typed, Seen
      <3>4. CASE n = 3
        <4>1. m = 0
          BY <2>4, <2>8, <3>4
        <4>2. Underway(x, y, 0)'
          BY <2>2, <2>3, <3>1, <4>1 DEF Underway
        <4>3. has_flag(x[1].byte, LEFT_BUTTON) = buttonDown /\ (lost = 0 => motion + MotionOf(x) = Seen)
          BY <2>1, <3>4 DEF Tells
        <4>4. Tells(x, y, 0)'
          BY <1>1, <3>1, <3>2, <3>3, <4>3 DEF Tells
        <4> QED
          BY <4>2, <4>4
      <3>5. CASE n = 6
        <4>1. m = 3
          BY <2>4, <2>8, <3>5
        <4>2. ASSUME NEW i \in 1 .. 3 PROVE mouseOut'[i] = InPackets(y, y, 0 + 0 + i)
          <5>1. mouseOut[i] = InPackets(x, y, 2 + 1 + i)
            BY <2>4, <2>8, <4>1
          <5> QED
            BY <1>1, <5>1 DEF InPackets
        <4>3. Underway(y, y, 3)'
          BY <2>2, <2>3, <3>1, <4>1, <4>2 DEF Underway
        <4>4. /\ Proper(y) /\ has_flag(y[1].byte, LEFT_BUTTON) = buttonDown
              /\ lost = 0 => motion + MotionOf(x) + MotionOf(y) = Seen
          BY <2>1, <3>5 DEF Tells
        <4>5. lost = 0 => motion' + MotionOf(y) = Seen'
          BY <1>1, <3>1, <3>2, <3>3, <4>4
        <4>6. Tells(y, y, 3)'
          BY <1>1, <4>4, <4>5 DEF Tells
        <4> QED
          BY <4>3, <4>6
      <3> QED
        BY <2>5, <3>4, <3>5
    <2> QED
      BY <2>7, <2>8
  <1>17. MouseFollows'
    BY <1>14, <1>15, <1>16 DEF MouseFollows
  <1> QED
    BY <1>9, <1>10, <1>11, <1>12, <1>13, <1>17 DEF PInv, MouseKeeps

(* Every step of the devices, the controller and the handlers.              *)
LEMMA Ps2Step == PInv /\ [Ps2Next]_ps2Vars => PInv'
  <1> SUFFICES ASSUME PInv, [Ps2Next]_ps2Vars PROVE PInv'
    OBVIOUS
  <1>1. CASE UNCHANGED ps2Vars
    <2>1. keyboardOut \in Seq(Bytes) /\ keysDown \in SUBSET KnownKeys /\ Decodes(Handling, keyboardOut, Quiet(keysDown))
      BY DEF PInv, Ps2Typed, KeyboardFollows
    <2> QED
      BY <1>1, <2>1, KeyboardSends DEF ps2Vars
  <1>2. CASE initialize_step \/ initialize_timeout
    BY <1>2, InitializeStep
  <1>3. ASSUME NEW k \in KnownKeys, press_or_release(k) \/ repeat_key(k) PROVE PInv'
    BY <1>3, PressStep, RepeatStep
  <1>4. ASSUME NEW code \in UnknownCodes, other_key_byte(code) PROVE PInv'
    BY <1>4, UnknownByte, OtherByteStep
  <1>5. ASSUME NEW down \in BOOLEAN, NEW d \in Motions, mouse_moves(down, d) PROVE PInv'
    BY <1>5, MouseMoveStep
  <1>6. CASE lose_mouse_byte
    BY <1>6, LoseStep
  <1>7. ASSUME NEW aux \in BOOLEAN, deliver(aux) PROVE PInv'
    BY <1>7, DeliverKeyStep, DeliverMouseStep
  <1>8. CASE isr_handle_ps2_keyboard
    BY <1>8, KeyboardIsrStep
  <1>9. CASE mouse_isr_enter \/ mouse_isr_leave
    BY <1>9, MouseIsrEdges
  <1>10. CASE mouse_isr_read
    BY <1>10, MouseReadStep
  <1> QED
    BY <1>1, <1>2, <1>3, <1>4, <1>5, <1>6, <1>7, <1>8, <1>9, <1>10 DEF Ps2Next

(* Once a device's bytes are all handled, what the decoders know is the     *)
(* device's truth.                                                          *)
LEMMA DriversFollow == PInv => HeldFollowsKeyboard /\ MouseFollowsDevice /\ PacketsRealign
  <1> SUFFICES ASSUME PInv PROVE HeldFollowsKeyboard /\ MouseFollowsDevice /\ PacketsRealign
    OBVIOUS
  <1>1. ASSUME NoKeyByte PROVE heldKeys = keysDown
    <2>1. Handling = Handled /\ keyboardOut = <<>>
      BY <1>1 DEF NoKeyByte, Handling, HasKeyByte
    <2>2. Decodes(Handled, <<>>, Quiet(keysDown))
      BY <2>1 DEF PInv, KeyboardFollows
    <2>3. Handled = Quiet(keysDown)
      BY <2>2, DecodesNothing
    <2> QED
      BY <2>3 DEF Handled, Quiet
  <1>2. mouse_packet \in Seq(MouseBytes) /\ Len(mouse_packet) < 3 /\ Len(mouse_packet) \in Nat
    BY LenProperties DEF PInv, Ps2Typed, Ps2TypeOK, MOUSE_PACKET_SIZE
  <1>3. lost = 0 => inStep = "yes"
    BY DEF PInv, MouseKeeps, MouseFollows
  <1>4. ASSUME NoMouseByte, inStep # "no"
        PROVE  (inStep = "yes" => heldButton = buttonDown) /\ (lost = 0 => motion = moved - 256 * beyond)
    <2>1. PICK a \in Packets, b \in Packets, n \in {0, 3, 6} : Underway(a, b, n) /\ Tells(a, b, n)
      BY <1>4 DEF PInv, MouseKeeps, MouseFollows
    <2>2. Buffered = 0 /\ Len(mouseOut) = 0
      <3>1. Len(<<>>) = 0
        OBVIOUS
      <3> QED
        BY <1>4, <3>1 DEF NoMouseByte, Buffered
    <2>3. n = 0
      BY <1>2, <2>1, <2>2 DEF Underway
    <2> QED
      BY <2>1, <2>3 DEF Tells, Seen
  <1>5. ASSUME inStep # "no", NEW i \in DOMAIN mouse_packet PROVE mouse_packet[i].place = i
    <2>1. PICK a \in Packets, b \in Packets, n \in {0, 3, 6} : Underway(a, b, n) /\ Tells(a, b, n)
      BY <1>5 DEF PInv, MouseKeeps, MouseFollows
    <2>2. i \in 1 .. Len(mouse_packet) /\ i \in 1 .. 3
      BY <1>2, <1>5, LenProperties
    <2>3. mouse_packet[i] = a[i]
      BY <2>1, <2>2 DEF Underway, InPackets
    <2>4. n # 0
      BY <1>2, <2>1, <2>2 DEF Underway, Buffered
    <2>5. Proper(a)
      BY <2>1, <2>4 DEF Tells
    <2> QED
      BY <2>2, <2>3, <2>5 DEF Proper
  <1> QED
    BY <1>1, <1>3, <1>4, <1>5 DEF HeldFollowsKeyboard, MouseFollowsDevice, PacketsRealign

-----------------------------------------------------------------------------
(* Whatever the mouse reports and whatever bytes are lost, no byte waits    *)
(* without an interrupt or a handler, and once every byte is handled the    *)
(* keys are the keyboard's, the button is the mouse's as long as the driver *)
(* is in step, and the movement, if no byte was ever lost, is off by 256    *)
(* for each one that a signed byte does not hold.  A lost byte or a late    *)
(* ACK is over with the first packet that arrives whole with movement bytes *)
(* that do not look like first ones: two handlers, two decoders and one     *)
(* buffer (ps2.hh, isr_handle_ps2_keyboard and isr_handle_ps2_mouse).       *)
THEOREM Ps2IsSound == Ps2Spec => []Ps2Sound
  <1>1. Ps2Init => PInv
    BY Ps2Start
  <1>2. PInv /\ [Ps2Next]_ps2Vars => PInv'
    BY Ps2Step
  <1>3. PInv => Ps2Sound
    BY DriversFollow DEF PInv, Ps2Sound
  <1> QED
    BY <1>1, <1>2, <1>3, PTL DEF Ps2Spec
=============================================================================
