--------------------------- MODULE ThreadLifecycle ---------------------------
(***************************************************************************)
(* What threads.hh promises about one spawned thread, whatever CPUs, slots, *)
(* yields and migrations it goes through: it is created once, its procedure *)
(* returns once, and only after that its storage is freed, once.            *)
(***************************************************************************)
CONSTANT Incarnations

VARIABLE life

TypeOK == life \in [Incarnations -> {"none", "live", "returned", "freed"}]

Init == life = [t \in Incarnations |-> "none"]

Move(t, from, to) == life[t] = from /\ life' = [life EXCEPT ![t] = to]

Spawn(t) == Move(t, "none", "live")
Return(t) == Move(t, "live", "returned")
Reclaim(t) == Move(t, "returned", "freed")

Next == \E t \in Incarnations : Spawn(t) \/ Return(t) \/ Reclaim(t)

Spec == Init /\ [][Next]_life
=============================================================================
