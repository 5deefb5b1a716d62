------------------------------ MODULE ThreadsInv ------------------------------
(***************************************************************************)
(* The inductive invariant of Threads: what ties the thread table, the      *)
(* ready queue, the CPUs and the handles together in every state.  TLC      *)
(* checks it on small instances; ThreadsProofs proves it inductive.         *)
(***************************************************************************)
EXTENDS Threads

InThread == {"user", "fill", "enqueue", "join", "join_lock"}
BootOnly == {"idle", "hlt", "claimed", "switched", "returned"}
OffCpu == {"unborn", "yielded", "finished"}

IsBuilding(f) == pc[f] \in {"fill", "enqueue"}
IsJoining(f) == target[f] # None /\ ~IsBuilding(f)

(* Each CPU executes its boot flow or a thread; its boot flow waits inside  *)
(* idle_poll exactly while a thread runs, and the active TLS block is that  *)
(* of the executing flow.                                                   *)
CpuInv ==
    \A c \in CPUs :
        /\ on[c] \in {c} \cup Incarnations
        /\ pc[c] = "switched" <=> on[c] # c
        /\ pc[c] \in InThread \cup BootOnly
        /\ pc[c] \in InThread => c = BSP
        /\ pc[c] \in {"idle", "hlt"} => c # BSP
        /\ pc[c] \in {"claimed", "switched", "returned"} => polled[c] \in Slots
        /\ current_threads[c] # None => on[c] # c /\ polled[c] = current_threads[c]
        /\ tls[c] = on[c]

(* The holders of Holders(s), pairwise: queued, popped and half-built slots *)
(* are READY and distinct, current ones RUNNING and distinct.               *)
QueueInv ==
    /\ \A i, j \in 1 .. Len(ready_queue) : ready_queue[i] = ready_queue[j] => i = j
    /\ \A i \in 1 .. Len(ready_queue) : state[ready_queue[i]] = "READY"

HeldInv ==
    /\ \A c \in CPUs : pc[c] = "claimed" =>
          /\ state[polled[c]] = "READY"
          /\ \A i \in 1 .. Len(ready_queue) : ready_queue[i] # polled[c]
          /\ \A d \in CPUs \ {c} : pc[d] = "claimed" => polled[d] # polled[c]
          /\ \A f \in Flows : IsBuilding(f) => slot[f] # polled[c]
    /\ \A f \in Flows : IsBuilding(f) =>
          /\ slot[f] \in Slots
          /\ state[slot[f]] = "READY"
          /\ \A i \in 1 .. Len(ready_queue) : ready_queue[i] # slot[f]
          /\ \A g \in Flows \ {f} : IsBuilding(g) => slot[g] # slot[f]
    /\ \A c \in CPUs : current_threads[c] # None =>
          /\ state[current_threads[c]] = "RUNNING"
          /\ \A d \in CPUs \ {c} : current_threads[d] # current_threads[c]

NotLost ==
    \A s \in Slots :
        /\ state[s] = "READY" =>
              \/ \E i \in 1 .. Len(ready_queue) : ready_queue[i] = s
              \/ \E c \in CPUs : pc[c] = "claimed" /\ polled[c] = s
              \/ \E f \in Flows : IsBuilding(f) /\ slot[f] = s
        /\ state[s] = "RUNNING" => \E c \in CPUs : current_threads[c] = s

(* A slot in use points at the live storage of one incarnation, no other    *)
(* slot at the same; its saved context belongs to that incarnation unless a *)
(* finishing CPU overwrote it late.                                         *)
StorageInv ==
    /\ \A s \in Slots :
          /\ state[s] = "FREE" => block[s] = None /\ ~detached[s]
          /\ block[s] = None =>
                \/ state[s] = "FREE"
                \/ \E f \in Flows : pc[f] = "fill" /\ slot[f] = s
          /\ block[s] # None =>
                /\ storage[block[s]] = "live"
                /\ context[s].rip # InFinish => context[s].flow = block[s]
    /\ \A r, s \in Slots : r # s /\ block[r] # None => block[r] # block[s]
    /\ \A t \in Incarnations : storage[t] = "none" => pc[t] = "unborn" /\ handle[t] = None

(* What a slot's state says about where its thread is, and what a CPU that  *)
(* executes a thread knows about the slot.                                  *)
SlotRun(s) ==
    block[s] # None =>
        /\ state[s] = "READY" => pc[block[s]] \in {"unborn", "yielding", "yielded"}
        /\ state[s] = "RUNNING" => pc[block[s]] \in InThread
        /\ state[s] = "DONE" => pc[block[s]] \in {"finishing", "finished"}

CpuRun(c) ==
    on[c] # c =>
        /\ pc[on[c]] \notin OffCpu
        /\ pc[on[c]] \in InThread => current_threads[c] # None /\ block[current_threads[c]] = on[c]
        /\ pc[on[c]] \notin InThread => current_threads[c] = None
        /\ pc[on[c]] = "yielding" => block[polled[c]] = on[c] /\ state[polled[c]] = "READY"

RunInv ==
    /\ \A s \in Slots : SlotRun(s)
    /\ \A c \in CPUs : CpuRun(c)
    /\ \A t \in Incarnations : pc[t] \notin BootOnly

(* The context switch of a thread that is READY: still on its stack, or     *)
(* away from it with the registers saved in the slot.                       *)
SaveInv ==
    /\ \A t \in Incarnations : pc[t] = "yielding" => \E c \in CPUs : on[c] = t
    /\ \A s \in Slots : block[s] # None /\ pc[block[s]] = "yielded" => context[s].rip # Entry

(* Spawns in progress, handles and joins in progress refer to distinct      *)
(* incarnations, each through the slot that holds it.                       *)
PhaseInv(f) ==
    /\ pc[f] \in {"fill", "enqueue", "join", "join_lock"} => target[f] # None
    /\ pc[f] \in {"user", "unborn"} => target[f] = None
    /\ f = BSP /\ pc[f] \in {"claimed", "switched", "returned"} => target[f] # None
    /\ f = BSP /\ IsJoining(f) => join_cpu[f] = BSP

TargetInv(f) ==
    target[f] # None =>
        /\ slot[f] \in Slots
        /\ ~detached[slot[f]]
        /\ state[slot[f]] # "FREE"
        /\ storage[target[f]] = "live"
        /\ handle[target[f]] = None
        /\ \A g \in Flows \ {f} : target[g] # target[f]
        /\ pc[f] = "fill" => block[slot[f]] = None /\ \A s \in Slots : block[s] # target[f]
        /\ pc[f] # "fill" => block[slot[f]] = target[f]
        /\ IsBuilding(f) => pc[target[f]] = "unborn"
        /\ pc[f] = "join_lock" => state[slot[f]] = "DONE"
        /\ IsJoining(f) => join_cpu[f] \in CPUs

OpenInv(t) == handle[t] # None => block[handle[t]] = t /\ ~detached[handle[t]]

HandleInv ==
    /\ \A f \in Flows : PhaseInv(f) /\ TargetInv(f)
    /\ \A t \in Incarnations : OpenInv(t)

PanicInv == NoSchedulerPanic /\ NoHandlePanic

(* The inductive invariant.  RunInv, SaveInv and HandleInv speak of states  *)
(* whose future is defined: once two CPUs share a stack no step follows.    *)
IInv ==
    /\ TypeOK
    /\ CpuInv
    /\ QueueInv
    /\ HeldInv
    /\ NotLost
    /\ StorageInv
    /\ Undefined \/ (RunInv /\ SaveInv /\ HandleInv)
    /\ PanicInv
=============================================================================
