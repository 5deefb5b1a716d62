------------------------------- MODULE Threads -------------------------------
(***************************************************************************)
(* The kernel threads of gameos/threads.hh: a fixed table of thread slots,  *)
(* one ready queue shared by all CPUs, and a cooperative context switch     *)
(* between each CPU's boot flow (kernel_main on the BSP, ap_main on an AP)  *)
(* and the thread it runs.                                                  *)
(*                                                                          *)
(* Everything done under ready_lock is one action: scoped_irq_lock() keeps  *)
(* both the other CPUs and this CPU's interrupts out.  Everything done      *)
(* after the guard's scope ends is an action of its own, because another    *)
(* CPU can run in between; that is where the hazards of this code are.      *)
(***************************************************************************)
EXTENDS Integers, Sequences, FiniteSets

CONSTANTS
    CPUs,               \* cpus_online: all of them, fixed before any spawn
    BSP,                \* the bootstrap processor, which runs kernel_main
    THREAD_MAX_COUNT,   \* size of the thread table and of the ready queue
    Incarnations,       \* one thread per spawn: their number bounds the spawns
    Affinities,         \* cpu_affinity arguments spawn is called with
    ANY_CPU,
    None,               \* nullptr
    MaySpawn,           \* which flows' code calls spawn, join and detach
    MayDetach           \* whether that code calls detach

Slots == 0 .. THREAD_MAX_COUNT - 1
Flows == CPUs \cup Incarnations     \* a flow of control, named by its stack
Entry == "entry"                \* resume points a saved Context can hold
InYield == "yield"
InFinish == "finish"

ASSUME CpuAssumption == BSP \in CPUs
ASSUME SizeAssumption == THREAD_MAX_COUNT \in Nat \ {0}
ASSUME DisjointAssumption ==
    /\ CPUs \cap Incarnations = {}
    /\ None \notin Slots \cup Flows
    /\ ANY_CPU \notin CPUs
ASSUME ClientAssumption ==
    /\ Affinities \subseteq CPUs \cup {ANY_CPU}
    /\ MaySpawn \subseteq {BSP} \cup Incarnations
    /\ MayDetach \in BOOLEAN

VARIABLES
    state,              \* the thread table, one function per field of Thread:
    detached,
    cpu_affinity,
    block,              \* the incarnation whose storage and tls_block it holds
    context,
    ready_queue,        \* FIFO of slot indices (Ring_Buffer)
    current_threads,    \* per CPU: slot it runs, or None
    tls,                \* per CPU: flow whose TLS block is active
    on,                 \* per CPU: flow it executes
    pc,                 \* per flow: where it is
    polled,             \* per CPU: the handle idle_poll popped
    slot,               \* per flow: the handle its spawn or join works on
    target,             \* per flow: incarnation being spawned or joined
    join_cpu,           \* per flow: the cpu join() read on entry
    storage,            \* per incarnation: its stack (and control) allocation
    handle,             \* per incarnation: index in the Thread_Handle, None once used
    owner,              \* per incarnation: flow holding the handle
    panic               \* message of the assertion that stopped the kernel

threads == <<state, detached, cpu_affinity, block, context>>
vars == <<threads, ready_queue, current_threads, tls, on, pc, polled, slot,
          target, join_cpu, storage, handle, owner, panic>>
client == <<target, join_cpu, handle, owner>>

NoContext == [flow |-> None, rip |-> Entry]

Init ==
    /\ state = [s \in Slots |-> "FREE"]
    /\ detached = [s \in Slots |-> FALSE]
    /\ cpu_affinity = [s \in Slots |-> ANY_CPU]
    /\ block = [s \in Slots |-> None]
    /\ context = [s \in Slots |-> NoContext]
    /\ ready_queue = <<>>
    /\ current_threads = [c \in CPUs |-> None]
    /\ tls = [c \in CPUs |-> c]
    /\ on = [c \in CPUs |-> c]
    /\ pc = [f \in Flows |-> IF f = BSP THEN "user"
                             ELSE IF f \in CPUs THEN "idle" ELSE "unborn"]
    /\ polled = [c \in CPUs |-> None]
    /\ slot = [f \in Flows |-> None]
    /\ target = [f \in Flows |-> None]
    /\ join_cpu = [f \in Flows |-> None]
    /\ storage = [t \in Incarnations |-> "none"]
    /\ handle = [t \in Incarnations |-> None]
    /\ owner = [t \in Incarnations |-> None]
    /\ panic = "none"

-----------------------------------------------------------------------------
(* Two CPUs on one stack: from there on the machine's behaviour is          *)
(* undefined, and the model says nothing about it.                          *)
Undefined == \E c, d \in CPUs : c # d /\ on[c] = on[d]

Runs(c, f, label) == on[c] = f /\ pc[f] = label

Panic(message) ==
    /\ panic' = message
    /\ UNCHANGED <<threads, ready_queue, current_threads, tls, on, pc, polled,
                   slot, storage, client>>

\* Where the caller of yield() continues: the loop of join, or its own code.
AfterYield(f) == IF target[f] # None THEN "join" ELSE "user"

FreeSlots == {s \in Slots : state[s] = "FREE"}
Full_OneEarly == Len(ready_queue) = THREAD_MAX_COUNT - 1
Full == Len(ready_queue) = THREAD_MAX_COUNT

FreeBlock(t) ==
    /\ storage' = [storage EXCEPT ![t] = "freed"]
    /\ panic' = IF storage[t] = "live" THEN panic ELSE "Buddy allocator: double free"

Reclaim_SlotNotReset(s) == FreeBlock(block[s]) /\ UNCHANGED threads

(* reclaim(): run the destructors, free the storage, reset the slot to      *)
(* Thread{}.                                                                *)
Reclaim(s) ==
    /\ FreeBlock(block[s])
    /\ state' = [state EXCEPT ![s] = "FREE"]
    /\ detached' = [detached EXCEPT ![s] = FALSE]
    /\ cpu_affinity' = [cpu_affinity EXCEPT ![s] = ANY_CPU]
    /\ block' = [block EXCEPT ![s] = None]
    /\ context' = [context EXCEPT ![s] = NoContext]

-----------------------------------------------------------------------------
(* spawn: allocate, create_thread's critical section, its unlocked rest,    *)
(* enqueue_thread.                                                          *)

CreateThread(c, f, t) ==
    /\ Runs(c, f, "user") /\ f \in MaySpawn
    /\ storage[t] = "none"
    /\ IF FreeSlots = {} THEN Panic("Thread table full")
       ELSE IF Full THEN Panic("Ready queue full")
       ELSE \E s \in FreeSlots :
              /\ \A r \in FreeSlots : s <= r
              /\ state' = [state EXCEPT ![s] = "READY"]
              /\ storage' = [storage EXCEPT ![t] = "live"]
              /\ slot' = [slot EXCEPT ![f] = s]
              /\ target' = [target EXCEPT ![f] = t]
              /\ pc' = [pc EXCEPT ![f] = "fill"]
              /\ UNCHANGED <<detached, cpu_affinity, block, context, ready_queue,
                             current_threads, tls, on, polled, join_cpu, handle,
                             owner, panic>>

FillThread(c, f) ==
    /\ Runs(c, f, "fill")
    /\ \E a \in Affinities : cpu_affinity' = [cpu_affinity EXCEPT ![slot[f]] = a]
    /\ block' = [block EXCEPT ![slot[f]] = target[f]]
    /\ context' = [context EXCEPT ![slot[f]] = [flow |-> target[f], rip |-> Entry]]
    /\ pc' = [pc EXCEPT ![f] = "enqueue"]
    /\ UNCHANGED <<state, detached, ready_queue, current_threads, tls, on, polled,
                   slot, storage, panic, client>>

EnqueueThread(c, f) ==
    /\ Runs(c, f, "enqueue")
    /\ IF Full THEN Panic("Ready queue full")
       ELSE /\ ready_queue' = Append(ready_queue, slot[f])
            /\ handle' = [handle EXCEPT ![target[f]] = slot[f]]
            /\ owner' = [owner EXCEPT ![target[f]] = f]
            /\ slot' = [slot EXCEPT ![f] = None]
            /\ target' = [target EXCEPT ![f] = None]
            /\ pc' = [pc EXCEPT ![f] = "user"]
            /\ UNCHANGED <<threads, current_threads, tls, on, polled, join_cpu, storage, panic>>

-----------------------------------------------------------------------------
(* yield and finish_current: publish under the lock, then, unlocked, leave  *)
(* the stack by saving into the slot's Context.                             *)

YieldPublish(c, f) ==
    LET s == current_threads[c] IN
    IF s = None THEN Panic("yield without a current thread")
    ELSE IF state[s] # "RUNNING" THEN Panic("yield of a thread that is not running")
    ELSE IF Full THEN Panic("Ready queue full")
    ELSE /\ state' = [state EXCEPT ![s] = "READY"]
         /\ ready_queue' = Append(ready_queue, s)
         /\ current_threads' = [current_threads EXCEPT ![c] = None]
         /\ pc' = [pc EXCEPT ![f] = "yielding"]
         /\ UNCHANGED <<detached, cpu_affinity, block, context, tls, on, polled, slot,
                        storage, panic, client>>

(* tls::activate(): point FS base and `context` at a thread's or a CPU's block. *)
ActivateTls_Forgotten(c, b) == UNCHANGED tls
ActivateTls(c, b) == tls' = [tls EXCEPT ![c] = b]

\* The Thread* each of the two keeps across the unlock is the slot this CPU's
\* idle_poll switched to (current_threads[c], until the unlock).
LeaveStack(c, f, rip, next) ==
    /\ context' = [context EXCEPT ![polled[c]] = [flow |-> f, rip |-> rip]]
    /\ pc' = [pc EXCEPT ![f] = next, ![c] = "returned"]
    /\ ActivateTls(c, c)
    /\ on' = [on EXCEPT ![c] = c]
    /\ UNCHANGED <<state, detached, cpu_affinity, block, ready_queue, current_threads,
                   polled, slot, storage, panic, client>>

Yield(c, f) ==
    /\ Runs(c, f, "user") /\ f \in Incarnations
    /\ YieldPublish(c, f)

YieldSwitch(c, f) ==
    /\ Runs(c, f, "yielding")
    /\ LeaveStack(c, f, InYield, "yielded")

FinishCurrent(c, f) ==
    /\ Runs(c, f, "user") /\ f \in Incarnations
    /\ LET s == current_threads[c] IN
       IF s = None THEN Panic("No current thread even though there should be one")
       ELSE /\ state' = [state EXCEPT ![s] = "DONE"]
            /\ current_threads' = [current_threads EXCEPT ![c] = None]
            /\ pc' = [pc EXCEPT ![f] = "finishing"]
            /\ UNCHANGED <<detached, cpu_affinity, block, context, ready_queue, tls,
                           on, polled, slot, storage, panic, client>>

FinishSwitch(c, f) ==
    /\ Runs(c, f, "finishing")
    /\ LeaveStack(c, f, InFinish, "finished")

-----------------------------------------------------------------------------
(* idle_poll, called from ap_main's loop and, when the BSP is alone, from   *)
(* join.  The rotation of the ready queue takes the first thread this CPU   *)
(* may run and leaves the others in their order.                            *)

Eligible(c, k) == cpu_affinity[ready_queue[k]] \in {ANY_CPU, c}
RemoveAt_Head(q, k) == SubSeq(q, 2, Len(q))
RemoveAt(q, k) == SubSeq(q, 1, k - 1) \o SubSeq(q, k + 1, Len(q))

CallsIdlePoll_ApsOnly(c) == Runs(c, c, "idle")
CallsIdlePoll(c) ==
    \/ Runs(c, c, "idle")
    \/ /\ c = BSP
       /\ Runs(c, c, "join")
       /\ state[slot[c]] # "DONE"
       /\ current_threads[join_cpu[c]] = None
       /\ Cardinality(CPUs) <= 1

\* pc "claimed" of a boot flow: the slot is popped but its state is still READY.
IdlePollClaim(c) ==
    /\ CallsIdlePoll(c)
    /\ \E k \in 1 .. Len(ready_queue) :
         /\ Eligible(c, k)
         /\ \A j \in 1 .. k - 1 : ~Eligible(c, j)
         /\ polled' = [polled EXCEPT ![c] = ready_queue[k]]
         /\ ready_queue' = RemoveAt(ready_queue, k)
    /\ pc' = [pc EXCEPT ![c] = "claimed"]
    /\ UNCHANGED <<threads, current_threads, tls, on, slot, storage, panic, client>>

(* ap_main: nothing to run, so hlt until the periodic LAPIC timer fires.     *)
IdleHalt(c) ==
    /\ Runs(c, c, "idle")
    /\ \A k \in 1 .. Len(ready_queue) : ~Eligible(c, k)
    /\ pc' = [pc EXCEPT ![c] = "hlt"]
    /\ UNCHANGED <<threads, ready_queue, current_threads, tls, on, polled, slot,
                   storage, panic, client>>

TimerTick_NeverStarted(c) == FALSE

TimerTick(c) ==
    /\ Runs(c, c, "hlt")
    /\ pc' = [pc EXCEPT ![c] = "idle"]
    /\ UNCHANGED <<threads, ready_queue, current_threads, tls, on, polled, slot,
                   storage, panic, client>>

IdlePollSwitch(c) ==
    LET s == polled[c]
        next == context[s]
    IN
    /\ Runs(c, c, "claimed")
    /\ IF state[s] # "READY" THEN Panic("Dequeued thread is not ready")
       ELSE IF next.rip = InFinish THEN Panic("Finished thread resumed")
       ELSE /\ state' = [state EXCEPT ![s] = "RUNNING"]
            /\ current_threads' = [current_threads EXCEPT ![c] = s]
            /\ ActivateTls(c, block[s])
            /\ on' = [on EXCEPT ![c] = next.flow]
            /\ pc' = [pc EXCEPT ![c] = "switched",
                                ![next.flow] = IF next.rip = Entry THEN "user"
                                               ELSE AfterYield(next.flow)]
            /\ UNCHANGED <<detached, cpu_affinity, block, context, ready_queue,
                           polled, slot, storage, panic, client>>

IsAbandoned_AnyState(s) == detached[s]
IsAbandoned_Joinable(s) == state[s] = "DONE"
IsAbandoned_Never(s) == FALSE
IsAbandoned(s) == state[s] = "DONE" /\ detached[s]

\* The unlocked test and the one repeated under the lock are one: a thread that
\* is DONE and detached stays so until somebody reclaims it.
IdlePollReturn(c) ==
    /\ Runs(c, c, "returned")
    /\ current_threads' = [current_threads EXCEPT ![c] = None]
    /\ ActivateTls(c, c)
    /\ IF IsAbandoned(polled[c])
       THEN Reclaim(polled[c])
       ELSE UNCHANGED <<threads, storage, panic>>
    /\ polled' = [polled EXCEPT ![c] = None]
    /\ pc' = [pc EXCEPT ![c] = IF c = BSP THEN "join" ELSE "idle"]
    /\ UNCHANGED <<ready_queue, on, slot, client>>

-----------------------------------------------------------------------------
(* detach and join, by the flow that holds the handle.                      *)

Detach(c, f, t) ==
    /\ Runs(c, f, "user") /\ owner[t] = f /\ handle[t] # None
    /\ MayDetach
    /\ LET s == handle[t] IN
       IF state[s] = "FREE" THEN Panic("Thread is already free")
       ELSE IF state[s] = "DONE" THEN Panic("Cannot detach completed thread")
       ELSE IF detached[s] THEN Panic("Thread is already detached")
       ELSE /\ detached' = [detached EXCEPT ![s] = TRUE]
            /\ handle' = [handle EXCEPT ![t] = None]
            /\ UNCHANGED <<state, cpu_affinity, block, context, ready_queue, current_threads,
                           tls, on, pc, polled, slot, target, join_cpu, storage,
                           owner, panic>>

JoinBegin(c, f, t) ==
    /\ Runs(c, f, "user") /\ owner[t] = f /\ handle[t] # None
    /\ slot' = [slot EXCEPT ![f] = handle[t]]
    /\ target' = [target EXCEPT ![f] = t]
    /\ join_cpu' = [join_cpu EXCEPT ![f] = c]
    /\ handle' = [handle EXCEPT ![t] = None]
    /\ pc' = [pc EXCEPT ![f] = "join"]
    /\ UNCHANGED <<threads, ready_queue, current_threads, tls, on, polled, storage,
                   owner, panic>>

\* The loop yields when the CPU it *started* on runs a thread; otherwise it
\* pauses, which changes nothing.
JoinYield(c, f) ==
    /\ Runs(c, f, "join")
    /\ state[slot[f]] # "DONE"
    /\ current_threads[join_cpu[f]] # None
    /\ YieldPublish(c, f)

JoinLeaveLoop(c, f) ==
    /\ Runs(c, f, "join")
    /\ state[slot[f]] = "DONE"
    /\ pc' = [pc EXCEPT ![f] = "join_lock"]
    /\ UNCHANGED <<threads, ready_queue, current_threads, tls, on, polled, slot,
                   storage, panic, client>>

JoinReclaim(c, f) ==
    LET s == slot[f] IN
    /\ Runs(c, f, "join_lock")
    /\ IF state[s] # "DONE" THEN Panic("Thread is not done")
       ELSE IF detached[s] THEN Panic("Cannot join detached thread")
       ELSE /\ Reclaim(s)
            /\ slot' = [slot EXCEPT ![f] = None]
            /\ target' = [target EXCEPT ![f] = None]
            /\ join_cpu' = [join_cpu EXCEPT ![f] = None]
            /\ pc' = [pc EXCEPT ![f] = "user"]
            /\ UNCHANGED <<ready_queue, current_threads, tls, on, polled, handle, owner>>

-----------------------------------------------------------------------------
Client(c, f) ==
    \/ \E t \in Incarnations : CreateThread(c, f, t) \/ Detach(c, f, t) \/ JoinBegin(c, f, t)
    \/ FillThread(c, f)
    \/ EnqueueThread(c, f)
    \/ JoinYield(c, f)
    \/ JoinLeaveLoop(c, f)
    \/ JoinReclaim(c, f)

ThreadExit(c, f) == Yield(c, f) \/ YieldSwitch(c, f) \/ FinishCurrent(c, f) \/ FinishSwitch(c, f)

Idle(c) == IdlePollClaim(c) \/ IdlePollSwitch(c) \/ IdlePollReturn(c) \/ IdleHalt(c) \/ TimerTick(c)

Step(c) == Idle(c) \/ \E f \in Flows : Client(c, f) \/ ThreadExit(c, f)

Next == panic = "none" /\ ~Undefined /\ \E c \in CPUs : Step(c)

Spec == Init /\ [][Next]_vars

(* Fairness.  Interrupts stay enabled in ap_main and in thread code, so no  *)
(* CPU stops for ever; an AP in hlt is woken by its periodic timer.  Thread *)
(* procedures return: a thread that runs again and again finally finishes,  *)
(* and kernel_main is only required to go on inside a call it has made.     *)
InCall(c) == panic = "none" /\ ~Undefined /\ ~Runs(c, BSP, "user") /\ Step(c)
Returns(t) == panic = "none" /\ ~Undefined /\ \E c \in CPUs : FinishCurrent(c, t)

Fairness == /\ \A c \in CPUs : WF_vars(InCall(c))
            /\ \A t \in Incarnations : SF_vars(Returns(t))

FairSpec == Spec /\ Fairness

-----------------------------------------------------------------------------
(* The assertions a run of the kernel can fail, by who is to blame.         *)
SchedulerPanics ==
    {"Ready queue full", "Dequeued thread is not ready",
     "yield without a current thread", "yield of a thread that is not running",
     "No current thread even though there should be one"}
HandlePanics ==
    {"Thread is not done", "Cannot join detached thread",
     "Thread is already free", "Thread is already detached",
     "Buddy allocator: double free"}
OtherPanics ==
    {"Thread table full", "Cannot detach completed thread", "Finished thread resumed"}

Context == [flow : Incarnations \cup {None}, rip : {Entry, InYield, InFinish}]
TypeOK ==
    /\ state \in [Slots -> {"FREE", "READY", "RUNNING", "DONE"}]
    /\ detached \in [Slots -> BOOLEAN]
    /\ cpu_affinity \in [Slots -> CPUs \cup {ANY_CPU}]
    /\ block \in [Slots -> Incarnations \cup {None}]
    /\ context \in [Slots -> Context]
    /\ ready_queue \in Seq(Slots)
    /\ current_threads \in [CPUs -> Slots \cup {None}]
    /\ tls \in [CPUs -> Flows]
    /\ on \in [CPUs -> Flows]
    /\ pc \in [Flows -> {"user", "fill", "enqueue", "join", "join_lock",
                         "idle", "hlt", "claimed", "switched", "returned",
                         "unborn", "yielding", "yielded", "finishing", "finished"}]
    /\ polled \in [CPUs -> Slots \cup {None}]
    /\ slot \in [Flows -> Slots \cup {None}]
    /\ target \in [Flows -> Incarnations \cup {None}]
    /\ join_cpu \in [Flows -> CPUs \cup {None}]
    /\ storage \in [Incarnations -> {"none", "live", "freed"}]
    /\ handle \in [Incarnations -> Slots \cup {None}]
    /\ owner \in [Incarnations -> Flows \cup {None}]
    /\ panic \in {"none"} \cup SchedulerPanics \cup HandlePanics \cup OtherPanics

(* What holds a slot: a position of the ready queue, a CPU that popped it   *)
(* and has not switched yet, a CPU that runs it, or a spawn filling it in.  *)
Queued(k, s) == k \in 1 .. Len(ready_queue) /\ ready_queue[k] = s
Claimed(c, s) == pc[c] = "claimed" /\ polled[c] = s
Current(c, s) == current_threads[c] = s
Building(f, s) == pc[f] \in {"fill", "enqueue"} /\ slot[f] = s

Holders(s) ==
    {<<"queue", k>> : k \in {k \in 1 .. Len(ready_queue) : Queued(k, s)}}
      \cup {<<"claim", c>> : c \in {c \in CPUs : Claimed(c, s)}}
      \cup {<<"run", c>> : c \in {c \in CPUs : Current(c, s)}}
      \cup {<<"spawn", f>> : f \in {f \in Flows : Building(f, s)}}

(* No thread is lost or duplicated by the scheduler: a READY slot sits in   *)
(* the ready queue once, or was popped by exactly one idle_poll, or is      *)
(* being built by exactly one spawn; a RUNNING slot is current on exactly   *)
(* one CPU; FREE and DONE slots are in nobody's hands.                      *)
ExactlyOneHolder ==
    \A s \in Slots :
        /\ state[s] = "READY" =>
             \E h \in Holders(s) : h[1] # "run" /\ Holders(s) = {h}
        /\ state[s] = "RUNNING" => \E c \in CPUs : Holders(s) = {<<"run", c>>}
        /\ state[s] \in {"FREE", "DONE"} => Holders(s) = {}

(* The scheduler's own assertions never fail, whatever its callers do: the  *)
(* ready queue never overflows, a dequeued thread is READY, and code that   *)
(* yields or finishes is the current thread of its CPU.                     *)
NoSchedulerPanic == panic \notin SchedulerPanics

(* Callers that join or detach each handle once never trip over the reuse   *)
(* of slots: the assertions of detach and join about FREE, unfinished and   *)
(* detached threads hold, and no storage is freed twice.                    *)
NoHandlePanic == panic \notin HandlePanics

(* A handle is a bare table index, and slots are reused: still, the thread  *)
(* a join reclaims is the very one its spawn created.                       *)
JoinReclaimsItsThread ==
    [][\A f \in Flows : pc[f] = "join_lock" /\ pc'[f] = "user" =>
                           block[slot[f]] = target[f]]_vars

(* A thread that can still run has its stack: neither join nor idle_poll    *)
(* frees the storage of a queued, popped or running thread.                 *)
RunnableHasStack ==
    \A s \in Slots :
        (\E h \in Holders(s) : h[1] # "spawn") =>
            block[s] # None /\ storage[block[s]] = "live"

(* Code of a thread runs with the TLS block of that thread active, across   *)
(* yields, migrations and reuse of the slot.                                *)
RunsOnOwnTls ==
    \A c \in CPUs : pc[on[c]] \in {"user", "fill", "enqueue", "join", "join_lock"} =>
                       tls[c] = on[c]

(* The smoke test of threads.hh: "thread_local storage is isolated and      *)
(* survives a yield".                                                       *)
TlsIsolated == \A c, d \in CPUs : c # d => tls[c] # tls[d]

(* finish_current: unreachable("Finished thread resumed").                  *)
FinishedNeverResumed == panic # "Finished thread resumed"

(* With the BSP alone nothing races: no assertion fails, no stack is shared. *)
NeverStops == panic = "none" /\ ~Undefined

Stopped == panic # "none" \/ Undefined

(* join returns: whoever joins a thread, that thread is run to its end and  *)
(* reclaimed.                                                               *)
JoinTerminates ==
    \A t \in Incarnations :
        (\E f \in Flows : pc[f] = "join" /\ target[f] = t) ~> (storage[t] = "freed" \/ Stopped)

(* The same for kernel_main alone: with no AP its join must run the work.   *)
MainJoinTerminates ==
    \A t \in Incarnations :
        (pc[BSP] = "join" /\ target[BSP] = t) ~> (storage[t] = "freed" \/ Stopped)

(* A detached thread does not leak: its CPU reclaims it when it finishes.   *)
DetachedIsReclaimed ==
    \A s \in Slots : detached[s] ~> (state[s] = "FREE" \/ Stopped)

-----------------------------------------------------------------------------
Life(t) == IF storage[t] = "live" /\ pc[t] \in {"finishing", "finished"} THEN "returned"
           ELSE storage[t]

Lifecycle == INSTANCE ThreadLifecycle WITH life <- [t \in Incarnations |-> Life(t)]

(* Every spawned thread runs through spawn, return, reclaim in this order   *)
(* and once: the table, the queue and the context switches implement        *)
(* ThreadLifecycle.                                                         *)
ImplementsLifecycle == Lifecycle!Spec
=============================================================================
