---------------------------- MODULE ThreadsProofs ----------------------------
(***************************************************************************)
(* IInv is an inductive invariant of Threads, for every number of CPUs,     *)
(* slots and threads; the safety properties of Threads follow from it.      *)
(***************************************************************************)
EXTENDS ThreadsInv, FiniteSetTheorems, SequenceTheorems, TLAPS

(* Appending to the ready queue (Ring_Buffer::push_back).                   *)
LEMMA AppendFacts ==
    ASSUME NEW q \in Seq(Slots), NEW s \in Slots
    PROVE  /\ Append(q, s) \in Seq(Slots)
           /\ Len(q) \in Nat
           /\ Len(Append(q, s)) = Len(q) + 1
           /\ \A i \in 1 .. Len(q) : q[i] \in Slots /\ Append(q, s)[i] = q[i]
           /\ Append(q, s)[Len(q) + 1] = s
BY AppendProperties

(* What the rotation of idle_poll leaves: the other elements, in order.     *)
LEMMA RemoveAtFacts ==
    ASSUME NEW q \in Seq(Slots), NEW k \in 1 .. Len(q)
    PROVE  /\ RemoveAt(q, k) \in Seq(Slots)
           /\ Len(q) \in Nat
           /\ Len(RemoveAt(q, k)) = Len(q) - 1
           /\ \A i \in 1 .. Len(q) - 1 : RemoveAt(q, k)[i] = IF i < k THEN q[i] ELSE q[i + 1]
<1> DEFINE a == SubSeq(q, 1, k - 1)
           b == SubSeq(q, k + 1, Len(q))
<1>1. Len(q) \in Nat /\ \A i \in 1 .. Len(q) : q[i] \in Slots
  BY LenProperties, ElementOfSeq
<1>2. a \in Seq(Slots) /\ Len(a) = k - 1 /\ \A i \in 1 .. k - 1 : a[i] = q[i]
  BY <1>1
<1>3. b \in Seq(Slots) /\ Len(b) = Len(q) - k /\ \A i \in 1 .. Len(q) - k : b[i] = q[k + i]
  BY <1>1
<1> HIDE DEF a, b
<1>4. a \o b \in Seq(Slots) /\ Len(a \o b) = Len(q) - 1
  <2>1. a \o b \in Seq(Slots) /\ Len(a \o b) = Len(a) + Len(b)
    BY <1>2, <1>3, ConcatProperties
  <2> QED
    BY <2>1, <1>1, <1>2, <1>3
<1>5. \A i \in 1 .. Len(q) - 1 : (a \o b)[i] = IF i < k THEN q[i] ELSE q[i + 1]
  <2> SUFFICES ASSUME NEW i \in 1 .. Len(q) - 1
               PROVE  (a \o b)[i] = IF i < k THEN q[i] ELSE q[i + 1]
    OBVIOUS
  <2>1. (a \o b)[i] = IF i <= Len(a) THEN a[i] ELSE b[i - Len(a)]
    BY <1>1, <1>2, <1>3, ConcatProperties
  <2> QED
    BY <2>1, <1>1, <1>2, <1>3
<1> QED
  BY <1>1, <1>4, <1>5 DEF RemoveAt, a, b

(* The ready queue has room for a slot that is not in it: it holds distinct *)
(* slots and has as many places as there are slots.                         *)
LEMMA NotFull ==
    ASSUME TypeOK, QueueInv, NEW s \in Slots,
           \A i \in 1 .. Len(ready_queue) : ready_queue[i] # s
    PROVE  ~Full
<1> DEFINE n == Len(ready_queue)
           f == [i \in 1 .. n |-> ready_queue[i]]
<1>1. n \in Nat /\ \A i \in 1 .. n : ready_queue[i] \in Slots
  BY ElementOfSeq, LenProperties DEF TypeOK
<1>2. IsFiniteSet(Slots) /\ Cardinality(Slots) = THREAD_MAX_COUNT
  <2>1. 0 \in Int /\ THREAD_MAX_COUNT - 1 \in Int /\ ~(0 > THREAD_MAX_COUNT - 1)
    BY SizeAssumption
  <2>2. Cardinality(0 .. THREAD_MAX_COUNT - 1) = (THREAD_MAX_COUNT - 1) - 0 + 1
    BY <2>1, FS_Interval
  <2> QED
    BY <2>1, <2>2, FS_Interval, SizeAssumption DEF Slots
<1>3. IsFiniteSet(Slots \ {s}) /\ Cardinality(Slots \ {s}) = THREAD_MAX_COUNT - 1
  BY <1>2, FS_RemoveElement, SizeAssumption
<1>4. IsFiniteSet(1 .. n) /\ Cardinality(1 .. n) = n
  <2>0. 1 \in Int /\ n \in Int
    BY <1>1
  <2> HIDE DEF n
  <2>1. Cardinality(1 .. n) = IF 1 > n THEN 0 ELSE n - 1 + 1
    BY ONLY <2>0, FS_Interval, Zenon
  <2>2. IsFiniteSet(1 .. n)
    BY ONLY <2>0, FS_Interval, Zenon
  <2> QED
    BY <2>1, <2>2, <1>1
<1>5. SUFFICES ASSUME Full PROVE FALSE
  OBVIOUS
<1>6. f \in [1 .. n -> Slots \ {s}]
  BY <1>1
<1> HIDE DEF f
<1>7. Cardinality(Slots \ {s}) < Cardinality(1 .. n)
  BY <1>3, <1>4, <1>5, SizeAssumption DEF Full
<1> HIDE DEF n
<1>8. \E x, y \in 1 .. n : x # y /\ f[x] = f[y]
  <2> DEFINE D == 1 .. n
             T == Slots \ {s}
  <2>1. IsFiniteSet(D) /\ IsFiniteSet(T) /\ Cardinality(T) < Cardinality(D) /\ f \in [D -> T]
    BY <1>3, <1>4, <1>6, <1>7
  <2> HIDE DEF D, T
  <2>2. \E x, y \in D : x # y /\ f[x] = f[y]
    BY <2>1, FS_PigeonHole
  <2> QED
    BY <2>2 DEF D
<1> QED
  BY <1>8 DEF QueueInv, f, n

-----------------------------------------------------------------------------
(* The state kernel_main starts the threads from satisfies the inductive invariant. *)
THEOREM InitIInv == Init => IInv
<1> SUFFICES ASSUME Init PROVE IInv
  OBVIOUS
<1> USE CpuAssumption, DisjointAssumption, SizeAssumption DEF Init, NoContext, Flows
<1>1. TypeOK
  BY DEF TypeOK, Context
<1>2. CpuInv
  BY DEF CpuInv, InThread, BootOnly
<1>3. QueueInv /\ HeldInv /\ NotLost
  BY DEF QueueInv, HeldInv, NotLost, IsBuilding
<1>4. StorageInv
  BY DEF StorageInv, Entry, InFinish
<1>5. RunInv /\ SaveInv
  BY DEF RunInv, SaveInv, SlotRun, CpuRun, BootOnly, InThread, OffCpu
<1>6. HandleInv
  BY DEF HandleInv, PhaseInv, TargetInv, OpenInv, IsBuilding, IsJoining
<1>7. PanicInv
  BY DEF PanicInv, NoSchedulerPanic, NoHandlePanic, SchedulerPanics, HandlePanics
<1> QED
  BY <1>1, <1>2, <1>3, <1>4, <1>5, <1>6, <1>7 DEF IInv

(* A caller's assertion that fails stops the kernel and changes nothing.    *)
LEMMA CallerPanic ==
    ASSUME IInv, NEW m \in OtherPanics, Panic(m)
    PROVE  IInv'
<1> USE DEF Panic, client, threads
<1>1. TypeOK' /\ CpuInv' /\ QueueInv' /\ HeldInv' /\ NotLost' /\ StorageInv'
  BY DEF IInv, TypeOK, CpuInv, QueueInv, HeldInv, NotLost, StorageInv, IsBuilding
<1>2. Undefined' \/ (RunInv' /\ SaveInv' /\ HandleInv')
  BY DEF IInv, Undefined, RunInv, SaveInv, SlotRun, CpuRun, HandleInv, PhaseInv, TargetInv, OpenInv, IsBuilding, IsJoining
<1>3. PanicInv'
  BY DEF PanicInv, NoSchedulerPanic, NoHandlePanic, SchedulerPanics, HandlePanics, OtherPanics
<1> QED
  BY <1>1, <1>2, <1>3 DEF IInv

(* A step starts in a state whose future is defined.                        *)
LEMMA Defined ==
    ASSUME IInv, ~Undefined
    PROVE  /\ TypeOK /\ CpuInv /\ QueueInv /\ HeldInv /\ NotLost /\ StorageInv
           /\ RunInv /\ SaveInv /\ HandleInv /\ PanicInv
BY DEF IInv

(* Steps that neither switch stacks nor touch a saved context.              *)
LEMMA SaveKept ==
    ASSUME SaveInv, TypeOK, UNCHANGED <<on, block, context>>,
           \A t \in Incarnations :
               /\ pc'[t] = "yielding" => pc[t] = "yielding" \/ \E c \in CPUs : on[c] = t
               /\ pc'[t] = "yielded" => pc[t] = "yielded"
    PROVE  SaveInv'
<1>1. \A s \in Slots : block[s] # None => block[s] \in Incarnations
  BY DEF TypeOK
<1> QED
  BY <1>1 DEF SaveInv

(* create_thread's critical section keeps the invariant.                    *)
LEMMA CreateThreadStep ==
    ASSUME IInv, panic = "none", ~Undefined,
           NEW c \in CPUs, NEW f \in Flows, NEW t \in Incarnations, CreateThread(c, f, t)
    PROVE  IInv'
<1>0. CASE FreeSlots = {}
  BY <1>0, CallerPanic DEF CreateThread, OtherPanics
<1>1. CASE FreeSlots # {}
  <2> USE Defined, DisjointAssumption
  <2>1. ~Full
    <3>1. PICK s \in Slots : state[s] = "FREE"
      BY <1>1 DEF FreeSlots
    <3>2. \A i \in 1 .. Len(ready_queue) : ready_queue[i] # s
      BY <3>1 DEF QueueInv
    <3> QED
      BY <3>1, <3>2, NotFull
  <2>2. PICK s \in FreeSlots :
              /\ state' = [state EXCEPT ![s] = "READY"]
              /\ storage' = [storage EXCEPT ![t] = "live"]
              /\ slot' = [slot EXCEPT ![f] = s]
              /\ target' = [target EXCEPT ![f] = t]
              /\ pc' = [pc EXCEPT ![f] = "fill"]
              /\ UNCHANGED <<detached, cpu_affinity, block, context, ready_queue,
                             current_threads, tls, on, polled, join_cpu, handle,
                             owner, panic>>
    BY <1>1, <2>1 DEF CreateThread
  <2>3. s \in Slots /\ state[s] = "FREE" /\ block[s] = None /\ ~detached[s]
    BY DEF FreeSlots, StorageInv
  <2>4. on[c] = f /\ pc[f] = "user" /\ storage[t] = "none" /\ pc[t] = "unborn" /\ handle[t] = None
        /\ target[f] = None
    BY DEF CreateThread, Runs, StorageInv, HandleInv, PhaseInv
  <2>5. TypeOK'
    BY <2>2, <2>3, <2>4 DEF TypeOK
  <2>6. CpuInv'
    BY <2>2, <2>3, <2>4 DEF CpuInv, TypeOK, InThread, BootOnly, Flows
  <2>7. QueueInv'
    BY <2>2, <2>3, <2>4 DEF QueueInv, TypeOK
  <2>8. HeldInv'
    BY <2>2, <2>3, <2>4 DEF HeldInv, QueueInv, TypeOK, IsBuilding, CpuInv
  <2>9. NotLost'
    <3> SUFFICES ASSUME NEW x \in Slots
                 PROVE  /\ state'[x] = "READY" =>
                             \/ \E i \in 1 .. Len(ready_queue) : ready_queue[i] = x
                             \/ \E d \in CPUs : pc'[d] = "claimed" /\ polled[d] = x
                             \/ \E g \in Flows : IsBuilding(g)' /\ slot'[g] = x
                        /\ state'[x] = "RUNNING" => \E d \in CPUs : current_threads[d] = x
      BY <2>2 DEF NotLost
    <3>1. IsBuilding(f)' /\ slot'[f] = s
      BY <2>2 DEF IsBuilding, TypeOK
    <3>2. \A d \in CPUs : pc[d] = "claimed" => pc'[d] = "claimed"
      BY <2>2, <2>4 DEF TypeOK, Flows
    <3>3. \A g \in Flows : IsBuilding(g) => IsBuilding(g)' /\ slot'[g] = slot[g]
      BY <2>2, <2>4 DEF IsBuilding, TypeOK
    <3> QED
      BY <2>2, <2>3, <3>1, <3>2, <3>3 DEF NotLost, TypeOK
  <2>10. StorageInv'
    <3>1. \A g \in Flows : pc[g] = "fill" => pc'[g] = "fill" /\ slot'[g] = slot[g]
      BY <2>2, <2>4 DEF TypeOK
    <3>2. \A x \in Slots : block[x] # t
      BY <2>4 DEF StorageInv, Flows
    <3>3. \A x \in Slots : block'[x] = None =>
             state'[x] = "FREE" \/ \E g \in Flows : pc'[g] = "fill" /\ slot'[g] = x
      BY <2>2, <2>3, <3>1 DEF StorageInv, TypeOK
    <3>4. \A x \in Slots : block[x] # None => block[x] \in Incarnations /\ storage'[block[x]] = "live"
      BY <2>2, <3>2 DEF StorageInv, TypeOK
    <3>5. \A u \in Incarnations : storage'[u] = "none" => pc'[u] = "unborn" /\ handle[u] = None
      BY <2>2, <2>4 DEF StorageInv, TypeOK, Flows
    <3>6. \A x \in Slots : state'[x] = "FREE" => block[x] = None /\ ~detached[x]
      BY <2>2 DEF StorageInv, TypeOK
    <3> QED
      BY <2>2, <3>3, <3>4, <3>5, <3>6 DEF StorageInv
  <2>s. SaveInv'
    BY <2>2, SaveKept DEF TypeOK, Flows
  <2>11. RunInv'
    BY <2>2, <2>3, <2>4 DEF RunInv, SlotRun, CpuRun, TypeOK, Flows, InThread, BootOnly, OffCpu, CpuInv
  <2>12. HandleInv'
    <3>1. \A x \in Slots : block[x] # t
      BY <2>4 DEF StorageInv, Flows
    <3>2. \A g \in Flows : PhaseInv(g)'
      BY <2>2, <2>4 DEF HandleInv, PhaseInv, IsBuilding, IsJoining, TypeOK, Flows
    <3>3. \A g \in Flows : target[g] # t
      BY <2>4 DEF HandleInv, TargetInv, Flows
    <3>4. TargetInv(f)'
      BY <2>2, <2>3, <2>4, <3>1, <3>3 DEF TargetInv, IsBuilding, IsJoining, TypeOK, Flows
    <3>5. ASSUME NEW g \in Flows \ {f} PROVE TargetInv(g)'
      <4>1. TargetInv(g)
        BY DEF HandleInv
      <4> QED
        BY <4>1, <2>2, <2>3, <2>4, <3>3 DEF TargetInv, IsBuilding, IsJoining, TypeOK, Flows
    <3>6. \A u \in Incarnations : OpenInv(u)'
      BY <2>2 DEF HandleInv, OpenInv
    <3> QED
      BY <3>2, <3>4, <3>5, <3>6 DEF HandleInv
  <2>13. PanicInv'
    BY <2>2 DEF PanicInv, NoSchedulerPanic, NoHandlePanic
  <2> QED
    BY <2>s, <2>5, <2>6, <2>7, <2>8, <2>9, <2>10, <2>11, <2>12, <2>13 DEF IInv
<1> QED
  BY <1>0, <1>1

(* So does its unlocked rest: the slot is this spawn's alone.               *)
LEMMA FillThreadStep ==
    ASSUME IInv, panic = "none", ~Undefined,
           NEW c \in CPUs, NEW f \in Flows, FillThread(c, f)
    PROVE  IInv'
<1> USE Defined, DisjointAssumption
<1> DEFINE s == slot[f]
           t == target[f]
<1>1. /\ on[c] = f /\ pc[f] = "fill"
      /\ s \in Slots /\ state[s] = "READY" /\ block[s] = None /\ ~detached[s]
      /\ t \in Incarnations /\ storage[t] = "live" /\ handle[t] = None /\ pc[t] = "unborn"
      /\ \A x \in Slots : block[x] # t
      /\ f # t
  BY DEF FillThread, Runs, HandleInv, PhaseInv, TargetInv, HeldInv, IsBuilding, TypeOK
<1>2. /\ block' = [block EXCEPT ![s] = t]
      /\ context' = [context EXCEPT ![s] = [flow |-> t, rip |-> Entry]]
      /\ pc' = [pc EXCEPT ![f] = "enqueue"]
      /\ UNCHANGED <<state, detached, ready_queue, current_threads, tls, on, polled,
                     slot, storage, panic, target, join_cpu, handle, owner>>
  BY DEF FillThread, client
<1>3. cpu_affinity' \in [Slots -> CPUs \cup {ANY_CPU}]
  BY ClientAssumption DEF FillThread, TypeOK
<1> HIDE DEF s, t
<1>4. TypeOK'
  <2>1. [flow |-> t, rip |-> Entry] \in Context
    BY <1>1 DEF Context
  <2> QED
    BY <1>1, <1>2, <1>3, <2>1 DEF TypeOK
<1>5. CpuInv'
  BY <1>1, <1>2 DEF CpuInv, TypeOK, InThread, BootOnly, Flows
<1>6. QueueInv'
  BY <1>2 DEF QueueInv
<1>7. HeldInv'
  BY <1>1, <1>2 DEF HeldInv, TypeOK, IsBuilding, Flows
<1>8. NotLost'
  <2>1. \A g \in Flows : IsBuilding(g)' <=> IsBuilding(g)
    BY <1>1, <1>2 DEF IsBuilding, TypeOK
  <2>2. \A d \in CPUs : pc'[d] = "claimed" <=> pc[d] = "claimed"
    BY <1>1, <1>2 DEF TypeOK, Flows
  <2> QED
    BY <1>2, <2>1, <2>2 DEF NotLost
<1>9. StorageInv'
  <2>1. \A x \in Slots : block'[x] = None =>
             state[x] = "FREE" \/ \E g \in Flows : pc'[g] = "fill" /\ slot[g] = x
    BY <1>1, <1>2 DEF StorageInv, TypeOK, Flows, s
  <2>2. \A x \in Slots : block'[x] # None =>
             /\ storage[block'[x]] = "live"
             /\ context'[x].rip # InFinish => context'[x].flow = block'[x]
    BY <1>1, <1>2 DEF StorageInv, TypeOK
  <2>3. \A x, y \in Slots : x # y /\ block'[x] # None => block'[x] # block'[y]
    BY <1>1, <1>2 DEF StorageInv, TypeOK
  <2> QED
    BY <1>1, <1>2, <2>1, <2>2, <2>3 DEF StorageInv, TypeOK, Flows
<1>s. SaveInv'
  <2>1. \A x \in Slots : block'[x] # None =>
          \/ x = s /\ block'[x] = t
          \/ x # s /\ block'[x] = block[x] /\ context'[x] = context[x]
    BY <1>1, <1>2 DEF TypeOK
  <2>2. \A u \in Incarnations : (pc'[u] = "yielding" <=> pc[u] = "yielding") /\ (pc'[u] = "yielded" <=> pc[u] = "yielded")
    BY <1>1, <1>2 DEF TypeOK, Flows
  <2>3. \A x \in Slots : block[x] # None => block[x] \in Incarnations
    BY DEF TypeOK
  <2> QED
    BY <1>1, <1>2, <2>1, <2>2, <2>3 DEF SaveInv
<1>10. RunInv'
  <2>1. \A x \in Slots : SlotRun(x)'
    BY <1>1, <1>2 DEF RunInv, SlotRun, TypeOK, Flows, InThread
  <2>2. \A d \in CPUs : CpuRun(d)'
    BY <1>1, <1>2 DEF RunInv, CpuRun, TypeOK, Flows, InThread, OffCpu, CpuInv, HeldInv, Undefined
  <2> QED
    BY <1>1, <1>2, <2>1, <2>2 DEF RunInv, BootOnly, TypeOK, Flows
<1>11. HandleInv'
  <2>1. \A g \in Flows : PhaseInv(g)'
    BY <1>1, <1>2 DEF HandleInv, PhaseInv, IsBuilding, IsJoining, TypeOK, Flows
  <2>2. TargetInv(f)'
    <3>1. TargetInv(f)
      BY DEF HandleInv
    <3> QED
      BY <1>1, <1>2, <3>1 DEF TargetInv, IsBuilding, IsJoining, TypeOK, Flows, s, t
  <2>3. ASSUME NEW g \in Flows \ {f} PROVE TargetInv(g)'
    <3>1. TargetInv(g) /\ (IsBuilding(g) => slot[g] # s) /\ target[g] # t
      BY <1>1 DEF HandleInv, HeldInv, IsBuilding, TargetInv, Flows, s, t
    <3> QED
      BY <3>1, <1>1, <1>2 DEF TargetInv, IsBuilding, IsJoining, TypeOK, Flows
  <2>4. \A u \in Incarnations : OpenInv(u)'
    <3>1. \A u \in Incarnations : handle[u] # None => handle[u] \in Slots /\ handle[u] # s
      BY <1>1 DEF HandleInv, OpenInv, TypeOK, Flows
    <3> QED
      BY <1>1, <1>2, <3>1 DEF HandleInv, OpenInv, TypeOK
  <2> QED
    BY <2>1, <2>2, <2>3, <2>4 DEF HandleInv
<1>12. PanicInv'
  BY <1>2 DEF PanicInv, NoSchedulerPanic, NoHandlePanic
<1> QED
  BY <1>s, <1>4, <1>5, <1>6, <1>7, <1>8, <1>9, <1>10, <1>11, <1>12 DEF IInv

(* enqueue_thread hands the slot from the spawn to the ready queue.         *)
LEMMA EnqueueThreadStep ==
    ASSUME IInv, panic = "none", ~Undefined,
           NEW c \in CPUs, NEW f \in Flows, EnqueueThread(c, f)
    PROVE  IInv'
<1> USE Defined, DisjointAssumption
<1> DEFINE s == slot[f]
           t == target[f]
           n == Len(ready_queue)
<1>1. /\ on[c] = f /\ pc[f] = "enqueue"
      /\ s \in Slots /\ state[s] = "READY" /\ block[s] = t /\ ~detached[s]
      /\ t \in Incarnations /\ storage[t] = "live" /\ handle[t] = None /\ pc[t] = "unborn"
      /\ f # t
      /\ \A i \in 1 .. Len(ready_queue) : ready_queue[i] # s
  <2>1. on[c] = f /\ pc[f] = "enqueue"
    BY DEF EnqueueThread, Runs
  <2>2. TargetInv(f) /\ t # None /\ t \in Incarnations
    BY <2>1 DEF HandleInv, PhaseInv, TypeOK
  <2>3. state[s] = "READY" /\ \A i \in 1 .. Len(ready_queue) : ready_queue[i] # s
    BY <2>1 DEF HeldInv, IsBuilding
  <2> QED
    BY <2>1, <2>2, <2>3 DEF TargetInv, IsBuilding
<1>2. ~Full
  BY <1>1, NotFull
<1>3. /\ ready_queue' = Append(ready_queue, s)
      /\ handle' = [handle EXCEPT ![t] = s]
      /\ owner' = [owner EXCEPT ![t] = f]
      /\ slot' = [slot EXCEPT ![f] = None]
      /\ target' = [target EXCEPT ![f] = None]
      /\ pc' = [pc EXCEPT ![f] = "user"]
      /\ UNCHANGED <<state, detached, cpu_affinity, block, context, current_threads,
                     tls, on, polled, join_cpu, storage, panic>>
  BY <1>2 DEF EnqueueThread, threads
<1>4. /\ ready_queue' \in Seq(Slots) /\ n \in Nat /\ Len(ready_queue') = n + 1
      /\ \A i \in 1 .. n : ready_queue'[i] = ready_queue[i]
      /\ ready_queue'[n + 1] = s
  BY <1>1, <1>3, AppendFacts DEF TypeOK
<1> HIDE DEF s, t
<1>5. /\ UNCHANGED <<state, detached, cpu_affinity, block, context, current_threads,
                     tls, on, polled, join_cpu, storage, panic>>
      /\ handle' = [handle EXCEPT ![t] = s]
      /\ owner' = [owner EXCEPT ![t] = f]
      /\ slot' = [slot EXCEPT ![f] = None]
      /\ target' = [target EXCEPT ![f] = None]
      /\ pc' = [pc EXCEPT ![f] = "user"]
  BY <1>3
<1>6. TypeOK'
  BY <1>1, <1>4, <1>5 DEF TypeOK
<1>7. CpuInv'
  BY <1>1, <1>5 DEF CpuInv, TypeOK, InThread, BootOnly, Flows
<1>8. QueueInv'
  <2> HIDE DEF n
  <2>1. \A i \in 1 .. n + 1 : i \in 1 .. n \/ i = n + 1
    BY <1>4
  <2>2. \A i, j \in 1 .. n : ready_queue[i] = ready_queue[j] => i = j
    BY DEF QueueInv, n
  <2>3. \A i \in 1 .. n : state[ready_queue[i]] = "READY" /\ ready_queue[i] # s
    BY <1>1 DEF QueueInv, n
  <2>4. \A i, j \in 1 .. n + 1 : ready_queue'[i] = ready_queue'[j] => i = j
    BY <1>4, <2>1, <2>2, <2>3
  <2>5. \A i \in 1 .. n + 1 : state'[ready_queue'[i]] = "READY"
    BY <1>1, <1>4, <1>5, <2>1, <2>3
  <2> QED
    BY <1>4, <2>4, <2>5 DEF QueueInv
<1>9. HeldInv'
  <2>1. \A g \in Flows : IsBuilding(g)' <=> IsBuilding(g) /\ g # f
    BY <1>1, <1>5 DEF IsBuilding, TypeOK
  <2>2. \A g \in Flows : IsBuilding(g) /\ g # f => slot'[g] = slot[g] /\ slot[g] # s
    BY <1>1, <1>5 DEF HeldInv, IsBuilding, TypeOK, s
  <2>3. \A d \in CPUs : pc'[d] = "claimed" <=> pc[d] = "claimed"
    BY <1>1, <1>5 DEF TypeOK, Flows
  <2>4. \A d \in CPUs : pc[d] = "claimed" => polled[d] # s
    BY <1>1 DEF HeldInv, IsBuilding, s
  <2>5. \A i \in 1 .. n + 1 : ready_queue'[i] = s \/ (i \in 1 .. n /\ ready_queue'[i] = ready_queue[i])
    BY <1>4
  <2> QED
    BY <1>4, <1>5, <2>1, <2>2, <2>3, <2>4, <2>5 DEF HeldInv, n
<1>10. NotLost'
  <2>1. \A g \in Flows : IsBuilding(g) /\ slot[g] # s => IsBuilding(g)' /\ slot'[g] = slot[g]
    BY <1>1, <1>5 DEF IsBuilding, TypeOK, s
  <2>2. \A d \in CPUs : pc[d] = "claimed" => pc'[d] = "claimed"
    BY <1>1, <1>5 DEF TypeOK, Flows
  <2>3. \A x \in Slots : (\E i \in 1 .. n : ready_queue[i] = x) =>
                            \E i \in 1 .. n + 1 : ready_queue'[i] = x
    BY <1>4
  <2>4. \E i \in 1 .. n + 1 : ready_queue'[i] = s
    BY <1>4
  <2> SUFFICES ASSUME NEW x \in Slots, state[x] = "READY" \/ state[x] = "RUNNING"
               PROVE  /\ state[x] = "READY" =>
                           \/ \E i \in 1 .. n + 1 : ready_queue'[i] = x
                           \/ \E d \in CPUs : pc'[d] = "claimed" /\ polled[d] = x
                           \/ \E g \in Flows : IsBuilding(g)' /\ slot'[g] = x
                      /\ state[x] = "RUNNING" => \E d \in CPUs : current_threads[d] = x
    BY <1>4, <1>5 DEF NotLost
  <2>5. CASE x = s
    BY <1>1, <2>4, <2>5
  <2>6. CASE x # s
    BY <2>1, <2>2, <2>3, <2>6 DEF NotLost, n
  <2> QED
    BY <2>5, <2>6
<1>11. StorageInv'
  <2>1. \A g \in Flows : pc[g] = "fill" => pc'[g] = "fill" /\ slot'[g] = slot[g]
    BY <1>1, <1>5 DEF TypeOK
  <2>2. \A u \in Incarnations : storage[u] = "none" => pc'[u] = "unborn" /\ handle'[u] = None
    BY <1>1, <1>5 DEF StorageInv, TypeOK, Flows
  <2> QED
    BY <1>5, <2>1, <2>2 DEF StorageInv
<1>s. SaveInv'
  BY <1>1, <1>5, SaveKept DEF TypeOK, Flows
<1>12. RunInv'
  <2>1. \A x \in Slots : SlotRun(x)'
    BY <1>1, <1>5 DEF RunInv, SlotRun, TypeOK, Flows, InThread
  <2>2. \A d \in CPUs : CpuRun(d)'
    BY <1>1, <1>5 DEF RunInv, CpuRun, TypeOK, Flows, InThread, OffCpu
  <2> QED
    BY <1>1, <1>5, <2>1, <2>2 DEF RunInv, BootOnly, TypeOK, Flows
<1>13. HandleInv'
  <2>1. \A g \in Flows : PhaseInv(g)'
    BY <1>1, <1>5 DEF HandleInv, PhaseInv, IsBuilding, IsJoining, TypeOK, Flows
  <2>2. TargetInv(f)'
    BY <1>5 DEF TargetInv, TypeOK
  <2>3. ASSUME NEW g \in Flows \ {f} PROVE TargetInv(g)'
    <3>1. TargetInv(g) /\ target[g] # t
      BY <1>1 DEF HandleInv, TargetInv, Flows, t
    <3> QED
      BY <3>1, <1>1, <1>5 DEF TargetInv, IsBuilding, IsJoining, TypeOK, Flows
  <2>4. \A u \in Incarnations : OpenInv(u)'
    BY <1>1, <1>5 DEF HandleInv, OpenInv, TypeOK
  <2> QED
    BY <2>1, <2>2, <2>3, <2>4 DEF HandleInv
<1>14. PanicInv'
  BY <1>5 DEF PanicInv, NoSchedulerPanic, NoHandlePanic
<1> QED
  BY <1>s, <1>6, <1>7, <1>8, <1>9, <1>10, <1>11, <1>12, <1>13, <1>14 DEF IInv

(* A CPU that executes a thread's own code has that thread as its current   *)
(* one, and no other CPU is on the thread's stack.                          *)
LEMMA OnThread ==
    ASSUME IInv, ~Undefined, NEW c \in CPUs, NEW f \in Incarnations, on[c] = f, pc[f] \in InThread
    PROVE  /\ current_threads[c] \in Slots /\ polled[c] = current_threads[c]
           /\ state[current_threads[c]] = "RUNNING"
           /\ block[current_threads[c]] = f
           /\ \A x \in Slots \ {current_threads[c]} : block[x] # f
           /\ f # c /\ pc[c] = "switched"
           /\ \A d \in CPUs \ {c} : on[d] # f /\ current_threads[d] # current_threads[c]
           /\ \A i \in 1 .. Len(ready_queue) : ready_queue[i] # current_threads[c]
<1> USE Defined, DisjointAssumption
<1>1. f # c
  BY DEF Flows
<1>2. current_threads[c] # None /\ block[current_threads[c]] = f
  BY <1>1 DEF RunInv, CpuRun
<1>3. current_threads[c] \in Slots /\ polled[c] = current_threads[c] /\ pc[c] = "switched"
  BY <1>1, <1>2 DEF CpuInv, TypeOK
<1>4. state[current_threads[c]] = "RUNNING" /\ \A d \in CPUs \ {c} : current_threads[d] # current_threads[c]
  BY <1>2 DEF HeldInv
<1>5. \A x \in Slots \ {current_threads[c]} : block[x] # f
  BY <1>2, <1>3 DEF StorageInv, Flows
<1>6. \A d \in CPUs \ {c} : on[d] # f
  BY DEF Undefined
<1>7. \A i \in 1 .. Len(ready_queue) : ready_queue[i] # current_threads[c]
  BY <1>4 DEF QueueInv
<1> QED
  BY <1>1, <1>2, <1>3, <1>4, <1>5, <1>6, <1>7

(* The locked half of yield: the slot goes from the CPU to the queue.       *)
LEMMA YieldPublishStep ==
    ASSUME IInv, panic = "none", ~Undefined,
           NEW c \in CPUs, NEW f \in Incarnations, on[c] = f, pc[f] \in {"user", "join"},
           YieldPublish(c, f)
    PROVE  IInv'
<1> USE Defined, DisjointAssumption
<1> DEFINE s == current_threads[c]
           n == Len(ready_queue)
<1>1. /\ s \in Slots /\ polled[c] = s /\ state[s] = "RUNNING" /\ block[s] = f
      /\ \A x \in Slots \ {s} : block[x] # f
      /\ f # c /\ pc[c] = "switched"
      /\ \A d \in CPUs \ {c} : on[d] # f /\ current_threads[d] # s
      /\ \A i \in 1 .. Len(ready_queue) : ready_queue[i] # s
  BY OnThread DEF InThread
<1>2. ~Full /\ s # None
  BY <1>1, NotFull DEF Flows
<1>3. /\ ready_queue' = Append(ready_queue, s)
      /\ state' = [state EXCEPT ![s] = "READY"]
      /\ current_threads' = [current_threads EXCEPT ![c] = None]
      /\ pc' = [pc EXCEPT ![f] = "yielding"]
      /\ UNCHANGED <<detached, cpu_affinity, block, context, tls, on, polled, slot,
                     storage, panic, target, join_cpu, handle, owner>>
  BY <1>1, <1>2 DEF YieldPublish, client
<1>4. /\ ready_queue' \in Seq(Slots) /\ n \in Nat /\ Len(ready_queue') = n + 1
      /\ \A i \in 1 .. n : ready_queue'[i] = ready_queue[i]
      /\ ready_queue'[n + 1] = s
  BY <1>1, <1>3, AppendFacts DEF TypeOK
<1> HIDE DEF s
<1>5. /\ state' = [state EXCEPT ![s] = "READY"]
      /\ current_threads' = [current_threads EXCEPT ![c] = None]
      /\ pc' = [pc EXCEPT ![f] = "yielding"]
      /\ UNCHANGED <<detached, cpu_affinity, block, context, tls, on, polled, slot,
                     storage, panic, target, join_cpu, handle, owner>>
  BY <1>3
<1>a. /\ \A g \in Flows : IsBuilding(g)' <=> IsBuilding(g)
      /\ \A d \in CPUs : pc'[d] = pc[d]
  BY <1>5 DEF IsBuilding, TypeOK, Flows
<1>6. TypeOK'
  BY <1>1, <1>4, <1>5 DEF TypeOK
<1>7. CpuInv'
  BY <1>1, <1>5, <1>a DEF CpuInv, TypeOK
<1>8. QueueInv'
  <2> HIDE DEF n
  <2>1. \A i \in 1 .. n + 1 : i \in 1 .. n \/ i = n + 1
    BY <1>4
  <2>2. \A i, j \in 1 .. n : ready_queue[i] = ready_queue[j] => i = j
    BY DEF QueueInv, n
  <2>3. \A i \in 1 .. n : ready_queue[i] \in Slots /\ state[ready_queue[i]] = "READY" /\ ready_queue[i] # s
    BY <1>1, ElementOfSeq DEF QueueInv, n, TypeOK
  <2>4. \A i, j \in 1 .. n + 1 : ready_queue'[i] = ready_queue'[j] => i = j
    BY <1>4, <2>1, <2>2, <2>3
  <2>5. \A i \in 1 .. n + 1 : state'[ready_queue'[i]] = "READY"
    BY <1>1, <1>4, <1>5, <2>1, <2>3 DEF TypeOK
  <2> QED
    BY <1>4, <2>4, <2>5 DEF QueueInv
<1>9. HeldInv'
  <2>1. \A d \in CPUs : pc[d] = "claimed" => polled[d] \in Slots /\ polled[d] # s
    BY <1>1 DEF HeldInv, CpuInv
  <2>2. \A g \in Flows : IsBuilding(g) => slot[g] \in Slots /\ slot[g] # s
    BY <1>1 DEF HeldInv
  <2>3. \A i \in 1 .. n + 1 : ready_queue'[i] = s \/ (i \in 1 .. n /\ ready_queue'[i] = ready_queue[i])
    BY <1>4
  <2>4. \A d \in CPUs : pc[d] = "claimed" =>
          /\ state'[polled[d]] = "READY"
          /\ \A i \in 1 .. n + 1 : ready_queue'[i] # polled[d]
    <3>1. \A d \in CPUs : pc[d] = "claimed" => state'[polled[d]] = "READY"
      BY <1>1, <1>5, <2>1 DEF HeldInv, TypeOK
    <3>2. \A d \in CPUs : pc[d] = "claimed" => \A i \in 1 .. n : ready_queue[i] # polled[d]
      BY DEF HeldInv, n
    <3> QED
      BY <2>1, <2>3, <3>1, <3>2
  <2>5. \A g \in Flows : IsBuilding(g) =>
          /\ state'[slot[g]] = "READY"
          /\ \A i \in 1 .. n + 1 : ready_queue'[i] # slot[g]
    <3>1. \A g \in Flows : IsBuilding(g) => state'[slot[g]] = "READY"
      BY <1>1, <1>5, <2>2 DEF HeldInv, TypeOK
    <3>2. \A g \in Flows : IsBuilding(g) => \A i \in 1 .. n : ready_queue[i] # slot[g]
      BY DEF HeldInv, n
    <3> QED
      BY <2>2, <2>3, <3>1, <3>2
  <2>6. \A d \in CPUs : current_threads'[d] # None =>
          /\ state'[current_threads'[d]] = "RUNNING"
          /\ \A e \in CPUs \ {d} : current_threads'[e] # current_threads'[d]
    BY <1>1, <1>5 DEF HeldInv, TypeOK
  <2> HIDE DEF n
  <2> QED
    BY <1>4, <1>5, <1>a, <2>4, <2>5, <2>6 DEF HeldInv
<1>10. NotLost'
  <2>1. \E i \in 1 .. n + 1 : ready_queue'[i] = s
    BY <1>4
  <2>2. \A x \in Slots : (\E i \in 1 .. n : ready_queue[i] = x) =>
                            \E i \in 1 .. n + 1 : ready_queue'[i] = x
    BY <1>4
  <2> SUFFICES ASSUME NEW x \in Slots
               PROVE  /\ state'[x] = "READY" =>
                           \/ \E i \in 1 .. n + 1 : ready_queue'[i] = x
                           \/ \E d \in CPUs : pc[d] = "claimed" /\ polled[d] = x
                           \/ \E g \in Flows : IsBuilding(g) /\ slot[g] = x
                      /\ state'[x] = "RUNNING" => \E d \in CPUs : current_threads'[d] = x
    BY <1>4, <1>5, <1>a DEF NotLost
  <2>3. CASE x = s
    BY <1>1, <1>5, <2>1, <2>3 DEF TypeOK
  <2>4. CASE x # s
    <3>1. state'[x] = state[x]
      BY <1>5, <2>4 DEF TypeOK
    <3>2. state[x] = "RUNNING" => \E d \in CPUs : current_threads'[d] = x
      BY <1>5, <2>4 DEF NotLost, TypeOK, s
    <3> QED
      BY <2>2, <3>1, <3>2 DEF NotLost, n
  <2> QED
    BY <2>3, <2>4
<1>11. StorageInv'
  <2>1. \A g \in Flows : pc'[g] = "fill" <=> pc[g] = "fill"
    BY <1>5 DEF TypeOK
  <2>2. \A u \in Incarnations : storage[u] = "none" => pc'[u] = "unborn" /\ handle[u] = None
    BY <1>5 DEF StorageInv, TypeOK, Flows
  <2>3. \A x \in Slots : state'[x] = "FREE" <=> state[x] = "FREE"
    BY <1>1, <1>5 DEF TypeOK
  <2> QED
    BY <1>5, <2>1, <2>2, <2>3 DEF StorageInv
<1>s. SaveInv'
  BY <1>1, <1>5, SaveKept DEF TypeOK, Flows
<1>12. RunInv'
  <2>1. \A x \in Slots : SlotRun(x)'
    BY <1>1, <1>5 DEF RunInv, SlotRun, TypeOK, Flows
  <2>2. CpuRun(c)'
    BY <1>1, <1>5 DEF CpuRun, TypeOK, InThread, OffCpu, Flows
  <2>3. ASSUME NEW d \in CPUs \ {c} PROVE CpuRun(d)'
    <3>1. CpuRun(d) /\ pc'[on[d]] = pc[on[d]] /\ current_threads'[d] = current_threads[d]
      BY <1>1, <1>5 DEF RunInv, TypeOK
    <3>2. on[d] # d => polled[d] \in Slots
      BY DEF CpuInv
    <3> QED
      BY <1>5, <3>1, <3>2 DEF CpuRun, TypeOK
  <2> QED
    BY <1>5, <2>1, <2>2, <2>3 DEF RunInv, BootOnly, TypeOK, Flows
<1>13. HandleInv'
  <2>1. \A g \in Flows : PhaseInv(g)'
    BY <1>1, <1>5 DEF HandleInv, PhaseInv, IsBuilding, IsJoining, TypeOK, Flows
  <2>2. ASSUME NEW g \in Flows PROVE TargetInv(g)'
    <3>1. TargetInv(g)
      BY DEF HandleInv
    <3>2. target[g] # None => target[g] \in Flows /\ slot[g] \in Slots
      BY <3>1 DEF TargetInv, TypeOK, Flows
    <3> QED
      BY <3>1, <3>2, <1>1, <1>5 DEF TargetInv, IsBuilding, IsJoining, TypeOK, Flows
  <2>3. \A u \in Incarnations : OpenInv(u)'
    BY <1>5 DEF HandleInv, OpenInv
  <2> QED
    BY <2>1, <2>2, <2>3 DEF HandleInv
<1>14. PanicInv'
  BY <1>5 DEF PanicInv, NoSchedulerPanic, NoHandlePanic
<1> QED
  BY <1>s, <1>6, <1>7, <1>8, <1>9, <1>10, <1>11, <1>12, <1>13, <1>14 DEF IInv

(* The locked half of finish_current.                                       *)
LEMMA FinishCurrentStep ==
    ASSUME IInv, panic = "none", ~Undefined,
           NEW c \in CPUs, NEW f \in Flows, FinishCurrent(c, f)
    PROVE  IInv'
<1> USE Defined, DisjointAssumption
<1> DEFINE s == current_threads[c]
<1>0. f \in Incarnations /\ on[c] = f /\ pc[f] = "user"
  BY DEF FinishCurrent, Runs
<1>1. /\ s \in Slots /\ polled[c] = s /\ state[s] = "RUNNING" /\ block[s] = f
      /\ \A x \in Slots \ {s} : block[x] # f
      /\ f # c /\ pc[c] = "switched"
      /\ \A d \in CPUs \ {c} : on[d] # f /\ current_threads[d] # s
  BY <1>0, OnThread DEF InThread
<1>2. s # None
  BY <1>1 DEF Flows
<1>3. /\ state' = [state EXCEPT ![s] = "DONE"]
      /\ current_threads' = [current_threads EXCEPT ![c] = None]
      /\ pc' = [pc EXCEPT ![f] = "finishing"]
      /\ UNCHANGED <<detached, cpu_affinity, block, context, ready_queue, tls,
                     on, polled, slot, storage, panic, target, join_cpu, handle, owner>>
  BY <1>1, <1>2 DEF FinishCurrent, client
<1> HIDE DEF s
<1>a. /\ \A g \in Flows : IsBuilding(g)' <=> IsBuilding(g)
      /\ \A d \in CPUs : pc'[d] = pc[d]
  BY <1>0, <1>3 DEF IsBuilding, TypeOK, Flows
<1>b. \A x \in Slots : state'[x] = IF x = s THEN "DONE" ELSE state[x]
  BY <1>1, <1>3 DEF TypeOK
<1>c. \A i \in 1 .. Len(ready_queue) : ready_queue[i] \in Slots
  BY ElementOfSeq DEF TypeOK
<1>4. TypeOK'
  BY <1>0, <1>1, <1>3 DEF TypeOK
<1>5. CpuInv'
  BY <1>1, <1>3, <1>a DEF CpuInv, TypeOK
<1>6. QueueInv'
  BY <1>1, <1>3, <1>b, <1>c DEF QueueInv
<1>7. HeldInv'
  <2>1. \A d \in CPUs : pc[d] = "claimed" => polled[d] \in Slots /\ state'[polled[d]] = "READY"
    BY <1>1, <1>b DEF HeldInv, CpuInv
  <2>2. \A g \in Flows : IsBuilding(g) => state'[slot[g]] = "READY"
    BY <1>1, <1>b DEF HeldInv
  <2>3. \A d \in CPUs : current_threads'[d] # None =>
          /\ state'[current_threads'[d]] = "RUNNING"
          /\ \A e \in CPUs \ {d} : current_threads'[e] # current_threads'[d]
    BY <1>1, <1>3, <1>b DEF HeldInv, TypeOK
  <2> QED
    BY <1>3, <1>a, <2>1, <2>2, <2>3 DEF HeldInv
<1>8. NotLost'
  <2>1. \A x \in Slots : state'[x] = "RUNNING" => \E d \in CPUs : current_threads'[d] = x
    BY <1>1, <1>3, <1>b DEF NotLost, TypeOK, s
  <2>2. \A x \in Slots : state'[x] = "READY" => state[x] = "READY"
    BY <1>b
  <2> QED
    BY <1>3, <1>a, <2>1, <2>2 DEF NotLost
<1>9. StorageInv'
  <2>1. \A g \in Flows : pc'[g] = "fill" <=> pc[g] = "fill"
    BY <1>0, <1>3 DEF TypeOK
  <2>2. \A u \in Incarnations : storage[u] = "none" => pc'[u] = "unborn" /\ handle[u] = None
    BY <1>0, <1>3 DEF StorageInv, TypeOK, Flows
  <2>3. \A x \in Slots : state'[x] = "FREE" <=> state[x] = "FREE"
    BY <1>1, <1>b
  <2> QED
    BY <1>3, <2>1, <2>2, <2>3 DEF StorageInv
<1>s. SaveInv'
  BY <1>0, <1>3, SaveKept DEF TypeOK, Flows
<1>10. RunInv'
  <2>1. \A x \in Slots : SlotRun(x)'
    BY <1>0, <1>1, <1>3, <1>b DEF RunInv, SlotRun, TypeOK, Flows
  <2>2. CpuRun(c)'
    BY <1>0, <1>1, <1>3 DEF CpuRun, TypeOK, InThread, OffCpu, Flows
  <2>3. ASSUME NEW d \in CPUs \ {c} PROVE CpuRun(d)'
    <3>1. CpuRun(d) /\ pc'[on[d]] = pc[on[d]] /\ current_threads'[d] = current_threads[d]
      BY <1>1, <1>3 DEF RunInv, TypeOK
    <3>2. on[d] # d => polled[d] \in Slots
      BY DEF CpuInv
    <3> QED
      BY <1>1, <1>3, <1>b, <3>1, <3>2 DEF CpuRun
  <2> QED
    BY <1>0, <1>3, <2>1, <2>2, <2>3 DEF RunInv, BootOnly, TypeOK, Flows
<1>11. HandleInv'
  <2>1. \A g \in Flows : PhaseInv(g)'
    BY <1>0, <1>1, <1>3 DEF HandleInv, PhaseInv, IsBuilding, IsJoining, TypeOK, Flows
  <2>2. ASSUME NEW g \in Flows PROVE TargetInv(g)'
    <3>1. TargetInv(g)
      BY DEF HandleInv
    <3>2. target[g] # None => target[g] \in Flows /\ slot[g] \in Slots
      BY <3>1 DEF TargetInv, TypeOK, Flows
    <3> QED
      BY <3>1, <3>2, <1>0, <1>1, <1>3, <1>b DEF TargetInv, IsBuilding, IsJoining, TypeOK, Flows
  <2>3. \A u \in Incarnations : OpenInv(u)'
    BY <1>3 DEF HandleInv, OpenInv
  <2> QED
    BY <2>1, <2>2, <2>3 DEF HandleInv
<1>12. PanicInv'
  BY <1>3 DEF PanicInv, NoSchedulerPanic, NoHandlePanic
<1> QED
  BY <1>s, <1>4, <1>5, <1>6, <1>7, <1>8, <1>9, <1>10, <1>11, <1>12 DEF IInv

(* Leaving a thread's stack, after yield (to = "yielded") or finish_current. *)
LEMMA LeaveStackStep ==
    ASSUME IInv, panic = "none", ~Undefined,
           NEW c \in CPUs, NEW f \in Flows, on[c] = f,
           NEW rip, NEW next,
           \/ rip = InYield /\ pc[f] = "yielding" /\ next = "yielded"
           \/ rip = InFinish /\ pc[f] = "finishing" /\ next = "finished",
           LeaveStack(c, f, rip, next)
    PROVE  IInv'
<1> USE Defined, DisjointAssumption
<1> DEFINE s == polled[c]
<1>0. /\ pc[f] \in {"yielding", "finishing"} /\ next \in {"yielded", "finished"}
      /\ rip \in {InYield, InFinish} /\ (rip = InYield => pc[f] = "yielding")
      /\ pc[f] = "yielding" <=> next = "yielded"
  BY DEF InYield, InFinish
<1>1. /\ f \in Incarnations /\ f # c /\ pc[c] = "switched" /\ s \in Slots
      /\ current_threads[c] = None
      /\ \A d \in CPUs \ {c} : on[d] # f /\ on[d] # c
  <2>1. pc[c] \in InThread \cup BootOnly
    BY DEF CpuInv
  <2>2. f # c
    BY <1>0, <2>1 DEF InThread, BootOnly
  <2>3. f \in Incarnations /\ pc[c] = "switched"
    BY <2>2 DEF CpuInv
  <2>4. s \in Slots
    BY <2>3 DEF CpuInv
  <2>5. current_threads[c] = None
    BY <1>0, <2>2 DEF RunInv, CpuRun, InThread
  <2>6. \A d \in CPUs \ {c} : on[d] # f /\ on[d] # c
    BY DEF Undefined, CpuInv
  <2> QED
    BY <2>2, <2>3, <2>4, <2>5, <2>6
<1>2. rip = InYield => block[s] = f
  BY <1>0, <1>1 DEF RunInv, CpuRun
<1>c. /\ context' = [context EXCEPT ![s] = [flow |-> f, rip |-> rip]]
      /\ pc' = [pc EXCEPT ![f] = next, ![c] = "returned"]
  BY DEF LeaveStack
<1>3. /\ tls' = [tls EXCEPT ![c] = c]
      /\ on' = [on EXCEPT ![c] = c]
      /\ UNCHANGED <<state, detached, cpu_affinity, block, ready_queue, current_threads,
                     polled, slot, storage, panic, target, join_cpu, handle, owner>>
  BY DEF LeaveStack, ActivateTls, client
<1> HIDE DEF s
<1>4. /\ pc'[f] = next
      /\ pc'[c] = "returned"
      /\ \A g \in Flows \ {f, c} : pc'[g] = pc[g]
      /\ DOMAIN pc' = Flows
  <2>1. f \in Flows /\ c \in Flows /\ f # c /\ DOMAIN pc = Flows
    BY <1>1 DEF TypeOK, Flows
  <2> QED
    BY <2>1, <1>c
<1>a. /\ \A g \in Flows : IsBuilding(g)' <=> IsBuilding(g)
      /\ \A d \in CPUs : pc'[d] = "claimed" <=> pc[d] = "claimed"
  BY <1>0, <1>1, <1>4 DEF IsBuilding, Flows
<1>5. TypeOK'
  <2>1. [flow |-> f, rip |-> rip] \in Context
    BY <1>0, <1>1 DEF Context
  <2>2. context' \in [Slots -> Context] /\ tls' \in [CPUs -> Flows] /\ on' \in [CPUs -> Flows]
    BY <1>1, <1>c, <1>3, <2>1 DEF TypeOK, Flows
  <2>3. pc' \in [Flows -> {"user", "fill", "enqueue", "join", "join_lock",
                         "idle", "hlt", "claimed", "switched", "returned",
                         "unborn", "yielding", "yielded", "finishing", "finished"}]
    BY <1>0, <1>c DEF TypeOK
  <2> QED
    BY <1>3, <2>2, <2>3 DEF TypeOK
<1>6. CpuInv'
  <2>1. on'[c] = c /\ tls'[c] = c /\ pc'[c] = "returned" /\ polled'[c] \in Slots /\ current_threads'[c] = None
    BY <1>1, <1>3, <1>4 DEF TypeOK, s
  <2>2. \A d \in CPUs \ {c} : on'[d] = on[d] /\ tls'[d] = tls[d] /\ pc'[d] = pc[d]
    BY <1>1, <1>3, <1>4 DEF TypeOK, Flows
  <2> QED
    BY <1>3, <2>1, <2>2 DEF CpuInv, InThread, BootOnly
<1>7. QueueInv'
  BY <1>3 DEF QueueInv
<1>8. HeldInv'
  BY <1>3, <1>a DEF HeldInv
<1>9. NotLost'
  BY <1>3, <1>a DEF NotLost
<1>10. StorageInv'
  <2>1. \A g \in Flows : pc'[g] = "fill" <=> pc[g] = "fill"
    BY <1>0, <1>1, <1>4
  <2>2. \A u \in Incarnations : storage[u] = "none" => pc'[u] = "unborn" /\ handle[u] = None
    BY <1>0, <1>1, <1>4 DEF StorageInv, Flows
  <2>3. \A x \in Slots : block[x] # None /\ context'[x].rip # InFinish => context'[x].flow = block[x]
    <3>1. context'[s] = [flow |-> f, rip |-> rip] /\ \A x \in Slots \ {s} : context'[x] = context[x]
      BY <1>1, <1>c DEF TypeOK
    <3>2. context'[s].flow = f /\ context'[s].rip = rip
      BY <3>1
    <3> QED
      BY <1>0, <1>2, <3>1, <3>2 DEF StorageInv
  <2> QED
    BY <1>3, <2>1, <2>2, <2>3 DEF StorageInv
<1>s. SaveInv'
  <2>1. ASSUME NEW u \in Incarnations, pc'[u] = "yielding" PROVE \E d \in CPUs : on'[d] = u
    <3>1. u # f /\ u # c /\ pc[u] = "yielding"
      BY <1>0, <1>1, <1>4, <2>1 DEF Flows
    <3>2. PICK d \in CPUs : on[d] = u
      BY <3>1 DEF SaveInv
    <3>3. on'[d] = u
      BY <1>3, <3>1, <3>2 DEF TypeOK
    <3> QED
      BY <3>3
  <2>2. ASSUME NEW x \in Slots, block[x] # None, pc'[block[x]] = "yielded" PROVE context'[x].rip # Entry
    <3>1. CASE x = s
      BY <1>0, <1>1, <1>c, <3>1 DEF TypeOK, Entry, InYield, InFinish
    <3>2. CASE x # s
      <4>1. context'[x] = context[x]
        BY <1>c, <3>2 DEF TypeOK
      <4>2. block[x] \in Incarnations
        BY <2>2 DEF TypeOK
      <4>3. CASE block[x] = f
        BY <1>0, <1>1, <1>2, <1>4, <2>2, <3>2, <4>3 DEF StorageInv, InYield, InFinish
      <4>4. CASE block[x] # f
        BY <1>1, <1>4, <2>2, <4>1, <4>2, <4>4 DEF SaveInv, Flows
      <4> QED
        BY <4>3, <4>4
    <3> QED
      BY <3>1, <3>2
  <2> QED
    BY <1>3, <2>1, <2>2 DEF SaveInv
<1>11. RunInv'
  <2>1. ASSUME NEW x \in Slots PROVE SlotRun(x)'
    <3>1. SlotRun(x) /\ (block[x] # None => block[x] \in Incarnations)
      BY DEF RunInv, TypeOK
    <3> QED
      BY <1>0, <1>1, <1>3, <1>4, <3>1 DEF SlotRun, InThread, Flows
  <2>2. CpuRun(c)'
    BY <1>1, <1>3 DEF CpuRun, TypeOK
  <2>3. ASSUME NEW d \in CPUs \ {c} PROVE CpuRun(d)'
    <3>1. CpuRun(d) /\ pc'[on[d]] = pc[on[d]] /\ on'[d] = on[d]
      BY <1>1, <1>3, <1>4 DEF RunInv, TypeOK
    <3> QED
      BY <1>3, <3>1 DEF CpuRun
  <2> QED
    BY <1>1, <1>4, <2>1, <2>2, <2>3 DEF RunInv, BootOnly, Flows
<1>12. HandleInv'
  <2>1. \A g \in Flows : PhaseInv(g)'
    BY <1>0, <1>1, <1>3, <1>4, CpuAssumption DEF HandleInv, PhaseInv, IsBuilding, IsJoining, Flows
  <2>2. ASSUME NEW g \in Flows PROVE TargetInv(g)'
    <3>1. TargetInv(g)
      BY DEF HandleInv
    <3>2. target[g] # None => target[g] \in Incarnations
      BY DEF TypeOK
    <3>3. IsBuilding(g) /\ target[g] # None => pc'[target[g]] = "unborn"
      BY <3>1, <3>2, <1>0, <1>1, <1>4 DEF TargetInv, Flows
    <3>4. /\ (pc'[g] = "fill" <=> pc[g] = "fill") /\ (pc'[g] = "join_lock" => pc[g] = "join_lock")
          /\ IsJoining(g)' <=> IsJoining(g)
      BY <1>0, <1>1, <1>3, <1>4, <1>a DEF IsJoining
    <3> QED
      BY <3>1, <3>3, <3>4, <1>3, <1>a DEF TargetInv
  <2>3. \A u \in Incarnations : OpenInv(u)'
    BY <1>3 DEF HandleInv, OpenInv
  <2> QED
    BY <2>1, <2>2, <2>3 DEF HandleInv
<1>13. PanicInv'
  BY <1>3 DEF PanicInv, NoSchedulerPanic, NoHandlePanic
<1> QED
  BY <1>s, <1>5, <1>6, <1>7, <1>8, <1>9, <1>10, <1>11, <1>12, <1>13 DEF IInv

(* The unlocked half of yield saves a context that resumes in yield.        *)
LEMMA YieldSwitchStep ==
    ASSUME IInv, panic = "none", ~Undefined,
           NEW c \in CPUs, NEW f \in Flows, YieldSwitch(c, f)
    PROVE  IInv'
BY LeaveStackStep DEF YieldSwitch, Runs

(* The unlocked half of finish_current saves one that must not be resumed.  *)
LEMMA FinishSwitchStep ==
    ASSUME IInv, panic = "none", ~Undefined,
           NEW c \in CPUs, NEW f \in Flows, FinishSwitch(c, f)
    PROVE  IInv'
BY LeaveStackStep DEF FinishSwitch, Runs

-----------------------------------------------------------------------------
(* A step of idle_poll or join that only moves a flow between two labels    *)
(* that no other part of the state distinguishes.                           *)
LEMMA RelabelStep ==
    ASSUME IInv, panic = "none", ~Undefined, NEW f \in Flows,
           NEW next,
           \/ pc[f] = "idle" /\ next = "hlt"
           \/ pc[f] = "hlt" /\ next = "idle"
           \/ pc[f] = "join" /\ next = "join_lock" /\ state[slot[f]] = "DONE",
           pc' = [pc EXCEPT ![f] = next],
           UNCHANGED <<threads, ready_queue, current_threads, tls, on, polled, slot,
                       storage, panic, client>>
    PROVE  IInv'
<1> USE Defined, DisjointAssumption
<1>1. /\ pc[f] \in {"idle", "hlt", "join"} /\ next \in {"idle", "hlt", "join_lock"}
      /\ pc[f] \in InThread <=> next \in InThread
      /\ next = "join_lock" => pc[f] = "join" /\ state[slot[f]] = "DONE"
      /\ pc[f] = "join" => next = "join_lock"
  BY DEF InThread
<1>2. UNCHANGED <<state, detached, cpu_affinity, block, context, ready_queue, current_threads,
                  tls, on, polled, slot, storage, panic, target, join_cpu, handle, owner>>
  BY DEF threads, client
<1>3. pc'[f] = next /\ \A g \in Flows \ {f} : pc'[g] = pc[g]
  BY DEF TypeOK
<1>a. /\ \A g \in Flows : IsBuilding(g)' <=> IsBuilding(g)
      /\ \A g \in Flows : pc'[g] \in InThread <=> pc[g] \in InThread
      /\ \A g \in Flows : pc'[g] # pc[g] => pc[g] \in {"idle", "hlt", "join"} /\ pc'[g] \in {"idle", "hlt", "join_lock"}
  BY <1>1, <1>3 DEF IsBuilding
<1>b. CPUs \subseteq Flows /\ Incarnations \subseteq Flows
  BY DEF Flows
<1>4. TypeOK'
  <2>1. next \in {"user", "fill", "enqueue", "join", "join_lock",
                         "idle", "hlt", "claimed", "switched", "returned",
                         "unborn", "yielding", "yielded", "finishing", "finished"}
    BY <1>1
  <2> QED
    BY <1>2, <2>1 DEF TypeOK
<1>5. CpuInv'
  <2> SUFFICES ASSUME NEW d \in CPUs
               PROVE  /\ pc'[d] = "switched" <=> on[d] # d
                      /\ pc'[d] \in InThread \cup BootOnly
                      /\ pc'[d] \in InThread => d = BSP
                      /\ pc'[d] \in {"idle", "hlt"} => d # BSP
                      /\ pc'[d] \in {"claimed", "switched", "returned"} => polled[d] \in Slots
    BY <1>2 DEF CpuInv
  <2>1. CASE d = f
    BY <2>1, <1>1, <1>3 DEF CpuInv, InThread, BootOnly
  <2>2. CASE d # f
    BY <2>2, <1>3, <1>b DEF CpuInv
  <2> QED
    BY <2>1, <2>2
<1>c. \A d \in CPUs : pc'[d] = "claimed" <=> pc[d] = "claimed"
  BY <1>a, <1>b
<1>6. QueueInv' /\ HeldInv' /\ NotLost'
  <2>1. QueueInv'
    BY <1>2 DEF QueueInv
  <2>2. HeldInv'
    BY <1>2, <1>a, <1>c DEF HeldInv
  <2>3. NotLost'
    BY <1>2, <1>a, <1>c DEF NotLost
  <2> QED
    BY <2>1, <2>2, <2>3
<1>7. StorageInv'
  <2>1. \A g \in Flows : pc'[g] = "fill" <=> pc[g] = "fill"
    BY <1>a
  <2>2. \A u \in Incarnations : pc[u] = "unborn" => pc'[u] = "unborn"
    BY <1>a, <1>b
  <2> QED
    BY <1>2, <2>1, <2>2 DEF StorageInv
<1>s. SaveInv'
  BY <1>2, <1>a, <1>b, SaveKept
<1>8. RunInv'
  <2>1. ASSUME NEW x \in Slots PROVE SlotRun(x)'
    <3>1. SlotRun(x) /\ (block[x] # None => block[x] \in Flows)
      BY <1>b DEF RunInv, TypeOK
    <3> QED
      BY <1>2, <1>a, <3>1 DEF SlotRun
  <2>2. ASSUME NEW d \in CPUs PROVE CpuRun(d)'
    <3>1. CpuRun(d) /\ on[d] \in Flows
      BY DEF RunInv, TypeOK
    <3> QED
      BY <1>2, <1>a, <3>1 DEF CpuRun, OffCpu
  <2>3. \A u \in Incarnations : pc'[u] \notin BootOnly
    BY <1>1, <1>3, <1>b DEF RunInv, BootOnly, InThread
  <2> QED
    BY <2>1, <2>2, <2>3 DEF RunInv
<1>9. HandleInv'
  <2>1. ASSUME NEW g \in Flows PROVE PhaseInv(g)'
    <3>1. PhaseInv(g) /\ (IsJoining(g)' <=> IsJoining(g))
      BY <1>2, <1>a DEF HandleInv, IsJoining
    <3> QED
      BY <1>1, <1>2, <1>3, <3>1 DEF PhaseInv
  <2>2. ASSUME NEW g \in Flows PROVE TargetInv(g)'
    <3>1. TargetInv(g) /\ (target[g] # None => target[g] \in Flows) /\ (IsJoining(g)' <=> IsJoining(g))
      BY <1>2, <1>a, <1>b DEF HandleInv, TypeOK, IsJoining
    <3>2. IsBuilding(g) /\ target[g] # None => pc'[target[g]] = "unborn"
      BY <3>1, <1>a DEF TargetInv
    <3>3. (pc'[g] = "fill" <=> pc[g] = "fill") /\ (pc'[g] = "join_lock" => state[slot[g]] = "DONE" \/ pc[g] = "join_lock")
      BY <1>1, <1>3
    <3> QED
      BY <1>2, <1>a, <3>1, <3>2, <3>3 DEF TargetInv
  <2> QED
    BY <1>2, <2>1, <2>2 DEF HandleInv, OpenInv
<1>10. PanicInv'
  BY <1>2 DEF PanicInv, NoSchedulerPanic, NoHandlePanic
<1> QED
  BY <1>s, <1>4, <1>5, <1>6, <1>7, <1>8, <1>9, <1>10 DEF IInv

(* ap_main's hlt moves only the AP's own program counter.                   *)
LEMMA IdleHaltStep ==
    ASSUME IInv, panic = "none", ~Undefined, NEW c \in CPUs, IdleHalt(c) \/ TimerTick(c)
    PROVE  IInv'
BY RelabelStep DEF IdleHalt, TimerTick, Runs, Flows

(* Leaving join's loop moves only the joiner's program counter.             *)
LEMMA JoinLeaveLoopStep ==
    ASSUME IInv, panic = "none", ~Undefined, NEW c \in CPUs, NEW f \in Flows, JoinLeaveLoop(c, f)
    PROVE  IInv'
BY RelabelStep DEF JoinLeaveLoop, Runs

(* idle_poll pops a slot: the queue gives it to this CPU.                   *)
LEMMA IdlePollClaimStep ==
    ASSUME IInv, panic = "none", ~Undefined, NEW c \in CPUs, IdlePollClaim(c)
    PROVE  IInv'
<1> USE Defined, DisjointAssumption
<1> DEFINE n == Len(ready_queue)
<1>1. /\ on[c] = c /\ pc[c] \in {"idle", "join"}
      /\ pc[c] = "join" <=> c = BSP
      /\ current_threads[c] = None
  BY DEF IdlePollClaim, CallsIdlePoll, Runs, CpuInv
<1>2. PICK k \in 1 .. n : /\ polled' = [polled EXCEPT ![c] = ready_queue[k]]
                          /\ ready_queue' = RemoveAt(ready_queue, k)
  BY DEF IdlePollClaim
<1>3. /\ pc' = [pc EXCEPT ![c] = "claimed"]
      /\ UNCHANGED <<state, detached, cpu_affinity, block, context, current_threads, tls, on,
                     slot, storage, panic, target, join_cpu, handle, owner>>
  BY DEF IdlePollClaim, threads, client
<1>4. /\ ready_queue' \in Seq(Slots) /\ n \in Nat /\ Len(ready_queue') = n - 1
      /\ \A i \in 1 .. n - 1 : ready_queue'[i] = IF i < k THEN ready_queue[i] ELSE ready_queue[i + 1]
  <2>1. ready_queue \in Seq(Slots)
    BY DEF TypeOK
  <2>2. /\ RemoveAt(ready_queue, k) \in Seq(Slots)
        /\ Len(ready_queue) \in Nat
        /\ Len(RemoveAt(ready_queue, k)) = Len(ready_queue) - 1
        /\ \A i \in 1 .. Len(ready_queue) - 1 :
                RemoveAt(ready_queue, k)[i] = IF i < k THEN ready_queue[i] ELSE ready_queue[i + 1]
    BY ONLY <2>1, k \in 1 .. Len(ready_queue), RemoveAtFacts, Zenon
  <2> QED
    BY ONLY <1>2, <2>2, Zenon
<1> DEFINE s == ready_queue[k]
<1>5. /\ \A i \in 1 .. n : ready_queue[i] \in Slots /\ state[ready_queue[i]] = "READY"
      /\ \A i, j \in 1 .. n : ready_queue[i] = ready_queue[j] => i = j
  BY ElementOfSeq DEF QueueInv, TypeOK
<1>6. s \in Slots /\ state[s] = "READY"
  BY <1>5
<1> HIDE DEF n
<1>7. \A i \in 1 .. n - 1 : \E j \in 1 .. n : j # k /\ ready_queue'[i] = ready_queue[j]
  <2> SUFFICES ASSUME NEW i \in 1 .. n - 1
               PROVE  \E j \in 1 .. n : j # k /\ ready_queue'[i] = ready_queue[j]
    OBVIOUS
  <2>1. CASE i < k
    <3>1. i \in 1 .. n /\ i # k /\ ready_queue'[i] = ready_queue[i]
      BY <1>4, <2>1
    <3> QED
      BY <3>1
  <2>2. CASE ~(i < k)
    <3>1. i + 1 \in 1 .. n /\ i + 1 # k /\ ready_queue'[i] = ready_queue[i + 1]
      BY <1>4, <2>2
    <3> QED
      BY <3>1
  <2> QED
    BY <2>1, <2>2
<1>8. \A j \in 1 .. n : j # k => \E i \in 1 .. n - 1 : ready_queue'[i] = ready_queue[j]
  <2> SUFFICES ASSUME NEW j \in 1 .. n, j # k
               PROVE  \E i \in 1 .. n - 1 : ready_queue'[i] = ready_queue[j]
    OBVIOUS
  <2>1. CASE j < k
    <3>1. j \in 1 .. n - 1 /\ ready_queue'[j] = ready_queue[j]
      BY <1>4, <2>1
    <3> QED
      BY <3>1
  <2>2. CASE ~(j < k)
    <3>1. j - 1 \in 1 .. n - 1 /\ ~(j - 1 < k) /\ (j - 1) + 1 = j
      BY <1>4, <2>2
    <3>2. ready_queue'[j - 1] = ready_queue[j]
      BY <1>4, <3>1
    <3> QED
      BY <3>1, <3>2
  <2> QED
    BY <2>1, <2>2
<1>9. \A i \in 1 .. n - 1 : ready_queue'[i] \in Slots /\ state[ready_queue'[i]] = "READY" /\ ready_queue'[i] # s
  BY <1>5, <1>7
<1> HIDE DEF s
<1>10. /\ pc'[c] = "claimed" /\ \A g \in Flows \ {c} : pc'[g] = pc[g]
       /\ polled'[c] = s /\ \A d \in CPUs \ {c} : polled'[d] = polled[d]
  BY <1>2, <1>3 DEF TypeOK, Flows, s
<1>a. /\ \A g \in Flows : IsBuilding(g)' <=> IsBuilding(g)
      /\ \A g \in Flows : pc'[g] # pc[g] => g = c
      /\ CPUs \subseteq Flows /\ Incarnations \subseteq Flows
      /\ \A u \in Incarnations : pc'[u] = pc[u]
  BY <1>1, <1>10 DEF IsBuilding, Flows
<1>11. TypeOK'
  <2>1. polled' \in [CPUs -> Slots \cup {None}] /\ ready_queue' \in Seq(Slots)
    BY <1>2, <1>4, <1>6 DEF TypeOK, s
  <2> QED
    BY <1>3, <2>1 DEF TypeOK
<1>12. CpuInv'
  <2>1. on'[c] = c /\ tls'[c] = c /\ current_threads'[c] = None
    BY <1>1, <1>3 DEF CpuInv
  <2>2. \A d \in CPUs \ {c} : pc'[d] = pc[d] /\ polled'[d] = polled[d]
    BY <1>10, <1>a
  <2> QED
    BY <1>3, <1>6, <1>10, <2>1, <2>2 DEF CpuInv, InThread, BootOnly
<1>13. QueueInv'
  <2>1. \A i, j \in 1 .. n - 1 : ready_queue'[i] = ready_queue'[j] => i = j
    <3> SUFFICES ASSUME NEW i \in 1 .. n - 1, NEW j \in 1 .. n - 1, ready_queue'[i] = ready_queue'[j]
                 PROVE  i = j
      OBVIOUS
    <3> DEFINE at(x) == IF x < k THEN x ELSE x + 1
    <3>1. at(i) \in 1 .. n /\ at(j) \in 1 .. n
      BY <1>4
    <3>2. ready_queue'[i] = ready_queue[at(i)] /\ ready_queue'[j] = ready_queue[at(j)]
      BY <1>4
    <3>3. at(i) = at(j)
      BY <1>5, <3>1, <3>2
    <3> QED
      BY <3>3, <1>4
  <2> QED
    BY <1>3, <1>4, <1>9, <2>1 DEF QueueInv
<1>14. HeldInv'
  <2>1. \A d \in CPUs : pc[d] = "claimed" =>
          /\ polled[d] # s
          /\ \A i \in 1 .. n - 1 : ready_queue'[i] # polled[d]
    BY <1>7 DEF HeldInv, n, s
  <2>2. \A g \in Flows : IsBuilding(g) =>
          /\ slot[g] # s
          /\ \A i \in 1 .. n - 1 : ready_queue'[i] # slot[g]
    BY <1>7 DEF HeldInv, n, s
  <2>3. \A d \in CPUs \ {c} : pc'[d] = pc[d] /\ polled'[d] = polled[d]
    BY <1>10, <1>a
  <2>4. ASSUME NEW d \in CPUs, pc'[d] = "claimed"
        PROVE  /\ state[polled'[d]] = "READY"
               /\ \A i \in 1 .. n - 1 : ready_queue'[i] # polled'[d]
               /\ \A e \in CPUs \ {d} : pc'[e] = "claimed" => polled'[e] # polled'[d]
               /\ \A g \in Flows : IsBuilding(g) => slot[g] # polled'[d]
    <3>1. CASE d = c
      BY <1>6, <1>9, <1>10, <2>1, <2>2, <2>3, <3>1
    <3>2. CASE d # c
      BY <1>10, <2>1, <2>3, <2>4, <3>2 DEF HeldInv
    <3> QED
      BY <3>1, <3>2
  <2> QED
    BY <1>3, <1>4, <1>a, <2>2, <2>4 DEF HeldInv
<1>15. NotLost'
  <2> SUFFICES ASSUME NEW x \in Slots, state[x] = "READY"
               PROVE  \/ \E i \in 1 .. n - 1 : ready_queue'[i] = x
                      \/ \E d \in CPUs : pc'[d] = "claimed" /\ polled'[d] = x
                      \/ \E g \in Flows : IsBuilding(g) /\ slot[g] = x
    BY <1>3, <1>4, <1>a DEF NotLost
  <2>1. CASE \E i \in 1 .. n : ready_queue[i] = x
    BY <1>8, <1>10, <2>1 DEF s
  <2>2. CASE \E d \in CPUs : pc[d] = "claimed" /\ polled[d] = x
    BY <1>1, <1>10, <1>a, <2>2
  <2>3. CASE \E g \in Flows : IsBuilding(g) /\ slot[g] = x
    BY <2>3
  <2> QED
    BY <2>1, <2>2, <2>3 DEF NotLost, n
<1>16. StorageInv'
  <2>1. \A g \in Flows : pc'[g] = "fill" <=> pc[g] = "fill"
    BY <1>1, <1>10
  <2> QED
    BY <1>3, <1>a, <2>1 DEF StorageInv
<1>s. SaveInv'
  BY <1>3, <1>a, SaveKept
<1>17. RunInv'
  <2>1. ASSUME NEW x \in Slots PROVE SlotRun(x)'
    <3>1. SlotRun(x) /\ (block[x] # None => block[x] \in Incarnations)
      BY DEF RunInv, TypeOK
    <3> QED
      BY <1>3, <1>a, <3>1 DEF SlotRun
  <2>2. ASSUME NEW d \in CPUs PROVE CpuRun(d)'
    <3>1. CpuRun(d) /\ (on[d] # d => d # c /\ on[d] \in Incarnations)
      BY <1>1 DEF RunInv, CpuInv
    <3> QED
      BY <1>3, <1>10, <1>a, <3>1 DEF CpuRun
  <2> QED
    BY <1>a, <2>1, <2>2 DEF RunInv
<1>18. HandleInv'
  <2>1. ASSUME NEW g \in Flows PROVE PhaseInv(g)'
    <3>1. PhaseInv(g) /\ (IsJoining(g)' <=> IsJoining(g))
      BY <1>3, <1>a DEF HandleInv, IsJoining
    <3> QED
      BY <1>1, <1>3, <1>10, <3>1 DEF PhaseInv
  <2>2. ASSUME NEW g \in Flows PROVE TargetInv(g)'
    <3>1. TargetInv(g) /\ (target[g] # None => target[g] \in Incarnations) /\ (IsJoining(g)' <=> IsJoining(g))
      BY <1>3, <1>a DEF HandleInv, TypeOK, IsJoining
    <3>2. (pc'[g] = "fill" <=> pc[g] = "fill") /\ (pc'[g] = "join_lock" => pc[g] = "join_lock")
      BY <1>1, <1>10
    <3> QED
      BY <1>3, <1>a, <3>1, <3>2 DEF TargetInv
  <2> QED
    BY <1>3, <2>1, <2>2 DEF HandleInv, OpenInv
<1>19. PanicInv'
  BY <1>3 DEF PanicInv, NoSchedulerPanic, NoHandlePanic
<1> QED
  BY <1>s, <1>11, <1>12, <1>13, <1>14, <1>15, <1>16, <1>17, <1>18, <1>19 DEF IInv

(* idle_poll switches to the popped thread.                                 *)
LEMMA IdlePollSwitchStep ==
    ASSUME IInv, panic = "none", ~Undefined, NEW c \in CPUs, IdlePollSwitch(c)
    PROVE  IInv'
<1> USE Defined, DisjointAssumption
<1> DEFINE s == polled[c]
           f == block[s]
<1>1. /\ on[c] = c /\ pc[c] = "claimed" /\ s \in Slots /\ state[s] = "READY"
      /\ current_threads[c] = None
  BY DEF IdlePollSwitch, Runs, CpuInv, HeldInv
<1>2. CASE context[s].rip = InFinish
  BY <1>1, <1>2, CallerPanic DEF IdlePollSwitch, OtherPanics
<1>3. CASE context[s].rip # InFinish
  <2>1. f # None /\ f \in Incarnations /\ context[s].flow = f /\ storage[f] = "live"
    <3>1. ~ \E g \in Flows : pc[g] = "fill" /\ slot[g] = s
      BY <1>1 DEF HeldInv, IsBuilding
    <3>2. f # None
      BY <1>1, <3>1 DEF StorageInv
    <3> QED
      BY <1>1, <1>3, <3>2 DEF StorageInv, TypeOK
  <2>2. pc[f] \in {"unborn", "yielding", "yielded"} /\ \A x \in Slots \ {s} : block[x] # f
    BY <1>1, <2>1 DEF RunInv, SlotRun, StorageInv
  <2> DEFINE to == IF context[s].rip = Entry THEN "user" ELSE AfterYield(f)
  <2>3. to \in {"user", "join"}
    BY DEF AfterYield
  <2>4. /\ state' = [state EXCEPT ![s] = "RUNNING"]
        /\ current_threads' = [current_threads EXCEPT ![c] = s]
        /\ tls' = [tls EXCEPT ![c] = f]
        /\ on' = [on EXCEPT ![c] = f]
        /\ UNCHANGED <<detached, cpu_affinity, block, context, ready_queue,
                       polled, slot, storage, panic, target, join_cpu, handle, owner>>
    BY <1>1, <1>3, <2>1 DEF IdlePollSwitch, ActivateTls, client
  <2>5. pc' = [pc EXCEPT ![c] = "switched", ![f] = to]
    BY <1>1, <1>3, <2>1 DEF IdlePollSwitch
  <2> HIDE DEF s, f, to
  <2>6. f # c /\ f \in Flows /\ c \in Flows
    BY <2>1 DEF Flows
  <2>7. /\ pc'[c] = "switched" /\ pc'[f] = to
        /\ \A g \in Flows \ {c, f} : pc'[g] = pc[g]
    BY <2>5, <2>6 DEF TypeOK
  <2>8. /\ state'[s] = "RUNNING" /\ \A x \in Slots \ {s} : state'[x] = state[x]
        /\ current_threads'[c] = s /\ \A d \in CPUs \ {c} : current_threads'[d] = current_threads[d]
        /\ on'[c] = f /\ \A d \in CPUs \ {c} : on'[d] = on[d]
        /\ tls'[c] = f /\ \A d \in CPUs \ {c} : tls'[d] = tls[d]
    BY <1>1, <2>4 DEF TypeOK
  <2>9. /\ UNCHANGED <<detached, cpu_affinity, block, context, ready_queue,
                       polled, slot, storage, panic, target, join_cpu, handle, owner>>
    BY <2>4
  <2>a. /\ \A g \in Flows : IsBuilding(g)' <=> IsBuilding(g)
        /\ CPUs \subseteq Flows /\ Incarnations \subseteq Flows
        /\ \A d \in CPUs \ {c} : pc'[d] = pc[d]
        /\ \A u \in Incarnations \ {f} : pc'[u] = pc[u]
        /\ polled[c] = s
    BY <1>1, <2>1, <2>2, <2>3, <2>6, <2>7 DEF IsBuilding, Flows, s
  <2>b. /\ \A i \in 1 .. Len(ready_queue) : ready_queue[i] \in Slots /\ ready_queue[i] # s
        /\ \A d \in CPUs \ {c} : pc[d] = "claimed" => polled[d] \in Slots /\ polled[d] # s
        /\ \A g \in Flows : IsBuilding(g) => slot[g] \in Slots /\ slot[g] # s
        /\ \A d \in CPUs : current_threads[d] # None => current_threads[d] \in Slots /\ current_threads[d] # s
    <3>1. \A i \in 1 .. Len(ready_queue) : ready_queue[i] \in Slots
      BY ElementOfSeq DEF TypeOK
    <3> QED
      BY <1>1, <3>1, <2>a DEF HeldInv, CpuInv, TypeOK
  <2>10. TypeOK'
    <3>1. state' \in [Slots -> {"FREE", "READY", "RUNNING", "DONE"}] /\ current_threads' \in [CPUs -> Slots \cup {None}]
      BY <1>1, <2>4 DEF TypeOK
    <3>2. tls' \in [CPUs -> Flows] /\ on' \in [CPUs -> Flows]
      BY <2>4, <2>6 DEF TypeOK
    <3>3. pc' \in [Flows -> {"user", "fill", "enqueue", "join", "join_lock",
                         "idle", "hlt", "claimed", "switched", "returned",
                         "unborn", "yielding", "yielded", "finishing", "finished"}]
      BY <2>3, <2>5 DEF TypeOK
    <3> QED
      BY <2>9, <3>1, <3>2, <3>3 DEF TypeOK
  <2>11. CpuInv'
    BY <1>1, <2>1, <2>6, <2>7, <2>8, <2>9, <2>a DEF CpuInv, InThread, BootOnly
  <2>12. QueueInv'
    BY <2>8, <2>9, <2>b DEF QueueInv
  <2>13. HeldInv'
    <3>1. \A d \in CPUs : pc'[d] = "claimed" => d # c /\ pc[d] = "claimed" /\ state'[polled[d]] = "READY"
      BY <2>7, <2>8, <2>a, <2>b DEF HeldInv
    <3>2. \A g \in Flows : IsBuilding(g) => state'[slot[g]] = "READY"
      BY <2>8, <2>b DEF HeldInv
    <3>3. \A d \in CPUs : current_threads'[d] # None =>
            /\ state'[current_threads'[d]] = "RUNNING"
            /\ \A e \in CPUs \ {d} : current_threads'[e] # current_threads'[d]
      BY <1>1, <2>8, <2>b DEF HeldInv, Flows
    <3> QED
      BY <2>9, <2>a, <3>1, <3>2, <3>3 DEF HeldInv
  <2>14. NotLost'
    <3> SUFFICES ASSUME NEW x \in Slots
                 PROVE  /\ state'[x] = "READY" =>
                             \/ \E i \in 1 .. Len(ready_queue) : ready_queue[i] = x
                             \/ \E d \in CPUs : pc'[d] = "claimed" /\ polled[d] = x
                             \/ \E g \in Flows : IsBuilding(g) /\ slot[g] = x
                        /\ state'[x] = "RUNNING" => \E d \in CPUs : current_threads'[d] = x
      BY <2>9, <2>a DEF NotLost
    <3>1. CASE x = s
      BY <2>8, <3>1
    <3>2. CASE x # s
      <4>1. \A d \in CPUs : pc[d] = "claimed" /\ polled[d] = x => pc'[d] = "claimed"
        BY <2>a, <3>2
      <4>2. \A d \in CPUs : current_threads[d] = x => current_threads'[d] = x
        BY <1>1, <2>8
      <4>3. state'[x] = state[x]
        BY <2>8, <3>2
      <4> QED
        BY <4>1, <4>2, <4>3 DEF NotLost
    <3> QED
      BY <3>1, <3>2
  <2>15. StorageInv'
    <3>1. \A g \in Flows : pc'[g] = "fill" <=> pc[g] = "fill"
      BY <1>1, <2>2, <2>3, <2>7
    <3>2. \A u \in Incarnations : storage[u] = "none" => pc'[u] = "unborn"
      BY <2>1, <2>a DEF StorageInv
    <3>3. \A x \in Slots : state'[x] = "FREE" <=> state[x] = "FREE"
      BY <1>1, <2>8 DEF s
    <3> QED
      BY <2>9, <3>1, <3>2, <3>3 DEF StorageInv
  <2>16. ASSUME ~Undefined' PROVE RunInv' /\ SaveInv' /\ HandleInv'
    <3>1. \A d \in CPUs \ {c} : on[d] # f
      BY <2>8, <2>16 DEF Undefined
    <3>2. pc[f] \in {"unborn", "yielded"}
      BY <1>1, <2>1, <2>2, <3>1, <2>6 DEF SaveInv
    <3>3. to = AfterYield(f)
      <4>1. pc[f] = "unborn" => target[f] = None
        BY <2>6 DEF HandleInv, PhaseInv
      <4>2. pc[f] = "yielded" => context[s].rip # Entry
        BY <1>1, <2>1 DEF SaveInv, s, f
      <4> QED
        BY <3>2, <4>1, <4>2 DEF to, AfterYield
    <3>4. RunInv'
      <4>1. ASSUME NEW x \in Slots PROVE SlotRun(x)'
        <5>1. SlotRun(x) /\ (block[x] # None => block[x] \in Incarnations)
          BY DEF RunInv, TypeOK
        <5>2. CASE x = s
          BY <2>3, <2>7, <2>8, <2>9, <5>2 DEF SlotRun, InThread, f, s
        <5>3. CASE x # s
          BY <2>2, <2>8, <2>9, <2>a, <5>1, <5>3 DEF SlotRun, f, s
        <5> QED
          BY <5>2, <5>3
      <4>2. CpuRun(c)'
        BY <1>1, <2>1, <2>3, <2>6, <2>7, <2>8, <2>9 DEF CpuRun, InThread, OffCpu, Flows, f, s
      <4>3. ASSUME NEW d \in CPUs \ {c} PROVE CpuRun(d)'
        <5>1. CpuRun(d) /\ (on[d] # d => on[d] \in Incarnations \ {f} /\ polled[d] \in Slots)
          BY <3>1 DEF RunInv, CpuInv
        <5>2. block[polled[d]] = on[d] => polled[d] # s
          BY <3>1 DEF f, s
        <5> QED
          BY <2>8, <2>9, <2>a, <5>1, <5>2 DEF CpuRun
      <4>4. \A u \in Incarnations : pc'[u] \notin BootOnly
        BY <2>3, <2>7, <2>a DEF RunInv, BootOnly
      <4> QED
        BY <4>1, <4>2, <4>3, <4>4 DEF RunInv
    <3>5. SaveInv'
      <4>1. ASSUME NEW u \in Incarnations, pc'[u] = "yielding" PROVE \E d \in CPUs : on'[d] = u
        <5>1. u # f /\ pc[u] = "yielding"
          BY <2>3, <2>7, <2>a, <4>1
        <5>2. PICK d \in CPUs : on[d] = u
          BY <5>1 DEF SaveInv
        <5>3. on'[d] = u
          BY <1>1, <2>8, <5>2
        <5> QED
          BY <5>3
      <4>2. ASSUME NEW x \in Slots, block[x] # None, pc'[block[x]] = "yielded" PROVE context[x].rip # Entry
        <5>1. block[x] # f /\ block[x] \in Incarnations
          BY <2>3, <2>7, <4>2 DEF TypeOK
        <5> QED
          BY <2>a, <4>2, <5>1 DEF SaveInv
      <4> QED
        BY <2>9, <4>1, <4>2 DEF SaveInv
    <3>6. HandleInv'
      <4>1. ASSUME NEW g \in Flows PROVE PhaseInv(g)'
        <5>1. PhaseInv(g) /\ (IsJoining(g)' <=> IsJoining(g))
          BY <2>9, <2>a DEF HandleInv, IsJoining
        <5>2. CASE g = f
          BY <2>1, <2>7, <2>9, <3>3, <5>1, <5>2, CpuAssumption DEF PhaseInv, AfterYield
        <5>3. CASE g = c
          BY <1>1, <2>6, <2>7, <2>9, <5>1, <5>3 DEF PhaseInv
        <5>4. CASE g # f /\ g # c
          BY <2>7, <2>9, <5>1, <5>4 DEF PhaseInv
        <5> QED
          BY <5>2, <5>3, <5>4
      <4>2. ASSUME NEW g \in Flows PROVE TargetInv(g)'
        <5>1. TargetInv(g) /\ (target[g] # None => target[g] \in Incarnations) /\ (IsJoining(g)' <=> IsJoining(g))
          BY <2>9, <2>a DEF HandleInv, TypeOK, IsJoining
        <5>2. (pc'[g] = "fill" <=> pc[g] = "fill") /\ (pc'[g] = "join_lock" => pc[g] = "join_lock")
          BY <1>1, <2>2, <2>3, <2>7
        <5>3. target[g] # None => slot[g] \in Slots
          BY <5>1 DEF TargetInv
        <5>4. target[g] # None /\ IsBuilding(g) => pc'[target[g]] = "unborn"
          <6>1. SUFFICES ASSUME target[g] # None, IsBuilding(g) PROVE target[g] # f
            BY <5>1, <2>a DEF TargetInv
          <6>2. CASE pc[g] = "fill"
            BY <1>1, <5>1, <6>1, <6>2 DEF TargetInv, f
          <6>3. CASE pc[g] # "fill"
            BY <2>2, <2>b, <5>1, <6>1, <6>3 DEF TargetInv
          <6> QED
            BY <6>2, <6>3
        <5>5. target[g] # None /\ pc[g] = "join_lock" => slot[g] # s
          BY <1>1, <5>1 DEF TargetInv, s
        <5>6. target[g] # None => state'[slot[g]] # "FREE" /\ (pc'[g] = "join_lock" => state'[slot[g]] = "DONE")
          BY <2>8, <5>1, <5>2, <5>3, <5>5 DEF TargetInv
        <5> QED
          BY <2>9, <2>a, <5>1, <5>2, <5>3, <5>4, <5>6 DEF TargetInv
      <4> QED
        BY <2>9, <4>1, <4>2 DEF HandleInv, OpenInv
    <3> QED
      BY <3>4, <3>5, <3>6
  <2>17. PanicInv'
    BY <2>9 DEF PanicInv, NoSchedulerPanic, NoHandlePanic
  <2> QED
    BY <2>10, <2>11, <2>12, <2>13, <2>14, <2>15, <2>16, <2>17 DEF IInv
<1> QED
  BY <1>2, <1>3

-----------------------------------------------------------------------------
(* reclaim() of a DONE slot frees live storage, once, and resets the slot.  *)
LEMMA ReclaimFacts ==
    ASSUME IInv, ~Undefined, NEW s \in Slots, state[s] = "DONE", Reclaim(s)
    PROVE  /\ block[s] \in Incarnations
           /\ storage[block[s]] = "live"
           /\ \A x \in Slots \ {s} : block[x] # block[s]
           /\ UNCHANGED panic
           /\ storage'[block[s]] = "freed"
           /\ \A u \in Incarnations \ {block[s]} : storage'[u] = storage[u]
           /\ state'[s] = "FREE" /\ block'[s] = None /\ detached'[s] = FALSE
           /\ \A x \in Slots \ {s} : /\ state'[x] = state[x] /\ block'[x] = block[x]
                                     /\ detached'[x] = detached[x] /\ context'[x] = context[x]
<1> USE Defined
<1>1. block[s] # None
  <2>1. ~ \E g \in Flows : pc[g] = "fill" /\ slot[g] = s
    BY DEF HeldInv, IsBuilding
  <2> QED
    BY <2>1 DEF StorageInv
<1>2. block[s] \in Incarnations /\ storage[block[s]] = "live" /\ \A x \in Slots \ {s} : block[x] # block[s]
  BY <1>1 DEF StorageInv, TypeOK
<1>3. UNCHANGED panic /\ storage' = [storage EXCEPT ![block[s]] = "freed"]
  BY <1>2 DEF Reclaim, FreeBlock
<1>4. storage'[block[s]] = "freed" /\ \A u \in Incarnations \ {block[s]} : storage'[u] = storage[u]
  BY <1>2, <1>3 DEF TypeOK
<1>5. /\ state' = [state EXCEPT ![s] = "FREE"] /\ block' = [block EXCEPT ![s] = None]
      /\ detached' = [detached EXCEPT ![s] = FALSE]
  BY DEF Reclaim
<1>6. context' = [context EXCEPT ![s] = NoContext]
  BY DEF Reclaim
<1>7. \A x \in Slots \ {s} : context'[x] = context[x]
  BY <1>6 DEF TypeOK
<1>8. /\ state'[s] = "FREE" /\ block'[s] = None /\ detached'[s] = FALSE
      /\ \A x \in Slots \ {s} : state'[x] = state[x] /\ block'[x] = block[x] /\ detached'[x] = detached[x]
  BY <1>5 DEF TypeOK
<1> QED
  BY <1>2, <1>3, <1>4, <1>7, <1>8

(* reclaim() resets one slot and leaves every field in its type.            *)
LEMMA ReclaimTypeOK ==
    ASSUME IInv, ~Undefined, NEW s \in Slots, state[s] = "DONE", Reclaim(s)
    PROVE  /\ state' \in [Slots -> {"FREE", "READY", "RUNNING", "DONE"}]
           /\ detached' \in [Slots -> BOOLEAN]
           /\ cpu_affinity' \in [Slots -> CPUs \cup {ANY_CPU}]
           /\ block' \in [Slots -> Incarnations \cup {None}]
           /\ context' \in [Slots -> Context]
           /\ storage' \in [Incarnations -> {"none", "live", "freed"}]
<1> USE Defined DEF TypeOK, Reclaim
<1>1. NoContext \in Context
  BY DEF NoContext, Context
<1>2. context' \in [Slots -> Context]
  BY <1>1
<1>3. storage' \in [Incarnations -> {"none", "live", "freed"}]
  BY DEF FreeBlock
<1> QED
  BY <1>2, <1>3

(* The parts of IInv about the table, the queue and the CPUs that a reclaim *)
(* could disturb; the reclaiming flow is neither popping nor building.      *)
LEMMA ReclaimKeeps ==
    ASSUME IInv, ~Undefined, NEW s \in Slots, state[s] = "DONE", Reclaim(s),
           UNCHANGED <<ready_queue, current_threads, on>>,
           \A d \in CPUs : pc'[d] = "claimed" <=> pc[d] = "claimed",
           \A d \in CPUs : pc[d] \in {"claimed", "switched"} => polled'[d] = polled[d],
           \A g \in Flows : IsBuilding(g)' <=> IsBuilding(g),
           \A g \in Flows : IsBuilding(g) => slot'[g] = slot[g],
           \A g \in Flows : pc'[g] = "fill" <=> pc[g] = "fill",
           \A u \in Incarnations : pc'[u] = pc[u] \/ (pc[u] \in InThread /\ pc'[u] \in InThread),
           UNCHANGED handle
    PROVE  QueueInv' /\ HeldInv' /\ NotLost' /\ StorageInv' /\ RunInv' /\ SaveInv'
<1> USE Defined, DisjointAssumption
<1> DEFINE t == block[s]
<1>1. /\ t \in Incarnations /\ storage[t] = "live" /\ \A x \in Slots \ {s} : block[x] # t
      /\ storage'[t] = "freed" /\ \A u \in Incarnations \ {t} : storage'[u] = storage[u]
      /\ state'[s] = "FREE" /\ block'[s] = None /\ detached'[s] = FALSE
      /\ \A x \in Slots \ {s} : /\ state'[x] = state[x] /\ block'[x] = block[x]
                                /\ detached'[x] = detached[x] /\ context'[x] = context[x]
  BY ReclaimFacts
<1> HIDE DEF t
<1>2. /\ \A i \in 1 .. Len(ready_queue) : ready_queue[i] \in Slots /\ ready_queue[i] # s
      /\ \A d \in CPUs : pc[d] = "claimed" => polled[d] \in Slots \ {s}
      /\ \A g \in Flows : IsBuilding(g) => slot[g] \in Slots \ {s}
      /\ \A d \in CPUs : current_threads[d] # None => current_threads[d] \in Slots \ {s}
  <2>1. \A i \in 1 .. Len(ready_queue) : ready_queue[i] \in Slots
    BY ElementOfSeq DEF TypeOK
  <2> QED
    BY <2>1 DEF QueueInv, HeldInv, CpuInv, TypeOK
<1>3. QueueInv'
  BY <1>1, <1>2 DEF QueueInv
<1>4. HeldInv'
  <2>1. \A d \in CPUs : pc'[d] = "claimed" => polled'[d] = polled[d] /\ state'[polled[d]] = "READY"
    BY <1>1, <1>2 DEF HeldInv
  <2>2. \A g \in Flows : IsBuilding(g) => slot'[g] = slot[g] /\ state'[slot[g]] = "READY"
    BY <1>1, <1>2 DEF HeldInv
  <2>3. \A d \in CPUs : current_threads[d] # None => state'[current_threads[d]] = "RUNNING"
    BY <1>1, <1>2 DEF HeldInv
  <2> QED
    BY <2>1, <2>2, <2>3 DEF HeldInv
<1>5. NotLost'
  <2>1. \A d \in CPUs : pc[d] = "claimed" => pc'[d] = "claimed" /\ polled'[d] = polled[d]
    OBVIOUS
  <2>2. \A x \in Slots : state'[x] \in {"READY", "RUNNING"} => state'[x] = state[x]
    BY <1>1
  <2> QED
    BY <2>1, <2>2 DEF NotLost
<1>6. StorageInv'
  <2>1. ASSUME NEW x \in Slots
        PROVE  /\ state'[x] = "FREE" => block'[x] = None /\ ~detached'[x]
               /\ block'[x] = None =>
                     \/ state'[x] = "FREE"
                     \/ \E g \in Flows : pc'[g] = "fill" /\ slot'[g] = x
               /\ block'[x] # None =>
                     /\ storage'[block'[x]] = "live"
                     /\ context'[x].rip # InFinish => context'[x].flow = block'[x]
    <3>1. CASE x = s
      BY <1>1, <3>1
    <3>2. CASE x # s
      <4>1. \A g \in Flows : pc[g] = "fill" => pc'[g] = "fill" /\ slot'[g] = slot[g]
        BY DEF IsBuilding
      <4>2. block[x] # None => block[x] \in Incarnations \ {t}
        BY <1>1, <3>2 DEF TypeOK
      <4> QED
        BY <1>1, <3>2, <4>1, <4>2 DEF StorageInv
    <3> QED
      BY <3>1, <3>2
  <2>2. \A x, y \in Slots : x # y /\ block'[x] # None => block'[x] # block'[y]
    BY <1>1 DEF StorageInv
  <2>3. \A u \in Incarnations : storage'[u] = "none" => pc'[u] = "unborn" /\ handle'[u] = None
    BY <1>1 DEF StorageInv, InThread
  <2> QED
    BY <2>1, <2>2, <2>3 DEF StorageInv
<1>7. RunInv'
  <2>1. ASSUME NEW x \in Slots PROVE SlotRun(x)'
    <3>1. SlotRun(x) /\ (block[x] # None => block[x] \in Incarnations)
      BY DEF RunInv, TypeOK
    <3> QED
      BY <1>1, <3>1 DEF SlotRun, InThread
  <2>2. ASSUME NEW d \in CPUs PROVE CpuRun(d)'
    <3>1. CpuRun(d) /\ (on[d] # d => on[d] \in Incarnations /\ pc[d] = "switched" /\ polled[d] \in Slots)
      BY DEF RunInv, CpuInv
    <3> QED
      BY <1>1, <1>2, <3>1 DEF CpuRun, OffCpu, InThread
  <2> QED
    BY <2>1, <2>2 DEF RunInv, InThread, BootOnly
<1>8. SaveInv'
  <2>1. \A x \in Slots : block[x] # None => block[x] \in Incarnations
    BY DEF TypeOK
  <2>2. \A u \in Incarnations : /\ pc'[u] = "yielding" => pc[u] = "yielding"
                                /\ pc'[u] = "yielded" => pc[u] = "yielded"
    BY DEF InThread
  <2> QED
    BY <1>1, <2>1, <2>2 DEF SaveInv
<1> QED
  BY <1>3, <1>4, <1>5, <1>6, <1>7, <1>8

(* No handle and no join in progress refers to a slot reclaimed by another. *)
LEMMA ReclaimOthers ==
    ASSUME IInv, ~Undefined, NEW s \in Slots, state[s] = "DONE", Reclaim(s), UNCHANGED handle
    PROVE  /\ \A g \in Flows : target[g] # None /\ slot[g] # s =>
                 /\ target[g] \in Incarnations \ {block[s]} /\ slot[g] \in Slots
                 /\ storage'[target[g]] = "live" /\ ~detached'[slot[g]]
                 /\ state'[slot[g]] = state[slot[g]] /\ block'[slot[g]] = block[slot[g]]
           /\ (\A u \in Incarnations : handle[u] # s) => \A u \in Incarnations : OpenInv(u)'
<1> USE Defined
<1> DEFINE t == block[s]
<1>1. /\ t \in Incarnations /\ storage[t] = "live" /\ \A x \in Slots \ {s} : block[x] # t
      /\ storage'[t] = "freed" /\ \A u \in Incarnations \ {t} : storage'[u] = storage[u]
      /\ \A x \in Slots \ {s} : state'[x] = state[x] /\ block'[x] = block[x] /\ detached'[x] = detached[x]
  BY ReclaimFacts
<1>2. ASSUME NEW g \in Flows, target[g] # None, slot[g] # s
      PROVE  /\ target[g] \in Incarnations \ {t} /\ slot[g] \in Slots
             /\ storage'[target[g]] = "live" /\ ~detached'[slot[g]]
             /\ state'[slot[g]] = state[slot[g]] /\ block'[slot[g]] = block[slot[g]]
  <2>1. TargetInv(g) /\ target[g] \in Incarnations
    BY <1>2 DEF HandleInv, TypeOK
  <2>2. target[g] # t
    BY <1>1, <1>2, <2>1 DEF TargetInv
  <2> HIDE DEF t
  <2> QED
    BY <1>1, <1>2, <2>1, <2>2 DEF TargetInv
<1>3. (\A u \in Incarnations : handle[u] # s) => \A u \in Incarnations : OpenInv(u)'
  <2>1. \A u \in Incarnations : handle[u] # None => handle[u] \in Slots
    BY DEF TypeOK
  <2> QED
    BY <1>1, <2>1 DEF HandleInv, OpenInv
<1> QED
  BY <1>2, <1>3

(* idle_poll after the switch back, with or without a reclaim.              *)
LEMMA IdlePollReturnStep ==
    ASSUME IInv, panic = "none", ~Undefined, NEW c \in CPUs, IdlePollReturn(c)
    PROVE  IInv'
<1> USE Defined, DisjointAssumption
<1> DEFINE s == polled[c]
           to == IF c = BSP THEN "join" ELSE "idle"
<1>1. /\ on[c] = c /\ pc[c] = "returned" /\ s \in Slots /\ current_threads[c] = None /\ tls[c] = c
  BY DEF IdlePollReturn, Runs, CpuInv
<1>2. /\ polled' = [polled EXCEPT ![c] = None]
      /\ pc' = [pc EXCEPT ![c] = to]
      /\ UNCHANGED <<ready_queue, current_threads, tls, on, slot, target, join_cpu, handle, owner>>
  BY <1>1 DEF IdlePollReturn, ActivateTls, client, TypeOK
<1> HIDE DEF to
<1>3. /\ pc'[c] = to /\ \A g \in Flows \ {c} : pc'[g] = pc[g]
      /\ \A d \in CPUs \ {c} : polled'[d] = polled[d]
      /\ CPUs \subseteq Flows /\ Incarnations \subseteq Flows /\ c \notin Incarnations
      /\ to \in {"join", "idle"} /\ (to = "join" <=> c = BSP)
  BY <1>2 DEF TypeOK, Flows, to
<1>4. /\ \A g \in Flows : IsBuilding(g)' <=> IsBuilding(g)
      /\ \A g \in Flows : IsJoining(g)' <=> IsJoining(g)
      /\ \A g \in Flows : (pc'[g] = "fill" <=> pc[g] = "fill") /\ (pc'[g] = "join_lock" <=> pc[g] = "join_lock")
      /\ \A d \in CPUs : pc'[d] = "claimed" <=> pc[d] = "claimed"
      /\ \A d \in CPUs : pc[d] \in {"claimed", "switched"} => polled'[d] = polled[d]
      /\ \A u \in Incarnations : pc'[u] = pc[u]
  BY <1>1, <1>2, <1>3 DEF IsBuilding, IsJoining
<1>5. CpuInv'
  <2>1. \A d \in CPUs \ {c} : pc'[d] = pc[d] /\ polled'[d] = polled[d]
    BY <1>3
  <2> QED
    BY <1>1, <1>2, <1>3, <2>1 DEF CpuInv, InThread, BootOnly
<1>6. /\ pc' \in [Flows -> {"user", "fill", "enqueue", "join", "join_lock",
                         "idle", "hlt", "claimed", "switched", "returned",
                         "unborn", "yielding", "yielded", "finishing", "finished"}]
      /\ polled' \in [CPUs -> Slots \cup {None}]
  BY <1>2, <1>3 DEF TypeOK
<1>7. \A g \in Flows : PhaseInv(g)'
  BY <1>1, <1>2, <1>3, <1>4 DEF HandleInv, PhaseInv
<1>8. CASE ~IsAbandoned(s)
  <2>1. UNCHANGED <<state, detached, cpu_affinity, block, context, storage, panic>>
    BY <1>8 DEF IdlePollReturn, threads
  <2>2. TypeOK'
    BY <1>2, <1>6, <2>1 DEF TypeOK
  <2>3. QueueInv' /\ HeldInv' /\ NotLost' /\ StorageInv'
    <3>1. QueueInv'
      BY <1>2, <2>1 DEF QueueInv
    <3>2. HeldInv'
      BY <1>2, <1>4, <2>1 DEF HeldInv
    <3>3. NotLost'
      BY <1>2, <1>4, <2>1 DEF NotLost
    <3>4. StorageInv'
      BY <1>2, <1>4, <2>1 DEF StorageInv
    <3> QED
      BY <3>1, <3>2, <3>3, <3>4
  <2>4. RunInv'
    <3>1. ASSUME NEW x \in Slots PROVE SlotRun(x)'
      <4>1. SlotRun(x) /\ (block[x] # None => block[x] \in Incarnations)
        BY DEF RunInv, TypeOK
      <4> QED
        BY <1>4, <2>1, <4>1 DEF SlotRun
    <3>2. ASSUME NEW d \in CPUs PROVE CpuRun(d)'
      <4>1. CpuRun(d) /\ (on[d] # d => on[d] \in Incarnations /\ d # c)
        BY <1>1 DEF RunInv, CpuInv
      <4> QED
        BY <1>2, <1>3, <1>4, <2>1, <4>1 DEF CpuRun
    <3> QED
      BY <1>4, <3>1, <3>2 DEF RunInv
  <2>5. SaveInv'
    BY <1>2, <1>4, <2>1, SaveKept
  <2>6. HandleInv'
    <3>1. ASSUME NEW g \in Flows PROVE TargetInv(g)'
      <4>1. TargetInv(g) /\ (target[g] # None => target[g] \in Incarnations)
        BY DEF HandleInv, TypeOK
      <4> QED
        BY <1>2, <1>4, <2>1, <4>1 DEF TargetInv
    <3> QED
      BY <1>2, <1>7, <2>1, <3>1 DEF HandleInv, OpenInv
  <2>7. PanicInv'
    BY <2>1 DEF PanicInv, NoSchedulerPanic, NoHandlePanic
  <2> QED
    BY <1>5, <2>2, <2>3, <2>4, <2>5, <2>6, <2>7 DEF IInv
<1>9. CASE IsAbandoned(s)
  <2>1. Reclaim(s) /\ state[s] = "DONE" /\ detached[s]
    BY <1>9 DEF IdlePollReturn, IsAbandoned
  <2> HIDE DEF s
  <2>2. TypeOK'
    BY <1>1, <1>2, <1>6, <2>1, ReclaimTypeOK, ReclaimFacts DEF TypeOK
  <2>3. QueueInv' /\ HeldInv' /\ NotLost' /\ StorageInv' /\ RunInv' /\ SaveInv'
    <3>1. \A g \in Flows : IsBuilding(g) => slot'[g] = slot[g]
      BY <1>2
    <3> QED
      BY <1>1, <1>2, <1>4, <2>1, <3>1, ReclaimKeeps
  <2>4. HandleInv'
    <3>1. \A u \in Incarnations : handle[u] # s
      BY <1>1, <2>1 DEF HandleInv, OpenInv, Flows
    <3>2. ASSUME NEW g \in Flows PROVE TargetInv(g)'
      <4>1. TargetInv(g) /\ (target[g] # None => slot[g] # s)
        BY <2>1 DEF HandleInv, TargetInv
      <4>2. target[g] # None =>
                 /\ target[g] \in Incarnations /\ slot[g] \in Slots
                 /\ storage'[target[g]] = "live" /\ ~detached'[slot[g]]
                 /\ state'[slot[g]] = state[slot[g]] /\ block'[slot[g]] = block[slot[g]]
        BY <1>1, <1>2, <2>1, <4>1, ReclaimOthers
      <4>3. target[g] # None /\ pc[g] = "fill" => \A x \in Slots : block'[x] # target[g]
        <5>1. \A x \in Slots : block'[x] = None \/ block'[x] = block[x]
          BY <1>1, <2>1, ReclaimFacts
        <5> QED
          BY <4>1, <5>1 DEF TargetInv
      <4> QED
        BY <1>2, <1>4, <4>1, <4>2, <4>3 DEF TargetInv
    <3>3. \A u \in Incarnations : OpenInv(u)'
      BY <1>1, <1>2, <2>1, <3>1, ReclaimOthers
    <3> QED
      BY <1>7, <3>2, <3>3 DEF HandleInv
  <2>5. PanicInv'
    BY <1>1, <2>1, ReclaimFacts DEF PanicInv, NoSchedulerPanic, NoHandlePanic
  <2> QED
    BY <1>5, <2>2, <2>3, <2>4, <2>5 DEF IInv
<1> QED
  BY <1>8, <1>9

(* join's critical section, which reclaims the thread it waited for.        *)
LEMMA JoinReclaimStep ==
    ASSUME IInv, panic = "none", ~Undefined, NEW c \in CPUs, NEW f \in Flows, JoinReclaim(c, f)
    PROVE  IInv'
<1> USE Defined, DisjointAssumption
<1> DEFINE s == slot[f]
           t == target[f]
<1>1. /\ on[c] = f /\ pc[f] = "join_lock" /\ s \in Slots /\ state[s] = "DONE" /\ ~detached[s]
      /\ t # None /\ t \in Incarnations /\ block[s] = t
      /\ \A g \in Flows \ {f} : target[g] # t
  <2>1. on[c] = f /\ pc[f] = "join_lock"
    BY DEF JoinReclaim, Runs
  <2>2. PhaseInv(f) /\ TargetInv(f)
    BY DEF HandleInv
  <2>3. t # None
    BY <2>1, <2>2 DEF PhaseInv
  <2>4. t \in Incarnations
    BY <2>3 DEF TypeOK
  <2> QED
    BY <2>1, <2>2, <2>3, <2>4 DEF TargetInv
<1>2. /\ Reclaim(s)
      /\ slot' = [slot EXCEPT ![f] = None]
      /\ target' = [target EXCEPT ![f] = None]
      /\ join_cpu' = [join_cpu EXCEPT ![f] = None]
      /\ pc' = [pc EXCEPT ![f] = "user"]
      /\ UNCHANGED <<ready_queue, current_threads, tls, on, polled, handle, owner>>
  BY <1>1 DEF JoinReclaim
<1> HIDE DEF s, t
<1>3. /\ pc'[f] = "user" /\ target'[f] = None
      /\ \A g \in Flows \ {f} : /\ pc'[g] = pc[g] /\ target'[g] = target[g]
                                /\ slot'[g] = slot[g] /\ join_cpu'[g] = join_cpu[g]
      /\ CPUs \subseteq Flows /\ Incarnations \subseteq Flows
  BY <1>2 DEF TypeOK, Flows
<1>4. /\ \A g \in Flows : IsBuilding(g)' <=> IsBuilding(g)
      /\ \A g \in Flows : IsBuilding(g) => slot'[g] = slot[g]
      /\ \A g \in Flows : (pc'[g] = "fill" <=> pc[g] = "fill") /\ (pc'[g] = "join_lock" => pc[g] = "join_lock")
      /\ \A g \in Flows \ {f} : IsJoining(g)' <=> IsJoining(g)
      /\ \A d \in CPUs : pc'[d] = "claimed" <=> pc[d] = "claimed"
      /\ \A u \in Incarnations : pc'[u] = pc[u] \/ (pc[u] \in InThread /\ pc'[u] \in InThread)
  BY <1>1, <1>3 DEF IsBuilding, IsJoining, InThread
<1>5. TypeOK'
  <2>1. /\ slot' \in [Flows -> Slots \cup {None}] /\ target' \in [Flows -> Incarnations \cup {None}]
        /\ join_cpu' \in [Flows -> CPUs \cup {None}]
        /\ pc' \in [Flows -> {"user", "fill", "enqueue", "join", "join_lock",
                         "idle", "hlt", "claimed", "switched", "returned",
                         "unborn", "yielding", "yielded", "finishing", "finished"}]
    BY <1>2 DEF TypeOK
  <2> QED
    BY <1>1, <1>2, <2>1, ReclaimTypeOK, ReclaimFacts DEF TypeOK
<1>6. CpuInv'
  <2>1. \A d \in CPUs : pc'[d] = pc[d] \/ (d = f /\ pc[d] = "join_lock" /\ pc'[d] = "user")
    BY <1>1, <1>3
  <2> QED
    BY <1>2, <2>1 DEF CpuInv, InThread, BootOnly
<1>7. QueueInv' /\ HeldInv' /\ NotLost' /\ StorageInv' /\ RunInv' /\ SaveInv'
  BY <1>1, <1>2, <1>4, ReclaimKeeps
<1>8. HandleInv'
  <2>1. ASSUME NEW g \in Flows PROVE PhaseInv(g)'
    <3>1. CASE g = f
      BY <1>3, <3>1 DEF PhaseInv, IsJoining
    <3>2. CASE g # f
      BY <1>3, <1>4, <3>2 DEF HandleInv, PhaseInv
    <3> QED
      BY <3>1, <3>2
  <2>2. ASSUME NEW g \in Flows PROVE TargetInv(g)'
    <3>1. CASE g = f
      BY <1>3, <3>1 DEF TargetInv
    <3>2. CASE g # f
      <4>1. TargetInv(g) /\ (target[g] # None => slot[g] # s /\ target[g] \in Incarnations)
        <5>1. TargetInv(g) /\ (target[g] # None => target[g] \in Incarnations)
          BY DEF HandleInv, TypeOK
        <5>2. pc[g] = "fill" /\ target[g] # None => block[slot[g]] = None
          BY <5>1 DEF TargetInv
        <5>3. pc[g] # "fill" /\ target[g] # None => block[slot[g]] = target[g] /\ target[g] # t
          BY <1>1, <3>2, <5>1 DEF TargetInv
        <5> QED
          BY <1>1, <5>1, <5>2, <5>3
      <4>2. target[g] # None =>
                 /\ storage'[target[g]] = "live" /\ ~detached'[slot[g]]
                 /\ state'[slot[g]] = state[slot[g]] /\ block'[slot[g]] = block[slot[g]]
        BY <1>1, <1>2, <4>1, ReclaimOthers
      <4>3. target[g] # None /\ pc[g] = "fill" => \A x \in Slots : block'[x] # target[g]
        <5>1. \A x \in Slots : block'[x] = None \/ block'[x] = block[x]
          BY <1>1, <1>2, ReclaimFacts
        <5> QED
          BY <4>1, <5>1 DEF TargetInv
      <4>4. target[g] # None /\ IsBuilding(g) => pc'[target[g]] = "unborn"
        BY <1>1, <1>3, <4>1 DEF TargetInv
      <4>5. target[g] # None => \A h \in Flows \ {g} : target'[h] # target'[g]
        BY <1>3, <3>2, <4>1 DEF TargetInv
      <4> QED
        BY <1>2, <1>3, <1>4, <3>2, <4>1, <4>2, <4>3, <4>4, <4>5 DEF TargetInv
    <3> QED
      BY <3>1, <3>2
  <2>3. \A u \in Incarnations : OpenInv(u)'
    <3>1. handle[t] = None
      BY <1>1 DEF HandleInv, TargetInv, t
    <3>2. \A u \in Incarnations : handle[u] # s
      BY <1>1, <3>1 DEF HandleInv, OpenInv, Flows
    <3> QED
      BY <1>1, <1>2, <3>2, ReclaimOthers
  <2> QED
    BY <2>1, <2>2, <2>3 DEF HandleInv
<1>9. PanicInv'
  BY <1>1, <1>2, ReclaimFacts DEF PanicInv, NoSchedulerPanic, NoHandlePanic
<1> QED
  BY <1>5, <1>6, <1>7, <1>8, <1>9 DEF IInv

(* A handle that is not used yet denotes the slot of its own thread.        *)
LEMMA OpenHandle ==
    ASSUME IInv, ~Undefined, NEW t \in Incarnations, handle[t] # None
    PROVE  /\ handle[t] \in Slots /\ block[handle[t]] = t /\ ~detached[handle[t]]
           /\ state[handle[t]] # "FREE" /\ storage[t] = "live"
           /\ \A g \in Flows : target[g] # None => target[g] # t /\ slot[g] # handle[t]
           /\ \A u \in Incarnations \ {t} : handle[u] # None => handle[u] # handle[t]
<1> USE Defined, DisjointAssumption
<1> DEFINE s == handle[t]
<1>1. s \in Slots /\ block[s] = t /\ ~detached[s]
  BY DEF HandleInv, OpenInv, TypeOK
<1>2. t # None
  BY DEF Flows
<1>3. state[s] # "FREE" /\ storage[t] = "live"
  BY <1>1, <1>2 DEF StorageInv
<1>4. ASSUME NEW g \in Flows, target[g] # None PROVE target[g] # t /\ slot[g] # s
  <2>1. TargetInv(g)
    BY DEF HandleInv
  <2>2. target[g] # t
    BY <1>4, <2>1 DEF TargetInv
  <2> QED
    BY <1>1, <1>2, <1>4, <2>1, <2>2 DEF TargetInv
<1>5. \A u \in Incarnations \ {t} : handle[u] # None => handle[u] # s
  BY <1>1 DEF HandleInv, OpenInv
<1> QED
  BY <1>1, <1>3, <1>4, <1>5

(* detach flags the slot and gives up the handle.                           *)
LEMMA DetachStep ==
    ASSUME IInv, panic = "none", ~Undefined,
           NEW c \in CPUs, NEW f \in Flows, NEW t \in Incarnations, Detach(c, f, t)
    PROVE  IInv'
<1> USE Defined, DisjointAssumption
<1> DEFINE s == handle[t]
<1>0. handle[t] # None
  BY DEF Detach
<1>1. /\ s \in Slots /\ block[s] = t /\ ~detached[s] /\ state[s] # "FREE"
      /\ \A g \in Flows : target[g] # None => target[g] # t /\ slot[g] # s
      /\ \A u \in Incarnations \ {t} : handle[u] # None => handle[u] # s
  BY <1>0, OpenHandle
<1>2. CASE state[s] = "DONE"
  BY <1>1, <1>2, CallerPanic DEF Detach, OtherPanics
<1>3. CASE state[s] # "DONE"
  <2>1. /\ detached' = [detached EXCEPT ![s] = TRUE]
        /\ handle' = [handle EXCEPT ![t] = None]
        /\ UNCHANGED <<state, cpu_affinity, block, context, ready_queue, current_threads,
                       tls, on, pc, polled, slot, target, join_cpu, storage, owner, panic>>
    BY <1>1, <1>3 DEF Detach
  <2> HIDE DEF s
  <2>2. /\ \A x \in Slots \ {s} : detached'[x] = detached[x]
        /\ handle'[t] = None /\ \A u \in Incarnations \ {t} : handle'[u] = handle[u]
    BY <1>1, <2>1 DEF TypeOK
  <2>3. TypeOK'
    BY <2>1 DEF TypeOK
  <2>4. CpuInv' /\ QueueInv' /\ HeldInv' /\ NotLost'
    BY <2>1 DEF CpuInv, QueueInv, HeldInv, NotLost, IsBuilding
  <2>5. StorageInv'
    BY <1>1, <2>1, <2>2 DEF StorageInv
  <2>6. RunInv' /\ SaveInv'
    BY <2>1 DEF RunInv, SlotRun, CpuRun, SaveInv
  <2>7. HandleInv'
    <3>1. \A g \in Flows : PhaseInv(g)'
      BY <2>1 DEF HandleInv, PhaseInv, IsJoining, IsBuilding
    <3>2. ASSUME NEW g \in Flows PROVE TargetInv(g)'
      <4>1. TargetInv(g) /\ (target[g] # None => target[g] \in Incarnations)
        BY DEF HandleInv, TypeOK
      <4> QED
        BY <1>1, <2>1, <2>2, <4>1 DEF TargetInv, IsJoining, IsBuilding
    <3>3. \A u \in Incarnations : OpenInv(u)'
      <4>1. \A u \in Incarnations : handle[u] # None => handle[u] \in Slots
        BY DEF TypeOK
      <4> QED
        BY <1>1, <2>1, <2>2, <4>1 DEF HandleInv, OpenInv
    <3> QED
      BY <3>1, <3>2, <3>3 DEF HandleInv
  <2>8. PanicInv'
    BY <2>1 DEF PanicInv, NoSchedulerPanic, NoHandlePanic
  <2> QED
    BY <2>3, <2>4, <2>5, <2>6, <2>7, <2>8 DEF IInv
<1> QED
  BY <1>2, <1>3

(* Entering join turns the handle into the slot it waits on.                *)
LEMMA JoinBeginStep ==
    ASSUME IInv, panic = "none", ~Undefined,
           NEW c \in CPUs, NEW f \in Flows, NEW t \in Incarnations, JoinBegin(c, f, t)
    PROVE  IInv'
<1> USE Defined, DisjointAssumption
<1> DEFINE s == handle[t]
<1>0. handle[t] # None /\ on[c] = f /\ pc[f] = "user"
  BY DEF JoinBegin, Runs
<1>1. /\ s \in Slots /\ block[s] = t /\ ~detached[s] /\ state[s] # "FREE" /\ storage[t] = "live"
      /\ \A g \in Flows : target[g] # None => target[g] # t
      /\ t # None
  BY <1>0, OpenHandle DEF Flows
<1>2. /\ slot' = [slot EXCEPT ![f] = s]
      /\ target' = [target EXCEPT ![f] = t]
      /\ join_cpu' = [join_cpu EXCEPT ![f] = c]
      /\ handle' = [handle EXCEPT ![t] = None]
      /\ pc' = [pc EXCEPT ![f] = "join"]
      /\ UNCHANGED <<state, detached, cpu_affinity, block, context, ready_queue, current_threads,
                     tls, on, polled, storage, owner, panic>>
  BY DEF JoinBegin, threads
<1> HIDE DEF s
<1>3. /\ pc'[f] = "join" /\ target'[f] = t /\ slot'[f] = s /\ join_cpu'[f] = c
      /\ \A g \in Flows \ {f} : /\ pc'[g] = pc[g] /\ target'[g] = target[g]
                                /\ slot'[g] = slot[g] /\ join_cpu'[g] = join_cpu[g]
      /\ handle'[t] = None /\ \A u \in Incarnations \ {t} : handle'[u] = handle[u]
      /\ CPUs \subseteq Flows /\ Incarnations \subseteq Flows
  BY <1>2 DEF TypeOK, Flows
<1>4. /\ \A g \in Flows : IsBuilding(g)' <=> IsBuilding(g)
      /\ \A g \in Flows : IsBuilding(g) => slot'[g] = slot[g]
      /\ \A g \in Flows : (pc'[g] = "fill" <=> pc[g] = "fill") /\ (pc'[g] = "join_lock" => pc[g] = "join_lock")
      /\ \A g \in Flows \ {f} : IsJoining(g)' <=> IsJoining(g)
      /\ \A d \in CPUs : pc'[d] = "claimed" <=> pc[d] = "claimed"
      /\ \A g \in Flows : pc'[g] = pc[g] \/ (pc[g] = "user" /\ pc'[g] = "join")
  BY <1>0, <1>3 DEF IsBuilding, IsJoining
<1>5. TypeOK'
  <2>1. /\ slot' \in [Flows -> Slots \cup {None}] /\ target' \in [Flows -> Incarnations \cup {None}]
        /\ join_cpu' \in [Flows -> CPUs \cup {None}] /\ handle' \in [Incarnations -> Slots \cup {None}]
    BY <1>1, <1>2 DEF TypeOK
  <2> QED
    BY <1>2, <2>1 DEF TypeOK
<1>6. CpuInv'
  <2>1. \A d \in CPUs : pc'[d] = pc[d] \/ (pc[d] = "user" /\ pc'[d] = "join")
    BY <1>3, <1>4
  <2> QED
    BY <1>2, <2>1 DEF CpuInv, InThread, BootOnly
<1>7. QueueInv' /\ HeldInv' /\ NotLost'
  <2>1. QueueInv'
    BY <1>2 DEF QueueInv
  <2>2. HeldInv'
    BY <1>2, <1>4 DEF HeldInv
  <2>3. NotLost'
    BY <1>2, <1>4 DEF NotLost
  <2> QED
    BY <2>1, <2>2, <2>3
<1>8. StorageInv'
  <2>1. \A g \in Flows : pc[g] = "fill" => pc'[g] = "fill" /\ slot'[g] = slot[g]
    BY <1>4 DEF IsBuilding
  <2>2. \A u \in Incarnations : storage[u] = "none" => pc'[u] = "unborn" /\ handle'[u] = None
    BY <1>1, <1>3, <1>4 DEF StorageInv
  <2> QED
    BY <1>2, <2>1, <2>2 DEF StorageInv
<1>9. RunInv'
  <2>1. ASSUME NEW x \in Slots PROVE SlotRun(x)'
    <3>1. SlotRun(x) /\ (block[x] # None => block[x] \in Flows)
      BY <1>3 DEF RunInv, TypeOK
    <3> QED
      BY <1>2, <1>4, <3>1 DEF SlotRun, InThread
  <2>2. ASSUME NEW d \in CPUs PROVE CpuRun(d)'
    <3>1. CpuRun(d) /\ on[d] \in Flows
      BY DEF RunInv, TypeOK
    <3> QED
      BY <1>2, <1>4, <3>1 DEF CpuRun, OffCpu, InThread
  <2> QED
    BY <1>3, <1>4, <2>1, <2>2 DEF RunInv, BootOnly
<1>10. SaveInv'
  BY <1>2, <1>3, <1>4, SaveKept
<1>11. HandleInv'
  <2>1. ASSUME NEW g \in Flows PROVE PhaseInv(g)'
    <3>1. CASE g = f
      <4>1. f = BSP => c = BSP
        BY <1>0, CpuAssumption DEF CpuInv
      <4> QED
        BY <1>1, <1>3, <3>1, <4>1 DEF PhaseInv
    <3>2. CASE g # f
      BY <1>3, <1>4, <3>2 DEF HandleInv, PhaseInv
    <3> QED
      BY <3>1, <3>2
  <2>2. ASSUME NEW g \in Flows PROVE TargetInv(g)'
    <3>1. CASE g = f
      BY <1>1, <1>2, <1>3, <3>1 DEF TargetInv, IsBuilding
    <3>2. CASE g # f
      <4>1. TargetInv(g) /\ (target[g] # None => target[g] \in Incarnations)
        BY DEF HandleInv, TypeOK
      <4>2. target[g] # None /\ IsBuilding(g) => pc'[target[g]] = "unborn"
        BY <1>3, <1>4, <4>1 DEF TargetInv
      <4>3. target[g] # None => /\ handle'[target[g]] = None
                                /\ \A h \in Flows \ {g} : target'[h] # target'[g]
        BY <1>1, <1>3, <3>2, <4>1 DEF TargetInv
      <4> QED
        BY <1>2, <1>3, <1>4, <3>2, <4>1, <4>2, <4>3 DEF TargetInv
    <3> QED
      BY <3>1, <3>2
  <2>3. \A u \in Incarnations : OpenInv(u)'
    BY <1>2, <1>3 DEF HandleInv, OpenInv
  <2> QED
    BY <2>1, <2>2, <2>3 DEF HandleInv
<1>12. PanicInv'
  BY <1>2 DEF PanicInv, NoSchedulerPanic, NoHandlePanic
<1> QED
  BY <1>5, <1>6, <1>7, <1>8, <1>9, <1>10, <1>11, <1>12 DEF IInv

(* kernel_main never yields in join: the CPU it started on runs no thread   *)
(* while kernel_main itself executes there.                                 *)
LEMMA JoinYieldStep ==
    ASSUME IInv, panic = "none", ~Undefined, NEW c \in CPUs, NEW f \in Flows, JoinYield(c, f)
    PROVE  IInv'
<1> USE Defined, DisjointAssumption
<1>1. on[c] = f /\ pc[f] = "join" /\ current_threads[join_cpu[f]] # None /\ YieldPublish(c, f)
  BY DEF JoinYield, Runs
<1>2. f \in Incarnations
  <2>1. CASE f = c
    <3>1. c = BSP
      BY <1>1, <2>1 DEF CpuInv, InThread
    <3>2. join_cpu[f] = c
      BY <1>1, <2>1, <3>1 DEF HandleInv, PhaseInv, IsJoining, IsBuilding
    <3> QED
      BY <1>1, <2>1, <3>2 DEF CpuInv
  <2>2. CASE f # c
    BY <1>1, <2>2 DEF CpuInv
  <2> QED
    BY <2>1, <2>2
<1> QED
  BY <1>1, <1>2, YieldPublishStep

-----------------------------------------------------------------------------
(* Every step of the kernel keeps the invariant.                            *)
LEMMA NextIInv == IInv /\ [Next]_vars => IInv'
<1> SUFFICES ASSUME IInv, [Next]_vars PROVE IInv'
  OBVIOUS
<1>1. CASE UNCHANGED vars
  <2> USE DEF vars, threads
  <2>1. TypeOK' /\ CpuInv' /\ QueueInv' /\ HeldInv' /\ NotLost' /\ StorageInv'
    BY <1>1 DEF IInv, TypeOK, CpuInv, QueueInv, HeldInv, NotLost, StorageInv, IsBuilding
  <2>2. Undefined' \/ (RunInv' /\ SaveInv' /\ HandleInv')
    BY <1>1 DEF IInv, Undefined, RunInv, SaveInv, SlotRun, CpuRun, HandleInv, PhaseInv, TargetInv,
                OpenInv, IsBuilding, IsJoining
  <2>3. PanicInv'
    BY <1>1 DEF IInv, PanicInv, NoSchedulerPanic, NoHandlePanic
  <2> QED
    BY <2>1, <2>2, <2>3 DEF IInv
<1>2. CASE Next
  <2>1. panic = "none" /\ ~Undefined
    BY <1>2 DEF Next
  <2>2. PICK c \in CPUs : Step(c)
    BY <1>2 DEF Next
  <2>3. ASSUME Idle(c) PROVE IInv'
    BY <2>1, <2>3, IdlePollClaimStep, IdlePollSwitchStep, IdlePollReturnStep, IdleHaltStep DEF Idle
  <2>4. ASSUME NEW f \in Flows, Client(c, f) PROVE IInv'
    BY <2>1, <2>4, CreateThreadStep, DetachStep, JoinBeginStep, FillThreadStep, EnqueueThreadStep,
       JoinYieldStep, JoinLeaveLoopStep, JoinReclaimStep DEF Client
  <2>5. ASSUME NEW f \in Flows, ThreadExit(c, f) PROVE IInv'
    <3>1. CASE Yield(c, f)
      BY <2>1, <3>1, YieldPublishStep DEF Yield, Runs
    <3> QED
      BY <2>1, <2>5, <3>1, YieldSwitchStep, FinishCurrentStep, FinishSwitchStep DEF ThreadExit
  <2> QED
    BY <2>2, <2>3, <2>4, <2>5 DEF Step
<1> QED
  BY <1>1, <1>2

(* The invariant holds in every reachable state, for every number of CPUs,  *)
(* slots and threads.                                                       *)
THEOREM Invariance == Spec => []IInv
BY InitIInv, NextIInv, PTL DEF Spec

(* The thread table keeps its shape.                                        *)
THEOREM TypeCorrect == Spec => []TypeOK
<1>1. IInv => TypeOK
  BY DEF IInv
<1> QED
  BY <1>1, Invariance, PTL

(* No assertion of the scheduler fails, and none of join and detach about   *)
(* reused slots.                                                            *)
THEOREM NoPanics == Spec => [](NoSchedulerPanic /\ NoHandlePanic)
<1>1. IInv => NoSchedulerPanic /\ NoHandlePanic
  BY DEF IInv, PanicInv
<1> QED
  BY <1>1, Invariance, PTL

(* join and detach never find another thread in the slot of their handle.   *)
THEOREM HandlesChecked == Spec => []NoHandlePanic
BY NoPanics, PTL

(* The holders of a slot, spelled out.                                      *)
LEMMA HolderCases ==
    ASSUME NEW s, NEW h \in Holders(s)
    PROVE  \/ \E k \in 1 .. Len(ready_queue) : h = <<"queue", k>> /\ ready_queue[k] = s
           \/ \E c \in CPUs : h = <<"claim", c>> /\ pc[c] = "claimed" /\ polled[c] = s
           \/ \E c \in CPUs : h = <<"run", c>> /\ current_threads[c] = s
           \/ \E f \in Flows : h = <<"spawn", f>> /\ IsBuilding(f) /\ slot[f] = s
BY DEF Holders, Queued, Claimed, Current, Building, IsBuilding

(* The invariant's view of who has a slot, restated for Holders.            *)
LEMMA HoldersDistinct ==
    ASSUME IInv, NEW s \in Slots
    PROVE  /\ \A g, h \in Holders(s) : g = h
           /\ \A h \in Holders(s) : h[1] = "run" => state[s] = "RUNNING"
           /\ \A h \in Holders(s) : h[1] # "run" => state[s] = "READY"
<1> USE DisjointAssumption
<1>0. TypeOK /\ CpuInv /\ QueueInv /\ HeldInv
  BY DEF IInv
<1>1. ASSUME NEW h \in Holders(s)
      PROVE  (h[1] = "run" => state[s] = "RUNNING") /\ (h[1] # "run" => state[s] = "READY")
  <2>1. CASE \E k \in 1 .. Len(ready_queue) : h = <<"queue", k>> /\ ready_queue[k] = s
    BY <1>0, <2>1 DEF QueueInv
  <2>2. CASE \E c \in CPUs : h = <<"claim", c>> /\ pc[c] = "claimed" /\ polled[c] = s
    BY <1>0, <2>2 DEF HeldInv
  <2>3. CASE \E c \in CPUs : h = <<"run", c>> /\ current_threads[c] = s
    BY <1>0, <2>3 DEF HeldInv
  <2>4. CASE \E f \in Flows : h = <<"spawn", f>> /\ IsBuilding(f) /\ slot[f] = s
    BY <1>0, <2>4 DEF HeldInv
  <2> QED
    BY <1>1, HolderCases, <2>1, <2>2, <2>3, <2>4
<1>2. ASSUME NEW g \in Holders(s), NEW h \in Holders(s) PROVE g = h
  <2>1. CASE state[s] = "RUNNING"
    <3>1. PICK c \in CPUs : g = <<"run", c>> /\ current_threads[c] = s
      BY <1>1, <2>1, HolderCases
    <3>2. PICK d \in CPUs : h = <<"run", d>> /\ current_threads[d] = s
      BY <1>1, <2>1, HolderCases
    <3>3. c = d
      BY <1>0, <3>1, <3>2 DEF HeldInv
    <3> QED
      BY <3>1, <3>2, <3>3
  <2>2. CASE state[s] = "READY"
    <3>1. g[1] # "run" /\ h[1] # "run"
      BY <1>1, <2>2
    <3>2. CASE \E k \in 1 .. Len(ready_queue) : g = <<"queue", k>> /\ ready_queue[k] = s
      BY <1>0, <3>1, <3>2, HolderCases DEF QueueInv, HeldInv
    <3>3. CASE \E c \in CPUs : g = <<"claim", c>> /\ pc[c] = "claimed" /\ polled[c] = s
      BY <1>0, <3>1, <3>3, HolderCases DEF HeldInv
    <3>4. CASE \E f \in Flows : g = <<"spawn", f>> /\ IsBuilding(f) /\ slot[f] = s
      BY <1>0, <3>1, <3>4, HolderCases DEF HeldInv
    <3> QED
      BY <3>1, <3>2, <3>3, <3>4, HolderCases
  <2> QED
    BY <1>1, <2>1, <2>2
<1> QED
  BY <1>1, <1>2

(* No thread is lost, and none can be run twice.                            *)
THEOREM OneHolder == Spec => []ExactlyOneHolder
<1>1. ASSUME IInv PROVE ExactlyOneHolder
  <2> SUFFICES ASSUME NEW s \in Slots
               PROVE  /\ state[s] = "READY" => \E h \in Holders(s) : h[1] # "run" /\ Holders(s) = {h}
                      /\ state[s] = "RUNNING" => \E c \in CPUs : Holders(s) = {<<"run", c>>}
                      /\ state[s] \in {"FREE", "DONE"} => Holders(s) = {}
    BY DEF ExactlyOneHolder
  <2>1. /\ \A g, h \in Holders(s) : g = h
        /\ \A h \in Holders(s) : h[1] = "run" => state[s] = "RUNNING"
        /\ \A h \in Holders(s) : h[1] # "run" => state[s] = "READY"
    BY <1>1, HoldersDistinct
  <2>2. CASE state[s] = "READY"
    <3>1. \E h : h \in Holders(s)
      <4>1. \A k \in 1 .. Len(ready_queue) : ready_queue[k] = s => <<"queue", k>> \in Holders(s)
        BY DEF Holders, Queued
      <4>2. \A c \in CPUs : pc[c] = "claimed" /\ polled[c] = s => <<"claim", c>> \in Holders(s)
        BY DEF Holders, Claimed
      <4>3. \A f \in Flows : IsBuilding(f) /\ slot[f] = s => <<"spawn", f>> \in Holders(s)
        BY DEF Holders, Building, IsBuilding
      <4>4. NotLost
        BY <1>1 DEF IInv
      <4> QED
        BY <2>2, <4>1, <4>2, <4>3, <4>4 DEF NotLost
    <3>2. PICK h : h \in Holders(s)
      BY <3>1
    <3>3. h[1] # "run" /\ Holders(s) = {h}
      BY <2>1, <2>2, <3>2
    <3> QED
      BY <2>2, <3>2, <3>3
  <2>3. CASE state[s] = "RUNNING"
    <3>1. PICK c \in CPUs : current_threads[c] = s
      BY <1>1, <2>3 DEF IInv, NotLost
    <3>2. <<"run", c>> \in Holders(s)
      BY <3>1 DEF Holders, Current
    <3>3. Holders(s) = {<<"run", c>>}
      BY <2>1, <3>2
    <3> QED
      BY <2>3, <3>3
  <2>4. CASE state[s] \in {"FREE", "DONE"}
    BY <2>1, <2>4
  <2>5. state[s] \in {"FREE", "READY", "RUNNING", "DONE"}
    BY <1>1 DEF IInv, TypeOK
  <2> QED
    BY <2>2, <2>3, <2>4, <2>5
<1> QED
  BY <1>1, Invariance, PTL

(* The storage of a thread that can still run is live.                      *)
THEOREM StackStaysLive == Spec => []RunnableHasStack
<1>1. ASSUME IInv PROVE RunnableHasStack
  <2> SUFFICES ASSUME NEW s \in Slots, NEW h \in Holders(s), h[1] # "spawn"
               PROVE  block[s] # None /\ storage[block[s]] = "live"
    BY DEF RunnableHasStack
  <2>1. state[s] # "FREE"
    BY <1>1, HoldersDistinct
  <2>2. ~ \E f \in Flows : pc[f] = "fill" /\ slot[f] = s
    <3>1. \A f \in Flows : pc[f] = "fill" /\ slot[f] = s => <<"spawn", f>> \in Holders(s)
      BY DEF Holders, Building
    <3>2. \A g \in Holders(s) : g = h
      BY <1>1, HoldersDistinct
    <3>3. \A f \in Flows : <<"spawn", f>> # h
      OBVIOUS
    <3> QED
      BY <3>1, <3>2, <3>3
  <2> QED
    BY <1>1, <2>1, <2>2, DisjointAssumption DEF IInv, StorageInv, Flows
<1> QED
  BY <1>1, Invariance, PTL

(* Thread code runs on its own TLS block.                                   *)
THEOREM OwnTls == Spec => []RunsOnOwnTls
<1>1. IInv => RunsOnOwnTls
  BY DEF IInv, CpuInv, RunsOnOwnTls
<1> QED
  BY <1>1, Invariance, PTL

(* A join reclaims the thread its handle was created for.                   *)
THEOREM JoinsItsThread == Spec => JoinReclaimsItsThread
<1> DEFINE Mine == \A f \in Flows : pc[f] = "join_lock" /\ pc'[f] = "user" => block[slot[f]] = target[f]
<1>1. IInv /\ [Next]_vars => [Mine]_vars
  <2> SUFFICES ASSUME IInv, Next, NEW f \in Flows, pc[f] = "join_lock"
               PROVE  block[slot[f]] = target[f]
    OBVIOUS
  <2>1. PhaseInv(f) /\ TargetInv(f)
    BY Defined DEF Next, HandleInv
  <2> QED
    BY <2>1 DEF PhaseInv, TargetInv
<1>2. (Spec => []IInv) /\ (Spec => [][Next]_vars)
  BY Invariance, PTL DEF Spec
<1>3. Spec => [][Mine]_vars
  BY <1>1, <1>2, PTL
<1> QED
  BY <1>3 DEF JoinReclaimsItsThread

-----------------------------------------------------------------------------
(* The refinement: one action at a time, what it does to the life of each   *)
(* thread.                                                                  *)
Gone == {"finishing", "finished"}

(* A step that moves neither storage nor the end of a thread is a stutter.  *)
LEMMA LifeKept ==
    ASSUME UNCHANGED storage,
           \A u \in Incarnations : pc[u] \in Gone <=> pc'[u] \in Gone
    PROVE  \A u \in Incarnations : Life(u)' = Life(u)
BY DEF Life, Gone

(* One thread moves on, the others keep their lives.                        *)
Moves(t, from, to) ==
    /\ t \in Incarnations /\ Life(t) = from /\ Life(t)' = to
    /\ \A u \in Incarnations \ {t} : Life(u)' = Life(u)

LifeStep ==
    \/ \A u \in Incarnations : Life(u)' = Life(u)
    \/ \E t \in Incarnations : Moves(t, "none", "live") \/ Moves(t, "live", "returned")
                               \/ Moves(t, "returned", "freed")

(* A step that moves one thread along its life is a step of ThreadLifecycle. *)
LEMMA LifeStepRefines ==
    ASSUME LifeStep
    PROVE  [Lifecycle!Next]_([t \in Incarnations |-> Life(t)])
<1> DEFINE life == [t \in Incarnations |-> Life(t)]
<1>1. CASE \A u \in Incarnations : Life(u)' = Life(u)
  BY <1>1
<1>2. ASSUME NEW t \in Incarnations, NEW from, NEW to, Moves(t, from, to)
      PROVE  Lifecycle!Move(t, from, to)
  BY <1>2 DEF Moves, Lifecycle!Move
<1> QED
  BY <1>1, <1>2 DEF LifeStep, Lifecycle!Next, Lifecycle!Spawn, Lifecycle!Return, Lifecycle!Reclaim

(* create_thread starts one life.                                           *)
LEMMA SpawnMoves ==
    ASSUME IInv, ~Undefined, NEW c \in CPUs, NEW f \in Flows, NEW t \in Incarnations, CreateThread(c, f, t)
    PROVE  LifeStep
<1> USE Defined DEF Gone
<1>1. CASE UNCHANGED <<storage, pc>>
  BY <1>1, LifeKept DEF LifeStep
<1>2. CASE ~UNCHANGED <<storage, pc>>
  <2>1. /\ storage' = [storage EXCEPT ![t] = "live"] /\ pc' = [pc EXCEPT ![f] = "fill"]
        /\ pc[f] = "user" /\ storage[t] = "none"
    BY <1>2 DEF CreateThread, Panic, Runs
  <2>2. pc[t] = "unborn" /\ f # t
    BY <2>1 DEF StorageInv
  <2>3. /\ storage'[t] = "live" /\ \A u \in Incarnations \ {t} : storage'[u] = storage[u]
        /\ \A u \in Incarnations : pc'[u] \in Gone <=> pc[u] \in Gone
    BY <2>1 DEF TypeOK, Flows
  <2>4. Moves(t, "none", "live")
    BY <2>1, <2>2, <2>3 DEF Moves, Life
  <2> QED
    BY <2>4 DEF LifeStep
<1> QED
  BY <1>1, <1>2

(* finish_current ends the code of one thread.                              *)
LEMMA FinishMoves ==
    ASSUME IInv, ~Undefined, NEW c \in CPUs, NEW f \in Flows, FinishCurrent(c, f)
    PROVE  LifeStep
<1> USE Defined DEF Gone
<1>1. f \in Incarnations /\ on[c] = f /\ pc[f] = "user"
  BY DEF FinishCurrent, Runs
<1>2. current_threads[c] \in Slots /\ block[current_threads[c]] = f
  BY <1>1, OnThread DEF InThread
<1>3. storage[f] = "live" /\ current_threads[c] # None
  BY <1>1, <1>2, DisjointAssumption DEF StorageInv, Flows
<1>4. UNCHANGED storage /\ pc' = [pc EXCEPT ![f] = "finishing"]
  BY <1>3 DEF FinishCurrent
<1>5. pc'[f] = "finishing" /\ \A u \in Incarnations \ {f} : pc'[u] = pc[u]
  BY <1>4 DEF TypeOK, Flows
<1>6. Moves(f, "live", "returned")
  BY <1>1, <1>3, <1>4, <1>5 DEF Moves, Life
<1> QED
  BY <1>1, <1>6 DEF LifeStep

(* reclaim() ends the life of a thread that has returned.                   *)
LEMMA ReclaimMoves ==
    ASSUME IInv, ~Undefined, NEW s \in Slots, state[s] = "DONE", Reclaim(s),
           \A u \in Incarnations : pc[u] \in Gone <=> pc'[u] \in Gone
    PROVE  LifeStep
<1>0. PICK t \in Incarnations : t = block[s]
  BY ReclaimFacts
<1>1. /\ storage[t] = "live" /\ storage'[t] = "freed"
      /\ \A u \in Incarnations \ {t} : storage'[u] = storage[u]
  BY <1>0, ReclaimFacts
<1>2. pc[t] \in Gone
  BY <1>0, Defined, DisjointAssumption DEF RunInv, SlotRun, Gone, Flows
<1>3. Life(t) = "returned" /\ Life(t)' = "freed"
  BY <1>1, <1>2 DEF Life, Gone
<1>4. \A u \in Incarnations \ {t} : Life(u)' = Life(u)
  BY <1>1 DEF Life, Gone
<1> QED
  BY <1>3, <1>4 DEF LifeStep, Moves

(* What the steps of idle_poll do to the lives.                             *)
LEMMA IdleMoves ==
    ASSUME IInv, panic = "none", ~Undefined, NEW c \in CPUs, Idle(c)
    PROVE  LifeStep
<1> USE Defined, DisjointAssumption DEF Gone
<1>1. \A u \in Incarnations : u \in Flows /\ u # c
  BY DEF Flows
<1>2. CASE IdlePollClaim(c)
  <2>1. UNCHANGED storage /\ pc' = [pc EXCEPT ![c] = "claimed"]
    BY <1>2 DEF IdlePollClaim
  <2> QED
    BY <1>1, <2>1, LifeKept DEF LifeStep, TypeOK
<1>3. CASE IdleHalt(c) \/ TimerTick(c)
  <2>1. UNCHANGED storage /\ \A u \in Incarnations : pc'[u] = pc[u]
    BY <1>1, <1>3 DEF IdleHalt, TimerTick, TypeOK
  <2> QED
    BY <2>1, LifeKept DEF LifeStep
<1>4. CASE IdlePollSwitch(c)
  <2> DEFINE s == polled[c]
             f == context[s].flow
  <2>1. s \in Slots /\ state[s] = "READY" /\ pc[c] = "claimed"
    BY <1>4 DEF IdlePollSwitch, Runs, CpuInv, HeldInv
  <2>2. CASE context[s].rip = InFinish
    <3>1. UNCHANGED storage /\ UNCHANGED pc
      BY <1>4, <2>1, <2>2 DEF IdlePollSwitch, Panic
    <3> QED
      BY <3>1, LifeKept DEF LifeStep
  <2>3. CASE context[s].rip # InFinish
    <3>1. block[s] # None
      <4>1. ~ \E g \in Flows : pc[g] = "fill" /\ slot[g] = s
        BY <2>1 DEF HeldInv, IsBuilding
      <4> QED
        BY <2>1, <4>1 DEF StorageInv
    <3>2. f = block[s] /\ f \in Incarnations /\ pc[f] \in {"unborn", "yielding", "yielded"}
      BY <2>1, <2>3, <3>1 DEF StorageInv, RunInv, SlotRun, TypeOK
    <3>3. \E to \in {"user", "join"} : UNCHANGED storage /\ pc' = [pc EXCEPT ![c] = "switched", ![f] = to]
      <4>1. AfterYield(f) \in {"user", "join"}
        BY DEF AfterYield
      <4> QED
        BY <1>4, <2>1, <2>3, <4>1 DEF IdlePollSwitch
    <3> HIDE DEF f
    <3>4. PICK to \in {"user", "join"} : UNCHANGED storage /\ pc' = [pc EXCEPT ![c] = "switched", ![f] = to]
      BY <3>3
    <3>5. \A u \in Incarnations : pc'[u] = IF u = f THEN to ELSE pc[u]
      BY <1>1, <3>2, <3>4 DEF TypeOK
    <3> QED
      BY <3>2, <3>4, <3>5, LifeKept DEF LifeStep
  <2> QED
    BY <2>2, <2>3
<1>5. CASE IdlePollReturn(c)
  <2>1. \A u \in Incarnations : pc'[u] = pc[u]
    BY <1>1, <1>5 DEF IdlePollReturn, TypeOK
  <2>2. polled[c] \in Slots
    BY <1>5 DEF IdlePollReturn, Runs, CpuInv
  <2>3. CASE IsAbandoned(polled[c])
    BY <1>5, <2>1, <2>2, <2>3, ReclaimMoves DEF IdlePollReturn, IsAbandoned
  <2>4. CASE ~IsAbandoned(polled[c])
    BY <1>5, <2>1, <2>4, LifeKept DEF IdlePollReturn, LifeStep
  <2> QED
    BY <2>3, <2>4
<1> QED
  BY <1>2, <1>3, <1>4, <1>5 DEF Idle

(* What the steps of the flows do to the lives.                             *)
LEMMA FlowMoves ==
    ASSUME IInv, panic = "none", ~Undefined, NEW c \in CPUs, NEW f \in Flows,
           Client(c, f) \/ ThreadExit(c, f)
    PROVE  LifeStep
<1> USE Defined, DisjointAssumption DEF Gone
<1>0. \A u \in Incarnations : u \in Flows /\ u # c
  BY DEF Flows
<1>1. ASSUME UNCHANGED storage,
             NEW a \in {"user", "fill", "enqueue", "join", "join_lock", "yielding"},
             NEW b \in {"user", "fill", "enqueue", "join", "join_lock", "yielding"},
             pc[f] = a, pc' = [pc EXCEPT ![f] = b]
      PROVE  LifeStep
  <2>1. \A u \in Incarnations : pc[u] \in Gone <=> pc'[u] \in Gone
    BY <1>0, <1>1 DEF TypeOK
  <2> QED
    BY <1>1, <2>1, LifeKept DEF LifeStep
<1>2. ASSUME UNCHANGED <<storage, pc>> PROVE LifeStep
  BY <1>2, LifeKept DEF LifeStep
<1>3. CASE \E t \in Incarnations : CreateThread(c, f, t)
  BY <1>3, SpawnMoves
<1>4. CASE \E t \in Incarnations : Detach(c, f, t)
  BY <1>2, <1>4 DEF Detach, Panic
<1>5. CASE \E t \in Incarnations : JoinBegin(c, f, t)
  BY <1>1, <1>5 DEF JoinBegin, Runs
<1>6. CASE FillThread(c, f)
  BY <1>1, <1>6 DEF FillThread, Runs
<1>7. CASE EnqueueThread(c, f)
  BY <1>1, <1>2, <1>7 DEF EnqueueThread, Runs, Panic
<1>8. CASE Yield(c, f) \/ JoinYield(c, f)
  BY <1>1, <1>2, <1>8 DEF Yield, JoinYield, YieldPublish, Runs, Panic
<1>9. CASE JoinLeaveLoop(c, f)
  BY <1>1, <1>9 DEF JoinLeaveLoop, Runs
<1>10. CASE JoinReclaim(c, f)
  <2>1. pc[f] = "join_lock" /\ slot[f] \in Slots /\ state[slot[f]] = "DONE" /\ ~detached[slot[f]]
    <3>1. pc[f] = "join_lock" /\ PhaseInv(f) /\ TargetInv(f)
      BY <1>10 DEF JoinReclaim, Runs, HandleInv
    <3> QED
      BY <3>1 DEF PhaseInv, TargetInv
  <2>2. Reclaim(slot[f]) /\ pc' = [pc EXCEPT ![f] = "user"]
    BY <1>10, <2>1 DEF JoinReclaim
  <2>3. \A u \in Incarnations : pc[u] \in Gone <=> pc'[u] \in Gone
    BY <1>0, <2>1, <2>2 DEF TypeOK
  <2> QED
    BY <2>1, <2>2, <2>3, ReclaimMoves
<1>11. CASE FinishCurrent(c, f)
  BY <1>11, FinishMoves
<1>12. CASE YieldSwitch(c, f) \/ FinishSwitch(c, f)
  <2>1. \E a, b : /\ UNCHANGED storage /\ pc[f] = a /\ pc' = [pc EXCEPT ![f] = b, ![c] = "returned"]
                  /\ <<a, b>> \in {<<"yielding", "yielded">>, <<"finishing", "finished">>}
    BY <1>12 DEF YieldSwitch, FinishSwitch, LeaveStack, Runs
  <2>2. UNCHANGED storage /\ \A u \in Incarnations : pc[u] \in Gone <=> pc'[u] \in Gone
    BY <1>0, <2>1 DEF TypeOK
  <2> QED
    BY <2>2, LifeKept DEF LifeStep
<1> QED
  BY <1>3, <1>4, <1>5, <1>6, <1>7, <1>8, <1>9, <1>10, <1>11, <1>12 DEF Client, ThreadExit

(* The table, the queue and the context switches implement the life cycle   *)
(* of ThreadLifecycle: a thread is spawned once, returns once, and its      *)
(* storage is freed once and only after that.                               *)
THEOREM Refinement == Spec => ImplementsLifecycle
<1>1. Init => Lifecycle!Init
  BY DEF Init, Lifecycle!Init, Life
<1>2. IInv /\ [Next]_vars => [Lifecycle!Next]_([t \in Incarnations |-> Life(t)])
  <2>1. ASSUME UNCHANGED vars PROVE UNCHANGED [t \in Incarnations |-> Life(t)]
    BY <2>1 DEF vars, Life
  <2>2. ASSUME IInv, Next PROVE LifeStep
    <3>1. PICK c \in CPUs : Step(c)
      BY <2>2 DEF Next
    <3> QED
      BY <2>2, <3>1, IdleMoves, FlowMoves DEF Next, Step
  <2> QED
    BY <2>1, <2>2, LifeStepRefines
<1> QED
  BY <1>1, <1>2, Invariance, PTL DEF Spec, ImplementsLifecycle, Lifecycle!Spec
=============================================================================
