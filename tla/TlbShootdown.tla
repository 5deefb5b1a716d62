---------------------------- MODULE TlbShootdown ----------------------------
(***************************************************************************)
(* tlb::shootdown of gameos/translation_lookaside_buffer.hh and the         *)
(* interrupt handler that answers it.  A translation is the number of times *)
(* its page table entry has been rewritten; a CPU may cache the current one *)
(* at any time.  All CPUs are online before the first shootdown.            *)
(***************************************************************************)
EXTENDS Integers, FiniteSets

CONSTANTS
    CPUs,
    Callers,        \* CPUs whose code changes mappings and calls shootdown
    Addresses,
    FLUSH_ALL,
    None,
    MAX_REMAPS      \* bound on the changes of a mapping

ASSUME CpuAssumption ==
    IsFiniteSet(CPUs) /\ CPUs # {} /\ Callers \subseteq CPUs /\ None \notin CPUs
ASSUME AddressAssumption == FLUSH_ALL \notin Addresses /\ None \notin Addresses \cup {FLUSH_ALL}
ASSUME RemapAssumption == MAX_REMAPS \in Nat

VARIABLES
    mapping,            \* per address: its current translation
    tlb,                \* per CPU and address: cached translation, or -1
    lock,               \* holder of Shootdown_State::lock
    virtual_address,
    acknowledgments,
    required_acknowledgments,
    interrupts,         \* per CPU: RFLAGS.IF
    pending,            \* CPUs whose local APIC holds the IPI
    pc,                 \* per CPU: where shootdown() is
    isr,                \* per CPU: where the handler is
    isr_address,        \* per CPU: the address the handler loaded
    address,            \* per CPU: shootdown's argument,
    required,           \*          the count it took on entry,
    unsent,             \*          CPUs its loop has not reached,
    due,                \*          the translations it must get rid of
    flushed             \* per address: translations below this were shot down

shared == <<virtual_address, acknowledgments, required_acknowledgments>>
handler == <<isr, isr_address>>
caller == <<address, required, unsent, due>>
vars == <<mapping, tlb, lock, shared, interrupts, pending, pc, handler, caller, flushed>>

Init ==
    /\ mapping = [a \in Addresses |-> 0]
    /\ tlb = [c \in CPUs |-> [a \in Addresses |-> -1]]
    /\ lock = None
    /\ virtual_address = FLUSH_ALL
    /\ acknowledgments = 0 /\ required_acknowledgments = 0
    /\ interrupts = [c \in CPUs |-> TRUE]
    /\ pending = {}
    /\ pc = [c \in CPUs |-> "run"]
    /\ isr = [c \in CPUs |-> "none"]
    /\ isr_address = [c \in CPUs |-> FLUSH_ALL]
    /\ address = [c \in CPUs |-> FLUSH_ALL]
    /\ required = [c \in CPUs |-> 0]
    /\ unsent = [c \in CPUs |-> {}]
    /\ due = [c \in CPUs |-> [a \in Addresses |-> 0]]
    /\ flushed = [a \in Addresses |-> 0]

-----------------------------------------------------------------------------
Covers(where, a) == where \in {a, FLUSH_ALL}
Executes(c, label) == pc[c] = label /\ isr[c] = "none"

flush_local(c, where) ==
    tlb' = [tlb EXCEPT ![c] = [a \in Addresses |-> IF Covers(where, a) THEN -1 ELSE @[a]]]

online_count_excluding_self_OffByOne(c) == Cardinality(CPUs \ {c}) - 1
online_count_excluding_self_WithSelf(c) == Cardinality(CPUs)
online_count_excluding_self(c) == Cardinality(CPUs \ {c})

(* The hardware walks the page tables for whatever the CPU runs.            *)
Walk(c, a) ==
    /\ tlb[c][a] # mapping[a]
    /\ tlb' = [tlb EXCEPT ![c][a] = mapping[a]]
    /\ UNCHANGED <<mapping, lock, shared, interrupts, pending, pc, handler, caller, flushed>>

(* Other code on the CPU enters and leaves sections with interrupts off.    *)
Disable(c) ==
    /\ Executes(c, "run") /\ interrupts[c]
    /\ interrupts' = [interrupts EXCEPT ![c] = FALSE]
    /\ UNCHANGED <<mapping, tlb, lock, shared, pending, pc, handler, caller, flushed>>

Enable(c) ==
    /\ Executes(c, "run") /\ ~interrupts[c]
    /\ interrupts' = [interrupts EXCEPT ![c] = TRUE]
    /\ UNCHANGED <<mapping, tlb, lock, shared, pending, pc, handler, caller, flushed>>

(* A caller rewrites page table entries and calls shootdown, which counts   *)
(* the other CPUs before it takes the lock.                                 *)
Call(c, where) ==
    LET remapped == [a \in Addresses |-> IF Covers(where, a) THEN mapping[a] + 1 ELSE mapping[a]] IN
    /\ Executes(c, "run") /\ c \in Callers /\ interrupts[c]
    /\ \A a \in Addresses : remapped[a] <= MAX_REMAPS
    /\ mapping' = remapped
    /\ address' = [address EXCEPT ![c] = where]
    /\ required' = [required EXCEPT ![c] = online_count_excluding_self(c)]
    /\ due' = [due EXCEPT ![c] = [a \in Addresses |->
                                    IF Covers(where, a) THEN remapped[a] ELSE flushed[a]]]
    /\ pc' = [pc EXCEPT ![c] = "counted"]
    /\ UNCHANGED <<tlb, lock, shared, interrupts, pending, handler, unsent, flushed>>

Max(m, n) == IF m > n THEN m ELSE n
Done(c) == flushed' = [a \in Addresses |-> Max(flushed[a], due[c][a])]

(* Alone, a CPU flushes and returns.  Otherwise scoped_irq_lock: interrupts *)
(* go off before the spinning starts.                                       *)
FlushAloneOrSpin(c) ==
    /\ Executes(c, "counted")
    /\ IF Cardinality(CPUs) <= 1
       THEN /\ flush_local(c, address[c])
            /\ Done(c)
            /\ pc' = [pc EXCEPT ![c] = "run"]
            /\ UNCHANGED interrupts
       ELSE /\ interrupts' = [interrupts EXCEPT ![c] = FALSE]
            /\ pc' = [pc EXCEPT ![c] = "spin"]
            /\ UNCHANGED <<tlb, flushed>>
    /\ UNCHANGED <<mapping, lock, shared, pending, handler, caller>>

TakeLock(c) ==
    /\ pc[c] = "spin" /\ lock = None
    /\ lock' = c
    /\ acknowledgments' = 0
    /\ required_acknowledgments' = required[c]
    /\ virtual_address' = address[c]
    /\ unsent' = [unsent EXCEPT ![c] = CPUs \ {c}]
    /\ pc' = [pc EXCEPT ![c] = "send"]
    /\ UNCHANGED <<mapping, tlb, interrupts, pending, handler, address, required, due, flushed>>

SendIpi(c, d) ==
    /\ pc[c] = "send" /\ d \in unsent[c]
    /\ pending' = pending \cup {d}
    /\ unsent' = [unsent EXCEPT ![c] = @ \ {d}]
    /\ UNCHANGED <<mapping, tlb, lock, shared, interrupts, pc, handler, address, required, due,
                   flushed>>

FlushSelf(c) ==
    /\ pc[c] = "send" /\ unsent[c] = {}
    /\ flush_local(c, address[c])
    /\ pc' = [pc EXCEPT ![c] = "wait"]
    /\ UNCHANGED <<mapping, lock, shared, interrupts, pending, handler, caller, flushed>>

\* Out of the loop: unlock, and interrupts back on.
Return(c) ==
    /\ pc[c] = "wait"
    /\ acknowledgments >= required_acknowledgments
    /\ lock' = None
    /\ interrupts' = [interrupts EXCEPT ![c] = TRUE]
    /\ Done(c)
    /\ pc' = [pc EXCEPT ![c] = "run"]
    /\ UNCHANGED <<mapping, tlb, shared, pending, handler, caller>>

-----------------------------------------------------------------------------
(* isr_handle_local_apic_tlb_shootdown, entered through an interrupt gate.  *)
IsrEnter(c) ==
    /\ c \in pending /\ interrupts[c] /\ isr[c] = "none"
    /\ pending' = pending \ {c}
    /\ interrupts' = [interrupts EXCEPT ![c] = FALSE]
    /\ isr_address' = [isr_address EXCEPT ![c] = virtual_address]
    /\ isr' = [isr EXCEPT ![c] = "loaded"]
    /\ UNCHANGED <<mapping, tlb, lock, shared, pc, caller, flushed>>

IsrFlush(c) ==
    /\ isr[c] = "loaded"
    /\ flush_local(c, isr_address[c])
    /\ isr' = [isr EXCEPT ![c] = "flushed"]
    /\ UNCHANGED <<mapping, lock, shared, interrupts, pending, pc, isr_address, caller, flushed>>

IsrAcknowledge(c) ==
    /\ isr[c] = "flushed"
    /\ acknowledgments' = acknowledgments + 1
    /\ isr' = [isr EXCEPT ![c] = "acknowledged"]
    /\ UNCHANGED <<mapping, tlb, lock, virtual_address, required_acknowledgments, interrupts,
                   pending, pc, isr_address, caller, flushed>>

IsrReturn(c) ==
    /\ isr[c] = "acknowledged"
    /\ interrupts' = [interrupts EXCEPT ![c] = TRUE]
    /\ isr' = [isr EXCEPT ![c] = "none"]
    /\ UNCHANGED <<mapping, tlb, lock, shared, pending, pc, isr_address, caller, flushed>>

Shootdown(c) ==
    \/ FlushAloneOrSpin(c) \/ TakeLock(c) \/ FlushSelf(c) \/ Return(c)
    \/ \E d \in CPUs : SendIpi(c, d)
Isr(c) == IsrEnter(c) \/ IsrFlush(c) \/ IsrAcknowledge(c) \/ IsrReturn(c)

Next ==
    \E c \in CPUs :
        \/ Shootdown(c) \/ Isr(c) \/ Disable(c) \/ Enable(c)
        \/ \E a \in Addresses : Walk(c, a)
        \/ \E where \in Addresses \cup {FLUSH_ALL} : Call(c, where)

Spec == Init /\ [][Next]_vars

(* Fairness.  A CPU executes what it is in the middle of; code that turned  *)
(* interrupts off turns them on again; the APIC delivers while they are on, *)
(* however short that is.                                                   *)
Fairness ==
    \A c \in CPUs :
        /\ WF_vars(Shootdown(c)) /\ WF_vars(Enable(c))
        /\ WF_vars(IsrFlush(c) \/ IsrAcknowledge(c) \/ IsrReturn(c))
        /\ SF_vars(IsrEnter(c))

FairSpec == Spec /\ Fairness

-----------------------------------------------------------------------------
TypeOK ==
    /\ mapping \in [Addresses -> 0 .. MAX_REMAPS]
    /\ tlb \in [CPUs -> [Addresses -> -1 .. MAX_REMAPS]]
    /\ lock \in CPUs \cup {None}
    /\ virtual_address \in Addresses \cup {FLUSH_ALL}
    /\ acknowledgments \in 0 .. Cardinality(CPUs) - 1
    /\ required_acknowledgments \in 0 .. Cardinality(CPUs) - 1
    /\ interrupts \in [CPUs -> BOOLEAN]
    /\ pending \subseteq CPUs
    /\ pc \in [CPUs -> {"run", "counted", "spin", "send", "wait"}]
    /\ isr \in [CPUs -> {"none", "loaded", "flushed", "acknowledged"}]
    /\ isr_address \in [CPUs -> Addresses \cup {FLUSH_ALL}]
    /\ address \in [CPUs -> Addresses \cup {FLUSH_ALL}]
    /\ required \in [CPUs -> Nat]
    /\ unsent \in [CPUs -> SUBSET CPUs]
    /\ due \in [CPUs -> [Addresses -> 0 .. MAX_REMAPS]]
    /\ flushed \in [Addresses -> 0 .. MAX_REMAPS]

(* Once shootdown() has returned, no CPU translates through an entry that   *)
(* was replaced before the call, whatever the handlers were doing.          *)
NoStaleTranslation ==
    \A c \in CPUs, a \in Addresses : tlb[c][a] = -1 \/ tlb[c][a] >= flushed[a]

(* An acknowledgment is for the shootdown that is waiting for it: none is   *)
(* outstanding when the lock is free, so none is counted for a later call.  *)
AcknowledgmentsMatch ==
    /\ acknowledgments <= required_acknowledgments
    /\ lock = None => pending = {} /\ \A c \in CPUs : isr[c] \in {"none", "acknowledged"}

(* shootdown() returns, although the other CPUs turn interrupts off now and *)
(* then, unless one CPU comes to spin for the lock while another holds it.  *)
ReturnsUnlessCrossed ==
    \A c \in CPUs :
        pc[c] # "run" ~> \/ pc[c] = "run"
                         \/ lock # None /\ \E d \in CPUs : pc[d] = "spin"

(* shootdown() returns.                                                     *)
ShootdownReturns == \A c \in CPUs : pc[c] # "run" ~> pc[c] = "run"

-----------------------------------------------------------------------------
(* What makes the two above inductive.  The lock is held by the CPU that    *)
(* sends or waits; one that spins for it, holds it or is in the handler has *)
(* interrupts off; no handler has yet to acknowledge when the lock is free. *)
Answering == {d \in CPUs : isr[d] \in {"loaded", "flushed"}}

LockDiscipline ==
    /\ \A c \in CPUs : lock = c <=> pc[c] \in {"send", "wait"}
    /\ \A c \in CPUs : pc[c] \in {"spin", "send", "wait"} => ~interrupts[c] /\ isr[c] = "none"
    /\ \A c \in CPUs : isr[c] # "none" => ~interrupts[c]
    /\ lock = None => pending = {} /\ Answering = {}

(* A call counts all the others, and owes what it remapped and no more than *)
(* earlier calls had already shot down.                                     *)
CallsOwe ==
    /\ \A a \in Addresses : flushed[a] <= mapping[a]
    /\ \A c \in CPUs : pc[c] # "run" =>
          /\ required[c] = Cardinality(CPUs \ {c})
          /\ \A a \in Addresses :
                /\ due[c][a] <= mapping[a]
                /\ Covers(address[c], a) \/ due[c][a] <= flushed[a]

(* While c holds the lock every other CPU is in one of four places: the IPI *)
(* is not sent, or pending, or being answered for c's own address, or the   *)
(* CPU is among the acknowledgments counted and rid of what c owes.         *)
Acknowledged(c) == CPUs \ ({c} \cup unsent[c] \cup pending \cup Answering)
Fresh(d, c) == \A a \in Addresses : tlb[d][a] = -1 \/ tlb[d][a] >= due[c][a]

Round(c) ==
    /\ virtual_address = address[c] /\ required_acknowledgments = required[c]
    /\ c \notin unsent[c] \cup pending
    /\ unsent[c] \cap pending = {} /\ (unsent[c] \cup pending) \cap Answering = {}
    /\ acknowledgments = Cardinality(Acknowledged(c))
    /\ \A d \in Answering : isr_address[d] = address[c]
    /\ \A d \in CPUs : d \in Acknowledged(c) \/ isr[d] = "flushed" => Fresh(d, c)
    /\ pc[c] = "wait" => unsent[c] = {} /\ Fresh(c, c)

RoundInProgress == \A c \in CPUs : lock = c => Round(c)

\* The shootdown's inductive invariant: an acknowledgment is for the call that waits
\* for it, so that no CPU keeps an entry that a finished call has flushed.
ShootdownSound ==
    /\ TypeOK
    /\ NoStaleTranslation
    /\ AcknowledgmentsMatch
    /\ LockDiscipline
    /\ CallsOwe
    /\ RoundInProgress
=============================================================================
