------------------------------ MODULE SmpBoot ------------------------------
(***************************************************************************)
(* ap::initialize_aps, the trampoline it copies to 0x7000, ap_main, and how *)
(* all CPUs are stopped by halt::forever.  CPU 0 is the bootstrap processor *)
(* (BSP); application processor (AP) p is entry p of the MADT.  The AP may  *)
(* be slow or never answer.  The trampoline's first eight breadcrumbs are   *)
(* one step: none of the slots the BSP rewrites is read between them.       *)
(***************************************************************************)
EXTENDS Integers, Sequences, FiniteSets

CONSTANTS
    APS,            \* the number of enabled APs
    MAX_PANICS      \* bound on the CPUs that fail an assertion by themselves

ASSUME SmpAssumption == APS \in Nat \ {0} /\ MAX_PANICS \in Nat

CPUs == 0 .. APS
APs == 1 .. APS
ApicId(c) == 10 * c             \* not the CPU's index
Stages == {"LM64", "STACK", "GS", "ENTRY64"}
NoSlot == -1

VARIABLES
    pc,             \* where each CPU is
    next,           \* the BSP's next_cpu_index
    page,           \* the slots of the trampoline page and its breadcrumbs
    taken,          \* what each AP read from the page: stack, core info, index
    online,         \* cpus_online: a set of indices
    lapic_id,       \* core_infos[i].lapic_id, zero until AP i has filled it in
    pending,        \* interprocessor interrupts on their way to a CPU
    stop_requested, panicking, hook,
    in_nmi,         \* the CPUs that have taken an NMI: its handler never returns
    panicked,       \* the CPUs that failed an assertion by themselves
    printed,        \* the CPUs that have printed their panic message
    destination,    \* the APIC id device IRQs are routed to
    reset           \* a fault without an IDT resets the machine

smpVars == <<pc, next, page, taken, online, lapic_id, pending, stop_requested, panicking, hook,
             in_nmi, panicked, printed, destination, reset>>
panicVars == <<pending, stop_requested, panicking, hook, in_nmi, panicked, printed, reset>>
bootVars == <<next, page, taken, online, lapic_id, destination>>

NoIdt == {"entry", "stack", "gs", "index", "online", "tables"}  \* the step it takes next
NoApic == NoIdt \cup {"core", "lapic"}
Asleep == {"off", "wait_sipi"}
PanicSteps == {"panic_hook", "panic_check", "panic_set", "print"}
Stopped == {"frozen", "halted"}

SmpInit ==
    /\ pc = [c \in CPUs |-> IF c = 0 THEN "start" ELSE "off"]
    /\ next = 1
    /\ page = [code |-> FALSE, stack |-> NoSlot, index |-> NoSlot, core |-> NoSlot, crumbs |-> {}]
    /\ taken = [p \in APs |-> [stack |-> NoSlot, index |-> NoSlot, core |-> NoSlot]]
    /\ online = {}
    /\ lapic_id = [c \in CPUs |-> 0]
    /\ pending = [c \in CPUs |-> {}]
    /\ stop_requested = FALSE /\ panicking = FALSE /\ hook = FALSE
    /\ in_nmi = {} /\ panicked = {} /\ printed = {} /\ destination = NoSlot /\ reset = FALSE

Goto(c, step) == pc' = [pc EXCEPT ![c] = step]
At(c, step) == ~reset /\ pc[c] = step

-----------------------------------------------------------------------------
\* The BSP.
initialize_aps ==
    /\ At(0, "start") /\ Goto(0, "prepare")
    /\ online' = {0} /\ hook' = TRUE
    /\ UNCHANGED <<next, page, taken, lapic_id, destination, pending, stop_requested, panicking, in_nmi,
                   panicked, printed, reset>>

Slot(step, after, newPage) ==
    /\ At(0, step) /\ Goto(0, after)
    /\ page' = newPage
    /\ UNCHANGED <<next, taken, online, lapic_id, destination, panicVars>>
\* The code, the addresses of its far jumps, a GDT, the page tables and the entry point.
prepare_trampoline == Slot("prepare", "clear", [page EXCEPT !.code = TRUE])
set_all_breadcrumbs_to_zero == Slot("clear", "new_stack", [page EXCEPT !.crumbs = {}])
set_up_a_new_stack == Slot("new_stack", "set_index", [page EXCEPT !.stack = next])
set_cpu_index == Slot("set_index", "set_core", [page EXCEPT !.index = next])
copy_pointer_to_core_info == Slot("set_core", "init", [page EXCEPT !.core = next])

\* INIT resets the AP; a SIPI starts it if it waits for one and is ignored otherwise.
send_init ==
    /\ At(0, "init") /\ pc' = [pc EXCEPT ![0] = "sipi1", ![next] = "wait_sipi"]
    /\ UNCHANGED <<bootVars, panicVars>>
send_sipi(step, after) ==
    /\ At(0, step)
    /\ pc' = [pc EXCEPT ![0] = after, ![next] = IF @ = "wait_sipi" THEN "started" ELSE @]
    /\ UNCHANGED <<bootVars, panicVars>>

WaitForAp_Forever == At(0, "wait") /\ next \in online
WaitForAp == At(0, "wait")      \* until it is online or RETRY_LIMIT is reached

wait_for_ap ==
    /\ WaitForAp /\ Goto(0, "check")
    /\ UNCHANGED <<bootVars, panicVars>>

BreadcrumbsOkay_NotAsserted == TRUE
BreadcrumbsOkay == page.crumbs = Stages

assert_breadcrumb_okay ==
    /\ At(0, "check")
    /\ \/ /\ BreadcrumbsOkay
          /\ Goto(0, IF next = APS THEN "route" ELSE "clear")
          /\ next' = next + 1
          /\ UNCHANGED panicked
       \/ /\ ~BreadcrumbsOkay
          /\ Goto(0, "panic_hook")
          /\ panicked' = panicked \cup {0}
          /\ UNCHANGED next
    /\ UNCHANGED <<page, taken, online, lapic_id, destination, pending, stop_requested, panicking,
                   hook, in_nmi, printed, reset>>

RouteTo(c) == lapic_id[c]

route_device_irqs_to_application_processor ==
    /\ At(0, "route") /\ Goto(0, "run")
    /\ destination' = IF online \cap APs = {} THEN destination
                      ELSE RouteTo(CHOOSE c \in online \cap APs : \A d \in online \cap APs : c <= d)
    /\ UNCHANGED <<next, page, taken, online, lapic_id, panicVars>>

-----------------------------------------------------------------------------
\* An AP, from its start-up IPI to its idle loop.
trampoline(p, step, after, crumb, slot) ==
    /\ page.code /\ At(p, step) /\ Goto(p, after)
    /\ page' = [page EXCEPT !.crumbs = @ \cup {crumb}]
    /\ taken' = IF slot = "none" THEN taken ELSE [taken EXCEPT ![p][slot] = page[slot]]
    /\ UNCHANGED <<next, online, lapic_id, destination, panicVars>>
smp_trampoline_start(p) ==
    /\ At(p, "started") /\ Goto(p, "entry")
    /\ reset' = ~page.code
    /\ UNCHANGED <<bootVars, pending, stop_requested, panicking, hook, in_nmi, panicked, printed>>
smp_trampoline_pm32(p) == trampoline(p, "entry", "stack", "LM64", "none")
smp_trampoline_lm64(p) ==
    \/ trampoline(p, "stack", "gs", "STACK", "stack")
    \/ trampoline(p, "gs", "index", "GS", "core")
    \/ trampoline(p, "index", "online", "ENTRY64", "index")

is_stop_requested_NeverPolled == FALSE
is_stop_requested == stop_requested

ap_main(p) ==
    LET me == taken[p].index
        Step(step, after) == At(p, step) /\ Goto(p, after) IN
    /\ \/ Step("online", "tables") /\ online' = online \cup {me} /\ UNCHANGED lapic_id
       \/ Step("tables", "core") /\ UNCHANGED <<online, lapic_id>>              \* GDT, IDT, its thread-local storage
       \/ Step("core", "lapic") /\ lapic_id' = [lapic_id EXCEPT ![me] = ApicId(p)] /\ UNCHANGED online
       \/ Step("lapic", "sti") /\ UNCHANGED <<online, lapic_id>>
       \/ Step("sti", "loop") /\ UNCHANGED <<online, lapic_id>>
       \/ /\ is_stop_requested /\ Step("loop", "frozen")
          /\ UNCHANGED <<online, lapic_id>>
    /\ UNCHANGED <<next, page, taken, destination, panicVars>>

-----------------------------------------------------------------------------
\* Panic and stop.
OutOfBounds == APS + 1

\* cpu_local::current() reads its pointer through %gs:0, null until the AP has filled in
\* its core info, which is after it loaded the IDT.
HasCoreInfo(c) == c \in APs => lapic_id[taken[c].index] # 0

fail_assertion(c) ==
    /\ ~reset /\ Cardinality(panicked) < MAX_PANICS
    /\ pc[c] \notin Asleep \cup NoIdt \cup PanicSteps \cup Stopped \cup {"start", "started"}
    /\ Goto(c, "panic_hook")
    /\ panicked' = panicked \cup {c}
    /\ UNCHANGED <<bootVars, pending, stop_requested, panicking, hook, in_nmi, printed, reset>>

(* The STOP interrupt is accepted by a local APIC that is enabled, the NMI  *)
(* by every CPU that runs.  A CPU in freeze_cpu would only stop again.      *)
Deaf == Asleep \cup {"started", "frozen"}
Accepted(d) == IF pc[d] \in Deaf THEN {} ELSE IF pc[d] \in NoApic THEN {"NMI"} ELSE {"STOP", "NMI"}
Sent_IncludingSelf(c) == [d \in CPUs |-> pending[d] \cup Accepted(d)]
Sent(c) == [d \in CPUs |-> IF d = c THEN pending[d] ELSE pending[d] \cup Accepted(d)]

request_stop_SendsFirst(c) ==
    \/ /\ At(c, "panic_hook") /\ pending' = Sent(c)
       /\ UNCHANGED <<pc, bootVars, stop_requested, panicking, hook, in_nmi, panicked, printed, reset>>
    \/ /\ At(c, "panic_hook") /\ stop_requested' = TRUE /\ Goto(c, "panic_check")
       /\ UNCHANGED <<bootVars, pending, panicking, hook, in_nmi, panicked, printed, reset>>
request_stop_of_all_other_aps(c) ==
    /\ At(c, "panic_hook")
    /\ IF ~hook THEN Goto(c, "panic_check") /\ UNCHANGED <<stop_requested, pending>>
       ELSE IF ~stop_requested THEN stop_requested' = TRUE /\ UNCHANGED <<pc, pending>>
       ELSE pending' = Sent(c) /\ Goto(c, "panic_check") /\ UNCHANGED stop_requested
    /\ UNCHANGED <<bootVars, panicking, hook, in_nmi, panicked, printed, reset>>

forever(c) ==
    /\ \/ /\ At(c, "panic_check") /\ Goto(c, IF panicking THEN "halted" ELSE "panic_set")
          /\ UNCHANGED <<panicking, printed>>
       \/ /\ At(c, "panic_set") /\ Goto(c, "print")
          /\ panicking' = TRUE /\ UNCHANGED printed
       \/ /\ At(c, "print") /\ Goto(c, "halted")
          /\ printed' = printed \cup {c} /\ UNCHANGED panicking
    /\ UNCHANGED <<bootVars, pending, stop_requested, hook, in_nmi, panicked, reset>>

\* The index read through a null pointer is what lies in low memory.  In bounds it marks
\* some CPU as frozen, which nothing reads; out of bounds, it fails the array's assertion.
freeze_cpu(c) == Goto(c, "frozen") \/ (~HasCoreInfo(c) /\ Goto(c, "panic_hook"))

isr_handle_non_maskable_interrupt(c) ==
    /\ ~reset /\ "NMI" \in pending[c] /\ c \notin in_nmi /\ pc[c] # "frozen"
    /\ pending' = [pending EXCEPT ![c] = @ \ {"NMI"}]
    /\ in_nmi' = in_nmi \cup {c}
    /\ \/ pc[c] \in NoIdt /\ reset' = TRUE /\ UNCHANGED pc
       \/ pc[c] \notin NoIdt /\ stop_requested /\ freeze_cpu(c) /\ UNCHANGED reset
       \/ pc[c] \notin NoIdt /\ ~stop_requested /\ Goto(c, "panic_hook") /\ UNCHANGED reset
    /\ UNCHANGED <<bootVars, stop_requested, panicking, hook, panicked, printed>>

\* Interrupts are off from the first instruction of an AP to its sti, in the handler of
\* the NMI, and after the message.
isr_handle_local_apic_stop(c) ==
    /\ ~reset /\ "STOP" \in pending[c] /\ c \notin in_nmi
    /\ pc[c] \notin NoApic \cup {"sti", "frozen"} /\ HasCoreInfo(c) /\ ~(pc[c] = "halted" /\ c \in printed)
    /\ pending' = [pending EXCEPT ![c] = @ \ {"STOP"}]
    /\ freeze_cpu(c)
    /\ UNCHANGED <<bootVars, stop_requested, panicking, hook, in_nmi, panicked, printed, reset>>

BspStep ==
    \/ initialize_aps \/ prepare_trampoline \/ set_all_breadcrumbs_to_zero \/ set_up_a_new_stack \/ set_cpu_index
    \/ copy_pointer_to_core_info \/ send_init \/ send_sipi("sipi1", "sipi2") \/ send_sipi("sipi2", "wait")
    \/ wait_for_ap \/ assert_breadcrumb_okay \/ route_device_irqs_to_application_processor
ApStep(p) == smp_trampoline_pm32(p) \/ smp_trampoline_lm64(p) \/ ap_main(p)
PanicStep(c) == request_stop_of_all_other_aps(c) \/ forever(c)
Interrupted(c) == isr_handle_non_maskable_interrupt(c) \/ isr_handle_local_apic_stop(c)

SmpNext ==
    \/ BspStep
    \/ \E p \in APs : smp_trampoline_start(p) \/ ApStep(p)
    \/ \E c \in CPUs : fail_assertion(c) \/ PanicStep(c) \/ Interrupted(c)

SmpSpec == SmpInit /\ [][SmpNext]_smpVars

(* A CPU that runs keeps running, and an interprocessor interrupt arrives;  *)
(* whether an AP answers its start-up IPI is up to the hardware.            *)
SmpFairness ==
    /\ WF_smpVars(BspStep \/ PanicStep(0))
    /\ \A p \in APs : WF_smpVars(ApStep(p) \/ PanicStep(p))
    /\ \A c \in CPUs : WF_smpVars(Interrupted(c))

-----------------------------------------------------------------------------
SmpTypeOK ==
    /\ next \in 1 .. APS + 1 /\ page.crumbs \subseteq Stages
    /\ online \subseteq CPUs /\ in_nmi \subseteq CPUs
    /\ \A c \in CPUs : pending[c] \subseteq {"STOP", "NMI"}
    /\ destination \in {NoSlot} \cup {ApicId(c) : c \in CPUs}

(* However late an AP answers, it runs on the stack, with the core info and *)
(* under the index that were set up for it: the breadcrumbs are asserted    *)
(* after the timeout, before the page is rewritten for the next AP.         *)
OwnSlots ==
    \A p \in APs : \A slot \in {"stack", "core", "index"} : taken[p][slot] \in {NoSlot, p}

(* Device IRQs go to a CPU that runs.  It may be the BSP: the AP's APIC id  *)
(* is read after it is online, perhaps before it has been filled in.        *)
RoutedToRunningCpu == destination # NoSlot => \E c \in online : destination = ApicId(c)

(* Why a CPU is on the panic path: an assertion of its own failed, or the  *)
(* stop caught an AP between its IDT and its core info, where freeze_cpu's  *)
(* index may be out of bounds.  No CPU takes the backup NMI for an          *)
(* unexpected one: the flag is up before the interrupts are sent.           *)
StopIsExpected ==
    \A c \in CPUs : pc[c] \in PanicSteps => c \in panicked \/ (c \in in_nmi /\ ~HasCoreInfo(c))

(* The BSP gets through start-up although an AP never answers, or panics.   *)
BootEnds == <>(reset \/ pc[0] \in Stopped \cup {"run"})

(* Once a CPU has asked for it, every CPU that has been started stops.      *)
StopStopsAll == stop_requested ~> (reset \/ \A c \in CPUs : pc[c] \in Stopped \cup Asleep \cup {"started"})

(* A CPU that is the only one to panic gets its message out, unless its own *)
(* stop request makes an AP panic that has no core info yet: that AP then   *)
(* stops it in turn, perhaps before it has printed.                         *)
PanicsInNmi == {c \in in_nmi : pc[c] \in PanicSteps \cup {"halted"}}
LonePanicPrints ==
    \A c \in CPUs : (panicked = {c} /\ PanicsInNmi = {})
                     ~> (reset \/ c \in printed \/ panicked # {c} \/ PanicsInNmi # {})

(* What makes these inductive.  The steps in which an AP depends on the     *)
(* page, and those in which the BSP fills it in and then leaves it alone.   *)
BeforeEntry == Asleep \cup {"started", "entry", "stack", "gs", "index"}
FillsPage == {"start", "prepare", "clear", "new_stack", "set_index", "set_core", "init"}
LeavesPage == {"sipi1", "sipi2", "wait", "check"}

SmpState ==
    /\ pc \in [CPUs -> FillsPage \cup LeavesPage \cup {"route", "run"} \cup BeforeEntry \cup NoApic
                        \cup {"sti", "loop"} \cup PanicSteps \cup Stopped]
    /\ page \in [code : BOOLEAN, stack : Int, index : Int, core : Int, crumbs : SUBSET Stages]
    /\ taken \in [APs -> [stack : Int, index : Int, core : Int]]
    /\ lapic_id \in [CPUs -> Int] /\ \A c \in CPUs : lapic_id[c] \in {0, ApicId(c)}
    /\ pending \in [CPUs -> SUBSET {"STOP", "NMI"}]
    /\ IF pc[0] = "start" THEN destination = NoSlot /\ next = 1 /\ pending[0] = {} ELSE 0 \in online

(* The BSP starts the APs one after the other, and does not go on before    *)
(* the one it has started has left the page.                                *)
OneAtATime ==
    /\ pc[0] \in FillsPage \cup LeavesPage => next <= APS
    /\ \A p \in APs :
          /\ p > next \/ (p = next /\ pc[0] \in FillsPage) => pc[p] = "off"
          /\ p < next => pc[p] \notin BeforeEntry
          /\ p = next /\ pc[0] \in (FillsPage \cup LeavesPage) \ {"start", "prepare", "clear"}
                   /\ "ENTRY64" \in page.crumbs => pc[p] \notin BeforeEntry
          /\ pc[p] \notin BeforeEntry => taken[p].index = p

(* The page an AP runs from is complete, and filled in for that AP.         *)
PageIsForNext ==
    /\ pc[0] \in {"clear", "new_stack", "set_index", "set_core", "init"} => page.code
    /\ pc[0] \in {"set_index", "set_core", "init"} => page.stack = next
    /\ pc[0] \in {"set_core", "init"} => page.index = next
    /\ pc[0] = "init" => page.core = next
    /\ \A p \in APs : p = next /\ pc[p] # "off" =>
          page.code /\ page.stack = p /\ page.index = p /\ page.core = p

(* A stop interrupt is on its way only to a CPU that runs, and only after   *)
(* the stop was requested.                                                  *)
StopSentAfterRequest ==
    \A c \in CPUs : pending[c] # {} => stop_requested /\ pc[c] \notin Asleep \cup {"started"}

\* The inductive invariant of start-up: every AP runs with what was set up for it,
\* however late it answers, and device IRQs go to a CPU that runs.
BootSound ==
    /\ SmpTypeOK
    /\ OwnSlots
    /\ RoutedToRunningCpu
    /\ SmpState
    /\ OneAtATime
    /\ PageIsForNext
    /\ StopSentAfterRequest
=============================================================================
