------------------------------ MODULE Interrupts ------------------------------
(***************************************************************************)
(* Interrupt delivery while the kernel starts: interrupts.hh, the 8259     *)
(* controllers, local APICs, the IOAPIC, ktime and the order in which      *)
(* startup.hh brings them up and hands the devices and the tick over.      *)
(*                                                                         *)
(* CPU 0 is the bootstrap processor, with APIC id 0, and runs              *)
(* kernel_startup; the others are application processors with their own    *)
(* timers, which come up step by step, as late as they like, or never.  A  *)
(* handler runs with interrupts off and is entered in one step and left,   *)
(* after its end of interrupt, in another.  The controllers' registers are *)
(* external and modelled from what the code programs: what is masked, what *)
(* is pending, what is in service.                                         *)
(***************************************************************************)
EXTENDS Integers, FiniteSets

CONSTANTS
    LAST_CPU,               \* CPUs are numbered from 0 to this
    MAX_TICKS,              \* bound on the ticks of the 8253 and of CPU 0's timer
    MAX_AP_TICKS,           \* bound on the ticks of each other CPU's timer
    CALIBRATION_TICKS,      \* CALIBRATION_DURATION_MILLISECONDS in ticks
    MAX_IRQS                \* bound on the device interrupts raised

ASSUME InterruptsAssumption == LAST_CPU \in Nat /\ CALIBRATION_TICKS \in 1 .. MAX_TICKS

VARIABLES
    stage,          \* how far kernel_startup has come
    pic,            \* 8259 pair: masked, pending, inService
    apic,           \* CPU -> local APIC: on, timerOn, pending, inService
    lint0Masked,
    redirection,    \* ISA irq -> [masked, cpu], the IOAPIC's entries
    device_irqs_use_ioapic,
    handler,        \* CPU -> [vector, by] it is handling, or NoHandler
    enabled,        \* CPU -> interrupts were enabled (sti)
    tables,         \* CPU -> IDT loaded and core info filled in, which %gs leads to
    online,         \* the application processors that say so in cpus_online
    tick_counter, sleepUntil,
    pitTicks, lapicTicks,   \* ghosts: timer interrupts handled; per CPU
    raised          \* device interrupts raised so far

interruptVars == <<stage, pic, apic, lint0Masked, redirection, device_irqs_use_ioapic, handler,
                   enabled, tables, online, tick_counter, sleepUntil, pitTicks, lapicTicks, raised>>

Cpus == 0 .. LAST_CPU
Aps == 1 .. LAST_CPU
Lines     == {"PIT", "KEYBOARD", "COM1", "MOUSE"}       \* IRQ 0, 1, 4, 12
Slave     == {"MOUSE"}
Devices   == {"KEYBOARD", "MOUSE"}
NoHandler == [vector |-> "none", by |-> "none"]

\* Interrupt_Vector_Type of the lines and timers, and the vectors isr_dispatch
\* has a case for (the others halt the kernel).
TIMER   == "LOCAL_APIC_TIMER"
Handled == {"PIT", "KEYBOARD", "MOUSE", TIMER}

Stages == <<"reset", "idt", "pic", "lapic", "cpu_local", "pit", "enabled", "calibrating", "timer",
            "pic_off", "ioapic", "lint0", "aps", "routed">>
Reached(s) == \E j \in DOMAIN Stages : Stages[j] = stage /\ \E i \in 1 .. j : Stages[i] = s

\* CPU 0 runs kernel_startup while it is not in a handler.
Starts(from, to) == stage = from /\ handler[0] = NoHandler /\ stage' = to
-----------------------------------------------------------------------------
\* gdt::initialize and idt::initialize: every gate of the table is set.
initialize_idt ==
    /\ Starts("reset", "idt")
    /\ tables' = [tables EXCEPT ![0].idt = TRUE]
    /\ UNCHANGED <<pic, apic, lint0Masked, redirection, device_irqs_use_ioapic, handler, enabled,
                   tick_counter, sleepUntil, pitTicks, lapicTicks, raised, online>>

\* pic::initialize unmasks the timer, the keyboard, the mouse and the cascade.
InitialMasks == {"COM1"}

initialize_pic ==
    /\ Starts("idt", "pic")
    /\ pic' = [masked |-> InitialMasks, pending |-> {}, inService |-> {}]
    /\ UNCHANGED <<apic, lint0Masked, redirection, device_irqs_use_ioapic, handler, enabled, tables,
                   tick_counter, sleepUntil, pitTicks, lapicTicks, raised, online>>

\* lapic::initialize_bootstrap_processor: software enable, timer masked, LINT0
\* left open for the 8259.
initialize_bootstrap_processor ==
    /\ Starts("pic", "lapic")
    /\ apic' = [apic EXCEPT ![0].on = TRUE]
    /\ UNCHANGED <<pic, lint0Masked, redirection, device_irqs_use_ioapic, handler, enabled, tables,
                   tick_counter, sleepUntil, pitTicks, lapicTicks, raised, online>>

\* cpu_local: the handlers' entry code finds its save area through %gs.
initialize_cpu_local ==
    /\ Starts("lapic", "cpu_local")
    /\ tables' = [tables EXCEPT ![0].gs = TRUE]
    /\ UNCHANGED <<pic, apic, lint0Masked, redirection, device_irqs_use_ioapic, handler, enabled,
                   tick_counter, sleepUntil, pitTicks, lapicTicks, raised, online>>

initialize_ktime ==
    /\ Starts("cpu_local", "pit")
    /\ tick_counter' = 0
    /\ UNCHANGED <<pic, apic, lint0Masked, redirection, device_irqs_use_ioapic, handler, enabled,
                   tables, sleepUntil, pitTicks, lapicTicks, raised, online>>

enable_interrupts ==
    /\ Starts("pit", "enabled")
    /\ enabled' = [enabled EXCEPT ![0] = TRUE]
    /\ UNCHANGED <<pic, apic, lint0Masked, redirection, device_irqs_use_ioapic, handler, tables,
                   tick_counter, sleepUntil, pitTicks, lapicTicks, raised, online>>

\* calibrate_and_start_timer counts with the timer masked while it sleeps; the
\* sleep ends when the 8253's ticks have reached the time noted at its start.
calibrate ==
    /\ Starts("enabled", "calibrating")
    /\ sleepUntil' = tick_counter + CALIBRATION_TICKS
    /\ UNCHANGED <<pic, apic, lint0Masked, redirection, device_irqs_use_ioapic, handler, enabled,
                   tables, tick_counter, pitTicks, lapicTicks, raised, online>>

start_timer ==
    /\ Starts("calibrating", "timer")
    /\ tick_counter >= sleepUntil
    /\ apic' = [apic EXCEPT ![0].timerOn = TRUE]
    /\ UNCHANGED <<pic, lint0Masked, redirection, device_irqs_use_ioapic, handler, enabled, tables,
                   tick_counter, sleepUntil, pitTicks, lapicTicks, raised, online>>

\* The lines pic::disable masks.
DisabledMasks == Lines

disable_pic ==
    /\ Starts("timer", "pic_off")
    /\ pic' = [pic EXCEPT !.masked = DisabledMasks]
    /\ UNCHANGED <<apic, lint0Masked, redirection, device_irqs_use_ioapic, handler, enabled, tables,
                   tick_counter, sleepUntil, pitTicks, lapicTicks, raised, online>>

\* The entry of a routed line: unmasked, to one CPU.
route_industry_standard_architecture_irq(table, irqs, cpu) ==
    [l \in Lines |-> IF l \in irqs THEN [masked |-> FALSE, cpu |-> cpu] ELSE table[l]]

\* ioapic::initialize: all pins masked, end of interrupt switched over, then the
\* two devices routed to the bootstrap processor.
initialize_ioapic ==
    /\ Starts("pic_off", "ioapic")
    /\ device_irqs_use_ioapic' = TRUE
    /\ redirection' = route_industry_standard_architecture_irq(
                          [l \in Lines |-> [masked |-> TRUE, cpu |-> 0]], Devices, 0)
    /\ UNCHANGED <<pic, apic, lint0Masked, handler, enabled, tables, tick_counter, sleepUntil,
                   pitTicks, lapicTicks, raised, online>>

stop_listening_to_pic_by_masking_lint0 ==
    /\ Starts("ioapic", "lint0")
    /\ lint0Masked' = TRUE
    /\ UNCHANGED <<pic, apic, redirection, device_irqs_use_ioapic, handler, enabled, tables,
                   tick_counter, sleepUntil, pitTicks, lapicTicks, raised, online>>

\* initialize_aps, seen from here: the wait for an AP may time out, before the AP says
\* that it is online or after.
initialize_aps ==
    /\ Starts("lint0", "aps")
    /\ UNCHANGED <<pic, apic, lint0Masked, redirection, device_irqs_use_ioapic, handler, enabled, tables,
                   online, tick_counter, sleepUntil, pitTicks, lapicTicks, raised>>

\* An AP's local APIC: software enable, and its own timer runs.
initialize_application_processor(local) == [local EXCEPT !.on = TRUE, !.timerOn = TRUE]

\* ap_main, from its start-up IPI on: online, then the IDT and the core info with its
\* APIC id, the local APIC with its timer, and the interrupts.
Started == stage \in {"lint0", "aps", "routed"}

ap_main(p) ==
    /\ Started
    /\ \/ /\ p \notin online
          /\ online' = online \cup {p}
          /\ UNCHANGED <<tables, apic, enabled>>
       \/ /\ p \in online /\ ~tables[p].gs
          /\ tables' = [tables EXCEPT ![p] = [idt |-> TRUE, gs |-> TRUE]]
          /\ UNCHANGED <<online, apic, enabled>>
       \/ /\ tables[p].gs /\ ~apic[p].on
          /\ apic' = [apic EXCEPT ![p] = initialize_application_processor(@)]
          /\ UNCHANGED <<online, tables, enabled>>
       \/ /\ apic[p].on /\ ~enabled[p]
          /\ enabled' = [enabled EXCEPT ![p] = TRUE]
          /\ UNCHANGED <<online, tables, apic>>
    /\ UNCHANGED <<stage, pic, lint0Masked, redirection, device_irqs_use_ioapic, handler, tick_counter,
                   sleepUntil, pitTicks, lapicTicks, raised>>

\* core_infos[p].lapic_id is zero, which is the BSP's id, until the AP has filled it in.
Destination(p) == IF tables[p].gs THEN p ELSE 0

\* To the first AP that is online; nothing when there is none.
FirstOnline == CHOOSE p \in online : \A q \in online : p <= q

route_device_irqs_to_application_processor ==
    /\ Starts("aps", "routed")
    /\ redirection' = IF online = {} THEN redirection
                      ELSE route_industry_standard_architecture_irq(redirection, Devices, Destination(FirstOnline))
    /\ UNCHANGED <<pic, apic, lint0Masked, device_irqs_use_ioapic, handler, enabled, tables, online,
                   tick_counter, sleepUntil, pitTicks, lapicTicks, raised>>
-----------------------------------------------------------------------------
\* The hardware.  The 8253 ticks once programmed; a device raises its line.  The
\* line reaches the 8259, which keeps it pending, and the IOAPIC, which passes
\* an edge on only where the pin is open.  A local APIC that is off loses it.
raise_line(l) ==
    /\ stage # "reset" /\ stage # "idt"
    /\ IF l = "PIT" THEN Reached("pit") /\ pitTicks < MAX_TICKS ELSE raised < MAX_IRQS
    /\ pic' = [pic EXCEPT !.pending = @ \cup {l}]
    /\ apic' = IF redirection[l].masked \/ ~apic[redirection[l].cpu].on THEN apic
               ELSE [apic EXCEPT ![redirection[l].cpu].pending = @ \cup {l}]
    /\ raised' = IF l = "PIT" THEN raised ELSE raised + 1
    /\ UNCHANGED <<stage, lint0Masked, redirection, device_irqs_use_ioapic, handler, enabled, tables,
                   tick_counter, sleepUntil, pitTicks, lapicTicks, online>>

raise_timer(c) ==
    /\ apic[c].timerOn /\ lapicTicks[c] < IF c = 0 THEN MAX_TICKS ELSE MAX_AP_TICKS
    /\ apic' = [apic EXCEPT ![c].pending = @ \cup {TIMER}]
    /\ UNCHANGED <<stage, pic, lint0Masked, redirection, device_irqs_use_ioapic, handler, enabled,
                   tables, tick_counter, sleepUntil, pitTicks, lapicTicks, raised, online>>

\* The line a 8259 pair in fixed priority would deliver: nothing while one of
\* its own or of a higher line is in service.  The slave hangs on the master's
\* third line.
Rank(l) == CASE l = "PIT" -> 0 [] l = "KEYBOARD" -> 1 [] l = "MOUSE" -> 2 [] OTHER -> 4
PicOffers == {l \in pic.pending \ pic.masked :
                 /\ \A m \in pic.pending \ pic.masked : Rank(l) <= Rank(m)
                 /\ \A m \in pic.inService : Rank(l) < Rank(m)}

\* A CPU takes an interrupt between two instructions, when it has them enabled.
Accepts(c) == enabled[c] /\ handler[c] = NoHandler

take_from_pic(l) ==
    /\ Accepts(0) /\ ~lint0Masked /\ l \in PicOffers
    /\ pic' = [pic EXCEPT !.pending = @ \ {l}, !.inService = @ \cup {l}]
    /\ handler' = [handler EXCEPT ![0] = [vector |-> l, by |-> "pic"]]
    /\ UNCHANGED <<stage, apic, lint0Masked, redirection, device_irqs_use_ioapic, enabled, tables,
                   tick_counter, sleepUntil, pitTicks, lapicTicks, raised, online>>

take_from_apic(c, v) ==
    /\ Accepts(c) /\ apic[c].on /\ v \in apic[c].pending
    /\ apic' = [apic EXCEPT ![c].pending = @ \ {v}, ![c].inService = @ \cup {v}]
    /\ handler' = [handler EXCEPT ![c] = [vector |-> v, by |-> "apic"]]
    /\ UNCHANGED <<stage, pic, lint0Masked, redirection, device_irqs_use_ioapic, enabled, tables,
                   tick_counter, sleepUntil, pitTicks, lapicTicks, raised, online>>
-----------------------------------------------------------------------------
\* pic::send_end_of_interrupt ends the highest line in service on the master and,
\* for a line of the slave, on the slave as well.
send_end_of_interrupt(l) ==
    [pic EXCEPT !.inService = {m \in @ : \E n \in @ : Rank(n) < Rank(m)}
                              \ (IF l \in Slave THEN Slave ELSE {})]

\* lapic::signal_end_of_interrupt on CPU c (one interrupt is in service at a time).
signal_end_of_interrupt(c) == [apic EXCEPT ![c].inService = {}]

\* The end of interrupt by stage of startup rather than by who delivered.
EndsAtApic_ByVector(v) == v = TIMER

\* isr_dispatch's choice: the local APIC for its own vectors, and for the ISA
\* vectors once the IOAPIC drives them.
EndsAtApic(v) == v = TIMER \/ device_irqs_use_ioapic

\* tick_cpu stays 0: set_tick_cpu(0) at the end of startup only repeats it.
owns_tick_cpu(c) == c = 0

on_tick(v, c) == v = "PIT" \/ (v = TIMER /\ owns_tick_cpu(c))

\* isr_dispatch: the handler's effect on time, then the end of interrupt.
isr_dispatch(c) ==
    LET v == handler[c].vector
    IN /\ handler[c] # NoHandler /\ v \in Handled
       /\ tick_counter' = IF on_tick(v, c) THEN tick_counter + 1 ELSE tick_counter
       /\ pitTicks' = IF v = "PIT" THEN pitTicks + 1 ELSE pitTicks
       /\ lapicTicks' = IF v = TIMER THEN [lapicTicks EXCEPT ![c] = @ + 1] ELSE lapicTicks
       /\ IF EndsAtApic(v)
          THEN apic' = signal_end_of_interrupt(c) /\ UNCHANGED pic
          ELSE pic' = send_end_of_interrupt(v) /\ UNCHANGED apic
       /\ handler' = [handler EXCEPT ![c] = NoHandler]
       /\ UNCHANGED <<stage, lint0Masked, redirection, device_irqs_use_ioapic, enabled, tables,
                      sleepUntil, raised, online>>

InterruptsInit ==
    /\ stage = "reset"
    /\ pic = [masked |-> Lines, pending |-> {}, inService |-> {}]
    /\ apic = [c \in Cpus |-> [on |-> FALSE, timerOn |-> FALSE, pending |-> {}, inService |-> {}]]
    /\ lint0Masked = FALSE /\ device_irqs_use_ioapic = FALSE
    /\ redirection = [l \in Lines |-> [masked |-> TRUE, cpu |-> 0]]
    /\ handler = [c \in Cpus |-> NoHandler]
    /\ enabled = [c \in Cpus |-> FALSE]
    /\ tables = [c \in Cpus |-> [idt |-> FALSE, gs |-> FALSE]]
    /\ online = {} /\ tick_counter = 0 /\ sleepUntil = 0 /\ pitTicks = 0 /\ lapicTicks = [c \in Cpus |-> 0]
    /\ raised = 0

InterruptsNext ==
    \/ initialize_idt \/ initialize_pic \/ initialize_bootstrap_processor \/ initialize_cpu_local
    \/ initialize_ktime \/ enable_interrupts \/ calibrate \/ start_timer \/ disable_pic
    \/ initialize_ioapic \/ stop_listening_to_pic_by_masking_lint0 \/ initialize_aps
    \/ route_device_irqs_to_application_processor
    \/ \E p \in Aps : ap_main(p)
    \/ \E l \in Lines : raise_line(l) \/ take_from_pic(l)
    \/ \E c \in Cpus : raise_timer(c) \/ isr_dispatch(c) \/ \E v \in Devices \cup {TIMER} : take_from_apic(c, v)

InterruptsSpec == InterruptsInit /\ [][InterruptsNext]_interruptVars
-----------------------------------------------------------------------------
\* A CPU handles only interrupts it is prepared for: its IDT and %gs are set, and
\* isr_dispatch has a case for the vector, so that no interrupt that the start-up
\* lets through halts the kernel.
InterruptsTypeOK ==
    \A c \in Cpus :
        handler[c] # NoHandler =>
            /\ handler[c].vector \in Handled
            /\ tables[c].idt /\ tables[c].gs

\* Every interrupt is ended at the controller that delivered it, across the whole
\* hand-over from the 8259 to the IOAPIC: what is in service anywhere is what some
\* CPU is handling.  One end of interrupt to the wrong place and a line, or all
\* lower ones, would be dead.
InServiceIsHandled ==
    /\ pic.inService = {l \in Lines : handler[0] = [vector |-> l, by |-> "pic"]}
    /\ \A c \in Cpus :
           apic[c].inService = IF handler[c].by = "apic" THEN {handler[c].vector} ELSE {}

\* Time is counted once: each tick is one of the 8253 or of CPU 0's own timer, and
\* the 8253's stop with the hand-over, whatever the other CPU's timer does.
TickCountedOnce ==
    /\ tick_counter = pitTicks + lapicTicks[0]
    /\ Reached("pic_off") => handler[0].vector # "PIT"

\* After start-up both devices' lines are open to one CPU, which has an IDT and its core
\* info: an AP that was fast enough, or still the BSP.  An AP may get them before it takes
\* interrupts; nothing comes from the 8259 any more, not even what was pending there.
DevicesHandedOver ==
    /\ Reached("ioapic") =>
          \E c \in {0} \cup online :
             /\ tables[c].idt /\ tables[c].gs
             /\ \A l \in Devices : redirection[l] = [masked |-> FALSE, cpu |-> c]
    /\ device_irqs_use_ioapic => \A c \in Cpus : handler[c].by # "pic"

\* What makes these inductive: the values the state takes, and the order of the start-up.
ControllerState ==
    /\ stage \in {Stages[i] : i \in DOMAIN Stages}
    /\ pic \in [masked : {Lines, InitialMasks}, pending : SUBSET Lines, inService : SUBSET Lines]
    /\ apic \in [Cpus -> [on : BOOLEAN, timerOn : BOOLEAN,
                          pending : SUBSET (Devices \cup {TIMER}), inService : SUBSET (Devices \cup {TIMER})]]
    /\ redirection \in [Lines -> [masked : BOOLEAN, cpu : Cpus]]
    /\ handler[0] \in {NoHandler} \cup [vector : Lines \ InitialMasks, by : {"pic"}]
                                 \cup [vector : Devices \cup {TIMER}, by : {"apic"}]
    /\ \A p \in Aps : handler[p] \in {NoHandler} \cup [vector : Devices \cup {TIMER}, by : {"apic"}]
    /\ DOMAIN handler = Cpus /\ enabled \in [Cpus -> BOOLEAN]
    /\ tables \in [Cpus -> [idt : BOOLEAN, gs : BOOLEAN]] /\ online \subseteq Aps
    /\ tick_counter \in Nat /\ pitTicks \in Nat /\ lapicTicks \in [Cpus -> Nat]

\* No interrupt is taken before it is enabled, nor enabled before its tables are set, on
\* an AP in the order of its start; once the 8259 is off, its lines stay masked; an
\* IOAPIC pin is opened, and a device's interrupt reaches a local APIC, only after the
\* end of interrupt was switched over.
StartupOrder ==
    /\ ~Reached("enabled") => (\A c \in Cpus : ~enabled[c]) /\ pitTicks = 0 /\ lapicTicks[0] = 0
    /\ \A c \in Cpus : IF enabled[c] THEN tables[c].idt /\ tables[c].gs ELSE handler[c] = NoHandler
    /\ \A p \in Aps : /\ tables[p].idt => p \in online
                      /\ tables[p].gs => tables[p].idt
                      /\ apic[p].on => tables[p].gs
    /\ Reached("idt") => tables[0].idt
    /\ Reached("cpu_local") => tables[0].gs
    /\ Reached("pic_off") => pic.masked = Lines
    /\ device_irqs_use_ioapic <=> Reached("ioapic")
    /\ \A l \in Lines : ~redirection[l].masked => l \in Devices /\ device_irqs_use_ioapic
    /\ \A c \in Cpus : apic[c].pending \cap Devices # {} \/ (handler[c].by = "apic" /\ handler[c].vector \in Devices)
                          => device_irqs_use_ioapic

\* The inductive invariant of interrupt dispatch: what is in service is being handled and
\* will be ended where it came from, ticks count once, and the hand-over leaves nothing behind.
DispatchSound ==
    /\ InterruptsTypeOK
    /\ InServiceIsHandled
    /\ TickCountedOnce
    /\ DevicesHandedOver
    /\ ControllerState
    /\ StartupOrder
=============================================================================
