----------------------------- MODULE BootProofs -----------------------------
(***************************************************************************)
(* The kernel's start: what is in service is ended where it came from,      *)
(* whatever arrives while the devices and the tick are handed over; of the   *)
(* boot loader's memory map the heap gets all that nothing reserves; and of  *)
(* processors and lines the kernel believes what a sound table says.        *)
(***************************************************************************)
EXTENDS Interrupts, MemoryMap, Acpi, FiniteSetTheorems, SequenceTheorems, WellFoundedInduction, TLAPS

(* Where something holds for a number, there is a lowest one.               *)
Less == {pair \in Nat \X Nat : pair[1] < pair[2]}

(* The well-foundedness of the naturals, as a lowest element.               *)
LEMMA LowestExists ==
    ASSUME NEW T \in SUBSET Nat, T # {}
    PROVE  \E lowest \in T : \A n \in T : lowest <= n
  <1>1. IsWellFoundedOn(Less, Nat)
    BY NatLessThanWellFounded DEF OpToRel, Less
  <1>2. PICK lowest \in T : \A n \in T : ~(<<n, lowest>> \in Less)
    BY <1>1, WFMin
  <1>3. \A n \in T : ~(n < lowest)
    BY <1>2 DEF Less
  <1> QED
    BY <1>3

(* The order of the start-up, as sets of stages.                            *)
AllStages ==
    {"reset", "idt", "pic", "lapic", "cpu_local", "pit", "enabled", "calibrating",
     "timer", "pic_off", "ioapic", "lint0", "aps", "routed"}
FromPit == {"pit", "enabled", "calibrating", "timer", "pic_off", "ioapic", "lint0", "aps", "routed"}
FromEnabled == FromPit \ {"pit"}
FromPicOff == {"pic_off", "ioapic", "lint0", "aps", "routed"}
FromIoapic == FromPicOff \ {"pic_off"}

Order ==
    /\ Reached("idt") <=> stage # "reset"
    /\ Reached("cpu_local") <=> stage \in FromPit \cup {"cpu_local"}
    /\ Reached("pit") <=> stage \in FromPit
    /\ Reached("enabled") <=> stage \in FromEnabled
    /\ Reached("pic_off") <=> stage \in FromPicOff
    /\ Reached("ioapic") <=> stage \in FromIoapic

(* The stages are those of the sequence, and what was done before each.     *)
LEMMA ReachedIs ==
    /\ {Stages[i] : i \in DOMAIN Stages} = AllStages
    /\ stage \in AllStages => Order
  <1>1. /\ DOMAIN Stages = 1 .. 14
        /\ Stages[1] = "reset"
        /\ Stages[2] = "idt"
        /\ Stages[3] = "pic"
        /\ Stages[4] = "lapic"
        /\ Stages[5] = "cpu_local"
        /\ Stages[6] = "pit"
        /\ Stages[7] = "enabled"
        /\ Stages[8] = "calibrating"
        /\ Stages[9] = "timer"
        /\ Stages[10] = "pic_off"
        /\ Stages[11] = "ioapic"
        /\ Stages[12] = "lint0"
        /\ Stages[13] = "aps"
        /\ Stages[14] = "routed"
    BY DEF Stages
  <1>2. 1 .. 14 = {1, 2, 3, 4, 5, 6, 7, 8, 9, 10, 11, 12, 13, 14}
    OBVIOUS
  <1>3. {Stages[i] : i \in DOMAIN Stages} = AllStages
    BY <1>1, <1>2 DEF AllStages
  <1> QED
    BY <1>1, <1>3 DEF Order, Reached, AllStages, FromPit, FromEnabled, FromPicOff, FromIoapic

(* CPU 0 and the application processors.                                    *)
LEMMA CpusAre ==
    /\ 0 \in Cpus /\ 0 \notin Aps
    /\ Aps \subseteq Cpus
    /\ \A c \in Cpus : c = 0 \/ c \in Aps
  BY InterruptsAssumption DEF Cpus, Aps

(* Both devices' lines are open to one of these CPUs, which has its tables.  *)
HandedTo(cpus) ==
    \E c \in cpus : /\ tables[c].idt /\ tables[c].gs
                    /\ \A l \in Devices : redirection[l] = [masked |-> FALSE, cpu |-> c]

(* The invariant over sets of stages.                                       *)
StagesSound ==
    /\ stage \in AllStages
    /\ stage \notin FromEnabled => (\A c \in Cpus : ~enabled[c]) /\ pitTicks = 0 /\ lapicTicks[0] = 0
    /\ \A c \in Cpus : IF enabled[c] THEN tables[c].idt /\ tables[c].gs ELSE handler[c] = NoHandler
    /\ stage # "reset" => tables[0].idt
    /\ stage \in FromPit \cup {"cpu_local"} => tables[0].gs
    /\ stage \in FromPicOff => pic.masked = Lines /\ handler[0].vector # "PIT"
    /\ device_irqs_use_ioapic <=> stage \in FromIoapic
    /\ \A l \in Lines : ~redirection[l].masked => l \in Devices /\ device_irqs_use_ioapic
    /\ \A c \in Cpus : apic[c].pending \cap Devices # {} \/ (handler[c].by = "apic" /\ handler[c].vector \in Devices)
                          => device_irqs_use_ioapic
    /\ tick_counter = pitTicks + lapicTicks[0]
    /\ stage \in FromIoapic => HandedTo({0} \cup online)
    /\ \A p \in Aps : /\ tables[p].idt => p \in online
                      /\ tables[p].gs => tables[p].idt
                      /\ apic[p].on => tables[p].gs
    /\ device_irqs_use_ioapic => \A c \in Cpus : handler[c].by # "pic"

ValuesSound ==
    /\ pic \in [masked : {Lines, InitialMasks}, pending : SUBSET Lines, inService : SUBSET Lines]
    /\ apic \in [Cpus -> [on : BOOLEAN, timerOn : BOOLEAN,
                          pending : SUBSET (Devices \cup {TIMER}), inService : SUBSET (Devices \cup {TIMER})]]
    /\ redirection \in [Lines -> [masked : BOOLEAN, cpu : Cpus]]
    /\ handler[0] \in {NoHandler} \cup [vector : Lines \ InitialMasks, by : {"pic"}]
                                 \cup [vector : Devices \cup {TIMER}, by : {"apic"}]
    /\ \A p \in Aps : handler[p] \in {NoHandler} \cup [vector : Devices \cup {TIMER}, by : {"apic"}]
    /\ DOMAIN handler = Cpus /\ enabled \in [Cpus -> BOOLEAN]
    /\ tables \in [Cpus -> [idt : BOOLEAN, gs : BOOLEAN]] /\ online \subseteq Aps
    /\ tick_counter \in Nat /\ pitTicks \in Nat /\ lapicTicks \in [Cpus -> Nat]

IInv == ValuesSound /\ InServiceIsHandled /\ StagesSound

(* The invariant of the runs is the inductive one.                          *)
LEMMA IInvIs == DispatchSound <=> IInv
  <1>1. ControllerState <=> stage \in AllStages /\ ValuesSound
    BY ReachedIs DEF ControllerState, ValuesSound
  <1>2. stage \in AllStages => Order
    BY ReachedIs
  <1>3. DispatchSound => IInv
    BY <1>1, <1>2 DEF DispatchSound, IInv, StagesSound, HandedTo, Order, TickCountedOnce,
              DevicesHandedOver, StartupOrder
  <1>4. ASSUME IInv PROVE InterruptsTypeOK
    <2>1. ASSUME NEW c \in Cpus, handler[c] # NoHandler
          PROVE  handler[c].vector \in Handled /\ tables[c].idt /\ tables[c].gs
      <3>1. tables[c].idt /\ tables[c].gs
        BY <1>4, <2>1 DEF IInv, StagesSound
      <3>2. CASE c = 0
        BY <1>4, <2>1, <3>1, <3>2 DEF IInv, ValuesSound, Handled, Lines, InitialMasks, Devices, TIMER
      <3>3. CASE c \in Aps
        BY <1>4, <2>1, <3>1, <3>3 DEF IInv, ValuesSound, Handled, Devices, TIMER
      <3> QED
        BY <2>1, <3>2, <3>3 DEF Cpus, Aps
    <2> QED
      BY <2>1 DEF InterruptsTypeOK
  <1>5. IInv => DispatchSound
    BY <1>1, <1>2, <1>4 DEF DispatchSound, IInv, StagesSound, HandedTo, Order, TickCountedOnce,
              DevicesHandedOver, StartupOrder
  <1> QED
    BY <1>3, <1>5

(* The state before the reset's first step.                                 *)
LEMMA InitSound == InterruptsInit => IInv
  <1> SUFFICES ASSUME InterruptsInit PROVE IInv
    OBVIOUS
  <1> USE DEF InterruptsInit
  <1>1. ValuesSound
    BY CpusAre DEF ValuesSound, NoHandler
  <1>2. InServiceIsHandled
    BY CpusAre DEF InServiceIsHandled, NoHandler
  <1>3. StagesSound
    BY CpusAre DEF StagesSound, HandedTo, NoHandler, AllStages, FromEnabled, FromPit, FromPicOff, FromIoapic
  <1> QED
    BY <1>1, <1>2, <1>3 DEF IInv

(* A local APIC's record after any of its changes.                           *)
Apics == [on : BOOLEAN, timerOn : BOOLEAN,
          pending : SUBSET (Devices \cup {TIMER}), inService : SUBSET (Devices \cup {TIMER})]

(* Changing fields of a local APIC gives a local APIC.                      *)
LEMMA ApicChanges ==
    ASSUME NEW r \in Apics, NEW S \in SUBSET (Devices \cup {TIMER}), NEW T \in SUBSET (Devices \cup {TIMER})
    PROVE  /\ [r EXCEPT !.on = TRUE] \in Apics
           /\ [r EXCEPT !.timerOn = TRUE] \in Apics
           /\ [r EXCEPT !.on = TRUE, !.timerOn = TRUE] \in Apics
           /\ [r EXCEPT !.pending = S] \in Apics
           /\ [r EXCEPT !.inService = S] \in Apics
           /\ [r EXCEPT !.pending = S, !.inService = T] \in Apics
  <1>1. [r EXCEPT !.on = TRUE] \in Apics
    BY DEF Apics
  <1>2. [r EXCEPT !.timerOn = TRUE] \in Apics
    BY DEF Apics
  <1>3. [r EXCEPT !.on = TRUE, !.timerOn = TRUE] \in Apics
    BY DEF Apics
  <1>4. [r EXCEPT !.pending = S] \in Apics
    BY DEF Apics
  <1>5. [r EXCEPT !.inService = S] \in Apics
    BY DEF Apics
  <1>6. [r EXCEPT !.pending = S, !.inService = T] \in Apics
    BY DEF Apics
  <1> QED
    BY <1>1, <1>2, <1>3, <1>4, <1>5, <1>6

(* The steps of kernel_startup, which it takes outside of any handler.       *)
LEMMA StartIdt == IInv /\ initialize_idt => IInv'
  <1> SUFFICES ASSUME IInv, initialize_idt PROVE IInv'
    OBVIOUS
  <1> USE DEF IInv, initialize_idt, Starts
  <1>1. ValuesSound'
    BY ZenonT(60) DEF ValuesSound, Cpus
  <1>2. InServiceIsHandled'
    BY DEF InServiceIsHandled
  <1>3. StagesSound'
    BY CpusAre DEF ValuesSound, StagesSound, HandedTo, AllStages, FromEnabled, FromPit, FromPicOff, FromIoapic
  <1> QED
    BY <1>1, <1>2, <1>3

(* The PIC is remapped, with the masks it starts from.                      *)
LEMMA StartPic == IInv /\ initialize_pic => IInv'
  <1> SUFFICES ASSUME IInv, initialize_pic PROVE IInv'
    OBVIOUS
  <1> USE DEF IInv, initialize_pic, Starts
  <1>1. ValuesSound'
    BY DEF ValuesSound, Cpus
  <1>2. InServiceIsHandled'
    BY DEF InServiceIsHandled, NoHandler
  <1>3. StagesSound'
    BY DEF ValuesSound, StagesSound, HandedTo, Cpus, AllStages, FromEnabled, FromPit, FromPicOff, FromIoapic
  <1> QED
    BY <1>1, <1>2, <1>3

(* The BSP's local APIC is enabled.                                         *)
LEMMA StartLapic == IInv /\ initialize_bootstrap_processor => IInv'
  <1> SUFFICES ASSUME IInv, initialize_bootstrap_processor PROVE IInv'
    OBVIOUS
  <1> USE DEF IInv, initialize_bootstrap_processor, Starts
  <1>1. ValuesSound'
    <2>1. apic \in [Cpus -> Apics] /\ apic[0] \in Apics
      BY CpusAre DEF ValuesSound, Apics
    <2>2. [apic[0] EXCEPT !.on = TRUE] \in Apics
      BY <2>1, ApicChanges
    <2>3. apic' \in [Cpus -> Apics]
      BY <2>1, <2>2
    <2> QED
      BY <2>3 DEF ValuesSound, Apics, Cpus
  <1>2. InServiceIsHandled'
    BY DEF InServiceIsHandled, Cpus
  <1>3. StagesSound'
    BY CpusAre DEF ValuesSound, StagesSound, HandedTo, AllStages, FromEnabled, FromPit, FromPicOff, FromIoapic
  <1> QED
    BY <1>1, <1>2, <1>3

(* The BSP's handlers find their save area.                                 *)
LEMMA StartCpuLocal == IInv /\ initialize_cpu_local => IInv'
  <1> SUFFICES ASSUME IInv, initialize_cpu_local PROVE IInv'
    OBVIOUS
  <1> USE DEF IInv, initialize_cpu_local, Starts
  <1>1. ValuesSound'
    BY ZenonT(60) DEF ValuesSound, Cpus
  <1>2. InServiceIsHandled'
    BY DEF InServiceIsHandled
  <1>3. StagesSound'
    BY CpusAre DEF ValuesSound, StagesSound, HandedTo, AllStages, FromEnabled, FromPit, FromPicOff, FromIoapic
  <1> QED
    BY <1>1, <1>2, <1>3

(* The count of the PIT's ticks begins.                                     *)
LEMMA StartKtime == IInv /\ initialize_ktime => IInv'
  <1> SUFFICES ASSUME IInv, initialize_ktime PROVE IInv'
    OBVIOUS
  <1> USE DEF IInv, initialize_ktime, Starts
  <1>1. ValuesSound'
    BY DEF ValuesSound, Cpus
  <1>2. InServiceIsHandled'
    BY DEF InServiceIsHandled
  <1>3. StagesSound'
    BY DEF ValuesSound, StagesSound, HandedTo, Cpus, AllStages, FromEnabled, FromPit, FromPicOff, FromIoapic
  <1> QED
    BY <1>1, <1>2, <1>3

(* The BSP accepts interrupts.                                              *)
LEMMA StartInterrupts == IInv /\ enable_interrupts => IInv'
  <1> SUFFICES ASSUME IInv, enable_interrupts PROVE IInv'
    OBVIOUS
  <1> USE DEF IInv, enable_interrupts, Starts
  <1>1. ValuesSound'
    BY DEF ValuesSound, Cpus
  <1>2. InServiceIsHandled'
    BY DEF InServiceIsHandled
  <1>3. StagesSound'
    BY DEF ValuesSound, StagesSound, HandedTo, Cpus, AllStages, FromEnabled, FromPit, FromPicOff, FromIoapic
  <1> QED
    BY <1>1, <1>2, <1>3

(* Calibration notes how many ticks of the PIT it waits for.                *)
LEMMA StartCalibration == IInv /\ calibrate => IInv'
  <1> SUFFICES ASSUME IInv, calibrate PROVE IInv'
    OBVIOUS
  <1> USE DEF IInv, calibrate, Starts
  <1>1. ValuesSound'
    BY DEF ValuesSound, Cpus
  <1>2. InServiceIsHandled'
    BY DEF InServiceIsHandled
  <1>3. StagesSound'
    BY DEF ValuesSound, StagesSound, HandedTo, Cpus, AllStages, FromEnabled, FromPit, FromPicOff, FromIoapic
  <1> QED
    BY <1>1, <1>2, <1>3

(* The BSP's timer starts once the ticks have come.                         *)
LEMMA StartTimer == IInv /\ start_timer => IInv'
  <1> SUFFICES ASSUME IInv, start_timer PROVE IInv'
    OBVIOUS
  <1> USE DEF IInv, start_timer, Starts
  <1>1. ValuesSound'
    <2>1. apic \in [Cpus -> Apics] /\ apic[0] \in Apics
      BY CpusAre DEF ValuesSound, Apics
    <2>2. [apic[0] EXCEPT !.timerOn = TRUE] \in Apics
      BY <2>1, ApicChanges
    <2>3. apic' \in [Cpus -> Apics]
      BY <2>1, <2>2
    <2> QED
      BY <2>3 DEF ValuesSound, Apics, Cpus
  <1>2. InServiceIsHandled'
    BY DEF InServiceIsHandled, Cpus
  <1>3. StagesSound'
    BY DEF ValuesSound, StagesSound, HandedTo, Cpus, AllStages, FromEnabled, FromPit, FromPicOff, FromIoapic
  <1> QED
    BY <1>1, <1>2, <1>3

(* Every line of the PIC is masked again.                                   *)
LEMMA DisablePic == IInv /\ disable_pic => IInv'
  <1> SUFFICES ASSUME IInv, disable_pic PROVE IInv'
    OBVIOUS
  <1> USE DEF IInv, disable_pic, Starts
  <1>1. ValuesSound'
    BY DEF ValuesSound, Cpus, DisabledMasks
  <1>2. InServiceIsHandled'
    BY DEF InServiceIsHandled
  <1>3. StagesSound'
    BY DEF ValuesSound, StagesSound, HandedTo, Cpus, AllStages, FromEnabled, FromPit, FromPicOff, FromIoapic, DisabledMasks, NoHandler
  <1> QED
    BY <1>1, <1>2, <1>3

(* The devices' lines go to the BSP through the IOAPIC.                     *)
LEMMA StartIoapic == IInv /\ initialize_ioapic => IInv'
  <1> SUFFICES ASSUME IInv, initialize_ioapic PROVE IInv'
    OBVIOUS
  <1> USE DEF IInv, initialize_ioapic, Starts
  <1>1. ValuesSound'
    BY CpusAre DEF ValuesSound, route_industry_standard_architecture_irq
  <1>2. InServiceIsHandled'
    BY DEF InServiceIsHandled
  <1>3. StagesSound'
    <2>1. /\ stage' = "ioapic" /\ stage' \in FromIoapic /\ stage' \in FromPicOff /\ stage' \in FromEnabled
          /\ stage \in FromPicOff /\ stage \in FromEnabled /\ stage # "reset" /\ ~device_irqs_use_ioapic
      BY DEF StagesSound, FromEnabled, FromPit, FromPicOff, FromIoapic
    <2>2. \A l \in Lines : redirection'[l] = IF l \in Devices THEN [masked |-> FALSE, cpu |-> 0]
                                             ELSE [masked |-> TRUE, cpu |-> 0]
      BY DEF route_industry_standard_architecture_irq
    <2>3. tables[0].idt /\ tables[0].gs
      BY <2>1 DEF StagesSound, FromEnabled
    <2>4. HandedTo({0} \cup online)'
      BY <2>2, <2>3 DEF HandedTo, Lines, Devices
    <2>5. ASSUME NEW l \in Lines, l \notin Devices PROVE redirection'[l].masked
      <3>1. redirection'[l] = [masked |-> TRUE, cpu |-> 0]
        BY <2>2, <2>5
      <3> QED
        BY <3>1
    <2>6. \A c \in Cpus : handler[c].by # "pic"
      <3>1. handler[0].by # "pic"
        BY DEF NoHandler
      <3>2. ASSUME NEW p \in Aps PROVE handler[p].by # "pic"
        <4>1. handler[p] \in {NoHandler} \cup [vector : Devices \cup {TIMER}, by : {"apic"}]
          BY <3>2 DEF ValuesSound
        <4> QED
          BY <4>1 DEF NoHandler
      <3> QED
        BY <3>1, <3>2, CpusAre
    <2> QED
      BY <2>1, <2>4, <2>5, <2>6 DEF StagesSound, AllStages, FromEnabled
  <1> QED
    BY <1>1, <1>2, <1>3

(* The BSP hears the PIC no more.                                           *)
LEMMA MaskLint0 == IInv /\ stop_listening_to_pic_by_masking_lint0 => IInv'
  <1> SUFFICES ASSUME IInv, stop_listening_to_pic_by_masking_lint0 PROVE IInv'
    OBVIOUS
  <1> USE DEF IInv, stop_listening_to_pic_by_masking_lint0, Starts
  <1>1. ValuesSound'
    BY DEF ValuesSound, Cpus
  <1>2. InServiceIsHandled'
    BY DEF InServiceIsHandled
  <1>3. StagesSound'
    BY DEF ValuesSound, StagesSound, HandedTo, Cpus, AllStages, FromEnabled, FromPit, FromPicOff, FromIoapic
  <1> QED
    BY <1>1, <1>2, <1>3

(* The BSP's wait for the APs ends.                                          *)
LEMMA StartAps == IInv /\ initialize_aps => IInv'
  <1> SUFFICES ASSUME IInv, initialize_aps PROVE IInv'
    OBVIOUS
  <1> USE DEF IInv, initialize_aps, Starts
  <1>1. ValuesSound'
    BY DEF ValuesSound, Cpus
  <1>2. InServiceIsHandled'
    BY DEF InServiceIsHandled
  <1>3. StagesSound'
    BY DEF ValuesSound, StagesSound, HandedTo, Cpus, AllStages, FromEnabled, FromPit, FromPicOff, FromIoapic
  <1> QED
    BY <1>1, <1>2, <1>3

(* An AP says that it is online, loads its tables, starts its local APIC and *)
(* enables interrupts, in any step of the BSP's.                             *)
LEMMA ApMain == ASSUME NEW p \in Aps PROVE IInv /\ ap_main(p) => IInv'
  <1> SUFFICES ASSUME IInv, ap_main(p) PROVE IInv'
    OBVIOUS
  <1>1. p \in Cpus /\ p # 0 /\ 0 \in Cpus
    BY InterruptsAssumption DEF Cpus, Aps
  <1>2. stage \in FromEnabled /\ stage \in FromIoapic
    BY DEF ap_main, Started, FromEnabled, FromPit, FromIoapic, FromPicOff
  <1>3. ValuesSound /\ InServiceIsHandled /\ StagesSound
    BY DEF IInv
  <1>4. /\ stage' = stage /\ pic' = pic /\ redirection' = redirection /\ handler' = handler
        /\ device_irqs_use_ioapic' = device_irqs_use_ioapic /\ lint0Masked' = lint0Masked
        /\ tick_counter' = tick_counter /\ pitTicks' = pitTicks /\ lapicTicks' = lapicTicks
    BY DEF ap_main
  <1>5. CASE p \notin online /\ online' = online \cup {p} /\ UNCHANGED <<tables, apic, enabled>>
    <2>1. ValuesSound'
      BY <1>1, <1>3, <1>4, <1>5 DEF ValuesSound
    <2>2. InServiceIsHandled'
      BY <1>3, <1>4, <1>5 DEF InServiceIsHandled
    <2>3. StagesSound'
      BY <1>1, <1>2, <1>3, <1>4, <1>5 DEF StagesSound, HandedTo
    <2> QED
      BY <2>1, <2>2, <2>3 DEF IInv
  <1>6. CASE /\ p \in online /\ tables' = [tables EXCEPT ![p] = [idt |-> TRUE, gs |-> TRUE]]
             /\ UNCHANGED <<online, apic, enabled>>
    <2>1. tables' \in [Cpus -> [idt : BOOLEAN, gs : BOOLEAN]]
      BY <1>1, <1>3, <1>6 DEF ValuesSound
    <2>2. ValuesSound'
      BY <1>3, <1>4, <1>6, <2>1 DEF ValuesSound
    <2>3. InServiceIsHandled'
      BY <1>3, <1>4, <1>6 DEF InServiceIsHandled
    <2>4. /\ tables'[p] = [idt |-> TRUE, gs |-> TRUE] /\ tables'[0] = tables[0]
          /\ \A c \in Cpus : c # p => tables'[c] = tables[c]
      BY <1>1, <1>3, <1>6 DEF ValuesSound
    <2>5. \A c \in Cpus : tables[c].idt /\ tables[c].gs => tables'[c].idt /\ tables'[c].gs
      BY <2>4
    <2>6. HandedTo({0} \cup online)'
      <3>1. PICK c \in {0} \cup online : /\ tables[c].idt /\ tables[c].gs
                                         /\ \A l \in Devices : redirection[l] = [masked |-> FALSE, cpu |-> c]
        BY <1>2, <1>3 DEF StagesSound, HandedTo
      <3>2. c \in Cpus
        BY <1>1, <1>3 DEF ValuesSound, Cpus, Aps
      <3> QED
        BY <1>4, <1>6, <2>5, <3>1, <3>2 DEF HandedTo
    <2>7. \A q \in Aps : /\ tables'[q].idt => q \in online'
                         /\ tables'[q].gs => tables'[q].idt
                         /\ apic'[q].on => tables'[q].gs
      BY <1>3, <1>6, <2>4 DEF StagesSound, Cpus, Aps
    <2>8. StagesSound'
      BY <1>2, <1>3, <1>4, <1>6, <2>4, <2>5, <2>6, <2>7 DEF StagesSound
    <2> QED
      BY <2>2, <2>3, <2>8 DEF IInv
  <1>7. CASE /\ tables[p].gs /\ apic' = [apic EXCEPT ![p] = [@ EXCEPT !.on = TRUE, !.timerOn = TRUE]]
             /\ tables[p].idt
             /\ UNCHANGED <<online, tables, enabled>>
    <2>1. apic \in [Cpus -> Apics] /\ apic[p] \in Apics
      BY <1>1, <1>3 DEF ValuesSound, Apics
    <2> DEFINE changed == [apic[p] EXCEPT !.on = TRUE, !.timerOn = TRUE]
    <2>2. changed \in Apics
      BY <2>1, ApicChanges
    <2>3. changed.pending = apic[p].pending /\ changed.inService = apic[p].inService
      BY <2>1 DEF Apics
    <2>4. apic' = [apic EXCEPT ![p] = changed]
      BY <1>7
    <2> HIDE DEF changed
    <2>5. ValuesSound'
      BY CpusAre, <1>3, <1>4, <1>7, <2>1, <2>2, <2>4 DEF ValuesSound, Apics
    <2>6. /\ \A c \in Cpus : apic'[c].pending = apic[c].pending /\ apic'[c].inService = apic[c].inService
          /\ \A c \in Cpus : c # p => apic'[c] = apic[c]
      BY <2>1, <2>3, <2>4
    <2>7. InServiceIsHandled'
      BY <1>3, <1>4, <2>6 DEF InServiceIsHandled
    <2>8. \A q \in Aps : apic'[q].on => tables'[q].gs
      BY <1>3, <1>7, <2>6 DEF StagesSound, Cpus, Aps
    <2>9. StagesSound'
      BY <1>2, <1>3, <1>4, <1>7, <2>6, <2>8 DEF StagesSound, HandedTo
    <2> QED
      BY <2>5, <2>7, <2>9 DEF IInv
  <1>8. CASE apic[p].on /\ enabled' = [enabled EXCEPT ![p] = TRUE] /\ UNCHANGED <<online, tables, apic>>
    <2>1. ValuesSound'
      BY <1>1, <1>3, <1>4, <1>8 DEF ValuesSound
    <2>2. InServiceIsHandled'
      BY <1>3, <1>4, <1>8 DEF InServiceIsHandled
    <2>3. tables[p].idt /\ tables[p].gs
      BY <1>3, <1>8 DEF StagesSound
    <2>4. \A c \in Cpus : IF enabled'[c] THEN tables'[c].idt /\ tables'[c].gs ELSE handler'[c] = NoHandler
      BY <1>1, <1>3, <1>4, <1>8, <2>3 DEF StagesSound, ValuesSound
    <2>5. StagesSound'
      BY <1>2, <1>3, <1>4, <1>8, <2>4 DEF StagesSound, HandedTo
    <2> QED
      BY <2>1, <2>2, <2>5 DEF IInv
  <1>9. tables[p].gs => tables[p].idt
    BY <1>1, <1>3 DEF StagesSound
  <1> QED
    BY <1>5, <1>6, <1>7, <1>8, <1>9 DEF ap_main, initialize_application_processor

(* The lowest of the APs that are online is one of them.                     *)
LEMMA FirstIsOnline == ASSUME ValuesSound, online # {} PROVE FirstOnline \in online
  <1>1. online \in SUBSET Nat
    BY DEF ValuesSound, Aps
  <1>2. \E p \in online : \A q \in online : p <= q
    BY <1>1, LowestExists
  <1> QED
    BY <1>2 DEF FirstOnline

(* The devices' lines move to the first AP that is online, if its tables are *)
(* there, to the BSP if they are not, and stay where none is online.         *)
LEMMA RouteToAp == IInv /\ route_device_irqs_to_application_processor => IInv'
  <1> SUFFICES ASSUME IInv, route_device_irqs_to_application_processor PROVE IInv'
    OBVIOUS
  <1> USE DEF IInv, route_device_irqs_to_application_processor, Starts
  <1>1. CASE online = {}
    <2>1. redirection' = redirection
      BY <1>1
    <2>2. ValuesSound'
      BY <2>1 DEF ValuesSound
    <2>3. InServiceIsHandled'
      BY DEF InServiceIsHandled
    <2>4. StagesSound'
      BY <2>1 DEF StagesSound, HandedTo, AllStages, FromEnabled, FromPit, FromPicOff, FromIoapic
    <2> QED
      BY <2>2, <2>3, <2>4
  <1>2. CASE online # {}
    <2> DEFINE c == Destination(FirstOnline)
    <2>1. FirstOnline \in online /\ FirstOnline \in Aps
      BY <1>2, FirstIsOnline DEF ValuesSound
    <2>2. c \in {0} \cup online /\ c \in Cpus
      BY <2>1, InterruptsAssumption DEF Destination, Cpus, Aps
    <2>3. stage \in FromEnabled /\ stage \in FromIoapic /\ stage \in FromPicOff /\ stage # "reset"
      BY DEF FromEnabled, FromPit, FromIoapic, FromPicOff
    <2>4. tables[c].idt /\ tables[c].gs
      BY <2>1, <2>2, <2>3 DEF StagesSound, Destination, FromEnabled
    <2>5. redirection' = [l \in Lines |-> IF l \in Devices THEN [masked |-> FALSE, cpu |-> c] ELSE redirection[l]]
      BY <1>2 DEF route_industry_standard_architecture_irq
    <2> HIDE DEF c
    <2>6. ValuesSound'
      <3>1. \A l \in Lines : redirection[l] \in [masked : BOOLEAN, cpu : Cpus]
        BY DEF ValuesSound
      <3>2. [masked |-> FALSE, cpu |-> c] \in [masked : BOOLEAN, cpu : Cpus]
        BY <2>2
      <3>3. redirection' \in [Lines -> [masked : BOOLEAN, cpu : Cpus]]
        BY <2>5, <3>1, <3>2
      <3> QED
        BY <3>3 DEF ValuesSound
    <2>7. InServiceIsHandled'
      BY DEF InServiceIsHandled
    <2>8. HandedTo({0} \cup online)'
      BY <2>2, <2>4, <2>5 DEF HandedTo, Lines, Devices
    <2>9. \A l \in Lines : ~redirection'[l].masked => l \in Devices /\ device_irqs_use_ioapic
      BY <2>3, <2>5 DEF StagesSound
    <2>10. StagesSound'
      BY <2>3, <2>8, <2>9 DEF StagesSound, AllStages, FromEnabled, FromPit, FromPicOff, FromIoapic
    <2> QED
      BY <2>6, <2>7, <2>10
  <1> QED
    BY <1>1, <1>2

(* The hardware raises lines and timers, and a CPU takes what was raised.    *)
LEMMA RaiseLine == ASSUME NEW l \in Lines PROVE IInv /\ raise_line(l) => IInv'
  <1> SUFFICES ASSUME IInv, raise_line(l) PROVE IInv'
    OBVIOUS
  <1> USE DEF IInv, raise_line
  <1>1. PICK c \in Cpus : c = redirection[l].cpu
    BY DEF ValuesSound
  <1>2. ~redirection[l].masked => l \in Devices /\ device_irqs_use_ioapic
    BY DEF StagesSound
  <1>3. apic \in [Cpus -> Apics] /\ apic[c] \in Apics
    BY DEF ValuesSound, Apics
  <1> DEFINE pending == apic[c].pending \cup {l}
             changed == [apic[c] EXCEPT !.pending = pending]
  <1>4. ~redirection[l].masked => pending \in SUBSET (Devices \cup {TIMER})
    BY <1>2, <1>3 DEF Apics
  <1>5. ~redirection[l].masked => changed \in Apics
    BY <1>3, <1>4, ApicChanges
  <1>6. apic' = IF redirection[l].masked \/ ~apic[c].on THEN apic ELSE [apic EXCEPT ![c] = changed]
    BY <1>1
  <1>7. changed.inService = apic[c].inService
    BY <1>3 DEF Apics
  <1> HIDE DEF changed
  <1>8. apic' \in [Cpus -> Apics]
    BY <1>3, <1>5, <1>6
  <1>9. ValuesSound'
    BY <1>8 DEF ValuesSound, Apics
  <1>10. InServiceIsHandled'
    BY <1>3, <1>6, <1>7, ZenonT(40) DEF InServiceIsHandled, ValuesSound
  <1>11. StagesSound'
    <2>1. ASSUME NEW d \in Cpus, apic'[d].pending \cap Devices # {} PROVE device_irqs_use_ioapic
      BY <1>2, <1>3, <1>6, <2>1 DEF StagesSound
    <2> QED
      BY CpusAre, <2>1 DEF StagesSound, HandedTo, ValuesSound
  <1> QED
    BY <1>9, <1>10, <1>11

(* A timer expires where one runs.                                          *)
LEMMA RaiseTimer == ASSUME NEW c \in Cpus PROVE IInv /\ raise_timer(c) => IInv'
  <1> SUFFICES ASSUME IInv, raise_timer(c) PROVE IInv'
    OBVIOUS
  <1> USE DEF IInv, raise_timer
  <1>1. apic \in [Cpus -> Apics] /\ apic[c] \in Apics
    BY DEF ValuesSound, Apics
  <1> DEFINE pending == apic[c].pending \cup {TIMER}
             changed == [apic[c] EXCEPT !.pending = pending]
  <1>2. pending \in SUBSET (Devices \cup {TIMER})
    BY <1>1 DEF Apics
  <1>3. changed \in Apics
    BY <1>1, <1>2, ApicChanges
  <1>4. apic' = [apic EXCEPT ![c] = changed]
    OBVIOUS
  <1>5. changed.inService = apic[c].inService /\ changed.pending = pending
    BY <1>1 DEF Apics
  <1> HIDE DEF changed
  <1>6. apic' \in [Cpus -> Apics]
    BY <1>1, <1>3, <1>4
  <1>7. ValuesSound'
    BY <1>6 DEF ValuesSound, Apics
  <1>8. InServiceIsHandled'
    BY <1>1, <1>4, <1>5 DEF InServiceIsHandled
  <1>9. StagesSound'
    <2>1. ASSUME NEW d \in Cpus, apic'[d].pending \cap Devices # {} PROVE apic[d].pending \cap Devices # {}
      BY <1>1, <1>4, <1>5, <2>1 DEF Devices, TIMER
    <2> QED
      BY CpusAre, <2>1 DEF StagesSound, HandedTo
  <1> QED
    BY <1>7, <1>8, <1>9

(* A CPU enters the handler of a line of the PIC.                           *)
LEMMA TakeFromPic == ASSUME NEW l \in Lines PROVE IInv /\ take_from_pic(l) => IInv'
  <1> SUFFICES ASSUME IInv, take_from_pic(l) PROVE IInv'
    OBVIOUS
  <1> USE DEF IInv, take_from_pic, Accepts
  <1>1. l \in pic.pending \ pic.masked
    BY DEF PicOffers
  <1>2. l \notin InitialMasks /\ pic.masked # Lines
    BY <1>1 DEF ValuesSound
  <1>3. stage \notin FromPicOff /\ ~device_irqs_use_ioapic
    BY <1>2 DEF StagesSound, FromIoapic
  <1>4. pic' = [masked |-> pic.masked, pending |-> pic.pending \ {l}, inService |-> pic.inService \cup {l}]
    BY DEF ValuesSound
  <1>5. handler' = [handler EXCEPT ![0] = [vector |-> l, by |-> "pic"]]
    OBVIOUS
  <1>6. ValuesSound'
    BY CpusAre, <1>2, <1>4, <1>5 DEF ValuesSound
  <1>7. InServiceIsHandled'
    <2>1. pic.inService = {} /\ pic'.inService = {l}
      <3>1. ASSUME NEW m \in Lines PROVE handler[0] # [vector |-> m, by |-> "pic"]
        <4>1. handler[0].by = "none"
          BY DEF NoHandler
        <4> QED
          BY <4>1
      <3>2. pic.inService = {}
        BY <3>1 DEF InServiceIsHandled
      <3> QED
        BY <1>4, <3>2
    <2>2. {m \in Lines : handler'[0] = [vector |-> m, by |-> "pic"]} = {l}
      BY CpusAre, <1>5 DEF ValuesSound
    <2>3. handler'[0].by = "pic" /\ handler[0].by # "apic"
      BY CpusAre, <1>5 DEF ValuesSound, NoHandler
    <2>4. \A c \in Cpus : apic'[c].inService = IF handler'[c].by = "apic" THEN {handler'[c].vector} ELSE {}
      <3>1. ASSUME NEW c \in Cpus, c # 0 PROVE handler'[c] = handler[c]
        BY <1>5, <3>1 DEF ValuesSound
      <3>2. apic' = apic /\ handler[0].by # "apic"
        BY <2>3
      <3>3. ASSUME NEW c \in Cpus
            PROVE  apic'[c].inService = IF handler'[c].by = "apic" THEN {handler'[c].vector} ELSE {}
        BY <2>3, <3>1, <3>2 DEF InServiceIsHandled
      <3> QED
        BY <3>3
    <2> QED
      BY <2>1, <2>2, <2>4 DEF InServiceIsHandled
  <1>8. StagesSound'
    BY <1>3, <1>4, <1>5 DEF StagesSound, ValuesSound, Cpus
  <1> QED
    BY <1>6, <1>7, <1>8

(* A CPU enters the handler of a vector of its local APIC.                  *)
LEMMA TakeFromApic ==
    ASSUME NEW c \in Cpus, NEW v \in Devices \cup {TIMER}
    PROVE  IInv /\ take_from_apic(c, v) => IInv'
  <1> SUFFICES ASSUME IInv, take_from_apic(c, v) PROVE IInv'
    OBVIOUS
  <1> USE DEF IInv, take_from_apic, Accepts
  <1>1. apic \in [Cpus -> Apics] /\ apic[c] \in Apics
    BY DEF ValuesSound, Apics
  <1> DEFINE pending == apic[c].pending \ {v}
             inService == apic[c].inService \cup {v}
             changed == [apic[c] EXCEPT !.pending = pending, !.inService = inService]
  <1>2. pending \in SUBSET (Devices \cup {TIMER}) /\ inService \in SUBSET (Devices \cup {TIMER})
    BY <1>1 DEF Apics
  <1>3. changed \in Apics
    BY <1>1, <1>2, ApicChanges
  <1>4. apic' = [apic EXCEPT ![c] = changed]
    OBVIOUS
  <1>5. changed.inService = inService /\ changed.pending = pending /\ changed.on = apic[c].on
    BY <1>1 DEF Apics
  <1> HIDE DEF changed
  <1>6. apic' \in [Cpus -> Apics]
    BY <1>1, <1>3, <1>4
  <1>7. DOMAIN handler = Cpus /\ handler' = [handler EXCEPT ![c] = [vector |-> v, by |-> "apic"]]
    BY DEF ValuesSound
  <1>8. ValuesSound'
    BY <1>6, <1>7, SMTT(30) DEF ValuesSound, Apics, Cpus
  <1>9. InServiceIsHandled'
    <2>1. handler[c].by = "none"
      BY DEF NoHandler
    <2>2. apic[c].inService = {}
      BY <2>1 DEF InServiceIsHandled
    <2>3. inService = {v}
      BY <2>2
    <2>4. ASSUME NEW d \in Cpus
          PROVE  apic'[d].inService = IF handler'[d].by = "apic" THEN {handler'[d].vector} ELSE {}
      <3>1. CASE d = c
        BY <1>1, <1>4, <1>5, <1>7, <2>3, <3>1
      <3>2. CASE d # c
        <4>1. apic'[d] = apic[d] /\ handler'[d] = handler[d]
          BY <1>1, <1>4, <1>7, <3>2
        <4> QED
          BY <4>1 DEF InServiceIsHandled
      <3> QED
        BY <3>1, <3>2
    <2>5. ASSUME NEW m \in Lines
          PROVE  handler'[0] = [vector |-> m, by |-> "pic"] <=> handler[0] = [vector |-> m, by |-> "pic"]
      BY <1>7 DEF NoHandler, Cpus
    <2>6. pic'.inService = {m \in Lines : handler'[0] = [vector |-> m, by |-> "pic"]}
      BY <2>5 DEF InServiceIsHandled
    <2> QED
      BY <2>4, <2>6 DEF InServiceIsHandled
  <1>10. v \in Devices => device_irqs_use_ioapic
    BY DEF StagesSound
  <1>11. StagesSound'
    <2>1. ASSUME NEW d \in Cpus, apic'[d].pending \cap Devices # {} PROVE apic[d].pending \cap Devices # {}
      BY <1>1, <1>4, <1>5, <2>1
    <2>2. handler'[0].vector # "PIT" \/ handler'[0] = handler[0]
      BY <1>7 DEF Devices, TIMER
    <2>3. ASSUME NEW d \in Cpus, handler'[d].by = "apic", handler'[d].vector \in Devices
          PROVE  device_irqs_use_ioapic
      BY <1>7, <1>10, <2>3 DEF StagesSound
    <2>4. ASSUME NEW d \in Cpus, device_irqs_use_ioapic PROVE handler'[d].by # "pic"
      BY <1>7, <2>4 DEF StagesSound
    <2>5. ASSUME NEW d \in Cpus
          PROVE  IF enabled[d] THEN tables[d].idt /\ tables[d].gs ELSE handler'[d] = NoHandler
      BY <1>7 DEF StagesSound
    <2> QED
      <3>1. ASSUME NEW p \in Aps PROVE apic'[p].on => tables[p].gs
        BY CpusAre, <1>1, <1>4, <1>5 DEF StagesSound
      <3> QED
        BY <2>1, <2>2, <2>3, <2>4, <2>5, <3>1 DEF StagesSound, HandedTo
  <1> QED
    BY <1>8, <1>9, <1>11

(* A line in service alone is ended, on the master and on the slave.        *)
LEMMA EndsAlone ==
    ASSUME NEW l \in Lines, pic.inService = {l},
           pic \in [masked : {Lines, InitialMasks}, pending : SUBSET Lines, inService : SUBSET Lines]
    PROVE  send_end_of_interrupt(l) = [masked |-> pic.masked, pending |-> pic.pending, inService |-> {}]
  <1>1. Rank(l) \in Int
    BY DEF Rank
  <1>2. {m \in pic.inService : \E n \in pic.inService : Rank(n) < Rank(m)} = {}
    BY <1>1
  <1> DEFINE still == {m \in pic.inService : \E n \in pic.inService : Rank(n) < Rank(m)}
                      \ (IF l \in Slave THEN Slave ELSE {})
  <1>3. still = {}
    BY <1>2
  <1>4. send_end_of_interrupt(l) = [pic EXCEPT !.inService = still]
    BY DEF send_end_of_interrupt
  <1> HIDE DEF still
  <1> QED
    BY <1>3, <1>4

(* The handler ends the interrupt where it came from: before the hand-over   *)
(* the 8259's at the 8259, and the devices' at the local APIC after it.      *)
LEMMA Dispatch == ASSUME NEW c \in Cpus PROVE IInv /\ isr_dispatch(c) => IInv'
  <1> SUFFICES ASSUME IInv, isr_dispatch(c) PROVE IInv'
    OBVIOUS
  <1> DEFINE v == handler[c].vector
  <1>1. /\ handler[c] # NoHandler /\ v \in Handled
        /\ tick_counter' = IF on_tick(v, c) THEN tick_counter + 1 ELSE tick_counter
        /\ pitTicks' = IF v = "PIT" THEN pitTicks + 1 ELSE pitTicks
        /\ lapicTicks' = IF v = TIMER THEN [lapicTicks EXCEPT ![c] = @ + 1] ELSE lapicTicks
        /\ IF EndsAtApic(v)
           THEN apic' = signal_end_of_interrupt(c) /\ pic' = pic
           ELSE pic' = send_end_of_interrupt(v) /\ apic' = apic
        /\ handler' = [handler EXCEPT ![c] = NoHandler]
        /\ stage' = stage /\ redirection' = redirection /\ enabled' = enabled /\ tables' = tables
        /\ online' = online
        /\ device_irqs_use_ioapic' = device_irqs_use_ioapic
    BY DEF isr_dispatch
  <1>2. ValuesSound /\ InServiceIsHandled /\ StagesSound
    BY DEF IInv
  <1>3. \/ handler[c].by = "apic" /\ v \in Devices \cup {TIMER}
        \/ handler[c].by = "pic" /\ c = 0 /\ v \in Lines \ InitialMasks /\ handler[0] = [vector |-> v, by |-> "pic"]
    BY CpusAre, <1>1, <1>2 DEF ValuesSound
  <1>4. EndsAtApic(v) <=> handler[c].by = "apic"
    BY <1>2, <1>3 DEF EndsAtApic, StagesSound, Lines, TIMER
  <1>5. apic \in [Cpus -> Apics] /\ apic[c] \in Apics
    BY <1>2 DEF ValuesSound, Apics
  <1>6. [apic[c] EXCEPT !.inService = {}] \in Apics
    BY <1>5, ApicChanges
  <1> DEFINE ended == [apic[c] EXCEPT !.inService = {}]
  <1>7. ended.inService = {} /\ ended.pending = apic[c].pending /\ ended.on = apic[c].on
    BY <1>5 DEF Apics
  <1>8. ended \in Apics
    BY <1>6
  <1>9. signal_end_of_interrupt(c) = [apic EXCEPT ![c] = ended]
    BY DEF signal_end_of_interrupt
  <1> HIDE DEF ended
  <1>10. apic' = IF handler[c].by = "apic" THEN [apic EXCEPT ![c] = ended] ELSE apic
    BY <1>1, <1>4, <1>9
  <1>11. handler[c].by = "pic" => pic.inService = {v}
    BY <1>2, <1>3 DEF InServiceIsHandled
  <1>12. pic' = IF handler[c].by = "apic" THEN pic
               ELSE [masked |-> pic.masked, pending |-> pic.pending, inService |-> {}]
    <2>1. CASE handler[c].by = "apic"
      BY <1>1, <1>4, <2>1
    <2>2. CASE handler[c].by = "pic"
      BY <1>1, <1>2, <1>3, <1>4, <1>11, <2>2, EndsAlone DEF ValuesSound
    <2> QED
      BY <1>3, <2>1, <2>2
  <1>13. apic' \in [Cpus -> Apics]
    BY <1>5, <1>8, <1>10
  <1>14. DOMAIN handler = Cpus /\ handler'[c] = NoHandler /\ \A d \in Cpus : d # c => handler'[d] = handler[d]
    BY <1>1, <1>2 DEF ValuesSound
  <1> HIDE DEF v
  <1>15. ValuesSound'
    <2>1. /\ tick_counter' \in Nat /\ pitTicks' \in Nat /\ lapicTicks' \in [Cpus -> Nat]
      BY <1>1, <1>2 DEF ValuesSound
    <2>2. pic' \in [masked : {Lines, InitialMasks}, pending : SUBSET Lines, inService : SUBSET Lines]
      BY <1>2, <1>12 DEF ValuesSound
    <2>3. DOMAIN handler' = Cpus
      BY <1>1, <1>14
    <2> QED
      <3>1. handler'[0] \in {NoHandler} \cup [vector : Lines \ InitialMasks, by : {"pic"}]
                                       \cup [vector : Devices \cup {TIMER}, by : {"apic"}]
        BY CpusAre, <1>2, <1>14 DEF ValuesSound
      <3>2. \A p \in Aps : handler'[p] \in {NoHandler} \cup [vector : Devices \cup {TIMER}, by : {"apic"}]
        BY CpusAre, <1>2, <1>14 DEF ValuesSound
      <3> QED
        BY <1>1, <1>2, <1>13, <2>1, <2>2, <2>3, <3>1, <3>2 DEF ValuesSound, Apics
  <1>16. InServiceIsHandled'
    <2>1. ASSUME NEW m \in Lines PROVE NoHandler # [vector |-> m, by |-> "pic"]
      <3>1. NoHandler.by = "none"
        BY DEF NoHandler
      <3> QED
        BY <3>1
    <2>2. NoHandler.by # "apic"
      BY DEF NoHandler
    <2>3. pic'.inService = {m \in Lines : handler'[0] = [vector |-> m, by |-> "pic"]}
      <3>1. CASE handler[c].by = "apic" /\ c # 0
        BY CpusAre, <1>2, <1>12, <1>14, <3>1 DEF InServiceIsHandled
      <3>2. CASE handler[c].by = "apic" /\ c = 0
        <4>1. \A m \in Lines : handler[0] # [vector |-> m, by |-> "pic"]
          BY <3>2
        <4>2. pic.inService = {}
          BY <1>2, <4>1 DEF InServiceIsHandled
        <4> QED
          BY <1>12, <1>14, <2>1, <3>2, <4>2
      <3>3. CASE handler[c].by = "pic"
        BY <1>3, <1>12, <1>14, <2>1, <3>3
      <3> QED
        BY <1>3, <3>1, <3>2, <3>3
    <2>4. ASSUME NEW d \in Cpus
          PROVE  apic'[d].inService = IF handler'[d].by = "apic" THEN {handler'[d].vector} ELSE {}
      <3>1. CASE d = c
        <4>1. handler[c].by # "apic" => apic[c].inService = {}
          BY <1>2 DEF InServiceIsHandled
        <4> QED
          BY <1>5, <1>7, <1>10, <1>14, <2>2, <3>1, <4>1
      <3>2. CASE d # c
        <4>1. apic'[d] = apic[d] /\ handler'[d] = handler[d]
          BY <1>5, <1>10, <1>14, <3>2
        <4> QED
          BY <1>2, <4>1 DEF InServiceIsHandled
      <3> QED
        BY <3>1, <3>2
    <2> QED
      BY <2>3, <2>4 DEF InServiceIsHandled
  <1>17. StagesSound'
    <2>1. NoHandler.by = "none" /\ NoHandler.vector = "none"
      BY DEF NoHandler
    <2>2. stage \notin FromEnabled => ~enabled[c]
      BY <1>2 DEF StagesSound
    <2>3. enabled[c] /\ stage \in FromEnabled
      BY <1>1, <1>2, <2>2 DEF StagesSound
    <2>4. tick_counter' = pitTicks' + lapicTicks'[0]
      <3>1. v = "PIT" => v # TIMER
        BY DEF TIMER
      <3>2. /\ tick_counter \in Nat /\ pitTicks \in Nat /\ lapicTicks \in [Cpus -> Nat] /\ 0 \in Cpus
            /\ tick_counter = pitTicks + lapicTicks[0]
        BY CpusAre, <1>2 DEF ValuesSound, StagesSound, HandedTo
      <3> QED
        BY <1>1, <3>1, <3>2 DEF on_tick, owns_tick_cpu, v
    <2>5. ASSUME NEW d \in Cpus PROVE apic'[d].pending = apic[d].pending /\ apic'[d].on = apic[d].on
      BY <1>5, <1>7, <1>10
    <2>6. pic'.masked = pic.masked
      BY <1>12
    <2>7. ASSUME NEW d \in Cpus PROVE handler'[d] = handler[d] \/ handler'[d] = NoHandler
      BY <1>14
    <2>8. handler'[0] = handler[0] \/ handler'[0] = NoHandler
      BY CpusAre, <2>7
    <2> QED
      BY CpusAre, <1>1, <1>2, <2>1, <2>3, <2>4, <2>5, <2>6, <2>7, <2>8, SMTT(30) DEF StagesSound, HandedTo
  <1> QED
    BY <1>15, <1>16, <1>17 DEF IInv

(* Every step of set-up, devices and handlers.                              *)
LEMMA NextSound == IInv /\ [InterruptsNext]_interruptVars => IInv'
  <1> SUFFICES ASSUME IInv, [InterruptsNext]_interruptVars PROVE IInv'
    OBVIOUS
  <1>1. CASE UNCHANGED interruptVars
    <2>1. ValuesSound'
      BY <1>1 DEF interruptVars, IInv, ValuesSound
    <2>2. InServiceIsHandled'
      BY <1>1 DEF interruptVars, IInv, InServiceIsHandled
    <2>3. StagesSound'
      BY CpusAre, <1>1 DEF interruptVars, IInv, StagesSound, HandedTo
    <2> QED
      BY <2>1, <2>2, <2>3 DEF IInv
  <1>2. CASE InterruptsNext
    BY <1>2, StartIdt, StartPic, StartLapic, StartCpuLocal, StartKtime, StartInterrupts, StartCalibration,
       StartTimer, DisablePic, StartIoapic, MaskLint0, StartAps, ApMain, RouteToAp, RaiseLine, TakeFromPic,
       RaiseTimer, Dispatch, TakeFromApic DEF InterruptsNext
  <1> QED
    BY <1>1, <1>2

(* isr_dispatch ends every interrupt at the controller that delivered it,    *)
(* whatever is raised in whichever step of the hand-over; no interrupt is    *)
(* taken without tables or without a case for its vector; ticks count once. *)
THEOREM DispatchIsSound == InterruptsSpec => []DispatchSound
  <1>1. InterruptsSpec => []IInv
    BY InitSound, NextSound, PTL DEF InterruptsSpec
  <1> QED
    BY <1>1, IInvIs, PTL

-----------------------------------------------------------------------------
(* Part 2: the boot memory map.                                             *)

(* The regions of a table, and a table of them, none in another's memory.   *)
Chunk == [base : Nat, size : Nat \ {0}]
Apart(r, s) == RegionEnd(r) <= s.base \/ RegionEnd(s) <= r.base
TableOK(t) ==
    /\ t \in Seq(Chunk)
    /\ \A j, k \in 1 .. Len(t) : j # k => Apart(t[j], t[k])

(* A sequence of n regions.                                                  *)
Sized(t, n) == t \in Seq(Chunk) /\ n = Len(t)

(* A unit of memory that some region of a table has.                        *)
Covered(t, u) == \E j \in 1 .. Len(t) : t[j].base <= u /\ u < t[j].base + t[j].size

(* What every turn of the loop over table t for the pages lo .. hi - 1      *)
(* preserves: outside of those pages nothing changes, and what it has        *)
(* passed is outside of them.                                                *)
Walked(i, tab, t, lo, hi) ==
    /\ TableOK(tab) /\ Len(tab) <= MAX_MEMORY_REGIONS
    /\ i \in 1 .. Len(tab) + 1
    /\ \A u \in Int : u < lo \/ hi <= u => (Covered(tab, u) <=> Covered(t, u))
    /\ \A j \in 1 .. i - 1 : RegionEnd(tab[j]) <= lo \/ hi <= tab[j].base

(* A region ahead that reaches beyond both ends of the pages: there is one   *)
(* at most, and only that one is split.                                      *)
Straddled(i, tab, lo, hi) ==
    \E j \in i .. Len(tab) : tab[j].base < lo /\ hi < RegionEnd(tab[j])

(* The turns that are left.                                                  *)
Left(i, tab, lo, hi) == Len(tab) - i + 1 + (IF Straddled(i, tab, lo, hi) THEN 1 ELSE 0)

(* What reserving the units P leaves of table t.                             *)
Reserved(w, t, P) ==
    /\ TableOK(w.table) /\ Len(w.table) <= MAX_MEMORY_REGIONS
    /\ w.okay \in BOOLEAN
    /\ ~w.okay => Len(w.table) = MAX_MEMORY_REGIONS
    /\ w.okay => TableUnitsOf(w.table) = TableUnitsOf(t) \ P

-----------------------------------------------------------------------------
(* The phases of the start, and where the tag behind tag i starts.          *)
Phases == {"loading", "parsing", "reserving", "ready", "halted"}
Behind(i) == tags[i].offset + Padded(tags[i].tag.size)
(* What tag i names has been reserved.                                      *)
Kept(i) ==
    LET tag == tags[i].tag
    IN /\ tag.type = "MODULE" => tag.range \in taken
       /\ tag.type \in {"MODULE", "TEXT"} /\ tag.text.start # 0 => tag.text \in taken
(* The usable memory in the tags the walk has passed.                       *)
ParsedUnits ==
    UNION {TableUnitsOf(tags[i].tag.entries) :
              i \in {k \in 1 .. Len(tags) : IsMap(tags[k].tag) /\ tags[k].offset < at}}

(* The boot loader lays the tags out one behind another, with one memory    *)
(* map.                                                                     *)
TagsPlaced ==
    /\ tags \in Seq([offset : Nat, tag : BootTags])
    /\ \A i \in 1 .. Len(tags) : tags[i].offset = IF i = 1 THEN 0 ELSE Behind(i - 1)
    /\ \A i, j \in 1 .. Len(tags) : i < j => Behind(i) <= tags[j].offset
    /\ \A i, j \in 1 .. Len(tags) : i # j => ~(IsMap(tags[i].tag) /\ IsMap(tags[j].tag))

(* The inductive invariant: in each phase, what the table holds, and of     *)
(* which tags, follows from where the walk is. The invariant of the runs    *)
(* speaks of the last phases only; the table they start from is what the    *)
(* walk before them parsed.                                                 *)
MapInv ==
    /\ bootPhase \in Phases /\ TagsPlaced
    /\ at \in {tags[i].offset : i \in 1 .. Len(tags)} \cup {total_size}
    /\ TableOK(regions) /\ Len(regions) <= MAX_MEMORY_REGIONS
    /\ taken \subseteq Ranges
    /\ bootPhase = "loading" => at = 0 /\ regions = <<>> /\ taken = {}
    /\ bootPhase = "parsing" =>
           /\ taken = {} /\ TableUnits = ParsedUnits
           /\ \A i \in 1 .. Len(tags) : IsMap(tags[i].tag) /\ at <= tags[i].offset => regions = <<>>
    /\ bootPhase \in {"reserving", "ready"} => TableUnits = UsableUnits \ TakenUnits
    /\ bootPhase = "reserving" => \A i \in 1 .. Len(tags) : tags[i].offset < at => Kept(i)
    /\ bootPhase = "ready" => \A i \in 1 .. Len(tags) : Kept(i)
    /\ bootPhase = "halted" => Len(regions) = MAX_MEMORY_REGIONS

-----------------------------------------------------------------------------
(* Rounding to pages: down gives no more, up no less (align_down,           *)
(* align_up).                                                               *)
LEMMA Rounding ==
    ASSUME NEW a \in Nat
    PROVE  /\ align_down_page(a) \in Nat /\ align_down_page(a) <= a
           /\ align_up_page(a) \in Nat /\ a <= align_up_page(a)
  <1>1. \A n \in Nat : n % PAGE_SIZE \in 0 .. PAGE_SIZE - 1 /\ n % PAGE_SIZE <= n
    BY MemoryMapAssumption, SMTT(30)
  <1>2. a + PAGE_SIZE - 1 \in Nat
    BY MemoryMapAssumption
  <1> QED
    BY <1>1, <1>2, MemoryMapAssumption DEF align_down_page, align_up_page

(* A tag's padded size is no less than its size (Multiboot2_Tag::next).     *)
LEMMA PaddedIs ==
    ASSUME NEW n \in Nat \ {0}
    PROVE  Padded(n) \in Nat /\ n <= Padded(n)
  <1>1. PICK m \in Nat : m = n + TAG_ALIGN - 1
    BY MemoryMapAssumption
  <1>2. PICK q, r \in Nat : q = m \div TAG_ALIGN /\ r = m % TAG_ALIGN /\ r < TAG_ALIGN /\ m = TAG_ALIGN * q + r
    BY MemoryMapAssumption, SMTT(30)
  <1>3. PICK p \in Nat : p = TAG_ALIGN * q
    BY MemoryMapAssumption
  <1>4. Padded(n) = p
    BY <1>1, <1>2, <1>3, MemoryMapAssumption DEF Padded
  <1> QED
    BY <1>1, <1>2, <1>3, <1>4, MemoryMapAssumption

(* The units of a table are those that one of its regions has.              *)
LEMMA CoveredIs ==
    ASSUME NEW t \in Seq(Chunk)
    PROVE  /\ TableUnitsOf(t) \subseteq Int
           /\ \A u \in Int : u \in TableUnitsOf(t) <=> Covered(t, u)
  <1>1. \A j \in 1 .. Len(t) : t[j] \in Chunk
    OBVIOUS
  <1>2. \A r \in Chunk : UnitsOf(r) \subseteq Int /\ \A u \in Int : u \in UnitsOf(r) <=> (r.base <= u /\ u < r.base + r.size)
    BY DEF UnitsOf, RegionEnd, Chunk
  <1> QED
    BY <1>1, <1>2 DEF TableUnitsOf, Covered

(* What lies within a region is apart from all that the region is apart from. *)
LEMMA Within ==
    ASSUME NEW p \in Chunk, NEW q \in Chunk, NEW r \in Chunk, Apart(p, q) \/ Apart(q, p),
           p.base <= r.base, RegionEnd(r) <= RegionEnd(p)
    PROVE  Apart(r, q) /\ Apart(q, r)
  BY DEF Apart, RegionEnd, Chunk

(* Its elements are regions.                                                *)
LEMMA Elements ==
    ASSUME NEW t, NEW n \in Nat, Sized(t, n)
    PROVE  \A j \in 1 .. n : t[j] \in Chunk
  BY DEF Sized

(* Two regions with the same units outside of the pages.                     *)
SameOutside(r, q, lo, hi) ==
    \A u \in Int : u < lo \/ hi <= u =>
        ((r.base <= u /\ u < r.base + r.size) <=> (q.base <= u /\ u < q.base + q.size))

(* The table with region i cut.                                              *)
LEMMA CutShape ==
    ASSUME NEW tab, NEW n \in Nat, Sized(tab, n), NEW i \in 1 .. n, NEW r \in Chunk,
           NEW s, s = Cut(tab, i, r)
    PROVE  Sized(s, n) /\ s[i] = r /\ \A j \in 1 .. n : j # i => s[j] = tab[j]
  <1>1. s \in Seq(Chunk)
    BY DEF Sized, Cut
  <1>2. Len(s) = n
    BY DEF Sized, Cut
  <1>3. s[i] = r /\ \A j \in 1 .. n : j # i => s[j] = tab[j]
    BY DEF Sized, Cut
  <1> QED
    BY <1>1, <1>2, <1>3 DEF Sized

(* A turn that passes region i, or that has cut it to something smaller.     *)
LEMMA CutAt ==
    ASSUME NEW lo \in Nat, NEW hi \in Nat, lo < hi, NEW tab, TableOK(tab),
           NEW n \in Nat, Sized(tab, n), NEW i \in 1 .. n, NEW r \in Chunk,
           tab[i].base <= r.base, RegionEnd(r) <= RegionEnd(tab[i]),
           SameOutside(r, tab[i], lo, hi),
           NEW s, Sized(s, n), s[i] = r, \A j \in 1 .. n : j # i => s[j] = tab[j]
    PROVE  /\ TableOK(s)
           /\ \A u \in Int : u < lo \/ hi <= u => (Covered(s, u) <=> Covered(tab, u))
  <1>1. Sized(s, n) /\ s[i] = r /\ \A j \in 1 .. n : j # i => s[j] = tab[j]
    OBVIOUS
  <1>2. \A j \in 1 .. n : tab[j] \in Chunk
    BY Elements
  <1>3. \A j, k \in 1 .. n : j # k => Apart(tab[j], tab[k])
    BY DEF TableOK, Sized
  <1>4. \A j, k \in 1 .. n : j # k => Apart(s[j], s[k])
    <2> SUFFICES ASSUME NEW j \in 1 .. n, NEW k \in 1 .. n, j # k PROVE Apart(s[j], s[k])
      OBVIOUS
    <2>1. CASE j = i
      <3>1. s[j] = r /\ s[k] = tab[k] /\ Apart(tab[i], tab[k]) /\ tab[i] \in Chunk /\ tab[k] \in Chunk
        BY <1>1, <1>2, <1>3, <2>1
      <3> QED
        BY <3>1, Within
    <2>2. CASE k = i
      <3>1. s[k] = r /\ s[j] = tab[j] /\ Apart(tab[i], tab[j]) /\ tab[i] \in Chunk /\ tab[j] \in Chunk
        BY <1>1, <1>2, <1>3, <2>2
      <3> QED
        BY <3>1, Within
    <2>3. CASE j # i /\ k # i
      BY <1>1, <1>3, <2>3
    <2> QED
      BY <2>1, <2>2, <2>3
  <1>5. TableOK(s)
    BY <1>1, <1>4 DEF TableOK, Sized
  <1>6. ASSUME NEW u \in Int, u < lo \/ hi <= u PROVE Covered(s, u) <=> Covered(tab, u)
    <2>1. (s[i].base <= u /\ u < s[i].base + s[i].size) <=> (tab[i].base <= u /\ u < tab[i].base + tab[i].size)
      BY <1>1, <1>6 DEF SameOutside
    <2> QED
      BY <1>1, <2>1 DEF Covered, Sized
  <1> QED
    BY <1>1, <1>5, <1>6

(* The table without region i, the last one in its place.                    *)
LEMMA RemoveShape ==
    ASSUME NEW tab, NEW n \in Nat, Sized(tab, n), NEW i \in 1 .. n, NEW s, s = Removed(tab, i)
    PROVE  Sized(s, n - 1) /\ \A j \in 1 .. n - 1 : s[j] = IF j = i THEN tab[n] ELSE tab[j]
  <1>1. n \in 1 .. n /\ n - 1 \in Nat /\ n - 1 \in 0 .. n
    OBVIOUS
  <1>2. PICK m : m = Cut(tab, i, tab[n])
    OBVIOUS
  <1>3. m \in Seq(Chunk) /\ Len(m) = n /\ \A j \in 1 .. n : m[j] = IF j = i THEN tab[n] ELSE tab[j]
    <2>1. tab[n] \in Chunk
      BY <1>1, Elements
    <2>2. Sized(m, n) /\ m[i] = tab[n] /\ \A j \in 1 .. n : j # i => m[j] = tab[j]
      BY <1>2, <2>1, CutShape
    <2> QED
      BY <2>2 DEF Sized
  <1>4. s = SubSeq(m, 1, n - 1)
    BY <1>2 DEF Removed, Sized
  <1>5. s \in Seq(Chunk) /\ Len(s) = n - 1 /\ \A j \in 1 .. n - 1 : s[j] = m[j]
    <2>1. PICK p \in 0 .. n : p = n - 1
      BY <1>1
    <2>2. s = SubSeq(m, 1, p) /\ p \in 0 .. Len(m)
      BY <1>3, <1>4, <2>1
    <2>3. s \in Seq(Chunk) /\ Len(s) = p /\ \A j \in 1 .. p : s[j] = m[j]
      <3> HIDE <1>4
      <3>1. 1 \in 1 .. Len(m) + 1 /\ p \in 0 .. Len(m)
        BY <1>3
      <3> QED
        BY <1>3, <2>2, <3>1, SubSeqProperties
    <2> QED
      BY <2>1, <2>3
  <1> QED
    BY <1>3, <1>5 DEF Sized

(* Removing region i, which lies inside the pages: the last one takes its    *)
(* place.                                                                    *)
LEMMA RemoveAtSound ==
    ASSUME NEW lo \in Nat, NEW hi \in Nat, lo < hi, NEW tab, TableOK(tab),
           NEW n \in Nat, Sized(tab, n), NEW i \in 1 .. n,
           lo <= tab[i].base, RegionEnd(tab[i]) <= hi,
           NEW s, Sized(s, n - 1), \A j \in 1 .. n - 1 : s[j] = IF j = i THEN tab[n] ELSE tab[j]
    PROVE  /\ TableOK(s)
           /\ \A u \in Int : u < lo \/ hi <= u => (Covered(s, u) <=> Covered(tab, u))
  <1>1. \A j \in 1 .. n : tab[j] \in Chunk
    BY Elements
  <1>2. \A j, k \in 1 .. n : j # k => Apart(tab[j], tab[k])
    BY DEF TableOK, Sized
  <1>3. n \in 1 .. n /\ 1 <= n /\ n - 1 \in Nat
    OBVIOUS
  <1>7. s \in Seq(Chunk) /\ Len(s) = n - 1
    BY DEF Sized
  <1>8. \A j \in 1 .. n - 1 : s[j] = IF j = i THEN tab[n] ELSE tab[j]
    OBVIOUS
  <1>9. \A j, k \in 1 .. n - 1 : j # k => Apart(s[j], s[k])
    BY <1>2, <1>3, <1>8
  <1>10. TableOK(s)
    <2>1. 1 .. Len(s) = 1 .. n - 1
      BY <1>7
    <2> QED
      BY <1>7, <1>9, <2>1 DEF TableOK
  <1>11. ASSUME NEW u \in Int, u < lo \/ hi <= u PROVE Covered(s, u) <=> Covered(tab, u)
    <2>1. ~(tab[i].base <= u /\ u < tab[i].base + tab[i].size)
      BY <1>1, <1>11 DEF RegionEnd, Chunk
    <2>2. ASSUME Covered(s, u) PROVE Covered(tab, u)
      <3>1. PICK j \in 1 .. n - 1 : s[j].base <= u /\ u < s[j].base + s[j].size
        BY <2>2, <1>7 DEF Covered
      <3>2. \E k \in 1 .. n : s[j] = tab[k]
        BY <1>3, <1>8, <3>1
      <3> QED
        BY <3>1, <3>2 DEF Covered, Sized
    <2>3. ASSUME Covered(tab, u) PROVE Covered(s, u)
      <3>1. PICK k \in 1 .. n : tab[k].base <= u /\ u < tab[k].base + tab[k].size
        BY <2>3 DEF Covered, Sized
      <3>2. k # i
        BY <2>1, <3>1
      <3>3. \E j \in 1 .. n - 1 : s[j] = tab[k]
        <4>1. CASE k = n
          BY <1>8, <3>2, <4>1
        <4>2. CASE k # n
          BY <1>8, <3>2, <4>2
        <4> QED
          BY <4>1, <4>2
      <3> QED
        BY <1>7, <3>1, <3>3 DEF Covered
    <2> QED
      BY <2>2, <2>3
  <1> QED
    BY <1>10, <1>11

(* The table with region i cut and another one appended.                     *)
LEMMA SplitShape ==
    ASSUME NEW tab, NEW n \in Nat, Sized(tab, n), NEW i \in 1 .. n, NEW low \in Chunk, NEW high \in Chunk,
           NEW s, s = Split(tab, i, low, high), NEW l, l = n + 1
    PROVE  /\ Sized(s, l) /\ s[i] = low /\ s[l] = high
           /\ \A j \in 1 .. n : j # i => s[j] = tab[j]
  <1>1. PICK m : m = Cut(tab, i, low)
    OBVIOUS
  <1>2. m \in Seq(Chunk) /\ Len(m) = n /\ m[i] = low /\ \A j \in 1 .. n : j # i => m[j] = tab[j]
    <2>1. Sized(m, n) /\ m[i] = low /\ \A j \in 1 .. n : j # i => m[j] = tab[j]
      BY <1>1, CutShape
    <2> QED
      BY <2>1 DEF Sized
  <1>3. s = Append(m, high)
    BY <1>1 DEF Split
  <1>4. s \in Seq(Chunk) /\ Len(s) = n + 1 /\ s[n + 1] = high /\ \A j \in 1 .. n : s[j] = m[j]
    BY <1>2, <1>3, AppendProperties
  <1> QED
    BY <1>2, <1>4 DEF Sized

(* Splitting region i around the pages.                                      *)
LEMMA SplitAt ==
    ASSUME NEW lo \in Nat, NEW hi \in Nat, lo < hi, NEW tab, TableOK(tab),
           NEW n \in Nat, Sized(tab, n), NEW i \in 1 .. n,
           tab[i].base < lo, hi < RegionEnd(tab[i]),
           NEW low \in Chunk, low.base = tab[i].base, RegionEnd(low) = lo,
           NEW high \in Chunk, high.base = hi, RegionEnd(high) = RegionEnd(tab[i]),
           NEW s, Sized(s, n + 1), s[i] = low, s[n + 1] = high,
           \A j \in 1 .. n : j # i => s[j] = tab[j]
    PROVE  /\ TableOK(s)
           /\ \A u \in Int : u < lo \/ hi <= u => (Covered(s, u) <=> Covered(tab, u))
  <1>1. \A j \in 1 .. n : tab[j] \in Chunk
    BY Elements
  <1>2. \A j, k \in 1 .. n : j # k => Apart(tab[j], tab[k])
    BY DEF TableOK, Sized
  <1>6. n + 1 \in 1 .. n + 1 /\ i \in 1 .. n + 1 /\ i # n + 1
    OBVIOUS
  <1>7. \A j \in 1 .. n + 1 : s[j] \in Chunk
    BY Elements
  <1>8. \A j, k \in 1 .. n + 1 : j # k => Apart(s[j], s[k])
    <2> SUFFICES ASSUME NEW j \in 1 .. n + 1, NEW k \in 1 .. n + 1, j # k PROVE Apart(s[j], s[k])
      OBVIOUS
    <2>1. CASE j # i /\ j # n + 1 /\ k # i /\ k # n + 1
      <3>1. j \in 1 .. n /\ k \in 1 .. n
        BY <2>1
      <3> QED
        BY <1>2, <2>1, <3>1
    <2>2. CASE j = i /\ k = n + 1
      BY <2>2 DEF Apart, RegionEnd, Chunk
    <2>3. CASE k = i /\ j = n + 1
      BY <2>3 DEF Apart, RegionEnd, Chunk
    <2>4. CASE j \in {i, n + 1} /\ k \in 1 .. n /\ k # i
      <3>1. Apart(tab[i], tab[k]) /\ s[k] = tab[k] /\ s[j] \in {low, high}
        BY <1>2, <1>6, <2>4
      <3>2. tab[i].base <= s[j].base /\ RegionEnd(s[j]) <= RegionEnd(tab[i])
        <4>1. tab[i].base \in Nat /\ tab[i].size \in Nat /\ RegionEnd(tab[i]) = tab[i].base + tab[i].size
          BY <1>1 DEF RegionEnd, Chunk
        <4>2. CASE s[j] = low
          BY <4>1, <4>2
        <4>3. CASE s[j] = high
          BY <4>1, <4>3
        <4> QED
          BY <3>1, <4>2, <4>3
      <3>3. tab[i] \in Chunk /\ tab[k] \in Chunk /\ s[j] \in Chunk
        BY <1>1, <2>4, <3>1
      <3> QED
        BY <3>1, <3>2, <3>3, Within
    <2>5. CASE k \in {i, n + 1} /\ j \in 1 .. n /\ j # i
      <3>1. Apart(tab[i], tab[j]) /\ s[j] = tab[j] /\ s[k] \in {low, high}
        BY <1>2, <1>6, <2>5
      <3>2. tab[i].base <= s[k].base /\ RegionEnd(s[k]) <= RegionEnd(tab[i])
        <4>1. tab[i].base \in Nat /\ tab[i].size \in Nat /\ RegionEnd(tab[i]) = tab[i].base + tab[i].size
          BY <1>1 DEF RegionEnd, Chunk
        <4>2. CASE s[k] = low
          BY <4>1, <4>2
        <4>3. CASE s[k] = high
          BY <4>1, <4>3
        <4> QED
          BY <3>1, <4>2, <4>3
      <3>3. tab[i] \in Chunk /\ tab[j] \in Chunk /\ s[k] \in Chunk
        BY <1>1, <2>5, <3>1
      <3> QED
        BY <3>1, <3>2, <3>3, Within
    <2> QED
      BY <2>1, <2>2, <2>3, <2>4, <2>5
  <1>9. TableOK(s)
    BY <1>8 DEF TableOK, Sized
  <1>10. ASSUME NEW u \in Int, u < lo \/ hi <= u PROVE Covered(s, u) <=> Covered(tab, u)
    <2>1. (tab[i].base <= u /\ u < tab[i].base + tab[i].size)
              <=> ((low.base <= u /\ u < low.base + low.size) \/ (high.base <= u /\ u < high.base + high.size))
      BY <1>1, <1>10 DEF RegionEnd, Chunk
    <2>2. ASSUME Covered(s, u) PROVE Covered(tab, u)
      <3>1. PICK j \in 1 .. n + 1 : s[j].base <= u /\ u < s[j].base + s[j].size
        BY <2>2, <1>6 DEF Covered, Sized
      <3>2. CASE j \in {i, n + 1}
        <4>1. tab[i].base <= u /\ u < tab[i].base + tab[i].size
          BY <1>6, <2>1, <3>1, <3>2
        <4> QED
          BY <4>1 DEF Covered, Sized
      <3>3. CASE j \notin {i, n + 1}
        <4>1. j \in 1 .. n /\ s[j] = tab[j]
          BY <3>3
        <4> QED
          BY <3>1, <4>1 DEF Covered, Sized
      <3> QED
        BY <3>2, <3>3
    <2>3. ASSUME Covered(tab, u) PROVE Covered(s, u)
      <3>1. PICK k \in 1 .. n : tab[k].base <= u /\ u < tab[k].base + tab[k].size
        BY <2>3 DEF Covered, Sized
      <3>2. \E j \in 1 .. n + 1 : s[j].base <= u /\ u < s[j].base + s[j].size
        <4>1. CASE k = i
          <5>1. n + 1 \in 1 .. n + 1 /\ i \in 1 .. n + 1
            OBVIOUS
          <5> QED
            BY <2>1, <3>1, <4>1, <5>1
        <4>2. CASE k # i
          <5>1. k \in 1 .. n + 1 /\ s[k] = tab[k]
            BY <4>2
          <5> QED
            BY <3>1, <5>1
        <4> QED
          BY <4>1, <4>2
      <3> QED
        BY <1>6, <3>2 DEF Covered, Sized
    <2> QED
      BY <2>2, <2>3
  <1> QED
    BY <1>9, <1>10

-----------------------------------------------------------------------------
(* The cases of a turn.                                                      *)
TurnCases(v, i, tab, n, r, yes, lo, hi) ==
    \/ /\ hi <= r.base \/ lo >= RegionEnd(r)
       /\ v = Walk(i + 1, tab, yes)
    \/ /\ lo <= r.base /\ hi >= RegionEnd(r)
       /\ v = Walk(i, Removed(tab, i), yes)
    \/ /\ ~(hi <= r.base \/ lo >= RegionEnd(r)) /\ lo <= r.base /\ ~(hi >= RegionEnd(r))
       /\ v = Walk(i + 1, Cut(tab, i, [base |-> hi, size |-> RegionEnd(r) - hi]), yes)
    \/ /\ ~(hi <= r.base \/ lo >= RegionEnd(r)) /\ ~(lo <= r.base) /\ hi >= RegionEnd(r)
       /\ v = Walk(i + 1, Cut(tab, i, [base |-> r.base, size |-> lo - r.base]), yes)
    \/ /\ ~(hi <= r.base \/ lo >= RegionEnd(r)) /\ ~(lo <= r.base) /\ ~(hi >= RegionEnd(r))
       /\ \/ /\ n < MAX_MEMORY_REGIONS
             /\ v = Walk(i + 1, Split(tab, i, [base |-> r.base, size |-> lo - r.base],
                                       [base |-> hi, size |-> RegionEnd(r) - hi]), yes)
          \/ /\ ~(n < MAX_MEMORY_REGIONS)
             /\ v = Walk(i, tab, FALSE)

(* A turn is one of those cases.                                            *)
LEMMA TurnIs ==
    ASSUME NEW lo, NEW hi, NEW tab, NEW i, NEW yes,
           NEW v, v = Turn(Walk(i, tab, yes), lo, hi)
    PROVE  TurnCases(v, i, tab, Len(tab), tab[i], yes, lo, hi)
  <1> DEFINE w == Walk(i, tab, yes)
  <1>1. w.i = i /\ w.table = tab /\ w.okay = yes
    BY DEF Walk
  <1>2. v = CutOne(w, lo, hi)
    BY DEF Turn
  <1> HIDE DEF w
  <1> QED
    BY <1>1, <1>2 DEF CutOne, TurnCases

(* What one turn makes of a sound walk over a table of n regions.            *)
Onward(v, i, tab, yes, t, lo, hi) ==
    \/ \E k \in Nat, s \in Seq(Chunk) :
           v = Walk(k, s, yes) /\ Walked(k, s, t, lo, hi) /\ Left(k, s, lo, hi) < Left(i, tab, lo, hi)
    \/ v = Walk(i, tab, FALSE) /\ Len(tab) = MAX_MEMORY_REGIONS

(* Going on to the next index with a table whose region i is outside of the  *)
(* pages and whose other regions were there before.                          *)
LEMMA GoOn ==
    ASSUME NEW lo \in Nat, NEW hi \in Nat, NEW t, NEW tab, NEW n \in Nat, Sized(tab, n),
           NEW i \in 1 .. n, Walked(i, tab, t, lo, hi),
           NEW s, TableOK(s), NEW m \in Nat, Sized(s, m), m \in {n, n + 1}, m <= MAX_MEMORY_REGIONS,
           \A u \in Int : u < lo \/ hi <= u => (Covered(s, u) <=> Covered(tab, u)),
           RegionEnd(s[i]) <= lo \/ hi <= s[i].base,
           \A j \in 1 .. n : j # i => s[j] = tab[j],
           m = n + 1 => /\ tab[i].base < lo /\ hi < RegionEnd(tab[i])
                        /\ \A j \in i + 1 .. m : ~(s[j].base < lo /\ hi < RegionEnd(s[j]))
    PROVE  Walked(i + 1, s, t, lo, hi) /\ Left(i + 1, s, lo, hi) < Left(i, tab, lo, hi)
  <1>1. /\ \A u \in Int : u < lo \/ hi <= u => (Covered(tab, u) <=> Covered(t, u))
        /\ \A j \in 1 .. i - 1 : RegionEnd(tab[j]) <= lo \/ hi <= tab[j].base
    BY DEF Walked
  <1>2. i + 1 \in 1 .. m + 1 /\ i + 1 \in 1 .. Len(s) + 1
    BY DEF Sized
  <1>3. \A j \in 1 .. (i + 1) - 1 : RegionEnd(s[j]) <= lo \/ hi <= s[j].base
    <2> SUFFICES ASSUME NEW j \in 1 .. i PROVE RegionEnd(s[j]) <= lo \/ hi <= s[j].base
      OBVIOUS
    <2>1. CASE j = i
      BY <2>1
    <2>2. CASE j # i
      <3>1. j \in 1 .. i - 1 /\ j \in 1 .. n
        BY <2>2
      <3> QED
        BY <1>1, <2>2, <3>1
    <2> QED
      BY <2>1, <2>2
  <1>4. Walked(i + 1, s, t, lo, hi)
    BY <1>1, <1>2, <1>3 DEF Walked, Sized
  <1>5. Left(i + 1, s, lo, hi) = m - i + (IF Straddled(i + 1, s, lo, hi) THEN 1 ELSE 0)
    BY DEF Left, Sized
  <1>6. Left(i, tab, lo, hi) = n - i + 1 + (IF Straddled(i, tab, lo, hi) THEN 1 ELSE 0)
    BY DEF Left, Sized
  <1>7. CASE m = n + 1
    <2>1. Straddled(i, tab, lo, hi)
      BY <1>7 DEF Straddled, Sized
    <2>2. ~Straddled(i + 1, s, lo, hi)
      BY <1>7 DEF Straddled, Sized
    <2> QED
      BY <1>4, <1>5, <1>6, <1>7, <2>1, <2>2
  <1>8. CASE m = n
    <2>1. Straddled(i + 1, s, lo, hi) => Straddled(i, tab, lo, hi)
      <3> SUFFICES ASSUME NEW j \in i + 1 .. m, s[j].base < lo /\ hi < RegionEnd(s[j])
                   PROVE  Straddled(i, tab, lo, hi)
        BY DEF Straddled, Sized
      <3>1. j \in i .. n /\ j \in 1 .. n /\ j # i
        BY <1>8
      <3> QED
        BY <3>1 DEF Straddled, Sized
    <2> QED
      BY <1>4, <1>5, <1>6, <1>8, <2>1
  <1> QED
    BY <1>7, <1>8

(* A turn gets on: fewer turns are left, and what the loop preserves stays. *)
LEMMA TurnSound ==
    ASSUME NEW lo \in Nat, NEW hi \in Nat, lo < hi, NEW t, NEW tab, NEW n \in Nat, Sized(tab, n),
           NEW i \in 1 .. n, Walked(i, tab, t, lo, hi), NEW yes, NEW v, v = Turn(Walk(i, tab, yes), lo, hi)
    PROVE  Onward(v, i, tab, yes, t, lo, hi)
  <1>1. PICK r : r = tab[i]
    OBVIOUS
  <1>2. r \in Chunk /\ \A j \in 1 .. n : tab[j] \in Chunk
    BY <1>1 DEF Sized
  <1>3. TableOK(tab) /\ n <= MAX_MEMORY_REGIONS /\ MAX_MEMORY_REGIONS \in Nat
    BY MemoryMapAssumption DEF Walked, Sized
  <1>4. i + 1 \in Nat /\ n + 1 \in Nat
    OBVIOUS
  <1>5. r.base \in Nat /\ r.size \in Nat \ {0} /\ RegionEnd(r) = r.base + r.size
    BY <1>2 DEF Chunk, RegionEnd
  <1>6. CASE /\ hi <= r.base \/ lo >= RegionEnd(r)
             /\ v = Walk(i + 1, tab, yes)
    <2>1. Walked(i + 1, tab, t, lo, hi) /\ Left(i + 1, tab, lo, hi) < Left(i, tab, lo, hi)
      BY <1>1, <1>3, <1>5, <1>6, GoOn
    <2> QED
      BY <1>4, <1>6, <2>1 DEF Onward, Sized
  <1>7. CASE /\ lo <= r.base /\ hi >= RegionEnd(r)
             /\ v = Walk(i, Removed(tab, i), yes)
    <2>1. PICK s : s = Removed(tab, i)
      OBVIOUS
    <2>3. lo <= tab[i].base /\ RegionEnd(tab[i]) <= hi
      BY <1>1, <1>5, <1>7
    <2>2. Sized(s, n - 1) /\ \A j \in 1 .. n - 1 : s[j] = IF j = i THEN tab[n] ELSE tab[j]
      BY <2>1, RemoveShape
    <2>4. /\ Sized(s, n - 1) /\ TableOK(s)
          /\ \A j \in 1 .. n - 1 : s[j] = IF j = i THEN tab[n] ELSE tab[j]
          /\ \A u \in Int : u < lo \/ hi <= u => (Covered(s, u) <=> Covered(tab, u))
      BY <1>3, <2>2, <2>3, RemoveAtSound
    <2>5. Walked(i, s, t, lo, hi)
      <3>1. \A j \in 1 .. i - 1 : s[j] = tab[j]
        BY <2>4
      <3>2. \A j \in 1 .. i - 1 : RegionEnd(tab[j]) <= lo \/ hi <= tab[j].base
        BY DEF Walked
      <3>3. i \in 1 .. Len(s) + 1 /\ Len(s) <= MAX_MEMORY_REGIONS
        BY <1>3, <2>4 DEF Sized
      <3>4. \A u \in Int : u < lo \/ hi <= u => (Covered(s, u) <=> Covered(t, u))
        BY <2>4 DEF Walked
      <3> QED
        BY <2>4, <3>1, <3>2, <3>3, <3>4 DEF Walked
    <2>6. Left(i, s, lo, hi) < Left(i, tab, lo, hi)
      <3>1. Straddled(i, s, lo, hi) => Straddled(i, tab, lo, hi)
        <4> SUFFICES ASSUME NEW j \in i .. n - 1, s[j].base < lo /\ hi < RegionEnd(s[j])
                     PROVE  Straddled(i, tab, lo, hi)
          BY <2>4 DEF Straddled, Sized
        <4>1. j \in 1 .. n - 1 /\ j \in i .. n /\ n \in i .. n
          OBVIOUS
        <4> QED
          BY <2>4, <4>1 DEF Straddled, Sized
      <3>2. Left(i, s, lo, hi) = (n - 1) - i + 1 + (IF Straddled(i, s, lo, hi) THEN 1 ELSE 0)
        BY <2>4 DEF Left, Sized
      <3>3. Left(i, tab, lo, hi) = n - i + 1 + (IF Straddled(i, tab, lo, hi) THEN 1 ELSE 0)
        BY DEF Left, Sized
      <3> QED
        BY <3>1, <3>2, <3>3
    <2>7. v = Walk(i, s, yes) /\ i \in Nat
      BY <1>7, <2>1
    <2>8. s \in Seq(Chunk)
      BY <2>4 DEF Sized
    <2> QED
      BY <2>5, <2>6, <2>7, <2>8 DEF Onward
  <1>8. CASE /\ ~(hi <= r.base \/ lo >= RegionEnd(r)) /\ lo <= r.base /\ ~(hi >= RegionEnd(r))
             /\ v = Walk(i + 1, Cut(tab, i, [base |-> hi, size |-> RegionEnd(r) - hi]), yes)
    <2>1. PICK high : high = [base |-> hi, size |-> RegionEnd(r) - hi]
      OBVIOUS
    <2>2. high \in Chunk /\ high.base = hi /\ RegionEnd(high) = RegionEnd(r)
      BY <1>5, <1>8, <2>1 DEF Chunk, RegionEnd
    <2>3. PICK s : s = Cut(tab, i, high)
      OBVIOUS
    <2>4. tab[i].base <= high.base /\ RegionEnd(high) <= RegionEnd(tab[i])
      BY <1>1, <1>5, <1>8, <2>2
    <2>5. SameOutside(high, tab[i], lo, hi)
      BY <1>1, <1>5, <1>8, <2>2 DEF RegionEnd, SameOutside
    <2>6. /\ Sized(s, n) /\ TableOK(s)
          /\ s[i] = high /\ \A j \in 1 .. n : j # i => s[j] = tab[j]
          /\ \A u \in Int : u < lo \/ hi <= u => (Covered(s, u) <=> Covered(tab, u))
      <3>1. Sized(s, n) /\ s[i] = high /\ \A j \in 1 .. n : j # i => s[j] = tab[j]
        BY <2>2, <2>3, CutShape
      <3> QED
        BY <1>3, <2>2, <2>4, <2>5, <3>1, CutAt
    <2>7. hi <= s[i].base
      BY <2>2, <2>6
    <2>8. Walked(i + 1, s, t, lo, hi) /\ Left(i + 1, s, lo, hi) < Left(i, tab, lo, hi)
      BY <1>3, <2>6, <2>7, GoOn
    <2>9. v = Walk(i + 1, s, yes)
      BY <1>8, <2>1, <2>3
    <2> QED
      BY <1>4, <2>6, <2>8, <2>9 DEF Onward, Sized
  <1>9. CASE /\ ~(hi <= r.base \/ lo >= RegionEnd(r)) /\ ~(lo <= r.base) /\ hi >= RegionEnd(r)
             /\ v = Walk(i + 1, Cut(tab, i, [base |-> r.base, size |-> lo - r.base]), yes)
    <2>1. PICK low : low = [base |-> r.base, size |-> lo - r.base]
      OBVIOUS
    <2>2. low \in Chunk /\ low.base = r.base /\ RegionEnd(low) = lo
      BY <1>5, <1>9, <2>1 DEF Chunk, RegionEnd
    <2>3. PICK s : s = Cut(tab, i, low)
      OBVIOUS
    <2>4. tab[i].base <= low.base /\ RegionEnd(low) <= RegionEnd(tab[i])
      BY <1>1, <1>5, <1>9, <2>2
    <2>5. SameOutside(low, tab[i], lo, hi)
      BY <1>1, <1>5, <1>9, <2>2 DEF RegionEnd, SameOutside
    <2>6. /\ Sized(s, n) /\ TableOK(s)
          /\ s[i] = low /\ \A j \in 1 .. n : j # i => s[j] = tab[j]
          /\ \A u \in Int : u < lo \/ hi <= u => (Covered(s, u) <=> Covered(tab, u))
      <3>1. Sized(s, n) /\ s[i] = low /\ \A j \in 1 .. n : j # i => s[j] = tab[j]
        BY <2>2, <2>3, CutShape
      <3> QED
        BY <1>3, <2>2, <2>4, <2>5, <3>1, CutAt
    <2>7. RegionEnd(s[i]) <= lo
      BY <2>2, <2>6
    <2>8. Walked(i + 1, s, t, lo, hi) /\ Left(i + 1, s, lo, hi) < Left(i, tab, lo, hi)
      BY <1>3, <2>6, <2>7, GoOn
    <2>9. v = Walk(i + 1, s, yes)
      BY <1>9, <2>1, <2>3
    <2> QED
      BY <1>4, <2>6, <2>8, <2>9 DEF Onward, Sized
  <1>10. CASE /\ ~(hi <= r.base \/ lo >= RegionEnd(r)) /\ ~(lo <= r.base) /\ ~(hi >= RegionEnd(r))
              /\ n < MAX_MEMORY_REGIONS
              /\ v = Walk(i + 1, Split(tab, i, [base |-> r.base, size |-> lo - r.base],
                                        [base |-> hi, size |-> RegionEnd(r) - hi]), yes)
    <2>1. PICK low : low = [base |-> r.base, size |-> lo - r.base]
      OBVIOUS
    <2>2. PICK high : high = [base |-> hi, size |-> RegionEnd(r) - hi]
      OBVIOUS
    <2>3. low \in Chunk /\ low.base = r.base /\ RegionEnd(low) = lo
      BY <1>5, <1>10, <2>1 DEF Chunk, RegionEnd
    <2>4. high \in Chunk /\ high.base = hi /\ RegionEnd(high) = RegionEnd(r)
      BY <1>5, <1>10, <2>2 DEF Chunk, RegionEnd
    <2>5. PICK s : s = Split(tab, i, low, high)
      OBVIOUS
    <2>6. r.base < lo /\ hi < RegionEnd(r)
      BY <1>5, <1>10
    <2>7. /\ Sized(s, n + 1) /\ s[i] = low /\ s[n + 1] = high
          /\ \A j \in 1 .. n : j # i => s[j] = tab[j]
      <3>1. PICK l : l = n + 1
        OBVIOUS
      <3>2. /\ Sized(s, l) /\ s[i] = low /\ s[l] = high
            /\ \A j \in 1 .. n : j # i => s[j] = tab[j]
        <4>1. Sized(tab, n) /\ low \in Chunk /\ high \in Chunk
          BY <2>3, <2>4
        <4> QED
          BY <2>5, <3>1, <4>1, SplitShape
      <3> QED
        BY <3>1, <3>2, Zenon
    <2>71. /\ TableOK(s)
           /\ \A u \in Int : u < lo \/ hi <= u => (Covered(s, u) <=> Covered(tab, u))
      BY <1>1, <1>3, <2>3, <2>4, <2>6, <2>7, SplitAt, SMTT(30)
    <2>8. RegionEnd(s[i]) <= lo
      BY <2>3, <2>7
    <2>9. ASSUME NEW j \in i + 1 .. n + 1 PROVE ~(s[j].base < lo /\ hi < RegionEnd(s[j]))
      <3>1. CASE j = n + 1
        BY <2>4, <2>7, <3>1
      <3>2. CASE j # n + 1
        <4>1. j \in 1 .. n /\ j # i /\ s[j] = tab[j] /\ tab[j] \in Chunk
          BY <1>2, <2>7, <3>2
        <4>2. Apart(r, tab[j])
          BY <1>1, <1>3, <4>1 DEF TableOK, Sized
        <4>3. tab[j].base \in Nat /\ tab[j].size \in Nat /\ RegionEnd(tab[j]) = tab[j].base + tab[j].size
          BY <4>1 DEF Chunk, RegionEnd
        <4> QED
          BY <1>5, <2>6, <4>1, <4>2, <4>3 DEF Apart
      <3> QED
        BY <3>1, <3>2
    <2>10. n + 1 <= MAX_MEMORY_REGIONS
      BY <1>3, <1>10
    <2>11. Walked(i + 1, s, t, lo, hi) /\ Left(i + 1, s, lo, hi) < Left(i, tab, lo, hi)
      BY <1>1, <1>3, <1>4, <2>6, <2>7, <2>71, <2>8, <2>9, <2>10, GoOn
    <2>12. v = Walk(i + 1, s, yes)
      BY <1>10, <2>1, <2>2, <2>5
    <2> QED
      BY <1>4, <2>7, <2>11, <2>12 DEF Onward, Sized
  <1>11. CASE ~(n < MAX_MEMORY_REGIONS) /\ v = Walk(i, tab, FALSE)
    <2>1. n = MAX_MEMORY_REGIONS
      BY <1>3, <1>11
    <2>2. Len(tab) = MAX_MEMORY_REGIONS
      BY <2>1 DEF Sized
    <2> QED
      BY <1>11, <2>2, Zenon DEF Onward
  <1>12. Len(tab) = n
    BY DEF Sized
  <1>13. TurnCases(v, i, tab, n, r, yes, lo, hi)
    BY <1>1, <1>12, TurnIs
  <1> QED
    BY <1>13, <1>6, <1>7, <1>8, <1>9, <1>10, <1>11, ZenonT(60) DEF TurnCases

-----------------------------------------------------------------------------
(* One turn, or none when the loop has ended.                                *)
Turned(w, lo, hi) == IF w.okay /\ w.i <= Len(w.table) THEN Turn(w, lo, hi) ELSE w

(* A loop in mid-course over table t, with k turns left at most; and one    *)
(* that found the table full.                                               *)
Going(w, k, t, lo, hi) ==
    \E i \in Nat, s \in Seq(Chunk) :
        /\ w = Walk(i, s, TRUE) /\ Walked(i, s, t, lo, hi)
        /\ i <= Len(s) => Left(i, s, lo, hi) <= k
Halted(w) ==
    \E i, s : w = Walk(i, s, FALSE) /\ TableOK(s) /\ Len(s) = MAX_MEMORY_REGIONS

(* With or without a turn, what the loop preserves stays.                   *)
LEMMA TurnedSound ==
    ASSUME NEW lo \in Nat, NEW hi \in Nat, lo < hi, NEW t, NEW w, NEW k \in Nat,
           Going(w, k + 1, t, lo, hi) \/ Halted(w)
    PROVE  Going(Turned(w, lo, hi), k, t, lo, hi) \/ Halted(Turned(w, lo, hi))
  <1>1. CASE Halted(w)
    <2>1. PICK i, s : w = Walk(i, s, FALSE) /\ TableOK(s) /\ Len(s) = MAX_MEMORY_REGIONS
      BY <1>1 DEF Halted
    <2>2. ~w.okay
      <3>1. Walk(i, s, FALSE).okay = FALSE
        BY Zenon DEF Walk
      <3> QED
        BY <2>1, <3>1, Zenon
    <2> QED
      BY <1>1, <2>2 DEF Turned
  <1>2. CASE Going(w, k + 1, t, lo, hi)
    <2>1. PICK i \in Nat, s \in Seq(Chunk) :
              /\ w = Walk(i, s, TRUE) /\ Walked(i, s, t, lo, hi)
              /\ i <= Len(s) => Left(i, s, lo, hi) <= k + 1
      BY <1>2 DEF Going
    <2>2. w.okay /\ w.i = i /\ w.table = s
      <3>1. Walk(i, s, TRUE).okay = TRUE
        BY Zenon DEF Walk
      <3>2. Walk(i, s, TRUE).i = i
        BY Zenon DEF Walk
      <3>3. Walk(i, s, TRUE).table = s
        BY Zenon DEF Walk
      <3> QED
        BY <2>1, <3>1, <3>2, <3>3, Zenon
    <2>3. w.i = i /\ w.table = s
      BY <2>2
    <2>4. CASE ~(i <= Len(s))
      <3>1. Turned(w, lo, hi) = w
        BY <2>3, <2>4 DEF Turned
      <3> QED
        BY <2>1, <2>4, <3>1 DEF Going
    <2>5. CASE i <= Len(s)
      <3>1. PICK n \in Nat : n = Len(s)
        OBVIOUS
      <3>2. Sized(s, n) /\ i \in 1 .. n
        BY <2>1, <2>5, <3>1 DEF Sized, Walked
      <3>3. PICK yes : yes = TRUE
        OBVIOUS
      <3>4. PICK v : v = Turned(w, lo, hi)
        OBVIOUS
      <3>5. v = Turn(w, lo, hi)
        BY <2>2, <2>3, <2>5, <3>4 DEF Turned
      <3>6. v = Turn(Walk(i, s, yes), lo, hi)
        BY <2>1, <3>3, <3>5, Zenon
      <3>7. Onward(v, i, s, yes, t, lo, hi)
        BY <2>1, <3>2, <3>6, TurnSound
      <3>8. CASE \E m \in Nat, r \in Seq(Chunk) :
                     v = Walk(m, r, yes) /\ Walked(m, r, t, lo, hi) /\ Left(m, r, lo, hi) < Left(i, s, lo, hi)
        <4>1. PICK m \in Nat, r \in Seq(Chunk) :
                     v = Walk(m, r, yes) /\ Walked(m, r, t, lo, hi) /\ Left(m, r, lo, hi) < Left(i, s, lo, hi)
          BY <3>8
        <4>2. Left(m, r, lo, hi) \in Int /\ Left(i, s, lo, hi) \in Int
          BY <4>1 DEF Left
        <4>3. Left(m, r, lo, hi) <= k
          BY <2>1, <2>5, <4>1, <4>2
        <4>4. v = Walk(m, r, TRUE)
          BY <3>3, <4>1, Zenon
        <4>5. Going(v, k, t, lo, hi)
          BY <4>1, <4>3, <4>4, Zenon DEF Going
        <4> QED
          BY <3>4, <4>5
      <3>9. CASE v = Walk(i, s, FALSE) /\ Len(s) = MAX_MEMORY_REGIONS
        <4>1. TableOK(s)
          BY <2>1 DEF Walked
        <4>2. Halted(v)
          BY <3>9, <4>1, Zenon DEF Halted
        <4> QED
          BY <3>4, <4>2
      <3> QED
        BY <3>7, <3>8, <3>9, Zenon DEF Onward
    <2> QED
      BY <2>4, <2>5
  <1> QED
    BY <1>1, <1>2

(* The loop's recursion: for every number of turns there are that many.      *)
Turns(g, n, t, lo, hi) ==
    /\ g = [m \in 0 .. n |-> g[m]]
    /\ g[0] = Start(t)
    /\ \A m \in 1 .. n : g[m] = Turned(g[m - 1], lo, hi)

(* There are that many, for every number of turns.                          *)
LEMMA TurnsExist ==
    ASSUME NEW lo, NEW hi, NEW t, NEW n \in Nat
    PROVE  \E g : Turns(g, n, t, lo, hi)
  <1> DEFINE missing == {m \in Nat : ~(\E g : Turns(g, m, t, lo, hi))}
  <1>1. SUFFICES ASSUME missing # {} PROVE FALSE
    OBVIOUS
  <1>2. missing \in SUBSET Nat
    OBVIOUS
  <1>3. PICK m \in missing : \A k \in missing : m <= k
    BY <1>1, <1>2, LowestExists
  <1>4. CASE m = 0
    <2> DEFINE f == [k \in 0 .. 0 |-> Start(t)]
    <2>1. f[0] = Start(t) /\ f = [k \in 0 .. 0 |-> f[k]]
      OBVIOUS
    <2> HIDE DEF f
    <2>2. Turns(f, 0, t, lo, hi)
      BY <2>1 DEF Turns
    <2> QED
      BY <1>4, <2>2
  <1>5. CASE m # 0
    <2>1. m - 1 \in Nat /\ m - 1 \notin missing
      BY <1>3, <1>5
    <2>2. PICK g : Turns(g, m - 1, t, lo, hi)
      BY <2>1
    <2> DEFINE f == [k \in 0 .. m |-> IF k = m THEN Turned(g[m - 1], lo, hi) ELSE g[k]]
    <2>3. \A k \in 0 .. m - 1 : f[k] = g[k]
      BY <2>1
    <2>4. f[m] = Turned(g[m - 1], lo, hi) /\ f = [k \in 0 .. m |-> f[k]]
      BY <1>5, <2>1
    <2> HIDE DEF f
    <2>5. g[0] = Start(t) /\ \A k \in 1 .. m - 1 : g[k] = Turned(g[k - 1], lo, hi)
      BY <2>2 DEF Turns
    <2>6. ASSUME NEW k \in 1 .. m PROVE f[k] = Turned(f[k - 1], lo, hi)
      <3>1. CASE k = m
        <4>1. f[m - 1] = g[m - 1]
          BY <2>1, <2>3
        <4> QED
          BY <2>4, <3>1, <4>1
      <3>2. CASE k # m
        <4>1. k \in 0 .. m - 1 /\ k - 1 \in 0 .. m - 1 /\ k \in 1 .. m - 1
          BY <3>2
        <4> QED
          BY <2>3, <2>5, <4>1
      <3> QED
        BY <3>1, <3>2
    <2>7. f[0] = Start(t)
      BY <2>1, <2>3, <2>5
    <2>8. Turns(f, m, t, lo, hi)
      BY <2>4, <2>6, <2>7 DEF Turns
    <2> QED
      BY <2>8
  <1> QED
    BY <1>4, <1>5

(* So the recursion of Reserving is one of them.                             *)
LEMMA ReservingIs ==
    ASSUME NEW t \in Seq(Chunk), NEW lo, NEW hi
    PROVE  \E g : Turns(g, 2 * Len(t), t, lo, hi) /\ Reserving(t, lo, hi) = g[2 * Len(t)]
  <1>1. PICK n \in Nat : n = 2 * Len(t)
    OBVIOUS
  <1> DEFINE Body(g) == [m \in 0 .. n |-> IF m = 0 THEN Start(t)
                                          ELSE LET w == g[m - 1]
                                               IN IF w.okay /\ w.i <= Len(w.table) THEN Turn(w, lo, hi) ELSE w]
             all == CHOOSE g : g = Body(g)
  <1>2. Reserving(t, lo, hi) = all[n]
    BY <1>1, Zenon DEF Reserving
  <1>3. \E g : g = Body(g)
    <2>1. PICK g : Turns(g, n, t, lo, hi)
      BY TurnsExist
    <2>2. \A m \in 0 .. n : g[m] = Body(g)[m]
      BY <2>1, SMTT(30) DEF Turns, Turned
    <2>3. g = [m \in 0 .. n |-> g[m]]
      BY <2>1 DEF Turns
    <2>4. g = Body(g)
      BY <2>2, <2>3
    <2> QED
      BY <2>4
  <1>4. all = Body(all)
    BY <1>3
  <1> HIDE DEF all
  <1>5. Turns(all, n, t, lo, hi)
    <2>1. \A m \in 0 .. n : all[m] = IF m = 0 THEN Start(t) ELSE Turned(all[m - 1], lo, hi)
      BY <1>4 DEF Turned
    <2>2. all = [m \in 0 .. n |-> all[m]]
      BY <1>4
    <2>3. \A m \in 1 .. n : m \in 0 .. n /\ m # 0
      OBVIOUS
    <2> QED
      BY <2>1, <2>2, <2>3 DEF Turns
  <1> QED
    BY <1>1, <1>2, <1>5

(* The loop over a whole table.                                              *)
LEMMA LoopSound ==
    ASSUME NEW lo \in Nat, NEW hi \in Nat, lo < hi, NEW t, TableOK(t), Len(t) <= MAX_MEMORY_REGIONS,
           NEW w, w = Reserving(t, lo, hi)
    PROVE  Reserved(w, t, lo .. hi - 1)
  <1>1. t \in Seq(Chunk)
    BY DEF TableOK
  <1>2. PICK g : Turns(g, 2 * Len(t), t, lo, hi) /\ w = g[2 * Len(t)]
    BY <1>1, ReservingIs
  <1>3. PICK l \in Nat : l = Len(t)
    BY <1>1
  <1>4. PICK n \in Nat : n = 2 * l
    OBVIOUS
  <1>5. Turns(g, n, t, lo, hi) /\ w = g[n]
    BY <1>2, <1>3, <1>4
  <1>6. \A m \in 0 .. n : Going(g[m], n - m, t, lo, hi) \/ Halted(g[m])
    <2> DEFINE bad == {m \in 0 .. n : ~(Going(g[m], n - m, t, lo, hi) \/ Halted(g[m]))}
    <2>1. SUFFICES ASSUME bad # {} PROVE FALSE
      OBVIOUS
    <2>2. bad \in SUBSET Nat
      OBVIOUS
    <2>3. PICK m \in bad : \A k \in bad : m <= k
      BY <2>1, <2>2, LowestExists
    <2>4. m \in 0 .. n /\ ~(Going(g[m], n - m, t, lo, hi) \/ Halted(g[m]))
      BY <2>3
    <2>5. CASE m = 0
      <3>1. g[0] = Walk(1, t, TRUE)
        BY <1>5 DEF Turns, Start
      <3>2. Walked(1, t, t, lo, hi)
        BY <1>1 DEF Walked
      <3>3. 1 <= Len(t) => Left(1, t, lo, hi) <= n
        BY <1>3, <1>4 DEF Left
      <3>4. n - 0 = n /\ 1 \in Nat
        OBVIOUS
      <3>5. Going(g[0], n, t, lo, hi)
        BY <1>1, <3>1, <3>2, <3>3, <3>4, Zenon DEF Going
      <3> QED
        BY <2>4, <2>5, <3>4, <3>5
    <2>6. CASE m # 0
      <3>1. m - 1 \in 0 .. n /\ m \in 1 .. n /\ m - 1 \notin bad
        BY <2>3, <2>4, <2>6
      <3>2. PICK k \in Nat : k = n - m
        BY <2>4
      <3>3. n - (m - 1) = k + 1
        BY <2>4, <3>2
      <3>4. Going(g[m - 1], n - (m - 1), t, lo, hi) \/ Halted(g[m - 1])
        BY <3>1
      <3>5. Going(g[m - 1], k + 1, t, lo, hi) \/ Halted(g[m - 1])
        BY <3>3, <3>4
      <3>6. g[m] = Turned(g[m - 1], lo, hi)
        BY <1>5, <3>1 DEF Turns
      <3>7. Going(g[m], k, t, lo, hi) \/ Halted(g[m])
        BY <3>5, <3>6, TurnedSound
      <3> QED
        BY <2>4, <3>2, <3>7
    <2> QED
      BY <2>5, <2>6
  <1>7. n \in 0 .. n /\ n - n = 0
    OBVIOUS
  <1>8. Going(w, 0, t, lo, hi) \/ Halted(w)
    BY <1>5, <1>6, <1>7
  <1>9. CASE Halted(w)
    <2>1. PICK i, s : w = Walk(i, s, FALSE) /\ TableOK(s) /\ Len(s) = MAX_MEMORY_REGIONS
      BY <1>9 DEF Halted
    <2>2. Walk(i, s, FALSE).okay = FALSE
      BY Zenon DEF Walk
    <2>3. Walk(i, s, FALSE).table = s
      BY Zenon DEF Walk
    <2>4. w.table = s
      BY <2>1, <2>3, Zenon
    <2>5. w.okay = FALSE
      BY <2>1, <2>2, Zenon
    <2> QED
      <3>1. TableOK(w.table) /\ Len(w.table) = MAX_MEMORY_REGIONS
        BY <2>1, <2>4
      <3>2. Len(w.table) <= MAX_MEMORY_REGIONS
        BY <3>1, MemoryMapAssumption
      <3>3. w.okay \in BOOLEAN /\ ~w.okay
        BY <2>5
      <3> QED
        BY <3>1, <3>2, <3>3 DEF Reserved
  <1>10. CASE Going(w, 0, t, lo, hi)
    <2>1. PICK i \in Nat, s \in Seq(Chunk) :
              /\ w = Walk(i, s, TRUE) /\ Walked(i, s, t, lo, hi)
              /\ i <= Len(s) => Left(i, s, lo, hi) <= 0
      BY <1>10 DEF Going
    <2>2. Walk(i, s, TRUE).okay = TRUE
      BY Zenon DEF Walk
    <2>3. Walk(i, s, TRUE).table = s
      BY Zenon DEF Walk
    <2>4. w.table = s
      BY <2>1, <2>3, Zenon
    <2>5. w.okay = TRUE
      BY <2>1, <2>2, Zenon
    <2>6. i = Len(s) + 1
      BY <2>1 DEF Left, Walked
    <2>7. \A j \in 1 .. Len(s) : RegionEnd(s[j]) <= lo \/ hi <= s[j].base
      BY <2>1, <2>6 DEF Walked
    <2>8. TableUnitsOf(s) = TableUnitsOf(t) \ (lo .. hi - 1)
      <3>1. /\ TableUnitsOf(s) \subseteq Int /\ TableUnitsOf(t) \subseteq Int
            /\ \A u \in Int : u \in TableUnitsOf(s) <=> Covered(s, u)
            /\ \A u \in Int : u \in TableUnitsOf(t) <=> Covered(t, u)
        BY <1>1, CoveredIs
      <3>2. ASSUME NEW u \in Int PROVE u \in TableUnitsOf(s) <=> u \in TableUnitsOf(t) /\ u \notin lo .. hi - 1
        <4>1. CASE u < lo \/ hi <= u
          <5>1. Covered(s, u) <=> Covered(t, u)
            BY <2>1, <4>1 DEF Walked
          <5> QED
            BY <3>1, <4>1, <5>1
        <4>2. CASE ~(u < lo \/ hi <= u)
          <5>1. ~Covered(s, u)
            <6> SUFFICES ASSUME NEW j \in 1 .. Len(s), s[j].base <= u, u < s[j].base + s[j].size PROVE FALSE
              BY DEF Covered
            <6>1. s[j] \in Chunk
              OBVIOUS
            <6>2. RegionEnd(s[j]) <= lo \/ hi <= s[j].base
              BY <2>7
            <6> QED
              BY <4>2, <6>1, <6>2, SMTT(30) DEF RegionEnd, Chunk
          <5> QED
            BY <3>1, <4>2, <5>1
        <4> QED
          BY <4>1, <4>2
      <3> QED
        BY <3>1, <3>2
    <2>9. TableOK(s) /\ Len(s) <= MAX_MEMORY_REGIONS
      BY <2>1 DEF Walked
    <2> QED
      BY <2>4, <2>5, <2>8, <2>9 DEF Reserved
  <1> QED
    BY <1>8, <1>9, <1>10

(* One call, and a call after others.                                        *)
LEMMA CallSound ==
    ASSUME NEW t, TableOK(t), Len(t) <= MAX_MEMORY_REGIONS, NEW range \in Ranges
    PROVE  Reserved(reserve_range(t, range), t, PagesOf(range))
  <1>1. CASE range.start >= range.end
    <2>1. reserve_range(t, range) = Walk(1, t, TRUE)
      BY <1>1 DEF reserve_range, Start
    <2>2. Walk(1, t, TRUE).okay = TRUE
      BY Zenon DEF Walk
    <2>3. Walk(1, t, TRUE).table = t
      BY Zenon DEF Walk
    <2>4. PICK w : w = reserve_range(t, range)
      OBVIOUS
    <2>5. w.okay = TRUE
      BY <2>1, <2>2, <2>4, Zenon
    <2>6. w.table = t
      BY <2>1, <2>3, <2>4, Zenon
    <2>7. PagesOf(range) = {}
      BY <1>1 DEF PagesOf
    <2>8. TableUnitsOf(t) = TableUnitsOf(t) \ PagesOf(range)
      BY <2>7
    <2>9. Reserved(w, t, PagesOf(range))
      BY <2>5, <2>6, <2>8 DEF Reserved
    <2> QED
      BY <2>4, <2>9
  <1>2. CASE ~(range.start >= range.end)
    <2>1. range.start \in Nat /\ range.end \in Nat /\ range.start < range.end
      BY <1>2 DEF Ranges
    <2>2. PICK lo \in Nat : lo = align_down_page(range.start) /\ lo <= range.start
      BY <2>1, Rounding
    <2>3. PICK hi \in Nat : hi = align_up_page(range.end) /\ range.end <= hi
      BY <2>1, Rounding
    <2>4. lo < hi
      BY <2>1, <2>2, <2>3
    <2>5. reserve_range(t, range) = Reserving(t, lo, hi)
      BY <1>2, <2>2, <2>3 DEF reserve_range
    <2>6. PagesOf(range) = lo .. hi - 1
      BY <1>2, <2>2, <2>3 DEF PagesOf
    <2> QED
      BY <2>4, <2>5, <2>6, LoopSound
  <1> QED
    BY <1>1, <1>2

(* A call after one that had room, or none after one that had not.          *)
LEMMA ThenSound ==
    ASSUME NEW t, NEW w, NEW P, Reserved(w, t, P), NEW range \in Ranges
    PROVE  Reserved(Then(w, range), t, P \cup PagesOf(range))
  <1>1. CASE w.okay
    <2>1. TableOK(w.table) /\ Len(w.table) <= MAX_MEMORY_REGIONS /\ TableUnitsOf(w.table) = TableUnitsOf(t) \ P
      BY <1>1 DEF Reserved
    <2>2. PICK v : v = Then(w, range)
      OBVIOUS
    <2>3. v = reserve_range(w.table, range)
      BY <1>1, <2>2 DEF Then
    <2>4. Reserved(v, w.table, PagesOf(range))
      BY <2>1, <2>3, CallSound
    <2>5. v.okay => TableUnitsOf(v.table) = TableUnitsOf(t) \ (P \cup PagesOf(range))
      BY <2>1, <2>4 DEF Reserved
    <2>6. Reserved(v, t, P \cup PagesOf(range))
      BY <2>4, <2>5 DEF Reserved
    <2> QED
      BY <2>2, <2>6
  <1>2. CASE ~w.okay
    <2>1. Then(w, range) = w
      BY <1>2 DEF Then
    <2> QED
      BY <1>2, <2>1 DEF Reserved
  <1> QED
    BY <1>1, <1>2

-----------------------------------------------------------------------------
(* Sizes of tags are positive, so that the walk gets on with each.           *)
LEMMA TagSized ==
    ASSUME NEW tag \in BootTags
    PROVE  tag.size \in TagSizes /\ tag.size \in Nat \ {0} /\ Padded(tag.size) \in Nat /\ Padded(tag.size) > 0
  <1>1. tag.size \in TagSizes
    BY DEF BootTags, MapTag
  <1>2. tag.size \in Nat \ {0}
    BY <1>1, MemoryMapAssumption
  <1> QED
    BY <1>1, <1>2, PaddedIs

(* A memory map is a table of regions.                                       *)
LEMMA MapTable ==
    ASSUME NEW tag \in BootTags, IsMap(tag)
    PROVE  TableOK(tag.entries)
  <1>1. PICK map \in UsableMaps, bytes \in TagSizes : tag = MapTag(map, bytes)
    BY DEF BootTags, MapTag, IsMap
  <1>2. map \in Seq(Ranges)
    BY FirmwareAssumption
  <1>3. PICK n \in Nat : n = Len(map)
    BY <1>2
  <1>4. \A i \in 1 .. n : map[i] \in Ranges /\ map[i].start < map[i].end
    BY <1>2, <1>3, FirmwareAssumption
  <1>5. \A i, j \in 1 .. n : i # j => map[i].end <= map[j].start \/ map[j].end <= map[i].start
    BY <1>3, FirmwareAssumption
  <1>6. PICK e : e = [i \in 1 .. n |-> Region(map[i])]
    OBVIOUS
  <1>7. tag.entries = e
    BY <1>1, <1>3, <1>6 DEF MapTag
  <1>8. \A i \in 1 .. n : /\ Region(map[i]) \in Chunk /\ Region(map[i]).base = map[i].start
                          /\ RegionEnd(Region(map[i])) = map[i].end
    BY <1>4 DEF Region, RegionEnd, Chunk, Ranges
  <1>9. e \in Seq(Chunk) /\ Len(e) = n
    BY <1>6, <1>8
  <1>10. \A i, j \in 1 .. n : i # j => Apart(e[i], e[j])
    BY <1>5, <1>6, <1>8 DEF Apart
  <1> QED
    BY <1>7, <1>9, <1>10 DEF TableOK

(* What a tag names are ranges.                                              *)
LEMMA TagNames ==
    ASSUME NEW tag \in BootTags
    PROVE  /\ TagRanges(tag)[1] \in Ranges /\ TagRanges(tag)[2] \in Ranges /\ TagRanges(tag)[3] \in Ranges
           /\ tag.type = "MODULE" => tag.range \in {TagRanges(tag)[1], TagRanges(tag)[2], TagRanges(tag)[3]}
           /\ tag.type \in {"MODULE", "TEXT"} /\ tag.text.start # 0 =>
                  tag.text \in {TagRanges(tag)[1], TagRanges(tag)[2], TagRanges(tag)[3]}
  <1>1. NoRange \in Ranges
    BY DEF NoRange, Ranges
  <1>2. CASE tag.type = "TEXT"
    <2>1. tag.text \in Ranges
      BY <1>2, MemoryMapAssumption DEF BootTags, MapTag
    <2>2. TagRanges(tag) = <<tag.text, NoRange, NoRange>>
      BY <1>2 DEF TagRanges
    <2> QED
      BY <1>1, <1>2, <2>1, <2>2
  <1>3. CASE tag.type = "MODULE"
    <2>1. tag.range \in Ranges /\ tag.text \in Ranges
      BY <1>1, <1>3, MemoryMapAssumption DEF BootTags, MapTag
    <2>2. TagRanges(tag) = <<tag.range, IF tag.text.start = 0 THEN NoRange ELSE tag.text, NoRange>>
      BY <1>3 DEF TagRanges
    <2>3. CASE tag.text.start = 0
      BY <1>1, <1>3, <2>1, <2>2, <2>3
    <2>4. CASE tag.text.start # 0
      BY <1>1, <1>3, <2>1, <2>2, <2>4
    <2> QED
      BY <2>3, <2>4
  <1>4. CASE tag.type # "TEXT" /\ tag.type # "MODULE"
    <2>1. TagRanges(tag) = <<NoRange, NoRange, NoRange>>
      BY <1>4 DEF TagRanges
    <2> QED
      BY <1>1, <1>4, <2>1
  <1> QED
    BY <1>2, <1>3, <1>4

(* Where the tags are.                                                       *)
LEMMA TagFacts ==
    ASSUME TagsPlaced
    PROVE  /\ total_size \in Nat
           /\ \A i \in 1 .. Len(tags) :
                  /\ tags[i].offset \in Nat /\ tags[i].tag \in BootTags /\ Behind(i) \in Nat
                  /\ tags[i].offset < Behind(i) /\ Behind(i) <= total_size
           /\ tags # <<>> => total_size = Behind(Len(tags)) /\ tags[1].offset = 0
           /\ tags = <<>> => total_size = 0
  <1>1. tags \in Seq([offset : Nat, tag : BootTags])
    BY DEF TagsPlaced
  <1>2. PICK n \in Nat : n = Len(tags)
    BY <1>1
  <1>3. ASSUME NEW i \in 1 .. n
        PROVE  /\ tags[i].offset \in Nat /\ tags[i].tag \in BootTags /\ Behind(i) \in Nat
               /\ tags[i].offset < Behind(i)
    <2>1. tags[i] \in [offset : Nat, tag : BootTags]
      <3>1. i \in 1 .. Len(tags)
        BY <1>2
      <3> QED
        BY <1>1, <3>1, ElementOfSeq
    <2>2. Padded(tags[i].tag.size) \in Nat /\ Padded(tags[i].tag.size) > 0
      BY <2>1, TagSized
    <2> QED
      BY <2>1, <2>2 DEF Behind
  <1>4. CASE n = 0
    <2>1. tags = <<>>
      <3>1. Len(tags) = 0
        BY <1>2, <1>4
      <3> QED
        BY <1>1, <3>1, EmptySeq
    <2> QED
      BY <1>2, <1>4, <2>1 DEF total_size
  <1>5. CASE n # 0
    <2>1. tags # <<>> /\ n \in 1 .. n /\ 1 \in 1 .. n
      BY <1>1, <1>2, <1>5
    <2>2. total_size = Behind(n)
      BY <1>2, <2>1 DEF total_size, Behind
    <2>3. tags[1].offset = 0
      BY <1>2, <2>1 DEF TagsPlaced
    <2>4. ASSUME NEW i \in 1 .. n PROVE Behind(i) <= total_size
      <3>1. CASE i = n
        BY <1>3, <2>2, <3>1
      <3>2. CASE i # n
        <4>1. i < n
          BY <3>2
        <4>2. Behind(i) <= tags[n].offset
          BY <1>2, <2>1, <4>1 DEF TagsPlaced
        <4> QED
          BY <1>3, <2>1, <2>2, <4>2
      <3> QED
        BY <3>1, <3>2
    <2>5. total_size \in Nat
      BY <1>3, <2>1, <2>2
    <2> QED
      BY <1>2, <1>3, <2>1, <2>2, <2>3, <2>4, <2>5
  <1> QED
    BY <1>4, <1>5

(* A step of the walk: the tag it is at, and where that leaves it.           *)
WalksTo(k, to) ==
    /\ k \in 1 .. Len(tags) /\ at = tags[k].offset /\ TagAt(at) = tags[k].tag
    /\ to = at + next(TagAt(at))
    /\ to \in {tags[i].offset : i \in 1 .. Len(tags)} \cup {total_size}
    /\ \A i \in 1 .. Len(tags) : tags[i].offset < to <=> tags[i].offset < at \/ i = k

(* Each tag's end is the next one's start, or the end of them all.          *)
LEMMA WalkOn ==
    ASSUME TagsPlaced, at \in {tags[i].offset : i \in 1 .. Len(tags)} \cup {total_size}, ~AtEnd
    PROVE  \E k : WalksTo(k, at + next(TagAt(at)))
  <1>1. PICK n \in Nat : n = Len(tags)
    BY DEF TagsPlaced
  <1>2. /\ total_size \in Nat
        /\ \A i \in 1 .. n :
               /\ tags[i].offset \in Nat /\ tags[i].tag \in BootTags /\ Behind(i) \in Nat
               /\ tags[i].offset < Behind(i) /\ Behind(i) <= total_size
        /\ tags # <<>> => total_size = Behind(n)
    BY <1>1, TagFacts
  <1>3. \A i, j \in 1 .. n : i < j => Behind(i) <= tags[j].offset
    BY <1>1 DEF TagsPlaced
  <1>4. PICK k \in 1 .. n : at = tags[k].offset
    BY <1>1, <1>2 DEF AtEnd
  <1>5. ASSUME NEW i \in 1 .. n, tags[i].offset = at PROVE i = k
    <2>1. CASE i < k
      BY <1>2, <1>3, <1>4, <1>5, <2>1
    <2>2. CASE k < i
      BY <1>2, <1>3, <1>4, <1>5, <2>2
    <2> QED
      BY <2>1, <2>2
  <1>6. TagAt(at) = tags[k].tag
    <2>1. (CHOOSE i \in 1 .. n : tags[i].offset = at) = k
      BY <1>4, <1>5
    <2> QED
      BY <1>1, <2>1 DEF TagAt
  <1>7. PICK to : to = at + next(TagAt(at))
    OBVIOUS
  <1>8. to = Behind(k)
    BY <1>4, <1>6, <1>7 DEF next, Behind
  <1>9. to \in {tags[i].offset : i \in 1 .. n} \cup {total_size}
    <2>1. CASE k = n
      <3>1. tags # <<>>
        BY <1>1, <1>4
      <3> QED
        BY <1>2, <1>8, <2>1, <3>1
    <2>2. CASE k # n
      <3>1. k + 1 \in 1 .. n /\ k + 1 # 1 /\ (k + 1) - 1 = k
        BY <2>2
      <3>2. tags[k + 1].offset = Behind(k)
        BY <1>1, <3>1 DEF TagsPlaced
      <3> QED
        BY <1>8, <3>1, <3>2
    <2> QED
      BY <2>1, <2>2
  <1>10. ASSUME NEW i \in 1 .. n PROVE tags[i].offset < to <=> tags[i].offset < at \/ i = k
    <2>1. CASE i = k
      BY <1>2, <1>8, <2>1
    <2>2. CASE i < k
      BY <1>2, <1>3, <1>4, <1>8, <2>2
    <2>3. CASE k < i
      <3>1. Behind(k) <= tags[i].offset /\ tags[k].offset < Behind(k)
        BY <1>2, <1>3, <2>3
      <3> QED
        BY <1>2, <1>4, <1>8, <2>3, <3>1
    <2> QED
      BY <2>1, <2>2, <2>3
  <1>11. WalksTo(k, to)
    BY <1>1, <1>4, <1>6, <1>7, <1>9, <1>10 DEF WalksTo
  <1> QED
    BY <1>7, <1>11

(* At the end of the walk every tag is behind it.                            *)
LEMMA WalkedAll ==
    ASSUME TagsPlaced, AtEnd, at \in {tags[i].offset : i \in 1 .. Len(tags)} \cup {total_size}
    PROVE  \A i \in 1 .. Len(tags) : tags[i].offset < at
  <1>1. \A i \in 1 .. Len(tags) : tags[i].offset \in Nat /\ Behind(i) \in Nat /\ tags[i].offset < Behind(i) /\ Behind(i) <= total_size
    BY TagFacts
  <1>2. total_size \in Nat
    BY TagFacts
  <1>3. at \in Nat /\ at >= total_size
    BY <1>1, <1>2 DEF AtEnd
  <1> QED
    BY <1>1, <1>2, <1>3

(* Three calls of reserve_range, as one step.                                *)
LEMMA ReserveSound ==
    ASSUME TableOK(regions), Len(regions) <= MAX_MEMORY_REGIONS, NEW ranges, NEW after,
           ranges[1] \in Ranges, ranges[2] \in Ranges, ranges[3] \in Ranges, Reserve(ranges, after)
    PROVE  /\ TableOK(regions') /\ Len(regions') <= MAX_MEMORY_REGIONS
           /\ taken' = taken \cup {ranges[1], ranges[2], ranges[3]}
           /\ TakenUnits' = TakenUnits \cup PagesOf(ranges[1]) \cup PagesOf(ranges[2]) \cup PagesOf(ranges[3])
           /\ \/ bootPhase' = "halted" /\ Len(regions') = MAX_MEMORY_REGIONS
              \/ /\ bootPhase' = after
                 /\ TableUnits' = TableUnits \ (PagesOf(ranges[1]) \cup PagesOf(ranges[2]) \cup PagesOf(ranges[3]))
  <1>1. PICK w1 : w1 = reserve_range(regions, ranges[1])
    OBVIOUS
  <1>2. PICK w2 : w2 = Then(w1, ranges[2])
    OBVIOUS
  <1>3. PICK w : w = Then(w2, ranges[3])
    OBVIOUS
  <1>4. Reserved(w1, regions, PagesOf(ranges[1]))
    BY <1>1, CallSound
  <1>5. Reserved(w2, regions, PagesOf(ranges[1]) \cup PagesOf(ranges[2]))
    BY <1>2, <1>4, ThenSound
  <1>6. Reserved(w, regions, PagesOf(ranges[1]) \cup PagesOf(ranges[2]) \cup PagesOf(ranges[3]))
    BY <1>3, <1>5, ThenSound
  <1>7. /\ regions' = w.table
        /\ bootPhase' = IF w.okay THEN after ELSE "halted"
        /\ taken' = taken \cup {ranges[1], ranges[2], ranges[3]}
    BY <1>1, <1>2, <1>3 DEF Reserve
  <1>8. TakenUnits' = TakenUnits \cup PagesOf(ranges[1]) \cup PagesOf(ranges[2]) \cup PagesOf(ranges[3])
    <2>1. TakenUnits' = UNION {PagesOf(r) : r \in taken'}
      BY DEF TakenUnits, PagesOf, align_down_page, align_up_page
    <2> QED
      BY <1>7, <2>1 DEF TakenUnits
  <1>9. TableUnits' = TableUnitsOf(w.table)
    BY <1>7 DEF TableUnits, TableUnitsOf, UnitsOf, RegionEnd
  <1>10. TableOK(regions') /\ Len(regions') <= MAX_MEMORY_REGIONS
    BY <1>6, <1>7 DEF Reserved
  <1>11. CASE w.okay
    <2>1. bootPhase' = after
      BY <1>7, <1>11
    <2>2. TableUnits' = TableUnits \ (PagesOf(ranges[1]) \cup PagesOf(ranges[2]) \cup PagesOf(ranges[3]))
      BY <1>6, <1>9, <1>11 DEF Reserved, TableUnits
    <2> QED
      BY <1>7, <1>8, <1>10, <2>1, <2>2
  <1>12. CASE ~w.okay
    <2>1. bootPhase' = "halted" /\ Len(regions') = MAX_MEMORY_REGIONS
      BY <1>6, <1>7, <1>12 DEF Reserved
    <2> QED
      BY <1>7, <1>8, <1>10, <2>1
  <1> QED
    BY <1>11, <1>12

-----------------------------------------------------------------------------
(* The boot loader starts with no tags.                                     *)
LEMMA MapStart == MemoryMapInit => MapInv
  <1> SUFFICES ASSUME MemoryMapInit PROVE MapInv
    OBVIOUS
  <1>1. bootPhase = "loading" /\ tags = <<>> /\ at = 0 /\ regions = <<>> /\ taken = {}
    BY DEF MemoryMapInit
  <1>2. Len(tags) = 0 /\ Len(regions) = 0 /\ 1 .. 0 = {}
    BY <1>1
  <1>3. TagsPlaced
    <2>1. tags \in Seq([offset : Nat, tag : BootTags])
      BY <1>1
    <2> QED
      BY <1>2, <2>1 DEF TagsPlaced
  <1>4. at = total_size
    BY <1>1 DEF total_size
  <1>5. TableOK(regions) /\ Len(regions) <= MAX_MEMORY_REGIONS
    <2>1. regions \in Seq(Chunk)
      BY <1>1
    <2> QED
      BY <1>2, <2>1, MemoryMapAssumption DEF TableOK
  <1> QED
    BY <1>1, <1>3, <1>4, <1>5 DEF MapInv, Phases

(* The boot loader puts a tag behind the others.                             *)
LEMMA BootTagStep ==
    ASSUME MapInv, NEW tag \in BootTags, boot_tag(tag),
           IsMap(tag) => \A i \in 1 .. Len(tags) : ~IsMap(tags[i].tag)
    PROVE  MapInv'
  <1>1. /\ bootPhase = "loading" /\ bootPhase' = "loading" /\ at' = at /\ regions' = regions /\ taken' = taken
        /\ tags' = Append(tags, [offset |-> total_size, tag |-> tag])
    BY DEF boot_tag
  <1>2. TagsPlaced /\ at = 0 /\ regions = <<>> /\ taken = {} /\ TableOK(regions) /\ Len(regions) <= MAX_MEMORY_REGIONS
    BY <1>1 DEF MapInv
  <1>3. PICK n \in Nat : n = Len(tags)
    BY <1>2 DEF TagsPlaced
  <1>4. PICK new : new = [offset |-> total_size, tag |-> tag]
    OBVIOUS
  <1>5. new \in [offset : Nat, tag : BootTags] /\ new.offset = total_size /\ new.tag = tag
    BY <1>2, <1>4, TagFacts
  <1>6. tags \in Seq([offset : Nat, tag : BootTags])
    BY <1>2 DEF TagsPlaced
  <1>7. tags' = Append(tags, new)
    BY <1>1, <1>4
  <1>8. PICK l \in Nat : l = n + 1
    OBVIOUS
  <1>9. /\ tags' \in Seq([offset : Nat, tag : BootTags]) /\ Len(tags') = l
        /\ \A i \in 1 .. n : tags'[i] = tags[i]
        /\ tags'[l] = new
    BY <1>3, <1>5, <1>6, <1>7, <1>8, AppendProperties
  <1>10. \A i \in 1 .. n : Behind(i)' = Behind(i)
    BY <1>9 DEF Behind, Padded
  <1>11. \A i \in 1 .. n : Behind(i) <= total_size /\ tags[i].offset \in Nat /\ tags[i].tag \in BootTags
    BY <1>2, <1>3, TagFacts
  <1>12. ASSUME NEW i \in 1 .. l PROVE tags'[i].offset = IF i = 1 THEN 0 ELSE Behind(i - 1)'
    <2>1. CASE i = l
      <3>1. CASE n = 0
        <4>1. tags = <<>>
          <5>1. Len(tags) = 0
            BY <1>3, <3>1
          <5> QED
            BY <1>6, <5>1, EmptySeq
        <4>2. total_size = 0
          BY <4>1 DEF total_size
        <4> QED
          BY <1>5, <1>8, <1>9, <2>1, <3>1, <4>2
      <3>2. CASE n # 0
        <4>1. tags # <<>> /\ n \in 1 .. n /\ i # 1 /\ i - 1 = n
          BY <1>3, <1>8, <2>1, <3>2
        <4>2. total_size = Behind(n)
          BY <1>2, <1>3, <4>1, TagFacts
        <4> QED
          BY <1>5, <1>9, <1>10, <2>1, <4>1, <4>2
      <3> QED
        BY <3>1, <3>2
    <2>2. CASE i # l
      <3>1. i \in 1 .. n /\ tags'[i] = tags[i]
        BY <1>8, <1>9, <2>2
      <3>2. tags[i].offset = IF i = 1 THEN 0 ELSE Behind(i - 1)
        BY <1>2, <1>3, <3>1 DEF TagsPlaced
      <3>3. i # 1 => i - 1 \in 1 .. n
        BY <3>1
      <3> QED
        BY <1>10, <3>1, <3>2, <3>3
    <2> QED
      BY <2>1, <2>2
  <1>13. ASSUME NEW i \in 1 .. l, NEW j \in 1 .. l, i < j PROVE Behind(i)' <= tags'[j].offset
    <2>1. i \in 1 .. n /\ Behind(i)' = Behind(i)
      BY <1>8, <1>10, <1>13
    <2>2. CASE j = l
      BY <1>5, <1>9, <1>11, <2>1, <2>2
    <2>3. CASE j # l
      <3>1. j \in 1 .. n /\ tags'[j] = tags[j]
        BY <1>8, <1>9, <2>3
      <3>2. Behind(i) <= tags[j].offset
        BY <1>2, <1>3, <1>13, <2>1, <3>1 DEF TagsPlaced
      <3> QED
        BY <2>1, <3>1, <3>2
    <2> QED
      BY <2>2, <2>3
  <1>14. ASSUME NEW i \in 1 .. l, NEW j \in 1 .. l, i # j
         PROVE  ~(IsMap(tags'[i].tag) /\ IsMap(tags'[j].tag))
    <2>1. CASE i = l
      <3>1. j \in 1 .. n /\ tags'[j] = tags[j]
        BY <1>8, <1>9, <1>14, <2>1
      <3> QED
        BY <1>3, <1>5, <1>9, <2>1, <3>1
    <2>2. CASE j = l
      <3>1. i \in 1 .. n /\ tags'[i] = tags[i]
        BY <1>8, <1>9, <1>14, <2>2
      <3> QED
        BY <1>3, <1>5, <1>9, <2>2, <3>1
    <2>3. CASE i # l /\ j # l
      <3>1. i \in 1 .. n /\ tags'[i] = tags[i] /\ j \in 1 .. n /\ tags'[j] = tags[j]
        BY <1>8, <1>9, <2>3
      <3>2. ~(IsMap(tags[i].tag) /\ IsMap(tags[j].tag))
        BY <1>2, <1>3, <1>14, <3>1 DEF TagsPlaced
      <3> QED
        BY <3>1, <3>2
    <2> QED
      BY <2>1, <2>2, <2>3
  <1>15. TagsPlaced'
    BY <1>9, <1>12, <1>13, <1>14 DEF TagsPlaced, IsMap
  <1>16. at' \in {tags'[i].offset : i \in 1 .. Len(tags')}
    <2>1. 1 \in 1 .. l /\ tags'[1].offset = 0
      BY <1>8, <1>12
    <2> QED
      BY <1>1, <1>2, <1>9, <2>1
  <1>17. TableOK(regions') /\ Len(regions') <= MAX_MEMORY_REGIONS /\ regions' = <<>> /\ taken' = {} /\ at' = 0
    BY <1>1, <1>2
  <1> QED
    BY <1>1, <1>15, <1>16, <1>17 DEF MapInv, Phases

(* What stays while only the place in the walk and the regions change.       *)
LEMMA TagsStay ==
    ASSUME TagsPlaced, tags' = tags
    PROVE  /\ TagsPlaced' /\ total_size' = total_size /\ UsableUnits' = UsableUnits
           /\ taken' = taken => \A i : Kept(i)' = Kept(i)
  BY DEF TagsPlaced, Behind, Padded, IsMap, total_size, UsableUnits, TableUnitsOf, UnitsOf, RegionEnd, Kept

(* The kernel starts to parse with an empty table.                          *)
LEMMA BootKernelStep == ASSUME MapInv, boot_kernel PROVE MapInv'
  <1>1. /\ bootPhase = "loading" /\ bootPhase' = "parsing" /\ at' = at /\ regions' = regions /\ taken' = taken
        /\ tags' = tags
    BY DEF boot_kernel
  <1>2. /\ TagsPlaced /\ at = 0 /\ regions = <<>> /\ taken = {} /\ TableOK(regions)
        /\ Len(regions) <= MAX_MEMORY_REGIONS
        /\ at \in {tags[i].offset : i \in 1 .. Len(tags)} \cup {total_size}
    BY <1>1 DEF MapInv
  <1>3. TagsPlaced' /\ total_size' = total_size
    BY <1>1, <1>2, TagsStay
  <1>4. TableUnits' = {}
    <2>1. 1 .. Len(regions') = {}
      BY <1>1, <1>2
    <2> QED
      BY <2>1 DEF TableUnits, TableUnitsOf
  <1>5. ParsedUnits' = {}
    <2>1. \A i \in 1 .. Len(tags) : ~(tags[i].offset < 0)
      BY <1>2, TagFacts
    <2>2. {k \in 1 .. Len(tags') : IsMap(tags'[k].tag) /\ tags'[k].offset < at'} = {}
      BY <1>1, <1>2, <2>1
    <2> QED
      BY <2>2 DEF ParsedUnits, IsMap
  <1> QED
    BY <1>1, <1>2, <1>3, <1>4, <1>5 DEF MapInv, Phases

(* One tag parsed: of a memory map, its regions come to the table.           *)
LEMMA ParseTagStep == ASSUME MapInv, parse_tag PROVE MapInv'
  <1> DEFINE tag == TagAt(at)
             all == IF tag.type = "MEMORY_MAP" THEN regions \o tag.entries ELSE regions
  <1>1. /\ bootPhase = "parsing" /\ ~AtEnd /\ tags' = tags /\ taken' = taken
        /\ at' = at + next(tag)
        /\ regions' = IF Len(all) <= MAX_MEMORY_REGIONS THEN all ELSE SubSeq(all, 1, MAX_MEMORY_REGIONS)
        /\ bootPhase' = IF Len(all) <= MAX_MEMORY_REGIONS THEN "parsing" ELSE "halted"
    BY DEF parse_tag
  <1>2. /\ TagsPlaced /\ taken = {} /\ TableUnits = ParsedUnits /\ TableOK(regions) /\ Len(regions) <= MAX_MEMORY_REGIONS
        /\ \A i \in 1 .. Len(tags) : IsMap(tags[i].tag) /\ at <= tags[i].offset => regions = <<>>
        /\ at \in {tags[i].offset : i \in 1 .. Len(tags)} \cup {total_size}
    BY <1>1 DEF MapInv
  <1>3. PICK k : WalksTo(k, at + next(TagAt(at)))
    BY <1>1, <1>2, WalkOn
  <1>4. PICK to : to = at + next(TagAt(at))
    OBVIOUS
  <1>5. /\ k \in 1 .. Len(tags) /\ at = tags[k].offset /\ tag = tags[k].tag /\ at' = to
        /\ to \in {tags[i].offset : i \in 1 .. Len(tags)} \cup {total_size}
        /\ \A i \in 1 .. Len(tags) : tags[i].offset < to <=> tags[i].offset < at \/ i = k
    BY <1>1, <1>3, <1>4 DEF WalksTo
  <1>6. TagsPlaced' /\ total_size' = total_size
    BY <1>1, <1>2, TagsStay
  <1>7. at' \in {tags'[i].offset : i \in 1 .. Len(tags')} \cup {total_size'}
    BY <1>1, <1>5, <1>6
  <1>8. tag \in BootTags /\ \A i \in 1 .. Len(tags) : tags[i].offset \in Nat
    BY <1>2, <1>5, TagFacts
  <1> HIDE DEF tag, all
  <1>9. TableOK(all) /\ all \in Seq(Chunk)
        /\ TableUnitsOf(all) = IF IsMap(tag) THEN TableUnitsOf(tag.entries) ELSE TableUnits
    <2>1. CASE IsMap(tag)
      <3>1. regions = <<>>
        BY <1>2, <1>5, <1>8, <2>1
      <3>2. TableOK(tag.entries)
        BY <1>8, <2>1, MapTable
      <3>3. all = tag.entries
        <4>1. all = regions \o tag.entries
          BY <2>1 DEF all, IsMap
        <4>2. tag.entries \in Seq(Chunk)
          BY <3>2 DEF TableOK
        <4> QED
          BY <3>1, <4>1, <4>2
      <3> QED
        BY <2>1, <3>2, <3>3 DEF TableOK
    <2>2. CASE ~IsMap(tag)
      <3>1. all = regions
        BY <2>2 DEF all, IsMap
      <3> QED
        BY <1>2, <2>2, <3>1 DEF TableOK, TableUnits
    <2> QED
      BY <2>1, <2>2
  <1>10. CASE ~(Len(all) <= MAX_MEMORY_REGIONS)
    <2>1. PICK l \in Nat : l = MAX_MEMORY_REGIONS
      BY MemoryMapAssumption
    <2>2. PICK n \in Nat : n = Len(all)
      BY <1>9
    <2>3. l < n /\ l \in 0 .. n
      BY <1>10, <2>1, <2>2
    <2>4. regions' = SubSeq(all, 1, l) /\ bootPhase' = "halted"
      BY <1>1, <1>10, <2>1
    <2>5. regions' \in Seq(Chunk) /\ Len(regions') = l /\ \A j \in 1 .. l : regions'[j] = all[j]
      <3>1. 1 \in 1 .. Len(all) + 1 /\ l \in 0 .. Len(all)
        BY <2>2, <2>3
      <3> QED
        BY <1>9, <2>4, <3>1, SubSeqProperties
    <2>6. TableOK(regions')
      <3>1. \A i, j \in 1 .. n : i # j => Apart(all[i], all[j])
        BY <1>9, <2>2 DEF TableOK
      <3>2. \A i \in 1 .. l : i \in 1 .. n
        BY <2>3
      <3>3. \A i, j \in 1 .. l : i # j => Apart(regions'[i], regions'[j])
        BY <2>5, <3>1, <3>2
      <3> QED
        BY <2>5, <3>3 DEF TableOK
    <2>7. Len(regions') = MAX_MEMORY_REGIONS /\ Len(regions') <= MAX_MEMORY_REGIONS
      BY <2>1, <2>5
    <2>8. taken' \subseteq Ranges
      BY <1>1, <1>2
    <2> QED
      BY <1>6, <1>7, <2>4, <2>6, <2>7, <2>8 DEF MapInv, Phases
  <1>11. CASE Len(all) <= MAX_MEMORY_REGIONS
    <2>1. regions' = all /\ bootPhase' = "parsing"
      BY <1>1, <1>11
    <2>2. TableUnits' = TableUnitsOf(all)
      BY <2>1 DEF TableUnits, TableUnitsOf, UnitsOf, RegionEnd
    <2>3. ParsedUnits' = UNION {TableUnitsOf(tags[i].tag.entries) :
                                    i \in {j \in 1 .. Len(tags) : IsMap(tags[j].tag) /\ tags[j].offset < to}}
      <3> DEFINE Units(now, place) ==
                     UNION {TableUnitsOf(now[i].tag.entries) :
                               i \in {j \in 1 .. Len(now) : IsMap(now[j].tag) /\ now[j].offset < place}}
      <3>1. ParsedUnits' = Units(tags', at')
        BY Zenon DEF ParsedUnits, TableUnitsOf, UnitsOf, RegionEnd, IsMap
      <3>2. tags' = tags /\ at' = to
        BY <1>1, <1>5
      <3> HIDE DEF Units
      <3>3. ParsedUnits' = Units(tags, to)
        BY <3>1, <3>2
      <3> QED
        BY <3>3 DEF Units
    <2>4. TableUnits' = ParsedUnits'
      <3>1. CASE IsMap(tag)
        <4>1. \A i \in 1 .. Len(tags) : IsMap(tags[i].tag) => i = k
          BY <1>2, <1>5, <3>1 DEF TagsPlaced
        <4>2. {j \in 1 .. Len(tags) : IsMap(tags[j].tag) /\ tags[j].offset < to} = {k}
          BY <1>5, <3>1, <4>1
        <4>3. ParsedUnits' = TableUnitsOf(tag.entries)
          BY <1>5, <2>3, <4>2
        <4> QED
          BY <1>9, <2>2, <3>1, <4>3
      <3>2. CASE ~IsMap(tag)
        <4>1. {j \in 1 .. Len(tags) : IsMap(tags[j].tag) /\ tags[j].offset < to}
                = {j \in 1 .. Len(tags) : IsMap(tags[j].tag) /\ tags[j].offset < at}
          BY <1>5, <3>2
        <4> QED
          BY <1>2, <1>9, <2>2, <2>3, <3>2, <4>1 DEF ParsedUnits
      <3> QED
        BY <3>1, <3>2
    <2>5. ASSUME NEW i \in 1 .. Len(tags), IsMap(tags[i].tag), to <= tags[i].offset PROVE regions' = <<>>
      <3>1. to \in Nat /\ at \in Nat
        BY <1>2, <1>5, <1>8, TagFacts
      <3>2. ~(tags[i].offset < to) /\ i # k /\ ~(tags[i].offset < at)
        BY <1>5, <1>8, <2>5, <3>1
      <3>3. regions = <<>>
        BY <1>2, <1>8, <2>5, <3>1, <3>2
      <3>4. ~IsMap(tag)
        BY <1>2, <1>5, <2>5, <3>2 DEF TagsPlaced
      <3>5. all = regions
        BY <3>4 DEF all, IsMap
      <3> QED
        BY <2>1, <3>3, <3>5
    <2>6. /\ taken' = {} /\ taken' \subseteq Ranges /\ TableOK(regions') /\ Len(regions') <= MAX_MEMORY_REGIONS
          /\ \A i \in 1 .. Len(tags') : IsMap(tags'[i].tag) /\ at' <= tags'[i].offset => regions' = <<>>
      BY <1>1, <1>2, <1>5, <1>9, <1>11, <2>1, <2>5
    <2>7. \A i \in 1 .. Len(tags') : IsMap(tags[i].tag)' /\ at' <= tags'[i].offset => regions' = <<>>
      BY <2>6 DEF IsMap
    <2> QED
      BY <1>6, <1>7, <2>1, <2>4, <2>6, <2>7 DEF MapInv, Phases
  <1> QED
    BY <1>10, <1>11

(* Low memory, the tags and the kernel leave the table.                     *)
LEMMA ReserveFixedStep == ASSUME MapInv, reserve_fixed PROVE MapInv'
  <1> DEFINE fixed == <<[start |-> 0, end |-> LOW_MEMORY], MbiRange, KERNEL>>
  <1>1. /\ bootPhase = "parsing" /\ AtEnd /\ tags' = tags /\ at' = 0 /\ Reserve(fixed, "reserving")
    BY DEF reserve_fixed
  <1>2. /\ TagsPlaced /\ taken = {} /\ TableUnits = ParsedUnits /\ TableOK(regions) /\ Len(regions) <= MAX_MEMORY_REGIONS
        /\ at \in {tags[i].offset : i \in 1 .. Len(tags)} \cup {total_size}
    BY <1>1 DEF MapInv
  <1>3. TagsPlaced' /\ total_size' = total_size /\ UsableUnits' = UsableUnits
    BY <1>1, <1>2, TagsStay
  <1>4. total_size \in Nat
    BY <1>2, TagFacts
  <1>5. fixed[1] \in Ranges /\ fixed[2] \in Ranges /\ fixed[3] \in Ranges
    BY <1>4, MemoryMapAssumption DEF MbiRange, Ranges
  <1> HIDE DEF fixed
  <1>6. PICK P : P = PagesOf(fixed[1]) \cup PagesOf(fixed[2]) \cup PagesOf(fixed[3])
    OBVIOUS
  <1>7. /\ TableOK(regions') /\ Len(regions') <= MAX_MEMORY_REGIONS
        /\ taken' = taken \cup {fixed[1], fixed[2], fixed[3]}
        /\ TakenUnits' = TakenUnits \cup PagesOf(fixed[1]) \cup PagesOf(fixed[2]) \cup PagesOf(fixed[3])
        /\ \/ bootPhase' = "halted" /\ Len(regions') = MAX_MEMORY_REGIONS
           \/ bootPhase' = "reserving" /\ TableUnits' = TableUnits \ P
    BY <1>1, <1>2, <1>5, <1>6, ReserveSound
  <1>8. TakenUnits' = P
    BY <1>2, <1>6, <1>7 DEF TakenUnits
  <1>9. UsableUnits = ParsedUnits
    <2>1. \A i \in 1 .. Len(tags) : tags[i].offset < at
      BY <1>1, <1>2, WalkedAll
    <2> QED
      BY <2>1 DEF UsableUnits, ParsedUnits
  <1>10. at' \in {tags'[i].offset : i \in 1 .. Len(tags')} \cup {total_size'}
    <2>1. CASE tags = <<>>
      BY <1>1, <1>2, <1>3, <2>1, TagFacts
    <2>2. CASE tags # <<>>
      <3>1. tags[1].offset = 0
        BY <1>2, <2>2, TagFacts
      <3>2. 1 \in 1 .. Len(tags)
        BY <1>2, <2>2, EmptySeq DEF TagsPlaced
      <3> QED
        BY <1>1, <3>1, <3>2
    <2> QED
      BY <2>1, <2>2
  <1>11. \A i \in 1 .. Len(tags') : ~(tags'[i].offset < at')
    BY <1>1, <1>2, TagFacts
  <1>12. taken' \subseteq Ranges
    BY <1>2, <1>5, <1>7
  <1> QED
    BY <1>2, <1>3, <1>7, <1>8, <1>9, <1>10, <1>11, <1>12 DEF MapInv, Phases

(* What one tag names leaves the table.                                     *)
LEMMA ReserveTagStep == ASSUME MapInv, reserve_tag PROVE MapInv'
  <1>1. /\ bootPhase = "reserving" /\ ~AtEnd /\ tags' = tags /\ at' = at + next(TagAt(at))
        /\ Reserve(TagRanges(TagAt(at)), "reserving")
    BY DEF reserve_tag
  <1>2. /\ TagsPlaced /\ TableUnits = UsableUnits \ TakenUnits /\ TableOK(regions) /\ Len(regions) <= MAX_MEMORY_REGIONS
        /\ \A i \in 1 .. Len(tags) : tags[i].offset < at => Kept(i)
        /\ at \in {tags[i].offset : i \in 1 .. Len(tags)} \cup {total_size}
        /\ taken \subseteq Ranges
    BY <1>1 DEF MapInv
  <1>3. PICK k : WalksTo(k, at + next(TagAt(at)))
    BY <1>1, <1>2, WalkOn
  <1>4. PICK to, tag, names : to = at + next(TagAt(at)) /\ tag = TagAt(at) /\ names = TagRanges(tag)
    OBVIOUS
  <1>5. /\ k \in 1 .. Len(tags) /\ tag = tags[k].tag /\ at' = to
        /\ to \in {tags[i].offset : i \in 1 .. Len(tags)} \cup {total_size}
        /\ \A i \in 1 .. Len(tags) : tags[i].offset < to <=> tags[i].offset < at \/ i = k
    BY <1>1, <1>3, <1>4 DEF WalksTo
  <1>6. TagsPlaced' /\ total_size' = total_size /\ UsableUnits' = UsableUnits
    BY <1>1, <1>2, TagsStay
  <1>7. tag \in BootTags
    BY <1>2, <1>5, TagFacts
  <1>8. names[1] \in Ranges /\ names[2] \in Ranges /\ names[3] \in Ranges
    BY <1>4, <1>7, TagNames
  <1>9. PICK P : P = PagesOf(names[1]) \cup PagesOf(names[2]) \cup PagesOf(names[3])
    OBVIOUS
  <1>10. /\ TableOK(regions') /\ Len(regions') <= MAX_MEMORY_REGIONS
         /\ taken' = taken \cup {names[1], names[2], names[3]}
         /\ TakenUnits' = TakenUnits \cup PagesOf(names[1]) \cup PagesOf(names[2]) \cup PagesOf(names[3])
         /\ \/ bootPhase' = "halted" /\ Len(regions') = MAX_MEMORY_REGIONS
            \/ bootPhase' = "reserving" /\ TableUnits' = TableUnits \ P
    BY <1>1, <1>2, <1>4, <1>8, <1>9, ReserveSound
  <1>11. bootPhase' = "reserving" => TableUnits' = UsableUnits' \ TakenUnits'
    BY <1>2, <1>6, <1>9, <1>10
  <1>12. ASSUME NEW i \in 1 .. Len(tags'), tags'[i].offset < at' PROVE Kept(i)'
    <2>1. i \in 1 .. Len(tags) /\ (tags[i].offset < at \/ i = k)
      BY <1>1, <1>5, <1>12
    <2>2. taken \subseteq taken' /\ {names[1], names[2], names[3]} \subseteq taken'
      BY <1>10
    <2>3. CASE tags[i].offset < at
      <3>1. Kept(i)
        BY <1>2, <2>1, <2>3
      <3> QED
        BY <1>1, <2>2, <3>1 DEF Kept
    <2>4. CASE i = k
      <3>1. /\ tag.type = "MODULE" => tag.range \in {names[1], names[2], names[3]}
            /\ tag.type \in {"MODULE", "TEXT"} /\ tag.text.start # 0 => tag.text \in {names[1], names[2], names[3]}
        BY <1>4, <1>7, TagNames
      <3>2. /\ tag.type = "MODULE" => tag.range \in taken'
            /\ tag.type \in {"MODULE", "TEXT"} /\ tag.text.start # 0 => tag.text \in taken'
        BY <2>2, <3>1
      <3>3. tags'[i].tag = tag
        BY <1>1, <1>5, <2>4
      <3> QED
        BY <3>2, <3>3 DEF Kept
    <2> QED
      BY <2>1, <2>3, <2>4
  <1>13. at' \in {tags'[i].offset : i \in 1 .. Len(tags')} \cup {total_size'}
    BY <1>1, <1>5, <1>6
  <1>14. taken' \subseteq Ranges
    BY <1>2, <1>8, <1>10
  <1> QED
    BY <1>6, <1>10, <1>11, <1>12, <1>13, <1>14 DEF MapInv, Phases

(* What is left goes to the heap, with every tag behind the walk.           *)
LEMMA AddRegionsStep == ASSUME MapInv, add_regions PROVE MapInv'
  <1>1. /\ bootPhase = "reserving" /\ AtEnd /\ bootPhase' = "ready"
        /\ tags' = tags /\ at' = at /\ regions' = regions /\ taken' = taken
    BY DEF add_regions
  <1>2. /\ TagsPlaced /\ TableUnits = UsableUnits \ TakenUnits /\ TableOK(regions) /\ Len(regions) <= MAX_MEMORY_REGIONS
        /\ \A i \in 1 .. Len(tags) : tags[i].offset < at => Kept(i)
        /\ at \in {tags[i].offset : i \in 1 .. Len(tags)} \cup {total_size}
        /\ taken \subseteq Ranges
    BY <1>1 DEF MapInv
  <1>3. TagsPlaced' /\ total_size' = total_size /\ UsableUnits' = UsableUnits /\ \A i : Kept(i)' = Kept(i)
    BY <1>1, <1>2, TagsStay
  <1>4. \A i \in 1 .. Len(tags) : Kept(i)
    BY <1>1, <1>2, WalkedAll
  <1>5. TableUnits' = TableUnits /\ TakenUnits' = TakenUnits
    BY <1>1 DEF TableUnits, TableUnitsOf, UnitsOf, RegionEnd, TakenUnits, PagesOf, align_down_page, align_up_page
  <1> QED
    BY <1>1, <1>2, <1>3, <1>4, <1>5 DEF MapInv, Phases

(* The inductive invariant is kept by every step.                           *)
LEMMA MapStep == MapInv /\ [MemoryMapNext]_mapVars => MapInv'
  <1> SUFFICES ASSUME MapInv, [MemoryMapNext]_mapVars PROVE MapInv'
    OBVIOUS
  <1>1. CASE UNCHANGED mapVars
    <2>1. /\ bootPhase' = bootPhase /\ tags' = tags /\ at' = at /\ regions' = regions /\ taken' = taken
      BY <1>1 DEF mapVars
    <2>2. TagsPlaced' /\ total_size' = total_size /\ UsableUnits' = UsableUnits /\ \A i : Kept(i)' = Kept(i)
      BY <2>1, TagsStay DEF MapInv
    <2>3. TableUnits' = TableUnits /\ TakenUnits' = TakenUnits /\ ParsedUnits' = ParsedUnits
      BY <2>1 DEF TableUnits, TableUnitsOf, UnitsOf, RegionEnd, TakenUnits, PagesOf, align_down_page, align_up_page,
                  ParsedUnits, IsMap
    <2>4. \A tag : IsMap(tag) <=> tag.type = "MEMORY_MAP"
      BY DEF IsMap
    <2> QED
      BY <2>1, <2>2, <2>3 DEF MapInv, IsMap
  <1>2. CASE \E tag \in BootTags :
                 /\ IsMap(tag) => \A i \in 1 .. Len(tags) : ~IsMap(tags[i].tag)
                 /\ boot_tag(tag)
    BY <1>2, BootTagStep
  <1>3. CASE boot_kernel
    BY <1>3, BootKernelStep
  <1>4. CASE parse_tag
    BY <1>4, ParseTagStep
  <1>5. CASE reserve_fixed
    BY <1>5, ReserveFixedStep
  <1>6. CASE reserve_tag
    BY <1>6, ReserveTagStep
  <1>7. CASE add_regions
    BY <1>7, AddRegionsStep
  <1> QED
    BY <1>1, <1>2, <1>3, <1>4, <1>5, <1>6, <1>7 DEF MemoryMapNext

(* The invariant of the runs follows from the inductive one.                *)
LEMMA MapFollows == MapInv => MapSound
  <1> SUFFICES ASSUME MapInv PROVE MapSound
    OBVIOUS
  <1>1. TableOK(regions) /\ Len(regions) <= MAX_MEMORY_REGIONS /\ TagsPlaced
    BY DEF MapInv
  <1>2. \A i \in 1 .. Len(regions) : regions[i] \in Chunk
    BY <1>1 DEF TableOK
  <1>3. MemoryMapTypeOK
    <2>1. \A i \in 1 .. Len(regions) : regions[i].size > 0
      BY <1>2 DEF Chunk
    <2> QED
      BY <1>1, <2>1 DEF MemoryMapTypeOK, MapInv
  <1>4. TableIsWhatIsLeft
    <2>1. ASSUME NEW i \in 1 .. Len(regions), NEW j \in 1 .. Len(regions), i # j
          PROVE  UnitsOf(regions[i]) \cap UnitsOf(regions[j]) = {}
      <3>1. Apart(regions[i], regions[j])
        BY <1>1, <2>1 DEF TableOK
      <3>2. regions[i] \in Chunk /\ regions[j] \in Chunk
        BY <1>2
      <3> QED
        BY <3>1, <3>2 DEF UnitsOf, RegionEnd, Apart, Chunk
    <2> QED
      BY <2>1 DEF TableIsWhatIsLeft, MapInv
  <1>5. TagsAreReserved
    BY DEF TagsAreReserved, MapInv, Kept
  <1> QED
    BY <1>3, <1>4, <1>5 DEF MapSound

(* The invariant of the boot memory map (reserve_range and the two walks of   *)
(* memory.hh): the table is the usable memory that nothing reserves, and      *)
(* everything the boot loader left behind is reserved.                        *)
THEOREM MapIsSound == MemoryMapSpec => []MapSound
  <1>1. MemoryMapSpec => []MapInv
    BY MapStart, MapStep, PTL DEF MemoryMapSpec
  <1> QED
    BY <1>1, MapFollows, PTL

-----------------------------------------------------------------------------
(* Part 3: what the firmware tells of processors and interrupt lines.       *)

(* A search stops at the first of the places it looks for.                  *)
LEMMA FirstOfIs ==
    ASSUME NEW S \in SUBSET Nat, S # {}
    PROVE  FirstOf(S) \in S /\ \A j \in S : FirstOf(S) <= j
  <1>1. PICK least \in S : \A i \in S : least <= i
    BY LowestExists
  <1> QED
    BY <1>1, Zenon DEF FirstOf

-----------------------------------------------------------------------------
(* How many of a set are listed up to an entry.                             *)
UpTo(S, i) == {j \in S : j <= i}

(* Finitely many entries lie up to one of them.                             *)
LEMMA UpToIsFinite ==
    ASSUME NEW S \in SUBSET Nat, NEW n \in Nat
    PROVE  IsFiniteSet(UpTo(S, n)) /\ CountTo(S, n) \in Nat /\ CountTo(S, n) = Cardinality(UpTo(S, n))
  <1>1. IsFiniteSet(0 .. n)
    BY FS_Interval
  <1>2. UpTo(S, n) \in SUBSET (0 .. n)
    <2>1. ASSUME NEW j \in UpTo(S, n) PROVE j \in 0 .. n
      <3>1. j \in Nat /\ j <= n
        BY DEF UpTo
      <3> QED
        BY <3>1
    <2> QED
      BY <2>1
  <1>3. IsFiniteSet(UpTo(S, n))
    BY <1>1, <1>2, FS_Subset
  <1> QED
    BY <1>3, FS_CardinalityType DEF UpTo, CountTo

(* None is counted before the first.                                        *)
LEMMA CountOfNone ==
    ASSUME NEW S \in SUBSET (Nat \ {0})
    PROVE  CountTo(S, 0) = 0
  <1>1. \A j \in S : ~(j <= 0)
    <2>1. \A j \in S : j \in Nat /\ j # 0
      OBVIOUS
    <2> QED
      BY <2>1
  <1>2. {j \in S : j <= 0} = {}
    BY <1>1, Zenon
  <1> QED
    BY <1>2, FS_EmptySet DEF CountTo

(* One more is counted where the set has an entry.                          *)
LEMMA CountOfNext ==
    ASSUME NEW S \in SUBSET Nat, NEW n \in Nat, NEW m \in Nat, m = n + 1
    PROVE  CountTo(S, m) = IF m \in S THEN CountTo(S, n) + 1 ELSE CountTo(S, n)
  <1>0. \A j \in S : (j <= m <=> (j <= n \/ j = m)) /\ ~(m <= n)
    <2>1. \A j \in S : j \in Nat
      OBVIOUS
    <2> QED
      BY <2>1
  <1>1. CASE m \in S
    <2>1. UpTo(S, m) = UpTo(S, n) \cup {m} /\ m \notin UpTo(S, n)
      BY <1>0, <1>1 DEF UpTo
    <2> QED
      BY <1>1, <2>1, UpToIsFinite, FS_AddElement
  <1>2. CASE m \notin S
    <2>1. UpTo(S, m) = UpTo(S, n)
      BY <1>0, <1>2 DEF UpTo
    <2> QED
      BY <1>2, <2>1, UpToIsFinite
  <1> QED
    BY <1>1, <1>2

(* The count never falls, and rises at every entry of the set.              *)
LEMMA CountGrows ==
    ASSUME NEW S \in SUBSET Nat, NEW n \in Nat, NEW m \in Nat, n <= m
    PROVE  CountTo(S, n) <= CountTo(S, m) /\ (m \in S /\ n < m => CountTo(S, n) < CountTo(S, m))
  <1>1. UpTo(S, n) \in SUBSET UpTo(S, m)
    <2>1. ASSUME NEW j \in UpTo(S, n) PROVE j \in UpTo(S, m)
      <3>1. j \in S /\ j \in Nat /\ j <= n
        BY DEF UpTo
      <3>2. j <= m
        BY <3>1
      <3> QED
        BY <3>1, <3>2 DEF UpTo
    <2> QED
      BY <2>1
  <1>2. /\ CountTo(S, n) \in Nat /\ CountTo(S, m) \in Nat
        /\ CountTo(S, n) = Cardinality(UpTo(S, n)) /\ CountTo(S, m) = Cardinality(UpTo(S, m))
        /\ IsFiniteSet(UpTo(S, m))
    BY UpToIsFinite
  <1>3. Cardinality(UpTo(S, n)) <= Cardinality(UpTo(S, m))
        /\ (Cardinality(UpTo(S, m)) = Cardinality(UpTo(S, n)) => UpTo(S, m) = UpTo(S, n))
    BY <1>1, <1>2, FS_Subset
  <1>4. ASSUME m \in S, n < m PROVE UpTo(S, m) # UpTo(S, n)
    BY <1>4 DEF UpTo
  <1> QED
    BY <1>2, <1>3, <1>4

(* The k-th of the entries is the one with k of them up to it.              *)
LEMMA NthIs ==
    ASSUME NEW S \in SUBSET Nat, NEW i \in S, NEW k, CountTo(S, i) = k
    PROVE  Nth(S, k) = i
  <1>1. PICK n : n = Nth(S, k)
    OBVIOUS
  <1>2. n \in S /\ CountTo(S, n) = k
    BY <1>1, Zenon DEF Nth
  <1>3. n \in Nat /\ i \in Nat /\ CountTo(S, n) \in Nat /\ CountTo(S, i) \in Nat
    BY <1>2, UpToIsFinite
  <1>4. ~(n < i)
    BY <1>2, <1>3, CountGrows
  <1>5. ~(i < n)
    BY <1>2, <1>3, CountGrows
  <1> QED
    BY <1>1, <1>3, <1>4, <1>5

(* All of a set that lies up to n is counted at n.                          *)
LEMMA CountOfAll ==
    ASSUME NEW n \in Nat, NEW S \in SUBSET (0 .. n)
    PROVE  CountTo(S, n) = Cardinality(S)
  <1>1. {j \in S : j <= n} = S
    <2>1. \A j \in S : j <= n
      OBVIOUS
    <2> QED
      BY <2>1, Zenon
  <1> QED
    BY <1>1 DEF CountTo

-----------------------------------------------------------------------------
(* A list of what the entries of a set that were walked over say, in their  *)
(* order: of the k-th of them at k.                                         *)
Lists(list, S, n, says) ==
    /\ list \in Seq({says[i] : i \in S})
    /\ \A k \in 1 .. Len(list) : \E i \in S : i <= n /\ CountTo(S, i) = k /\ list[k] = says[i]

(* The list of nothing.                                                     *)
LEMMA EmptyLists ==
    ASSUME NEW S, NEW n, NEW says
    PROVE  Lists(<<>>, S, n, says)
  <1>1. <<>> \in Seq({says[i] : i \in S}) /\ Len(<<>>) = 0
    OBVIOUS
  <1> QED
    BY <1>1 DEF Lists

(* A list stays one of the set's entries however far the walk is.           *)
LEMMA ListsFurther ==
    ASSUME NEW list, NEW S \in SUBSET Nat, NEW n \in Nat, NEW m \in Nat, n <= m, NEW says, Lists(list, S, n, says)
    PROVE  Lists(list, S, m, says)
  <1>1. ASSUME NEW k \in 1 .. Len(list)
        PROVE  \E i \in S : i <= m /\ CountTo(S, i) = k /\ list[k] = says[i]
    <2>1. PICK i \in S : i <= n /\ CountTo(S, i) = k /\ list[k] = says[i]
      BY DEF Lists
    <2>2. i <= m
      BY <2>1
    <2> QED
      BY <2>1, <2>2
  <1> QED
    BY <1>1 DEF Lists

(* The next entry of the set is the one after n.                            *)
IsNext(list, S, n, m, says) ==
    /\ S \in SUBSET Nat /\ n \in Nat /\ m \in S /\ m = n + 1
    /\ Lists(list, S, n, says) /\ Len(list) = CountTo(S, n)

(* A list of all that the set has up to an entry.                           *)
ListsAll(list, S, m, says) == Lists(list, S, m, says) /\ Len(list) = CountTo(S, m)

(* The next entry's word goes to the end of the list.                       *)
LEMMA ListsOneMore ==
    ASSUME NEW list, NEW S, NEW n, NEW m, NEW says, IsNext(list, S, n, m, says)
    PROVE  ListsAll(Append(list, says[m]), S, m, says)
  <1>0. PICK longer : longer = Append(list, says[m])
    OBVIOUS
  <1> DEFINE X == {says[i] : i \in S}
  <1>1. list \in Seq(X) /\ says[m] \in X
    BY DEF IsNext, Lists
  <1>2. PICK c \in Nat : c = Len(list)
    BY <1>1, LenProperties
  <1>3. longer \in Seq(X) /\ Len(longer) = c + 1 /\ longer[c + 1] = says[m] /\ \A k \in 1 .. c : longer[k] = list[k]
    BY <1>0, <1>1, <1>2, AppendProperties
  <1>4. CountTo(S, m) = c + 1
    <2>1. S \in SUBSET Nat /\ n \in Nat /\ m \in Nat /\ m = n + 1 /\ m \in S /\ CountTo(S, n) = c
      BY <1>2 DEF IsNext
    <2> QED
      BY <2>1, CountOfNext
  <1>5. ASSUME NEW k \in 1 .. Len(longer)
        PROVE  \E i \in S : i <= m /\ CountTo(S, i) = k /\ longer[k] = says[i]
    <2>1. CASE k = c + 1
      BY <1>3, <1>4, <2>1 DEF IsNext
    <2>2. CASE k # c + 1
      <3>1. k \in 1 .. Len(list) /\ longer[k] = list[k]
        BY <1>2, <1>3, <2>2
      <3>2. PICK i \in S : i <= n /\ CountTo(S, i) = k /\ list[k] = says[i]
        BY <3>1 DEF IsNext, Lists
      <3>3. i <= m
        BY <3>2 DEF IsNext
      <3> QED
        BY <3>1, <3>2, <3>3
    <2> QED
      BY <2>1, <2>2
  <1> QED
    <2>1. Lists(longer, S, m, says) /\ Len(longer) = CountTo(S, m)
      BY <1>2, <1>3, <1>4, <1>5 DEF Lists
    <2> QED
      BY <1>0, <2>1 DEF ListsAll

-----------------------------------------------------------------------------
(* The search for the root pointer and the MADT.                            *)
Found == {"entries", "parsed", "routed", "moved"}
Searching == {"reset", "firmware", "rsdp"}
PointersIn(p) == {p.new_tag, p.old_tag, p.ebda, p.bios}

(* The pointer and the table in use, by how far the search has come.        *)
TablesInv ==
    /\ acpiStage \in Searching \cup Found \cup {"halted"}
    /\ acpiStage \in {"reset", "firmware"} => rsdp = NoPointer
    /\ acpiStage \in Searching => madt = NoTable
    /\ acpiStage = "firmware" => places \in RootPointers
    /\ acpiStage = "rsdp" => rsdp_valid(rsdp) /\ \E p \in RootPointers : rsdp \in PointersIn(p)
    /\ acpiStage \in Found => sdt_valid(madt)
    /\ UsesSoundTables

(* What stands for nothing found passes no test.                            *)
LEMMA NothingIsSound == ~rsdp_valid(NoPointer) /\ ~sdt_valid(NoTable)
  BY DEF NoPointer, NoTable, rsdp_valid, sdt_valid

(* What the search of the places finds.                                     *)
LEMMA PointerFound ==
    ASSUME NEW found, found = {i \in DOMAIN Searched : rsdp_valid(Searched[i])}, found # {}
    PROVE  LET r == Searched[FirstOf(found)] IN rsdp_valid(r) /\ r \in PointersIn(places)
  <1>1. DOMAIN Searched = 1 .. 4 /\ \A i \in 1 .. 4 : Searched[i] \in PointersIn(places)
    BY DEF Searched, PointersIn
  <1>2. found \in SUBSET Nat
    BY <1>1
  <1>3. FirstOf(found) \in found
    BY <1>2, FirstOfIs
  <1> QED
    BY <1>1, <1>3

(* A search of a root's entries finds a sound MADT when there is one.       *)
HasMadt(root) == \E i \in DOMAIN root.entries : sdt_valid(root.entries[i]) /\ root.entries[i].signature = "APIC"

(* The MADT a root leads to.                                                *)
LEMMA MadtFound ==
    ASSUME NEW root, NEW signature,
           sdt_valid(root) => DOMAIN root.entries = 1 .. Len(root.entries) /\ Len(root.entries) \in Nat
    PROVE  IF sdt_valid(root) /\ root.signature = signature /\ HasMadt(root)
           THEN sdt_valid(find_madt_in(root, signature)) ELSE find_madt_in(root, signature) = NoTable
  <1> DEFINE found == {i \in DOMAIN root.entries : sdt_valid(root.entries[i]) /\ root.entries[i].signature = "APIC"}
  <1>1. found # {} <=> HasMadt(root)
    BY DEF HasMadt
  <1>2. CASE sdt_valid(root) /\ root.signature = signature /\ HasMadt(root)
    <2>1. found \in SUBSET Nat /\ found # {}
      BY <1>1, <1>2
    <2>2. FirstOf(found) \in found
      BY <2>1, FirstOfIs
    <2>3. sdt_valid(root.entries[FirstOf(found)])
      BY <2>2
    <2>4. find_madt_in(root, signature) = root.entries[FirstOf(found)]
      BY <1>2, <2>1 DEF find_madt_in
    <2> QED
      BY <1>2, <2>3, <2>4
  <1>3. CASE ~(sdt_valid(root) /\ root.signature = signature /\ HasMadt(root))
    <2>1. find_madt_in(root, signature) = NoTable
      BY <1>1, <1>3 DEF find_madt_in
    <2> QED
      BY <1>3, <2>1
  <1> QED
    BY <1>2, <1>3

(* find_madt finds a sound MADT behind either root.                         *)
LEMMA FindMadt ==
    ASSUME NEW p \in RootPointers, NEW pointer \in PointersIn(p), rsdp_valid(pointer)
    PROVE  /\ MadtOf(pointer) # NoTable => sdt_valid(MadtOf(pointer))
           /\ MadtOf(pointer) = NoTable =>
                /\ sdt_valid(pointer.rsdt) /\ pointer.rsdt.signature = "RSDT" => ~HasMadt(pointer.rsdt)
                /\ pointer.revision >= 2 /\ sdt_valid(pointer.xsdt) /\ pointer.xsdt.signature = "XSDT" =>
                       ~HasMadt(pointer.xsdt)
  <1>1. \A root \in {pointer.rsdt, pointer.xsdt} :
            sdt_valid(root) => DOMAIN root.entries = 1 .. Len(root.entries) /\ Len(root.entries) \in Nat
    <2>1. pointer # NoPointer
      BY NothingIsSound
    <2> QED
      BY <2>1, AcpiAssumption, NothingIsSound DEF PointersIn
  <1>2. PICK x : x = find_madt_in(pointer.xsdt, "XSDT")
    OBVIOUS
  <1>3. PICK r : r = find_madt_in(pointer.rsdt, "RSDT")
    OBVIOUS
  <1>4. /\ IF sdt_valid(pointer.xsdt) /\ pointer.xsdt.signature = "XSDT" /\ HasMadt(pointer.xsdt)
           THEN sdt_valid(x) ELSE x = NoTable
        /\ IF sdt_valid(pointer.rsdt) /\ pointer.rsdt.signature = "RSDT" /\ HasMadt(pointer.rsdt)
           THEN sdt_valid(r) ELSE r = NoTable
    BY <1>1, <1>2, <1>3, MadtFound
  <1>5. MadtOf(pointer) = IF pointer.revision >= 2 /\ pointer.xsdt # NoTable /\ x # NoTable THEN x
                          ELSE IF pointer.rsdt # NoTable THEN r ELSE NoTable
    BY <1>2, <1>3 DEF MadtOf
  <1>6. CASE pointer.revision >= 2 /\ pointer.xsdt # NoTable /\ x # NoTable
    BY <1>4, <1>5, <1>6, NothingIsSound
  <1>7. CASE ~(pointer.revision >= 2 /\ pointer.xsdt # NoTable /\ x # NoTable)
    BY <1>4, <1>5, <1>7, NothingIsSound
  <1> QED
    BY <1>6, <1>7

(* Every step keeps what is known of the tables.                            *)
LEMMA TablesStay ==
    ASSUME TablesInv, UNCHANGED <<rsdp, madt>>, acpiStage' \in Found \cup {"halted"}, acpiStage \in Found
    PROVE  TablesInv'
  <1>1. sdt_valid(madt) /\ madt # NoTable
    BY NothingIsSound DEF TablesInv
  <1> QED
    BY <1>1 DEF TablesInv, UsesSoundTables, Found, Searching

(* Every step keeps the invariant of the tables.                            *)
LEMMA TablesStep ==
    ASSUME TablesInv, [AcpiNext]_acpiVars
    PROVE  TablesInv'
  <1>1. CASE UNCHANGED acpiVars
    BY <1>1 DEF TablesInv, UsesSoundTables, acpiVars
  <1>2. ASSUME NEW p \in RootPointers, firmware_places(p) PROVE TablesInv'
    BY <1>2 DEF TablesInv, UsesSoundTables, firmware_places, Comes, Searching, Found
  <1>3. ASSUME NEW e \in MadtEntries, firmware_lists(e) PROVE TablesInv'
    BY <1>3 DEF TablesInv, UsesSoundTables, firmware_lists, Comes, Searching, Found
  <1>4. CASE find_rsdp
    <2>1. PICK found : found = {i \in DOMAIN Searched : rsdp_valid(Searched[i])}
      OBVIOUS
    <2>2. CASE found # {}
      <3>1. acpiStage = "firmware" /\ acpiStage' = "rsdp" /\ rsdp' = Searched[FirstOf(found)] /\ UNCHANGED madt
        BY <1>4, <2>1, <2>2 DEF find_rsdp, Comes
      <3>2. rsdp_valid(rsdp') /\ rsdp' \in PointersIn(places)
        BY <2>1, <2>2, <3>1, PointerFound
      <3>3. places \in RootPointers /\ madt = NoTable
        BY <3>1 DEF TablesInv, Searching
      <3> QED
        BY <3>1, <3>2, <3>3 DEF TablesInv, UsesSoundTables, Searching, Found
    <2>3. CASE found = {}
      <3>1. acpiStage = "firmware" /\ acpiStage' = "halted" /\ UNCHANGED <<rsdp, madt>>
        BY <1>4, <2>1, <2>3 DEF find_rsdp, Comes
      <3> QED
        BY <3>1 DEF TablesInv, UsesSoundTables, Searching, Found
    <2> QED
      BY <2>2, <2>3
  <1>5. CASE find_madt
    <2>1. acpiStage = "rsdp" /\ UNCHANGED rsdp /\ rsdp_valid(rsdp) /\ rsdp # NoPointer /\ madt = NoTable
      BY <1>5, NothingIsSound DEF find_madt, TablesInv, Searching
    <2>2. PICK p \in RootPointers : rsdp \in PointersIn(p)
      BY <2>1 DEF TablesInv
    <2>3. CASE MadtOf(rsdp) = NoTable
      <3>1. acpiStage' = "halted" /\ madt' = NoTable
        BY <1>5, <2>1, <2>3 DEF find_madt, Comes
      <3>2. /\ sdt_valid(rsdp.rsdt) /\ rsdp.rsdt.signature = "RSDT" => ~HasMadt(rsdp.rsdt)
            /\ rsdp.revision >= 2 /\ sdt_valid(rsdp.xsdt) /\ rsdp.xsdt.signature = "XSDT" => ~HasMadt(rsdp.xsdt)
        BY <2>1, <2>2, <2>3, FindMadt
      <3>3. ASSUME NEW root \in {rsdp.rsdt} \cup (IF rsdp.revision >= 2 THEN {rsdp.xsdt} ELSE {}),
                   sdt_valid(root), root.signature = (IF root = rsdp.rsdt THEN "RSDT" ELSE "XSDT")
            PROVE  ~HasMadt(root)
        BY <3>2, <3>3
      <3>4. UsesSoundTables'
        BY <2>1, <3>1, <3>3 DEF UsesSoundTables, HasMadt
      <3> QED
        BY <3>1, <3>4 DEF TablesInv, Searching, Found
    <2>4. CASE MadtOf(rsdp) # NoTable
      <3>1. acpiStage' = "entries" /\ madt' = MadtOf(rsdp)
        BY <1>5, <2>4 DEF find_madt, Comes
      <3>2. sdt_valid(madt')
        BY <2>1, <2>2, <2>4, <3>1, FindMadt
      <3> QED
        BY <2>1, <3>1, <3>2 DEF TablesInv, UsesSoundTables, Searching, Found
    <2> QED
      BY <2>3, <2>4
  <1>6. CASE parse_madt_entry
    BY <1>6, TablesStay DEF parse_madt_entry, Found
  <1>7. CASE parse_madt_ends
    BY <1>7, TablesStay DEF parse_madt_ends, Found
  <1>8. CASE ioapic_initialize
    BY <1>8, TablesStay DEF ioapic_initialize, Comes, Found
  <1>9. CASE route_to_ap
    BY <1>9, TablesStay DEF route_to_ap, Comes, Found
  <1> QED
    BY <1>1, <1>2, <1>3, <1>4, <1>5, <1>6, <1>7, <1>8, <1>9 DEF AcpiNext

-----------------------------------------------------------------------------
(* The walk over the MADT's entries.                                        *)
Passes(i) == listed[i].length >= HEADER_LENGTH /\ ~(cut /\ i = Len(listed))

(* What an entry of each kind says.                                         *)
CpuSays      == [i \in DOMAIN listed |-> CpuDesc(listed[i])]
IoapicSays   == [i \in DOMAIN listed |-> [gsi_base |-> listed[i].gsi_base]]
OverrideSays == [i \in DOMAIN listed |-> Override(listed[i])]

(* push_cpu drops what does not fit.                                        *)
AtMostCpus(n) == IF n < MAX_CPUS THEN n ELSE MAX_CPUS

(* What the first n entries leave in madt_info.                             *)
Gathered(n, cpus, ioapics, overrides) ==
    /\ Lists(cpus, Processors, n, CpuSays) /\ Len(cpus) = AtMostCpus(CountTo(Processors, n))
    /\ Lists(ioapics, IoapicsListed, n, IoapicSays) /\ Len(ioapics) = CountTo(IoapicsListed, n)
    /\ Lists(overrides, IsosListed, n, OverrideSays) /\ Len(overrides) = CountTo(IsosListed, n)

(* madt_info, with its lists.                                               *)
Info(cpus, ioapics, overrides) == [cpus |-> cpus, ioapics |-> ioapics, overrides |-> overrides]

(* The walk has passed sound entries only and gathered what they say.       *)
WalkInv ==
    /\ listed \in Seq(MadtEntries) /\ entryAt \in Nat
    /\ acpiStage \in Searching => entryAt = 0 /\ madt_info = NoInfo
    /\ acpiStage \in Found =>
           /\ entryAt <= Len(listed) /\ \A i \in 1 .. entryAt : Passes(i)
           /\ \E cpus, ioapics, overrides :
                  madt_info = Info(cpus, ioapics, overrides) /\ Gathered(entryAt, cpus, ioapics, overrides)
    /\ acpiStage \in Found \ {"entries"} => Sound \in SUBSET (1 .. entryAt)

(* The entries that count are among those listed.                           *)
LEMMA ListedSets ==
    ASSUME listed \in Seq(MadtEntries)
    PROVE  /\ Len(listed) \in Nat /\ DOMAIN listed = 1 .. Len(listed)
           /\ Sound = {i \in 1 .. Len(listed) : \A j \in 1 .. i : Passes(j)}
           /\ Processors \in SUBSET Sound /\ IoapicsListed \in SUBSET Sound /\ IsosListed \in SUBSET Sound
           /\ Processors \in SUBSET (Nat \ {0}) /\ IoapicsListed \in SUBSET (Nat \ {0})
           /\ IsosListed \in SUBSET (Nat \ {0})
  <1>1. Len(listed) \in Nat /\ DOMAIN listed = 1 .. Len(listed)
    BY LenProperties
  <1>2. Sound = {i \in 1 .. Len(listed) : \A j \in 1 .. i : Passes(j)}
    BY <1>1 DEF Sound, Passes
  <1>3. Processors \in SUBSET Sound /\ IoapicsListed \in SUBSET Sound /\ IsosListed \in SUBSET Sound
    BY DEF Processors, IoapicsListed, IsosListed, Of
  <1>4. \A i \in Sound : i \in Nat \ {0}
    BY <1>1, <1>2
  <1> QED
    BY <1>1, <1>2, <1>3, <1>4

(* Before the first entry nothing is known.                                 *)
LEMMA NothingGathered ==
    ASSUME listed \in Seq(MadtEntries)
    PROVE  Gathered(0, <<>>, <<>>, <<>>)
  <1>1. CountTo(Processors, 0) = 0 /\ CountTo(IoapicsListed, 0) = 0 /\ CountTo(IsosListed, 0) = 0
    BY ListedSets, CountOfNone
  <1>2. AtMostCpus(0) = 0 /\ 0 = Len(<<>>)
    BY AcpiAssumption DEF AtMostCpus
  <1>3. /\ Lists(<<>>, Processors, 0, CpuSays) /\ Lists(<<>>, IoapicsListed, 0, IoapicSays)
        /\ Lists(<<>>, IsosListed, 0, OverrideSays)
    BY EmptyLists
  <1> QED
    BY <1>1, <1>2, <1>3 DEF Gathered

(* An entry that adds nothing.                                              *)
LEMMA GatherNothing ==
    ASSUME listed \in Seq(MadtEntries), NEW n \in Nat, NEW m \in Nat, m = n + 1,
           NEW cpus, NEW ioapics, NEW overrides, Gathered(n, cpus, ioapics, overrides),
           m \notin Processors, m \notin IoapicsListed, m \notin IsosListed
    PROVE  Gathered(m, cpus, ioapics, overrides)
  <1>1. Processors \in SUBSET Nat /\ IoapicsListed \in SUBSET Nat /\ IsosListed \in SUBSET Nat /\ n <= m
    BY ListedSets
  <1>2. /\ CountTo(Processors, m) = CountTo(Processors, n) /\ CountTo(IoapicsListed, m) = CountTo(IoapicsListed, n)
        /\ CountTo(IsosListed, m) = CountTo(IsosListed, n)
    BY <1>1, CountOfNext
  <1>3. /\ Lists(cpus, Processors, m, CpuSays) /\ Lists(ioapics, IoapicsListed, m, IoapicSays)
        /\ Lists(overrides, IsosListed, m, OverrideSays)
    BY <1>1, ListsFurther DEF Gathered
  <1> QED
    BY <1>2, <1>3 DEF Gathered

(* An entry of a processor, for which there may be no room.                 *)
LEMMA GatherCpu ==
    ASSUME listed \in Seq(MadtEntries), NEW n \in Nat, NEW m \in Nat, m = n + 1,
           NEW cpus, NEW ioapics, NEW overrides, Gathered(n, cpus, ioapics, overrides),
           m \in Processors, m \notin IoapicsListed, m \notin IsosListed,
           NEW more, more = IF Len(cpus) >= MAX_CPUS THEN cpus ELSE Append(cpus, CpuDesc(listed[m]))
    PROVE  Gathered(m, more, ioapics, overrides)
  <1>1. Processors \in SUBSET Nat /\ IoapicsListed \in SUBSET Nat /\ IsosListed \in SUBSET Nat /\ n <= m
    BY ListedSets
  <1>2. /\ CountTo(Processors, m) = CountTo(Processors, n) + 1
        /\ CountTo(IoapicsListed, m) = CountTo(IoapicsListed, n) /\ CountTo(IsosListed, m) = CountTo(IsosListed, n)
    BY <1>1, CountOfNext
  <1>3. Lists(ioapics, IoapicsListed, m, IoapicSays) /\ Lists(overrides, IsosListed, m, OverrideSays)
    BY <1>1, ListsFurther DEF Gathered
  <1>4. CpuSays[m] = CpuDesc(listed[m])
    <2>1. m \in DOMAIN listed
      BY ListedSets
    <2> QED
      BY <2>1 DEF CpuSays
  <1>5. PICK held \in Nat, count \in Nat : /\ held = Len(cpus) /\ count = CountTo(Processors, n)
                                           /\ held = AtMostCpus(count)
    <2>1. CountTo(Processors, n) \in Nat
      BY <1>1, UpToIsFinite
    <2>2. AtMostCpus(CountTo(Processors, n)) \in Nat
      BY <2>1, AcpiAssumption DEF AtMostCpus
    <2> QED
      BY <2>1, <2>2 DEF Gathered
  <1>6. CASE held >= MAX_CPUS
    <2>1. more = cpus
      BY <1>5, <1>6
    <2>2. Lists(more, Processors, m, CpuSays)
      BY <1>1, <2>1, ListsFurther DEF Gathered
    <2>3. held = AtMostCpus(count + 1)
      BY <1>5, <1>6, AcpiAssumption DEF AtMostCpus
    <2>4. Len(more) = AtMostCpus(CountTo(Processors, m))
      BY <1>2, <1>5, <2>1, <2>3
    <2> QED
      BY <1>2, <1>3, <2>2, <2>4 DEF Gathered
  <1>7. CASE ~(held >= MAX_CPUS)
    <2>1. more = Append(cpus, CpuSays[m])
      BY <1>4, <1>5, <1>7
    <2>2. held = count /\ AtMostCpus(count + 1) = count + 1
      BY <1>5, <1>7, AcpiAssumption DEF AtMostCpus
    <2>3. Len(cpus) = CountTo(Processors, n) /\ Lists(cpus, Processors, n, CpuSays)
      BY <1>5, <2>2 DEF Gathered
    <2>4. Lists(more, Processors, m, CpuSays) /\ Len(more) = CountTo(Processors, m)
      <3>1. IsNext(cpus, Processors, n, m, CpuSays)
        BY <1>1, <2>3 DEF IsNext
      <3>2. ListsAll(Append(cpus, CpuSays[m]), Processors, m, CpuSays)
        BY <3>1, ListsOneMore, Zenon
      <3> QED
        BY <2>1, <3>2, Zenon DEF ListsAll
    <2>5. Len(more) = AtMostCpus(CountTo(Processors, m))
      BY <1>2, <1>5, <2>2, <2>4
    <2> QED
      BY <1>2, <1>3, <2>4, <2>5 DEF Gathered
  <1> QED
    BY <1>6, <1>7

(* An entry of an IOAPIC.                                                   *)
LEMMA GatherIoapic ==
    ASSUME listed \in Seq(MadtEntries), NEW n \in Nat, NEW m \in Nat, m = n + 1,
           NEW cpus, NEW ioapics, NEW overrides, Gathered(n, cpus, ioapics, overrides),
           m \notin Processors, m \in IoapicsListed, m \notin IsosListed,
           NEW more, more = Append(ioapics, [gsi_base |-> listed[m].gsi_base])
    PROVE  Gathered(m, cpus, more, overrides)
  <1>1. Processors \in SUBSET Nat /\ IoapicsListed \in SUBSET Nat /\ IsosListed \in SUBSET Nat /\ n <= m
    BY ListedSets
  <1>2. CountTo(Processors, m) = CountTo(Processors, n) /\ CountTo(IsosListed, m) = CountTo(IsosListed, n)
    BY <1>1, CountOfNext
  <1>3. Lists(cpus, Processors, m, CpuSays) /\ Lists(overrides, IsosListed, m, OverrideSays)
    BY <1>1, ListsFurther DEF Gathered
  <1>4. more = Append(ioapics, IoapicSays[m])
    <2>1. m \in DOMAIN listed
      BY ListedSets
    <2> QED
      BY <2>1 DEF IoapicSays
  <1>5. Len(ioapics) = CountTo(IoapicsListed, n) /\ Lists(ioapics, IoapicsListed, n, IoapicSays)
    BY DEF Gathered
  <1>6. Lists(more, IoapicsListed, m, IoapicSays) /\ Len(more) = CountTo(IoapicsListed, m)
    <2>1. IsNext(ioapics, IoapicsListed, n, m, IoapicSays)
      BY <1>1, <1>5 DEF IsNext
    <2>2. ListsAll(Append(ioapics, IoapicSays[m]), IoapicsListed, m, IoapicSays)
      BY <2>1, ListsOneMore, Zenon
    <2> QED
      BY <1>4, <2>2, Zenon DEF ListsAll
  <1> QED
    BY <1>2, <1>3, <1>6 DEF Gathered

(* An interrupt source override.                                            *)
LEMMA GatherOverride ==
    ASSUME listed \in Seq(MadtEntries), NEW n \in Nat, NEW m \in Nat, m = n + 1,
           NEW cpus, NEW ioapics, NEW overrides, Gathered(n, cpus, ioapics, overrides),
           m \notin Processors, m \notin IoapicsListed, m \in IsosListed,
           NEW more, more = Append(overrides, Override(listed[m]))
    PROVE  Gathered(m, cpus, ioapics, more)
  <1>1. Processors \in SUBSET Nat /\ IoapicsListed \in SUBSET Nat /\ IsosListed \in SUBSET Nat /\ n <= m
    BY ListedSets
  <1>2. CountTo(Processors, m) = CountTo(Processors, n) /\ CountTo(IoapicsListed, m) = CountTo(IoapicsListed, n)
    BY <1>1, CountOfNext
  <1>3. Lists(cpus, Processors, m, CpuSays) /\ Lists(ioapics, IoapicsListed, m, IoapicSays)
    BY <1>1, ListsFurther DEF Gathered
  <1>4. more = Append(overrides, OverrideSays[m])
    <2>1. m \in DOMAIN listed
      BY ListedSets
    <2> QED
      BY <2>1 DEF OverrideSays
  <1>5. Len(overrides) = CountTo(IsosListed, n) /\ Lists(overrides, IsosListed, n, OverrideSays)
    BY DEF Gathered
  <1>6. Lists(more, IsosListed, m, OverrideSays) /\ Len(more) = CountTo(IsosListed, m)
    <2>1. IsNext(overrides, IsosListed, n, m, OverrideSays)
      BY <1>1, <1>5 DEF IsNext
    <2>2. ListsAll(Append(overrides, OverrideSays[m]), IsosListed, m, OverrideSays)
      BY <2>1, ListsOneMore, Zenon
    <2> QED
      BY <1>4, <2>2, Zenon DEF ListsAll
  <1> QED
    BY <1>2, <1>3, <1>6 DEF Gathered

-----------------------------------------------------------------------------
(* The sets of entries stay what they are while they are walked over.       *)
LEMMA SameEntries ==
    ASSUME UNCHANGED <<listed, cut>>
    PROVE  /\ Sound' = Sound /\ Processors' = Processors /\ IoapicsListed' = IoapicsListed /\ IsosListed' = IsosListed
           /\ \A n, cpus, ioapics, overrides :
                  Gathered(n, cpus, ioapics, overrides) => Gathered(n, cpus, ioapics, overrides)'
           /\ \A i : Passes(i)' <=> Passes(i)
  <1>1. Sound' = Sound
    BY DEF Sound
  <1>2. Processors' = Processors /\ IoapicsListed' = IoapicsListed /\ IsosListed' = IsosListed
    BY <1>1 DEF Processors, IoapicsListed, IsosListed, Of
  <1>3. CpuSays' = CpuSays /\ IoapicSays' = IoapicSays /\ OverrideSays' = OverrideSays
    BY DEF CpuSays, IoapicSays, OverrideSays
  <1>4. ASSUME NEW n, NEW cpus, NEW ioapics, NEW overrides, Gathered(n, cpus, ioapics, overrides)
        PROVE  Gathered(n, cpus, ioapics, overrides)'
    <2>1. Lists(cpus, Processors, n, CpuSays)'
      BY <1>2, <1>3, <1>4 DEF Gathered, Lists, CountTo
    <2>2. Lists(ioapics, IoapicsListed, n, IoapicSays)'
      BY <1>2, <1>3, <1>4 DEF Gathered, Lists, CountTo
    <2>3. Lists(overrides, IsosListed, n, OverrideSays)'
      BY <1>2, <1>3, <1>4 DEF Gathered, Lists, CountTo
    <2>4. /\ CountTo(Processors, n)' = CountTo(Processors, n)
          /\ CountTo(IoapicsListed, n)' = CountTo(IoapicsListed, n)
          /\ CountTo(IsosListed, n)' = CountTo(IsosListed, n)
      BY <1>2 DEF CountTo
    <2>5. \A k : AtMostCpus(k)' = AtMostCpus(k)
      BY DEF AtMostCpus
    <2> QED
      BY <1>4, <2>1, <2>2, <2>3, <2>4, <2>5 DEF Gathered
  <1>5. \A i : Passes(i)' <=> Passes(i)
    BY DEF Passes
  <1> QED
    BY <1>1, <1>2, <1>4, <1>5

(* The walk stays where it is.                                              *)
LEMMA WalkStays ==
    ASSUME WalkInv, UNCHANGED <<listed, cut, entryAt, madt_info>>, acpiStage \in Found \cup {"halted"},
           acpiStage' \in Found \cup {"halted"}, acpiStage' \in Found => acpiStage \in Found,
           acpiStage' \in Found \ {"entries"} => Sound \in SUBSET (1 .. entryAt)
    PROVE  WalkInv'
  <1>1. Sound' = Sound /\ \A i : Passes(i)' <=> Passes(i)
    BY SameEntries
  <1>2. ASSUME acpiStage' \in Found
        PROVE  /\ entryAt <= Len(listed) /\ \A i \in 1 .. entryAt : Passes(i)
               /\ \E cpus, ioapics, overrides :
                      madt_info = Info(cpus, ioapics, overrides) /\ Gathered(entryAt, cpus, ioapics, overrides)'
    <2>1. PICK cpus, ioapics, overrides :
              madt_info = Info(cpus, ioapics, overrides) /\ Gathered(entryAt, cpus, ioapics, overrides)
      BY <1>2 DEF WalkInv
    <2>2. Gathered(entryAt, cpus, ioapics, overrides)'
      BY <2>1, SameEntries
    <2> QED
      BY <1>2, <2>1, <2>2 DEF WalkInv
  <1>3. acpiStage' \notin Searching
    BY DEF Searching, Found
  <1> QED
    BY <1>1, <1>2, <1>3 DEF WalkInv

(* The types of entry that parse_madt_entries knows.                        *)
LEMMA EntryTypes ==
    DOMAIN LengthNeeded = {"LOCAL_APIC", "IOAPIC", "ISO", "LOCAL_X2APIC"}
  BY DEF LengthNeeded

(* A turn of the walk gathers what its entry says.                          *)
LEMMA EntryTurn ==
    ASSUME WalkInv, parse_madt_entry
    PROVE  WalkInv'
  <1>1. PICK n \in Nat, m \in Nat, e \in {listed[entryAt + 1]} : n = entryAt /\ m = n + 1 /\ e = listed[m]
    BY DEF WalkInv
  <1>2. /\ acpiStage = "entries" /\ UNCHANGED <<listed, cut>> /\ entryAt' = m
        /\ listed \in Seq(MadtEntries) /\ Len(listed) \in Nat /\ n < Len(listed) /\ m \in 1 .. Len(listed)
        /\ \A i \in 1 .. n : Passes(i)
    BY <1>1, LenProperties DEF parse_madt_entry, WalkGoesOn, WalkInv, Found
  <1>3. Passes(m)
    BY <1>1, <1>2 DEF parse_madt_entry, WalkGoesOn, Passes
  <1>4. \A i \in 1 .. m : Passes(i)
    <2>1. ASSUME NEW i \in 1 .. m PROVE i \in 1 .. n \/ i = m
      BY <1>1
    <2> QED
      BY <1>2, <1>3, <2>1
  <1>5. m \in Sound
    BY <1>2, <1>4, ListedSets
  <1> DEFINE known == e.type \in DOMAIN LengthNeeded /\ e.length >= LengthNeeded[e.type]
  <1>6. /\ m \in Processors <=> known /\ e.type \in {"LOCAL_APIC", "LOCAL_X2APIC"}
        /\ m \in IoapicsListed <=> known /\ e.type = "IOAPIC"
        /\ m \in IsosListed <=> known /\ e.type = "ISO"
    BY <1>1, <1>5, EntryTypes DEF Processors, IoapicsListed, IsosListed, Of
  <1>7. PICK cpus, ioapics, overrides :
            madt_info = Info(cpus, ioapics, overrides) /\ Gathered(n, cpus, ioapics, overrides)
    BY <1>1, <1>2 DEF WalkInv, Found
  <1>8. madt_info.cpus = cpus /\ madt_info.ioapics = ioapics /\ madt_info.overrides = overrides
    BY <1>7 DEF Info
  <1> DEFINE full == \/ e.type = "IOAPIC" /\ Len(ioapics) = MAX_IOAPICS
                     \/ e.type = "ISO" /\ Len(overrides) = MAX_INTERRUPT_OVERRIDES
  <1>9. /\ acpiStage' = IF known /\ full THEN "halted" ELSE "entries"
        /\ madt_info' =
              IF ~known \/ full THEN madt_info
              ELSE CASE e.type \in {"LOCAL_APIC", "LOCAL_X2APIC"} -> push_cpu(madt_info, e)
                     [] e.type = "IOAPIC" -> [madt_info EXCEPT !.ioapics = Append(@, [gsi_base |-> e.gsi_base])]
                     [] e.type = "ISO" -> [madt_info EXCEPT !.overrides = Append(@, Override(e))]
    BY <1>1, <1>8 DEF parse_madt_entry
  <1>10. CASE known /\ full
    <2>1. acpiStage' = "halted"
      BY <1>9, <1>10
    <2> QED
      BY <1>2, <2>1 DEF WalkInv, Found, Searching
  <1>11. ASSUME acpiStage' = "entries",
                NEW c, NEW i, NEW o, madt_info' = Info(c, i, o), Gathered(m, c, i, o)
         PROVE  WalkInv'
    <2>1. Gathered(m, c, i, o)' /\ \A k : Passes(k)' <=> Passes(k)
      BY <1>2, <1>11, SameEntries
    <2>2. m <= Len(listed)
      BY <1>2
    <2>3. Gathered(entryAt, c, i, o)'
      BY <1>2, <2>1
    <2> QED
      BY <1>2, <1>4, <1>11, <2>1, <2>2, <2>3 DEF WalkInv, Found, Searching
  <1>12. CASE ~known
    <2>1. acpiStage' = "entries" /\ madt_info' = Info(cpus, ioapics, overrides)
      BY <1>7, <1>9, <1>12
    <2>2. m \notin Processors /\ m \notin IoapicsListed /\ m \notin IsosListed
      BY <1>6, <1>12
    <2>3. Gathered(m, cpus, ioapics, overrides)
      BY <1>1, <1>2, <1>7, <2>2, GatherNothing
    <2> QED
      BY <1>11, <2>1, <2>3
  <1>13. CASE known /\ ~full /\ e.type \in {"LOCAL_APIC", "LOCAL_X2APIC"}
    <2>1. PICK more : more = IF Len(cpus) >= MAX_CPUS THEN cpus ELSE Append(cpus, CpuDesc(e))
      OBVIOUS
    <2>2. acpiStage' = "entries" /\ madt_info' = push_cpu(madt_info, e)
      BY <1>9, <1>13
    <2>3. madt_info' = Info(more, ioapics, overrides)
      BY <1>7, <2>1, <2>2 DEF push_cpu, Info
    <2>4. m \in Processors /\ m \notin IoapicsListed /\ m \notin IsosListed
      BY <1>6, <1>13
    <2>5. Gathered(m, more, ioapics, overrides)
      BY <1>1, <1>2, <1>7, <2>1, <2>4, GatherCpu
    <2> QED
      BY <1>11, <2>2, <2>3, <2>5
  <1>14. CASE known /\ ~full /\ e.type = "IOAPIC"
    <2>1. PICK more : more = Append(ioapics, [gsi_base |-> e.gsi_base])
      OBVIOUS
    <2>2. acpiStage' = "entries"
          /\ madt_info' = [madt_info EXCEPT !.ioapics = Append(@, [gsi_base |-> e.gsi_base])]
      BY <1>9, <1>14
    <2>3. madt_info' = Info(cpus, more, overrides)
      BY <1>7, <2>1, <2>2 DEF Info
    <2>4. m \notin Processors /\ m \in IoapicsListed /\ m \notin IsosListed
      BY <1>6, <1>14
    <2>5. Gathered(m, cpus, more, overrides)
      BY <1>1, <1>2, <1>7, <2>1, <2>4, GatherIoapic
    <2> QED
      BY <1>11, <2>2, <2>3, <2>5
  <1>15. CASE known /\ ~full /\ e.type = "ISO"
    <2>1. PICK more : more = Append(overrides, Override(e))
      OBVIOUS
    <2>2. acpiStage' = "entries" /\ madt_info' = [madt_info EXCEPT !.overrides = Append(@, Override(e))]
      BY <1>9, <1>15
    <2>3. madt_info' = Info(cpus, ioapics, more)
      BY <1>7, <2>1, <2>2 DEF Info
    <2>4. m \notin Processors /\ m \notin IoapicsListed /\ m \in IsosListed
      BY <1>6, <1>15
    <2>5. Gathered(m, cpus, ioapics, more)
      BY <1>1, <1>2, <1>7, <2>1, <2>4, GatherOverride
    <2> QED
      BY <1>11, <2>2, <2>3, <2>5
  <1> QED
    BY <1>10, <1>12, <1>13, <1>14, <1>15, EntryTypes

(* Every step keeps the invariant of the walk.                              *)
LEMMA WalkStep ==
    ASSUME TablesInv, WalkInv, [AcpiNext]_acpiVars
    PROVE  WalkInv'
  <1>0. acpiStage \in Searching \cup Found \cup {"halted"}
    BY DEF TablesInv
  <1>1. CASE UNCHANGED acpiVars
    <2>1. UNCHANGED <<listed, cut, entryAt, madt_info, acpiStage>>
      BY <1>1 DEF acpiVars
    <2>2. CASE acpiStage \in Searching
      BY <2>1, <2>2 DEF WalkInv, Searching, Found
    <2>3. CASE acpiStage \notin Searching
      BY <1>0, <2>1, <2>3, WalkStays DEF WalkInv
    <2> QED
      BY <2>2, <2>3
  <1>2. ASSUME NEW p \in RootPointers, firmware_places(p) PROVE WalkInv'
    BY <1>2 DEF WalkInv, firmware_places, Comes, Searching, Found
  <1>3. ASSUME NEW e \in MadtEntries, firmware_lists(e) PROVE WalkInv'
    <2>1. listed' \in Seq(MadtEntries)
      BY <1>3, AppendProperties DEF WalkInv, firmware_lists
    <2> QED
      BY <1>3, <2>1 DEF WalkInv, firmware_lists, Comes, Searching, Found
  <1>4. CASE find_rsdp
    BY <1>4 DEF WalkInv, find_rsdp, Comes, Searching, Found
  <1>5. CASE find_madt
    <2>1. UNCHANGED <<listed, cut, entryAt, madt_info>> /\ acpiStage = "rsdp" /\ acpiStage' \in {"halted", "entries"}
      BY <1>5 DEF find_madt, Comes
    <2>2. entryAt = 0 /\ madt_info = Info(<<>>, <<>>, <<>>) /\ listed \in Seq(MadtEntries)
      BY <2>1 DEF WalkInv, Searching, Info, NoInfo
    <2>3. Gathered(0, <<>>, <<>>, <<>>)'
      BY <2>1, <2>2, NothingGathered, SameEntries
    <2>4. 0 <= Len(listed) /\ \A i \in 1 .. 0 : Passes(i)'
      BY <2>2, LenProperties
    <2>5. \E cpus, ioapics, overrides :
              madt_info' = Info(cpus, ioapics, overrides) /\ Gathered(entryAt, cpus, ioapics, overrides)'
      BY <2>1, <2>2, <2>3
    <2> QED
      BY <2>1, <2>2, <2>4, <2>5 DEF WalkInv, Searching, Found
  <1>6. CASE parse_madt_entry
    BY <1>6, EntryTurn
  <1>7. CASE parse_madt_ends
    <2>1. UNCHANGED <<listed, cut, entryAt, madt_info>> /\ acpiStage = "entries" /\ acpiStage' \in {"halted", "parsed"}
      BY <1>7 DEF parse_madt_ends
    <2>2. PICK n \in Nat, l \in Nat : n = entryAt /\ l = Len(listed) /\ n <= l
      BY <2>1, LenProperties DEF WalkInv, Found
    <2>3. ASSUME NEW i \in Sound PROVE i \in 1 .. n
      <3>1. i \in 1 .. l /\ \A j \in 1 .. i : Passes(j)
        BY <2>2, ListedSets DEF WalkInv
      <3>2. SUFFICES ASSUME n < i PROVE FALSE
        BY <3>1
      <3>3. n + 1 \in 1 .. i /\ n < l
        BY <3>1, <3>2
      <3>4. Passes(n + 1)
        BY <3>1, <3>3
      <3> QED
        BY <1>7, <2>2, <3>3, <3>4 DEF parse_madt_ends, WalkGoesOn, Passes
    <2>4. Sound \in SUBSET (1 .. entryAt)
      BY <2>2, <2>3
    <2> QED
      BY <2>1, <2>4, WalkStays DEF Found
  <1>8. CASE ioapic_initialize
    BY <1>8, WalkStays DEF ioapic_initialize, Comes, Found, WalkInv
  <1>9. CASE route_to_ap
    BY <1>9, WalkStays DEF route_to_ap, Comes, Found, WalkInv
  <1> QED
    BY <1>1, <1>2, <1>3, <1>4, <1>5, <1>6, <1>7, <1>8, <1>9 DEF AcpiNext

(* What was gathered when the walk has ended is what the firmware listed.   *)
LEMMA MachineKnown ==
    ASSUME WalkInv
    PROVE  KnowsItsMachine
  <1>1. SUFFICES ASSUME acpiStage \in {"parsed", "routed", "moved"}
                 PROVE  /\ Len(madt_info.cpus) = AtMostCpus(Cardinality(Processors))
                        /\ \A k \in DOMAIN madt_info.cpus :
                               madt_info.cpus[k] = CpuDesc(listed[Nth(Processors, k)])
                        /\ Len(madt_info.ioapics) = Cardinality(IoapicsListed)
                        /\ Len(madt_info.overrides) = Cardinality(IsosListed)
    <2>1. \A e : LET c == CpuDesc(e)
                IN c.apic_id = e.apic_id /\ c.enabled = e.enabled /\ c.is_bsp = (e.apic_id = BSP_APIC_ID)
      BY DEF CpuDesc
    <2> QED
      BY <2>1 DEF KnowsItsMachine, AtMostCpus
  <1>2. PICK n \in Nat : n = entryAt /\ Sound \in SUBSET (1 .. n) /\ listed \in Seq(MadtEntries)
    BY <1>1 DEF WalkInv, Found
  <1>3. PICK cpus, ioapics, overrides :
            madt_info = Info(cpus, ioapics, overrides) /\ Gathered(n, cpus, ioapics, overrides)
    BY <1>1, <1>2 DEF WalkInv, Found
  <1>4. madt_info.cpus = cpus /\ madt_info.ioapics = ioapics /\ madt_info.overrides = overrides
    BY <1>3 DEF Info
  <1>5. /\ Processors \in SUBSET (0 .. n) /\ IoapicsListed \in SUBSET (0 .. n) /\ IsosListed \in SUBSET (0 .. n)
        /\ Processors \in SUBSET Nat /\ Processors \in SUBSET DOMAIN listed
    BY <1>2, ListedSets
  <1>6. /\ CountTo(Processors, n) = Cardinality(Processors)
        /\ CountTo(IoapicsListed, n) = Cardinality(IoapicsListed)
        /\ CountTo(IsosListed, n) = Cardinality(IsosListed)
    BY <1>5, CountOfAll
  <1>7. ASSUME NEW k \in DOMAIN cpus PROVE cpus[k] = CpuDesc(listed[Nth(Processors, k)])
    <2>1. k \in 1 .. Len(cpus)
      BY <1>3, LenProperties DEF Gathered, Lists
    <2>2. PICK i \in Processors : CountTo(Processors, i) = k /\ cpus[k] = CpuSays[i]
      BY <1>3, <2>1 DEF Gathered, Lists
    <2>3. Nth(Processors, k) = i
      BY <1>5, <2>2, NthIs
    <2>4. CpuSays[i] = CpuDesc(listed[i])
      BY <1>5 DEF CpuSays
    <2> QED
      BY <2>2, <2>3, <2>4
  <1> QED
    BY <1>3, <1>4, <1>6, <1>7 DEF Gathered

-----------------------------------------------------------------------------
(* The override that route_industry_standard_architecture_irq takes is the  *)
(* one that the firmware meant: the first it listed for the line.           *)
LEMMA OverrideIsMeant ==
    ASSUME WalkInv, acpiStage \in {"parsed", "routed", "moved"}, NEW irq
    PROVE  /\ OverrideOf(irq).gsi = Meant(irq).gsi
           /\ OverrideOf(irq).polarity = Meant(irq).polarity /\ OverrideOf(irq).trigger = Meant(irq).trigger
  <1>1. PICK n \in Nat : n = entryAt /\ Sound \in SUBSET (1 .. n) /\ listed \in Seq(MadtEntries)
    BY DEF WalkInv, Found
  <1>2. PICK cpus, ioapics, overrides :
            madt_info = Info(cpus, ioapics, overrides) /\ Gathered(n, cpus, ioapics, overrides)
    BY <1>1 DEF WalkInv, Found
  <1>3. madt_info.overrides = overrides /\ Lists(overrides, IsosListed, n, OverrideSays)
        /\ Len(overrides) = CountTo(IsosListed, n)
    BY <1>2 DEF Info, Gathered
  <1>4. PICK S : S = IsosListed
    OBVIOUS
  <1>5. S \in SUBSET Nat /\ S \in SUBSET (Nat \ {0}) /\ S \in SUBSET DOMAIN listed /\ S \in SUBSET (0 .. n)
    BY <1>1, <1>4, ListedSets
  <1>6. PICK c \in Nat : c = Len(overrides) /\ c = CountTo(S, n) /\ DOMAIN overrides = 1 .. c
    BY <1>3, <1>4, LenProperties DEF Lists
  <1>7. \A i \in S : OverrideSays[i] = Override(listed[i])
    BY <1>5 DEF OverrideSays
  <1>8. \A k \in 1 .. c : \E i \in S : CountTo(S, i) = k /\ overrides[k] = Override(listed[i])
    BY <1>3, <1>4, <1>6, <1>7 DEF Lists
  <1> DEFINE meant == {i \in S : listed[i].isa_irq = irq}
             named == {k \in 1 .. c : overrides[k].isa_irq = irq}
  <1>9. /\ OverrideOf(irq) = IF named = {} THEN NoOverride(irq) ELSE overrides[FirstOf(named)]
        /\ Meant(irq) = IF meant = {} THEN NoOverride(irq) ELSE listed[FirstOf(meant)]
    BY <1>3, <1>4, <1>6 DEF OverrideOf, Meant
  <1>10. \A i : Override(listed[i]).isa_irq = listed[i].isa_irq
    BY DEF Override
  <1>11. CASE meant = {}
    <2>1. ASSUME NEW k \in named PROVE FALSE
      <3>1. PICK i \in S : overrides[k] = Override(listed[i])
        BY <1>8
      <3> QED
        BY <1>10, <1>11, <3>1
    <2>2. named = {}
      BY <2>1
    <2> QED
      BY <1>9, <1>11, <2>2
  <1>12. CASE meant # {}
    <2>1. meant \in SUBSET Nat
      BY <1>5
    <2>2. PICK first \in meant : first = FirstOf(meant) /\ \A i \in meant : first <= i
      BY <1>12, <2>1, FirstOfIs
    <2>3. first \in S /\ first \in Nat /\ first <= n
      BY <1>5, <2>2
    <2>4. PICK place \in Nat : place = CountTo(S, first)
      BY <1>5, <2>3, UpToIsFinite
    <2>5. place <= c
      BY <1>5, <1>6, <2>3, <2>4, CountGrows
    <2>6. 1 <= place
      <3>1. first # 0 /\ CountTo(S, 0) = 0
        BY <1>5, <2>3, CountOfNone
      <3>2. CountTo(S, 0) < CountTo(S, first)
        BY <1>5, <2>3, <3>1, CountGrows
      <3> QED
        BY <2>4, <3>1, <3>2
    <2>7. ASSUME NEW i \in S, CountTo(S, i) = place PROVE i = first
      <3>1. Nth(S, place) = i /\ Nth(S, place) = first
        BY <1>5, <2>3, <2>4, <2>7, NthIs
      <3> QED
        BY <3>1
    <2>8. place \in 1 .. c /\ overrides[place] = Override(listed[first])
      <3>1. place \in 1 .. c
        BY <2>5, <2>6
      <3>2. PICK i \in S : CountTo(S, i) = place /\ overrides[place] = Override(listed[i])
        BY <1>8, <3>1
      <3> QED
        BY <2>7, <3>1, <3>2
    <2>9. place \in named
      BY <1>10, <2>2, <2>8
    <2>10. ASSUME NEW k \in named PROVE place <= k
      <3>1. PICK i \in S : CountTo(S, i) = k /\ overrides[k] = Override(listed[i])
        BY <1>8
      <3>2. i \in meant /\ i \in Nat /\ first <= i
        BY <1>5, <1>10, <2>2, <3>1
      <3> QED
        BY <1>5, <2>3, <2>4, <3>1, <3>2, CountGrows
    <2>11. named \in SUBSET Nat
      OBVIOUS
    <2>12. FirstOf(named) \in named /\ \A k \in named : FirstOf(named) <= k
      BY <2>9, <2>11, FirstOfIs
    <2>13. FirstOf(named) = place
      <3>1. FirstOf(named) \in Nat /\ FirstOf(named) <= place /\ place <= FirstOf(named)
        BY <2>9, <2>10, <2>11, <2>12
      <3> QED
        BY <3>1
    <2>14. OverrideOf(irq) = Override(listed[first])
      BY <1>9, <2>8, <2>9, <2>13
    <2>15. Meant(irq) = listed[first]
      BY <1>9, <1>12, <2>2
    <2> QED
      BY <2>14, <2>15 DEF Override
  <1> QED
    BY <1>11, <1>12

-----------------------------------------------------------------------------
(* The redirection entries.                                                 *)
Wired(irq) == OverrideOf(irq).gsi - madt_info.ioapics[1].gsi_base

(* The table after both lines were routed.                                  *)
LEMMA RoutedBothIs ==
    ASSUME NEW table, NEW destination, NEW after, after = RouteBoth(table, destination)
    PROVE  /\ DOMAIN after = DOMAIN table
           /\ \A p \in DOMAIN table :
                  after[p] = IF p = Wired(MOUSE_IRQ) THEN Entry(OverrideOf(MOUSE_IRQ), MOUSE_IRQ, destination)
                             ELSE IF p = Wired(KEYBOARD_IRQ)
                                  THEN Entry(OverrideOf(KEYBOARD_IRQ), KEYBOARD_IRQ, destination) ELSE table[p]
  <1>1. ASSUME NEW t, NEW irq, NEW u, u = Routed(t, irq, destination)
        PROVE  /\ DOMAIN u = DOMAIN t
               /\ \A p \in DOMAIN t : u[p] = IF p = Wired(irq) THEN Entry(OverrideOf(irq), irq, destination) ELSE t[p]
    <2>1. u = IF Wired(irq) \in DOMAIN t THEN [t EXCEPT ![Wired(irq)] = Entry(OverrideOf(irq), irq, destination)] ELSE t
      BY <1>1 DEF Routed, Wired
    <2> QED
      BY <2>1
  <1>2. PICK half : half = Routed(table, KEYBOARD_IRQ, destination)
    OBVIOUS
  <1>3. after = Routed(half, MOUSE_IRQ, destination)
    BY <1>2 DEF RouteBoth
  <1>4. /\ DOMAIN half = DOMAIN table
        /\ \A p \in DOMAIN table : half[p] = IF p = Wired(KEYBOARD_IRQ)
               THEN Entry(OverrideOf(KEYBOARD_IRQ), KEYBOARD_IRQ, destination) ELSE table[p]
    BY <1>1, <1>2
  <1>5. /\ DOMAIN after = DOMAIN half
        /\ \A p \in DOMAIN half : after[p] = IF p = Wired(MOUSE_IRQ)
               THEN Entry(OverrideOf(MOUSE_IRQ), MOUSE_IRQ, destination) ELSE half[p]
    BY <1>1, <1>3
  <1> QED
    BY <1>4, <1>5

(* What an entry of the table says of its line.                             *)
LEMMA EntryIs ==
    ASSUME NEW o, NEW irq, NEW destination, NEW line, line = Entry(o, irq, destination)
    PROVE  /\ ~line.masked /\ line.vector = irq /\ line.destination = destination
           /\ (line.polarity = "LOW") = (o.polarity = "ACTIVE_LOW") /\ (line.trigger = "LEVEL") = (o.trigger = "LEVEL")
  BY DEF Entry

(* The lines are as wired after they were routed for a CPU, when every other *)
(* pin was masked.                                                          *)
LEMMA RoutingWires ==
    ASSUME WalkInv, acpiStage \in {"parsed", "routed", "moved"}, UNCHANGED <<listed, cut, madt_info>>,
           NEW table, NEW destination, pins' = RouteBoth(table, destination),
           \A p \in DOMAIN table : table[p].masked \/ p = Wired(KEYBOARD_IRQ) \/ p = Wired(MOUSE_IRQ),
           destination = IF acpiStage' = "moved" THEN AP_APIC_ID ELSE BSP_APIC_ID
    PROVE  LinesAsWired' /\ DOMAIN pins' = DOMAIN table
  <1>1. \A irq : Meant(irq)' = Meant(irq)
    BY SameEntries DEF Meant
  <1>2. \A irq : /\ OverrideOf(irq).gsi = Meant(irq).gsi /\ OverrideOf(irq).polarity = Meant(irq).polarity
                 /\ OverrideOf(irq).trigger = Meant(irq).trigger
    BY OverrideIsMeant
  <1>3. \A irq : PinOf(irq)' = Wired(irq)
    BY <1>1, <1>2 DEF PinOf, Wired
  <1>4. PICK k, m : k = Wired(KEYBOARD_IRQ) /\ m = Wired(MOUSE_IRQ)
    OBVIOUS
  <1>5. PICK forKey, forMouse : /\ forKey = Entry(OverrideOf(KEYBOARD_IRQ), KEYBOARD_IRQ, destination)
                                /\ forMouse = Entry(OverrideOf(MOUSE_IRQ), MOUSE_IRQ, destination)
    OBVIOUS
  <1>6. PICK after : after = pins'
    OBVIOUS
  <1>7. /\ DOMAIN after = DOMAIN table
        /\ \A p \in DOMAIN table : after[p] = IF p = m THEN forMouse ELSE IF p = k THEN forKey ELSE table[p]
    BY <1>4, <1>5, <1>6, RoutedBothIs
  <1>8. /\ ~forKey.masked /\ forKey.vector = KEYBOARD_IRQ /\ forKey.destination = destination
        /\ (forKey.polarity = "LOW") = (Meant(KEYBOARD_IRQ).polarity = "ACTIVE_LOW")
        /\ (forKey.trigger = "LEVEL") = (Meant(KEYBOARD_IRQ).trigger = "LEVEL")
    BY <1>2, <1>5, EntryIs
  <1>9. /\ ~forMouse.masked /\ forMouse.vector = MOUSE_IRQ /\ forMouse.destination = destination
        /\ (forMouse.polarity = "LOW") = (Meant(MOUSE_IRQ).polarity = "ACTIVE_LOW")
        /\ (forMouse.trigger = "LEVEL") = (Meant(MOUSE_IRQ).trigger = "LEVEL")
    BY <1>2, <1>5, EntryIs
  <1>10. \A p \in DOMAIN table : ~after[p].masked <=> p = k \/ p = m
    BY <1>4, <1>7, <1>8, <1>9
  <1>11. DeviceLines' = {irq \in {KEYBOARD_IRQ, MOUSE_IRQ} : Wired(irq) \in DOMAIN table}
    BY <1>3, <1>6, <1>7 DEF DeviceLines
  <1>12. {p \in DOMAIN after : ~after[p].masked} = {Wired(irq) : irq \in DeviceLines'}
    BY <1>4, <1>7, <1>10, <1>11
  <1>13. ASSUME k # m, NEW irq \in DeviceLines'
         PROVE  /\ after[Wired(irq)].vector = irq /\ after[Wired(irq)].destination = destination
                /\ (after[Wired(irq)].polarity = "LOW") = (Meant(irq).polarity = "ACTIVE_LOW")
                /\ (after[Wired(irq)].trigger = "LEVEL") = (Meant(irq).trigger = "LEVEL")
    <2>1. CASE irq = KEYBOARD_IRQ
      <3>1. k \in DOMAIN table
        BY <1>4, <1>11, <2>1
      <3>2. after[Wired(irq)] = forKey
        BY <1>4, <1>7, <1>13, <2>1, <3>1
      <3> QED
        BY <1>8, <2>1, <3>2
    <2>2. CASE irq = MOUSE_IRQ
      <3>1. m \in DOMAIN table
        BY <1>4, <1>11, <2>2
      <3>2. after[Wired(irq)] = forMouse
        BY <1>4, <1>7, <2>2, <3>1
      <3> QED
        BY <1>9, <2>2, <3>2
    <2> QED
      BY <1>11, <2>1, <2>2
  <1>14. {p \in DOMAIN pins' : ~pins'[p].masked} = {PinOf(irq)' : irq \in DeviceLines'}
    BY <1>3, <1>6, <1>12
  <1>15. ASSUME PinOf(KEYBOARD_IRQ)' # PinOf(MOUSE_IRQ)', NEW irq \in DeviceLines'
         PROVE  LET pin == pins'[PinOf(irq)']
                IN /\ pin.vector = irq
                   /\ pin.destination = IF acpiStage' = "moved" THEN AP_APIC_ID ELSE BSP_APIC_ID
                   /\ (pin.polarity = "LOW") = (Meant(irq)'.polarity = "ACTIVE_LOW")
                   /\ (pin.trigger = "LEVEL") = (Meant(irq)'.trigger = "LEVEL")
    <2>1. k # m /\ pins'[PinOf(irq)'] = after[Wired(irq)] /\ Meant(irq)' = Meant(irq)
      BY <1>1, <1>3, <1>4, <1>6, <1>15
    <2> QED
      BY <1>13, <1>15, <2>1
  <1> QED
    BY <1>6, <1>7, <1>14, <1>15 DEF LinesAsWired

(* Until they are routed the pins are as the BIOS left them.                *)
Unrouted ==
    acpiStage \in Searching \cup {"entries", "parsed"} =>
        pins = [p \in 0 .. MAX_REDIRECTION_ENTRY |-> Unprogrammed]

(* No step before the routing touches a pin.                                *)
LEMMA UnroutedStep ==
    ASSUME TablesInv, Unrouted, [AcpiNext]_acpiVars
    PROVE  Unrouted'
  <1>1. CASE UNCHANGED acpiVars
    BY <1>1 DEF Unrouted, acpiVars
  <1>2. ASSUME NEW p \in RootPointers, firmware_places(p) PROVE Unrouted'
    BY <1>2 DEF Unrouted, firmware_places, Comes, Searching
  <1>3. ASSUME NEW e \in MadtEntries, firmware_lists(e) PROVE Unrouted'
    BY <1>3 DEF Unrouted, firmware_lists, Comes, Searching
  <1>4. CASE find_rsdp
    BY <1>4 DEF Unrouted, find_rsdp, Comes, Searching
  <1>5. CASE find_madt
    BY <1>5 DEF Unrouted, find_madt, Comes, Searching
  <1>6. CASE parse_madt_entry
    BY <1>6 DEF Unrouted, parse_madt_entry, Searching
  <1>7. CASE parse_madt_ends
    BY <1>7 DEF Unrouted, parse_madt_ends, Searching
  <1>8. CASE ioapic_initialize
    BY <1>8 DEF Unrouted, ioapic_initialize, Comes, Searching
  <1>9. CASE route_to_ap
    BY <1>9 DEF Unrouted, route_to_ap, Comes, Searching
  <1> QED
    BY <1>1, <1>2, <1>3, <1>4, <1>5, <1>6, <1>7, <1>8, <1>9 DEF AcpiNext

(* Every step keeps the lines as wired.                                     *)
LEMMA LinesStep ==
    ASSUME TablesInv, WalkInv, Unrouted, LinesAsWired, [AcpiNext]_acpiVars
    PROVE  LinesAsWired'
  <1>1. ASSUME acpiStage' \notin {"routed", "moved"} PROVE LinesAsWired'
    BY <1>1 DEF LinesAsWired
  <1>2. CASE UNCHANGED acpiVars
    <2>1. UNCHANGED <<listed, cut, madt_info, pins, acpiStage>>
      BY <1>2 DEF acpiVars
    <2>2. \A irq : Meant(irq)' = Meant(irq) /\ PinOf(irq)' = PinOf(irq)
      BY <2>1, SameEntries DEF Meant, PinOf
    <2>3. DeviceLines' = DeviceLines
      BY <2>1, <2>2 DEF DeviceLines
    <2> QED
      BY <2>1, <2>2, <2>3 DEF LinesAsWired
  <1>3. ASSUME NEW p \in RootPointers, firmware_places(p) PROVE LinesAsWired'
    BY <1>1, <1>3 DEF firmware_places, Comes
  <1>4. ASSUME NEW e \in MadtEntries, firmware_lists(e) PROVE LinesAsWired'
    BY <1>1, <1>4 DEF firmware_lists, Comes
  <1>5. CASE find_rsdp
    BY <1>1, <1>5 DEF find_rsdp, Comes
  <1>6. CASE find_madt
    BY <1>1, <1>6 DEF find_madt, Comes
  <1>7. CASE parse_madt_entry
    BY <1>1, <1>7 DEF parse_madt_entry
  <1>8. CASE parse_madt_ends
    BY <1>1, <1>8 DEF parse_madt_ends
  <1>9. CASE ioapic_initialize
    <2>1. /\ acpiStage = "parsed" /\ acpiStage' = "routed" /\ UNCHANGED <<listed, cut, madt_info>>
          /\ pins' = RouteBoth(mask_all_pins(pins), BSP_APIC_ID)
      BY <1>9 DEF ioapic_initialize, Comes
    <2>2. \A p \in DOMAIN mask_all_pins(pins) : mask_all_pins(pins)[p].masked
      BY <2>1 DEF mask_all_pins, Unrouted, Unprogrammed
    <2> QED
      BY <2>1, <2>2, RoutingWires
  <1>10. CASE route_to_ap
    <2>1. /\ acpiStage = "routed" /\ acpiStage' = "moved" /\ UNCHANGED <<listed, cut, madt_info>>
          /\ pins' = RouteBoth(pins, AP_APIC_ID)
      BY <1>10 DEF route_to_ap, Comes
    <2>2. \A irq : PinOf(irq) = Wired(irq)
      BY <2>1, OverrideIsMeant DEF PinOf, Wired
    <2>3. \A p \in DOMAIN pins : pins[p].masked \/ p = Wired(KEYBOARD_IRQ) \/ p = Wired(MOUSE_IRQ)
      <3>1. {p \in DOMAIN pins : ~pins[p].masked} = {PinOf(irq) : irq \in DeviceLines}
        BY <2>1 DEF LinesAsWired
      <3> QED
        BY <2>2, <3>1 DEF DeviceLines
    <2> QED
      BY <2>1, <2>3, RoutingWires
  <1> QED
    BY <1>2, <1>3, <1>4, <1>5, <1>6, <1>7, <1>8, <1>9, <1>10 DEF AcpiNext

-----------------------------------------------------------------------------
(* The inductive invariant.                                                 *)
AcpiInv == TablesInv /\ WalkInv /\ Unrouted /\ LinesAsWired

(* It holds at reset.                                                       *)
LEMMA AcpiStart == AcpiInit => AcpiInv
  <1>1. SUFFICES ASSUME AcpiInit PROVE AcpiInv
    OBVIOUS
  <1>2. TablesInv
    BY <1>1 DEF AcpiInit, TablesInv, UsesSoundTables, Searching, Found
  <1>3. WalkInv
    <2>1. <<>> \in Seq(MadtEntries)
      OBVIOUS
    <2> QED
      BY <1>1, <2>1 DEF AcpiInit, WalkInv, Searching, Found
  <1>4. Unrouted /\ LinesAsWired
    BY <1>1 DEF AcpiInit, Unrouted, LinesAsWired
  <1> QED
    BY <1>2, <1>3, <1>4 DEF AcpiInv

(* Every step keeps it.                                                     *)
LEMMA AcpiStep == AcpiInv /\ [AcpiNext]_acpiVars => AcpiInv'
  BY TablesStep, WalkStep, UnroutedStep, LinesStep DEF AcpiInv

(* From it follows what the run checks.                                     *)
LEMMA AcpiFollows == AcpiInv => MachineSound
  BY MachineKnown DEF AcpiInv, TablesInv, MachineSound

(* However much of the firmware's tables is broken, in whatever place they  *)
(* are found: the kernel uses sound tables only and finds the MADT by either *)
(* root, knows the processors, IOAPICs and overrides listed before the first *)
(* broken entry, and takes keyboard and mouse from the pins they are wired to. *)
THEOREM MachineIsSound == AcpiSpec => []MachineSound
  <1> QED
    BY AcpiStart, AcpiStep, AcpiFollows, PTL DEF AcpiSpec
=============================================================================
