--------------------------- MODULE SmpBootProofs ---------------------------
(***************************************************************************)
(* Start-up and stop of the application processors, for any number of them. *)
(***************************************************************************)
EXTENDS SmpBoot, WellFoundedInduction, TLAPS

(* The lowest of some CPUs exists.                                          *)
Less == {pair \in Nat \X Nat : pair[1] < pair[2]}

(* The well-foundedness of the naturals, as a lowest element.               *)
LEMMA LowestExists ==
    ASSUME NEW T \in SUBSET Nat, T # {}
    PROVE  \E lowest \in T : \A n \in T : lowest <= n
  <1>1. IsWellFoundedOn(Less, Nat)
    BY NatLessThanWellFounded DEF OpToRel, Less
  <1>2. PICK lowest \in T : \A n \in T : ~(<<n, lowest>> \in Less)
    BY <1>1, WFMin
  <1>3. \A n \in T : ~(n < lowest)
    BY <1>2 DEF Less
  <1> QED
    BY <1>3

(* The index spaces.                                                        *)
LEMMA Indices ==
    /\ 0 \in CPUs /\ 0 \notin APs /\ APs \subseteq CPUs /\ CPUs \subseteq Nat /\ APS \in APs
    /\ \A c \in CPUs : c = 0 \/ c \in APs
    /\ \A c, d \in CPUs : ApicId(c) = ApicId(d) => c = d
    /\ ApicId(0) = 0 /\ \A c \in CPUs : ApicId(c) \in Int /\ ApicId(c) # NoSlot
  BY SmpAssumption DEF CPUs, APs, ApicId, NoSlot

(* Nothing is started, sent or routed yet.                                  *)
LEMMA InitSound == SmpInit => BootSound
  <1> SUFFICES ASSUME SmpInit PROVE BootSound
    OBVIOUS
  <1> USE Indices DEF SmpInit, NoSlot
  <1>1. SmpTypeOK /\ OwnSlots /\ RoutedToRunningCpu
    BY SmpAssumption DEF SmpTypeOK, OwnSlots, RoutedToRunningCpu
  <1>2. SmpState
    BY DEF SmpState, FillsPage, BeforeEntry, Asleep
  <1>3. OneAtATime
    BY SmpAssumption DEF OneAtATime, FillsPage, LeavesPage, BeforeEntry, Asleep, APs
  <1>4. PageIsForNext /\ StopSentAfterRequest
    BY DEF PageIsForNext, StopSentAfterRequest
  <1> QED
    BY <1>1, <1>2, <1>3, <1>4 DEF BootSound

(* A step of the BSP that leaves the other CPUs where they are.             *)
LEMMA BspMoves ==
    ASSUME SmpState, NEW step, Goto(0, step)
    PROVE  /\ DOMAIN pc' = CPUs /\ pc'[0] = step
           /\ \A p \in APs : pc'[p] = pc[p]
           /\ \A c \in CPUs : pc'[c] \in {step, pc[c]}
  BY Indices DEF SmpState, Goto

(* All CPUs are online; the panic hook is set.                              *)
LEMMA InitializeApsSound == BootSound /\ initialize_aps => BootSound'
  <1> SUFFICES ASSUME BootSound, initialize_aps PROVE BootSound'
    OBVIOUS
  <1> USE Indices DEF BootSound
  <1>1. /\ pc[0] = "start" /\ Goto(0, "prepare") /\ online' = {0}
        /\ UNCHANGED <<next, page, taken, lapic_id, destination, pending, stop_requested, in_nmi>>
    BY DEF initialize_aps, At
  <1>2. pc'[0] = "prepare" /\ \A p \in APs : pc'[p] = pc[p]
    BY <1>1, BspMoves
  <1>3. SmpTypeOK' /\ OwnSlots' /\ RoutedToRunningCpu'
    BY <1>1 DEF SmpTypeOK, OwnSlots, RoutedToRunningCpu, SmpState
  <1>4. SmpState'
    BY <1>1, <1>2 DEF SmpState, Goto, FillsPage
  <1>5. OneAtATime'
    BY <1>1, <1>2 DEF OneAtATime, FillsPage, LeavesPage
  <1>6. PageIsForNext' /\ StopSentAfterRequest'
    BY <1>1, <1>2 DEF PageIsForNext, StopSentAfterRequest, Asleep
  <1> QED
    BY <1>3, <1>4, <1>5, <1>6

(* One slot of the page is filled in for the next AP, which is still off.   *)
Pages == [code : BOOLEAN, stack : Int, index : Int, core : Int, crumbs : SUBSET Stages]

(* What has to be shown of a step that fills the page for the next AP.      *)
LEMMA SlotSound ==
    ASSUME BootSound, NEW step \in FillsPage \ {"start"}, NEW after \in FillsPage \ {"start"},
           NEW newPage \in Pages, Slot(step, after, newPage),
           "ENTRY64" \in newPage.crumbs =>
               after \in {"prepare", "clear"}
               \/ ("ENTRY64" \in page.crumbs /\ step \notin {"prepare", "clear"}),
           after \in {"clear", "new_stack", "set_index", "set_core", "init"} => newPage.code = TRUE,
           after \in {"set_index", "set_core", "init"} => newPage.stack = next,
           after \in {"set_core", "init"} => newPage.index = next,
           after = "init" => newPage.core = next
    PROVE  BootSound'
  <1> USE Indices DEF BootSound
  <1>1. /\ pc[0] = step /\ Goto(0, after) /\ page' = newPage
        /\ UNCHANGED <<next, taken, online, lapic_id, destination, panicVars>>
    BY DEF Slot, At
  <1>2. pc'[0] = after /\ \A p \in APs : pc'[p] = pc[p]
    BY <1>1, BspMoves
  <1>3. SmpTypeOK' /\ OwnSlots' /\ RoutedToRunningCpu'
    BY <1>1 DEF Pages, SmpTypeOK, OwnSlots, RoutedToRunningCpu, panicVars
  <1>4. SmpState'
    BY <1>1, <1>2 DEF Pages, SmpState, Goto, panicVars
  <1>5. OneAtATime'
    BY <1>1, <1>2 DEF OneAtATime, FillsPage
  <1>6. PageIsForNext'
    BY <1>1, <1>2 DEF PageIsForNext, OneAtATime
  <1>7. StopSentAfterRequest'
    BY <1>1, <1>2 DEF StopSentAfterRequest, panicVars, FillsPage, Asleep
  <1> QED
    BY <1>3, <1>4, <1>5, <1>6, <1>7

(* Each of the steps that fill the page.                                    *)
LEMMA FillSlotSound ==
    ASSUME BootSound,
           \/ prepare_trampoline \/ set_all_breadcrumbs_to_zero \/ set_up_a_new_stack
           \/ set_cpu_index \/ copy_pointer_to_core_info
    PROVE  BootSound'
  <1>1. page \in Pages /\ next \in Int /\ PageIsForNext
    BY DEF BootSound, SmpState, SmpTypeOK, Pages
  <1>2. CASE prepare_trampoline
    <2> DEFINE filled == [page EXCEPT !.code = TRUE]
    <2>1. filled \in Pages /\ filled.code = TRUE /\ filled.crumbs = page.crumbs
      BY <1>1 DEF Pages
    <2>2. Slot("prepare", "clear", filled)
      BY <1>2 DEF prepare_trampoline
    <2>3. "prepare" \in FillsPage \ {"start"} /\ "clear" \in FillsPage \ {"start"}
      BY DEF FillsPage
    <2> HIDE DEF filled
    <2> QED
      BY <2>1, <2>2, <2>3, SlotSound
  <1>3. CASE set_all_breadcrumbs_to_zero
    <2>1. [page EXCEPT !.crumbs = {}] \in Pages
      BY <1>1 DEF Pages
    <2> QED
      BY <1>1, <1>3, <2>1, SlotSound
         DEF set_all_breadcrumbs_to_zero, FillsPage, Pages, PageIsForNext, Slot, At
  <1>4. CASE set_up_a_new_stack
    <2> DEFINE filled == [page EXCEPT !.stack = next]
    <2>1. /\ filled \in Pages /\ filled.code = page.code /\ filled.crumbs = page.crumbs
          /\ filled.stack = next
      BY <1>1 DEF Pages
    <2>2. Slot("new_stack", "set_index", filled) /\ pc[0] = "new_stack"
      BY <1>4 DEF set_up_a_new_stack, Slot, At
    <2>3. "new_stack" \in FillsPage \ {"start"} /\ "set_index" \in FillsPage \ {"start"}
      BY DEF FillsPage
    <2>4. /\ page.code = TRUE
          /\ pc[0] \in {"set_index", "set_core", "init"} => page.stack = next
          /\ pc[0] \in {"set_core", "init"} => page.index = next
      BY <1>1, <2>2 DEF PageIsForNext, Pages
    <2> HIDE DEF filled
    <2> QED
      BY <2>1, <2>2, <2>3, <2>4, SlotSound
  <1>5. CASE set_cpu_index
    <2> DEFINE filled == [page EXCEPT !.index = next]
    <2>1. /\ filled \in Pages /\ filled.code = page.code /\ filled.crumbs = page.crumbs
          /\ filled.stack = page.stack /\ filled.index = next
      BY <1>1 DEF Pages
    <2>2. Slot("set_index", "set_core", filled) /\ pc[0] = "set_index"
      BY <1>5 DEF set_cpu_index, Slot, At
    <2>3. "set_index" \in FillsPage \ {"start"} /\ "set_core" \in FillsPage \ {"start"}
      BY DEF FillsPage
    <2>4. /\ page.code = TRUE
          /\ pc[0] \in {"set_index", "set_core", "init"} => page.stack = next
          /\ pc[0] \in {"set_core", "init"} => page.index = next
      BY <1>1, <2>2 DEF PageIsForNext, Pages
    <2> HIDE DEF filled
    <2> QED
      BY <2>1, <2>2, <2>3, <2>4, SlotSound
  <1>6. CASE copy_pointer_to_core_info
    <2> DEFINE filled == [page EXCEPT !.core = next]
    <2>1. /\ filled \in Pages /\ filled.code = page.code /\ filled.crumbs = page.crumbs
          /\ filled.stack = page.stack /\ filled.index = page.index /\ filled.core = next
      BY <1>1 DEF Pages
    <2>2. Slot("set_core", "init", filled) /\ pc[0] = "set_core"
      BY <1>6 DEF copy_pointer_to_core_info, Slot, At
    <2>3. "set_core" \in FillsPage \ {"start"} /\ "init" \in FillsPage \ {"start"}
      BY DEF FillsPage
    <2>4. /\ page.code = TRUE
          /\ pc[0] \in {"set_index", "set_core", "init"} => page.stack = next
          /\ pc[0] \in {"set_core", "init"} => page.index = next
      BY <1>1, <2>2 DEF PageIsForNext, Pages
    <2> HIDE DEF filled
    <2> QED
      BY <2>1, <2>2, <2>3, <2>4, SlotSound
  <1> QED
    BY <1>2, <1>3, <1>4, <1>5, <1>6

(* INIT: the AP that the page is filled in for waits for its start-up IPI.  *)
LEMMA SendInitSound ==
    ASSUME BootSound, send_init
    PROVE  BootSound'
  <1> USE Indices DEF BootSound
  <1>1. /\ pc[0] = "init" /\ pc' = [pc EXCEPT ![0] = "sipi1", ![next] = "wait_sipi"]
        /\ UNCHANGED <<bootVars, panicVars>>
    BY DEF send_init, At
  <1>2. next \in APs /\ pc[next] = "off" /\ next # 0
    BY <1>1, SmpAssumption DEF OneAtATime, FillsPage, SmpTypeOK, APs
  <1>3. /\ pc'[0] = "sipi1" /\ pc'[next] = "wait_sipi" /\ \A p \in APs : p # next => pc'[p] = pc[p]
        /\ pc' \in [CPUs -> FillsPage \cup LeavesPage \cup {"route", "run"} \cup BeforeEntry \cup NoApic
                        \cup {"sti", "loop"} \cup PanicSteps \cup Stopped]
    BY <1>1, <1>2 DEF SmpState, LeavesPage, BeforeEntry, Asleep
  <1>4. SmpTypeOK' /\ OwnSlots' /\ RoutedToRunningCpu'
    BY <1>1 DEF SmpTypeOK, OwnSlots, RoutedToRunningCpu, bootVars, panicVars
  <1>5. SmpState'
    BY <1>1, <1>3 DEF SmpState, bootVars, panicVars
  <1>6. OneAtATime'
    <2>1. "ENTRY64" \notin page.crumbs
      BY <1>1, <1>2 DEF OneAtATime, FillsPage, BeforeEntry, Asleep
    <2>2. next <= APS
      BY <1>1 DEF OneAtATime, FillsPage
    <2> QED
      BY <1>1, <1>2, <1>3, <2>1, <2>2
         DEF OneAtATime, FillsPage, LeavesPage, BeforeEntry, Asleep, bootVars, SmpTypeOK
  <1>7. PageIsForNext'
    BY <1>1, <1>2, <1>3 DEF PageIsForNext, bootVars
  <1>8. StopSentAfterRequest'
    BY <1>1, <1>2, <1>3 DEF StopSentAfterRequest, Asleep, panicVars
  <1> QED
    BY <1>4, <1>5, <1>6, <1>7, <1>8

(* SIPI: an AP that waits for it starts; the second one changes nothing.    *)
LEMMA SendSipiSound ==
    ASSUME BootSound, NEW step \in {"sipi1", "sipi2"}, NEW after \in {"sipi2", "wait"},
           send_sipi(step, after)
    PROVE  BootSound'
  <1> USE Indices DEF BootSound
  <1> DEFINE answer == IF pc[next] = "wait_sipi" THEN "started" ELSE pc[next]
  <1>1. /\ pc[0] = step /\ UNCHANGED <<bootVars, panicVars>>
    BY DEF send_sipi, At
  <1>2. next \in APs /\ next # 0
    BY <1>1, SmpAssumption DEF OneAtATime, LeavesPage, SmpTypeOK, APs
  <1>3. pc' = [pc EXCEPT ![0] = after, ![next] = answer]
    BY <1>2 DEF send_sipi, SmpState
  <1>4. /\ pc'[0] = after /\ pc'[next] = answer /\ \A p \in APs : p # next => pc'[p] = pc[p]
        /\ pc' \in [CPUs -> FillsPage \cup LeavesPage \cup {"route", "run"} \cup BeforeEntry \cup NoApic
                        \cup {"sti", "loop"} \cup PanicSteps \cup Stopped]
    BY <1>2, <1>3 DEF SmpState, LeavesPage, BeforeEntry, Asleep
  <1>5. /\ answer \in BeforeEntry <=> pc[next] \in BeforeEntry
        /\ answer = "off" <=> pc[next] = "off"
        /\ pc[next] \notin Asleep \cup {"started"} => answer = pc[next]
    BY DEF BeforeEntry, Asleep
  <1> HIDE DEF answer
  <1>6. SmpTypeOK' /\ OwnSlots' /\ RoutedToRunningCpu'
    BY <1>1 DEF SmpTypeOK, OwnSlots, RoutedToRunningCpu, bootVars, panicVars
  <1>7. SmpState'
    BY <1>1, <1>4 DEF SmpState, bootVars, panicVars
  <1>8. OneAtATime'
    BY <1>1, <1>2, <1>4, <1>5 DEF OneAtATime, FillsPage, LeavesPage, bootVars
  <1>9. PageIsForNext'
    BY <1>1, <1>2, <1>4, <1>5 DEF PageIsForNext, bootVars
  <1>10. StopSentAfterRequest'
    BY <1>1, <1>2, <1>4, <1>5 DEF StopSentAfterRequest, Asleep, panicVars
  <1> QED
    BY <1>6, <1>7, <1>8, <1>9, <1>10

(* wait_for_ap and the assertion of the breadcrumbs: only an AP that has    *)
(* left the trampoline lets the BSP go on to the next one.                  *)
LEMMA WaitForApSound ==
    ASSUME BootSound, wait_for_ap
    PROVE  BootSound'
  <1> USE Indices DEF BootSound
  <1>1. /\ pc[0] = "wait" /\ Goto(0, "check") /\ UNCHANGED <<bootVars, panicVars>>
    BY DEF wait_for_ap, WaitForAp, At
  <1>2. pc'[0] = "check" /\ \A p \in APs : pc'[p] = pc[p]
    BY <1>1, BspMoves
  <1>3. SmpTypeOK' /\ OwnSlots' /\ RoutedToRunningCpu'
    BY <1>1 DEF SmpTypeOK, OwnSlots, RoutedToRunningCpu, bootVars, panicVars
  <1>4. SmpState'
    BY <1>1, <1>2 DEF SmpState, Goto, LeavesPage, bootVars, panicVars
  <1>5. OneAtATime'
    BY <1>1, <1>2 DEF OneAtATime, FillsPage, LeavesPage, bootVars
  <1>6. PageIsForNext' /\ StopSentAfterRequest'
    BY <1>1, <1>2 DEF PageIsForNext, StopSentAfterRequest, Asleep, bootVars, panicVars
  <1> QED
    BY <1>3, <1>4, <1>5, <1>6

(* The BSP goes on when every mark is there, and panics when one is not.    *)
LEMMA AssertBreadcrumbSound ==
    ASSUME BootSound, assert_breadcrumb_okay
    PROVE  BootSound'
  <1> USE Indices DEF BootSound
  <1>1. /\ pc[0] = "check"
        /\ UNCHANGED <<page, taken, online, lapic_id, destination, pending, stop_requested, in_nmi>>
        /\ \/ BreadcrumbsOkay /\ Goto(0, IF next = APS THEN "route" ELSE "clear") /\ next' = next + 1
           \/ Goto(0, "panic_hook") /\ next' = next
    BY DEF assert_breadcrumb_okay, At
  <1>2. /\ pc'[0] \in {"route", "clear", "panic_hook"} /\ \A p \in APs : pc'[p] = pc[p]
        /\ pc' \in [CPUs -> FillsPage \cup LeavesPage \cup {"route", "run"} \cup BeforeEntry \cup NoApic
                        \cup {"sti", "loop"} \cup PanicSteps \cup Stopped]
    BY <1>1, BspMoves DEF SmpState, Goto, FillsPage, PanicSteps
  <1>3. next \in APs
    BY <1>1, SmpAssumption DEF OneAtATime, LeavesPage, SmpTypeOK, APs
  <1>4. next' \in 1 .. APS + 1
    BY <1>1, <1>3, SmpAssumption DEF APs
  <1>5. SmpTypeOK' /\ OwnSlots' /\ RoutedToRunningCpu'
    BY <1>1, <1>4 DEF SmpTypeOK, OwnSlots, RoutedToRunningCpu
  <1>6. SmpState'
    BY <1>1, <1>2 DEF SmpState
  <1>7. CASE BreadcrumbsOkay /\ Goto(0, IF next = APS THEN "route" ELSE "clear") /\ next' = next + 1
    <2>1. pc[next] \notin BeforeEntry
      BY <1>1, <1>3, <1>7 DEF OneAtATime, BreadcrumbsOkay, Stages, LeavesPage
    <2>2. pc'[0] = IF next = APS THEN "route" ELSE "clear"
      BY <1>7, BspMoves
    <2>3. OneAtATime'
      <3>1. pc'[0] \in FillsPage \cup LeavesPage => next' <= APS
        BY <1>3, <1>7, <2>2, SmpAssumption DEF APs, FillsPage, LeavesPage
      <3>2. ASSUME NEW p \in APs PROVE p < next' => p = next \/ p < next
        BY <1>3, <1>7 DEF APs
      <3>3. ASSUME NEW p \in APs PROVE p >= next' => p > next
        BY <1>3, <1>7 DEF APs
      <3>4. ASSUME NEW p \in APs
            PROVE  /\ p > next' \/ p = next' => pc'[p] = "off"
                   /\ p < next' => pc'[p] \notin BeforeEntry
                   /\ pc'[p] \notin BeforeEntry => taken'[p].index = p
        BY <1>1, <1>2, <1>4, <2>1, <3>2, <3>3 DEF OneAtATime, APs
      <3>5. pc'[0] \notin (FillsPage \cup LeavesPage) \ {"start", "prepare", "clear"}
        BY <2>2 DEF FillsPage, LeavesPage
      <3> QED
        BY <3>1, <3>4, <3>5 DEF OneAtATime
    <2>4. PageIsForNext'
      <3>1. page.code
        BY <1>1, <1>3, <2>1 DEF PageIsForNext, BeforeEntry, Asleep
      <3>2. \A p \in APs : p = next' => pc'[p] = "off"
        BY <1>2, <1>3, <1>7 DEF OneAtATime, APs
      <3> QED
        BY <1>1, <2>2, <3>1, <3>2 DEF PageIsForNext
    <2>5. StopSentAfterRequest'
      BY <1>1, <1>2 DEF StopSentAfterRequest, Asleep
    <2> QED
      BY <1>5, <1>6, <2>3, <2>4, <2>5
  <1>8. CASE Goto(0, "panic_hook") /\ next' = next
    <2>1. pc'[0] = "panic_hook"
      BY <1>8, BspMoves
    <2>2. OneAtATime' /\ PageIsForNext'
      BY <1>1, <1>2, <1>8, <2>1 DEF OneAtATime, PageIsForNext, FillsPage, LeavesPage
    <2>3. StopSentAfterRequest'
      BY <1>1, <1>2 DEF StopSentAfterRequest, Asleep
    <2> QED
      BY <1>5, <1>6, <2>2, <2>3
  <1> QED
    BY <1>1, <1>7, <1>8

(* Device IRQs go to the first AP that is online: its APIC id, or zero      *)
(* while it has not filled it in, which is the id of the BSP.               *)
LEMMA RouteSound ==
    ASSUME BootSound, route_device_irqs_to_application_processor
    PROVE  BootSound'
  <1> USE Indices DEF BootSound
  <1> DEFINE running == online \cap APs
             first == CHOOSE c \in running : \A d \in running : c <= d
  <1>1. /\ pc[0] = "route" /\ Goto(0, "run")
        /\ destination' = IF running = {} THEN destination ELSE lapic_id[first]
        /\ UNCHANGED <<next, page, taken, online, lapic_id, panicVars>>
    BY DEF route_device_irqs_to_application_processor, At, RouteTo
  <1>2. pc'[0] = "run" /\ \A p \in APs : pc'[p] = pc[p]
    BY <1>1, BspMoves
  <1>3. running # {} => first \in running
    <2>1. running \in SUBSET Nat
      OBVIOUS
    <2> QED
      BY <2>1, LowestExists
  <1>4. 0 \in online
    BY <1>1 DEF SmpState
  <1> HIDE DEF running, first
  <1>5. destination' = destination \/ \E c \in online : destination' = ApicId(c) /\ c \in CPUs
    BY <1>1, <1>3, <1>4 DEF SmpState, running
  <1>6. SmpTypeOK' /\ OwnSlots' /\ RoutedToRunningCpu'
    BY <1>1, <1>5 DEF SmpTypeOK, OwnSlots, RoutedToRunningCpu, panicVars
  <1>7. SmpState'
    BY <1>1, <1>2 DEF SmpState, Goto, panicVars
  <1>8. OneAtATime' /\ PageIsForNext' /\ StopSentAfterRequest'
    BY <1>1, <1>2
       DEF OneAtATime, PageIsForNext, StopSentAfterRequest, FillsPage, LeavesPage, Asleep, panicVars
  <1> QED
    BY <1>6, <1>7, <1>8

-----------------------------------------------------------------------------
Steps == FillsPage \cup LeavesPage \cup {"route", "run"} \cup BeforeEntry \cup NoApic
             \cup {"sti", "loop"} \cup PanicSteps \cup Stopped

(* A step of CPU c leaves the others where they are.                        *)
LEMMA CpuMoves ==
    ASSUME SmpState, NEW c \in CPUs, NEW step \in Steps, Goto(c, step)
    PROVE  /\ pc' \in [CPUs -> Steps] /\ pc'[c] = step
           /\ \A d \in CPUs : d # c => pc'[d] = pc[d]
  BY DEF SmpState, Goto, Steps

(* An AP in the trampoline is the one that the BSP has just started, and    *)
(* the page it runs from is its own.                                        *)
LEMMA InTrampoline ==
    ASSUME OneAtATime, PageIsForNext, SmpTypeOK, NEW p \in APs,
           pc[p] \in BeforeEntry, pc[p] # "off"
    PROVE  /\ p = next /\ pc[0] \notin FillsPage
           /\ page.code /\ page.stack = p /\ page.index = p /\ page.core = p
  <1>1. ~(p > next) /\ ~(p < next) /\ ~(p = next /\ pc[0] \in FillsPage)
    BY DEF OneAtATime
  <1>2. p = next
    BY <1>1, Indices DEF SmpTypeOK
  <1> QED
    BY <1>1, <1>2 DEF PageIsForNext

(* An AP begins in the page that was filled for it.                         *)
LEMMA TrampolineStartSound ==
    ASSUME BootSound, NEW p \in APs, smp_trampoline_start(p)
    PROVE  BootSound'
  <1> USE Indices DEF BootSound
  <1>1. pc[p] = "started" /\ Goto(p, "entry")
          /\ UNCHANGED <<bootVars, pending, stop_requested, in_nmi>>
    BY DEF smp_trampoline_start, At
  <1>2. p = next /\ pc[0] \notin FillsPage
          /\ page.code /\ page.stack = p /\ page.index = p /\ page.core = p
    BY <1>1, InTrampoline DEF BeforeEntry
  <1>3. pc' \in [CPUs -> Steps] /\ pc'[p] = "entry" /\ \A d \in CPUs : d # p => pc'[d] = pc[d]
    BY <1>1, CpuMoves DEF Steps, BeforeEntry
  <1>4. SmpTypeOK' /\ OwnSlots' /\ RoutedToRunningCpu' /\ SmpState'
    BY <1>1, <1>3 DEF SmpTypeOK, OwnSlots, RoutedToRunningCpu, SmpState, bootVars, Steps
  <1>5. OneAtATime'
    BY <1>1, <1>2, <1>3 DEF OneAtATime, BeforeEntry, bootVars
  <1>6. PageIsForNext' /\ StopSentAfterRequest'
    BY <1>1, <1>2, <1>3 DEF PageIsForNext, StopSentAfterRequest, Asleep, bootVars
  <1> QED
    BY <1>4, <1>5, <1>6

(* Each crumb is left after what it stands for has been read.               *)
LEMMA TrampolineSound ==
    ASSUME BootSound, NEW p \in APs, smp_trampoline_pm32(p) \/ smp_trampoline_lm64(p)
    PROVE  BootSound'
  <1> USE Indices DEF BootSound
  <1>1. PICK step \in {"entry", "stack", "gs", "index"}, after \in {"stack", "gs", "index", "online"},
             crumb \in Stages, slot \in {"none", "stack", "core", "index"} :
             /\ trampoline(p, step, after, crumb, slot)
             /\ after = "online" <=> crumb = "ENTRY64"
             /\ after = "online" => slot = "index"
    BY DEF smp_trampoline_pm32, smp_trampoline_lm64, Stages
  <1>2. /\ pc[p] = step /\ Goto(p, after)
        /\ page' = [page EXCEPT !.crumbs = page.crumbs \cup {crumb}]
        /\ taken' = IF slot = "none" THEN taken ELSE [taken EXCEPT ![p][slot] = page[slot]]
        /\ UNCHANGED <<next, online, lapic_id, destination, panicVars>>
    BY <1>1 DEF trampoline, At, SmpState
  <1>3. p = next /\ pc[0] \notin FillsPage
          /\ page.code /\ page.stack = p /\ page.index = p /\ page.core = p
    BY <1>2, InTrampoline DEF BeforeEntry
  <1>4. pc' \in [CPUs -> Steps] /\ pc'[p] = after /\ \A d \in CPUs : d # p => pc'[d] = pc[d]
    BY <1>2, CpuMoves DEF Steps, BeforeEntry, NoApic, NoIdt
  <1>5. /\ page' \in [code : BOOLEAN, stack : Int, index : Int, core : Int, crumbs : SUBSET Stages]
        /\ page'.code = page.code /\ page'.stack = p /\ page'.index = p /\ page'.core = p
        /\ page'.crumbs = page.crumbs \cup {crumb}
    BY <1>2, <1>3 DEF SmpState
  <1>6. /\ taken' \in [APs -> [stack : Int, index : Int, core : Int]]
        /\ \A q \in APs : q # p => taken'[q] = taken[q]
        /\ \A s \in {"stack", "core", "index"} :
              taken'[p][s] = taken[p][s] \/ taken'[p][s] = p
        /\ slot = "index" => taken'[p].index = p
    <2>1. CASE slot = "none"
      BY <1>2, <2>1 DEF SmpState
    <2>2. CASE slot = "stack"
      BY <1>2, <1>3, <2>2 DEF SmpState
    <2>3. CASE slot = "core"
      BY <1>2, <1>3, <2>3 DEF SmpState
    <2>4. CASE slot = "index"
      BY <1>2, <1>3, <2>4 DEF SmpState
    <2> QED
      BY <2>1, <2>2, <2>3, <2>4
  <1>7. SmpTypeOK' /\ OwnSlots' /\ RoutedToRunningCpu'
    <2>1. SmpTypeOK' /\ RoutedToRunningCpu'
      BY <1>2, <1>5 DEF SmpTypeOK, RoutedToRunningCpu, panicVars
    <2>2. OwnSlots'
      BY <1>6 DEF OwnSlots
    <2> QED
      BY <2>1, <2>2
  <1>8. SmpState'
    BY <1>2, <1>4, <1>5, <1>6 DEF SmpState, Steps, panicVars
  <1>9. OneAtATime'
    <2>1. ASSUME NEW q \in APs
          PROVE  /\ q > next \/ (q = next /\ pc[0] \in FillsPage) => pc'[q] = "off"
                 /\ q < next => pc'[q] \notin BeforeEntry
                 /\ pc'[q] \notin BeforeEntry => taken'[q].index = q
      <3>1. CASE q # p
        BY <1>4, <1>6, <3>1 DEF OneAtATime
      <3>2. CASE q = p
        <4>1. after # "online" => after \in BeforeEntry
          BY DEF BeforeEntry
        <4>2. ~(p > next) /\ ~(p < next)
          BY <1>3
        <4> QED
          BY <1>1, <1>3, <1>4, <1>6, <3>2, <4>1, <4>2
      <3> QED
        BY <3>1, <3>2
    <2>2. pc[0] \in (FillsPage \cup LeavesPage) \ {"start", "prepare", "clear"}
            /\ "ENTRY64" \in page'.crumbs => pc'[p] \notin BeforeEntry
      BY <1>1, <1>2, <1>3, <1>4, <1>5 DEF OneAtATime, BeforeEntry, Asleep
    <2> QED
      BY <1>2, <1>3, <1>4, <2>1, <2>2 DEF OneAtATime
  <1>10. PageIsForNext'
    BY <1>2, <1>3, <1>4, <1>5 DEF PageIsForNext, FillsPage
  <1>11. StopSentAfterRequest'
    BY <1>2, <1>4 DEF StopSentAfterRequest, Asleep, panicVars
  <1> QED
    BY <1>7, <1>8, <1>9, <1>10, <1>11

-----------------------------------------------------------------------------
(* From its entry point on a CPU reads nothing from the page, and the BSP,  *)
(* once it is out of its loop, does not write to it.                        *)
Running == Steps \ (BeforeEntry \cup FillsPage \cup LeavesPage)

(* A CPU that runs beyond the page moves on.                                *)
LEMMA RunningMoves ==
    ASSUME BootSound, NEW c \in CPUs, c = 0 \/ pc[c] \notin BeforeEntry,
           NEW step \in Running, Goto(c, step), UNCHANGED <<next, page, taken>>
    PROVE  OneAtATime' /\ PageIsForNext'
  <1> USE Indices DEF BootSound
  <1>1. pc' \in [CPUs -> Steps] /\ pc'[c] = step /\ \A d \in CPUs : d # c => pc'[d] = pc[d]
    BY CpuMoves DEF Running
  <1>2. step \notin BeforeEntry /\ step \notin FillsPage /\ step \notin LeavesPage /\ step # "off"
    BY DEF Running, BeforeEntry, Asleep
  <1>3. step \notin {"clear", "new_stack", "set_index", "set_core", "init"}
    BY <1>2 DEF FillsPage
  <1>4. CASE c = 0
    <2>1. OneAtATime'
      BY <1>1, <1>2, <1>4 DEF OneAtATime
    <2>2. PageIsForNext'
      BY <1>1, <1>3, <1>4 DEF PageIsForNext
    <2> QED
      BY <2>1, <2>2
  <1>5. CASE c \in APs
    <2>1. pc[c] \notin BeforeEntry /\ pc[c] # "off"
      BY <1>5 DEF BeforeEntry, Asleep
    <2>2. OneAtATime'
      BY <1>1, <1>2, <1>5, <2>1 DEF OneAtATime
    <2>3. PageIsForNext'
      BY <1>1, <1>5, <2>1 DEF PageIsForNext
    <2> QED
      BY <2>2, <2>3
  <1> QED
    BY <1>4, <1>5

(* Where each step of ap_main, of a panic and of a stop leads.              *)
LEMMA RunningSteps ==
    /\ {"tables", "core", "lapic", "sti", "loop", "frozen", "halted"} \subseteq Running
    /\ PanicSteps \subseteq Running
    /\ "start" \notin Running /\ Running \cap (Asleep \cup {"started"}) = {}
    /\ Running \subseteq Steps
  BY DEF Running, Steps, FillsPage, LeavesPage, BeforeEntry, Asleep, NoApic, NoIdt, PanicSteps, Stopped

(* An AP's own initialization, under the index it was given.                *)
LEMMA ApMainSound ==
    ASSUME BootSound, NEW p \in APs, ap_main(p)
    PROVE  BootSound'
  <1> USE Indices DEF BootSound
  <1>1. /\ pc[p] \in {"online", "tables", "core", "lapic", "sti", "loop"}
        /\ \E step \in {"tables", "core", "lapic", "sti", "loop", "frozen"} : Goto(p, step)
        /\ online' \in {online, online \cup {taken[p].index}}
        /\ lapic_id' \in {lapic_id, [lapic_id EXCEPT ![taken[p].index] = ApicId(p)]}
        /\ UNCHANGED <<next, page, taken, destination, panicVars>>
    BY DEF ap_main, At
  <1>2. pc[p] \notin BeforeEntry
    BY <1>1 DEF BeforeEntry, Asleep
  <1>3. taken[p].index = p
    BY <1>2 DEF OneAtATime
  <1>4. PICK step \in Running : Goto(p, step)
    BY <1>1, RunningSteps
  <1>5. pc' \in [CPUs -> Steps] /\ pc'[p] = step /\ \A d \in CPUs : d # p => pc'[d] = pc[d]
    BY <1>4, CpuMoves, RunningSteps
  <1>6. OneAtATime' /\ PageIsForNext'
    BY <1>1, <1>2, <1>4, RunningMoves
  <1>7. SmpTypeOK' /\ OwnSlots' /\ RoutedToRunningCpu'
    BY <1>1, <1>3 DEF SmpTypeOK, OwnSlots, RoutedToRunningCpu, panicVars
  <1>8. SmpState'
    <2>1. lapic_id' \in [CPUs -> Int] /\ \A c \in CPUs : lapic_id'[c] \in {0, ApicId(c)}
      BY <1>1, <1>3 DEF SmpState
    <2> QED
      BY <1>1, <1>5, <2>1 DEF SmpState, Steps, panicVars
  <1>9. StopSentAfterRequest'
    BY <1>1, <1>5, RunningSteps DEF StopSentAfterRequest, panicVars
  <1> QED
    BY <1>6, <1>7, <1>8, <1>9

(* A CPU that runs goes to a step of a panic or of a stop; it may take a    *)
(* stop interrupt, and nothing of start-up changes.                         *)
LEMMA RunningCpuSound ==
    ASSUME BootSound, NEW c \in CPUs, pc[c] \notin BeforeEntry, ~(c = 0 /\ pc[c] = "start"),
           NEW step \in Running, Goto(c, step),
           UNCHANGED bootVars, UNCHANGED stop_requested,
           in_nmi' \subseteq CPUs,
           pending' \in [CPUs -> SUBSET {"STOP", "NMI"}],
           \A d \in CPUs : pending'[d] \subseteq pending[d]
    PROVE  BootSound'
  <1> USE Indices DEF BootSound
  <1>1. pc' \in [CPUs -> Steps] /\ pc'[c] = step /\ \A d \in CPUs : d # c => pc'[d] = pc[d]
    BY CpuMoves, RunningSteps
  <1>2. OneAtATime' /\ PageIsForNext'
    BY RunningMoves DEF bootVars
  <1>6. SmpTypeOK' /\ OwnSlots' /\ RoutedToRunningCpu'
    BY DEF SmpTypeOK, OwnSlots, RoutedToRunningCpu, bootVars
  <1>7. SmpState'
    <2>1. IF pc'[0] = "start" THEN destination = NoSlot /\ next = 1 /\ pending'[0] = {} ELSE 0 \in online
      BY <1>1, RunningSteps DEF SmpState, bootVars
    <2> QED
      BY <1>1, <2>1 DEF SmpState, Steps, bootVars
  <1>8. StopSentAfterRequest'
    BY <1>1, RunningSteps DEF StopSentAfterRequest
  <1> QED
    BY <1>2, <1>6, <1>7, <1>8

(* A CPU whose assertion fails begins to panic.                             *)
LEMMA FailAssertionSound ==
    ASSUME BootSound, NEW c \in CPUs, fail_assertion(c)
    PROVE  BootSound'
  <1>1. /\ pc[c] \notin BeforeEntry /\ pc[c] # "start" /\ Goto(c, "panic_hook")
        /\ UNCHANGED <<bootVars, pending, stop_requested, in_nmi>>
    BY DEF fail_assertion, BeforeEntry, NoIdt
  <1>2. pending' \in [CPUs -> SUBSET {"STOP", "NMI"}]
    BY <1>1 DEF BootSound, SmpState
  <1>3. "panic_hook" \in Running /\ in_nmi' \subseteq CPUs
    BY <1>1, RunningSteps DEF PanicSteps, BootSound, SmpTypeOK
  <1> QED
    BY <1>1, <1>2, <1>3, RunningCpuSound

(* Of the CPUs that panic, the first prints and then all halt.              *)
LEMMA ForeverSound ==
    ASSUME BootSound, NEW c \in CPUs, forever(c)
    PROVE  BootSound'
  <1>1. /\ pc[c] \in PanicSteps /\ UNCHANGED <<bootVars, pending, stop_requested, in_nmi>>
        /\ \E step \in {"halted"} \cup PanicSteps : Goto(c, step)
    BY DEF forever, At, PanicSteps
  <1>2. pc[c] \notin BeforeEntry /\ pc[c] # "start"
    BY <1>1 DEF PanicSteps, BeforeEntry, Asleep
  <1>3. pending' \in [CPUs -> SUBSET {"STOP", "NMI"}] /\ in_nmi' \subseteq CPUs
    BY <1>1 DEF BootSound, SmpState, SmpTypeOK
  <1>4. PICK step \in Running : Goto(c, step)
    BY <1>1, RunningSteps
  <1> QED
    BY <1>1, <1>2, <1>3, <1>4, RunningCpuSound

(* The flag goes up before the interrupts go out.                           *)
LEMMA RequestStopSound ==
    ASSUME BootSound, NEW c \in CPUs, request_stop_of_all_other_aps(c)
    PROVE  BootSound'
  <1> USE Indices DEF BootSound
  <1>1. /\ pc[c] = "panic_hook" /\ UNCHANGED <<bootVars, in_nmi>>
        /\ \/ Goto(c, "panic_check") /\ UNCHANGED <<stop_requested, pending>>
           \/ stop_requested' = TRUE /\ UNCHANGED <<pc, pending>>
           \/ stop_requested /\ pending' = Sent(c) /\ Goto(c, "panic_check") /\ UNCHANGED stop_requested
    BY DEF request_stop_of_all_other_aps, At
  <1>2. pc[c] \notin BeforeEntry /\ pc[c] # "start" /\ "panic_check" \in Running
    BY <1>1, RunningSteps DEF PanicSteps, BeforeEntry, Asleep
  <1>3. CASE Goto(c, "panic_check") /\ UNCHANGED <<stop_requested, pending>>
    <2>1. pending' \in [CPUs -> SUBSET {"STOP", "NMI"}] /\ in_nmi' \subseteq CPUs
      BY <1>1, <1>3 DEF SmpState, SmpTypeOK
    <2> QED
      BY <1>1, <1>2, <1>3, <2>1, RunningCpuSound
  <1>4. CASE stop_requested' = TRUE /\ UNCHANGED <<pc, pending>>
    BY <1>1, <1>4 DEF SmpTypeOK, OwnSlots, RoutedToRunningCpu, SmpState, OneAtATime, PageIsForNext,
                      StopSentAfterRequest, bootVars
  <1>5. CASE stop_requested /\ pending' = Sent(c) /\ Goto(c, "panic_check") /\ UNCHANGED stop_requested
    <2>1. /\ pc' \in [CPUs -> Steps] /\ pc'[c] = "panic_check"
          /\ \A d \in CPUs : d # c => pc'[d] = pc[d]
      BY <1>2, <1>5, CpuMoves, RunningSteps
    <2>2. OneAtATime' /\ PageIsForNext'
      BY <1>1, <1>2, <1>5, RunningMoves DEF bootVars
    <2>3. pending' \in [CPUs -> SUBSET {"STOP", "NMI"}]
            /\ \A d \in CPUs : pending'[d] = pending[d] \/ pc[d] \notin Asleep \cup {"started"}
      BY <1>5 DEF Sent, Accepted, Deaf, NoApic, SmpState
    <2>4. SmpTypeOK' /\ OwnSlots' /\ RoutedToRunningCpu'
      BY <1>1, <2>3 DEF SmpTypeOK, OwnSlots, RoutedToRunningCpu, bootVars
    <2>5. pc[0] # "start"
      <3>1. CASE c = 0
        BY <1>2, <3>1
      <3>2. CASE c \in APs
        <4>1. pc[0] = "start" => next = 1 /\ pc[0] \in FillsPage
          BY DEF SmpState, FillsPage
        <4>2. c > 1 \/ c = 1
          BY <3>2 DEF APs
        <4>3. pc[c] # "off"
          BY <1>2 DEF BeforeEntry, Asleep
        <4> QED
          BY <3>2, <4>1, <4>2, <4>3 DEF OneAtATime
      <3> QED
        BY <3>1, <3>2
    <2>6. SmpState'
      <3>1. pc'[0] # "start" /\ 0 \in online
        BY <2>1, <2>5 DEF SmpState
      <3> QED
        BY <1>1, <2>1, <2>3, <3>1 DEF SmpState, Steps, bootVars
    <2>7. StopSentAfterRequest'
      BY <1>5, <2>1, <2>3 DEF StopSentAfterRequest, Asleep
    <2> QED
      BY <2>2, <2>4, <2>6, <2>7
  <1> QED
    BY <1>1, <1>3, <1>4, <1>5

(* The stop interrupts freeze whoever can handle them, and make an AP panic *)
(* that has no core info yet; the NMI resets the machine if it comes before *)
(* the AP has an IDT.                                                       *)
LEMMA InterruptedSound ==
    ASSUME BootSound, NEW c \in CPUs, Interrupted(c)
    PROVE  BootSound'
  <1> USE Indices DEF BootSound
  <1>1. UNCHANGED <<bootVars, stop_requested>>
    BY DEF Interrupted, isr_handle_non_maskable_interrupt, isr_handle_local_apic_stop
  <1>2. PICK taking \in SUBSET {"STOP", "NMI"} :
            taking # {} /\ taking \subseteq pending[c]
            /\ pending' = [pending EXCEPT ![c] = pending[c] \ taking]
    <2>1. CASE isr_handle_non_maskable_interrupt(c)
      BY <2>1 DEF isr_handle_non_maskable_interrupt
    <2>2. CASE isr_handle_local_apic_stop(c)
      BY <2>2 DEF isr_handle_local_apic_stop
    <2> QED
      BY <2>1, <2>2 DEF Interrupted
  <1>3. pending[c] # {} /\ pc[c] \notin Asleep \cup {"started"} /\ stop_requested
    BY <1>2 DEF StopSentAfterRequest
  <1>4. ~(c = 0 /\ pc[c] = "start")
    BY <1>3 DEF SmpState
  <1>r. pending' \in [CPUs -> SUBSET {"STOP", "NMI"}] /\ \A d \in CPUs : pending'[d] \subseteq pending[d]
    BY <1>2 DEF BootSound, SmpState
  <1>n. in_nmi' \subseteq CPUs
    BY DEF Interrupted, isr_handle_non_maskable_interrupt, isr_handle_local_apic_stop, SmpTypeOK
  <1>5. pc' = pc \/ (pc[c] \notin NoIdt /\ \E step \in {"frozen", "panic_hook"} : Goto(c, step))
    <2>1. CASE isr_handle_non_maskable_interrupt(c)
      BY <1>3, <2>1 DEF isr_handle_non_maskable_interrupt, freeze_cpu
    <2>2. CASE isr_handle_local_apic_stop(c)
      BY <2>2 DEF isr_handle_local_apic_stop, freeze_cpu, NoApic
    <2> QED
      BY <2>1, <2>2 DEF Interrupted
  <1>6. CASE pc' = pc
    <2>2. SmpTypeOK' /\ OwnSlots' /\ RoutedToRunningCpu' /\ OneAtATime' /\ PageIsForNext'
      BY <1>1, <1>6, <1>n, <1>r DEF SmpTypeOK, OwnSlots, RoutedToRunningCpu, OneAtATime, PageIsForNext, bootVars
    <2>3. SmpState'
      BY <1>1, <1>6, <1>r DEF SmpState, bootVars
    <2>4. StopSentAfterRequest'
      BY <1>1, <1>6, <1>r DEF StopSentAfterRequest
    <2> QED
      BY <2>2, <2>3, <2>4
  <1>7. CASE pc[c] \notin NoIdt /\ \E step \in {"frozen", "panic_hook"} : Goto(c, step)
    <2>1. pc[c] \notin BeforeEntry
      BY <1>3, <1>7 DEF BeforeEntry, NoIdt
    <2>2. PICK step \in Running : Goto(c, step)
      BY <1>7, RunningSteps DEF PanicSteps
    <2> QED
      BY <1>1, <1>4, <1>n, <1>r, <2>1, <2>2, RunningCpuSound
  <1> QED
    BY <1>5, <1>6, <1>7

-----------------------------------------------------------------------------
(* Every step of the BSP, the APs and the interrupts between them.          *)
LEMMA NextSound == BootSound /\ [SmpNext]_smpVars => BootSound'
  <1> SUFFICES ASSUME BootSound, [SmpNext]_smpVars PROVE BootSound'
    OBVIOUS
  <1>1. CASE BspStep
    <2>1. CASE send_sipi("sipi1", "sipi2") \/ send_sipi("sipi2", "wait")
      BY <2>1, SendSipiSound
    <2> QED
      BY <1>1, <2>1, InitializeApsSound, FillSlotSound, SendInitSound, WaitForApSound,
         AssertBreadcrumbSound, RouteSound DEF BspStep
  <1>2. ASSUME NEW p \in APs, smp_trampoline_start(p) \/ ApStep(p) PROVE BootSound'
    BY <1>2, TrampolineStartSound, TrampolineSound, ApMainSound DEF ApStep
  <1>3. ASSUME NEW c \in CPUs, fail_assertion(c) \/ PanicStep(c) \/ Interrupted(c) PROVE BootSound'
    BY <1>3, FailAssertionSound, RequestStopSound, ForeverSound, InterruptedSound DEF PanicStep
  <1>4. CASE UNCHANGED smpVars
    BY <1>4 DEF smpVars, BootSound, SmpTypeOK, OwnSlots, RoutedToRunningCpu, SmpState, OneAtATime,
                PageIsForNext, StopSentAfterRequest
  <1> QED
    BY <1>1, <1>2, <1>3, <1>4 DEF SmpNext

(* initialize_aps gives every AP its own stack, index and core info, for    *)
(* any number of APs and however late they answer, and routes device IRQs   *)
(* to a CPU that runs.                                                      *)
THEOREM BootIsSound == SmpSpec => []BootSound
  BY InitSound, NextSound, PTL DEF SmpSpec

(* Why a CPU is on the panic path.                                          *)
Because(c) == c \in panicked \/ (c \in in_nmi /\ ~HasCoreInfo(c))

(* The reason stays while what an AP has read and filled in does.           *)
LEMMA BecauseStays ==
    ASSUME NEW c \in CPUs, Because(c), panicked \subseteq panicked', in_nmi \subseteq in_nmi',
           UNCHANGED <<taken, lapic_id>>
    PROVE  Because(c)'
  BY DEF Because, HasCoreInfo

(* A step of another AP fills in another core info.                         *)
LEMMA BecauseOfAnother ==
    ASSUME BootSound, NEW c \in CPUs, pc[c] \in PanicSteps, Because(c),
           NEW p \in APs, p # c, smp_trampoline_start(p) \/ ApStep(p)
    PROVE  Because(c)'
  <1>1. UNCHANGED <<panicked, in_nmi>>
    BY DEF smp_trampoline_start, ApStep, smp_trampoline_pm32, smp_trampoline_lm64, trampoline, ap_main,
           panicVars
  <1>2. c \in APs => taken[c].index = c
    BY DEF BootSound, OneAtATime, BeforeEntry, Asleep, PanicSteps
  <1>3. c \in APs => taken'[c].index = c
    <2>1. CASE smp_trampoline_pm32(p) \/ smp_trampoline_lm64(p)
      BY <1>2, <2>1 DEF smp_trampoline_pm32, smp_trampoline_lm64, trampoline, BootSound, SmpState
    <2>2. CASE smp_trampoline_start(p) \/ ap_main(p)
      BY <1>2, <2>2 DEF smp_trampoline_start, ap_main, bootVars
    <2> QED
      BY <2>1, <2>2 DEF ApStep
  <1>4. c \in APs => lapic_id'[c] = lapic_id[c]
    <2>1. CASE ap_main(p) /\ pc[p] = "core"
      <3>1. taken[p].index = p
        BY <2>1 DEF BootSound, OneAtATime, BeforeEntry, Asleep
      <3>2. lapic_id' = [lapic_id EXCEPT ![p] = ApicId(p)]
        BY <2>1, <3>1 DEF ap_main, At
      <3> QED
        BY <3>2, Indices DEF BootSound, SmpState
    <2>2. CASE ~(ap_main(p) /\ pc[p] = "core")
      BY <2>2 DEF smp_trampoline_start, ApStep, smp_trampoline_pm32, smp_trampoline_lm64, trampoline,
                  ap_main, At, bootVars
    <2> QED
      BY <2>1, <2>2
  <1> QED
    BY <1>1, <1>2, <1>3, <1>4 DEF Because, HasCoreInfo

(* A CPU begins a panic when an assertion of its own fails or it finds the  *)
(* breadcrumbs incomplete, or when the stop's NMI comes between its IDT and *)
(* its core info.                                                           *)
LEMMA NextExpected == BootSound /\ StopIsExpected /\ [SmpNext]_smpVars => StopIsExpected'
  <1> SUFFICES ASSUME BootSound, StopIsExpected, [SmpNext]_smpVars, NEW c \in CPUs, pc'[c] \in PanicSteps
               PROVE  Because(c)'
    BY DEF StopIsExpected, Because
  <1>1. DOMAIN pc = CPUs /\ 0 \in CPUs /\ APs \subseteq CPUs
    BY Indices DEF BootSound, SmpState
  <1>2. pc[c] \in PanicSteps => Because(c)
    BY DEF StopIsExpected, Because
  <1>3. CASE BspStep
    <2>1. CASE assert_breadcrumb_okay
      <3>1. UNCHANGED <<taken, lapic_id, in_nmi>> /\ panicked \subseteq panicked'
        BY <2>1 DEF assert_breadcrumb_okay
      <3>2. pc[c] \in PanicSteps \/ c \in panicked'
        BY <1>1, <2>1 DEF assert_breadcrumb_okay, Goto, PanicSteps
      <3> QED
        BY <1>2, <3>1, <3>2, BecauseStays DEF Because
    <2>2. CASE ~assert_breadcrumb_okay
      <3>1. UNCHANGED <<taken, lapic_id, in_nmi, panicked>>
        BY <1>3, <2>2
           DEF BspStep, initialize_aps, send_init, send_sipi, prepare_trampoline, set_all_breadcrumbs_to_zero,
               set_up_a_new_stack, set_cpu_index, copy_pointer_to_core_info, Slot, wait_for_ap,
               route_device_irqs_to_application_processor, bootVars, panicVars
      <3>2. CASE send_init \/ send_sipi("sipi1", "sipi2") \/ send_sipi("sipi2", "wait")
        BY <1>1, <1>2, <3>1, <3>2, BecauseStays DEF send_init, send_sipi, PanicSteps
      <3>3. CASE \/ initialize_aps \/ prepare_trampoline \/ set_all_breadcrumbs_to_zero
                 \/ set_up_a_new_stack \/ set_cpu_index \/ copy_pointer_to_core_info
                 \/ wait_for_ap \/ route_device_irqs_to_application_processor
        <4>1. PICK step : step \notin PanicSteps /\ Goto(0, step)
          BY <3>3
             DEF initialize_aps, prepare_trampoline, set_all_breadcrumbs_to_zero, set_up_a_new_stack,
                 set_cpu_index, copy_pointer_to_core_info, Slot, wait_for_ap,
                 route_device_irqs_to_application_processor, PanicSteps
        <4> QED
          BY <1>1, <1>2, <3>1, <4>1, BecauseStays DEF Goto
      <3> QED
        BY <1>3, <2>2, <3>2, <3>3 DEF BspStep
    <2> QED
      BY <2>1, <2>2
  <1>4. ASSUME NEW p \in APs, smp_trampoline_start(p) \/ ApStep(p) PROVE Because(c)'
    <2>1. PICK step : step \notin PanicSteps /\ Goto(p, step)
      BY <1>4 DEF smp_trampoline_start, ApStep, smp_trampoline_pm32, smp_trampoline_lm64, trampoline,
                  ap_main, PanicSteps
    <2>2. pc[c] \in PanicSteps /\ p # c
      BY <1>1, <2>1 DEF Goto
    <2> QED
      BY <1>2, <1>4, <2>2, BecauseOfAnother
  <1>5. ASSUME NEW d \in CPUs, fail_assertion(d) PROVE Because(c)'
    <2>1. UNCHANGED <<taken, lapic_id, in_nmi>> /\ panicked' = panicked \cup {d} /\ Goto(d, "panic_hook")
      BY <1>5 DEF fail_assertion, bootVars
    <2>2. c = d \/ pc[c] \in PanicSteps
      BY <1>1, <2>1 DEF Goto
    <2> QED
      BY <1>2, <2>1, <2>2, BecauseStays DEF Because
  <1>6. ASSUME NEW d \in CPUs, PanicStep(d) PROVE Because(c)'
    <2>1. pc[d] \in PanicSteps /\ UNCHANGED <<taken, lapic_id, in_nmi, panicked>>
      BY <1>6 DEF PanicStep, request_stop_of_all_other_aps, forever, At, PanicSteps, bootVars
    <2>2. pc' = pc \/ \E step : Goto(d, step)
      BY <1>6 DEF PanicStep, request_stop_of_all_other_aps, forever
    <2>3. pc[c] \in PanicSteps
      BY <1>1, <2>1, <2>2 DEF Goto
    <2> QED
      BY <1>2, <2>1, <2>3, BecauseStays
  <1>7. ASSUME NEW d \in CPUs, Interrupted(d) PROVE Because(c)'
    <2>1. UNCHANGED <<taken, lapic_id, panicked>> /\ in_nmi \subseteq in_nmi'
      BY <1>7 DEF Interrupted, isr_handle_non_maskable_interrupt, isr_handle_local_apic_stop, bootVars
    <2>2. CASE pc[c] \in PanicSteps
      BY <1>2, <2>1, <2>2, BecauseStays
    <2>3. CASE pc[c] \notin PanicSteps
      <3>1. c = d /\ Goto(c, "panic_hook") /\ pc' # pc
        BY <1>1, <1>7, <2>3
           DEF Interrupted, isr_handle_non_maskable_interrupt, isr_handle_local_apic_stop, freeze_cpu,
               Goto, PanicSteps
      <3>2. ~HasCoreInfo(c) /\ c \in in_nmi'
        <4>1. stop_requested
          BY <1>7, <3>1
             DEF BootSound, StopSentAfterRequest, Interrupted, isr_handle_non_maskable_interrupt,
                 isr_handle_local_apic_stop
        <4>2. ~Goto(c, "frozen")
          BY <1>1, <3>1 DEF Goto, PanicSteps
        <4> QED
          BY <1>7, <3>1, <4>1, <4>2
             DEF Interrupted, isr_handle_non_maskable_interrupt, isr_handle_local_apic_stop, freeze_cpu
      <3> QED
        BY <2>1, <3>2 DEF Because, HasCoreInfo
    <2> QED
      BY <2>2, <2>3
  <1>8. CASE UNCHANGED smpVars
    BY <1>2, <1>8, BecauseStays DEF smpVars
  <1> QED
    BY <1>3, <1>4, <1>5, <1>6, <1>7, <1>8 DEF SmpNext

(* The flag is up before a stop interrupt is sent, so no CPU takes the NMI  *)
(* that stops it for a hardware error; the only CPUs it makes panic are APs *)
(* between their IDT and their core info.                                   *)
THEOREM StopAlwaysExpected == SmpSpec => []StopIsExpected
  <1>1. SmpInit => StopIsExpected
    BY DEF SmpInit, StopIsExpected, PanicSteps
  <1> QED
    BY <1>1, BootIsSound, NextExpected, PTL DEF SmpSpec
=============================================================================
