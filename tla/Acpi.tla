-------------------------------- MODULE Acpi --------------------------------
(***************************************************************************)
(* What the firmware tells the kernel of its processors and interrupt      *)
(* controllers, advanced_configuration_and_power_interface.hh, and the     *)
(* routing of the ISA lines that ioapic.hh makes of it.                    *)
(*                                                                         *)
(* A root pointer or a table is a record that names the first test it      *)
(* fails, if any; the MADT's entries are added one by one by the firmware. *)
(* An entry always starts where the one before it ends, so the walk counts *)
(* entries; the table may end inside the last one.                         *)
(***************************************************************************)
EXTENDS Integers, Sequences, FiniteSets

CONSTANTS
    MAX_CPUS, MAX_IOAPICS, MAX_INTERRUPT_OVERRIDES,
    RootPointers,           \* records [new_tag, old_tag, ebda, bios : pointer or NoPointer]
    MadtEntries,            \* entries a firmware may list
    MAX_MADT_ENTRIES,       \* bound on their number, by the places of the root pointers
    BSP_APIC_ID, AP_APIC_ID,
    KEYBOARD_IRQ, MOUSE_IRQ,
    MAX_REDIRECTION_ENTRY   \* last pin of an IOAPIC

NoPointer == [fails |-> "absent"]
NoTable   == [fails |-> "absent", signature |-> "none"]

\* The tables a pointer leads to hold lists.
ASSUME AcpiAssumption ==
    /\ KEYBOARD_IRQ # MOUSE_IRQ /\ MAX_CPUS \in Nat
    /\ \A p \in RootPointers : \A pointer \in {p.new_tag, p.old_tag, p.ebda, p.bios} \ {NoPointer} :
           \A root \in {pointer.rsdt, pointer.xsdt} \ {NoTable} :
               DOMAIN root.entries = 1 .. Len(root.entries) /\ Len(root.entries) \in Nat

VARIABLES
    acpiStage,
    places,         \* where the firmware has put root pointers
    listed,         \* the entries of its MADT
    cut,            \* the MADT ends inside its last entry
    rsdp, madt,     \* what was found
    entryAt,        \* entries walked over
    madt_info,      \* cpus, ioapics, overrides
    pins            \* redirection entries of the first IOAPIC

acpiVars == <<acpiStage, places, listed, cut, rsdp, madt, entryAt, madt_info, pins>>

NoInfo == [cpus |-> <<>>, ioapics |-> <<>>, overrides |-> <<>>]

\* The lines as the BIOS left them.
Unprogrammed == [masked |-> FALSE, vector |-> 0, destination |-> 0, polarity |-> "HIGH", trigger |-> "EDGE"]

AcpiInit ==
    /\ acpiStage = "reset"
    /\ places = [new_tag |-> NoPointer, old_tag |-> NoPointer, ebda |-> NoPointer, bios |-> NoPointer]
    /\ listed = <<>> /\ cut = FALSE
    /\ rsdp = NoPointer /\ madt = NoTable /\ entryAt = 0 /\ madt_info = NoInfo
    /\ pins = [p \in 0 .. MAX_REDIRECTION_ENTRY |-> Unprogrammed]

\* Where a search stops.
FirstOf(indices) == CHOOSE i \in indices : \A j \in indices : i <= j

Comes(from, to) == acpiStage = from /\ acpiStage' = to
-----------------------------------------------------------------------------
\* The firmware.
firmware_places(p) ==
    /\ Comes("reset", "firmware") /\ places' = p
    /\ UNCHANGED <<listed, cut, rsdp, madt, entryAt, madt_info, pins>>

firmware_lists(e) ==
    /\ Comes("firmware", "firmware") /\ Len(listed) < MAX_MADT_ENTRIES[places] /\ ~cut
    /\ listed' = Append(listed, e) /\ cut' \in BOOLEAN
    /\ UNCHANGED <<places, rsdp, madt, entryAt, madt_info, pins>>
-----------------------------------------------------------------------------
\* A pointer of revision 2 has a length and a checksum over all of it.
rsdp_valid(pointer) ==
    /\ pointer.fails \notin {"absent", "signature", "checksum"}
    /\ pointer.revision >= 2 => pointer.fails \notin {"length", "extended_checksum"}

\* The tags of the boot loader, the new one first, then find_rsdp_bios_scan.
Searched == <<places.new_tag, places.old_tag, places.ebda, places.bios>>

find_rsdp ==
    /\ acpiStage = "firmware"
    /\ LET found == {i \in DOMAIN Searched : rsdp_valid(Searched[i])}
       IN IF found # {} THEN Comes("firmware", "rsdp") /\ rsdp' = Searched[FirstOf(found)]
          ELSE Comes("firmware", "halted") /\ UNCHANGED rsdp
    /\ UNCHANGED <<places, listed, cut, madt, entryAt, madt_info, pins>>

sdt_valid(table) == table.fails = "none"

\* find_madt_in_rsdt and find_madt_in_xsdt: the first sound MADT of a sound root.
find_madt_in(root, signature) ==
    LET found == {i \in DOMAIN root.entries : sdt_valid(root.entries[i]) /\ root.entries[i].signature = "APIC"}
    IN IF sdt_valid(root) /\ root.signature = signature /\ found # {}
       THEN root.entries[FirstOf(found)] ELSE NoTable

\* find_madt: an address of 0 is NoTable, which is not sound.
MadtOf(pointer) ==
    LET x == IF pointer.revision >= 2 /\ pointer.xsdt # NoTable THEN find_madt_in(pointer.xsdt, "XSDT") ELSE NoTable
    IN IF x # NoTable THEN x
       ELSE IF pointer.rsdt # NoTable THEN find_madt_in(pointer.rsdt, "RSDT") ELSE NoTable

find_madt ==
    /\ acpiStage = "rsdp"
    /\ IF MadtOf(rsdp) = NoTable THEN Comes("rsdp", "halted") /\ UNCHANGED madt
       ELSE Comes("rsdp", "entries") /\ madt' = MadtOf(rsdp)
    /\ UNCHANGED <<places, listed, cut, rsdp, entryAt, madt_info, pins>>
-----------------------------------------------------------------------------
HEADER_LENGTH == 2
LengthNeeded == [LOCAL_APIC |-> 8, IOAPIC |-> 12, ISO |-> 10, LOCAL_X2APIC |-> 16]

\* push_cpu drops what does not fit; push_back of the other lists asserts.
CpuDesc(e) == [apic_id |-> e.apic_id, enabled |-> e.enabled, is_bsp |-> e.apic_id = BSP_APIC_ID]
push_cpu(info, e) == IF Len(info.cpus) >= MAX_CPUS THEN info ELSE [info EXCEPT !.cpus = Append(@, CpuDesc(e))]

\* The walk ends at the table's end, at a length shorter than a header, and at an
\* entry that leads out of the table.
WalkGoesOn ==
    /\ entryAt < Len(listed)
    /\ listed[entryAt + 1].length >= HEADER_LENGTH
    /\ cut => entryAt + 1 < Len(listed)

Override(e) == [isa_irq |-> e.isa_irq, gsi |-> e.gsi, polarity |-> e.polarity, trigger |-> e.trigger]

\* One turn of parse_madt_entries: what an entry that is long enough adds.
parse_madt_entry ==
    /\ acpiStage = "entries" /\ WalkGoesOn
    /\ LET e == listed[entryAt + 1]
           known == e.type \in DOMAIN LengthNeeded /\ e.length >= LengthNeeded[e.type]
           full == \/ e.type = "IOAPIC" /\ Len(madt_info.ioapics) = MAX_IOAPICS
                   \/ e.type = "ISO" /\ Len(madt_info.overrides) = MAX_INTERRUPT_OVERRIDES
       IN /\ acpiStage' = IF known /\ full THEN "halted" ELSE "entries"
          /\ madt_info' =
                IF ~known \/ full THEN madt_info
                ELSE CASE e.type \in {"LOCAL_APIC", "LOCAL_X2APIC"} -> push_cpu(madt_info, e)
                       [] e.type = "IOAPIC" -> [madt_info EXCEPT !.ioapics = Append(@, [gsi_base |-> e.gsi_base])]
                       [] e.type = "ISO" -> [madt_info EXCEPT !.overrides = Append(@, Override(e))]
    /\ entryAt' = entryAt + 1
    /\ UNCHANGED <<places, listed, cut, rsdp, madt, pins>>

\* The end of parse_madt.
parse_madt_ends ==
    /\ acpiStage = "entries" /\ ~WalkGoesOn
    /\ acpiStage' = IF madt_info.cpus = <<>> \/ madt_info.ioapics = <<>> THEN "halted" ELSE "parsed"
    /\ UNCHANGED <<places, listed, cut, rsdp, madt, entryAt, madt_info, pins>>
-----------------------------------------------------------------------------
\* The override of a line: the first that names it.
NoOverride(irq) == [isa_irq |-> irq, gsi |-> irq, polarity |-> "BUS_DEFAULT", trigger |-> "BUS_DEFAULT"]
\* The search going on with what the override gave.
OverrideOf_Chained(irq) ==
    LET after[k \in 0 .. Len(madt_info.overrides)] ==
            IF k = 0 THEN NoOverride(irq)
            ELSE IF madt_info.overrides[k].isa_irq = after[k - 1].gsi THEN madt_info.overrides[k] ELSE after[k - 1]
    IN after[Len(madt_info.overrides)]
OverrideOf(irq) ==
    LET named == {k \in DOMAIN madt_info.overrides : madt_info.overrides[k].isa_irq = irq}
    IN IF named = {} THEN NoOverride(irq) ELSE madt_info.overrides[FirstOf(named)]

\* route_industry_standard_architecture_irq; a pin below the first IOAPIC's or
\* beyond it selects no redirection entry.
Entry(o, irq, destination) ==
    [masked |-> FALSE, vector |-> irq, destination |-> destination,
     polarity |-> IF o.polarity = "ACTIVE_LOW" THEN "LOW" ELSE "HIGH",
     trigger |-> IF o.trigger = "LEVEL" THEN "LEVEL" ELSE "EDGE"]

Routed(table, irq, destination) ==
    LET o == OverrideOf(irq)  pin == o.gsi - madt_info.ioapics[1].gsi_base
    IN IF pin \in DOMAIN table THEN [table EXCEPT ![pin] = Entry(o, irq, destination)] ELSE table

mask_all_pins(table) == [p \in DOMAIN table |-> [table[p] EXCEPT !.masked = TRUE]]

RouteBoth(table, destination) == Routed(Routed(table, KEYBOARD_IRQ, destination), MOUSE_IRQ, destination)

\* ioapic::initialize.
ioapic_initialize ==
    /\ Comes("parsed", "routed")
    /\ pins' = RouteBoth(mask_all_pins(pins), BSP_APIC_ID)
    /\ UNCHANGED <<places, listed, cut, rsdp, madt, entryAt, madt_info>>

\* route_device_irqs_to_application_processor, when one is online.
route_to_ap ==
    /\ Comes("routed", "moved")
    /\ pins' = RouteBoth(pins, AP_APIC_ID)
    /\ UNCHANGED <<places, listed, cut, rsdp, madt, entryAt, madt_info>>

AcpiNext ==
    \/ \E p \in RootPointers : firmware_places(p)
    \/ \E e \in MadtEntries : firmware_lists(e)
    \/ find_rsdp \/ find_madt \/ parse_madt_entry \/ parse_madt_ends
    \/ ioapic_initialize \/ route_to_ap

AcpiSpec == AcpiInit /\ [][AcpiNext]_acpiVars
-----------------------------------------------------------------------------
\* What the firmware listed up to the first entry that is not sound.
Sound == {i \in DOMAIN listed : \A j \in 1 .. i : listed[j].length >= HEADER_LENGTH /\ ~(cut /\ j = Len(listed))}
Of(types) ==
    {i \in Sound : listed[i].type \in types /\ listed[i].length >= LengthNeeded[listed[i].type]}

Processors == Of({"LOCAL_APIC", "LOCAL_X2APIC"})
IoapicsListed == Of({"IOAPIC"})
IsosListed == Of({"ISO"})

\* How many of a set of entries the firmware listed up to one of them, and which
\* is the k-th.
CountTo(set, i) == Cardinality({j \in set : j <= i})
Nth(set, k) == CHOOSE i \in set : CountTo(set, i) = k

\* The kernel knows the processors the firmware listed, in its order and as many
\* as it has room for, and all of its IOAPICs and overrides, and nothing that
\* lies behind a broken entry; the BSP is the one it runs on.
KnowsItsMachine ==
    acpiStage \in {"parsed", "routed", "moved"} =>
        /\ Len(madt_info.cpus) = IF Cardinality(Processors) < MAX_CPUS THEN Cardinality(Processors) ELSE MAX_CPUS
        /\ \A k \in DOMAIN madt_info.cpus :
               LET e == listed[Nth(Processors, k)] c == madt_info.cpus[k]
               IN c.apic_id = e.apic_id /\ c.enabled = e.enabled /\ c.is_bsp = (e.apic_id = BSP_APIC_ID)
        /\ Len(madt_info.ioapics) = Cardinality(IoapicsListed)
        /\ Len(madt_info.overrides) = Cardinality(IsosListed)

\* The tables used are sound, and start-up finds the MADT when the pointer in use
\* leads to a sound one by either root.
UsesSoundTables ==
    /\ rsdp # NoPointer => rsdp_valid(rsdp)
    /\ madt # NoTable => sdt_valid(madt)
    /\ acpiStage = "halted" /\ rsdp # NoPointer /\ madt = NoTable =>
           \A root \in {rsdp.rsdt} \cup (IF rsdp.revision >= 2 THEN {rsdp.xsdt} ELSE {}) :
               sdt_valid(root) /\ root.signature = (IF root = rsdp.rsdt THEN "RSDT" ELSE "XSDT") =>
                   \A i \in DOMAIN root.entries :
                       ~(sdt_valid(root.entries[i]) /\ root.entries[i].signature = "APIC")

\* What the firmware says of a line: its global interrupt and its signal.
Meant(irq) ==
    LET named == {i \in IsosListed : listed[i].isa_irq = irq}
    IN IF named = {} THEN NoOverride(irq) ELSE listed[FirstOf(named)]

PinOf(irq) == Meant(irq).gsi - madt_info.ioapics[1].gsi_base
DeviceLines == {irq \in {KEYBOARD_IRQ, MOUSE_IRQ} : PinOf(irq) \in DOMAIN pins}

\* Keyboard and mouse come in on the pins the firmware wired them to, with its
\* polarity and trigger, at the CPU that handles devices, and no other pin is open.
\* It takes pins of the first IOAPIC, and one each.
LinesAsWired ==
    acpiStage \in {"routed", "moved"} =>
        /\ {p \in DOMAIN pins : ~pins[p].masked} = {PinOf(irq) : irq \in DeviceLines}
        /\ PinOf(KEYBOARD_IRQ) # PinOf(MOUSE_IRQ) =>
             \A irq \in DeviceLines :
                 LET pin == pins[PinOf(irq)]
                 IN /\ pin.vector = irq
                    /\ pin.destination = IF acpiStage = "moved" THEN AP_APIC_ID ELSE BSP_APIC_ID
                    /\ (pin.polarity = "LOW") = (Meant(irq).polarity = "ACTIVE_LOW")
                    /\ (pin.trigger = "LEVEL") = (Meant(irq).trigger = "LEVEL")

\* The invariant of the firmware's tables: what the kernel believes of processors
\* and interrupt lines is what a sound table says, however much of it is broken.
MachineSound == KnowsItsMachine /\ UsesSoundTables /\ LinesAsWired
=============================================================================
