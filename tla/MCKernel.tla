------------------------------ MODULE MCKernel ------------------------------
(***************************************************************************)
(* The kernel's memory, devices and graphics, and the game.  A behaviour    *)
(* exercises one part, and the variables of the others keep their initial   *)
(* values: where one part calls another, each is modelled with what the     *)
(* other may do to it.                                                      *)
(***************************************************************************)
EXTENDS Input, Ps2, Interrupts, Buddy, MemoryMap, Tetris, Raster, Frames, Acpi

VARIABLE part

\* Two keys that differ in the E0 prefix only, and two movements of the mouse: one beyond
\* a signed byte, whose low bytes look like first ones, and one that overflows, whose low
\* bytes do not.
TwoKeys == [KEYPAD_6 |-> [code |-> 77, extended |-> FALSE], RIGHT_ARROW |-> [code |-> 77, extended |-> TRUE]]
Motion(x, y, overflow) == [x |-> x, y |-> y, overflow |-> overflow]
SomeMotions == {Motion(200, -56, FALSE), Motion(-10, 5, TRUE)}

\* Two regions of memory with ragged ends: pages 4-7 and 8-9.
Ragged == << [base |-> 14, size |-> 18], [base |-> 32, size |-> 10] >>

\* What the theorem about the heap assumes holds of these regions.
ASSUME HeapAssumption == OrdinaryUse

Range2(a, b) == [start |-> a, end |-> b]
SomeUsable == {Range2(0, 3), Range2(0, 8), Range2(4, 12), Range2(9, 24)}
SomeMaps == {<<r, s>> : r, s \in SomeUsable}
SomeUsableMaps ==
    {m \in SomeMaps : m[1].end <= m[2].start \/ m[2].end <= m[1].start}
    \cup {<<Range2(20, 22), Range2(3, 6), Range2(1, 3)>>}
    \cup {<<Range2(20, 22), Range2(3, 6), Range2(1, 3), Range2(7, 9)>>}
KernelImage == Range2(5, 6)
SomeTexts == {Range2(7, 8), Range2(13, 14)}
SomeModules == {Range2(8, 11), Range2(10, 10), Range2(2, 16)}

TwoBodies == <<{<<0, 0, 0>>, <<0, 0, 1>>}, {<<0, 0, 0>>, <<1, 0, 0>>, <<0, 0, 1>>}>>
TwoAngles == {-1, 2}

Lines2D == {<<>>, <<"a">>, <<"a", "nl", "b", "c">>, <<"a", "b", "c", "d", "e">>, <<"nl", "a", "nl">>}
TwoTextures == {<<2, 3>>, <<3, 2>>}
SomeSplits == {<<1, 1, 1, 2>>, <<1, 2, 0, 2>>, <<0, 0, 1, 1>>, <<2, 2, 0, 1>>}
SomeCorners == {<<0, 0>>, <<1, 5>>, <<4, 8>>, <<7, 0>>, <<12, 3>>, <<13, 9>>, <<5, 3>>, <<-3, 4>>}
SomeClipPoints == {<<-1, 1, 0, 1>>, <<1, 0, 2, 1>>, <<0, -1, 1, 1>>, <<0, -3, 6, 2>>, <<3, 2, 2, 2>>,
                   <<1, 1, 1, 0>>, <<0, 0, 1, -1>>}
SomeAttributes == {<<0, 0, 1>>, <<1, 0, 1>>}
RgbAndBgr == {<<8, 4, 0>>, <<0, 4, 8>>}

Request(op, opaque, depth, z, text) ==
    [op |-> op, at |-> Pixels, opaque |-> opaque, depth |-> depth, z |-> z, text |-> text, glyphs |-> Pixels]
SomeRequests ==
    {Request("3D", TRUE, d, 0, "none") : d \in {-1, 1}} \cup {Request("3D", FALSE, 1, 0, "none")}
    \cup {Request("wireframe", o, 0, 0, "none") : o \in BOOLEAN}
    \cup {Request("2D", o, 1, 0, "none") : o \in BOOLEAN} \cup {Request("2D", TRUE, DEPTH_FAR, 0, "none")}
    \cup {Request("2D", TRUE, DEPTH_FAR, 0, "copied"), Request("2D", FALSE, 3, 0, "copied")}
    \cup {Request("UI", FALSE, DEPTH_FAR, 0, "copied"), Request("UI", FALSE, DEPTH_FAR, 1, "none")}
    \cup {Request("UI", TRUE, 3, 0, "static"), Request("UI", FALSE, 3, 1, "copied")}
    \cup {Request("immediate", FALSE, DEPTH_FAR, 0, "none"), Request("clear", TRUE, DEPTH_FAR, 0, "none")}

\* Root pointers and tables that fail one test or none, in the places searched.
Table(fails, signature) == [fails |-> fails, signature |-> signature]
Root(fails, signature, entries) == [fails |-> fails, signature |-> signature, entries |-> entries]
Rsdp(fails, revision, rsdt, xsdt) == [fails |-> fails, revision |-> revision, rsdt |-> rsdt, xsdt |-> xsdt]
Rsdt == Root("none", "RSDT", <<Table("none", "FACP"), Table("none", "APIC")>>)
SomePointers ==
    {Rsdp(f, r, Rsdt, NoTable) : f \in {"none", "checksum", "extended_checksum"}, r \in {0, 2}}
    \cup {Rsdp("none", 2, Rsdt, Root(f, "XSDT", <<Table("checksum", "APIC")>> \o last)) :
             f \in {"none", "length"}, last \in {<<>>, <<Table("none", "APIC")>>}}
    \cup {Rsdp("none", 2, NoTable, Root("none", s, <<Table("none", "APIC")>>)) : s \in {"XSDT", "RSDT"}}
Found(n, o, e, b) == [new_tag |-> n, old_tag |-> o, ebda |-> e, bios |-> b]
SomePlaces ==
    {Found(p, q, NoPointer, NoPointer) : p \in SomePointers, q \in {NoPointer, Rsdp("none", 0, Rsdt, NoTable)}}
    \cup {Found(NoPointer, Rsdp("signature", 0, Rsdt, NoTable), e, b) :
             e \in {NoPointer, Rsdp("checksum", 0, Rsdt, NoTable)}, b \in {NoPointer, Rsdp("none", 0, Rsdt, NoTable)}}
EntriesAt ==
    [p \in SomePlaces |-> IF p = Found(Rsdp("none", 0, Rsdt, NoTable), NoPointer, NoPointer, NoPointer) THEN 4 ELSE 1]
SomeEntries ==
    {[type |-> "LOCAL_APIC", length |-> 8, apic_id |-> 0, enabled |-> TRUE]}
    \cup {[type |-> "LOCAL_X2APIC", length |-> l, apic_id |-> 2, enabled |-> FALSE] : l \in {8, 16}}
    \cup {[type |-> "IOAPIC", length |-> 12, gsi_base |-> b] : b \in {0, 2}}
    \cup {[type |-> "ISO", length |-> 10, isa_irq |-> i[1], gsi |-> i[2], polarity |-> i[3], trigger |-> i[4]] :
             i \in {<<1, 2, "ACTIVE_LOW", "LEVEL">>, <<1, 3, "BUS_DEFAULT", "EDGE">>, <<2, 1, "ACTIVE_HIGH", "BUS_DEFAULT">>}}
    \cup {[type |-> "LOCAL_APIC_NMI", length |-> 1]}

-----------------------------------------------------------------------------
KernelInit ==
    /\ part \in {"input", "ps2", "interrupts", "heap", "map", "game", "raster", "frames", "acpi"}
    /\ Init /\ Ps2Init /\ InterruptsInit /\ BuddyInit /\ MemoryMapInit /\ RasterInit /\ FramesInit
    /\ AcpiInit
    /\ IF part = "game" THEN TetrisInit ELSE screen = "off" /\ game = NewGame

\* The parts that are not exercised.
Others ==
    /\ UNCHANGED part
    /\ IF part = "input" THEN TRUE ELSE UNCHANGED vars
    /\ IF part = "ps2" THEN TRUE ELSE UNCHANGED ps2Vars
    /\ IF part = "interrupts" THEN TRUE ELSE UNCHANGED interruptVars
    /\ IF part = "heap" THEN TRUE ELSE UNCHANGED buddyVars
    /\ IF part = "map" THEN TRUE ELSE UNCHANGED mapVars
    /\ IF part = "game" THEN TRUE ELSE UNCHANGED tetrisVars
    /\ IF part = "raster" THEN TRUE ELSE UNCHANGED rasterVars
    /\ IF part = "frames" THEN TRUE ELSE UNCHANGED frameVars
    /\ IF part = "acpi" THEN TRUE ELSE UNCHANGED acpiVars

KernelNext ==
    /\ Others
    /\ \/ part = "input" /\ Next
       \/ part = "ps2" /\ Ps2Next
       \/ part = "interrupts" /\ InterruptsNext
       \/ part = "heap" /\ BuddyNext
       \/ part = "map" /\ MemoryMapNext
       \/ part = "game" /\ TetrisNext
       \/ part = "raster" /\ RasterNext
       \/ part = "frames" /\ FramesNext
       \/ part = "acpi" /\ AcpiNext

kernelVars == <<part, vars, ps2Vars, interruptVars, buddyVars, mapVars, tetrisVars, rasterVars, frameVars,
                acpiVars>>

KernelSpec == KernelInit /\ [][KernelNext]_kernelVars
=============================================================================
