------------------------------ MODULE MemoryMap ------------------------------
(***************************************************************************)
(* gameos/memory.hh and multiboot2.hh: the walk over the tags the boot     *)
(* loader left, the table of usable memory made from its memory map, and   *)
(* the ranges taken out of it before the rest is given to the heap.        *)
(*                                                                         *)
(* Addresses count units, of which a page has PAGE_SIZE.  A tag is what the *)
(* code reads of it: its kind, its size in units and the ranges it names.   *)
(***************************************************************************)
EXTENDS Integers, Sequences, FiniteSets

Ranges == [start : Nat, end : Nat]

CONSTANTS
    PAGE_SIZE,
    LOW_MEMORY,             \* 1 MiB: reserved whatever the map says
    MAX_MEMORY_REGIONS,
    KERNEL,                 \* [start, end] of the kernel image
    MBI,                    \* where the boot loader put its tags
    UsableMaps,             \* the usable ranges of memory that firmware may report
    TextRanges, ModuleRanges,   \* where the tags' texts and modules may lie
    TAG_ALIGN, TagSizes,    \* tags start at multiples of 8, after a header of 8
    MAX_TAGS                \* bound on the tags of one boot

ASSUME MemoryMapAssumption ==
    /\ PAGE_SIZE \in Nat \ {0} /\ TAG_ALIGN \in Nat \ {0} /\ TagSizes \subseteq Nat \ {0}
    /\ MAX_MEMORY_REGIONS \in Nat \ {0} /\ MAX_TAGS \in Nat
    /\ LOW_MEMORY \in Nat /\ MBI \in Nat /\ KERNEL \in Ranges
    /\ TextRanges \subseteq Ranges /\ ModuleRanges \subseteq Ranges

\* Firmware lists each range of memory once, and no empty one.
ASSUME FirmwareAssumption ==
    /\ UsableMaps \subseteq Seq(Ranges)
    /\ \A map \in UsableMaps :
           /\ \A i \in 1 .. Len(map) : map[i].start < map[i].end
           /\ \A i, j \in 1 .. Len(map) :
                  i # j => map[i].end <= map[j].start \/ map[j].end <= map[i].start

VARIABLES
    bootPhase,  \* "loading" (the boot loader writes tags), "parsing", "reserving", "ready", "halted"
    tags,       \* the tags in memory order, each with its offset from the first
    at,         \* the tag the walk has reached, as an offset from the first
    regions,    \* Memory_Regions
    taken       \* ghost: the ranges reserve_range was called with

mapVars == <<bootPhase, tags, at, regions, taken>>

align_down_page(a) == a - (a % PAGE_SIZE)
align_up_page(a) == align_down_page(a + PAGE_SIZE - 1)

\* Multiboot2_Tag::next: from a tag to the next multiple of 8.
Padded(size) == ((size + TAG_ALIGN - 1) \div TAG_ALIGN) * TAG_ALIGN

\* The boot loader's side: the size of all its tags, where it puts the next one.
total_size ==
    IF tags = <<>> THEN 0
    ELSE LET last == tags[Len(tags)] IN last.offset + Padded(last.tag.size)

TagAt(offset) == tags[CHOOSE i \in 1 .. Len(tags) : tags[i].offset = offset].tag

\* Where the next tag starts.
next(tag) == Padded(tag.size)

Region(r)  == [base |-> r.start, size |-> r.end - r.start]
RegionEnd(r) == r.base + r.size

\* The loop of reserve_range: its index, the table, and whether that had room.
Walk(i, table, okay) == [i |-> i, table |-> table, okay |-> okay]

\* Region i becomes r, or two of which the higher goes to the end; or it leaves
\* the table and the last one takes its place.
Cut(table, i, r) == [table EXCEPT ![i] = r]
Split(table, i, low, high) == Append(Cut(table, i, low), high)
Removed(table, i) ==
    LET last == Len(table) IN SubSeq(Cut(table, i, table[last]), 1, last - 1)

\* One turn at index i for the page range [start, end).
CutOne(w, start, end) ==
    LET i    == w.i
        r    == w.table[i]
        low  == [base |-> r.base, size |-> start - r.base]
        high == [base |-> end, size |-> RegionEnd(r) - end]
    IN IF end <= r.base \/ start >= RegionEnd(r) THEN Walk(i + 1, w.table, w.okay)
       ELSE IF start <= r.base /\ end >= RegionEnd(r) THEN Walk(i, Removed(w.table, i), w.okay)
       ELSE IF start <= r.base THEN Walk(i + 1, Cut(w.table, i, high), w.okay)
       ELSE IF end >= RegionEnd(r) THEN Walk(i + 1, Cut(w.table, i, low), w.okay)
       ELSE IF Len(w.table) < MAX_MEMORY_REGIONS
       THEN Walk(i + 1, Split(w.table, i, low, high), w.okay)
       ELSE Walk(i, w.table, FALSE)

\* A loop that steps over the region it has just swapped in.
CutOne_SkipsSwapped(w, start, end) ==
    LET r == w.table[w.i]
    IN IF start <= r.base /\ end >= RegionEnd(r) /\ start < RegionEnd(r)
       THEN Walk(w.i + 1, Removed(w.table, w.i), w.okay)
       ELSE CutOne(w, start, end)

Turn(w, start, end) == CutOne(w, start, end)

Start(table) == Walk(1, table, TRUE)

\* The loop over the table for the pages [start, end): what it has after n turns.
\* A turn passes a region, removes one or, once at most, splits one, so that twice
\* the regions are enough; okay is FALSE once the table was full (the code halts).
Reserving(table, start, end) ==
    LET turns[n \in 0 .. 2 * Len(table)] ==
            IF n = 0 THEN Start(table)
            ELSE LET w == turns[n - 1]
                 IN IF w.okay /\ w.i <= Len(w.table) THEN Turn(w, start, end) ELSE w
    IN turns[2 * Len(table)]

reserve_range(table, range) ==
    IF range.start >= range.end THEN Start(table)
    ELSE Reserving(table, align_down_page(range.start), align_up_page(range.end))

Then(w, range) == IF w.okay THEN reserve_range(w.table, range) ELSE w

\* Three calls, one after another.
Reserve(ranges, after) ==
    LET w == Then(Then(reserve_range(regions, ranges[1]), ranges[2]), ranges[3])
    IN /\ regions' = w.table
       /\ bootPhase' = IF w.okay THEN after ELSE "halted"
       /\ taken' = taken \cup {ranges[1], ranges[2], ranges[3]}

\* A call that is not made: reserve_range returns at once for an empty range.
NoRange == [start |-> 0, end |-> 0]
-----------------------------------------------------------------------------
\* The boot loader writes its tags and then starts the kernel.
boot_tag(tag) ==
    /\ bootPhase = "loading" /\ Len(tags) < MAX_TAGS
    /\ tags' = Append(tags, [offset |-> total_size, tag |-> tag])
    /\ UNCHANGED <<bootPhase, at, regions, taken>>

boot_kernel ==
    /\ bootPhase = "loading" /\ tags # <<>>
    /\ bootPhase' = "parsing"
    /\ UNCHANGED <<tags, at, regions, taken>>

AtEnd == at >= total_size

\* parse_multiboot2_memory_map, one tag of its walk: push_back halts when the
\* table is full.
parse_tag ==
    /\ bootPhase = "parsing" /\ ~AtEnd
    /\ LET tag == TagAt(at)
           all == IF tag.type = "MEMORY_MAP" THEN regions \o tag.entries ELSE regions
       IN /\ regions' = IF Len(all) <= MAX_MEMORY_REGIONS THEN all
                        ELSE SubSeq(all, 1, MAX_MEMORY_REGIONS)
          /\ bootPhase' = IF Len(all) <= MAX_MEMORY_REGIONS THEN "parsing" ELSE "halted"
          /\ at' = at + next(tag)
    /\ UNCHANGED <<tags, taken>>

\* The header, of one alignment, and the tags behind it.
MbiRange == [start |-> MBI, end |-> MBI + TAG_ALIGN + total_size]

\* reserve_multiboot2_data before its walk: low memory, the tags, the kernel.
reserve_fixed ==
    /\ bootPhase = "parsing" /\ AtEnd
    /\ Reserve(<<[start |-> 0, end |-> LOW_MEMORY], MbiRange, KERNEL>>, "reserving")
    /\ at' = 0
    /\ UNCHANGED tags

\* What a tag keeps: a text, or a module with its name (0 when it has none).
TagRanges(tag) ==
    CASE tag.type = "TEXT" -> <<tag.text, NoRange, NoRange>>
      [] tag.type = "MODULE" ->
             <<tag.range, IF tag.text.start = 0 THEN NoRange ELSE tag.text, NoRange>>
      [] OTHER -> <<NoRange, NoRange, NoRange>>

\* One tag of its walk.
reserve_tag ==
    /\ bootPhase = "reserving" /\ ~AtEnd
    /\ Reserve(TagRanges(TagAt(at)), "reserving")
    /\ at' = at + next(TagAt(at))
    /\ UNCHANGED tags

\* initialize: what is left is added to the heap.
add_regions ==
    /\ bootPhase = "reserving" /\ AtEnd
    /\ bootPhase' = "ready"
    /\ UNCHANGED <<tags, at, regions, taken>>

MemoryMapInit ==
    /\ bootPhase = "loading" /\ tags = <<>> /\ at = 0 /\ regions = <<>> /\ taken = {}

MapTag(ranges, size) ==
    [type |-> "MEMORY_MAP", size |-> size, entries |-> [i \in 1 .. Len(ranges) |-> Region(ranges[i])]]

BootTags ==
    {MapTag(ranges, size) : ranges \in UsableMaps, size \in TagSizes}
    \cup {[type |-> "TEXT", size |-> size, text |-> r] : r \in TextRanges, size \in TagSizes}
    \cup {[type |-> "MODULE", size |-> size, range |-> r, text |-> s] :
            r \in ModuleRanges, s \in TextRanges \cup {NoRange}, size \in TagSizes}
    \cup {[type |-> "OTHER", size |-> size] : size \in TagSizes}

IsMap(tag) == tag.type = "MEMORY_MAP"

MemoryMapNext ==
    \/ \E tag \in BootTags :
           /\ IsMap(tag) => \A i \in 1 .. Len(tags) : ~IsMap(tags[i].tag)   \* one map
           /\ boot_tag(tag)
    \/ boot_kernel \/ parse_tag \/ reserve_fixed \/ reserve_tag \/ add_regions

MemoryMapSpec == MemoryMapInit /\ [][MemoryMapNext]_mapVars
-----------------------------------------------------------------------------
UnitsOf(r)     == r.base .. RegionEnd(r) - 1
TableUnitsOf(table) == UNION {UnitsOf(table[i]) : i \in 1 .. Len(table)}
UsableUnits  == UNION {TableUnitsOf(tags[i].tag.entries) : i \in {k \in 1 .. Len(tags) : IsMap(tags[k].tag)}}
PagesOf(r)   == IF r.start >= r.end THEN {} ELSE align_down_page(r.start) .. align_up_page(r.end) - 1
TakenUnits   == UNION {PagesOf(r) : r \in taken}
TableUnits   == TableUnitsOf(regions)

\* The walk stays on the tags: it is always at the start of one, or at the end.
\* The table stays inside its bound, and the kernel halts only for a region or a
\* split that would leave it.
MemoryMapTypeOK ==
    /\ at \in {tags[i].offset : i \in 1 .. Len(tags)} \cup {total_size}
    /\ Len(regions) <= MAX_MEMORY_REGIONS
    /\ \A i \in 1 .. Len(regions) : regions[i].size > 0
    /\ bootPhase = "halted" => Len(regions) = MAX_MEMORY_REGIONS

\* From the first reservation to the heap, the table is exactly the usable memory
\* without the pages reserved so far, and no page is in it twice: nothing the
\* boot loader or the kernel keeps is given to the heap, and nothing is wasted.
TableIsWhatIsLeft ==
    bootPhase \in {"reserving", "ready"} =>
        /\ TableUnits = UsableUnits \ TakenUnits
        /\ \A i, j \in 1 .. Len(regions) : i # j => UnitsOf(regions[i]) \cap UnitsOf(regions[j]) = {}

\* What the tags name is reserved by the time the heap gets the memory: every
\* text, every module and its name.
TagsAreReserved ==
    bootPhase = "ready" =>
        \A i \in 1 .. Len(tags) :
            LET tag == tags[i].tag
            IN /\ tag.type = "MODULE" => tag.range \in taken
               /\ tag.type \in {"MODULE", "TEXT"} /\ tag.text.start # 0 => tag.text \in taken

\* The invariant of the boot memory map: the table is the usable memory that nothing
\* reserves, and everything the boot loader left behind is reserved.
MapSound ==
    /\ MemoryMapTypeOK
    /\ TableIsWhatIsLeft
    /\ TagsAreReserved
=============================================================================
