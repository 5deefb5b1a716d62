-------------------------------- MODULE Buddy --------------------------------
(***************************************************************************)
(* The kernel heap: Buddy_Allocator_State of gameos/allocator.hh.           *)
(*                                                                          *)
(* An address counts units of one Allocation_Header; a page is PAGE units,  *)
(* and orders count from MIN_ORDER.  Each operation holds the allocator's   *)
(* spinlock with interrupts off from its first access to its last, so it is *)
(* one action.  Memory is what the allocator stores in it: the links of the *)
(* free lists, and the header in the unit before each pointer it returned.  *)
(***************************************************************************)
EXTENDS Integers, Sequences, FiniteSets, FiniteSetsExt, SequencesExt, Functions

CONSTANTS
    PAGE,           \* units of a page (128 in the code), a power of two
    MAX_ORDER,      \* bound on the order of a block (51 above MIN_ORDER in the code)
    INT_LIMIT,      \* first multiple of a page that an int cannot hold (2^31 bytes)
    Regions,        \* usable memory: a sequence of [base, size], not page aligned
    Sizes,          \* request sizes
    Alignments,     \* request alignments, powers of two
    Realigns,       \* whether callers resize with another alignment than they allocated with
    MAX_LIVE        \* bound on the number of allocations alive at once

Orders == 0 .. MAX_ORDER

\* 1 << order, counted in units and from MIN_ORDER.
BlockSizes[order \in Orders] == IF order = 0 THEN PAGE ELSE 2 * BlockSizes[order - 1]
block_size_for_order(order) == BlockSizes[order]

Span(base, size) == base .. base + size - 1
Units == UNION {Span(Regions[i].base, Regions[i].size) : i \in DOMAIN Regions}
Garbage == [state |-> "GARBAGE"]

ASSUME PageAssumption == PAGE \in Nat \ {0, 1} /\ MAX_ORDER \in Nat
ASSUME RegionsAssumption ==
    /\ Regions \in Seq([base : Nat, size : Nat])
    /\ \A i, j \in DOMAIN Regions :
        i # j => Span(Regions[i].base, Regions[i].size) \cap Span(Regions[j].base, Regions[j].size) = {}
ASSUME RequestAssumption ==
    /\ Sizes \subseteq Nat \ {0}
    /\ Alignments \subseteq Nat \ {0}
    /\ \A a \in Alignments, o \in Orders : a % BlockSizes[o] = 0 \/ BlockSizes[o] % a = 0  \* powers of two
    /\ Realigns \in BOOLEAN /\ INT_LIMIT \in Nat
    /\ MAX_LIVE \in Nat

VARIABLES
    free_lists,     \* per order, the bases of its free blocks, head first
    header,         \* per pointer, the Allocation_Header stored before it
    live,           \* the callers' view: size and alignment of each pointer they hold
    corrupted,      \* pointers whose payload the allocator has overwritten
    added,          \* number of regions handed over by mem::initialize
    current,        \* where add_region has come to in the last of them
    panic

buddyVars == <<free_lists, header, live, corrupted, added, current, panic>>

BuddyInit ==
    /\ free_lists = [o \in Orders |-> <<>>]
    /\ header = [p \in Units |-> Garbage]
    /\ live = [p \in {} |-> p]
    /\ corrupted = {}
    /\ added = 0 /\ current = 0
    /\ panic = "none"

-----------------------------------------------------------------------------
align_up(value, alignment) == ((value + alignment - 1) \div alignment) * alignment
align_down(value, alignment) == (value \div alignment) * alignment

(* base ^ block_size: flips one bit.                                        *)
BuddyOf(base, order) ==
    LET size == block_size_for_order(order) IN
    IF (base \div size) % 2 = 0 THEN base + size ELSE base - size

next_block_size(required) ==
    Min({block_size_for_order(o) : o \in {o \in Orders : o = MAX_ORDER \/ block_size_for_order(o) >= required}})

(* The loop doubles an int and compares it with a u64: a value past the     *)
(* int's range is negative, hence larger than every size once converted.    *)
order_for_block_size(size) ==
    Min({o \in Orders : \/ o = MAX_ORDER
                        \/ block_size_for_order(o) >= INT_LIMIT
                        \/ block_size_for_order(o) >= size})

push_free_block(lists, base, order) == [lists EXCEPT ![order] = <<base>> \o @]
is_free_block(order, base) == base \in ToSet(free_lists[order])

\* The base of the order-k block around base: what merging up to k yields.
MergedBase(base, k) == align_down(base, block_size_for_order(k))

RemoveChain(lists, base, from, to) ==
    [o \in Orders |->
        IF o \in from .. to - 1
        THEN RemoveFirst(lists[o], BuddyOf(MergedBase(base, o), o))
        ELSE lists[o]]

ChainIsFree(base, from, to) ==
    \A o \in from .. to - 1 : is_free_block(o, BuddyOf(MergedBase(base, o), o))

(* Callers fill the memory they get; stores of the allocator itself show up *)
(* in header, and in corrupted when they hit the payload of a live pointer. *)
Payload(p) == Span(p, live[p].size)
Filled(h, p, size) == [u \in Units |-> IF u - 1 \in Span(p, size) THEN Garbage ELSE h[u]]
Hit(units) == {p \in DOMAIN live : Payload(p) \cap units # {}}

Header(base, order, size, alignment) ==
    [state |-> "LIVE", block_base |-> base, order |-> order,
     requested_size |-> size, requested_alignment |-> alignment]

-----------------------------------------------------------------------------
(* add_region: cut the whole pages of a region into the largest aligned     *)
(* blocks, from its start.  mem::initialize calls it before anybody else    *)
(* has the allocator, so that each turn of its loop is an action.           *)
region_start(i) == align_up(Regions[i].base, PAGE)
region_end(i) == align_down(Regions[i].base + Regions[i].size, PAGE)
Carving == added > 0 /\ current < region_end(added)
HeapReady == added = Len(Regions) /\ ~Carving

AddRegion ==
    /\ added < Len(Regions) /\ ~Carving
    /\ added' = added + 1
    /\ current' = region_start(added + 1)
    /\ UNCHANGED <<free_lists, header, live, corrupted, panic>>

\* The largest power of two of pages that fits in what is left, and that current
\* is aligned to.
BlockFits(o) == block_size_for_order(o) <= region_end(added) - current /\ current % block_size_for_order(o) = 0

AddBlock ==
    LET block_size == block_size_for_order(Max({o \in Orders : BlockFits(o)})) IN
    /\ Carving
    /\ free_lists' = push_free_block(free_lists, current, order_for_block_size(block_size))
    /\ current' = current + block_size
    /\ UNCHANGED <<header, live, corrupted, added, panic>>

-----------------------------------------------------------------------------
(* ALLOCATE: take the first block of the smallest order that has one, and   *)
(* push the upper halves it is split into.                                  *)
Allocate(size, alignment) ==
    LET required == size + alignment + 1
        target == order_for_block_size(next_block_size(required))
        found == {o \in target .. MAX_ORDER : free_lists[o] # <<>>}
    IN
    /\ HeapReady
    /\ Cardinality(DOMAIN live) < MAX_LIVE
    /\ found # {}                        \* else OUT_OF_MEMORY
    /\ LET order == Min(found)
           base == Head(free_lists[order])
           user_ptr == align_up(base + 1, alignment)
           split == [o \in Orders |->
                        IF o = order THEN Tail(free_lists[o])
                        ELSE IF o \in target .. order - 1
                        THEN <<base + block_size_for_order(o)>> \o free_lists[o]
                        ELSE free_lists[o]]
           links == {base + block_size_for_order(o) : o \in target .. order - 1}
       IN IF user_ptr + size > base + block_size_for_order(target)
          THEN \* OUT_OF_MEMORY after all: the split is not undone
               /\ free_lists' = push_free_block(split, base, target)
               /\ corrupted' = corrupted \cup Hit(links \cup {base})
               /\ UNCHANGED <<header, live, added, current, panic>>
          ELSE /\ free_lists' = split
               /\ header' = Filled([header EXCEPT ![user_ptr] = Header(base, target, size, alignment)],
                                   user_ptr, size)
               /\ live' = [p \in DOMAIN live \cup {user_ptr} |->
                              IF p = user_ptr THEN [size |-> size, alignment |-> alignment] ELSE live[p]]
               /\ corrupted' = corrupted \cup Hit(links \cup {user_ptr - 1})
               /\ UNCHANGED <<added, current, panic>>

(* FREE: merge with the free buddies, lowest order first, as far as they go. *)
Coalesced_Never(base, order) == order
Coalesced(base, order) ==
    Max({k \in order .. MAX_ORDER : ChainIsFree(base, order, k)})

Free(p) ==
    LET h == header[p]
        k == Coalesced(h.block_base, h.order)
        base == MergedBase(h.block_base, k)
    IN
    /\ p \in DOMAIN live
    /\ IF h.state # "LIVE"
       THEN /\ panic' = "Buddy allocator: double free"
            /\ UNCHANGED <<free_lists, header, live, corrupted, added, current>>
       ELSE /\ free_lists' = push_free_block(RemoveChain(free_lists, h.block_base, h.order, k), base, k)
            /\ header' = [header EXCEPT ![p].state = "FREED"]
            /\ live' = Restrict(live, DOMAIN live \ {p})
            /\ corrupted' = (corrupted \cup Hit({p - 1, base})) \ {p}
            /\ UNCHANGED <<added, current, panic>>

Available(p) == header[p].block_base + block_size_for_order(header[p].order) - p
FitsInBlock(p, size, alignment) ==
    size <= Available(p) /\ alignment = header[p].requested_alignment

ResizeWithin(p, size, alignment) ==
    /\ FitsInBlock(p, size, alignment)
    /\ header' = Filled([header EXCEPT ![p].requested_size = size], p, size)
    /\ live' = [live EXCEPT ![p].size = size]
    /\ UNCHANGED <<free_lists, corrupted, added, current, panic>>

RetireHeader(h, p) == [h EXCEPT ![p].state = "FREED"]

\* The merged block may start lower, so the payload may move; the header that
\* was before p is retired last.
ResizeMerge(p, size, alignment) ==
    LET h == header[p]
        target == order_for_block_size(next_block_size(size + alignment + 1))
        base == MergedBase(h.block_base, target)
        user == align_up(base + 1, alignment)
        copied == Span(user, Min({live[p].size, size}))
        stores == [header EXCEPT ![user] = Header(base, target, size, alignment)]
    IN
    /\ ~FitsInBlock(p, size, alignment)
    /\ target > h.order
    /\ ChainIsFree(h.block_base, h.order, target)
    /\ free_lists' = RemoveChain(free_lists, h.block_base, h.order, target)
    /\ IF user + size > base + block_size_for_order(target)
       THEN UNCHANGED <<header, live, corrupted>>   \* the buddies are not given back
       ELSE /\ header' = Filled(RetireHeader(stores, p), user, size)
            /\ live' = [q \in (DOMAIN live \ {p}) \cup {user} |->
                           IF q = user THEN [size |-> size, alignment |-> alignment] ELSE live[q]]
            /\ corrupted' = (corrupted \cup Hit({user - 1, p - 1})
                               \cup {q \in {user} : p \in corrupted \/ p - 1 \in copied})
                              \ ({p} \ {user})
    /\ UNCHANGED <<added, current, panic>>

(* RESIZE of a pointer in use: within its block, or by taking the free      *)
(* buddies up to the order it needs.  Every other case leaves the state     *)
(* alone (MODE_NOT_IMPLEMENTED: mem::realloc allocates, copies and frees).  *)
Resize(p, size, alignment) ==
    /\ p \in DOMAIN live
    /\ Realigns \/ alignment = live[p].alignment
    /\ p % alignment = 0
    /\ ResizeWithin(p, size, alignment) \/ ResizeMerge(p, size, alignment)

(* IS_THIS_YOURS: what the header before a pointer claims.                  *)
is_this_yours(p) ==
    LET h == header[p] IN
    /\ h.state = "LIVE"
    /\ p = align_up(h.block_base + 1, h.requested_alignment)
    /\ p + h.requested_size <= h.block_base + block_size_for_order(h.order)

-----------------------------------------------------------------------------
BuddyNext ==
    /\ panic = "none"
    /\ \/ AddRegion \/ AddBlock
       \/ \E size \in Sizes, alignment \in Alignments : Allocate(size, alignment)
       \/ \E p \in DOMAIN live : Free(p)
       \/ \E p \in DOMAIN live, size \in Sizes, alignment \in Alignments : Resize(p, size, alignment)

BuddySpec == BuddyInit /\ [][BuddyNext]_buddyVars

-----------------------------------------------------------------------------
Headers == [state : {"LIVE", "FREED"}, block_base : Units, order : Orders,
            requested_size : Sizes, requested_alignment : Alignments]
BuddyTypeOK ==
    /\ free_lists \in [Orders -> Seq(Units)]
    /\ header \in [Units -> Headers \cup {Garbage}]
    /\ DOMAIN live \subseteq Units
    /\ \A p \in DOMAIN live : live[p] \in [size : Sizes, alignment : Alignments]
    /\ corrupted \subseteq DOMAIN live
    /\ added \in 0 .. Len(Regions) /\ current \in Nat
    /\ panic \in {"none", "Buddy allocator: double free"}

\* Blocks as <<base, order, user>>; those that nobody uses have user 0, which is
\* never a pointer.
FreeBlocks == UNION {{<<base, o, 0>> : base \in ToSet(free_lists[o])} : o \in Orders}
LiveBlocks == {<<header[p].block_base, header[p].order, p>> : p \in DOMAIN live}
Blocks == FreeBlocks \cup LiveBlocks
Extent(b) == Span(b[1], block_size_for_order(b[2]))
UsablePages(i) == region_start(i) .. region_end(i) - 1
Usable == UNION {{u \in UsablePages(i) : i = added => u < current} : i \in 1 .. added}

(* No page is given out twice and none outside the usable ranges: free      *)
(* blocks and blocks in use never overlap, whatever was split, merged and   *)
(* grown, and every block is aligned to its size.                           *)
NoOverlap ==
    /\ \A o \in Orders : IsInjective(free_lists[o])
    /\ \A a, b \in Blocks : a # b => Extent(a) \cap Extent(b) = {}
    /\ \A b \in Blocks : Extent(b) \subseteq Usable /\ b[1] % block_size_for_order(b[2]) = 0

(* Where the heap is all it should be: no region is as large as the largest *)
(* block or reaches what an int can count, no aligned block lies astride    *)
(* two regions, and callers resize with the alignment they allocated with.  *)
(* RegionsManaged, FullyMerged and PayloadPreserved rest on it.             *)
OrdinaryUse ==
    /\ ~Realigns
    /\ \A i \in DOMAIN Regions :
           /\ region_end(i) - region_start(i) < INT_LIMIT
           /\ region_end(i) - region_start(i) < block_size_for_order(MAX_ORDER)
    /\ \A o \in Orders : \A base \in {u \in Units : u % block_size_for_order(o) = 0} :
           (\A u \in Span(base, block_size_for_order(o)) : \E i \in DOMAIN Regions : u \in UsablePages(i))
             => \A i \in DOMAIN Regions :
                   base \in UsablePages(i) => Span(base, block_size_for_order(o)) \subseteq UsablePages(i)

(* add_region, splits and merges lose no page: "add_region() for each       *)
(* usable range" makes all of it allocatable.                               *)
RegionsManaged == Usable \subseteq UNION {Extent(b) : b \in Blocks}

(* Memory the callers hold lies inside its block, behind its header, with   *)
(* the alignment they asked for; neither another allocation nor a free list *)
(* link has overwritten that header.                                        *)
HeadersIntact ==
    \A p \in DOMAIN live :
        /\ header[p] # Garbage
        /\ header[p].requested_size = live[p].size
        /\ header[p].requested_alignment = live[p].alignment
        /\ Span(p - 1, live[p].size + 1) \subseteq
             Span(header[p].block_base, block_size_for_order(header[p].order))
        /\ p % live[p].alignment = 0

(* Freeing merges all there is to merge: an aligned range of free pages     *)
(* always lies inside one free block, so a request that it could satisfy    *)
(* never fails.                                                             *)
FullyMerged ==
    LET free == UNION {Extent(b) : b \in FreeBlocks} IN
    \A o \in Orders : \A base \in {u \in free : u % block_size_for_order(o) = 0} :
        Span(base, block_size_for_order(o)) \subseteq free
          => \E b \in FreeBlocks : Span(base, block_size_for_order(o)) \subseteq Extent(b)

(* IS_THIS_YOURS never claims a pointer that has been freed or moved away.  *)
OwnershipSound == \A p \in Units : is_this_yours(p) => p \in DOMAIN live

(* mem::realloc "preserves memory": no store of the allocator hits bytes a  *)
(* caller still holds.                                                      *)
PayloadPreserved == corrupted = {}

(* Callers free what they hold, once: "Buddy allocator: double free" never  *)
(* fires.                                                                   *)
NoFalseDoubleFree == panic = "none"

\* The buddy allocator's invariant: free blocks and blocks in use are a partition of
\* the regions, merged as far as they go, and no store hits what a caller holds.
HeapSound ==
    /\ BuddyTypeOK
    /\ NoOverlap
    /\ RegionsManaged
    /\ HeadersIntact
    /\ FullyMerged
    /\ OwnershipSound
    /\ PayloadPreserved
=============================================================================
