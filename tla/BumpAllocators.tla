--------------------------- MODULE BumpAllocators ---------------------------
(***************************************************************************)
(* Temporary_Allocator_State and Arena_Allocator_State of kstd/allocator.hh *)
(* under mem::alloc and mem::realloc.  Addresses are integers; every buffer *)
(* the backing allocator hands out gets addresses of its own, aligned to    *)
(* MAX_ALIGN and no better.  Clients resize with the alignment they         *)
(* allocated with, and use nothing from before a reset or a rewind.         *)
(***************************************************************************)
EXTENDS Integers, Sequences, FiniteSets

CONSTANTS
    MAX_ALIGN,
    OVERFLOW_PAGE_HEADER_SIZE,
    ORIGINAL_SIZE,      \* of the temporary allocator and the arena
    RequestSizes,
    RequestAlignments,
    STRIDE,             \* between the addresses of two buffers; more than any page
    MAX_PAGES,          \* bound on the overflow pages alive at once
    MAX_HELD,           \* bound on the allocations clients hold
    MAX_MARKS           \* bound on the marks alive at once

larger(m, n) == IF m > n THEN m ELSE n

OverflowSize(size, alignment) ==
    larger(larger(0, ORIGINAL_SIZE - OVERFLOW_PAGE_HEADER_SIZE), size + alignment)

ASSUME BumpAssumption ==
    /\ MAX_ALIGN \in Nat \ {0}
    /\ OVERFLOW_PAGE_HEADER_SIZE \in Nat \ {0} /\ OVERFLOW_PAGE_HEADER_SIZE % MAX_ALIGN = 0
    /\ ORIGINAL_SIZE \in Nat \ {0}
    /\ RequestSizes \subseteq Nat /\ RequestAlignments \subseteq Nat \ {0}
    /\ MAX_PAGES \in Nat

\* Buffers of different numbers do not meet, wherever in its stride each begins.
ASSUME StrideAssumption ==
    /\ STRIDE \in Nat /\ MAX_ALIGN + ORIGINAL_SIZE < STRIDE
    /\ \A size \in RequestSizes, alignment \in RequestAlignments :
           MAX_ALIGN + OVERFLOW_PAGE_HEADER_SIZE + OverflowSize(size, alignment) < STRIDE

VARIABLES
    bump,       \* original, size, occupied, total, high_water_mark and the pages, newest first
    backed,     \* over a caller's "buffer", "backed" by an allocator, an "arena", or "none"
    held,       \* the clients' allocations: [start, size, alignment]
    marks,      \* marks a client may still rewind to, with what was held then
    outcome     \* of the last request

bumpVars == <<bump, backed, held, marks, outcome>>

AlignUp(n, alignment) == ((n + alignment - 1) \div alignment) * alignment
BufferAt(n, skew) == n * STRIDE + skew * MAX_ALIGN

\* The page that is being filled: data and size.
Current(b) == IF b.pages = <<>> THEN [data |-> b.original, size |-> ORIGINAL_SIZE]
              ELSE [data |-> Head(b.pages).base + OVERFLOW_PAGE_HEADER_SIZE, size |-> Head(b.pages).size]

BuffersOf(b) == {[data |-> b.original, size |-> ORIGINAL_SIZE]}
                \cup {[data |-> b.pages[i].base + OVERFLOW_PAGE_HEADER_SIZE, size |-> b.pages[i].size] :
                         i \in DOMAIN b.pages}

BumpInit ==
    /\ bump = [original |-> 0, occupied |-> 0, total |-> 0, high_water_mark |-> 0, pages |-> <<>>]
    /\ backed = "none" /\ held = {} /\ marks = <<>> /\ outcome = "none"

(* The constructors: over memory of the caller's, or over a buffer of the   *)
(* backing allocator, which must not refuse.                                *)
construct(how) ==
    /\ backed = "none" /\ how \in {"buffer", "backed"}
    /\ backed' = how
    /\ bump' = [bump EXCEPT !.original = BufferAt(1, 1)]
    /\ UNCHANGED <<held, marks, outcome>>

construct_arena ==
    /\ backed = "none"
    /\ backed' = "arena"
    /\ bump' = [bump EXCEPT !.original = BufferAt(1, 0)]
    /\ UNCHANGED <<held, marks, outcome>>

-----------------------------------------------------------------------------
\* Bumps the current page up to address next.
Advance(b, next) ==
    LET data == Current(b).data
        total == b.total + next - (data + b.occupied) IN
    [b EXCEPT !.occupied = next - data, !.total = total, !.high_water_mark = larger(@, total)]

Aligned(b, alignment) == AlignUp(Current(b).data + b.occupied, alignment)
FitsPage(b, size, alignment) ==
    Aligned(b, alignment) + size <= Current(b).data + Current(b).size

add_new_overflow_page(b, size, alignment, skew) ==
    [b EXCEPT !.pages = <<[base |-> BufferAt(Len(@) + 2, skew), size |-> OverflowSize(size, alignment)]>> \o @,
              !.occupied = 0]

Give(b, size, alignment) ==
    /\ bump' = Advance(b, Aligned(b, alignment) + size)
    /\ held' = held \cup {[start |-> Aligned(b, alignment), size |-> size, alignment |-> alignment]}
    /\ outcome' = "given"

Refuse(why) == outcome' = why /\ UNCHANGED held

(* ALLOCATE: from the current page, else from a new overflow page, which    *)
(* the backing allocator may refuse.  The page stays even if the request    *)
(* then does not fit.                                                       *)
ALLOCATE(size, alignment) ==
    \/ /\ backed = "none"
       /\ Refuse("uninitialized") /\ UNCHANGED bump
    \/ /\ backed # "none" /\ size = 0
       /\ Refuse("nothing") /\ UNCHANGED bump
    \/ /\ backed # "none" /\ size > 0 /\ FitsPage(bump, size, alignment)
       /\ Give(bump, size, alignment)
    \/ /\ backed \in {"buffer", "backed"} /\ size > 0 /\ ~FitsPage(bump, size, alignment)
       /\ \/ Refuse("out_of_memory") /\ UNCHANGED bump
          \/ /\ backed = "backed" /\ Len(bump.pages) < MAX_PAGES
             /\ \E skew \in {0, 1} :
                  LET b == add_new_overflow_page(bump, size, alignment, skew) IN
                  IF FitsPage(b, size, alignment) THEN Give(b, size, alignment)
                  ELSE bump' = b /\ Refuse("page_too_small")

(* The arena has one buffer; current_point is data + occupied.              *)
Arena_ALLOCATE(size, alignment) ==
    \/ size = 0 /\ Refuse("nothing") /\ UNCHANGED bump
    \/ size > 0 /\ FitsPage(bump, size, alignment) /\ Give(bump, size, alignment)
    \/ size > 0 /\ ~FitsPage(bump, size, alignment) /\ Refuse("out_of_memory") /\ UNCHANGED bump

Allocate(size, alignment) ==
    \/ backed = "arena" /\ Arena_ALLOCATE(size, alignment)
    \/ backed # "arena" /\ ALLOCATE(size, alignment)

alloc(size, alignment) ==
    /\ Cardinality(held) < MAX_HELD
    /\ Allocate(size, alignment)
    /\ UNCHANGED <<backed, marks>>

Arena_InPlace(a, size) ==
    /\ a.start + a.size = bump.original + bump.occupied
    /\ a.start + size <= bump.original + ORIGINAL_SIZE

(* mem::realloc: RESIZE grows the newest allocation in place; any other     *)
(* growth allocates and copies, and nothing is freed.                       *)
InPlace_AnyAllocation(a, size) == a.start + size <= Current(bump).data + Current(bump).size
InPlace(a, size) ==
    /\ a.start + a.size = Current(bump).data + bump.occupied
    /\ a.start + size <= Current(bump).data + Current(bump).size

GrowsInPlace(a, size) == IF backed = "arena" THEN Arena_InPlace(a, size) ELSE InPlace(a, size)

realloc(a, size) ==
    /\ a \in held
    /\ UNCHANGED <<backed, marks>>
    /\ \/ /\ size <= a.size             \* a pointer to the same memory, or none
          /\ held' = IF size = 0 THEN held \ {a} ELSE (held \ {a}) \cup {[a EXCEPT !.size = size]}
          /\ outcome' = "shrunk"
          /\ UNCHANGED bump
       \/ /\ size > a.size /\ GrowsInPlace(a, size)
          /\ bump' = Advance(bump, a.start + size)
          /\ held' = (held \ {a}) \cup {[a EXCEPT !.size = size]}
          /\ outcome' = "grown"
       \/ /\ size > a.size /\ ~GrowsInPlace(a, size) /\ Cardinality(held) < MAX_HELD
          /\ Allocate(size, a.alignment)     \* the client may still use a

mark ==
    /\ backed \in {"buffer", "backed"} /\ Len(marks) < MAX_MARKS
    /\ marks' = Append(marks, [pages |-> Len(bump.pages), occupied |-> bump.occupied, total |-> bump.total])
    /\ UNCHANGED <<bump, backed, held, outcome>>

\* free_overflow_pages(target): the newest pages go until target is on top.
FreeOverflowPages(b, n) == [b EXCEPT !.pages = SubSeq(@, Len(@) - n + 1, Len(@))]

\* Allocated before the mark and not grown since.
Older(a, m) ==
    LET b == FreeOverflowPages(bump, m.pages)
        page == Current(b) IN
    /\ \E p \in BuffersOf(b) : p.data <= a.start /\ a.start < p.data + p.size
    /\ page.data <= a.start /\ a.start < page.data + page.size => a.start + a.size <= page.data + m.occupied

(* What was allocated since is given up; what is older is still held.       *)
rewind(k) ==
    /\ marks' = SubSeq(marks, 1, k - 1)
    /\ bump' = [FreeOverflowPages(bump, marks[k].pages) EXCEPT !.occupied = marks[k].occupied,
                                                               !.total = marks[k].total]
    /\ held' = {a \in held : Older(a, marks[k])}
    /\ outcome' = "rewound"
    /\ UNCHANGED backed

reset ==
    /\ backed \in {"buffer", "backed"}
    /\ bump' = [FreeOverflowPages(bump, 0) EXCEPT !.occupied = 0, !.total = 0, !.high_water_mark = 0]
    /\ held' = {} /\ marks' = <<>> /\ outcome' = "reset"
    /\ UNCHANGED backed

Arena_reset ==
    /\ backed = "arena"
    /\ bump' = [bump EXCEPT !.occupied = 0, !.total = 0]
    /\ held' = {} /\ outcome' = "reset"
    /\ UNCHANGED <<backed, marks>>

(* The arena may be given a new buffer when nobody uses the old one.        *)
resize_and_dont_copy_old_memory ==
    /\ backed = "arena" /\ bump.original = BufferAt(1, 0)
    /\ bump' = [bump EXCEPT !.original = BufferAt(MAX_PAGES + 2, 0), !.occupied = 0, !.total = 0]
    /\ held' = {} /\ marks' = <<>> /\ outcome' = "reset"
    /\ UNCHANGED backed

(* The destructor gives back every overflow page and then the buffer.       *)
destroy ==
    /\ backed \in {"buffer", "backed"}
    /\ bump' = [FreeOverflowPages(bump, 0) EXCEPT !.original = 0, !.occupied = 0, !.total = 0,
                                                  !.high_water_mark = 0]
    /\ held' = {} /\ marks' = <<>> /\ outcome' = "none" /\ backed' = "none"

destroy_arena ==
    /\ backed = "arena"
    /\ bump' = [bump EXCEPT !.original = 0, !.occupied = 0, !.total = 0, !.high_water_mark = 0]
    /\ held' = {} /\ outcome' = "none" /\ backed' = "none"
    /\ UNCHANGED marks

BumpNext ==
    \/ \E how \in {"backed", "buffer"} : construct(how)
    \/ construct_arena \/ destroy \/ destroy_arena
    \/ \E size \in RequestSizes, alignment \in RequestAlignments : alloc(size, alignment)
    \/ \E a \in held, size \in RequestSizes : realloc(a, size)
    \/ mark \/ reset \/ Arena_reset \/ resize_and_dont_copy_old_memory
    \/ \E k \in DOMAIN marks : rewind(k)

BumpSpec == BumpInit /\ [][BumpNext]_bumpVars

-----------------------------------------------------------------------------
BumpTypeOK ==
    /\ bump.occupied \in 0 .. Current(bump).size
    /\ (bump.original = 0) = (backed = "none")
    /\ bump.total \in Nat /\ bump.high_water_mark \in Nat
    /\ Len(bump.pages) <= MAX_PAGES
    /\ outcome \in {"none", "uninitialized", "nothing", "given", "out_of_memory", "page_too_small", "shrunk", "grown",
                    "rewound", "reset"}

(* No two allocations in use share a byte, whatever was rewound or grown in *)
(* between, and each lies in a page that has not been freed.                *)
HeldApart ==
    /\ \A a, b \in held : a # b => a.start + a.size <= b.start \/ b.start + b.size <= a.start
    /\ \A a \in held : /\ a.start % a.alignment = 0
                       /\ \E p \in BuffersOf(bump) : p.data <= a.start /\ a.start + a.size <= p.data + p.size

(* A new overflow page is large enough for the request it was made for,     *)
(* however badly it is aligned.                                             *)
OverflowSatisfies == outcome # "page_too_small"

(* bytes_used() counts every byte in use, and a rewind brings it back.      *)
BytesOf(a) == a.start .. a.start + a.size - 1
UsedCoversHeld ==
    /\ bump.total >= Cardinality(UNION {BytesOf(a) : a \in held})
    /\ bump.high_water_mark >= bump.total

\* The bump allocators' invariant: what is held lies apart, in pages that are there
\* and large enough for it, and is counted, through every growth, mark and rewind.
ArenasSound ==
    /\ BumpTypeOK
    /\ HeldApart
    /\ OverflowSatisfies
    /\ UsedCoversHeld
=============================================================================
