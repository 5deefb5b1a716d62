# GameOS in TLA+

GameOS is a freestanding x86-64 kernel that boots through multiboot2, brings up
all processors, and runs a game (Tetris) on top of its own threads, heap, input
and graphics code. This directory models the parts of it whose correctness
depends on interleaving, on long call sequences or on boundary values, checks
them with TLC on small instances, and proves the most important properties with
TLAPS for every instance.

Run a model with `tlc -config MCThreads_smp3.cfg MCThreads`, a proof with
`tlapm ThreadsProofs.tla`. `PROJECT.json` lists every run, the source lines
behind every definition, the mutants that show each property can fail, the
hazards and the findings.

## 1. Inventory

| Part | State | Operations | Interaction | Hard behaviour |
| --- | --- | --- | --- | --- |
| Kernel threads (`gameos/threads.hh`, `context_switch.S`) | thread table, ready queue, current thread per CPU, saved contexts | spawn, yield, finish, idle_poll, detach, join | called by kernel_main, thread code and every AP's idle loop; uses heap, TLS, ring buffer, spinlock | everything after an unlock races with the other CPUs; slots are reused |
| Thread-local storage (`thread_local_storage.hh`, `kstd/context.hh`) | %fs per CPU, a block per thread with its image, context, temporary storage and destructors | create, activate, destroy, `__cxa_thread_atexit`, PUSH_ALLOCATOR and its like | every context switch activates; every allocation asks the context | destructors run on another thread's stack; the context is overwritten by each activation |
| Kernel heap (`gameos/allocator.hh`) | free list per order, header before each allocation | add_region, ALLOCATE, FREE, RESIZE, IS_THIS_YOURS | regions from the boot memory map; every allocation of the kernel | long sequences of splits and merges, alignment, integer widths |
| Boot memory map (`memory.hh`, `multiboot2.hh`) | table of usable regions | walk over the tags, reserve_range, initialize | feeds the heap | a reservation splits or removes regions while the table is walked |
| ACPI tables and line routing (`advanced_configuration_and_power_interface.hh`, `ioapic.hh`) | root pointer, MADT, lists of CPUs, IOAPICs and overrides, redirection entries | find_rsdp, find_madt, parse_madt, route | firmware memory; feeds AP start-up and the IOAPIC | broken tables, full lists, overridden lines |
| AP start-up and stop (`application_processor.hh`, `smp_trampoline.S`) | online and frozen flags, trampoline words, breadcrumbs | initialize_aps, ap_main, request_stop, freeze_cpu | BSP and one AP at a time over shared memory and IPIs | time-outs racing late APs, an AP that is online before it is ready |
| Panic and halt (`assert.hh`) | panicking flag, hook | halt::forever | stops the other CPUs | two CPUs panic at once |
| Interrupt dispatch, PIC, IOAPIC, local APIC, time (`interrupts.hh`, `time.hh`, ...) | masks, pending and in-service interrupts, tick count and owner | start-up order, isr_dispatch, end of interrupt, sleep_ticks | devices, timers, IPIs | the source of a line and of the tick changes while interrupts are on |
| TLB shootdown (`translation_lookaside_buffer.hh`) | address, acknowledgment counters, lock | shootdown, interrupt handler | IPIs between CPUs | waiting for CPUs that have interrupts off |
| PS/2 (`ps2.hh`) | controller and device settings, prefix, packet bytes | initialize, keyboard and mouse interrupt | submits to Input | lost bytes, devices that do not answer |
| Input state (`gameos/input.hh`) | held flags, edges of this and the next frame, sums, event queue | submit_event, begin_frame, poll_event, reset | PS/2 interrupt handlers write, the game reads | interrupts around begin_frame, a full queue |
| Graphics (`gfx.hh`, `kstd/math.hh`) | requests, depth and colour buffers of two frames, an arena each | one function per shape, draw_frame, swap_buffers | the game asks, the frame buffer shows | clipping, boundaries, order of passes, reuse of the arenas |
| Tetris (`tetris/main.hh`) | board, bodies, layers to destroy | the rules of one frame | Input, graphics | cells of a body moved through a grid they occupy |
| Allocators (`kstd/allocator.hh`) | bump pointers, overflow pages, records of the Debug allocator | alloc, free, realloc, mark, rewind, reset | backed by each other and the heap | in-place growth, marks, a failure half-way |
| Containers (`ring_buffer.hh`, `hash_table.hh`, `array.hh`, `string_builder.hh`, `byte_reader.hh`) | elements, slots, buffers, position | insert, remove, grow, append, read | everywhere | wrap-around, tombstones, lifetimes, partial appends |
| DWARF and stack traces (`dwarf.hh`, `stack_trace.hh`) | the lists of subprograms and rows | parse_subprograms, the line program, lookup, frame walk | a panic prints them | an entry that is stepped over wrongly shifts all later ones |
| Matrices and vectors (`matrix.hh`, `math.hh`) | | translate, rotate, scale, inverse, look-at, projections | graphics | order of multiplication, signs |
| Formatting, fonts, boot assembly, preprocessor, host shims | | | | not modelled, section 5 |

Correct means: no thread is lost, duplicated or run without its stack and TLS
block; every join returns and reclaims its own thread; every allocator hands out
disjoint memory and gets back what it gave; reserved memory reaches no heap; a
container holds what was put in it and destroys each element once; an interrupt
is ended where it came from and a stop request stops every CPU; a frame's edges
account for every key change; a frame shows what was asked for, in order; a
subprogram, row or frame of a trace is what the compiler meant; the tower of the
game is what its bodies left.

## 2. Modules

| Module | Models |
| --- | --- |
| `Threads` | `threads.hh` on any number of CPUs. A *flow* is a stack of its own: a CPU's boot flow or one spawned thread (an *incarnation*, so that slot reuse is visible). Code under `ready_lock` is one action, each unlocked stretch after it another. |
| `ThreadLifecycle` | what a user may rely on: spawned, returned, reclaimed, in this order and once per thread |
| `ThreadsInv`, `ThreadsProofs` | the inductive invariant of `Threads`; its proof, the safety theorems, the refinement of `ThreadLifecycle` |
| `Tls`, `TlsProofs` | `thread_local_storage.hh`, the context in a block's image and the PUSH scopes |
| `SmpBoot`, `SmpBootProofs` | start-up of the APs over the trampoline page, `ap_main` up to its idle loop, `halt::forever` and the stop protocol |
| `TlbShootdown`, `TlbShootdownProofs` | `tlb::shootdown` and its handler, with interrupt flags and pending IPIs explicit |
| `Interrupts`, `BootProofs` | delivery and end of interrupt from reset to the hand-over of devices, to an AP that may start late or never; PIC, local APICs, IOAPIC, ticks |
| `Acpi`, `BootProofs` | root pointer, MADT, the walk over its entries, the routing of the ISA lines |
| `Buddy`, `BuddyProofs` | `Buddy_Allocator_State`; addresses in units of one header, a page a power of two of them |
| `MemoryMap`, `BootProofs` | the walk over the boot loader's tags, the table of usable regions, `reserve_range` |
| `Ps2`, `InputProofs` | controller set-up, both interrupt handlers with scan code and packet state |
| `Input`, `InputProofs` | `input.hh`; keys and buttons are one set of switches, motion and wheel one set of axes |
| `Raster` | what pixels each drawing operation sets, with what depth and attributes |
| `Frames` | requests, passes, depth, blending and the two frame slots with their arenas |
| `Tetris` | the rules of `tetris/main.hh` on a `Grid3` |
| `BumpAllocators`, `LibraryProofs` | the temporary and the arena allocator under `mem::alloc` and `mem::realloc` |
| `DebugAllocator`, `LibraryProofs` | the Debug allocator over a heap that may refuse or resize itself |
| `RingBuffer`, `Fifo`, `LibraryProofs` | `Ring_Buffer`, the queue it promises, and the proof that it implements it. `Threads` and `Input` use sequences for their ring buffers on the strength of this theorem. |
| `Arrays`, `LibraryProofs` | `Array` and `Bounded_Array` with the lifetimes of their elements, slices, `alloc_array` |
| `StringBuilder`, `LibraryProofs` | `String_Builder`: its chain of buffers, the strings it hands out and how they are freed |
| `HashTable`, `LibraryProofs` | `Hash_Table`: probing, tombstones, rehashing, and the table that was moved from |
| `ByteReader` | `Byte_Reader`, LEB128 |
| `Matrices` | transforms, inverses, quaternions and projections over integers |
| `DebugInfo`, `LineTable` | the walk over `.debug_info`; the line program, address lookup and the walk over stack frames |
| `MC*` | the small instances for TLC |

How state and actions correspond to the code:

* **Threads.** The fields of `Thread` are one function each (`state`, `detached`,
  `cpu_affinity`, `block` for storage and TLS block, `context`). `on`, `tls` and
  `pc` are what the hardware knows: the stack a CPU executes on, its FS base, the
  place in the code. `polled`, `slot`, `target`, `join_cpu` are local variables
  that survive an unlock. `CreateThread`, `FillThread`, `EnqueueThread` are the
  three stretches of spawn; `Yield`/`YieldSwitch` and `FinishCurrent`/
  `FinishSwitch` the locked and unlocked halves of yield and finish_current;
  `IdlePollClaim`, `IdlePollSwitch`, `IdlePollReturn` those of idle_poll. The
  stores of idle_poll between the claim and the switch (350-357) are one action:
  between them no other CPU reads what they write except to compare it with DONE
  or FREE. Assertions are modelled: a failed one sets `panic`, and nothing
  happens after it. Two CPUs on one stack is undefined behaviour: the model stops
  there (`Undefined`), and the properties hold up to that point.
* **Tls.** `tls` is a block's own fields, `images` the context in its image,
  `pieces` every allocation alive with the allocator it came from. The steps of
  `destroy` are one action per destructor, because a destructor may construct
  another object. A block's own temporary storage is built without a backing
  allocator (`thread_local_storage.hh:94`), so it never has an overflow page. A
  thread is destroyed after its procedure returned, with no scope open.
* **SmpBoot.** `page` is the trampoline's data words and breadcrumbs, `taken` what
  an AP has read from them. The BSP's wait may time out at any moment. An NMI
  before `lidt` resets the machine, which ends a behaviour. Until an AP has filled in
  its core info, `%gs:0` is null and `cpu_local::current().cpu_index` is whatever lies
  in low memory: `freeze_cpu` then freezes, or fails the bounds assertion of
  `cpus_frozen` and panics (`HasCoreInfo`). `cpus_frozen` itself is left out, because
  no code reads it.
* **Frames.** A request paints a shape and, for a nine-patch with text, the glyphs in
  it, which the code paints at `DEPTH_FAR` whatever the depth of the box. The requests
  of the run combine passes, depths, transparency, order and texts.
* **Interrupts.** A handler is entered in one step and left, after its end of
  interrupt, in another. The controllers are external: what is masked, pending
  and in service. An AP comes up in four steps of its own (online, tables and core
  info, local APIC, interrupts), at any time after its start-up IPI or never, whether
  or not the BSP still waits for it. The BSP routes the devices to the first AP that
  is online: nowhere when there is none, and to APIC id 0, its own, when that AP has
  not filled in its id.
* **Acpi.** A table is a record that names the first test it fails; MADT entries
  have a type, a length and what is read of them; the table may end inside its
  last entry.
* **Buddy.** `mem::initialize` adds the regions before anyone else has the
  allocator: each turn of the loop in `add_region` is an action (`AddRegion`,
  `AddBlock`), and the operations wait for `HeapReady`. Each of those holds the
  lock throughout and is one action. `header`
  is what memory holds before each pointer, `Garbage` once a caller may have
  written there; `corrupted` records stores of the allocator into bytes that a
  caller holds. Requests that fail change nothing except where the code really
  leaves a trace (a split that is not undone, buddies that are not given back).
* **MemoryMap.** `boot_tag` is the boot loader (external), which lays its tags out;
  each tag of the two walks over them is one action. A call of `reserve_range` is
  an operator: `Turn` is one turn of its loop, `Reserving` the recursive function
  of the loop's states. A table that is full halts the kernel.
* **BumpAllocators.** Addresses are bytes. Buffers come from a backing allocator
  that puts each into a stride of addresses of its own, at any offset in it.
* **DebugAllocator.** The kernel's heap marks a block that it grew by merging as freed
  (the finding about `Buddy`), so it stops at an assertion when the wrapper frees or
  moves that block (`heap_stops`).
* **Ps2.** Scan codes and mouse bytes are the real ones, a movement has nine bits with
  the sign in the first byte of its packet. The driver reads no sign bit and takes 200
  to the right for 56 to the left; `beyond` counts how often. A byte is `Plain` when it
  cannot be taken for a first one. `inStep` ends when a byte is lost or an ACK comes
  late; it returns with a whole packet whose two movement bytes are plain, and
  with the packet after that the button is known again.
* **Input.** `physical`,
  `held_then`, `held_before`, `polled`, `travel` and `reported` of Input are
  history the properties compare the code's state with.
* **TlbShootdown.** `mapping` counts rewrites of a page table entry; the hardware
  may cache the current value at any time (`Walk`, external).
* **Arrays.** A cell is raw or holds an object; a constructor over an object or a
  destructor over a raw cell makes it bad for good. Freed storage keeps cells that
  are still alive; two arrays and one that grows need three storages.
* **DebugInfo, LineTable.** The compiler is external and writes entries or rows one
  by one in the sizes and opcodes of the DWARF standard; what it meant is kept
  and compared with what the parser makes of the bytes.
* **Raster, Matrices.** Floats are integers (half pixels, doubled quaternions,
  ratios multiplied out), for values on which the code's arithmetic is exact.

Where one part calls another, the callee is modelled by what it may do to the
caller: allocators refuse or move, handlers interrupt, firmware lies. Parts that
share no state are checked in one run, `MCLibrary` or `MCKernel`: `part` says
which one a behaviour exercises, and the variables of the others do not move.
Each of these modules ends in one invariant, named `...Sound`, whose conjuncts
are named and commented one by one: `HeapSound` is `NoOverlap`, `FullyMerged`,
`PayloadPreserved` and so on.

## 3. What the runs show

| Run | Bounds | Result |
| --- | --- | --- |
| `threads_smp3` | 3 CPUs, 2 slots, 3 spawns by main, pinned and free threads, join and detach | scheduling invariants, own TLS, live stacks, join reclaims its thread, refinement, the inductive invariant |
| `threads_smp2` | 2 CPUs, 2 slots, 3 spawns, fairness | joins return, detached threads are reclaimed |
| `threads_bsp` | the BSP alone, 3 slots, 3 spawns, fairness | main's join runs the work itself |
| `threads_resumed` (violation) | | finish_current's late save reaches `unreachable("Finished thread resumed")` |
| `threads_isolated` (violation) | | yield's early publication puts two CPUs on one stack and TLS block |
| `threads_pinned` (violation) | | join's cached CPU index makes it spin for ever |
| `tlb_safe` | 3 CPUs, 2 callers, 2 remaps, fairness | no stale translation, acknowledgments match, a shootdown returns unless two cross |
| `tlb_crossing` (violation) | 2 CPUs, 2 callers | two shootdowns deadlock |
| `smp_boot` | 2 APs, 2 CPUs that panic by themselves, fairness | own stack, core info and index for every AP, no NMI taken for an unexpected one, start-up ends, a stop stops everyone, the only CPU to panic prints unless its stop makes an AP without core info panic |
| `buddy_grow` (violation) | 4 pages | growth in place retires the live header: a false double free |
| `kernel` | below | `Input`, `Ps2`, `Interrupts`, `Buddy`, `MemoryMap`, `Acpi`, `Raster`, `Frames`, `Tetris` |
| `library` | below | `RingBuffer` implements `Fifo`; `BumpAllocators`, `DebugAllocator`, `HashTable`, `Arrays`, `StringBuilder`, `ByteReader`, `Matrices`, `DebugInfo`, `LineTable`, `Tls` |

The parts of `kernel`:

| Part | Bounds | Invariant |
| --- | --- | --- |
| input | a key, up to two movements of a mouse axis, queue of 2 | `EdgesExplainHeld`, `HeldIsPhysical`, `TravelConserved`, `QueueTellsHeld`: a frame's edges account for every change, also when events are dropped, and polling tells the same |
| ps2 | two keys that differ in the prefix only, an unknown code, two packets with one of two movements (beyond a signed byte, and an overflow), one byte lost or late | `Ps2Sound`: held keys and the pointer follow the devices, packets realign after a lost byte |
| interrupts | one AP; two ticks of each timer of CPU 0's, one of the AP's, two device interrupts, at any stage of start-up | `DispatchSound`: in service is what is being handled, ticks count once, the devices end up at one CPU that has its tables |
| heap | 6 pages in two ragged regions, orders 0-3, 3 live allocations | `HeapSound`: partition, full merging, headers, ownership, payload |
| map | up to 3 tags, maps of 2 to 4 ranges, a table of 3 regions, the kernel image inside a region | `MapSound`: the table is what is usable less what is reserved, and what a tag names is reserved |
| acpi | every search order with pointers and tables that fail each test; up to 4 MADT entries of 8 kinds, a table cut anywhere; one IOAPIC, two CPUs, two overrides | `MachineSound`: the lists are what the sound part of the table says, only sound tables are used, each line is on the pin, and with the signal, the firmware wired |
| game | 2 x 1 x 5 cells, two bodies, one key a frame, two camera angles | `GameSound`, `TowerStands`: bodies keep their shape and leave no ghosts, the tower changes only by landing bodies and full layers, shadow and drop agree |
| raster | a 6 x 4 screen, shapes at, across and outside its edges | `ShapesSound`: each pixel once, triangles with a common edge tile, lines connect, text is inside its measured box, texels are spread over their band |
| frames | 3 requests, 3 frames, one pixel | `FramesSound`: the screen shows the layers of the frame's requests in the order of passes, from texts that are still there; a nearer layer hides a farther one, except where a translucent wireframe or 2D shape in front left its depth |

The parts of `library`:

| Part | Bounds | Invariant |
| --- | --- | --- |
| ring | capacity 3, 3 values | `ImplementsFifo` (refinement) |
| bump | a buffer of 4, one overflow page alive, 2 allocations, one mark | `ArenasSound`: allocations are disjoint and aligned, a page holds the request it was made for, the counters cover what is held |
| debug | 5 blocks, sizes 0 to 2, a heap that refuses, moves, resizes or grows in place | `RecordsSound`: no false alarm, every block is a client's or a record's |
| hash | 3 keys, two of which collide, tables of 4 and 8 | `TableSound`: finds what was put, loses nothing by rehashing, keeps the room that ends a probe |
| arrays | 3 elements of 2 values, both kinds, two arrays | `ArraysSound`: contents, each object destroyed once, each storage owned once, the header inside its block |
| builder | 4 characters, buffers of 1 and 2, failing allocation | `TextSound`: the text is a prefix of what was appended, buffers are in the chain, freed with their size |
| reader | all sources of 4 of five bytes, bytes of 3 bits in words of 5 | `ReaderSound`: what is read is what is there, LEB128 refused only when it is cut |
| matrices | 3 operations of each transform, 3 quaternions, 16 view volumes | `TransformsSound`: the representations agree, operations apply in order, inverses undo |
| info, lines | 2 units, 2 entries, 12 forms; 3 rows, 18 opcodes, a stack of 3 frames | `DwarfSound`: every subprogram under its name, every row, address and frame at its line and function |
| tls | 2 CPUs, 3 blocks, 2 destructors, objects and scopes up to 4 (a scope counts twice) | `TlsSound`: every CPU on its own block, temporary storage not shared, all memory given back to where it came from, what is pushed ends with its scopes, destructors in order |

Why the bounds are enough: three spawns over two slots force reuse of a slot
while an older handle, context or CPU still refers to it; three CPUs let a
joiner, a spawner and a late finisher act at once; two ragged regions of six
pages reach splits and merges over two orders, misaligned region ends and
regions that meet; a queue of two reaches full, wrapped and dropped; two
callers and a third CPU reach every overlap of two shootdowns, two APs the reuse
of the trampoline page by a second one while the first is late. Three blocks are
an idle block, a thread and one that is destroyed meanwhile. Five layers hold a
body, a gap and a tower that loses a layer. Bytes of three bits make LEB128 of
three bytes overrun a word of five, as ten bytes overrun 64. The path of a
shootdown on the only CPU is in `TlbShootdown` and in no run: it is a local
flush that nothing interleaves with.

What the bounds leave out of `Buddy`: the runs resize with the alignment the
memory was allocated with (`Realigns = FALSE`) and keep every block below the
range of `int` (`INT_LIMIT`); `MCKernel` assumes `OrdinaryUse`, which says so and
which TLC evaluates for the regions of the run. Outside it the code misbehaves, as
`MCBuddy_grow.cfg` shows with sizes {1, 3, 7} and `Realigns = TRUE`, or with
`INT_LIMIT = 8`, when it checks the property named: growing to a smaller
alignment copies the payload over the old header and then stores FREED into it
(`PayloadPreserved` fails), and a block of 4 GiB or more is filed under order 31
(`RegionsManaged` fails).

Other limits of the code that the properties exclude, each noted at its hazard
in `PROJECT.json`: layers that sink while the falling body is next to the tower
lose the cells it covers; an array extended with a later slice of itself reads
freed storage when it grows; a resize of nullptr leaks the block when the Debug
allocator is refused its record; a movement of the mouse beyond a signed byte counts
256 too little or too much; while movement bytes look like first ones, a lost byte
shifts the packets that follow; a line wired to a second IOAPIC stays masked. `add` on a hash table
that was moved from stops at an assertion (`hash_table.hh:228`), since twice no
slots is no power of two; the model stops there too (`asserted`).

Deadlock checking is off where the program may stop: after a panic, when all
bounded work is done, when all memory is in use.

Fairness. A CPU that can go on does (its code is straight-line, interrupts are
enabled outside the locks); an AP in `hlt` is woken by its periodic timer;
thread procedures return, hence strong fairness of `FinishCurrent` for a thread
that runs again and again. kernel_main is only obliged to go on inside a call it
has made. For the shootdown: code that turned interrupts off turns them on
again, and a pending interrupt is taken when they are on, hence strong fairness
of the handler's entry. For start-up: a CPU that runs keeps running and an
interprocessor interrupt arrives; whether an AP answers its start-up IPI is up
to the hardware and has no fairness.

## 4. What is proved

`ThreadsProofs`, for any CPUs, slots and spawns, from the named assumptions of
`Threads` (the BSP is a CPU, the table is not empty, names are distinct):
`Spec => []IInv` and from it type correctness, `ExactlyOneHolder`,
`NoSchedulerPanic` and `NoHandlePanic`, `RunnableHasStack`, `RunsOnOwnTls`,
`JoinReclaimsItsThread` and the refinement of `ThreadLifecycle`.

The safety properties are not inductive. `IInv` adds what ties the parts
together: what each CPU executes and which slot its idle_poll holds (`CpuInv`);
that queued, claimed, current and half-built slots are pairwise distinct
(`QueueInv`, `HeldInv`, `NotLost`); that a slot's block is the live storage of
one incarnation (`StorageInv`); where the thread of a slot is for each of its
states; what handles and joins refer to; and that a CPU still on the stack of a
yielded or finished thread saves into the slot it came from unless that slot was
reclaimed (`SaveInv`), which is where the races of the findings enter. The proof
has one lemma per action and one step per conjunct.

`LibraryProofs`, for any capacity of a `Ring_Buffer`: `tail = (head + size) % N`,
and with it the refinement of `Fifo`, from facts about `%` below `2 * N`. For any
heap under a Debug allocator, with any blocks and sizes, that refuses, moves,
resizes or grows in place as it likes: `RecordsSound`. Inductive with it is that the heap's blocks
have natural sizes and records refer to blocks of the heap; a record enters,
leaves or changes together with the block of its client (`RecordLeaves`,
`RecordFollows`), also on the paths where one of the two calls below fails. The
assumptions are that no block is at the null pointer and that sizes are naturals.

`InputProofs`, for any switches, axes and capacity of the queue: types, the edge,
held and movement properties, and `QueueTellsHeld`. The last needs that the
queue's events are what was submitted since the reader's last poll, oldest
first, and that a drop is counted for good; the lemmas about `Append` and `Tail`
say how the last event that mentions a switch moves.

The second half of `InputProofs` is about the drivers of `Ps2`, for any keys with
set 1 codes, any codes without a key, any movements and any number of bytes under
way. `KeyboardFollows`: what the decoder will hold after the buffered byte and the
bytes still in the keyboard is the keyboard's truth, as a run of decoder states
over those bytes. `MouseFollows`: in step, the bytes from the ones read to the
ones to be sent are no packet, one or two, and `motion` with the movements of those is
the mouse's, less what a signed byte cannot hold. Coming back into step rests on
`PlainKept`: a byte that does not look like a first one leaves the driver with none
or two bytes, and two such bytes in a row with none. `Ps2Sound` follows, with
no condition on the movements.

`TlbShootdownProofs`, for any CPUs (there is one) and any bound on remaps:
`ShootdownSound`, hence `NoStaleTranslation`. A round is in progress exactly
while the lock is held (`LockDiscipline`, `RoundInProgress`): a CPU that the
caller still waits for has the interrupt pending or is in its handler
(`CallsOwe`), and one that has acknowledged has flushed after the rewrite.

`SmpBootProofs`, for any APs and any CPUs that panic: `BootSound` and
`StopIsExpected`. Inductive is what ties an AP to the trampoline page: at most
one AP is past its start-up IPI and not yet done with the page (`OneAtATime`),
and the page's words are those of the next AP (`PageIsForNext`), however late
that AP is; `StopSentAfterRequest` orders the flag and the interrupts. `StopIsExpected`
says why a CPU is on the panic path at all: its own assertion, or the NMI of a stop
between an AP's IDT and its core info (`BecauseOfAnother`: another AP's start does
not take that reason away). The BSP
starts the lowest AP that is left; that there is a lowest one is the only
induction, by the well-foundedness of the naturals.

The third part of `LibraryProofs` is about `BumpAllocators`, for any sizes,
alignments and bounds and wherever in its stride a backing buffer begins:
`ArenasSound`. Its inductive invariant `BumpInv` says of the buffers that they lie
in their strides, oldest lowest (`BuffersPlaced`), of the allocations that each is
inside one buffer and below its top (`HeldPlaced`), and of each mark that it is
no higher than the top and counts all that is held below it (`MarksSound`), which
is what a rewind to it needs. Every operation is
then one of four moves: the top goes up (`BumpedKeeps`), a client gives up some of
what it holds (`ShrinkKeeps`), a page comes (`PageKeeps`), or the state of a mark
comes back. `StrideAssumption` only says that two buffers do not meet, whatever
lies between them.

The fourth part of `LibraryProofs` is about `Arrays`, for any elements, capacities,
counts, alignments and addresses: `ArraysSound`. `Placed` says that a storage
holds exactly the elements its array was given, from its first cell on, with the
rest raw (`Filled`), that no two arrays share one, and that one without an array
is free. What an operation does to the cells is then an equation between
sequences: constructing behind the elements appends (`ConstructIs`), ending them
empties (`DestroyIs`), shifting takes the tail (`ShiftIs`). A step makes an array
into another (`Becomes`), once, or twice for a move, where the source changes too:
the storage of an `Array` changes hands by way of being free, the elements of a
`Bounded_Array` leave after they were moved. That `reserve` makes enough room is
the least turn of the doubling loop that would have too little (`DoublingsSuffice`).

The fifth part of `LibraryProofs` is about `StringBuilder`, for any characters, texts,
sizes of buffers and allocations that fail: `TextSound`, from `BuilderAssumption`
(the terminator is a character, buffers have room, as the constructor and a static
assertion see to). `BuilderInv` is `TextSound` with what it rests on: only the last
buffer of the chain has room (`Chained`), and a string that was handed out is a text
with its length, or one with its terminator and one more (`Handed`). One turn of
`append` keeps `Running` and adds its character to the text, or stops
(`PutCharIs`); the text is the same however the chain is cut into buffers
(`SameText`, `NewBufferIs`, `CharIs`), and the turns of a whole text follow by the
least turn that would fail (`FilledWithIs`, `AppendIs`).

The sixth part of `LibraryProofs` is about `HashTable`, for any keys, values, hash
function, load limit and reservations: `TableSound`. Assumed (`HashTableAssumption`):
the smallest table is a power of two with room for an entry below the load limit
(32 slots and 70 percent in the code), and a reservation is for something. `Ready`
says that the table is below its limit and that every entry is on the probe path of
its hash before any slot that was never used (`OnTheirPaths`); tombstones keep the
paths whole. The paths reach every slot (`ProbesReach`), because the size is a power
of two: were the a-th and the b-th probe of a round in one slot, twice the size
would divide (b - a)(a + b + 1), of which one factor is odd and neither is large
enough (`OddFactor`). So find comes to the entry or to an unused slot (`FindIs`).
`expand` copies by turns, and after each the new table holds the entries passed so
far (`CopiedSoFar`): rehashing loses and doubles nothing, and finds room for every
entry without expanding again (`CopyTurnKeeps`).

`BootProofs`, for any number of APs, ticks and interrupts: `DispatchSound`.
`ControllerState` says for each stage of start-up which lines are unmasked and
what may be in service, `StartupOrder` which stages come before which; one lemma
per action, one step per conjunct. With several APs the routing chooses among those
that are online at that moment (`FirstIsOnline`); the run has one AP. The theorem
does not say that the interrupts arrive: one that is raised between an AP's core
info and its local APIC is lost (`application_processor.hh:253-257`).

The second part of `BootProofs` is about `MemoryMap`, for any page size, tags,
kernel image and bound on regions, and any memory map whose ranges do not meet
(`FirmwareAssumption`): `MapSound`. `MapInv` says what the table holds in each
phase: while tags are parsed, the usable memory of those the walk has passed; from
then on the usable memory without the pages reserved so far. The heart is the
loop of `reserve_range`, which changes the table it walks over. `Walked` says that
outside of the pages nothing changes and that what the loop has passed is clear of
them, so a region swapped into the place of a removed one is looked at again. The
loop ends: a turn passes, cuts or removes a region, and a region is split only
when it reaches beyond both ends of the pages, which at most one of disjoint
regions does (`Straddled`); `Left`, the regions ahead and that one, falls with
every turn. Hence the `2 * Len(table)` turns of `Reserving` are never too few. A
table that is full ends the run (`Halted`), as the assertion does in the code.
`TagsPlaced` ties the walk to the tags: each starts where the one before it ends.

The third part of `BootProofs` is about `Acpi`, for any root pointers, tables,
entries, pins and sizes of the lists: `MachineSound`. `TablesInv` says which
pointer and table are in use by how far the search has come. `WalkInv` says that
the walk has passed sound entries only and what it gathered (`Gathered`): the k-th
element of a list is that of the listed entry with k of its kind up to it
(`CountTo`, `Lists`), so an entry of another kind, one too short for its kind, or a
processor too many leaves the lists as they are. `Unrouted` and `LinesAsWired` are
about the pins; they rest on `OverrideIsMeant`, that the first override in the list
for a line is the first the firmware listed for it. That a search stops at a first
place rests on the well-foundedness of the naturals. Assumed (`AcpiAssumption`):
the tables behind a root pointer hold lists, the room for processors is a
natural, and keyboard and mouse are two lines.

`TlsProofs`, for any CPUs and blocks (whose addresses are none of the three
names `Tls` uses otherwise): `TlsSound`. `BlocksApart` says that what a CPU needs
(its block, its idle block, the one it returns to after a destroy) no other CPU
needs, which makes `resume` and `destroy` safe; `FirstRestoresOwn` that the first
open scope that pushed a field restores the block's own value, also after a yield
lost what it pushed; storage is compared piece by
piece; destructors and objects are matched by an increasing function, and the
last destructor is that of the last registered object (`LastOrdered`).

`BuddyProofs`, for any page size, order, regions, sizes and alignments:
`NoOverlap`, `HeadersIntact`, `OwnershipSound` and the types, with no condition on
how the heap is used. `HInv` adds that only held pointers have a live header
(`Tracked`) and that `add_region` proceeds by pages (`Paced`). Every operation
replaces blocks by blocks on the same ground (`Rearranged`), which comes down to
the arithmetic of aligned blocks: of two of them one contains the other or they
are apart (`Nested`), a split halves, a merge doubles (`Halved`, `Chain`).

`HeapIsSound` proves the rest of `HeapSound` under `OrdinaryUse`: no page is lost,
freeing merges all there is to merge, no store hits a payload. Each condition is
one the code needs: a block beyond `int` is filed under a wrong order; with a
block of the largest order (2^63 bytes in the code), a request for which even that
is too small would take it and fail without giving it back; `add_region` does not
merge what it adds with an adjacent region; a resize with a smaller alignment
writes over the payload. Inductive is `Good`: no two buddies are both
free (`NoFreeBuddies`), while a region is added no larger block would have fitted
(`CarvedWell`), and a pointer is where its alignment first allows (`AtStart`).
`FullyMerged` follows: were all of an aligned block free in smaller blocks, the
buddy of the smallest of them would be free too. That there is a smallest, and
the table of block sizes, rest on the well-foundedness of the naturals.

Only model-checked: liveness and fairness, which are beyond the prover; and the
invariants of `ByteReader`, `Matrices`, `DebugInfo`, `LineTable`, `Raster`,
`Frames` and `Tetris`. Most of these compute with recursive functions and folds over
their data (digits of a number, rows of a table, cells of a grid), where a proof
needs an induction over that data which the prover does not do; where a loop can be
counted down, as in `MemoryMap`, `StringBuilder` and `HashTable`, its runs are
recursive functions and the proof takes the least number of turns that would fail. The rest is integer geometry on small grids.

## 5. Not modelled

Formatting and strings (text functions without state), fonts and the terminal,
lighting and perspective-correct colours, sin, cos and sqrt, rounding of floats;
the typed thread API's arguments and results; CPU exceptions, which print and
halt; ordinary reads of the input state; register layouts, descriptors, cpuid,
serial, random numbers and boot assembly; the preprocessor, which runs at build
time; the vendored image decoder, host shims and demos. `PROJECT.json` gives the
reason for each.

## 6. What is left

1. A block-level heap that `Buddy` implements, and that `DebugAllocator` and
   `BumpAllocators` use.
2. The interrupt handlers of PS/2 on two CPUs during the hand-over.
