--------------------------- MODULE DebugAllocator ---------------------------
(***************************************************************************)
(* Debug_Allocator_State of kstd/allocator.hh over a backing heap, and the  *)
(* mem::realloc it calls.  The backing heap is the hosted one, which has no *)
(* RESIZE of its own and never refuses, or the kernel's, which resizes      *)
(* itself and may be out of memory.  A block is a model value; what is in   *)
(* it is left out.                                                         *)
(***************************************************************************)
EXTENDS Integers, Sequences, FiniteSets, SequencesExt

CONSTANTS
    Blocks,         \* what the backing heap can hand out
    BlockSizes,     \* the sizes clients ask for
    RECORD_SIZE     \* size_of(Allocation_Record)

VARIABLES
    backing,        \* "hosted", "kernel", "none" before construction, "stopped" by an assertion
    blocks,         \* the allocated blocks with their sizes
    records,        \* live_head: [pointer, size, block], newest first
    clients,        \* the sizes of the blocks that clients own
    lost,           \* blocks dropped on the two paths that forget them
    retired,        \* blocks that the kernel's heap grew where they are and marked as freed
    ended           \* how the last operation ended

debugVars == <<backing, blocks, records, clients, lost, retired, ended>>

NULL == "nullptr"

ASSUME DebugAssumption == NULL \notin Blocks /\ BlockSizes \subseteq Nat /\ RECORD_SIZE \in Nat

Fresh == Blocks \ DOMAIN blocks
With(f, b, size) == [x \in DOMAIN f \cup {b} |-> IF x = b THEN size ELSE f[x]]
Without(f, S) == [x \in DOMAIN f \ S |-> f[x]]

DebugInit ==
    /\ backing = "none" /\ blocks = <<>> /\ records = <<>> /\ clients = <<>>
    /\ lost = {} /\ retired = {} /\ ended = "none"

construct_debug(heap) ==
    /\ backing = "none"
    /\ backing' = heap
    /\ UNCHANGED <<blocks, records, clients, lost, retired, ended>>

Record(p, size, b) == [pointer |-> p, size |-> size, block |-> b]
Recorded == {records[i].pointer : i \in DOMAIN records}
RecordOf(p) == CHOOSE i \in DOMAIN records : records[i].pointer = p

Working == backing \in {"hosted", "kernel"}
ReturnsWith(how) == ended' = how /\ UNCHANGED backing
NothingChanges == UNCHANGED <<blocks, records, clients, lost, retired>>

\* The kernel's heap asserts that what it frees is not marked as freed.
heap_stops(p) ==
    /\ backing = "kernel" /\ p \in retired
    /\ backing' = "stopped" /\ ended' = "heap_stops" /\ NothingChanges

-----------------------------------------------------------------------------
(* ALLOCATE: a block, then a block for its record; if the second is         *)
(* refused the first is freed again.                                        *)
FreedAgain(all, p) == Without(all, {p})

dispatch_ALLOCATE(size) ==
    \/ /\ size = 0
       /\ ReturnsWith("ok") /\ NothingChanges
    \/ /\ size > 0
       /\ \E p, b \in Fresh :
            /\ p # b
            /\ blocks' = With(With(blocks, p, size), b, RECORD_SIZE)
            /\ records' = <<Record(p, size, b)>> \o records
            /\ clients' = With(clients, p, size)
       /\ ReturnsWith("ok") /\ UNCHANGED <<lost, retired>>
    \/ /\ size > 0 /\ backing = "kernel"    \* the block is refused
       /\ ReturnsWith("out_of_memory") /\ NothingChanges
    \/ /\ size > 0 /\ backing = "kernel"    \* its record is
       /\ \E p \in Fresh : blocks' = FreedAgain(With(blocks, p, size), p)
       /\ ReturnsWith("out_of_memory") /\ UNCHANGED <<records, clients, lost, retired>>

allocate(size) == Working /\ dispatch_ALLOCATE(size)

(* mem::realloc over the backing heap, as what it may return: the block,    *)
(* the blocks afterwards and those it forgot.  The kernel's RESIZE to zero  *)
(* succeeds without freeing, and it may grow a block where it is: in what   *)
(* its size left over, or by merging it with its buddy.                     *)
Outcome(error, p, left, forgot) == [error |-> error, pointer |-> p, blocks |-> left, forgot |-> forgot]
realloc_from(p, size) ==
    (IF p = NULL
       THEN (IF size = 0 THEN {Outcome("ok", NULL, blocks, {})}
             ELSE {Outcome("ok", q, With(blocks, q, size), {}) : q \in Fresh})
     ELSE IF size = 0
       THEN (IF backing = "kernel" THEN {Outcome("ok", NULL, blocks, {p})}
             ELSE {Outcome("ok", NULL, Without(blocks, {p}), {})})
     ELSE IF backing = "kernel" /\ size <= blocks[p]
       THEN {Outcome("ok", p, blocks, {})}
     ELSE {Outcome("ok", q, Without(With(blocks, q, size), {p}), {}) : q \in Fresh}
          \cup (IF backing = "kernel" THEN {Outcome("ok", p, With(blocks, p, size), {})} ELSE {}))
    \cup (IF backing = "kernel" /\ size > 0 /\ (p = NULL \/ size > blocks[p])
          THEN {Outcome("out_of_memory", NULL, blocks, {})} ELSE {})

(* RESIZE: the backing heap resizes, then the record follows the block.  A  *)
(* resize of nullptr is an allocation, but does not free the block again    *)
(* when there is no memory for the record.                                  *)
FollowRecord_KeepsPointer(p, out, size) ==
    records' = [records EXCEPT ![RecordOf(p)].size = size]
FollowRecord(p, out, size) ==
    records' = [records EXCEPT ![RecordOf(p)].pointer = out.pointer, ![RecordOf(p)].size = size]

dispatch_RESIZE(p, size) ==
    \E out \in realloc_from(p, size) :
      \/ /\ out.error # "ok" \/ (p = NULL /\ out.pointer = NULL)
         /\ ReturnsWith(out.error) /\ NothingChanges
      \/ /\ out.error = "ok" /\ p = NULL /\ out.pointer # NULL
         /\ \E b \in Blocks \ DOMAIN out.blocks :
              /\ blocks' = With(out.blocks, b, RECORD_SIZE)
              /\ records' = <<Record(out.pointer, size, b)>> \o records
         /\ clients' = With(clients, out.pointer, size)
         /\ ReturnsWith("ok") /\ UNCHANGED <<lost, retired>>
      \/ /\ out.error = "ok" /\ p = NULL /\ out.pointer # NULL /\ backing = "kernel"
         /\ blocks' = out.blocks /\ lost' = lost \cup {out.pointer}
         /\ ReturnsWith("out_of_memory") /\ UNCHANGED <<records, clients, retired>>
      \/ /\ out.error = "ok" /\ p \notin Recorded \cup {NULL}
         /\ ReturnsWith("unknown_pointer") /\ NothingChanges
      \/ /\ out.error = "ok" /\ p \in Recorded /\ size = 0
         /\ blocks' = Without(out.blocks, {records[RecordOf(p)].block})
         /\ records' = RemoveAt(records, RecordOf(p))
         /\ clients' = Without(clients, {p})
         /\ lost' = lost \cup out.forgot /\ retired' = retired \cap DOMAIN out.blocks
         /\ ReturnsWith("ok")
      \/ /\ out.error = "ok" /\ p \in Recorded /\ size > 0
         /\ FollowRecord(p, out, size)
         /\ blocks' = out.blocks
         /\ clients' = With(Without(clients, {p}), out.pointer, size)
         /\ retired' \in {retired \cap DOMAIN out.blocks}
                \cup (IF out.pointer = p /\ size > blocks[p] THEN {retired \cup {p}} ELSE {})
         /\ ReturnsWith("ok") /\ UNCHANGED lost

\* A block that is moved is freed.
resize(p, size) ==
    /\ Working /\ p \in DOMAIN clients \cup {NULL}
    /\ dispatch_RESIZE(p, size) \/ (p # NULL /\ size > blocks[p] /\ heap_stops(p))

(* FREE: with the size it was allocated with, or zero.                      *)
dispatch_FREE(p) ==
    /\ blocks' = Without(blocks, {p, records[RecordOf(p)].block})
    /\ records' = RemoveAt(records, RecordOf(p))
    /\ clients' = Without(clients, {p})
    /\ ReturnsWith("ok") /\ UNCHANGED <<lost, retired>>

free(p, size) ==
    /\ Working /\ p \in DOMAIN clients
    /\ \/ /\ p \in Recorded /\ size \in {0, records[RecordOf(p)].size}
          /\ IF p \in retired THEN heap_stops(p) ELSE dispatch_FREE(p)
       \/ /\ p \notin Recorded
          /\ ReturnsWith("double_free") /\ NothingChanges
       \/ /\ p \in Recorded /\ size \notin {0, records[RecordOf(p)].size}
          /\ ReturnsWith("size_mismatch") /\ NothingChanges

\* ~Debug_Allocator_State asserts that nothing is live.
destroy_debug ==
    /\ Working /\ clients = <<>>
    /\ ended' = IF records = <<>> THEN "destroyed" ELSE "leaked"
    /\ backing' = IF records = <<>> THEN "none" ELSE backing
    /\ blocks' = IF records = <<>> THEN <<>> ELSE blocks
    /\ lost' = IF records = <<>> THEN {} ELSE lost
    /\ retired' = IF records = <<>> THEN {} ELSE retired
    /\ UNCHANGED <<records, clients>>

DebugNext ==
    \/ \E heap \in {"hosted", "kernel"} : construct_debug(heap)
    \/ \E size \in BlockSizes : allocate(size)
    \/ \E p \in Blocks \cup {NULL}, size \in BlockSizes : resize(p, size)
    \/ \E p \in DOMAIN clients : free(p, clients[p]) \/ free(p, 0)
    \/ destroy_debug

DebugSpec == DebugInit /\ [][DebugNext]_debugVars

-----------------------------------------------------------------------------
DebugTypeOK ==
    /\ backing \in {"none", "hosted", "kernel", "stopped"}
    /\ DOMAIN blocks \subseteq Blocks /\ \A b \in DOMAIN blocks : blocks[b] \in Nat
    /\ retired \subseteq Blocks
    /\ \A i \in DOMAIN records : records[i].block \in DOMAIN blocks /\ records[i].pointer \in Blocks
    /\ ended \in {"none", "ok", "out_of_memory", "double_free", "unknown_pointer", "size_mismatch", "leaked", "destroyed",
                 "heap_stops"}

(* None of the wrapper's assertions can be hit by clients that free what    *)
(* they own with the size they own it with: the records follow the blocks   *)
(* through every resize, and refusals leave them alone.                     *)
NoFalseAlarm == ended \notin {"double_free", "unknown_pointer", "size_mismatch", "leaked"}

(* Every block of the backing heap belongs to a client or holds a record,   *)
(* except the ones forgotten on the two known paths: a resize of nullptr    *)
(* whose record is refused, and a resize to zero of the kernel's heap.      *)
BlocksAccountedFor ==
    DOMAIN blocks = DOMAIN clients \cup {records[i].block : i \in DOMAIN records} \cup lost

\* The Debug allocator's invariant: its records follow the blocks of its clients, so
\* that no assertion hits a client that is right and no block is forgotten.
RecordsSound ==
    /\ DebugTypeOK
    /\ NoFalseAlarm
    /\ BlocksAccountedFor
=============================================================================
