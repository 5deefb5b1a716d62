------------------------------ MODULE HashTable ------------------------------
(***************************************************************************)
(* kstd/hash_table.hh: Hash_Table, open addressing with triangular probing *)
(* and tombstones that add reuses.  A slot is empty, a tombstone or holds  *)
(* an entry; the first two are told by reserved hash values.  The hash     *)
(* function is a constant, so colliding keys are an input of the model.    *)
(***************************************************************************)
EXTENDS Integers, FiniteSets

CONSTANTS
    Keys, Payloads,
    KeyHash,              \* hash::compute, as [Keys -> Nat]
    MIN_SIZE,             \* Hash_Table::MIN_SIZE
    LOAD_FACTOR_PERCENT,
    Reservations,         \* arguments of ensure_has_space_for
    MAX_ENTRIES           \* bound on the entries the caller keeps

\* math::is_power_of_two: no odd number but one divides it.
IsPowerOfTwo(n) == \A d \in 1 .. n : n % d = 0 => d = 1 \/ d % 2 = 0

\* The smallest table has room for an entry below its load limit.
ASSUME HashTableAssumption ==
    /\ MIN_SIZE \in Nat \ {0} /\ IsPowerOfTwo(MIN_SIZE)
    /\ LOAD_FACTOR_PERCENT \in 1 .. 99 /\ MIN_SIZE * LOAD_FACTOR_PERCENT > 100
    /\ KeyHash \in [Keys -> Nat]
    /\ Reservations \subseteq Nat \ {0}

VARIABLES
    table,    \* the Hash_Table: count, slots_filled, entries
    kept,     \* ghost: the pairs the caller put in and did not remove, a bag as
              \* [Keys \X Payloads -> Nat]
    asserted  \* an assertion has stopped the program

hashVars == <<table, kept, asserted>>

EMPTY_HASH       == 0
TOMBSTONE_HASH   == 1
FIRST_VALID_HASH == 2

NoKey == "none"
Blank == [hash |-> EMPTY_HASH, key |-> NoKey, value |-> NoKey]

\* The key and value that stay behind in a removed slot are never read again;
\* the model drops them.
Tombstone == [Blank EXCEPT !.hash = TOMBSTONE_HASH]

compute(k) ==
    IF KeyHash[k] < FIRST_VALID_HASH THEN KeyHash[k] + FIRST_VALID_HASH ELSE KeyHash[k]

SizeOf(t) == Cardinality(DOMAIN t.entries)

\* Of the powers of two from n on the first, and the only one below 2 * n.
next_power_of_two(n) == CHOOSE p \in n .. 2 * n - 1 : IsPowerOfTwo(p)

\* A table of n slots (no fewer than MIN_SIZE, a power of two), all empty.
_resize_entries(n) ==
    LET size == next_power_of_two(IF n < MIN_SIZE THEN MIN_SIZE ELSE n)
    IN [count |-> 0, slots_filled |-> 0, entries |-> [i \in 0 .. size - 1 |-> Blank]]

\* What a table that was moved from is left as.
MovedFrom == [count |-> 0, slots_filled |-> 0, entries |-> [i \in {} |-> Blank]]

\* The slot of the n-th probe: the increment grows by one with every probe.
ProbeSlot(hash, n, size) == (hash + (n * (n + 1)) \div 2) % size

\* The first of the slots on the probe path, which repeats after 2 * size probes;
\* NoSlot when the loop of the code would go round for ever.
NoSlot == -1
FirstProbe(t, hash, stops) ==
    LET hits  == {n \in 0 .. 2 * SizeOf(t) - 1 : ProbeSlot(hash, n, SizeOf(t)) \in stops}
        first == CHOOSE n \in hits : \A m \in hits : n <= m
    IN IF hits = {} THEN NoSlot ELSE ProbeSlot(hash, first, SizeOf(t))

WithHash(t, hashes) == {s \in DOMAIN t.entries : t.entries[s].hash \in hashes}

_find_entry(t, k) ==
    LET slot == FirstProbe(t, compute(k), WithHash(t, {EMPTY_HASH})
                               \cup {s \in WithHash(t, {compute(k)}) : t.entries[s].key = k})
    IN IF slot # NoSlot /\ t.entries[slot].hash # EMPTY_HASH THEN slot ELSE NoSlot

\* The part of add after the load check: the first empty or tombstone slot.
Insert(t, k, v) ==
    LET slot   == FirstProbe(t, compute(k), WithHash(t, {EMPTY_HASH, TOMBSTONE_HASH}))
        reused == t.entries[slot].hash = TOMBSTONE_HASH
    IN [count |-> t.count + 1,
        slots_filled |-> IF reused THEN t.slots_filled ELSE t.slots_filled + 1,
        entries |-> [t.entries EXCEPT ![slot] = [hash |-> compute(k), key |-> k, value |-> v]]]

\* expand(new_slot_count): fresh entries, the valid old ones added in order.
\* Below the load limit none of these adds expands again (see BelowLoadLimit).
expand_to(t, n) ==
    LET copied[i \in 0 .. SizeOf(t)] ==
            IF i = 0 THEN _resize_entries(n)
            ELSE IF t.entries[i - 1].hash >= FIRST_VALID_HASH
                 THEN Insert(copied[i - 1], t.entries[i - 1].key, t.entries[i - 1].value)
                 ELSE copied[i - 1]
    IN copied[SizeOf(t)]

\* expand(): many tombstones mean that the same size will do.
expand(t) ==
    expand_to(t, IF (t.count * 2 + 1) * 100 < SizeOf(t) * LOAD_FACTOR_PERCENT
                 THEN SizeOf(t) ELSE SizeOf(t) * 2)

NeedsRoom(t, n) == (t.slots_filled + n) * 100 >= SizeOf(t) * LOAD_FACTOR_PERCENT

\* The table after add(k, v).
Added(t, k, v) == Insert(IF NeedsRoom(t, 1) THEN expand(t) ELSE t, k, v)

NothingKept  == [kv \in Keys \X Payloads |-> 0]
Keep(k, v)   == [kept EXCEPT ![<<k, v>>] = @ + 1]
Forget(k, v) == [kept EXCEPT ![<<k, v>>] = @ - 1]

\* A table that was moved from grows to twice nothing, which expand refuses.
add(k, v) ==
    /\ table.count < MAX_ENTRIES
    /\ IF SizeOf(table) = 0
       THEN asserted' = TRUE /\ UNCHANGED <<table, kept>>
       ELSE table' = Added(table, k, v) /\ kept' = Keep(k, v) /\ UNCHANGED asserted

\* find on a table without entries reads out of bounds, so set is for tables that
\* own their entries.
set(k, v) ==
    LET slot == _find_entry(table, k)
    IN /\ SizeOf(table) > 0
       /\ IF slot # NoSlot
          THEN /\ table' = [table EXCEPT !.entries[slot].value = v]
               /\ kept' = [Forget(k, table.entries[slot].value) EXCEPT ![<<k, v>>] = @ + 1]
               /\ UNCHANGED asserted
          ELSE add(k, v)

\* An emptied slot would cut the probe paths that lead across it.
Removed_LeavesEmpty(t, slot) ==
    [t EXCEPT !.entries[slot] = Blank, !.count = @ - 1, !.slots_filled = @ - 1]

Removed(t, slot) == [t EXCEPT !.entries[slot] = Tombstone, !.count = @ - 1]

remove(k) ==
    LET slot == _find_entry(table, k)
    IN /\ SizeOf(table) > 0 /\ slot # NoSlot
       /\ table' = Removed(table, slot)
       /\ kept' = Forget(k, table.entries[slot].value)
       /\ UNCHANGED asserted

reset_table ==
    /\ table' = [table EXCEPT !.count = 0, !.slots_filled = 0,
                              !.entries = [i \in DOMAIN @ |-> Blank]]
    /\ kept' = NothingKept
    /\ UNCHANGED asserted

\* Nothing happens while there is room; a request that is met by a table of
\* another size rehashes into it.
ensure_has_space_for(n) ==
    /\ NeedsRoom(table, n)
    /\ table' = expand_to(table,
                    next_power_of_two(((table.count + n) * 100) \div LOAD_FACTOR_PERCENT))
    /\ UNCHANGED <<kept, asserted>>

\* Hash_Table(Hash_Table&&): the new owner takes the entries; what is left may
\* get room of its own or be assigned to.
move_out ==
    /\ table' = MovedFrom
    /\ kept' = NothingKept
    /\ UNCHANGED asserted

\* operator = (Hash_Table&&), from a new table.
assign_new ==
    /\ table' = _resize_entries(MIN_SIZE)
    /\ kept' = NothingKept
    /\ UNCHANGED asserted

HashInit ==
    /\ table = _resize_entries(MIN_SIZE)
    /\ kept = NothingKept
    /\ asserted = FALSE

HashNext ==
    /\ ~asserted
    /\ \/ \E k \in Keys, v \in Payloads : add(k, v) \/ set(k, v)
       \/ \E k \in Keys : remove(k)
       \/ reset_table
       \/ \E n \in Reservations : ensure_has_space_for(n)
       \/ move_out \/ assign_new

HashSpec == HashInit /\ [][HashNext]_hashVars
-----------------------------------------------------------------------------
ValidSlots(t)   == {i \in DOMAIN t.entries : t.entries[i].hash >= FIRST_VALID_HASH}
FilledSlots(t)  == {i \in DOMAIN t.entries : t.entries[i].hash # EMPTY_HASH}
SlotsOf(t, k, v) == {i \in ValidSlots(t) : t.entries[i].key = k /\ t.entries[i].value = v}

KeptOf(k) == {v \in Payloads : kept[<<k, v>>] > 0}

\* The table is well formed and its two counters count what the slots hold:
\* count the entries, slots_filled everything that is not empty.
HashTypeOK ==
    /\ kept \in [Keys \X Payloads -> Nat] /\ asserted \in BOOLEAN
    /\ table.count = Cardinality(ValidSlots(table))
    /\ table.slots_filled = Cardinality(FilledSlots(table))
    /\ \A i \in ValidSlots(table) : table.entries[i].key \in Keys /\ table.entries[i].value \in Payloads

\* find(k) gives a value exactly when one put under k was not removed, and then
\* one of those, whatever was added, removed and rehashed in between.
FindsWhatWasPut ==
    SizeOf(table) > 0 =>
        \A k \in Keys :
            LET slot == _find_entry(table, k)
            IN IF KeptOf(k) = {} THEN slot = NoSlot
               ELSE slot # NoSlot /\ table.entries[slot].value \in KeptOf(k)

\* No pair is lost or doubled: the entries of the table are those kept.
EntriesAreKept ==
    \A k \in Keys, v \in Payloads : kept[<<k, v>>] = Cardinality(SlotsOf(table, k, v))

\* Between operations the table is below its load limit, so rehashing never
\* expands again in the middle of a copy and, since every probe path comes to
\* an empty slot, the probing loops of find and add end.
BelowLoadLimit ==
    SizeOf(table) > 0 =>
        /\ table.slots_filled * 100 < SizeOf(table) * LOAD_FACTOR_PERCENT
        /\ \A k \in Keys :
               FirstProbe(table, compute(k), WithHash(table, {EMPTY_HASH})) # NoSlot

\* The hash table's invariant: it finds what was put in it and nothing else, loses
\* nothing by rehashing, and keeps the room that ends its probing.
TableSound ==
    /\ HashTypeOK
    /\ FindsWhatWasPut
    /\ EntriesAreKept
    /\ BelowLoadLimit
=============================================================================
