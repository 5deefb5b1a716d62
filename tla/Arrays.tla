-------------------------------- MODULE Arrays --------------------------------
(***************************************************************************)
(* kstd/array.hh: Array (grows on the heap), Bounded_Array (inline slots), *)
(* Array_View::slice and the header of mem::alloc_array.                   *)
(*                                                                         *)
(* Elements have lifetimes: a cell is RAW or holds an object; constructing *)
(* over an object or destroying a raw cell makes it BAD for good.  The     *)
(* arrays are the two of one kind; `kind` says which.                      *)
(***************************************************************************)
EXTENDS Integers, Sequences, FiniteSets

CONSTANTS
    Elements,
    FIRST_CAPACITY,     \* 16: what a moved-from Array grows to first
    BOUNDED_SIZE,       \* Bounded_Array::MAX_SIZE
    MAX_ELEMENTS,       \* bound on the elements an array is given
    HEADER_SIZE,        \* size_of(Array_Allocation_Header)
    BlockAddresses,     \* where mem::alloc may put a block
    ArrayCounts, ArrayAlignments

VARIABLES
    kind,       \* "Array" or "Bounded_Array"
    arr,        \* array -> capacity, size, storage (NULL once moved from)
    storage,    \* storage -> capacity it was allocated with and its cells
    given,      \* ghost: array -> the elements it should hold
    view        \* the last mem::alloc_array that was not freed, or NoView

arrayVars == <<kind, arr, storage, given, view>>

Names      == {"x", "y"}
Other(n)   == CHOOSE m \in Names : m # n
RAW        == "raw"
BAD        == "bad"

ASSUME ArraysAssumption ==
    /\ RAW \notin Elements /\ BAD \notin Elements
    /\ FIRST_CAPACITY \in Nat \ {0} /\ BOUNDED_SIZE \in Nat \ {0} /\ MAX_ELEMENTS \in Nat
    /\ HEADER_SIZE \in Nat /\ BlockAddresses \subseteq Nat
    /\ ArrayCounts \subseteq Nat /\ ArrayAlignments \subseteq Nat \ {0}

NULL_STORAGE == 0
NoView     == [count |-> -1]

Storages == 1 .. 3   \* two arrays, and one more while one of them grows
FREE     == [capacity |-> 0, cells |-> <<>>]

Fresh_cells(n) == [i \in 0 .. n - 1 |-> RAW]

\* What a cell is once an object v began its life in it, or ended it.
Begin(cell, v) == IF cell = RAW THEN v ELSE BAD
End(cell)      == IF cell \in {RAW, BAD} THEN BAD ELSE RAW

\* n objects constructed behind the first `at`, copied or moved from a sequence.
ConstructAll(cells, at, values) ==
    [i \in DOMAIN cells |->
        IF at <= i /\ i < at + Len(values) THEN Begin(cells[i], values[i - at + 1]) ELSE cells[i]]

destroy_elements(cells, n) == [i \in DOMAIN cells |-> IF i < n THEN End(cells[i]) ELSE cells[i]]

\* A storage with other cells, an array with another size.
WithCells(st, s, cells) == [st EXCEPT ![s] = [capacity |-> st[s].capacity, cells |-> cells]]
Holder(capacity, size, s) == [capacity |-> capacity, size |-> size, storage |-> s]
WithSize(a, size) == Holder(a.capacity, size, a.storage)

Cells(n)    == storage[arr[n].storage].cells
ElementsOf(n) == [i \in 1 .. arr[n].size |-> Cells(n)[i - 1]]
Growing     == kind = "Array"
Owns(n)     == arr[n].storage # NULL_STORAGE

allocate_storage == CHOOSE s \in Storages : storage[s] = FREE

\* Freeing a storage keeps cells that are still alive, for LifetimesPaired.
Release(cells) ==
    [capacity |-> 0, cells |-> IF \A i \in DOMAIN cells : cells[i] = RAW THEN <<>> ELSE cells]

\* Doubling until there is room; the loop has one turn for each element at most.
RoomFor(capacity, wanted) ==
    LET doubled[turn \in 0 .. wanted] ==
            IF turn = 0 THEN IF capacity = 0 THEN FIRST_CAPACITY ELSE capacity
            ELSE IF doubled[turn - 1] < wanted THEN 2 * doubled[turn - 1] ELSE doubled[turn - 1]
    IN doubled[wanted]

\* A reserve that moves the elements and forgets to end the old ones.
Moved_KeepsOld(cells, n) == cells

\* The old cells once their objects were moved out of them.
Moved(cells, n) == destroy_elements(cells, n)

\* reserve(wanted): [a, st] is the array and the storages afterwards.
reserve(n, wanted) ==
    LET a == arr[n]
    IN IF wanted <= a.capacity THEN [a |-> a, st |-> storage]
       ELSE LET new      == allocate_storage
                capacity == RoomFor(a.capacity, wanted)
                fresh    == ConstructAll(Fresh_cells(capacity), 0, IF Owns(n) THEN ElementsOf(n) ELSE <<>>)
                grown    == [storage EXCEPT ![new] = [capacity |-> capacity, cells |-> fresh]]
            IN [a |-> Holder(capacity, a.size, new),
                st |-> IF Owns(n) THEN [grown EXCEPT ![a.storage] = Release(Moved(Cells(n), a.size))]
                       ELSE grown]

\* The array n after values were constructed behind its elements.
Append_to(n, values) ==
    LET r  == reserve(n, arr[n].size + Len(values))
        at == r.a.storage
    IN /\ arr' = [arr EXCEPT ![n] = WithSize(r.a, r.a.size + Len(values))]
       /\ storage' = IF values = <<>> /\ at = NULL_STORAGE THEN r.st
                     ELSE WithCells(r.st, at, ConstructAll(r.st[at].cells, arr[n].size, values))
       /\ given' = [given EXCEPT ![n] = @ \o values]
       /\ UNCHANGED <<kind, view>>

HasRoom(n, k) == Len(given[n]) + k <= IF Growing THEN MAX_ELEMENTS ELSE BOUNDED_SIZE

array_push_back(n, v) == HasRoom(n, 1) /\ Append_to(n, <<v>>)

\* Array_View::slice: clipped to the view, empty when it starts outside it.
slice(size, index, count) ==
    IF index < 0 \/ index >= size THEN [at |-> 0, size |-> 0]
    ELSE [at |-> index, size |-> IF count > size - index THEN size - index ELSE count]

\* extend with a slice of either array.  A slice of the array itself is read
\* through the array only when it starts at its first element; any other one
\* must not make the array grow, because its storage would be gone.
extend(n, from, index, count) ==
    LET part   == slice(arr[from].size, index, count)
        values == [i \in 1 .. part.size |-> Cells(from)[part.at + i - 1]]
    IN /\ Owns(from)
       /\ HasRoom(n, part.size)
       /\ n = from /\ part.at > 0 => arr[n].size + part.size <= arr[n].capacity
       /\ Append_to(n, values)

Grow(n, wanted) ==
    /\ Growing
    /\ arr' = [arr EXCEPT ![n] = reserve(n, wanted).a]
    /\ storage' = reserve(n, wanted).st
    /\ UNCHANGED <<kind, given, view>>

pop_back(n) ==
    /\ arr[n].size > 0
    /\ arr' = [arr EXCEPT ![n] = WithSize(@, arr[n].size - 1)]
    /\ storage' = WithCells(storage, arr[n].storage, [Cells(n) EXCEPT ![arr[n].size - 1] = End(@)])
    /\ given' = [given EXCEPT ![n] = SubSeq(@, 1, Len(@) - 1)]
    /\ UNCHANGED <<kind, view>>

\* The first element ends; each other one is moved one place down, into a cell that
\* was just ended, and then ends itself.
ShiftDown(cells, size) ==
    [i \in DOMAIN cells |->
        IF i >= size THEN cells[i]
        ELSE IF i = size - 1 THEN End(cells[i])
        ELSE Begin(End(cells[i]), cells[i + 1])]

array_pop_front(n) ==
    /\ Growing /\ arr[n].size > 0
    /\ arr' = [arr EXCEPT ![n] = WithSize(@, arr[n].size - 1)]
    /\ storage' = WithCells(storage, arr[n].storage, ShiftDown(Cells(n), arr[n].size))
    /\ given' = [given EXCEPT ![n] = Tail(@)]
    /\ UNCHANGED <<kind, view>>

array_clear(n) ==
    /\ Growing /\ Owns(n)
    /\ arr' = [arr EXCEPT ![n] = WithSize(@, 0)]
    /\ storage' = WithCells(storage, arr[n].storage, destroy_elements(Cells(n), arr[n].size))
    /\ given' = [given EXCEPT ![n] = <<>>]
    /\ UNCHANGED <<kind, view>>

\* The storages after array n destroyed its elements and freed its storage.
Dropped(n) ==
    LET ended == destroy_elements(Cells(n), arr[n].size)
    IN IF ~Owns(n) THEN storage
       ELSE IF Growing THEN [storage EXCEPT ![arr[n].storage] = Release(ended)]
       ELSE WithCells(storage, arr[n].storage, ended)

\* operator = (const Array&): storage of the other's capacity, elements copied.
copy_assign(n) ==
    LET from     == Other(n)
        capacity == IF arr[from].capacity = 0 THEN 1 ELSE arr[from].capacity
        values   == IF Owns(from) THEN ElementsOf(from) ELSE <<>>
        new      == IF Owns(n) THEN arr[n].storage ELSE allocate_storage
        cells    == IF Growing THEN Fresh_cells(capacity) ELSE Dropped(n)[new].cells
    IN /\ arr' = [arr EXCEPT ![n] = Holder(capacity, Len(values), new)]
       /\ storage' = [Dropped(n) EXCEPT ![new] =
                         [capacity |-> capacity, cells |-> ConstructAll(cells, 0, values)]]
       /\ given' = [given EXCEPT ![n] = given[from]]
       /\ UNCHANGED <<kind, view>>

\* What a moved-from Array is left as.
Bare(a) == Holder(0, 0, NULL_STORAGE)

\* operator = (Array&&): the storage changes hands and the source is left bare.
\* A Bounded_Array moves its elements one by one instead.
move_assign(n) ==
    LET from == Other(n)
        size == arr[from].size
    IN /\ IF Growing
          THEN /\ arr' = [arr EXCEPT ![n] = arr[from], ![from] = Bare(@)]
               /\ storage' = Dropped(n)
          ELSE LET moved == ConstructAll(Dropped(n)[arr[n].storage].cells, 0, ElementsOf(from))
               IN /\ arr' = [arr EXCEPT ![n] = WithSize(@, size), ![from] = WithSize(@, 0)]
                  /\ storage' = WithCells(WithCells(Dropped(n), arr[n].storage, moved),
                                          arr[from].storage, destroy_elements(Cells(from), size))
       /\ given' = [given EXCEPT ![n] = given[from], ![from] = <<>>]
       /\ UNCHANGED <<kind, view>>

\* ~Array, then Array(initial_size, initial_value): a new array in its place.
construct_filled(n, size, v) ==
    LET new      == IF Owns(n) THEN arr[n].storage ELSE allocate_storage
        capacity == IF ~Growing THEN BOUNDED_SIZE ELSE IF size = 0 THEN 1 ELSE size
        cells    == IF Growing THEN Fresh_cells(capacity) ELSE Dropped(n)[new].cells
        values   == [i \in 1 .. size |-> v]
    IN /\ arr' = [arr EXCEPT ![n] = Holder(capacity, size, new)]
       /\ storage' = [Dropped(n) EXCEPT ![new] =
                         [capacity |-> capacity, cells |-> ConstructAll(cells, 0, values)]]
       /\ given' = [given EXCEPT ![n] = values]
       /\ UNCHANGED <<kind, view>>
-----------------------------------------------------------------------------
align_up(a, n) == ((a + n - 1) \div n) * n

\* Room for the elements (of size 1), the header and the alignment.
alloc_array_size(count, alignment) ==
    IF count = 0 THEN 0 ELSE count + HEADER_SIZE + alignment - 1

\* The block may start at any multiple of MAX_ALIGN; the header with the
\* block's own start and size sits right below the elements.
alloc_array(count, alignment, base) ==
    /\ view = NoView
    /\ alloc_array_size(count, alignment) > 0
    /\ view' = [count |-> count, alignment |-> alignment, base |-> base,
                size |-> alloc_array_size(count, alignment),
                data |-> align_up(base + HEADER_SIZE, alignment)]
    /\ UNCHANGED <<kind, arr, storage, given>>

\* free_array reads base and size back from the header.
free_array ==
    /\ view # NoView
    /\ view' = NoView
    /\ UNCHANGED <<kind, arr, storage, given>>
-----------------------------------------------------------------------------
InitialStorage(n) == IF n = "x" THEN 1 ELSE 2

ArraysInit ==
    /\ kind \in {"Array", "Bounded_Array"}
    /\ LET capacity == IF kind = "Array" THEN 1 ELSE BOUNDED_SIZE
       IN /\ arr = [n \in Names |-> Holder(capacity, 0, InitialStorage(n))]
          /\ storage = [s \in Storages |->
                           IF s = 3 THEN FREE
                           ELSE [capacity |-> capacity, cells |-> Fresh_cells(capacity)]]
    /\ given = [n \in Names |-> <<>>]
    /\ view = NoView

ArraysNext ==
    \/ \E n \in Names :
           \/ \E v \in Elements : array_push_back(n, v)
           \/ \E from \in Names, index, count \in 0 .. MAX_ELEMENTS : extend(n, from, index, count)
           \/ \E wanted \in 0 .. MAX_ELEMENTS : Grow(n, wanted)
           \/ pop_back(n) \/ array_pop_front(n) \/ array_clear(n)
           \/ copy_assign(n) \/ move_assign(n)
           \/ \E size \in 0 .. BOUNDED_SIZE, v \in Elements : construct_filled(n, size, v)
    \/ \E count \in ArrayCounts, alignment \in ArrayAlignments :
           \E base \in BlockAddresses : alloc_array(count, alignment, base)
    \/ free_array

ArraysSpec == ArraysInit /\ [][ArraysNext]_arrayVars
-----------------------------------------------------------------------------
ArraysTypeOK ==
    /\ arr \in [Names -> [capacity : Nat, size : Nat, storage : Storages \cup {NULL_STORAGE}]]
    /\ given \in [Names -> Seq(Elements)]
    /\ \A n \in Names : arr[n].size <= arr[n].capacity

\* Whatever was pushed, popped, copied, moved and reallocated, an array holds
\* what its caller gave it, in order.
HoldsWhatWasGiven ==
    \A n \in Names : IF Owns(n) THEN ElementsOf(n) = given[n] ELSE given[n] = <<>>

\* The cells alive are the elements of the arrays: nothing is constructed over
\* a live object, destroyed twice, or left alive in storage that was freed.
LifetimesPaired ==
    \A s \in Storages :
        LET owner == {n \in Names : arr[n].storage = s}
            size  == IF owner = {} THEN 0 ELSE arr[CHOOSE n \in owner : TRUE].size
        IN \A i \in DOMAIN storage[s].cells :
               storage[s].cells[i] \in IF i < size THEN Elements ELSE {RAW}

\* Every storage has one owner, which will free it with the size it was
\* allocated with; storage without an owner was freed.
StorageOwnedOnce ==
    /\ \A s \in Storages :
           Cardinality({n \in Names : arr[n].storage = s}) = IF storage[s].capacity > 0 THEN 1 ELSE 0
    /\ \A n \in Names : Owns(n) => arr[n].capacity = storage[arr[n].storage].capacity

\* alloc_array's header and elements lie inside the block, the elements aligned.
HeaderInBlock ==
    view # NoView =>
        /\ view.data - HEADER_SIZE >= view.base
        /\ view.data + view.count <= view.base + view.size
        /\ view.data % view.alignment = 0

\* The arrays' invariant: they hold what they were given, in storage that has one
\* owner, with each object in it constructed and destroyed once.
ArraysSound ==
    /\ ArraysTypeOK
    /\ HoldsWhatWasGiven
    /\ LifetimesPaired
    /\ StorageOwnedOnce
    /\ HeaderInBlock
=============================================================================
