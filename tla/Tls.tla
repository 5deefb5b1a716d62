--------------------------------- MODULE Tls ---------------------------------
(***************************************************************************)
(* Thread-local storage, thread_local_storage.hh, and what kstd keeps in   *)
(* it: the context with the current allocators (kstd/context.hh and the    *)
(* scopes at the end of kstd/allocator.hh).                                *)
(*                                                                         *)
(* A block is created for every thread and for every CPU's idle loop; %fs  *)
(* holds the image of the one that is active.  The threads themselves are  *)
(* those of module Threads: here a CPU resumes a block nobody runs, leaves *)
(* it for its idle block, and destroys a block whose thread has ended.     *)
(***************************************************************************)
EXTENDS Naturals, Sequences, FiniteSets, SequencesExt

CONSTANTS
    TlsCpus,            \* CPU indices; 0 is the bootstrap processor
    TlsBlocks,          \* blocks; those freed are allocated again
    MAX_DESTRUCTORS,
    MAX_USES            \* bound on objects and, counted twice, open scopes

ASSUME TlsAssumption ==
    /\ 0 \in TlsCpus /\ MAX_DESTRUCTORS \in Nat
    /\ TlsBlocks \cap {"none", "boot", "pushed"} = {}   \* a block's address is none of these

VARIABLES
    fsBase,         \* CPU -> the active block
    idle_blocks,    \* CPU -> its idle block
    tls,            \* block -> allocator, context, destructors
    images,         \* block -> the thread_local `context` in its image
    scopes,         \* block -> what its open scopes restore, and to what
    destroying,     \* CPU -> the block it destroys, and what it comes back to
    pieces,         \* allocations: [block, kind, from]
    objects,        \* ghost: block -> its objects alive, and whether registered
    scheduled,          \* ghost: CPU -> the block the scheduler activated
    tlsHalted

tlsVars == <<fsBase, idle_blocks, tls, images, scopes, destroying, pieces, objects, scheduled, tlsHalted>>

None_ == "none"
Null  == "null"                     \* null_allocator, which refuses everything
BlockAllocators == {"heap", "debug"}

\* The context a zeroed image starts with.
NoContext == [allocator |-> None_, temporary |-> None_]
BootContext == [allocator |-> "heap", temporary |-> "boot"]
ApContext == [allocator |-> "heap", temporary |-> None_]
NotDestroying == [block |-> None_, base |-> None_, context |-> NoContext]

TlsInit ==
    /\ fsBase = [c \in TlsCpus |-> None_] /\ scheduled = fsBase
    /\ idle_blocks = [c \in TlsCpus |-> None_]
    /\ tls = <<>> /\ images = <<>> /\ scopes = <<>> /\ objects = <<>>
    /\ destroying = [c \in TlsCpus |-> NotDestroying]
    /\ pieces = {}
    /\ tlsHalted = FALSE

Current_(c) == images[fsBase[c]]

LengthOfAll(f) == Cardinality(UNION {{b} \X DOMAIN f[b] : b \in DOMAIN f})
Uses == LengthOfAll(objects) + 2 * LengthOfAll(scopes)

\* CPU c runs code of the active block.
Runs(c) == ~tlsHalted /\ fsBase[c] # None_ /\ destroying[c] = NotDestroying
-----------------------------------------------------------------------------
HasTemporary(b) == tls[b].context.temporary = b
KindsOf(temporary) == {"block", "image"} \cup (IF temporary = None_ THEN {} ELSE {"temporary"})

\* The new block's context: the inherited allocator, and temporary storage of its
\* own if the inherited context has any.
ContextFor_Inherited(inherited, b) == inherited
ContextFor(inherited, b) ==
    [allocator |-> inherited.allocator,
     temporary |-> IF inherited.temporary = None_ THEN None_ ELSE b]

\* create, and the activation that follows it on the CPUs in active.  What the
\* allocator refuses is asserted.
create(inherited, b, active) ==
    IF inherited.allocator \notin BlockAllocators
    THEN tlsHalted' = TRUE
         /\ UNCHANGED <<fsBase, idle_blocks, tls, images, scopes, destroying, pieces, objects, scheduled>>
    ELSE LET ctx == ContextFor(inherited, b)
             With_(f, x) == [k \in DOMAIN f \cup {b} |-> IF k = b THEN x ELSE f[k]]
         IN /\ tls' = With_(tls, [allocator |-> inherited.allocator, context |-> ctx, destructors |-> <<>>])
            /\ images' = With_(images, IF active = {} THEN NoContext ELSE ctx)
            /\ scopes' = With_(scopes, <<>>) /\ objects' = With_(objects, <<>>)
            /\ pieces' = pieces \cup {[block |-> b, kind |-> k, from |-> inherited.allocator] :
                                         k \in KindsOf(inherited.temporary)}
            /\ fsBase' = [c \in TlsCpus |-> IF c \in active THEN b ELSE fsBase[c]]
            /\ idle_blocks' = [c \in TlsCpus |-> IF c \in active THEN b ELSE idle_blocks[c]]
            /\ scheduled' = [c \in TlsCpus |-> IF c \in active THEN b ELSE scheduled[c]]
            /\ UNCHANGED <<destroying, tlsHalted>>

\* initialize_bsp, with the context mem::initialize returned.
initialize_bsp(b) == fsBase[0] = None_ /\ ~tlsHalted /\ create(BootContext, b, {0})

\* initialize_application_processor; the APs have no temporary storage.
initialize_application_processor(c, b) ==
    c # 0 /\ fsBase[c] = None_ /\ fsBase[0] # None_ /\ ~tlsHalted /\ create(ApContext, b, {c})

\* spawn: the new thread inherits the context of the one that runs.
spawn(c, b) == Runs(c) /\ create(Current_(c), b, {})

\* activate(block): %fs, and the context the block was created with.
Activated(c, b) == fsBase' = [fsBase EXCEPT ![c] = b] /\ images' = [images EXCEPT ![b] = tls[b].context]

Busy == {fsBase[c] : c \in TlsCpus} \cup {idle_blocks[c] : c \in TlsCpus}
        \cup {destroying[c].base : c \in {d \in TlsCpus : destroying[d] # NotDestroying}}

\* idle_poll resumes a thread; yield and finish_current come back to the idle block.
resume(c, b) ==
    /\ Runs(c) /\ fsBase[c] = idle_blocks[c] /\ b \in DOMAIN tls \ Busy
    /\ Activated(c, b) /\ scheduled' = [scheduled EXCEPT ![c] = b]
    /\ UNCHANGED <<idle_blocks, tls, scopes, destroying, pieces, objects, tlsHalted>>

leave(c) ==
    /\ Runs(c) /\ fsBase[c] # idle_blocks[c]
    /\ Activated(c, idle_blocks[c]) /\ scheduled' = [scheduled EXCEPT ![c] = idle_blocks[c]]
    /\ UNCHANGED <<idle_blocks, tls, scopes, destroying, pieces, objects, tlsHalted>>
-----------------------------------------------------------------------------
\* PUSH_ALLOCATOR, PUSH_TEMPORARY_ALLOCATOR and PUSH_CONTEXT: what is set in the
\* context of the active block, and what the end of the scope sets again.
set_allocator(ctx, a) == [ctx EXCEPT !.allocator = IF a = None_ THEN Null ELSE a]
set_temporary_allocator(ctx, t) == [ctx EXCEPT !.temporary = t]

Push(c, fields, ctx) ==
    /\ Runs(c) /\ Uses < MAX_USES - 1
    /\ scopes' = [scopes EXCEPT ![fsBase[c]] = Append(@, [fields |-> fields, previous |-> Current_(c)])]
    /\ images' = [images EXCEPT ![fsBase[c]] = ctx]
    /\ UNCHANGED <<fsBase, idle_blocks, tls, destroying, pieces, objects, scheduled, tlsHalted>>

Push_Allocator(c, a) == Push(c, {"allocator"}, set_allocator(Current_(c), a))
Push_Temporary_Allocator(c, t) == Push(c, {"temporary"}, set_temporary_allocator(Current_(c), t))
Push_Context(c) == Push(c, {"allocator", "temporary"}, Current_(c))

Pop(c) ==
    /\ Runs(c) /\ scopes[fsBase[c]] # <<>>
    /\ LET b == fsBase[c]  scope == Last(scopes[b])
           allocated == IF "allocator" \notin scope.fields THEN images[b]
                        ELSE IF scope.fields = {"allocator"} THEN set_allocator(images[b], scope.previous.allocator)
                        ELSE [images[b] EXCEPT !.allocator = scope.previous.allocator]
       IN /\ images' = [images EXCEPT ![b] =
                           IF "temporary" \in scope.fields
                           THEN set_temporary_allocator(allocated, scope.previous.temporary) ELSE allocated]
          /\ scopes' = [scopes EXCEPT ![b] = Front(@)]
    /\ UNCHANGED <<fsBase, idle_blocks, tls, destroying, pieces, objects, scheduled, tlsHalted>>

-----------------------------------------------------------------------------
\* __cxa_thread_atexit of one object of the active block: a full table refuses it.
DestructorFits(destructors) == Len(destructors) < MAX_DESTRUCTORS

Registered(b, registry, alive) ==
    LET object == Len(alive) + 1
    IN /\ objects' = [objects EXCEPT ![b] = Append(alive, [object |-> object, registered |-> DestructorFits(registry)])]
       /\ tls' = [tls EXCEPT ![b].destructors = IF DestructorFits(registry) THEN Append(registry, object) ELSE registry]

__cxa_thread_atexit(c) ==
    /\ Runs(c) /\ Uses < MAX_USES
    /\ Registered(fsBase[c], tls[fsBase[c]].destructors, objects[fsBase[c]])
    /\ UNCHANGED <<fsBase, idle_blocks, images, scopes, destroying, pieces, scheduled, tlsHalted>>

\* destroy(block) of a thread whose procedure has returned, on the stack of the
\* joiner or of the idle loop, up to the first destructor.
destroy_begin(c, b) ==
    /\ Runs(c) /\ b \in DOMAIN tls \ Busy /\ scopes[b] = <<>>
    /\ destroying' = [destroying EXCEPT ![c] = [block |-> b, base |-> fsBase[c], context |-> Current_(c)]]
    /\ Activated(c, b)
    /\ UNCHANGED <<idle_blocks, tls, scopes, pieces, objects, scheduled, tlsHalted>>

\* The language's order, of the objects whose destructors were registered.
LastRegistered(alive) == CHOOSE i \in DOMAIN alive : alive[i].registered /\ \A j \in DOMAIN alive : alive[j].registered => j <= i

\* One destructor; it may construct another object.
destroy_next(c) ==
    /\ destroying[c] # NotDestroying /\ ~tlsHalted
    /\ LET b == fsBase[c]  registry == tls[b].destructors
           left_ == Front(registry)  alive == RemoveAt(objects[b], LastRegistered(objects[b]))
       IN /\ registry # <<>>
          /\ \/ tls' = [tls EXCEPT ![b].destructors = left_] /\ objects' = [objects EXCEPT ![b] = alive]
             \/ Uses < MAX_USES /\ Registered(b, left_, alive)
    /\ UNCHANGED <<fsBase, idle_blocks, images, scopes, destroying, pieces, scheduled, tlsHalted>>

\* The end of destroy: temporary storage, image and the block; then the caller's
\* base, and its context.
destroy_end(c) ==
    /\ destroying[c] # NotDestroying /\ ~tlsHalted
    /\ LET d == destroying[c]  b == d.block
           Without_(f) == [k \in DOMAIN f \ {b} |-> f[k]]
           Freed(p) == p.block = b /\ p.from = tls[b].allocator /\ (p.kind = "temporary" => HasTemporary(b))
       IN /\ tls[b].destructors = <<>>
          /\ pieces' = {p \in pieces : ~Freed(p)}
          /\ tls' = Without_(tls) /\ scopes' = Without_(scopes) /\ objects' = Without_(objects)
          /\ fsBase' = [fsBase EXCEPT ![c] = d.base]
          /\ images' = [Without_(images) EXCEPT ![d.base] = d.context]
          /\ destroying' = [destroying EXCEPT ![c] = NotDestroying]
    /\ UNCHANGED <<idle_blocks, scheduled, tlsHalted>>

\* Which free block is allocated makes no difference.
FreeBlock == CHOOSE b \in TlsBlocks \ DOMAIN tls : TRUE

TlsNext ==
    \E c \in TlsCpus :
        \/ /\ TlsBlocks \ DOMAIN tls # {}
           /\ \/ c = 0 /\ initialize_bsp(FreeBlock)
              \/ initialize_application_processor(c, FreeBlock) \/ spawn(c, FreeBlock)
        \/ \E b \in DOMAIN tls : resume(c, b) \/ destroy_begin(c, b)
        \/ leave(c) \/ destroy_next(c) \/ destroy_end(c)
        \/ \E a \in BlockAllocators \cup {None_} : Push_Allocator(c, a)
        \/ \E t \in {None_, "pushed"} : Push_Temporary_Allocator(c, t)
        \/ Push_Context(c) \/ Pop(c)
        \/ __cxa_thread_atexit(c)

TlsSpec == TlsInit /\ [][TlsNext]_tlsVars
-----------------------------------------------------------------------------
\* Every CPU addresses a block that is there and that no other CPU addresses, and
\* after a destroy it is again the one the scheduler put there.
RunsOnOwnBlock ==
    \A c \in TlsCpus : fsBase[c] # None_ =>
        /\ fsBase[c] \in DOMAIN tls
        /\ \A d \in TlsCpus : d # c => fsBase[d] # fsBase[c]
        /\ fsBase[c] = IF destroying[c] = NotDestroying THEN scheduled[c] ELSE destroying[c].block

\* No two blocks take temporary memory from the same state, unless one was pushed:
\* the state a block inherits is only the reason to have one.
OwnTemporary ==
    \A b \in DOMAIN tls : tls[b].context.temporary \in {None_, b} /\ images[b].temporary \in {None_, b, "pushed"}

\* What is allocated is what the blocks that exist are made of, each part from the
\* allocator that will get it back.
PiecesOf(b) == {[block |-> b, kind |-> k, from |-> tls[b].allocator] : k \in KindsOf(tls[b].context.temporary)}
StorageAccountedFor == pieces = UNION {PiecesOf(b) : b \in DOMAIN tls}

\* A yield in the middle of a scope loses what the scope pushed: activate sets the
\* context the block was created with.  But what a scope restores is never lost, nor
\* does it outlive the scopes: wherever the thread runs again, and after whatever it
\* destroyed meanwhile, each field that no open scope pushed is the block's own.
Field(ctx, f) == IF f = "allocator" THEN ctx.allocator ELSE ctx.temporary
ContextFields == {"allocator", "temporary"}
OwnUnlessPushed(b, ctx) ==
    \A f \in ContextFields :
        (\A i \in DOMAIN scopes[b] : f \notin scopes[b][i].fields) => Field(ctx, f) = Field(tls[b].context, f)
OwnContextAgain == \A c \in TlsCpus : fsBase[c] # None_ => OwnUnlessPushed(fsBase[c], images[fsBase[c]])

\* The table holds the destructors of the objects alive, but for those it refused,
\* in the order they were constructed; destroy runs them from the last, also those
\* that a destructor adds.
InOrder(destructors, alive) ==
    \E at \in [DOMAIN destructors -> DOMAIN alive] :
        /\ \A i, j \in DOMAIN destructors : i < j => at[i] < at[j]
        /\ \A i \in DOMAIN destructors : alive[at[i]].registered /\ alive[at[i]].object = destructors[i]
        /\ \A n \in DOMAIN alive : alive[n].registered => \E i \in DOMAIN destructors : at[i] = n

DestroyedInOrder ==
    \A b \in DOMAIN tls :
        InOrder(tls[b].destructors, objects[b]) /\ Len(tls[b].destructors) <= MAX_DESTRUCTORS

\* What makes these inductive: the values of the state ...
\* (a block's context names the allocator that its own memory is from)
Allocators_ == BlockAllocators \cup {None_, Null}
ContextsOf(b) == [allocator : Allocators_, temporary : {None_, b, "pushed"}]
StatesOf(b) == [allocator : BlockAllocators, context : [allocator : BlockAllocators, temporary : {None_, b}],
                 destructors : Seq(Nat)]
ScopesOf(b) == [fields : SUBSET {"allocator", "temporary"}, previous : ContextsOf(b)]
ObjectsAlive == [object : Nat, registered : BOOLEAN]
TlsTypes ==
    /\ DOMAIN tls \subseteq TlsBlocks /\ DOMAIN images = DOMAIN tls /\ DOMAIN scopes = DOMAIN tls
    /\ DOMAIN objects = DOMAIN tls
    /\ \A b \in DOMAIN tls :
        /\ tls[b] \in StatesOf(b)
        /\ images[b] \in ContextsOf(b)
        /\ scopes[b] \in Seq(ScopesOf(b)) /\ objects[b] \in Seq(ObjectsAlive)
    /\ fsBase \in [TlsCpus -> TlsBlocks \cup {None_}] /\ idle_blocks \in [TlsCpus -> TlsBlocks \cup {None_}]
    /\ scheduled \in [TlsCpus -> TlsBlocks \cup {None_}] /\ DOMAIN destroying = TlsCpus

\* ... what the first scope that pushed a field restores, and what a destroy does ...
FirstRestoresOwn(b) ==
    \A i \in DOMAIN scopes[b] : \A f \in scopes[b][i].fields :
        (\A j \in 1 .. i - 1 : f \notin scopes[b][j].fields) => Field(scopes[b][i].previous, f) = Field(tls[b].context, f)
ContextsReturn ==
    /\ \A b \in DOMAIN tls : FirstRestoresOwn(b)
    /\ \A c \in TlsCpus : destroying[c] # NotDestroying =>
            OwnUnlessPushed(destroying[c].base, destroying[c].context) /\ scopes[destroying[c].block] = <<>>

\* ... and the blocks each CPU needs: the one it runs, its idle block and the one it
\* goes back to after a destroy, of which no other CPU has any.
UsedBy(c) ==
    {fsBase[c], idle_blocks[c]} \cup (IF destroying[c] = NotDestroying THEN {} ELSE {destroying[c].base})
BlocksApart ==
    /\ \A c \in TlsCpus :
        IF fsBase[c] = None_
        THEN idle_blocks[c] = None_ /\ scheduled[c] = None_ /\ destroying[c] = NotDestroying
        ELSE /\ UsedBy(c) \subseteq DOMAIN tls
             /\ IF destroying[c] = NotDestroying
                THEN scheduled[c] = fsBase[c]
                ELSE /\ destroying[c] \in [block : {fsBase[c]}, base : {scheduled[c]}, context : ContextsOf(scheduled[c])]
                     /\ fsBase[c] \notin {idle_blocks[c], scheduled[c]}
    /\ \A c, d \in TlsCpus : c # d => UsedBy(c) \cap UsedBy(d) \subseteq {None_}

\* The invariant of thread-local storage: every CPU runs on the block that is its
\* own, with memory of its own that comes back when the thread is reclaimed; what a
\* thread pushes ends with its scopes, and its objects end in order.
TlsSound ==
    /\ RunsOnOwnBlock /\ OwnTemporary /\ StorageAccountedFor /\ OwnContextAgain /\ DestroyedInOrder
    /\ TlsTypes /\ ContextsReturn /\ BlocksApart
=============================================================================
