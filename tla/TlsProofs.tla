------------------------------ MODULE TlsProofs ------------------------------
(***************************************************************************)
(* Thread-local storage: whatever the threads of the CPUs spawn, set,       *)
(* register and end, each CPU runs on a block of its own and what a block   *)
(* is made of comes back.                                                   *)
(***************************************************************************)
EXTENDS Tls, SequenceTheorems, TLAPS

Inv == TlsTypes /\ OwnTemporary /\ BlocksApart /\ StorageAccountedFor /\ DestroyedInOrder
       /\ ContextsReturn /\ OwnContextAgain

(* Storage is accounted for piece by piece.                                 *)
ByPiece == \A p : p \in pieces <=> \E b \in DOMAIN tls : p \in PiecesOf(b)
(* The pieces allocated are those of the blocks, one by one.                *)
LEMMA Accounted == StorageAccountedFor <=> ByPiece
  BY DEF StorageAccountedFor, ByPiece

(* No block and no piece of storage at first.                               *)
LEMMA InitInv == TlsInit => Inv
  <1> SUFFICES ASSUME TlsInit PROVE Inv
    OBVIOUS
  <1> USE DEF TlsInit
  <1>1. /\ DOMAIN tls = {} /\ DOMAIN images = {} /\ DOMAIN scopes = {}
        /\ DOMAIN objects = {}
    OBVIOUS
  <1>2. TlsTypes
    BY <1>1 DEF TlsTypes
  <1>3. OwnTemporary
    BY <1>1 DEF OwnTemporary
  <1>4. StorageAccountedFor
    BY <1>1 DEF StorageAccountedFor
  <1>5. DestroyedInOrder
    BY <1>1 DEF DestroyedInOrder
  <1>6. BlocksApart
    BY DEF BlocksApart, UsedBy
  <1>7. ContextsReturn /\ OwnContextAgain
    BY <1>1 DEF ContextsReturn, OwnContextAgain
  <1> QED
    BY <1>2, <1>3, <1>4, <1>5, <1>6, <1>7 DEF Inv

(* A halt leaves everything as it is.                                       *)
LEMMA HaltInv ==
    ASSUME Inv,
           UNCHANGED <<fsBase, idle_blocks, tls, images, scopes, destroying, pieces, objects, scheduled>>
    PROVE  Inv'
  <1>1. TlsTypes'
    BY DEF Inv, TlsTypes
  <1>2. OwnTemporary'
    BY DEF Inv, OwnTemporary
  <1>3. StorageAccountedFor'
    BY DEF Inv, StorageAccountedFor, PiecesOf
  <1>4. DestroyedInOrder'
    BY DEF Inv, DestroyedInOrder
  <1>5. BlocksApart'
    BY DEF Inv, BlocksApart, UsedBy
  <1>6. ContextsReturn' /\ OwnContextAgain'
    BY DEF Inv, ContextsReturn, OwnContextAgain, FirstRestoresOwn, OwnUnlessPushed
  <1> QED
    BY <1>1, <1>2, <1>3, <1>4, <1>5, <1>6 DEF Inv

(* The part of the invariant about what each CPU needs speaks only of four  *)
(* variables and of which blocks there are.                                 *)
LEMMA ApartKept ==
    ASSUME BlocksApart, DOMAIN tls \subseteq DOMAIN tls',
           UNCHANGED <<fsBase, idle_blocks, destroying, scheduled>>
    PROVE  BlocksApart'
  <1>1. ASSUME NEW c \in TlsCpus PROVE UsedBy(c)' = UsedBy(c)
    BY DEF UsedBy
  <1> QED
    BY <1>1 DEF BlocksApart

(* What is allocated depends only on the blocks.                            *)
LEMMA PiecesKept ==
    ASSUME StorageAccountedFor, DOMAIN tls' = DOMAIN tls, UNCHANGED pieces,
           \A b \in DOMAIN tls : tls'[b].allocator = tls[b].allocator /\ tls'[b].context = tls[b].context
    PROVE  StorageAccountedFor'
  <1>1. ASSUME NEW b \in DOMAIN tls PROVE PiecesOf(b)' = PiecesOf(b)
    BY DEF PiecesOf
  <1> QED
    BY <1>1 DEF StorageAccountedFor

(* A block's own context, its scopes and the one it runs with are of the    *)
(* fields that a block has.                                                 *)
LEMMA ScopesMeanTheSame ==
    ASSUME NEW b, scopes'[b] = scopes[b], tls'[b].context = tls[b].context
    PROVE  /\ FirstRestoresOwn(b)' <=> FirstRestoresOwn(b)
           /\ \A ctx : (\A f \in ContextFields :
                          (\A i \in DOMAIN scopes'[b] : f \notin scopes'[b][i].fields)
                          => Field(ctx, f) = Field(tls'[b].context, f))
                       <=> OwnUnlessPushed(b, ctx)
  <1>1. FirstRestoresOwn(b)' <=> FirstRestoresOwn(b)
    BY DEF FirstRestoresOwn
  <1> QED
    BY <1>1 DEF OwnUnlessPushed

(* What returns when scopes end and when a destroy ends, step by step.      *)
LEMMA ContextsStep ==
    ASSUME Inv,
           \A b \in DOMAIN tls' : FirstRestoresOwn(b)',
           \A c \in TlsCpus : fsBase'[c] # None_ => OwnUnlessPushed(fsBase[c], images[fsBase[c]])',
           \A c \in TlsCpus : destroying'[c] # NotDestroying =>
               (OwnUnlessPushed(destroying[c].base, destroying[c].context) /\ scopes[destroying[c].block] = <<>>)'
    PROVE  ContextsReturn' /\ OwnContextAgain'
  BY DEF ContextsReturn, OwnContextAgain

(* A CPU that runs has a block, and a context that belongs to it.           *)
LEMMA RunsOn ==
    ASSUME Inv, NEW c \in TlsCpus, Runs(c)
    PROVE  /\ fsBase[c] \in DOMAIN tls /\ fsBase[c] \in TlsBlocks /\ destroying[c] = NotDestroying
           /\ Current_(c) \in ContextsOf(fsBase[c])
           /\ idle_blocks[c] \in DOMAIN tls
  BY DEF Inv, Runs, BlocksApart, UsedBy, TlsTypes, Current_

(* A CPU that destroys a block has it, and one to come back to.             *)
LEMMA DestroyingOn ==
    ASSUME Inv, NEW c \in TlsCpus, destroying[c] # NotDestroying
    PROVE  /\ destroying[c].base \in DOMAIN tls /\ destroying[c].block \in DOMAIN tls
           /\ destroying[c].block = fsBase[c] /\ destroying[c].block # destroying[c].base
           /\ {destroying[c].base, fsBase[c]} \subseteq UsedBy(c)
           /\ destroying[c].context \in ContextsOf(destroying[c].base)
  <1>1. /\ fsBase[c] # None_ /\ UsedBy(c) \subseteq DOMAIN tls
        /\ destroying[c] \in [block : {fsBase[c]}, base : {scheduled[c]}, context : ContextsOf(scheduled[c])]
        /\ fsBase[c] # scheduled[c]
    BY DEF Inv, BlocksApart
  <1>2. destroying[c].block = fsBase[c] /\ destroying[c].base = scheduled[c]
        /\ destroying[c].context \in ContextsOf(scheduled[c])
    BY <1>1
  <1>3. {destroying[c].base, fsBase[c]} \subseteq UsedBy(c)
    BY DEF UsedBy
  <1> QED
    BY <1>1, <1>2, <1>3

(* A new block is distinct from all there are, with an image, the storage    *)
(* its context asks for; the CPU it is for had none.                       *)
LEMMA CreateInv ==
    ASSUME Inv, NEW b \in TlsBlocks, b \notin DOMAIN tls, NEW inherited, NEW active \in SUBSET TlsCpus,
           \A c \in active : fsBase[c] = None_ /\ active = {c},
           create(inherited, b, active)
    PROVE  Inv'
  <1>1. CASE inherited.allocator \notin BlockAllocators
    BY <1>1, HaltInv DEF create
  <1>2. CASE inherited.allocator \in BlockAllocators
    <2> DEFINE ctx == ContextFor(inherited, b)
               made == [allocator |-> inherited.allocator, context |-> ctx, destructors |-> <<>>]
               image == IF active = {} THEN NoContext ELSE ctx
    <2>1. /\ tls' = [k \in DOMAIN tls \cup {b} |-> IF k = b THEN made ELSE tls[k]]
          /\ images' = [k \in DOMAIN images \cup {b} |-> IF k = b THEN image ELSE images[k]]
          /\ scopes' = [k \in DOMAIN scopes \cup {b} |-> IF k = b THEN <<>> ELSE scopes[k]]
          /\ objects' = [k \in DOMAIN objects \cup {b} |-> IF k = b THEN <<>> ELSE objects[k]]
          /\ pieces' = pieces \cup {[block |-> b, kind |-> k, from |-> inherited.allocator] :
                                       k \in KindsOf(inherited.temporary)}
          /\ fsBase' = [c \in TlsCpus |-> IF c \in active THEN b ELSE fsBase[c]]
          /\ idle_blocks' = [c \in TlsCpus |-> IF c \in active THEN b ELSE idle_blocks[c]]
          /\ scheduled' = [c \in TlsCpus |-> IF c \in active THEN b ELSE scheduled[c]]
          /\ destroying' = destroying
      BY <1>2 DEF create
    <2>2. ctx = [allocator |-> inherited.allocator, temporary |-> IF inherited.temporary = None_ THEN None_ ELSE b]
      BY DEF ContextFor
    <2>3. /\ ctx \in ContextsOf(b) /\ ctx.temporary \in {None_, b}
          /\ ctx \in [allocator : BlockAllocators, temporary : {None_, b}]
      BY <1>2, <2>2 DEF ContextsOf, Allocators_
    <2>4. image \in ContextsOf(b)
      BY <2>3 DEF NoContext, ContextsOf, Allocators_
    <2>5. made \in StatesOf(b) /\ made.context = ctx /\ made.allocator = inherited.allocator /\ made.destructors = <<>>
      BY <1>2, <2>3 DEF StatesOf
    <2>6. KindsOf(inherited.temporary) = KindsOf(ctx.temporary)
      BY <2>2, TlsAssumption DEF KindsOf, None_
    <2> HIDE DEF ctx, made, image
    <2>7. /\ DOMAIN tls' = DOMAIN tls \cup {b} /\ tls'[b] = made /\ \A k \in DOMAIN tls : tls'[k] = tls[k]
          /\ DOMAIN images' = DOMAIN images \cup {b} /\ images'[b] = image
          /\ \A k \in DOMAIN images : k # b => images'[k] = images[k]
          /\ DOMAIN scopes' = DOMAIN scopes \cup {b} /\ scopes'[b] = <<>>
          /\ \A k \in DOMAIN scopes : k # b => scopes'[k] = scopes[k]
          /\ DOMAIN objects' = DOMAIN objects \cup {b} /\ objects'[b] = <<>>
          /\ \A k \in DOMAIN objects : k # b => objects'[k] = objects[k]
      BY <2>1
    <2>8. TlsTypes'
      <3>1. \A k \in DOMAIN tls' :
              /\ tls'[k] \in StatesOf(k)
              /\ images'[k] \in ContextsOf(k)
              /\ scopes'[k] \in Seq(ScopesOf(k)) /\ objects'[k] \in Seq(ObjectsAlive)
        <4> SUFFICES ASSUME NEW k \in DOMAIN tls'
                     PROVE  /\ tls'[k] \in StatesOf(k)
                            /\ images'[k] \in ContextsOf(k)
                            /\ scopes'[k] \in Seq(ScopesOf(k)) /\ objects'[k] \in Seq(ObjectsAlive)
          OBVIOUS
        <4>1. CASE k = b
          BY <2>4, <2>5, <2>7, <4>1
        <4>2. CASE k # b
          BY <2>7, <4>2 DEF Inv, TlsTypes
        <4> QED
          BY <4>1, <4>2
      <3>2. /\ fsBase' \in [TlsCpus -> TlsBlocks \cup {None_}] /\ idle_blocks' \in [TlsCpus -> TlsBlocks \cup {None_}]
            /\ scheduled' \in [TlsCpus -> TlsBlocks \cup {None_}] /\ DOMAIN destroying' = TlsCpus
        BY <2>1 DEF Inv, TlsTypes
      <3> QED
        BY <2>7, <3>1, <3>2 DEF Inv, TlsTypes
    <2>9. OwnTemporary'
      BY <2>3, <2>4, <2>5, <2>7 DEF Inv, OwnTemporary, TlsTypes, ContextsOf
    <2>10. StorageAccountedFor'
      <3>1. ASSUME NEW k \in DOMAIN tls PROVE PiecesOf(k)' = PiecesOf(k)
        BY <2>7 DEF PiecesOf, Inv, TlsTypes
      <3>2. PiecesOf(b)' = {[block |-> b, kind |-> k, from |-> inherited.allocator] :
                               k \in KindsOf(inherited.temporary)}
        BY <2>5, <2>6, <2>7 DEF PiecesOf
      <3>3. pieces' = pieces \cup PiecesOf(b)'
        BY <2>1, <3>2
      <3>4. ASSUME NEW p
            PROVE  p \in pieces' <=> \E k \in DOMAIN tls' : p \in PiecesOf(k)'
        <4>1. p \in pieces <=> \E k \in DOMAIN tls : p \in PiecesOf(k)
          BY DEF Inv, StorageAccountedFor
        <4> QED
          BY <2>7, <3>1, <3>3, <4>1
      <3>5. (StorageAccountedFor <=> ByPiece)'
        BY Accounted, PTL
      <3> QED
        BY <3>4, <3>5 DEF ByPiece
    <2>11. DestroyedInOrder'
      <3>1. InOrder(<<>>, <<>>)
        <4>1. DOMAIN <<>> = {} /\ <<>> \in [{} -> {}]
          OBVIOUS
        <4> QED
          BY <4>1 DEF InOrder
      <3>2. InOrder(tls'[b].destructors, objects'[b]) /\ Len(tls'[b].destructors) <= MAX_DESTRUCTORS
        BY <2>5, <2>7, <3>1, TlsAssumption
      <3> QED
        BY <2>7, <3>2 DEF Inv, DestroyedInOrder, TlsTypes
    <2>12. BlocksApart'
      <3>1. ASSUME NEW c \in TlsCpus PROVE UsedBy(c)' = IF c \in active THEN {b} ELSE UsedBy(c)
        BY <2>1 DEF Inv, BlocksApart, UsedBy
      <3>2. ASSUME NEW c \in TlsCpus
            PROVE  b \notin UsedBy(c) /\ b # None_ /\ UsedBy(c) \subseteq DOMAIN tls \cup {None_}
        BY TlsAssumption DEF Inv, BlocksApart, UsedBy, None_
      <3>3. \A c, d \in TlsCpus : c # d => UsedBy(c)' \cap UsedBy(d)' \subseteq {None_}
        BY <3>1, <3>2 DEF Inv, BlocksApart
      <3>4. ASSUME NEW c \in TlsCpus
            PROVE  IF fsBase'[c] = None_
                   THEN idle_blocks'[c] = None_ /\ scheduled'[c] = None_ /\ destroying'[c] = NotDestroying
                   ELSE /\ UsedBy(c)' \subseteq DOMAIN tls'
                        /\ IF destroying'[c] = NotDestroying
                           THEN scheduled'[c] = fsBase'[c]
                           ELSE /\ destroying'[c] \in [block : {fsBase'[c]}, base : {scheduled'[c]}, context : ContextsOf(scheduled'[c])]
                                /\ fsBase'[c] \notin {idle_blocks'[c], scheduled'[c]}
        <4>1. CASE c \in active
          BY <2>1, <2>7, <3>1, <3>2, <4>1 DEF Inv, BlocksApart
        <4>2. CASE c \notin active
          <5>1. /\ fsBase'[c] = fsBase[c] /\ idle_blocks'[c] = idle_blocks[c] /\ scheduled'[c] = scheduled[c]
                /\ destroying'[c] = destroying[c] /\ UsedBy(c)' = UsedBy(c)
            BY <2>1, <3>1, <4>2
          <5> QED
            BY <2>7, <5>1 DEF Inv, BlocksApart
        <4> QED
          BY <4>1, <4>2
      <3> QED
        BY <3>3, <3>4 DEF BlocksApart, ContextsOf
    <2>13. ContextsReturn' /\ OwnContextAgain'
      <3>1. \A k \in DOMAIN tls : tls'[k] = tls[k] /\ scopes'[k] = scopes[k] /\ images'[k] = images[k]
        BY <2>7 DEF Inv, TlsTypes
      <3>2. ASSUME NEW k \in DOMAIN tls' PROVE FirstRestoresOwn(k)'
        <4>1. CASE k = b
          BY <2>7, <4>1 DEF FirstRestoresOwn
        <4>2. CASE k # b
          BY <2>7, <3>1, <4>2 DEF Inv, ContextsReturn, FirstRestoresOwn
        <4> QED
          BY <4>1, <4>2
      <3>3. ASSUME NEW c \in TlsCpus, fsBase'[c] # None_ PROVE OwnUnlessPushed(fsBase[c], images[fsBase[c]])'
        <4>1. CASE c \in active
          <5>1. fsBase'[c] = b /\ image = tls'[b].context /\ images'[b] = image
            BY <2>1, <2>5, <2>7, <4>1 DEF image
          <5> QED
            BY <5>1 DEF OwnUnlessPushed
        <4>2. CASE c \notin active
          <5>1. fsBase'[c] = fsBase[c] /\ fsBase[c] \in DOMAIN tls
            BY <2>1, <3>3, <4>2 DEF Inv, BlocksApart, UsedBy
          <5>2. OwnUnlessPushed(fsBase[c], images[fsBase[c]])
            BY <3>3, <5>1 DEF Inv, OwnContextAgain
          <5> QED
            BY <3>1, <5>1, <5>2 DEF OwnUnlessPushed
        <4> QED
          BY <4>1, <4>2
      <3>4. ASSUME NEW c \in TlsCpus, destroying'[c] # NotDestroying
            PROVE  (OwnUnlessPushed(destroying[c].base, destroying[c].context) /\ scopes[destroying[c].block] = <<>>)'
        <4>1. destroying'[c] = destroying[c]
          BY <2>1
        <4>2. destroying[c].base \in DOMAIN tls /\ destroying[c].block \in DOMAIN tls
          BY <3>4, <4>1, DestroyingOn
        <4> QED
          BY <3>1, <3>4, <4>1, <4>2 DEF Inv, ContextsReturn, OwnUnlessPushed
      <3> QED
        BY <3>2, <3>3, <3>4, ContextsStep
    <2> QED
      BY <2>8, <2>9, <2>10, <2>11, <2>12, <2>13 DEF Inv
  <1> QED
    BY <1>1, <1>2

-----------------------------------------------------------------------------
(* A step of CPU c changes what that CPU needs, to blocks no other needs.   *)
LEMMA ApartStep ==
    ASSUME Inv, NEW c \in TlsCpus,
           \A d \in TlsCpus \ {c} :
               /\ fsBase'[d] = fsBase[d] /\ idle_blocks'[d] = idle_blocks[d] /\ scheduled'[d] = scheduled[d]
               /\ destroying'[d] = destroying[d]
               /\ UsedBy(d) \ {None_} \subseteq DOMAIN tls'
               /\ UsedBy(c)' \cap UsedBy(d) \subseteq {None_},
           fsBase'[c] # None_, UsedBy(c)' \subseteq DOMAIN tls',
           IF destroying'[c] = NotDestroying
           THEN scheduled'[c] = fsBase'[c]
           ELSE /\ destroying'[c] \in [block : {fsBase'[c]}, base : {scheduled'[c]}, context : ContextsOf(scheduled'[c])]
                /\ fsBase'[c] \notin {idle_blocks'[c], scheduled'[c]}
    PROVE  BlocksApart'
  <1>1. ASSUME NEW d \in TlsCpus, d # c PROVE UsedBy(d)' = UsedBy(d)
    BY <1>1 DEF UsedBy
  <1>2. \A d, e \in TlsCpus : d # e => UsedBy(d)' \cap UsedBy(e)' \subseteq {None_}
    BY <1>1 DEF Inv, BlocksApart
  <1>3. ASSUME NEW d \in TlsCpus
        PROVE  IF fsBase'[d] = None_
               THEN idle_blocks'[d] = None_ /\ scheduled'[d] = None_ /\ destroying'[d] = NotDestroying
               ELSE /\ UsedBy(d)' \subseteq DOMAIN tls'
                    /\ IF destroying'[d] = NotDestroying
                       THEN scheduled'[d] = fsBase'[d]
                       ELSE /\ destroying'[d] \in [block : {fsBase'[d]}, base : {scheduled'[d]}, context : ContextsOf(scheduled'[d])]
                            /\ fsBase'[d] \notin {idle_blocks'[d], scheduled'[d]}
    <2>1. CASE d = c
      BY <2>1
    <2>2. CASE d # c
      <3>1. fsBase[d] # None_ => None_ \notin UsedBy(d)
        BY TlsAssumption DEF Inv, BlocksApart, TlsTypes, None_
      <3> QED
        BY <1>1, <2>2, <3>1 DEF Inv, BlocksApart
    <2> QED
      BY <2>1, <2>2
  <1> QED
    BY <1>2, <1>3 DEF BlocksApart, ContextsOf

(* What no CPU needs is not what another one runs.                          *)
LEMMA NotBusy ==
    ASSUME Inv, NEW b \in DOMAIN tls \ Busy, NEW c \in TlsCpus PROVE b \notin UsedBy(c) /\ b # None_ /\ b \in TlsBlocks
  BY TlsAssumption DEF Busy, UsedBy, Inv, TlsTypes, None_

(* activate sets the image's context to the block's own.                    *)
LEMMA ActivatedInv ==
    ASSUME Inv, NEW c \in TlsCpus, NEW b \in DOMAIN tls, Activated(c, b),
           UNCHANGED <<idle_blocks, tls, scopes, pieces, objects>>,
           scheduled' \in [TlsCpus -> TlsBlocks \cup {None_}], DOMAIN destroying' = TlsCpus, BlocksApart',
           \A d \in TlsCpus : destroying'[d] # NotDestroying =>
               \/ destroying'[d] = destroying[d]
               \/ OwnUnlessPushed(destroying'[d].base, destroying'[d].context) /\ scopes[destroying'[d].block] = <<>>
    PROVE  Inv'
  <1>1. tls[b].context \in ContextsOf(b) /\ tls[b].context.temporary \in {None_, b}
    BY DEF Inv, TlsTypes, StatesOf, OwnTemporary, ContextsOf, Allocators_
  <1>2. /\ DOMAIN images' = DOMAIN tls /\ images'[b] = tls[b].context
        /\ \A k \in DOMAIN tls : k # b => images'[k] = images[k]
    BY DEF Activated, Inv, TlsTypes
  <1>3. TlsTypes'
    <2>1. \A k \in DOMAIN tls : images'[k] \in ContextsOf(k)
      BY <1>1, <1>2 DEF Inv, TlsTypes
    <2>2. fsBase' \in [TlsCpus -> TlsBlocks \cup {None_}]
      BY DEF Activated, Inv, TlsTypes
    <2> QED
      BY <1>2, <2>1, <2>2 DEF Inv, TlsTypes
  <1>4. OwnTemporary'
    BY <1>1, <1>2 DEF Inv, OwnTemporary
  <1>5. StorageAccountedFor'
    BY PiecesKept DEF Inv
  <1>6. DestroyedInOrder'
    BY DEF Inv, DestroyedInOrder
  <1>7. ContextsReturn' /\ OwnContextAgain'
    <2>1. \A k \in DOMAIN tls' : FirstRestoresOwn(k)'
      BY DEF Inv, ContextsReturn, FirstRestoresOwn
    <2>2. ASSUME NEW d \in TlsCpus, fsBase'[d] # None_ PROVE OwnUnlessPushed(fsBase[d], images[fsBase[d]])'
      <3>1. fsBase'[d] = b \/ fsBase'[d] = fsBase[d]
        BY DEF Activated, Inv, TlsTypes
      <3>2. CASE fsBase'[d] = b
        BY <1>2, <3>2 DEF OwnUnlessPushed
      <3>3. CASE fsBase'[d] = fsBase[d] /\ fsBase[d] # b
        <4>1. OwnUnlessPushed(fsBase[d], images[fsBase[d]]) /\ fsBase[d] \in DOMAIN tls
          BY <2>2, <3>3 DEF Inv, OwnContextAgain, BlocksApart, UsedBy
        <4>2. images'[fsBase[d]] = images[fsBase[d]]
          BY <1>2, <3>3, <4>1
        <4> QED
          BY <3>3, <4>1, <4>2 DEF OwnUnlessPushed
      <3> QED
        BY <3>1, <3>2, <3>3
    <2>3. ASSUME NEW d \in TlsCpus, destroying'[d] # NotDestroying
          PROVE  (OwnUnlessPushed(destroying[d].base, destroying[d].context) /\ scopes[destroying[d].block] = <<>>)'
      <3>1. OwnUnlessPushed(destroying'[d].base, destroying'[d].context) /\ scopes[destroying'[d].block] = <<>>
        BY <2>3 DEF Inv, ContextsReturn
      <3> QED
        BY <3>1 DEF OwnUnlessPushed
    <2> QED
      BY <2>1, <2>2, <2>3, ContextsStep
  <1> QED
    BY <1>3, <1>4, <1>5, <1>6, <1>7 DEF Inv

(* A CPU takes up a thread's block.                                         *)
LEMMA ResumeInv ==
    ASSUME Inv, NEW c \in TlsCpus, NEW b \in DOMAIN tls, resume(c, b) PROVE Inv'
  <1>1. b \notin UsedBy(c) /\ b # None_ /\ b \in TlsBlocks /\ \A d \in TlsCpus : b \notin UsedBy(d)
    BY NotBusy DEF resume
  <1>2. fsBase[c] \in DOMAIN tls /\ destroying[c] = NotDestroying /\ idle_blocks[c] \in DOMAIN tls
    BY RunsOn DEF resume
  <1>3. /\ fsBase' = [fsBase EXCEPT ![c] = b] /\ scheduled' = [scheduled EXCEPT ![c] = b]
        /\ idle_blocks' = idle_blocks /\ destroying' = destroying /\ tls' = tls
    BY DEF resume, Activated
  <1>4. /\ fsBase'[c] = b /\ \A d \in TlsCpus : d # c => fsBase'[d] = fsBase[d] /\ scheduled'[d] = scheduled[d]
        /\ scheduled' \in [TlsCpus -> TlsBlocks \cup {None_}] /\ DOMAIN destroying' = TlsCpus
    BY <1>1, <1>3 DEF Inv, TlsTypes
  <1>5. UsedBy(c)' = {b, idle_blocks[c]}
    BY <1>2, <1>3, <1>4 DEF UsedBy
  <1>6. idle_blocks[c] \in UsedBy(c)
    BY DEF UsedBy
  <1>7. \A d \in TlsCpus \ {c} : UsedBy(c)' \cap UsedBy(d) \subseteq {None_} /\ UsedBy(d) \ {None_} \subseteq DOMAIN tls'
    BY <1>1, <1>3, <1>5, <1>6 DEF Inv, BlocksApart, UsedBy
  <1>8. BlocksApart'
    BY <1>1, <1>2, <1>3, <1>4, <1>5, <1>7, ApartStep
  <1> QED
    BY <1>4, <1>8, ActivatedInv DEF resume

(* A CPU leaves a thread's block.                                           *)
LEMMA LeaveInv == ASSUME Inv, NEW c \in TlsCpus, leave(c) PROVE Inv'
  <1> DEFINE b == idle_blocks[c]
  <1>1. fsBase[c] \in DOMAIN tls /\ destroying[c] = NotDestroying /\ b \in DOMAIN tls
    BY RunsOn DEF leave
  <1>2. /\ fsBase' = [fsBase EXCEPT ![c] = b] /\ scheduled' = [scheduled EXCEPT ![c] = b]
        /\ idle_blocks' = idle_blocks /\ destroying' = destroying /\ tls' = tls
    BY DEF leave, Activated
  <1>3. b # None_ /\ b \in TlsBlocks /\ b \in UsedBy(c)
    BY <1>1, TlsAssumption DEF Inv, TlsTypes, UsedBy, None_
  <1>4. /\ fsBase'[c] = b /\ \A d \in TlsCpus : d # c => fsBase'[d] = fsBase[d] /\ scheduled'[d] = scheduled[d]
        /\ scheduled' \in [TlsCpus -> TlsBlocks \cup {None_}] /\ DOMAIN destroying' = TlsCpus
    BY <1>2, <1>3 DEF Inv, TlsTypes
  <1>5. UsedBy(c)' = {b}
    BY <1>1, <1>2, <1>4 DEF UsedBy
  <1>6. \A d \in TlsCpus \ {c} : UsedBy(c)' \cap UsedBy(d) \subseteq {None_} /\ UsedBy(d) \ {None_} \subseteq DOMAIN tls'
    BY <1>2, <1>3, <1>5 DEF Inv, BlocksApart, UsedBy
  <1>7. BlocksApart'
    BY <1>1, <1>2, <1>3, <1>4, <1>5, <1>6, ApartStep
  <1> QED
    BY <1>1, <1>4, <1>7, ActivatedInv DEF leave

(* What a CPU puts aside when it turns to destroy a block.                  *)
LEMMA PutAside ==
    ASSUME Inv, NEW c \in TlsCpus, Runs(c)
    PROVE  OwnUnlessPushed(fsBase[c], Current_(c))
  BY DEF Inv, Runs, OwnContextAgain, Current_

(* A CPU turns to a block in order to destroy it.                           *)
LEMMA DestroyBeginInv ==
    ASSUME Inv, NEW c \in TlsCpus, NEW b \in DOMAIN tls, destroy_begin(c, b) PROVE Inv'
  <1> DEFINE old == [block |-> b, base |-> fsBase[c], context |-> Current_(c)]
  <1>1. b \notin UsedBy(c) /\ b # None_ /\ b \in TlsBlocks /\ \A d \in TlsCpus : b \notin UsedBy(d)
    BY NotBusy DEF destroy_begin
  <1>2. /\ fsBase[c] \in DOMAIN tls /\ destroying[c] = NotDestroying /\ idle_blocks[c] \in DOMAIN tls
        /\ Current_(c) \in ContextsOf(fsBase[c]) /\ fsBase[c] \in TlsBlocks
    BY RunsOn DEF destroy_begin
  <1>3. /\ fsBase' = [fsBase EXCEPT ![c] = b] /\ scheduled' = scheduled
        /\ idle_blocks' = idle_blocks /\ destroying' = [destroying EXCEPT ![c] = old] /\ tls' = tls
    BY DEF destroy_begin, Activated
  <1>4. old.block = b /\ old.base = fsBase[c] /\ old # NotDestroying
    BY <1>1 DEF NotDestroying
  <1>5. scheduled[c] = fsBase[c] /\ fsBase[c] \in UsedBy(c) /\ idle_blocks[c] \in UsedBy(c)
    BY <1>2 DEF UsedBy, Inv, BlocksApart
  <1>6. old \in [block : {b}, base : {scheduled[c]}, context : ContextsOf(scheduled[c])]
    BY <1>2, <1>5
  <1> HIDE DEF old
  <1>7. /\ fsBase'[c] = b /\ destroying'[c] = old
        /\ \A d \in TlsCpus : d # c => fsBase'[d] = fsBase[d] /\ destroying'[d] = destroying[d]
        /\ scheduled' \in [TlsCpus -> TlsBlocks \cup {None_}] /\ DOMAIN destroying' = TlsCpus
    BY <1>1, <1>3 DEF Inv, TlsTypes
  <1>8. UsedBy(c)' = {b, idle_blocks[c], fsBase[c]}
    BY <1>3, <1>4, <1>7 DEF UsedBy
  <1>9. \A d \in TlsCpus \ {c} : UsedBy(c)' \cap UsedBy(d) \subseteq {None_} /\ UsedBy(d) \ {None_} \subseteq DOMAIN tls'
    BY <1>1, <1>3, <1>5, <1>8, SMTT(30) DEF Inv, BlocksApart, UsedBy
  <1>10. BlocksApart'
    <2>1. /\ destroying'[c] \in [block : {fsBase'[c]}, base : {scheduled'[c]}, context : ContextsOf(scheduled'[c])]
          /\ fsBase'[c] \notin {idle_blocks'[c], scheduled'[c]}
      BY <1>1, <1>3, <1>5, <1>6, <1>7
    <2>2. fsBase'[c] # None_ /\ UsedBy(c)' \subseteq DOMAIN tls' /\ destroying'[c] # NotDestroying
      BY <1>1, <1>2, <1>3, <1>4, <1>7, <1>8
    <2>3. \A d \in TlsCpus \ {c} :
            /\ fsBase'[d] = fsBase[d] /\ idle_blocks'[d] = idle_blocks[d] /\ scheduled'[d] = scheduled[d]
            /\ destroying'[d] = destroying[d]
      BY <1>3, <1>7
    <2> QED
      BY <1>9, <2>1, <2>2, <2>3, ApartStep
  <1>11. OwnUnlessPushed(old.base, old.context) /\ scopes[old.block] = <<>>
    BY PutAside DEF destroy_begin, old
  <1>12. \A d \in TlsCpus : destroying'[d] # NotDestroying =>
            \/ destroying'[d] = destroying[d]
            \/ OwnUnlessPushed(destroying'[d].base, destroying'[d].context) /\ scopes[destroying'[d].block] = <<>>
    BY <1>7, <1>11
  <1> QED
    BY <1>7, <1>10, <1>12, ActivatedInv DEF destroy_begin

-----------------------------------------------------------------------------
(* A scope that is entered or left changes the context of the block it is   *)
(* in, and the list of what its scopes restore.                             *)
LEMMA ScopeInv ==
    ASSUME Inv, NEW b \in DOMAIN tls, NEW ctx \in ContextsOf(b), NEW list \in Seq(ScopesOf(b)),
           \A c \in TlsCpus : destroying[c] # NotDestroying => b \notin {destroying[c].base, destroying[c].block},
           images' = [images EXCEPT ![b] = ctx], scopes' = [scopes EXCEPT ![b] = list],
           UNCHANGED <<fsBase, idle_blocks, tls, destroying, pieces, objects, scheduled>>,
           FirstRestoresOwn(b)', OwnUnlessPushed(b, ctx)'
    PROVE  Inv'
  <1>1. /\ DOMAIN images' = DOMAIN tls /\ DOMAIN scopes' = DOMAIN tls /\ images'[b] = ctx /\ scopes'[b] = list
        /\ \A k \in DOMAIN tls : k # b => images'[k] = images[k] /\ scopes'[k] = scopes[k]
    BY DEF Inv, TlsTypes
  <1>2. TlsTypes'
    <2>1. \A k \in DOMAIN tls : images'[k] \in ContextsOf(k) /\ scopes'[k] \in Seq(ScopesOf(k))
      BY <1>1 DEF Inv, TlsTypes
    <2> QED
      BY <1>1, <2>1 DEF Inv, TlsTypes
  <1>3. OwnTemporary'
    BY <1>1 DEF Inv, OwnTemporary, ContextsOf
  <1>4. StorageAccountedFor'
    BY PiecesKept DEF Inv
  <1>5. DestroyedInOrder'
    BY DEF Inv, DestroyedInOrder
  <1>6. BlocksApart'
    BY ApartKept DEF Inv
  <1>7. ContextsReturn' /\ OwnContextAgain'
    <2>1. ASSUME NEW k \in DOMAIN tls' PROVE FirstRestoresOwn(k)'
      <3>1. CASE k # b
        BY <1>1, <3>1 DEF Inv, ContextsReturn, FirstRestoresOwn
      <3> QED
        BY <3>1
    <2>2. ASSUME NEW d \in TlsCpus, fsBase'[d] # None_ PROVE OwnUnlessPushed(fsBase[d], images[fsBase[d]])'
      <3>1. CASE fsBase[d] = b
        BY <1>1, <3>1 DEF OwnUnlessPushed
      <3>2. CASE fsBase[d] # b
        <4>1. OwnUnlessPushed(fsBase[d], images[fsBase[d]]) /\ fsBase[d] \in DOMAIN tls
          BY <2>2 DEF Inv, OwnContextAgain, BlocksApart, UsedBy
        <4> QED
          BY <1>1, <3>2, <4>1 DEF OwnUnlessPushed
      <3> QED
        BY <3>1, <3>2
    <2>3. ASSUME NEW d \in TlsCpus, destroying'[d] # NotDestroying
          PROVE  (OwnUnlessPushed(destroying[d].base, destroying[d].context) /\ scopes[destroying[d].block] = <<>>)'
      <3>1. destroying[d].base \in DOMAIN tls \ {b} /\ destroying[d].block \in DOMAIN tls \ {b}
        BY <2>3, DestroyingOn
      <3>2. OwnUnlessPushed(destroying[d].base, destroying[d].context) /\ scopes[destroying[d].block] = <<>>
        BY <2>3 DEF Inv, ContextsReturn
      <3> QED
        BY <1>1, <3>1, <3>2 DEF OwnUnlessPushed
    <2> QED
      BY <2>1, <2>2, <2>3, ContextsStep
  <1> QED
    BY <1>2, <1>3, <1>4, <1>5, <1>6, <1>7 DEF Inv

(* A CPU that runs is not in the middle of a destroy, and its block is none *)
(* that a destroy of another CPU needs.                                     *)
LEMMA NotDestroyed ==
    ASSUME Inv, NEW c \in TlsCpus, Runs(c)
    PROVE  \A d \in TlsCpus : destroying[d] # NotDestroying => fsBase[c] \notin {destroying[d].base, destroying[d].block}
  <1> SUFFICES ASSUME NEW d \in TlsCpus, destroying[d] # NotDestroying
               PROVE  fsBase[c] \notin {destroying[d].base, destroying[d].block}
    OBVIOUS
  <1>1. d # c /\ fsBase[c] # None_
    BY DEF Runs
  <1>2. UsedBy(c) \cap UsedBy(d) \subseteq {None_} /\ fsBase[c] \in UsedBy(c)
    BY <1>1 DEF Inv, BlocksApart, UsedBy
  <1>3. {destroying[d].base, destroying[d].block} \subseteq UsedBy(d)
    BY DestroyingOn
  <1> QED
    BY <1>1, <1>2, <1>3

(* Pushing a context touches the block of the CPU that pushes.              *)
LEMMA PushInv ==
    ASSUME Inv, NEW c \in TlsCpus, NEW fields \in SUBSET {"allocator", "temporary"},
           NEW ctx \in ContextsOf(fsBase[c]), Push(c, fields, ctx),
           \A f \in ContextFields \ fields : Field(ctx, f) = Field(Current_(c), f)
    PROVE  Inv'
  <1>1. PICK b \in DOMAIN tls : b = fsBase[c] /\ Current_(c) \in ContextsOf(b)
    BY RunsOn DEF Push
  <1> DEFINE scope == [fields |-> fields, previous |-> Current_(c)]
  <1>2. scope \in ScopesOf(b)
    BY <1>1 DEF ScopesOf
  <1> DEFINE list == Append(scopes[b], scope)
  <1>3. list \in Seq(ScopesOf(b))
    BY <1>1, <1>2 DEF Inv, TlsTypes
  <1>4. images' = [images EXCEPT ![b] = ctx] /\ scopes' = [scopes EXCEPT ![b] = list]
    BY <1>1 DEF Push
  <1>5. scopes[b] \in Seq(ScopesOf(b)) /\ Len(scopes[b]) \in Nat /\ DOMAIN scopes[b] = 1 .. Len(scopes[b])
    BY <1>1, LenProperties DEF Inv, TlsTypes
  <1> DEFINE n == Len(scopes[b])
  <1>6. /\ DOMAIN list = 1 .. n + 1 /\ list[n + 1] = scope /\ \A i \in 1 .. n : list[i] = scopes[b][i]
    BY <1>2, <1>5, AppendProperties, LenProperties
  <1>7. OwnUnlessPushed(b, Current_(c)) /\ FirstRestoresOwn(b)
    BY <1>1, PutAside DEF Push, Inv, ContextsReturn
  <1>8. scopes'[b] = list /\ tls' = tls /\ scope.fields = fields /\ scope.previous = Current_(c)
    BY <1>1, <1>4 DEF Push, Inv, TlsTypes
  <1> HIDE DEF list, scope
  <1>9. FirstRestoresOwn(b)'
    <2> SUFFICES ASSUME NEW i \in 1 .. n + 1, NEW f \in list[i].fields,
                        \A j \in 1 .. i - 1 : f \notin list[j].fields
                 PROVE  Field(list[i].previous, f) = Field(tls[b].context, f)
      BY <1>6, <1>8 DEF FirstRestoresOwn
    <2>1. CASE i \in 1 .. n
      <3>1. \A j \in 1 .. i - 1 : j \in 1 .. n /\ list[j] = scopes[b][j]
        BY <1>5, <1>6, <2>1
      <3> QED
        BY <1>5, <1>6, <1>7, <2>1, <3>1 DEF FirstRestoresOwn
    <2>2. CASE i = n + 1
      <3>1. f \in fields /\ \A j \in 1 .. n : f \notin scopes[b][j].fields
        BY <1>5, <1>6, <1>8, <2>2
      <3> QED
        BY <1>5, <1>6, <1>7, <1>8, <2>2, <3>1 DEF OwnUnlessPushed, ContextFields
    <2> QED
      BY <1>5, <2>1, <2>2
  <1>10. OwnUnlessPushed(b, ctx)'
    <2> SUFFICES ASSUME NEW f \in ContextFields, \A i \in 1 .. n + 1 : f \notin list[i].fields
                 PROVE  Field(ctx, f) = Field(tls[b].context, f)
      BY <1>6, <1>8 DEF OwnUnlessPushed
    <2>1. f \notin fields /\ \A i \in 1 .. n : f \notin scopes[b][i].fields
      BY <1>5, <1>6, <1>8
    <2> QED
      BY <1>5, <1>7, <2>1 DEF OwnUnlessPushed
  <1> QED
    BY <1>1, <1>3, <1>4, <1>9, <1>10, NotDestroyed, ScopeInv DEF Push

(* The setters keep a context one of the same block.                        *)
LEMMA SetContext ==
    ASSUME NEW b, NEW ctx \in ContextsOf(b), NEW a \in Allocators_, NEW t \in {None_, b, "pushed"}
    PROVE  /\ set_allocator(ctx, a) \in ContextsOf(b)
           /\ [ctx EXCEPT !.allocator = a] \in ContextsOf(b)
           /\ set_temporary_allocator(ctx, t) \in ContextsOf(b)
  <1>1. set_allocator(ctx, a) \in ContextsOf(b)
    BY DEF set_allocator, ContextsOf, Allocators_
  <1>2. [ctx EXCEPT !.allocator = a] \in ContextsOf(b)
    BY DEF ContextsOf
  <1>3. set_temporary_allocator(ctx, t) \in ContextsOf(b)
    BY DEF set_temporary_allocator, ContextsOf
  <1> QED
    BY <1>1, <1>2, <1>3

(* All but the last scope, or destructor.                                   *)
LEMMA FrontIs ==
    ASSUME NEW S, NEW s \in Seq(S), s # <<>>
    PROVE  /\ Len(s) \in Nat \ {0} /\ Front(s) \in Seq(S) /\ Len(Front(s)) = Len(s) - 1
           /\ \A i \in 1 .. Len(s) - 1 : Front(s)[i] = s[i]
  <1> DEFINE f == [i \in 1 .. Len(s) - 1 |-> s[i]]
  <1>1. Len(s) \in Nat \ {0}
    BY LenProperties, EmptySeq
  <1>2. \A i \in 1 .. Len(s) : s[i] \in S
    BY ElementOfSeq
  <1>3. SubSeq(s, 1, Len(s) - 1) = f
    BY <1>1, <1>2
  <1>4. Len(s) - 1 \in Nat /\ \A i \in 1 .. Len(s) - 1 : s[i] \in S
    BY <1>1, <1>2
  <1>5. f \in Seq(S)
    BY <1>4, IsASeq
  <1>6. Len(f) = Len(s) - 1
    BY <1>4, <1>5, LenProperties
  <1>7. Front(s) = f
    BY <1>3 DEF Front
  <1> QED
    BY <1>1, <1>5, <1>6, <1>7

(* Popping a context takes the latest one off.                              *)
LEMMA PopInv == ASSUME Inv, NEW c \in TlsCpus, Pop(c) PROVE Inv'
  <1>1. PICK b \in DOMAIN tls :
            /\ b = fsBase[c] /\ images[b] \in ContextsOf(b) /\ scopes[b] \in Seq(ScopesOf(b)) /\ scopes[b] # <<>>
    BY RunsOn DEF Pop, Inv, TlsTypes
  <1> DEFINE scope == Last(scopes[b])
             allocated == IF "allocator" \notin scope.fields THEN images[b]
                          ELSE IF scope.fields = {"allocator"} THEN set_allocator(images[b], scope.previous.allocator)
                          ELSE [images[b] EXCEPT !.allocator = scope.previous.allocator]
             ctx == IF "temporary" \in scope.fields
                    THEN set_temporary_allocator(allocated, scope.previous.temporary) ELSE allocated
             list == Front(scopes[b])
  <1>2. scope \in ScopesOf(b) /\ list \in Seq(ScopesOf(b))
    BY <1>1 DEF Last, Front
  <1>3. scope.previous \in ContextsOf(b)
    BY <1>2 DEF ScopesOf
  <1>4. scope.previous.allocator \in Allocators_ /\ scope.previous.temporary \in {None_, b, "pushed"}
    BY <1>3 DEF ContextsOf
  <1>5. images' = [images EXCEPT ![b] = ctx] /\ scopes' = [scopes EXCEPT ![b] = list]
    BY <1>1 DEF Pop
  <1> HIDE DEF scope, list
  <1>6. allocated \in ContextsOf(b)
    BY <1>1, <1>4, SetContext
  <1> HIDE DEF allocated
  <1>7. ctx \in ContextsOf(b)
    BY <1>4, <1>6, SetContext
  <1>8. \A f \in ContextFields \ scope.fields : Field(ctx, f) = Field(images[b], f)
    BY <1>1, <1>2, <1>4 DEF ctx, allocated, Field, ContextFields, ScopesOf, ContextsOf, set_allocator, set_temporary_allocator
  <1>9. ASSUME NEW f \in scope.fields, Field(scope.previous, f) = Field(tls[b].context, f)
        PROVE  Field(ctx, f) = Field(tls[b].context, f)
    <2>1. tls[b].context.allocator \in BlockAllocators /\ f \in ContextFields
      BY <1>1, <1>2 DEF Inv, TlsTypes, StatesOf, ScopesOf, ContextFields
    <2>2. CASE f = "temporary"
      BY <1>6, <1>9, <2>2 DEF ctx, Field, set_temporary_allocator, ContextsOf
    <2>3. CASE f = "allocator"
      <3>1. scope.previous.allocator = tls[b].context.allocator /\ scope.previous.allocator # None_
        BY <1>9, <2>1, <2>3 DEF Field, BlockAllocators, None_
      <3>2. allocated.allocator = scope.previous.allocator
        BY <1>1, <2>3, <3>1 DEF allocated, set_allocator, ContextsOf
      <3>3. ctx.allocator = allocated.allocator
        BY <1>6 DEF ctx, set_temporary_allocator, ContextsOf
      <3> QED
        BY <2>3, <3>1, <3>2, <3>3 DEF Field
    <2> QED
      BY <2>1, <2>2, <2>3 DEF ContextFields
  <1> HIDE DEF ctx
  <1> DEFINE n == Len(scopes[b])
  <1>10. /\ n \in Nat \ {0} /\ DOMAIN scopes[b] = 1 .. n /\ DOMAIN list = 1 .. n - 1 /\ scope = scopes[b][n]
         /\ \A i \in 1 .. n - 1 : list[i] = scopes[b][i]
    BY <1>1, <1>2, FrontIs, LenProperties DEF list, scope, Last
  <1>11. OwnUnlessPushed(b, images[b]) /\ FirstRestoresOwn(b)
    BY <1>1, PutAside DEF Pop, Inv, ContextsReturn, Current_
  <1>12. scopes'[b] = list /\ tls' = tls
    BY <1>1, <1>5 DEF Pop, Inv, TlsTypes
  <1> HIDE DEF n
  <1>13. FirstRestoresOwn(b)'
    <2> SUFFICES ASSUME NEW i \in 1 .. n - 1, NEW f \in list[i].fields,
                        \A j \in 1 .. i - 1 : f \notin list[j].fields
                 PROVE  Field(list[i].previous, f) = Field(tls[b].context, f)
      BY <1>10, <1>12 DEF FirstRestoresOwn
    <2>1. \A j \in 1 .. i - 1 : j \in 1 .. n - 1 /\ list[j] = scopes[b][j]
      BY <1>10
    <2>2. i \in 1 .. n /\ list[i] = scopes[b][i]
      BY <1>10
    <2> QED
      BY <1>10, <1>11, <2>1, <2>2 DEF FirstRestoresOwn
  <1>14. PICK now \in ContextsOf(b) : now = ctx
    BY <1>7
  <1>15. OwnUnlessPushed(b, now)'
    <2> SUFFICES ASSUME NEW f \in ContextFields, \A i \in 1 .. n - 1 : f \notin list[i].fields
                 PROVE  Field(ctx, f) = Field(tls[b].context, f)
      BY <1>10, <1>12, <1>14 DEF OwnUnlessPushed
    <2>1. \A i \in 1 .. n - 1 : f \notin scopes[b][i].fields
      BY <1>10
    <2>2. CASE f \in scope.fields
      <3>1. Field(scope.previous, f) = Field(tls[b].context, f)
        BY <1>10, <1>11, <2>1, <2>2 DEF FirstRestoresOwn
      <3> QED
        BY <1>9, <2>2, <3>1
    <2>3. CASE f \notin scope.fields
      <3>1. \A i \in 1 .. n : f \notin scopes[b][i].fields
        BY <1>10, <2>1, <2>3
      <3> QED
        BY <1>8, <1>10, <1>11, <2>3, <3>1 DEF OwnUnlessPushed
    <2> QED
      BY <2>2, <2>3
  <1> QED
    BY <1>1, <1>2, <1>5, <1>13, <1>14, <1>15, NotDestroyed, ScopeInv DEF Pop

(* Each of the three ways to push.                                          *)
LEMMA PushesInv ==
    ASSUME Inv, NEW c \in TlsCpus,
           \/ \E a \in BlockAllocators \cup {None_} : Push_Allocator(c, a)
           \/ \E t \in {None_, "pushed"} : Push_Temporary_Allocator(c, t)
           \/ Push_Context(c)
    PROVE  Inv'
  <1>1. Runs(c)
    BY DEF Push_Allocator, Push_Temporary_Allocator, Push_Context, Push
  <1>2. Current_(c) \in ContextsOf(fsBase[c])
    BY <1>1, RunsOn
  <1>3. \A a \in BlockAllocators \cup {None_} : set_allocator(Current_(c), a) \in ContextsOf(fsBase[c])
    BY <1>2, SetContext DEF Allocators_
  <1>4. \A t \in {None_, "pushed"} : set_temporary_allocator(Current_(c), t) \in ContextsOf(fsBase[c])
    BY <1>2, SetContext DEF Allocators_
  <1>5. \A a : Field(set_allocator(Current_(c), a), "temporary") = Field(Current_(c), "temporary")
    BY <1>2 DEF Field, set_allocator, ContextsOf
  <1>6. \A t : Field(set_temporary_allocator(Current_(c), t), "allocator") = Field(Current_(c), "allocator")
    BY <1>2 DEF Field, set_temporary_allocator, ContextsOf
  <1>7. /\ \A a : \A f \in ContextFields \ {"allocator"} : Field(set_allocator(Current_(c), a), f) = Field(Current_(c), f)
        /\ \A t : \A f \in ContextFields \ {"temporary"} :
               Field(set_temporary_allocator(Current_(c), t), f) = Field(Current_(c), f)
    BY <1>5, <1>6 DEF ContextFields
  <1> QED
    BY <1>2, <1>3, <1>4, <1>7, PushInv DEF Push_Allocator, Push_Temporary_Allocator, Push_Context

-----------------------------------------------------------------------------
(* The destructors of a block in the order of its objects, over the lengths *)
(* n and m of the two lists.                                                *)
Ordered(n, m, ds, alive, at) ==
    /\ at \in [1 .. n -> 1 .. m]
    /\ \A i, j \in 1 .. n : i < j => at[i] < at[j]
    /\ \A i \in 1 .. n : alive[at[i]].registered /\ alive[at[i]].object = ds[i]
    /\ \A k \in 1 .. m : alive[k].registered => \E i \in 1 .. n : at[i] = k

(* The objects without one of them.                                         *)
LEMMA RemoveAtIs ==
    ASSUME NEW S, NEW s \in Seq(S), NEW l \in 1 .. Len(s)
    PROVE  /\ RemoveAt(s, l) \in Seq(S) /\ Len(RemoveAt(s, l)) = Len(s) - 1
           /\ \A i \in 1 .. Len(s) - 1 : RemoveAt(s, l)[i] = IF i < l THEN s[i] ELSE s[i + 1]
  <1> DEFINE a == SubSeq(s, 1, l - 1)
             b == SubSeq(s, l + 1, Len(s))
  <1>1. Len(s) \in Nat /\ \A i \in 1 .. Len(s) : s[i] \in S
    BY LenProperties, ElementOfSeq
  <1>2. a \in Seq(S) /\ Len(a) = l - 1 /\ \A i \in 1 .. l - 1 : a[i] = s[i]
    BY <1>1
  <1>3. b \in Seq(S) /\ Len(b) = Len(s) - l /\ \A i \in 1 .. Len(s) - l : b[i] = s[l + i]
    BY <1>1
  <1> HIDE DEF a, b
  <1>4. /\ a \o b \in Seq(S) /\ Len(a \o b) = Len(a) + Len(b)
        /\ \A i \in 1 .. Len(a) + Len(b) : (a \o b)[i] = IF i <= Len(a) THEN a[i] ELSE b[i - Len(a)]
    BY <1>2, <1>3, ConcatProperties
  <1>5. Len(a \o b) = Len(s) - 1
    BY <1>1, <1>2, <1>3, <1>4
  <1>6. ASSUME NEW i \in 1 .. Len(s) - 1 PROVE (a \o b)[i] = IF i < l THEN s[i] ELSE s[i + 1]
    <2>1. CASE i < l
      <3>1. i \in 1 .. l - 1 /\ i \in 1 .. Len(a) + Len(b) /\ i <= Len(a)
        BY <1>1, <1>2, <1>3, <2>1
      <3> QED
        BY <1>2, <1>4, <2>1, <3>1
    <2>2. CASE ~(i < l)
      <3>1. /\ i \in 1 .. Len(a) + Len(b) /\ ~(i <= Len(a)) /\ i - Len(a) \in 1 .. Len(s) - l
            /\ l + (i - Len(a)) = i + 1
        BY <1>1, <1>2, <1>3, <2>2
      <3>2. (a \o b)[i] = b[i - Len(a)] /\ b[i - Len(a)] = s[l + (i - Len(a))]
        BY <1>3, <1>4, <3>1
      <3> QED
        BY <2>2, <3>1, <3>2
    <2> QED
      BY <2>1, <2>2
  <1>7. RemoveAt(s, l) = a \o b
    BY DEF RemoveAt, a, b
  <1> QED
    BY <1>4, <1>5, <1>6, <1>7

(* The destructors are those of the objects alive, in order, by their       *)
(* places.                                                                  *)
LEMMA InOrderIs ==
    ASSUME NEW ds \in Seq(Nat), NEW alive \in Seq(ObjectsAlive)
    PROVE  InOrder(ds, alive) <=> \E at : Ordered(Len(ds), Len(alive), ds, alive, at)
  <1>1. DOMAIN ds = 1 .. Len(ds) /\ DOMAIN alive = 1 .. Len(alive)
    BY LenProperties
  <1> DEFINE D == 1 .. Len(ds)
             A == 1 .. Len(alive)
             Fits(at) == /\ \A i, j \in D : i < j => at[i] < at[j]
                         /\ \A i \in D : alive[at[i]].registered /\ alive[at[i]].object = ds[i]
                         /\ \A k \in A : alive[k].registered => \E i \in D : at[i] = k
  <1>2. InOrder(ds, alive) <=> \E at \in [D -> A] : Fits(at)
    BY <1>1 DEF InOrder
  <1>3. ASSUME NEW at PROVE Ordered(Len(ds), Len(alive), ds, alive, at) <=> at \in [D -> A] /\ Fits(at)
    BY DEF Ordered
  <1> HIDE DEF D, A, Fits
  <1> QED
    BY <1>2, <1>3

(* One more of both, the new object registered.                             *)
LEMMA OrderedMore ==
    ASSUME NEW n \in Nat, NEW m \in Nat, NEW ds, NEW alive, NEW at, Ordered(n, m, ds, alive, at),
           NEW ds2, NEW alive2,
           \A i \in 1 .. n : ds2[i] = ds[i], \A k \in 1 .. m : alive2[k] = alive[k],
           alive2[m + 1].registered, alive2[m + 1].object = ds2[n + 1]
    PROVE  \E to : Ordered(n + 1, m + 1, ds2, alive2, to)
  <1> DEFINE to == [i \in 1 .. n + 1 |-> IF i = n + 1 THEN m + 1 ELSE at[i]]
  <1>1. at \in [1 .. n -> 1 .. m]
    BY DEF Ordered
  <1>2. \A i, j \in 1 .. n : i < j => at[i] < at[j]
    BY DEF Ordered
  <1>3. \A i \in 1 .. n : alive[at[i]].registered /\ alive[at[i]].object = ds[i]
    BY DEF Ordered
  <1>4. \A k \in 1 .. m : alive[k].registered => \E i \in 1 .. n : at[i] = k
    BY DEF Ordered
  <1>5. /\ to \in [1 .. n + 1 -> 1 .. m + 1] /\ to[n + 1] = m + 1
        /\ \A i \in 1 .. n : to[i] = at[i] /\ to[i] \in 1 .. m
    BY <1>1
  <1> HIDE DEF to
  <1>6. \A i \in 1 .. n + 1 : i = n + 1 \/ i \in 1 .. n
    OBVIOUS
  <1>7. \A i, j \in 1 .. n + 1 : i < j => to[i] < to[j]
    BY <1>1, <1>2, <1>5, SMTT(30)
  <1>8. ASSUME NEW i \in 1 .. n + 1 PROVE alive2[to[i]].registered /\ alive2[to[i]].object = ds2[i]
    BY <1>3, <1>5, <1>6
  <1>9. ASSUME NEW k \in 1 .. m + 1, alive2[k].registered PROVE \E i \in 1 .. n + 1 : to[i] = k
    <2>1. CASE k = m + 1
      BY <1>5, <2>1
    <2>2. CASE k \in 1 .. m
      <3>1. alive[k].registered
        BY <1>9, <2>2
      <3>2. PICK i \in 1 .. n : at[i] = k
        BY <1>4, <2>2, <3>1
      <3> QED
        BY <1>5, <3>2
    <2> QED
      BY <2>1, <2>2
  <1>10. Ordered(n + 1, m + 1, ds2, alive2, to)
    <2>1. /\ to \in [1 .. n + 1 -> 1 .. m + 1]
          /\ \A i, j \in 1 .. n + 1 : i < j => to[i] < to[j]
          /\ \A i \in 1 .. n + 1 : alive2[to[i]].registered /\ alive2[to[i]].object = ds2[i]
          /\ \A k \in 1 .. m + 1 : alive2[k].registered => \E i \in 1 .. n + 1 : to[i] = k
      BY <1>5, <1>7, <1>8, <1>9
    <2> QED
      BY <2>1, Zenon DEF Ordered
  <1> QED
    BY <1>10

(* One more object that was refused.                                        *)
LEMMA OrderedSame ==
    ASSUME NEW n \in Nat, NEW m \in Nat, NEW ds, NEW alive, NEW at, Ordered(n, m, ds, alive, at),
           NEW alive2, \A k \in 1 .. m : alive2[k] = alive[k], ~alive2[m + 1].registered
    PROVE  Ordered(n, m + 1, ds, alive2, at)
  <1>1. at \in [1 .. n -> 1 .. m]
    BY DEF Ordered
  <1>2. \A i, j \in 1 .. n : i < j => at[i] < at[j]
    BY DEF Ordered
  <1>3. \A i \in 1 .. n : alive[at[i]].registered /\ alive[at[i]].object = ds[i]
    BY DEF Ordered
  <1>4. \A k \in 1 .. m : alive[k].registered => \E i \in 1 .. n : at[i] = k
    BY DEF Ordered
  <1>5. at \in [1 .. n -> 1 .. m + 1] /\ \A i \in 1 .. n : at[i] \in 1 .. m
    BY <1>1
  <1>6. \A i \in 1 .. n : alive2[at[i]].registered /\ alive2[at[i]].object = ds[i]
    BY <1>3, <1>5
  <1>7. \A k \in 1 .. m + 1 : alive2[k].registered => k \in 1 .. m /\ alive[k].registered
    OBVIOUS
  <1>8. \A k \in 1 .. m + 1 : alive2[k].registered => \E i \in 1 .. n : at[i] = k
    BY <1>4, <1>7
  <1> QED
    BY <1>2, <1>5, <1>6, <1>8 DEF Ordered

(* The last destructor is that of the last object registered ...            *)
LEMMA LastOrdered ==
    ASSUME NEW n \in Nat \ {0}, NEW m \in Nat, NEW ds, NEW alive, DOMAIN alive = 1 .. m, NEW at,
           Ordered(n, m, ds, alive, at)
    PROVE  LastRegistered(alive) = at[n] /\ at[n] \in 1 .. m
  <1>1. at \in [1 .. n -> 1 .. m] /\ n \in 1 .. n
    BY DEF Ordered
  <1>2. \A i, j \in 1 .. n : i < j => at[i] < at[j]
    BY DEF Ordered
  <1>3. \A i \in 1 .. n : alive[at[i]].registered
    BY DEF Ordered
  <1>4. \A k \in 1 .. m : alive[k].registered => \E i \in 1 .. n : at[i] = k
    BY DEF Ordered
  <1>5. at[n] \in 1 .. m /\ alive[at[n]].registered
    BY <1>1, <1>3
  <1>6. ASSUME NEW i \in 1 .. n PROVE at[i] <= at[n]
    <2>1. CASE i = n
      BY <1>5, <2>1
    <2>2. CASE i < n
      <3>1. at[i] < at[n] /\ at[i] \in 1 .. m
        BY <1>1, <1>2, <2>2
      <3> QED
        BY <1>5, <3>1
    <2> QED
      BY <2>1, <2>2
  <1>7. \A j \in 1 .. m : alive[j].registered => j <= at[n]
    BY <1>4, <1>6
  <1> DEFINE P(i) == alive[i].registered /\ \A j \in 1 .. m : alive[j].registered => j <= i
  <1>8. P(at[n])
    BY <1>5, <1>7
  <1>9. ASSUME NEW i \in 1 .. m, P(i) PROVE i = at[n]
    BY <1>5, <1>7, <1>9
  <1>10. LastRegistered(alive) = CHOOSE i \in 1 .. m : P(i)
    BY DEF LastRegistered
  <1> HIDE DEF P
  <1> QED
    BY <1>5, <1>8, <1>9, <1>10

(* ... and what is left without both is in order again.                     *)
LEMMA OrderedLess ==
    ASSUME NEW n \in Nat \ {0}, NEW m \in Nat, NEW ds, NEW alive, NEW at, Ordered(n, m, ds, alive, at),
           NEW ds2, NEW alive2, \A i \in 1 .. n - 1 : ds2[i] = ds[i],
           \A k \in 1 .. m - 1 : alive2[k] = IF k < at[n] THEN alive[k] ELSE alive[k + 1]
    PROVE  \E to : Ordered(n - 1, m - 1, ds2, alive2, to)
  <1> DEFINE to == [i \in 1 .. n - 1 |-> at[i]]
  <1>1. at \in [1 .. n -> 1 .. m]
    BY DEF Ordered
  <1>2. \A i, j \in 1 .. n : i < j => at[i] < at[j]
    BY DEF Ordered
  <1>3. \A i \in 1 .. n : alive[at[i]].registered /\ alive[at[i]].object = ds[i]
    BY DEF Ordered
  <1>4. \A k \in 1 .. m : alive[k].registered => \E i \in 1 .. n : at[i] = k
    BY DEF Ordered
  <1>5. at[n] \in 1 .. m
    BY <1>1
  <1>6. \A i \in 1 .. n - 1 : i \in 1 .. n /\ i < n
    OBVIOUS
  <1>7. \A i \in 1 .. n - 1 : to[i] = at[i] /\ at[i] < at[n] /\ at[i] \in 1 .. m - 1
    BY <1>1, <1>2, <1>5, <1>6
  <1>8. to \in [1 .. n - 1 -> 1 .. m - 1]
    BY <1>7
  <1> HIDE DEF to
  <1>9. \A i, j \in 1 .. n - 1 : i < j => to[i] < to[j]
    BY <1>2, <1>6, <1>7
  <1>10. \A i \in 1 .. n - 1 : alive2[to[i]] = alive[at[i]]
    BY <1>7
  <1>11. \A i \in 1 .. n - 1 : alive2[to[i]].registered /\ alive2[to[i]].object = ds2[i]
    BY <1>3, <1>6, <1>10
  <1>12. ASSUME NEW k \in 1 .. m - 1, alive2[k].registered PROVE \E i \in 1 .. n - 1 : to[i] = k
    <2>1. k < at[n]
      <3>1. SUFFICES ASSUME ~(k < at[n]) PROVE FALSE
        OBVIOUS
      <3>2. k + 1 \in 1 .. m /\ alive[k + 1].registered
        BY <1>12, <3>1
      <3>3. PICK i \in 1 .. n : at[i] = k + 1
        BY <1>4, <3>2
      <3>4. i = n \/ i < n
        OBVIOUS
      <3>5. at[i] <= at[n]
        BY <1>1, <1>2, <1>5, <3>4
      <3> QED
        BY <1>5, <3>1, <3>3, <3>5
    <2>2. k \in 1 .. m /\ alive[k].registered
      BY <1>12, <2>1
    <2>3. PICK i \in 1 .. n : at[i] = k
      BY <1>4, <2>2
    <2>4. i # n
      BY <1>5, <2>1, <2>3
    <2>5. i \in 1 .. n - 1
      BY <2>4
    <2> QED
      BY <1>7, <2>3, <2>5
  <1>13. Ordered(n - 1, m - 1, ds2, alive2, to)
    BY <1>8, <1>9, <1>11, <1>12 DEF Ordered
  <1> QED
    BY <1>13

(* An object is registered, or is not for want of memory.                   *)
LEMMA AppendInOrder ==
    ASSUME NEW ds \in Seq(Nat), NEW alive \in Seq(ObjectsAlive), NEW object \in Nat, InOrder(ds, alive)
    PROVE  /\ InOrder(Append(ds, object), Append(alive, [object |-> object, registered |-> TRUE]))
           /\ InOrder(ds, Append(alive, [object |-> object, registered |-> FALSE]))
  <1> DEFINE yes == [object |-> object, registered |-> TRUE]
             no == [object |-> object, registered |-> FALSE]
             taken == Append(alive, yes)
             refused == Append(alive, no)
             more == Append(ds, object)
             n == Len(ds)
             m == Len(alive)
  <1>1. yes \in ObjectsAlive /\ no \in ObjectsAlive /\ yes.registered /\ ~no.registered /\ yes.object = object
    BY DEF ObjectsAlive
  <1> HIDE DEF yes, no
  <1>2. PICK at : Ordered(n, m, ds, alive, at)
    BY InOrderIs
  <1>3. more \in Seq(Nat) /\ taken \in Seq(ObjectsAlive) /\ refused \in Seq(ObjectsAlive)
    BY <1>1
  <1>4. /\ Len(more) = n + 1 /\ more[n + 1] = object /\ \A i \in 1 .. n : more[i] = ds[i]
        /\ Len(taken) = m + 1 /\ taken[m + 1] = yes /\ \A k \in 1 .. m : taken[k] = alive[k]
        /\ Len(refused) = m + 1 /\ refused[m + 1] = no /\ \A k \in 1 .. m : refused[k] = alive[k]
    BY <1>1, AppendProperties
  <1>5. n \in Nat /\ m \in Nat
    BY LenProperties
  <1> HIDE DEF taken, refused, more, n, m
  <1>6. taken[m + 1].registered /\ taken[m + 1].object = more[n + 1] /\ ~refused[m + 1].registered
    BY <1>1, <1>4
  <1>7. \E to : Ordered(n + 1, m + 1, more, taken, to)
    <2>1. \A i \in 1 .. n : more[i] = ds[i]
      BY <1>4
    <2>2. \A k \in 1 .. m : taken[k] = alive[k]
      BY <1>4
    <2>3. taken[m + 1].registered
      BY <1>6
    <2>4. taken[m + 1].object = more[n + 1]
      BY <1>6
    <2> QED
      BY <1>2, <1>5, <2>1, <2>2, <2>3, <2>4, OrderedMore
  <1>8. Ordered(n, m + 1, ds, refused, at)
    BY <1>2, <1>4, <1>5, <1>6, OrderedSame
  <1>9. InOrder(more, taken)
    BY <1>3, <1>4, <1>7, InOrderIs
  <1>10. InOrder(ds, refused)
    BY <1>3, <1>4, <1>8, InOrderIs DEF n
  <1> QED
    BY <1>9, <1>10 DEF taken, refused, more, yes, no

(* The latest registered object is destroyed first.                         *)
LEMMA RemoveInOrder ==
    ASSUME NEW ds \in Seq(Nat), NEW alive \in Seq(ObjectsAlive), ds # <<>>, InOrder(ds, alive)
    PROVE  /\ RemoveAt(alive, LastRegistered(alive)) \in Seq(ObjectsAlive)
           /\ InOrder(Front(ds), RemoveAt(alive, LastRegistered(alive)))
  <1> DEFINE rest == Front(ds)
             l == LastRegistered(alive)
             left_ == RemoveAt(alive, l)
  <1>1. PICK at : Ordered(Len(ds), Len(alive), ds, alive, at)
    BY InOrderIs
  <1>2. Len(alive) \in Nat /\ DOMAIN alive = 1 .. Len(alive)
    BY LenProperties
  <1>3. /\ Len(ds) \in Nat \ {0}
        /\ rest \in Seq(Nat) /\ Len(rest) = Len(ds) - 1 /\ \A i \in 1 .. Len(ds) - 1 : rest[i] = ds[i]
    BY FrontIs
  <1>4. l = at[Len(ds)] /\ l \in 1 .. Len(alive)
    BY <1>1, <1>2, <1>3, LastOrdered
  <1>5. /\ left_ \in Seq(ObjectsAlive) /\ Len(left_) = Len(alive) - 1
        /\ \A k \in 1 .. Len(alive) - 1 : left_[k] = IF k < l THEN alive[k] ELSE alive[k + 1]
    BY <1>4, RemoveAtIs
  <1> HIDE DEF left_, rest, l
  <1>6. \A k \in 1 .. Len(alive) - 1 : left_[k] = IF k < at[Len(ds)] THEN alive[k] ELSE alive[k + 1]
    BY <1>4, <1>5
  <1>7. \E to : Ordered(Len(ds) - 1, Len(alive) - 1, rest, left_, to)
    BY <1>1, <1>2, <1>3, <1>6, OrderedLess, ZenonT(40)
  <1>8. InOrder(rest, left_)
    BY <1>3, <1>5, <1>7, InOrderIs
  <1> QED
    BY <1>5, <1>8 DEF left_, rest, l

(* A change of the objects of a block and of its destructors.               *)
LEMMA ObjectsInv ==
    ASSUME Inv, NEW b \in DOMAIN tls, NEW ds \in Seq(Nat), NEW alive \in Seq(ObjectsAlive),
           InOrder(ds, alive), Len(ds) <= MAX_DESTRUCTORS,
           tls' = [tls EXCEPT ![b].destructors = ds], objects' = [objects EXCEPT ![b] = alive],
           UNCHANGED <<fsBase, idle_blocks, images, scopes, destroying, pieces, scheduled>>
    PROVE  Inv'
  <1> DEFINE changed == [tls[b] EXCEPT !.destructors = ds]
  <1>1. tls[b] \in StatesOf(b)
    BY DEF Inv, TlsTypes
  <1>2. changed \in StatesOf(b)
    BY <1>1 DEF StatesOf
  <1>3. changed.destructors = ds /\ changed.context = tls[b].context /\ changed.allocator = tls[b].allocator
    BY <1>1 DEF StatesOf
  <1>4. tls' = [tls EXCEPT ![b] = changed]
    OBVIOUS
  <1> HIDE DEF changed
  <1>5. /\ DOMAIN tls' = DOMAIN tls /\ tls'[b] = changed /\ \A k \in DOMAIN tls : k # b => tls'[k] = tls[k]
        /\ DOMAIN objects' = DOMAIN tls /\ objects'[b] = alive
        /\ \A k \in DOMAIN tls : k # b => objects'[k] = objects[k]
    BY <1>4 DEF Inv, TlsTypes
  <1>6. \A k \in DOMAIN tls : tls'[k].context = tls[k].context /\ tls'[k].allocator = tls[k].allocator
    BY <1>3, <1>5
  <1>7. TlsTypes'
    <2>1. \A k \in DOMAIN tls : tls'[k] \in StatesOf(k) /\ objects'[k] \in Seq(ObjectsAlive)
      BY <1>2, <1>5 DEF Inv, TlsTypes
    <2> QED
      BY <1>5, <2>1 DEF Inv, TlsTypes
  <1>8. OwnTemporary'
    BY <1>5, <1>6 DEF Inv, OwnTemporary
  <1>9. StorageAccountedFor'
    BY <1>5, <1>6, PiecesKept DEF Inv
  <1>10. DestroyedInOrder'
    BY <1>3, <1>5 DEF Inv, DestroyedInOrder
  <1>11. BlocksApart'
    BY <1>5, ApartKept DEF Inv
  <1>12. ContextsReturn' /\ OwnContextAgain'
    <2>1. ASSUME NEW k \in DOMAIN tls' PROVE FirstRestoresOwn(k)'
      BY <1>5, <1>6 DEF Inv, ContextsReturn, FirstRestoresOwn
    <2>2. ASSUME NEW d \in TlsCpus, fsBase'[d] # None_ PROVE OwnUnlessPushed(fsBase[d], images[fsBase[d]])'
      <3>1. OwnUnlessPushed(fsBase[d], images[fsBase[d]]) /\ fsBase[d] \in DOMAIN tls
        BY <2>2 DEF Inv, OwnContextAgain, BlocksApart, UsedBy
      <3> QED
        BY <1>6, <3>1 DEF OwnUnlessPushed
    <2>3. ASSUME NEW d \in TlsCpus, destroying'[d] # NotDestroying
          PROVE  (OwnUnlessPushed(destroying[d].base, destroying[d].context) /\ scopes[destroying[d].block] = <<>>)'
      <3>1. destroying[d].base \in DOMAIN tls
        BY <2>3, DestroyingOn
      <3>2. OwnUnlessPushed(destroying[d].base, destroying[d].context) /\ scopes[destroying[d].block] = <<>>
        BY <2>3 DEF Inv, ContextsReturn
      <3> QED
        BY <1>6, <3>1, <3>2 DEF OwnUnlessPushed
    <2> QED
      BY <2>1, <2>2, <2>3, ContextsStep
  <1> QED
    BY <1>7, <1>8, <1>9, <1>10, <1>11, <1>12 DEF Inv

(* A registration after the registry and the objects were put in order.     *)
LEMMA RegisteredInv ==
    ASSUME Inv, NEW b \in DOMAIN tls, NEW ds \in Seq(Nat), NEW alive \in Seq(ObjectsAlive),
           InOrder(ds, alive), Len(ds) <= MAX_DESTRUCTORS, Registered(b, ds, alive),
           UNCHANGED <<fsBase, idle_blocks, images, scopes, destroying, pieces, scheduled>>
    PROVE  Inv'
  <1> DEFINE object == Len(alive) + 1
             now == Append(alive, [object |-> object, registered |-> DestructorFits(ds)])
             table == IF DestructorFits(ds) THEN Append(ds, object) ELSE ds
  <1>1. object \in Nat
    OBVIOUS
  <1>2. tls' = [tls EXCEPT ![b].destructors = table] /\ objects' = [objects EXCEPT ![b] = now]
    BY DEF Registered
  <1>3. table \in Seq(Nat) /\ Len(table) <= MAX_DESTRUCTORS
    BY <1>1, TlsAssumption DEF DestructorFits
  <1>4. now \in Seq(ObjectsAlive)
    BY <1>1 DEF ObjectsAlive, DestructorFits
  <1>5. InOrder(table, now)
    <2>1. CASE DestructorFits(ds)
      <3>1. DestructorFits(ds) = TRUE
        BY <2>1 DEF DestructorFits
      <3>2. table = Append(ds, object) /\ now = Append(alive, [object |-> object, registered |-> TRUE])
        BY <3>1
      <3> QED
        BY <1>1, <3>2, AppendInOrder
    <2>2. CASE ~DestructorFits(ds)
      <3>1. DestructorFits(ds) = FALSE
        BY <2>2 DEF DestructorFits
      <3>2. table = ds /\ now = Append(alive, [object |-> object, registered |-> FALSE])
        BY <3>1
      <3> QED
        BY <1>1, <3>2, AppendInOrder
    <2> QED
      BY <2>1, <2>2
  <1> HIDE DEF table, now
  <1> QED
    BY <1>2, <1>3, <1>4, <1>5, ObjectsInv

(* __cxa_thread_atexit: the object is registered behind the others.         *)
LEMMA AtExitInv == ASSUME Inv, NEW c \in TlsCpus, __cxa_thread_atexit(c) PROVE Inv'
  <1> DEFINE b == fsBase[c]
  <1>1. b \in DOMAIN tls
    BY RunsOn DEF __cxa_thread_atexit
  <1>2. tls[b].destructors \in Seq(Nat) /\ objects[b] \in Seq(ObjectsAlive)
    BY <1>1 DEF Inv, TlsTypes, StatesOf
  <1>3. InOrder(tls[b].destructors, objects[b]) /\ Len(tls[b].destructors) <= MAX_DESTRUCTORS
    BY <1>1 DEF Inv, DestroyedInOrder
  <1> QED
    BY <1>1, <1>2, <1>3, RegisteredInv DEF __cxa_thread_atexit

(* destroy runs the last destructor, which may construct another object.    *)
LEMMA DestroyNextInv == ASSUME Inv, NEW c \in TlsCpus, destroy_next(c) PROVE Inv'
  <1> DEFINE b == fsBase[c]
             registry == tls[b].destructors
             rest == Front(registry)
             alive == RemoveAt(objects[b], LastRegistered(objects[b]))
  <1>1. b \in DOMAIN tls
    BY DEF destroy_next, Inv, BlocksApart, UsedBy
  <1>2. registry \in Seq(Nat) /\ objects[b] \in Seq(ObjectsAlive) /\ registry # <<>>
    BY <1>1 DEF destroy_next, Inv, TlsTypes, StatesOf
  <1>3. InOrder(registry, objects[b]) /\ Len(registry) <= MAX_DESTRUCTORS
    BY <1>1 DEF Inv, DestroyedInOrder
  <1>4. alive \in Seq(ObjectsAlive) /\ InOrder(rest, alive)
    BY <1>2, <1>3, RemoveInOrder
  <1>5. rest \in Seq(Nat) /\ Len(rest) <= MAX_DESTRUCTORS
    <2>1. rest \in Seq(Nat) /\ Len(rest) = Len(registry) - 1 /\ Len(registry) \in Nat
      BY <1>2, FrontIs
    <2> QED
      BY <1>3, <2>1, TlsAssumption
  <1>6. /\ \/ tls' = [tls EXCEPT ![b].destructors = rest] /\ objects' = [objects EXCEPT ![b] = alive]
           \/ Registered(b, rest, alive)
        /\ UNCHANGED <<fsBase, idle_blocks, images, scopes, destroying, pieces, scheduled>>
    BY DEF destroy_next
  <1> HIDE DEF rest, alive, registry
  <1> QED
    BY <1>1, <1>4, <1>5, <1>6, ObjectsInv, RegisteredInv

(* The end of destroy: all that the block was made of goes, and the CPU is  *)
(* back on the block that the scheduler put there.                          *)
LEMMA DestroyEndInv == ASSUME Inv, NEW c \in TlsCpus, destroy_end(c) PROVE Inv'
  <1> DEFINE b == destroying[c].block
             base == destroying[c].base
             context == destroying[c].context
             left_ == DOMAIN tls \ {b}
             Freed(p) == p.block = b /\ p.from = tls[b].allocator /\ (p.kind = "temporary" => HasTemporary(b))
  <1>1. destroying[c] # NotDestroying /\ idle_blocks' = idle_blocks /\ scheduled' = scheduled
    BY DEF destroy_end
  <1>2. fsBase[c] # None_
    BY <1>1 DEF Inv, BlocksApart
  <1>3. /\ destroying[c] \in [block : {fsBase[c]}, base : {scheduled[c]}, context : ContextsOf(scheduled[c])]
        /\ fsBase[c] \notin {idle_blocks[c], scheduled[c]}
    BY <1>1, <1>2 DEF Inv, BlocksApart
  <1>4. b = fsBase[c] /\ base = scheduled[c] /\ context \in ContextsOf(base)
    BY <1>3
  <1>5. UsedBy(c) = {b, base, idle_blocks[c]} /\ UsedBy(c) \subseteq DOMAIN tls
    <2>1. UsedBy(c) = {b, base, idle_blocks[c]}
      BY <1>1, <1>4 DEF UsedBy
    <2> QED
      BY <1>2, <2>1 DEF Inv, BlocksApart
  <1>6. b \in DOMAIN tls /\ base \in left_ /\ idle_blocks[c] \in left_
    BY <1>3, <1>4, <1>5
  <1>7. OwnUnlessPushed(base, context)
    BY <1>1 DEF Inv, ContextsReturn
  <1> HIDE DEF b, base, context
  <1>8. CASE /\ pieces' = {p \in pieces : ~Freed(p)}
             /\ tls' = [k \in DOMAIN tls \ {b} |-> tls[k]] /\ scopes' = [k \in DOMAIN scopes \ {b} |-> scopes[k]]
             /\ objects' = [k \in DOMAIN objects \ {b} |-> objects[k]]
             /\ fsBase' = [fsBase EXCEPT ![c] = base]
             /\ images' = [[k \in DOMAIN images \ {b} |-> images[k]] EXCEPT ![base] = context]
             /\ destroying' = [destroying EXCEPT ![c] = NotDestroying]
    <2>1. DOMAIN images = DOMAIN tls /\ DOMAIN scopes = DOMAIN tls /\ DOMAIN objects = DOMAIN tls
      BY DEF Inv, TlsTypes
    <2>2. /\ DOMAIN tls' = left_ /\ DOMAIN images' = left_ /\ DOMAIN scopes' = left_
          /\ DOMAIN objects' = left_
      BY <1>8, <2>1
    <2>3. \A k \in left_ :
            tls'[k] = tls[k] /\ scopes'[k] = scopes[k] /\ objects'[k] = objects[k]
      BY <1>8, <2>1
    <2>4. images'[base] = context /\ \A k \in left_ : k # base => images'[k] = images[k]
      BY <1>6, <1>8, <2>1
    <2>5. /\ fsBase'[c] = base /\ destroying'[c] = NotDestroying
          /\ \A d \in TlsCpus : d # c => fsBase'[d] = fsBase[d] /\ destroying'[d] = destroying[d]
          /\ DOMAIN destroying' = TlsCpus
      BY <1>8 DEF Inv, TlsTypes
    <2>6. TlsTypes'
      <3>1. left_ \subseteq TlsBlocks /\ base \in TlsBlocks
        BY <1>6 DEF Inv, TlsTypes
      <3>2. fsBase' \in [TlsCpus -> TlsBlocks \cup {None_}]
        BY <1>8, <3>1 DEF Inv, TlsTypes
      <3>3. \A k \in left_ : images'[k] \in ContextsOf(k)
        BY <1>4, <2>4 DEF Inv, TlsTypes
      <3>4. \A k \in left_ :
              /\ tls'[k] \in StatesOf(k)
              /\ scopes'[k] \in Seq(ScopesOf(k)) /\ objects'[k] \in Seq(ObjectsAlive)
        BY <2>3 DEF Inv, TlsTypes
      <3> QED
        BY <1>1, <2>2, <2>5, <3>1, <3>2, <3>3, <3>4 DEF Inv, TlsTypes
    <2>7. OwnTemporary'
      <3>1. \A k \in left_ : tls'[k].context.temporary \in {None_, k}
        BY <2>3 DEF Inv, OwnTemporary
      <3>2. \A k \in left_ : images'[k].temporary \in {None_, k, "pushed"}
        BY <1>4, <2>4 DEF Inv, OwnTemporary, ContextsOf
      <3> QED
        BY <2>2, <3>1, <3>2 DEF OwnTemporary
    <2>8. StorageAccountedFor'
      <3>1. ASSUME NEW k \in left_ PROVE PiecesOf(k)' = PiecesOf(k)
        BY <2>3 DEF PiecesOf
      <3>2. ASSUME NEW k \in DOMAIN tls, NEW p \in PiecesOf(k) PROVE p.block = k
        BY <3>2 DEF PiecesOf
      <3>3. ASSUME NEW p \in PiecesOf(b) PROVE Freed(p)
        <4>1. tls[b].context.temporary \in {None_, b}
          BY <1>6 DEF Inv, OwnTemporary
        <4>2. p.kind = "temporary" => HasTemporary(b)
          <5>1. p.kind = "temporary" => "temporary" \in KindsOf(tls[b].context.temporary)
            BY <3>3 DEF PiecesOf, KindsOf
          <5> QED
            BY <4>1, <5>1 DEF KindsOf, HasTemporary
        <4>3. p.from = tls[b].allocator
          BY <3>3 DEF PiecesOf
        <4> QED
          BY <1>6, <3>2, <4>2, <4>3
      <3>4. ByPiece
        BY Accounted DEF Inv
      <3>5. ASSUME NEW p \in pieces' PROVE \E k \in left_ : p \in PiecesOf(k)
        <4>1. p \in pieces /\ ~Freed(p)
          BY <1>8
        <4>2. PICK k \in DOMAIN tls : p \in PiecesOf(k)
          BY <3>4, <4>1 DEF ByPiece
        <4> QED
          BY <3>3, <4>1, <4>2
      <3>6. ASSUME NEW k \in left_, NEW p \in PiecesOf(k) PROVE p \in pieces'
        <4>1. p \in pieces /\ p.block # b
          BY <3>2, <3>4, <3>6 DEF ByPiece
        <4> QED
          BY <1>8, <4>1
      <3>7. ByPiece'
        BY <2>2, <3>1, <3>5, <3>6 DEF ByPiece
      <3>8. (StorageAccountedFor <=> ByPiece)'
        BY Accounted, PTL
      <3> QED
        BY <3>7, <3>8
    <2>9. DestroyedInOrder'
      BY <2>2, <2>3 DEF Inv, DestroyedInOrder
    <2>10. BlocksApart'
      <3>1. UsedBy(c)' = {base, idle_blocks[c]}
        BY <1>1, <2>5 DEF UsedBy
      <3>2. b # None_
        BY <1>2, <1>4
      <3>3. ASSUME NEW d \in TlsCpus \ {c}
            PROVE  UsedBy(d) \ {None_} \subseteq DOMAIN tls' /\ UsedBy(c)' \cap UsedBy(d) \subseteq {None_}
        <4>1. UsedBy(c) \cap UsedBy(d) \subseteq {None_}
          BY DEF Inv, BlocksApart
        <4>2. UsedBy(d) \ {None_} \subseteq DOMAIN tls
          BY DEF Inv, BlocksApart, UsedBy
        <4> QED
          BY <1>5, <2>2, <3>1, <3>2, <4>1, <4>2
      <3>4. base # None_
        BY <1>6, TlsAssumption DEF Inv, TlsTypes, None_
      <3>5. UsedBy(c)' \subseteq DOMAIN tls'
        BY <1>6, <2>2, <3>1
      <3> QED
        BY <1>1, <1>4, <2>5, <3>3, <3>4, <3>5, ApartStep
    <2>11. ContextsReturn' /\ OwnContextAgain'
      <3>1. ASSUME NEW k \in DOMAIN tls' PROVE FirstRestoresOwn(k)'
        BY <2>2, <2>3 DEF Inv, ContextsReturn, FirstRestoresOwn
      <3>2. ASSUME NEW d \in TlsCpus \ {c} PROVE b \notin UsedBy(d) /\ base \notin UsedBy(d)
        <4>1. UsedBy(c) \cap UsedBy(d) \subseteq {None_} /\ None_ \notin {b, base}
          BY <1>6, TlsAssumption DEF Inv, BlocksApart, TlsTypes, None_
        <4> QED
          BY <1>5, <4>1
      <3>3. ASSUME NEW d \in TlsCpus, fsBase'[d] # None_ PROVE OwnUnlessPushed(fsBase[d], images[fsBase[d]])'
        <4>1. CASE d = c
          BY <1>6, <1>7, <2>3, <2>4, <2>5, <4>1 DEF OwnUnlessPushed
        <4>2. CASE d # c
          <5>1. fsBase'[d] = fsBase[d] /\ OwnUnlessPushed(fsBase[d], images[fsBase[d]]) /\ fsBase[d] \in DOMAIN tls
            BY <2>5, <3>3, <4>2 DEF Inv, OwnContextAgain, BlocksApart, UsedBy
          <5>2. fsBase[d] \in left_ \ {base}
            BY <3>2, <4>2, <5>1 DEF UsedBy
          <5> QED
            BY <2>3, <2>4, <5>1, <5>2 DEF OwnUnlessPushed
        <4> QED
          BY <4>1, <4>2
      <3>4. ASSUME NEW d \in TlsCpus, destroying'[d] # NotDestroying
            PROVE  (OwnUnlessPushed(destroying[d].base, destroying[d].context) /\ scopes[destroying[d].block] = <<>>)'
        <4>1. d # c /\ destroying'[d] = destroying[d]
          BY <2>5, <3>4
        <4>2. destroying[d].base \in left_ /\ destroying[d].block \in left_
          BY <3>2, <3>4, <4>1, DestroyingOn
        <4>3. OwnUnlessPushed(destroying[d].base, destroying[d].context) /\ scopes[destroying[d].block] = <<>>
          BY <3>4, <4>1 DEF Inv, ContextsReturn
        <4> QED
          BY <2>3, <4>1, <4>2, <4>3 DEF OwnUnlessPushed
      <3> QED
        BY <3>1, <3>3, <3>4, ContextsStep
    <2> QED
      BY <2>6, <2>7, <2>8, <2>9, <2>10, <2>11 DEF Inv
  <1> QED
    BY <1>8 DEF destroy_end, b, base, context

-----------------------------------------------------------------------------
(* Every step of thread-local storage preserves the invariant.              *)
LEMMA NextInv == Inv /\ [TlsNext]_tlsVars => Inv'
  <1> SUFFICES ASSUME Inv, [TlsNext]_tlsVars PROVE Inv'
    OBVIOUS
  <1>1. CASE UNCHANGED tlsVars
    BY <1>1, HaltInv DEF tlsVars
  <1>2. ASSUME NEW c \in TlsCpus, TlsBlocks \ DOMAIN tls # {},
               \/ c = 0 /\ initialize_bsp(FreeBlock)
               \/ initialize_application_processor(c, FreeBlock) \/ spawn(c, FreeBlock)
        PROVE  Inv'
    <2>1. FreeBlock \in TlsBlocks /\ FreeBlock \notin DOMAIN tls
      BY <1>2 DEF FreeBlock
    <2>2. CASE c = 0 /\ initialize_bsp(FreeBlock)
      <3>1. create(BootContext, FreeBlock, {0}) /\ fsBase[0] = None_ /\ 0 \in TlsCpus
        BY <2>2 DEF initialize_bsp
      <3> QED
        BY <2>1, <3>1, CreateInv
    <2>3. CASE initialize_application_processor(c, FreeBlock)
      <3>1. create(ApContext, FreeBlock, {c}) /\ fsBase[c] = None_
        BY <2>3 DEF initialize_application_processor
      <3> QED
        BY <2>1, <3>1, CreateInv
    <2>4. CASE spawn(c, FreeBlock)
      <3>1. create(Current_(c), FreeBlock, {})
        BY <2>4 DEF spawn
      <3> QED
        BY <2>1, <3>1, CreateInv
    <2> QED
      BY <1>2, <2>2, <2>3, <2>4
  <1>3. ASSUME NEW c \in TlsCpus, NEW b \in DOMAIN tls, resume(c, b) \/ destroy_begin(c, b) PROVE Inv'
    BY <1>3, ResumeInv, DestroyBeginInv
  <1>4. ASSUME NEW c \in TlsCpus, leave(c) \/ destroy_next(c) \/ destroy_end(c) PROVE Inv'
    BY <1>4, LeaveInv, DestroyNextInv, DestroyEndInv
  <1>5. ASSUME NEW c \in TlsCpus,
               \/ \E a \in BlockAllocators \cup {None_} : Push_Allocator(c, a)
               \/ \E t \in {None_, "pushed"} : Push_Temporary_Allocator(c, t)
               \/ Push_Context(c) \/ Pop(c)
        PROVE  Inv'
    BY <1>5, PushesInv, PopInv
  <1>6. ASSUME NEW c \in TlsCpus, __cxa_thread_atexit(c) PROVE Inv'
    BY <1>6, AtExitInv
  <1> QED
    BY <1>1, <1>2, <1>3, <1>4, <1>5, <1>6 DEF TlsNext

(* Inv is an invariant of thread-local storage.                             *)
THEOREM InvIsInvariant == TlsSpec => []Inv
BY InitInv, NextInv, PTL DEF TlsSpec

(* What is on %fs follows from what each CPU needs.                         *)
LEMMA OwnBlock == ASSUME Inv PROVE RunsOnOwnBlock
  <1> SUFFICES ASSUME NEW c \in TlsCpus, fsBase[c] # None_
               PROVE  /\ fsBase[c] \in DOMAIN tls
                      /\ \A d \in TlsCpus : d # c => fsBase[d] # fsBase[c]
                      /\ fsBase[c] = IF destroying[c] = NotDestroying THEN scheduled[c] ELSE destroying[c].block
    BY DEF RunsOnOwnBlock
  <1>1. fsBase[c] \in UsedBy(c) /\ \A d \in TlsCpus : fsBase[d] \in UsedBy(d)
    BY DEF UsedBy
  <1>2. UsedBy(c) \subseteq DOMAIN tls
    BY DEF Inv, BlocksApart
  <1>3. \A d \in TlsCpus : d # c => fsBase[d] # fsBase[c]
    BY <1>1 DEF Inv, BlocksApart
  <1>4. destroying[c] = NotDestroying => fsBase[c] = scheduled[c]
    BY DEF Inv, BlocksApart
  <1>5. destroying[c] # NotDestroying => fsBase[c] = destroying[c].block
    <2>1. SUFFICES ASSUME destroying[c] # NotDestroying PROVE fsBase[c] = destroying[c].block
      OBVIOUS
    <2>2. destroying[c] \in [block : {fsBase[c]}, base : {scheduled[c]}, context : ContextsOf(scheduled[c])]
      BY <2>1 DEF Inv, BlocksApart
    <2> QED
      BY <2>2
  <1> QED
    BY <1>1, <1>2, <1>3, <1>4, <1>5

(* Whatever the threads spawn, push, register and end: %fs addresses the    *)
(* block the scheduler put there, which no other CPU has; no two blocks     *)
(* share temporary memory; what is allocated is what the blocks there are   *)
(* consist of; a thread's context is its own again wherever it pushed       *)
(* nothing; and destructors run in the reverse order of registration.       *)
THEOREM TlsIsSound == TlsSpec => []TlsSound
  <1>1. Inv => TlsSound
    BY OwnBlock DEF Inv, TlsSound
  <1> QED
    BY <1>1, InvIsInvariant, PTL
=============================================================================
