---------------------------- MODULE LibraryProofs ----------------------------
(***************************************************************************)
(* The library, kstd/: Ring_Buffer implements Fifo, for every capacity and  *)
(* every element type; the records of the Debug allocator follow the blocks *)
(* of its clients, for every set of blocks and sizes; the allocations of    *)
(* the temporary allocator and the arena lie apart and are counted, for     *)
(* every set of sizes, alignments and bounds; arrays hold what they were    *)
(* given, each object in storage with one owner, for every capacity; a      *)
(* String_Builder keeps its text across its chain of buffers; and a hash    *)
(* table finds what was put in it, for every hash function and load limit.  *)
(***************************************************************************)
EXTENDS RingBuffer, DebugAllocator, BumpAllocators, Arrays, StringBuilder, HashTable,
        SequenceTheorems, FiniteSetTheorems, WellFoundedInduction, TLAPS

-----------------------------------------------------------------------------
(* Ring_Buffer.                                                             *)

(* The only facts about % the proofs need: indices below twice N.           *)
LEMMA Wrap ==
    ASSUME NEW i \in Nat, i < 2 * N
    PROVE  i % N = IF i < N THEN i ELSE i - N
  BY CapacityAssumption

IInv == TypeOK /\ TailFollowsHead

(* Where the index after a valid one is.                                    *)
LEMMA AfterIs ==
    ASSUME NEW i \in 0 .. N - 1
    PROVE  /\ After(i) \in 0 .. N - 1
           /\ After(i) = IF i + 1 < N THEN i + 1 ELSE 0
  <1>1. i + 1 \in Nat /\ i + 1 < 2 * N
    BY CapacityAssumption
  <1>2. (i + 1) % N = IF i + 1 < N THEN i + 1 ELSE i + 1 - N
    BY <1>1, Wrap, CapacityAssumption
  <1>3. i + 1 - N = 0 \/ i + 1 < N
    BY CapacityAssumption
  <1>4. After(i) = IF i + 1 < N THEN i + 1 ELSE i + 1 - N
    BY <1>2 DEF After
  <1> QED
    BY <1>3, <1>4, CapacityAssumption

(* Where the k-th element after head is stored.                             *)
LEMMA PlaceIs ==
    ASSUME NEW h \in 0 .. N - 1, NEW k \in 0 .. N
    PROVE  /\ (h + k) % N \in 0 .. N - 1
           /\ (h + k) % N = IF h + k < N THEN h + k ELSE h + k - N
  <1>1. h + k \in Nat /\ h + k < 2 * N
    BY CapacityAssumption
  <1> QED
    BY <1>1, Wrap, CapacityAssumption

(* The empty ring starts consistent.                                        *)
LEMMA InitIInv == Init => IInv
  <1> SUFFICES ASSUME Init PROVE IInv
    OBVIOUS
  <1>1. (0 + 0) % N = 0
    BY PlaceIs, CapacityAssumption
  <1> QED
    BY <1>1, CapacityAssumption DEF Init, IInv, TypeOK, TailFollowsHead

(* push_back, pop_front and clear keep the indices and the size consistent. *)
LEMMA NextIInv == IInv /\ [Next]_vars => IInv'
  <1> SUFFICES ASSUME IInv, [Next]_vars PROVE IInv'
    OBVIOUS
  <1> USE CapacityAssumption
  <1>0. head \in 0 .. N - 1 /\ tail \in 0 .. N - 1 /\ size \in 0 .. N
    BY DEF IInv, TypeOK
  <1>t. tail = IF head + size < N THEN head + size ELSE head + size - N
    BY <1>0, PlaceIs DEF IInv, TailFollowsHead
  <1>1. CASE pop_front
    <2>1. CASE empty
      BY <1>1, <2>1 DEF pop_front, Panic, IInv, TypeOK, TailFollowsHead
    <2>2. CASE ~empty
      <3>1. size - 1 \in 0 .. N
        BY <1>0, <2>2 DEF empty
      <3>2. After(head) \in 0 .. N - 1 /\ After(head) = IF head + 1 < N THEN head + 1 ELSE 0
        BY <1>0, AfterIs
      <3>3. (After(head) + (size - 1)) % N =
              IF After(head) + (size - 1) < N THEN After(head) + (size - 1)
              ELSE After(head) + (size - 1) - N
        BY <3>1, <3>2, PlaceIs
      <3>4. tail = (After(head) + (size - 1)) % N
        BY <1>0, <1>t, <2>2, <3>2, <3>3 DEF empty
      <3>5. head' = After(head) /\ size' = size - 1 /\ tail' = tail
              /\ data' = data /\ element' = data[head] /\ panic' = panic
        BY <1>1, <2>2 DEF pop_front
      <3> QED
        BY <1>0, <3>1, <3>2, <3>4, <3>5 DEF IInv, TypeOK, TailFollowsHead
    <2> QED
      BY <2>1, <2>2
  <1>2. CASE clear
    <2>1. (0 + 0) % N = 0
      BY Wrap
    <2>2. tail' = 0 /\ head' = 0 /\ size' = 0
      BY <1>2 DEF clear
    <2>3. data' = data /\ element' = element /\ panic' = panic
      BY <1>2 DEF clear
    <2>4. 0 \in 0 .. N - 1 /\ 0 \in 0 .. N
      OBVIOUS
    <2>5. TypeOK'
      BY <2>2, <2>3, <2>4 DEF IInv, TypeOK
    <2> QED
      BY <2>1, <2>2, <2>5 DEF IInv, TailFollowsHead
  <1>3. ASSUME NEW e \in Values, push_back(e) PROVE IInv'
    <2>1. CASE full
      BY <1>3, <2>1 DEF push_back, Panic, IInv, TypeOK, TailFollowsHead
    <2>2. CASE ~full
      <3>1. size + 1 \in 0 .. N
        BY <1>0, <2>2 DEF full
      <3>2. After(tail) \in 0 .. N - 1 /\ After(tail) = IF tail + 1 < N THEN tail + 1 ELSE 0
        BY <1>0, AfterIs
      <3>3. (head + (size + 1)) % N =
              IF head + (size + 1) < N THEN head + (size + 1) ELSE head + (size + 1) - N
        BY <1>0, <3>1, PlaceIs
      <3>4. After(tail) = (head + (size + 1)) % N
        BY <1>0, <1>t, <3>1, <3>2, <3>3
      <3>5. tail' = After(tail) /\ size' = size + 1 /\ head' = head
              /\ data' = [data EXCEPT ![tail] = e] /\ element' = element /\ panic' = panic
        BY <1>3, <2>2 DEF push_back
      <3> QED
        BY <1>0, <3>1, <3>2, <3>4, <3>5 DEF IInv, TypeOK, TailFollowsHead
    <2> QED
      BY <2>1, <2>2
  <1>4. CASE UNCHANGED vars
    BY <1>4 DEF vars, IInv, TypeOK, TailFollowsHead
  <1> QED
    BY <1>1, <1>2, <1>3, <1>4 DEF Next

(* The indices stay in range and in step for every capacity: neither wrap-  *)
(* around nor clear() can make push_back and pop_front miss each other.     *)
THEOREM RingConsistent == Spec => [](TypeOK /\ TailFollowsHead)
  <1> QED
    BY InitIInv, NextIInv, PTL DEF Spec, IInv

-----------------------------------------------------------------------------
(* The refinement: Contents is the queue, one Ring_Buffer call one Fifo step. *)
Place(k) == (head + k - 1) % N

(* Every element of the queue is stored at a valid index.                   *)
LEMMA PlaceValid ==
    ASSUME IInv, NEW k \in 1 .. size
    PROVE  /\ Place(k) \in 0 .. N - 1
           /\ Place(k) = IF head + k - 1 < N THEN head + k - 1 ELSE head + k - 1 - N
  <1>0. head \in 0 .. N - 1 /\ size \in 0 .. N
    BY DEF IInv, TypeOK
  <1>1. k - 1 \in 0 .. N /\ head + k - 1 = head + (k - 1)
    BY <1>0, CapacityAssumption
  <1> QED
    BY <1>0, <1>1, PlaceIs, CapacityAssumption DEF Place

(* The queue as a sequence: as long as size says.                           *)
LEMMA ContentsSeq ==
    ASSUME IInv
    PROVE  Contents \in Seq(Values) /\ Len(Contents) = size
  <1>0. size \in 0 .. N
    BY DEF IInv, TypeOK
  <1>1. size \in Nat
    BY <1>0, CapacityAssumption
  <1>2. \A k \in 1 .. size : data[(head + k - 1) % N] \in Values
    BY PlaceValid DEF Place, IInv, TypeOK
  <1> QED
    BY <1>1, <1>2 DEF Contents

(* push_back appends, or refuses when full.                                 *)
LEMMA PushRefines ==
    ASSUME IInv, IInv', NEW e \in Values, push_back(e), panic = "none"
    PROVE  Queue!Push(e)
  <1> USE CapacityAssumption
  <1>0. head \in 0 .. N - 1 /\ tail \in 0 .. N - 1 /\ size \in 0 .. N
    BY DEF IInv, TypeOK
  <1>1. CASE full
    <2>1. Contents' = Contents
      BY <1>1 DEF push_back, Panic, Contents
    <2> QED
      BY <1>1, <2>1, ContentsSeq DEF push_back, Panic, full, Queue!Push
  <1>2. CASE ~full
    <2>1. data' = [data EXCEPT ![tail] = e] /\ size' = size + 1 /\ head' = head
            /\ element' = element /\ panic' = panic
      BY <1>2 DEF push_back
    <2>2. size < N
      BY <1>0, <1>2 DEF full
    <2>3. tail = IF head + size < N THEN head + size ELSE head + size - N
      BY <1>0, PlaceIs DEF IInv, TailFollowsHead
    <2>4. ASSUME NEW k \in 1 .. size PROVE Place(k) # tail /\ Place(k) \in 0 .. N - 1
      BY <1>0, <2>2, <2>3, <2>4, PlaceValid
    <2>5. ASSUME NEW k \in 1 .. size PROVE data'[Place(k)] = data[Place(k)]
      BY <2>1, <2>4 DEF IInv, TypeOK
    <2>6. (head + (size + 1) - 1) % N = tail
      <3>1. head + (size + 1) - 1 = head + size
        BY <1>0
      <3> QED
        BY <3>1 DEF IInv, TailFollowsHead
    <2>7. data'[tail] = e
      BY <1>0, <2>1 DEF IInv, TypeOK
    <2>8. Contents' = [k \in 1 .. size + 1 |-> data'[(head + k - 1) % N]]
      BY <2>1 DEF Contents
    <2>9. /\ Append(Contents, e) \in Seq(Values)
          /\ Len(Append(Contents, e)) = size + 1
          /\ \A k \in 1 .. size + 1 :
               Append(Contents, e)[k] = IF k = size + 1 THEN e ELSE Contents[k]
      <3>1. Contents \in Seq(Values) /\ Len(Contents) = size
        BY ContentsSeq
      <3> QED
        BY <1>0, <3>1, AppendProperties
    <2>10. ASSUME NEW k \in 1 .. size + 1
           PROVE  data'[(head + k - 1) % N] = IF k = size + 1 THEN e ELSE Contents[k]
      <3>1. CASE k = size + 1
        BY <3>1, <2>6, <2>7
      <3>2. CASE k # size + 1
        <4>1. k \in 1 .. size
          BY <1>0, <3>2
        <4>2. Contents[k] = data[Place(k)]
          BY <4>1 DEF Contents, Place
        <4> QED
          BY <3>2, <4>1, <4>2, <2>5 DEF Place
      <3> QED
        BY <3>1, <3>2
    <2>11. Contents' = Append(Contents, e)
      <3>0. (Contents \in Seq(Values) /\ Len(Contents) = size)'
        BY ContentsSeq, PTL
      <3>1. Contents' \in Seq(Values) /\ Len(Contents') = size + 1
        BY <2>1, <3>0
      <3>2. \A k \in 1 .. size + 1 : Contents'[k] = Append(Contents, e)[k]
        BY <2>8, <2>9, <2>10
      <3> QED
        BY <2>9, <3>1, <3>2, SeqEqual
    <2> QED
      BY <2>1, <2>2, <2>11, ContentsSeq DEF Queue!Push
  <1> QED
    BY <1>1, <1>2

(* pop_front returns and removes the oldest element, or refuses when empty. *)
LEMMA PopRefines ==
    ASSUME IInv, IInv', pop_front, panic = "none"
    PROVE  Queue!Pop
  <1> USE CapacityAssumption
  <1>0. head \in 0 .. N - 1 /\ size \in 0 .. N
    BY DEF IInv, TypeOK
  <1>1. CASE empty
    <2>1. Contents' = Contents
      BY <1>1 DEF pop_front, Panic, Contents
    <2>2. Contents = <<>>
      BY <1>1, ContentsSeq DEF empty
    <2> QED
      BY <1>1, <2>1, <2>2 DEF pop_front, Panic, Queue!Pop
  <1>2. CASE ~empty
    <2>1. element' = data[head] /\ head' = After(head) /\ size' = size - 1
            /\ data' = data /\ panic' = panic
      BY <1>2 DEF pop_front
    <2>2. size >= 1
      BY <1>0, <1>2 DEF empty
    <2>3. Contents # <<>>
      BY <2>2, <1>0, ContentsSeq
    <2>4. Head(Contents) = data[head]
      <3>1. Place(1) = head
        BY <1>0, <2>2, PlaceValid
      <3>2. Head(Contents) = Contents[1]
        BY <2>3, ContentsSeq
      <3> QED
        BY <1>0, <2>2, <3>1, <3>2 DEF Contents, Place
    <2>5. Contents' = [k \in 1 .. size - 1 |-> data[(After(head) + k - 1) % N]]
      BY <2>1 DEF Contents
    <2>6. /\ Tail(Contents) \in Seq(Values)
          /\ Len(Tail(Contents)) = size - 1
          /\ \A k \in 1 .. size - 1 : Tail(Contents)[k] = Contents[k + 1]
      <3>1. Contents \in Seq(Values) /\ Len(Contents) = size
        BY ContentsSeq
      <3> QED
        BY <1>0, <2>3, <3>1, HeadTailProperties
    <2>7. ASSUME NEW k \in 1 .. size - 1
          PROVE  data[(After(head) + k - 1) % N] = Contents[k + 1]
      <3>1. k + 1 \in 1 .. size /\ k - 1 \in 0 .. N
        BY <1>0
      <3>2. Place(k + 1) = IF head + k < N THEN head + k ELSE head + k - N
        BY <1>0, <3>1, PlaceValid
      <3>3. After(head) \in 0 .. N - 1 /\ After(head) = IF head + 1 < N THEN head + 1 ELSE 0
        BY <1>0, AfterIs
      <3>4. (After(head) + (k - 1)) % N =
              IF After(head) + (k - 1) < N THEN After(head) + (k - 1)
              ELSE After(head) + (k - 1) - N
        BY <3>1, <3>3, PlaceIs
      <3>5. After(head) + k - 1 = After(head) + (k - 1)
        BY <3>3
      <3>6. (After(head) + (k - 1)) % N = Place(k + 1)
        BY <1>0, <3>2, <3>3, <3>4
      <3>7. Contents[k + 1] = data[Place(k + 1)]
        BY <3>1 DEF Contents, Place
      <3> QED
        BY <3>5, <3>6, <3>7
    <2>8. Contents' = Tail(Contents)
      <3>0. (Contents \in Seq(Values) /\ Len(Contents) = size)'
        BY ContentsSeq, PTL
      <3>1. Contents' \in Seq(Values) /\ Len(Contents') = size - 1
        BY <2>1, <3>0
      <3>2. \A k \in 1 .. size - 1 : Contents'[k] = Tail(Contents)[k]
        BY <2>5, <2>6, <2>7
      <3> QED
        BY <2>6, <3>1, <3>2, SeqEqual
    <2> QED
      BY <2>1, <2>3, <2>4, <2>8 DEF Queue!Pop
  <1> QED
    BY <1>1, <1>2

(* The initial states map, and every call maps to a step of Fifo.           *)
THEOREM Refinement == Spec => ImplementsFifo
  <1>1. Init => Queue!Init
    <2> SUFFICES ASSUME Init PROVE Queue!Init
      OBVIOUS
    <2>1. Contents = <<>>
      BY InitIInv, ContentsSeq DEF Init
    <2> QED
      BY <2>1 DEF Init, Queue!Init
  <1>2. IInv /\ IInv' /\ [Next]_vars
          => [Queue!Next]_<<Contents, element, panic # "none">>
    <2> SUFFICES ASSUME IInv, IInv', [Next]_vars
                 PROVE  Queue!Next \/ UNCHANGED <<Contents, element, panic # "none">>
      OBVIOUS
    <2>1. CASE UNCHANGED vars
      BY <2>1 DEF vars, Contents
    <2>2. CASE Next /\ pop_front
      BY <2>2, PopRefines DEF Next, Queue!Next
    <2>3. CASE Next /\ clear
      <3>1. Contents' = <<>>
        <4>1. size' = 0 /\ (Len(Contents) = size)' /\ (Contents \in Seq(Values))'
          BY <2>3, ContentsSeq, PTL DEF clear
        <4> QED
          BY <4>1
      <3> QED
        BY <2>3, <3>1 DEF Next, clear, Queue!Next, Queue!Clear
    <2>4. ASSUME Next, NEW e \in Values, push_back(e) PROVE Queue!Next
      BY <2>4, PushRefines DEF Next, Queue!Next
    <2> QED
      BY <2>1, <2>2, <2>3, <2>4 DEF Next
  <1> QED
    BY <1>1, <1>2, InitIInv, NextIInv, PTL DEF Spec, ImplementsFifo, Queue!Spec


-----------------------------------------------------------------------------
(* The Debug allocator.                                                     *)

(* RemoveAt closes the gap.                                                 *)
LEMMA RemovedAt ==
    ASSUME NEW S, NEW s \in Seq(S), NEW i \in 1 .. Len(s)
    PROVE  /\ RemoveAt(s, i) \in Seq(S)
           /\ Len(RemoveAt(s, i)) = Len(s) - 1
           /\ \A j \in 1 .. Len(s) - 1 : RemoveAt(s, i)[j] = s[IF j < i THEN j ELSE j + 1]
  <1>1. Len(s) \in Nat /\ i \in Nat /\ 1 <= i /\ i <= Len(s)
    BY LenProperties
  <1>2. SubSeq(s, 1, i - 1) \in Seq(S) /\ Len(SubSeq(s, 1, i - 1)) = i - 1
        /\ \A j \in 1 .. i - 1 : SubSeq(s, 1, i - 1)[j] = s[j]
    <2>1. \A j \in 1 .. i - 1 : j \in 1 .. Len(s)
      BY <1>1
    <2> QED
      BY <1>1, <2>1, SubSeqProperties
  <1>3. SubSeq(s, i + 1, Len(s)) \in Seq(S) /\ Len(SubSeq(s, i + 1, Len(s))) = Len(s) - i
        /\ \A j \in 1 .. Len(s) - i : SubSeq(s, i + 1, Len(s))[j] = s[i + j]
    <2>1. \A j \in i + 1 .. Len(s) : j \in 1 .. Len(s)
      BY <1>1
    <2> QED
      BY <1>1, <2>1, SubSeqProperties
  <1>4. PICK before \in Seq(S), behind \in Seq(S) :
            before = SubSeq(s, 1, i - 1) /\ behind = SubSeq(s, i + 1, Len(s))
    BY <1>2, <1>3
  <1>5. /\ RemoveAt(s, i) = before \o behind
        /\ Len(before) = i - 1 /\ Len(behind) = Len(s) - i
        /\ \A j \in 1 .. i - 1 : before[j] = s[j]
        /\ \A j \in 1 .. Len(s) - i : behind[j] = s[i + j]
    BY <1>2, <1>3, <1>4 DEF RemoveAt
  <1>6. /\ before \o behind \in Seq(S) /\ Len(before \o behind) = Len(before) + Len(behind)
        /\ \A j \in 1 .. Len(before) + Len(behind) : (before \o behind)[j] =
               IF j <= Len(before) THEN before[j] ELSE behind[j - Len(before)]
    BY ConcatProperties
  <1>7. Len(before \o behind) = Len(s) - 1
    BY <1>1, <1>5, <1>6
  <1>8. ASSUME NEW j \in 1 .. Len(s) - 1 PROVE RemoveAt(s, i)[j] = s[IF j < i THEN j ELSE j + 1]
    <2>1. CASE j < i
      <3>1. j <= i - 1 /\ j \in 1 .. i - 1
        BY <1>1, <2>1
      <3> QED
        BY <1>1, <1>5, <1>6, <1>7, <2>1, <3>1
    <2>2. CASE ~(j < i)
      <3>1. ~(j <= i - 1) /\ j - (i - 1) \in 1 .. Len(s) - i /\ i + (j - (i - 1)) = j + 1
        BY <1>1, <2>2
      <3> QED
        BY <1>1, <1>5, <1>6, <1>7, <2>2, <3>1
    <2> QED
      BY <2>1, <2>2
  <1> QED
    BY <1>5, <1>6, <1>7, <1>8

(* A new first element moves the others by one.                             *)
LEMMA PutFirst ==
    ASSUME NEW S, NEW s \in Seq(S), NEW e \in S
    PROVE  /\ <<e>> \o s \in Seq(S)
           /\ Len(<<e>> \o s) = Len(s) + 1
           /\ (<<e>> \o s)[1] = e
           /\ \A j \in 1 .. Len(s) : (<<e>> \o s)[j + 1] = s[j]
  <1>1. <<e>> \in Seq(S) /\ Len(<<e>>) = 1 /\ <<e>>[1] = e
    OBVIOUS
  <1>2. Len(s) \in Nat
    BY LenProperties
  <1>3. <<e>> \o s \in Seq(S) /\ Len(<<e>> \o s) = Len(s) + 1
        /\ \A j \in 1 .. Len(s) + 1 : (<<e>> \o s)[j] = IF j <= 1 THEN <<e>>[j] ELSE s[j - 1]
    BY <1>1, <1>2, ConcatProperties
  <1>4. ASSUME NEW j \in 1 .. Len(s) PROVE (<<e>> \o s)[j + 1] = s[j]
    <2>1. j + 1 \in 1 .. Len(s) + 1 /\ ~(j + 1 <= 1) /\ (j + 1) - 1 = j
      BY <1>2
    <2> QED
      BY <1>3, <2>1
  <1> QED
    BY <1>1, <1>2, <1>3, <1>4

-----------------------------------------------------------------------------
(* What every step keeps: each record is that of one client, with its bytes, *)
(* in a block of its own.                                                   *)
Records == [pointer : Blocks, size : Nat, block : Blocks]
OneRecordEach ==
    /\ \A i, j \in 1 .. Len(records) : i # j =>
           records[i].pointer # records[j].pointer /\ records[i].block # records[j].block
    /\ \A i, j \in 1 .. Len(records) : records[i].pointer # records[j].block
RecordsOfClients ==
    /\ \A i \in 1 .. Len(records) :
           records[i].pointer \in DOMAIN clients /\ clients[records[i].pointer] = records[i].size
    /\ \A p \in DOMAIN clients : \E i \in 1 .. Len(records) : records[i].pointer = p
LostIsOthers ==
    /\ lost \cap DOMAIN clients = {}
    /\ \A i \in 1 .. Len(records) : records[i].block \notin lost
Typed ==
    /\ backing \in {"none", "hosted", "kernel", "stopped"}
    /\ DOMAIN blocks \subseteq Blocks /\ blocks \in [DOMAIN blocks -> Nat]
    /\ records \in Seq(Records)
    /\ DOMAIN clients \subseteq Blocks /\ clients \in [DOMAIN clients -> Nat]
    /\ ended \in {"none", "ok", "out_of_memory", "destroyed", "heap_stops"}
DInv == Typed /\ OneRecordEach /\ RecordsOfClients /\ LostIsOthers /\ BlocksAccountedFor

(* With adds a block of some bytes and leaves the others as they are.       *)
IsWith(g, f, b, bytes) ==
    /\ g \in [DOMAIN f \cup {b} -> Nat] /\ DOMAIN g = DOMAIN f \cup {b} /\ g[b] = bytes
    /\ \A x \in DOMAIN f \ {b} : g[x] = f[x]

(* What With gives.                                                         *)
LEMMA WithIs ==
    ASSUME NEW f, f \in [DOMAIN f -> Nat], NEW b, NEW bytes \in Nat
    PROVE  IsWith(With(f, b, bytes), f, b, bytes)
  BY DEF With, IsWith

(* Without takes blocks away and leaves the others as they are.             *)
LEMMA WithoutIs ==
    ASSUME NEW f, f \in [DOMAIN f -> Nat], NEW S
    PROVE  /\ Without(f, S) \in [DOMAIN f \ S -> Nat]
           /\ DOMAIN Without(f, S) = DOMAIN f \ S
           /\ \A x \in DOMAIN f \ S : Without(f, S)[x] = f[x]
  BY DEF Without

(* What becomes of the records and of what clients own.                     *)
Precedes(e) ==
    /\ records' \in Seq(Records) /\ Len(records') = Len(records) + 1
    /\ records'[1] = e
    /\ \A j \in 1 .. Len(records) : records'[j + 1] = records[j]
Leaves(i) ==
    /\ records' \in Seq(Records) /\ Len(records') = Len(records) - 1
    /\ \A j \in 1 .. Len(records) - 1 : records'[j] = records[IF j < i THEN j ELSE j + 1]
Follows(i, p, bytes) ==
    /\ records' \in Seq(Records) /\ Len(records') = Len(records)
    /\ \A j \in 1 .. Len(records) :
           records'[j] = IF j = i THEN [records[i] EXCEPT !.pointer = p, !.size = bytes] ELSE records[j]
Own(P) == DOMAIN clients' = P /\ clients' \in [P -> Nat]

(* The record of a client is found, and there is one.                       *)
LEMMA RecordFound ==
    ASSUME DInv, NEW p \in DOMAIN clients
    PROVE  /\ p \in Recorded
           /\ RecordOf(p) \in 1 .. Len(records)
           /\ records[RecordOf(p)].pointer = p
           /\ records[RecordOf(p)].size = clients[p]
           /\ \A i \in 1 .. Len(records) : records[i].pointer = p => i = RecordOf(p)
  <1>1. DOMAIN records = 1 .. Len(records)
    BY LenProperties DEF DInv, Typed
  <1>2. PICK i \in 1 .. Len(records) : records[i].pointer = p
    BY DEF DInv, RecordsOfClients
  <1>3. RecordOf(p) \in 1 .. Len(records) /\ records[RecordOf(p)].pointer = p
    BY <1>1, <1>2 DEF RecordOf
  <1> QED
    BY <1>1, <1>2, <1>3, SMTT(30) DEF DInv, RecordsOfClients, OneRecordEach, Recorded

(* A record's two blocks are the heap's, and its own block is no client's.  *)
LEMMA RecordTyped ==
    ASSUME DInv, NEW i \in 1 .. Len(records)
    PROVE  /\ records[i] \in Records /\ records[i].pointer \in Blocks /\ records[i].block \in Blocks
           /\ records[i].size \in Nat
           /\ records[i].pointer \in DOMAIN blocks /\ records[i].block \in DOMAIN blocks
           /\ records[i].block \notin DOMAIN clients
  <1>1. records[i] \in Records
    BY ElementOfSeq DEF DInv, Typed
  <1>2. DOMAIN records = 1 .. Len(records)
    BY LenProperties DEF DInv, Typed
  <1>3. records[i].pointer \in DOMAIN blocks /\ records[i].block \in DOMAIN blocks
    BY <1>2 DEF DInv, BlocksAccountedFor, RecordsOfClients
  <1> QED
    BY <1>1, <1>3, SMTT(30) DEF Records, DInv, RecordsOfClients, OneRecordEach

-----------------------------------------------------------------------------
(* A block and its record come: the client's block was not in use.          *)
LEMMA Comes ==
    ASSUME DInv, NEW p \in Fresh, NEW b \in Fresh, p # b, NEW bytes \in Nat,
           DOMAIN blocks' = DOMAIN blocks \cup {p, b}, blocks' \in [DOMAIN blocks' -> Nat],
           Precedes(Record(p, bytes, b)), Own(DOMAIN clients \cup {p}),
           clients'[p] = bytes, \A x \in DOMAIN clients \ {p} : clients'[x] = clients[x],
           lost' = lost, backing' = backing, ended' = "ok"
    PROVE  DInv'
  <1> DEFINE n == Len(records)
  <1>1. p \in Blocks /\ b \in Blocks /\ p \notin DOMAIN blocks /\ b \notin DOMAIN blocks
    BY DEF Fresh
  <1>2. records \in Seq(Records) /\ Record(p, bytes, b) \in Records /\ n \in Nat
    BY <1>1, LenProperties DEF DInv, Typed, Record, Records
  <1>3. /\ records' \in Seq(Records) /\ Len(records') = n + 1
        /\ records'[1] = Record(p, bytes, b)
        /\ \A j \in 1 .. n : records'[j + 1] = records[j]
    BY DEF Precedes
  <1>4. /\ Record(p, bytes, b).pointer = p /\ Record(p, bytes, b).size = bytes /\ Record(p, bytes, b).block = b
    BY DEF Record
  <1>5. \A j \in 1 .. n + 1 : j = 1 \/ (j - 1 \in 1 .. n /\ records'[j] = records[j - 1])
    <2> SUFFICES ASSUME NEW j \in 1 .. n + 1, j # 1 PROVE j - 1 \in 1 .. n /\ records'[j] = records[j - 1]
      OBVIOUS
    <2>1. j - 1 \in 1 .. n /\ (j - 1) + 1 = j
      BY <1>2
    <2> QED
      BY <1>3, <2>1
  <1>6. /\ DOMAIN clients' = DOMAIN clients \cup {p} /\ clients' \in [DOMAIN clients' -> Nat]
        /\ clients'[p] = bytes /\ \A x \in DOMAIN clients \ {p} : clients'[x] = clients[x]
    BY DEF Own
  <1>7. DOMAIN records = 1 .. n /\ DOMAIN records' = 1 .. n + 1
    BY <1>2, <1>3, LenProperties
  <1>8. \A j \in 1 .. n : records[j].pointer \in DOMAIN blocks /\ records[j].block \in DOMAIN blocks
                            /\ records[j].pointer \in Blocks /\ records[j].block \in Blocks
    BY RecordTyped
  <1>9. DOMAIN clients \subseteq DOMAIN blocks /\ lost \subseteq DOMAIN blocks
    BY DEF DInv, BlocksAccountedFor
  <1>10. Typed'
    BY <1>1, <1>3, <1>6 DEF DInv, Typed
  <1>a. /\ \A j \in 1 .. n + 1 : j = 1 => records'[j].pointer = p /\ records'[j].block = b
        /\ \A j \in 1 .. n + 1 : j # 1 => /\ records'[j].pointer \in DOMAIN blocks
                                          /\ records'[j].block \in DOMAIN blocks
    BY <1>3, <1>4, <1>5, <1>8
  <1>11. OneRecordEach'
    <2>1. ASSUME NEW i \in 1 .. n + 1, NEW j \in 1 .. n + 1, i # j
          PROVE  records'[i].pointer # records'[j].pointer /\ records'[i].block # records'[j].block
      <3>1. CASE i = 1
        BY <1>1, <1>a, <2>1, <3>1
      <3>2. CASE j = 1
        BY <1>1, <1>a, <2>1, <3>2
      <3>3. CASE i # 1 /\ j # 1
        <4>1. i - 1 # j - 1
          BY <1>2, <2>1
        <4> QED
          BY <1>5, <3>3, <4>1 DEF DInv, OneRecordEach
      <3> QED
        BY <3>1, <3>2, <3>3
    <2>2. ASSUME NEW i \in 1 .. n + 1, NEW j \in 1 .. n + 1 PROVE records'[i].pointer # records'[j].block
      <3>1. CASE i = 1
        BY <1>1, <1>a, <3>1
      <3>2. CASE j = 1
        BY <1>1, <1>a, <3>2
      <3>3. CASE i # 1 /\ j # 1
        BY <1>5, <3>3, SMTT(30) DEF DInv, OneRecordEach
      <3> QED
        BY <3>1, <3>2, <3>3
    <2> QED
      BY <1>3, <2>1, <2>2 DEF OneRecordEach
  <1>12. RecordsOfClients'
    <2>1. ASSUME NEW i \in 1 .. n + 1
          PROVE  records'[i].pointer \in DOMAIN clients' /\ clients'[records'[i].pointer] = records'[i].size
      <3>1. CASE i = 1
        BY <1>3, <1>4, <1>6, <3>1
      <3>2. CASE i # 1
        <4>1. i - 1 \in 1 .. n /\ records'[i] = records[i - 1]
          BY <1>5, <3>2
        <4>2. records[i - 1].pointer \in DOMAIN clients \ {p}
          BY <1>1, <1>8, <4>1 DEF DInv, RecordsOfClients
        <4> QED
          BY <1>6, <4>1, <4>2 DEF DInv, RecordsOfClients
      <3> QED
        BY <3>1, <3>2
    <2>2. ASSUME NEW q \in DOMAIN clients' PROVE \E i \in 1 .. n + 1 : records'[i].pointer = q
      <3>1. CASE q = p
        <4>1. 1 \in 1 .. n + 1
          BY <1>2
        <4> QED
          BY <1>3, <1>4, <3>1, <4>1
      <3>2. CASE q # p
        <4>1. PICK i \in 1 .. n : records[i].pointer = q
          BY <1>6, <3>2 DEF DInv, RecordsOfClients
        <4>2. i + 1 \in 1 .. n + 1
          BY <1>2
        <4> QED
          BY <1>3, <4>1, <4>2
      <3> QED
        BY <3>1, <3>2
    <2> QED
      BY <1>3, <2>1, <2>2 DEF RecordsOfClients
  <1>13. LostIsOthers'
    <2>1. lost' \cap DOMAIN clients' = {}
      BY <1>1, <1>6, <1>9 DEF DInv, LostIsOthers
    <2>2. ASSUME NEW i \in 1 .. n + 1 PROVE records'[i].block \notin lost'
      BY <1>1, <1>3, <1>4, <1>5, <1>9 DEF DInv, LostIsOthers
    <2> QED
      BY <1>3, <2>1, <2>2 DEF LostIsOthers
  <1>14. BlocksAccountedFor'
    <2>1. ASSUME NEW x PROVE x \in {records'[i].block : i \in DOMAIN records'}
                               <=> x = b \/ x \in {records[i].block : i \in DOMAIN records}
      <3>1. ASSUME NEW i \in 1 .. n + 1, x = records'[i].block
            PROVE  x = b \/ x \in {records[j].block : j \in DOMAIN records}
        BY <1>3, <1>4, <1>5, <1>7, <3>1
      <3>2. ASSUME NEW i \in 1 .. n, x = records[i].block PROVE \E j \in 1 .. n + 1 : x = records'[j].block
        <4>1. i + 1 \in 1 .. n + 1
          BY <1>2
        <4> QED
          BY <1>3, <3>2, <4>1
      <3>3. 1 \in 1 .. n + 1 /\ records'[1].block = b
        BY <1>2, <1>3, <1>4
      <3> QED
        BY <1>7, <3>1, <3>2, <3>3
    <2> QED
      BY <1>6, <2>1 DEF DInv, BlocksAccountedFor
  <1> QED
    BY <1>10, <1>11, <1>12, <1>13, <1>14 DEF DInv

(* A client's block goes, or is forgotten, and the block of its record goes. *)
LEMMA Goes ==
    ASSUME DInv, NEW p \in DOMAIN clients, NEW b, b = records[RecordOf(p)].block,
           blocks' \in [DOMAIN blocks' -> Nat],
           \/ lost' = lost /\ DOMAIN blocks' = DOMAIN blocks \ {p, b}
           \/ lost' = lost \cup {p} /\ DOMAIN blocks' = DOMAIN blocks \ {b},
           Leaves(RecordOf(p)), Own(DOMAIN clients \ {p}),
           \A x \in DOMAIN clients \ {p} : clients'[x] = clients[x],
           backing' = backing, ended' = "ok"
    PROVE  DInv'
  <1>1. records \in Seq(Records) /\ Len(records) \in Nat /\ DOMAIN records = 1 .. Len(records)
    BY LenProperties DEF DInv, Typed
  <1>2. PICK r \in 1 .. Len(records) : r = RecordOf(p)
    BY RecordFound
  <1>3. records[r].pointer = p /\ records[r].block = b /\ p # b
        /\ \A i \in 1 .. Len(records) : i # r => records[i].pointer # p /\ records[i].block # b
    <2>1. records[r].pointer = p /\ records[r].block = b
      BY <1>2, RecordFound
    <2> QED
      BY <2>1 DEF DInv, OneRecordEach
  <1>4. PICK n \in Nat : n = Len(records) - 1
    BY <1>1, <1>2
  <1> DEFINE Old(j) == IF j < r THEN j ELSE j + 1
             New(j) == IF j < r THEN j ELSE j - 1
  <1>5. /\ records' \in Seq(Records) /\ Len(records') = n
        /\ \A j \in 1 .. n : records'[j] = records[Old(j)]
    BY <1>1, <1>2, <1>4 DEF Leaves
  <1>6. \A j \in 1 .. n : Old(j) \in 1 .. Len(records) /\ Old(j) # r
    BY <1>1, <1>2, <1>4
  <1>7. \A i, j \in 1 .. n : i # j => Old(i) # Old(j)
    BY <1>1, <1>2, <1>4
  <1>8. \A j \in 1 .. Len(records) : j # r => New(j) \in 1 .. n /\ Old(New(j)) = j
    BY <1>1, <1>2, <1>4
  <1>9. DOMAIN records' = 1 .. n
    BY <1>5, LenProperties
  <1>10. /\ DOMAIN clients' = DOMAIN clients \ {p} /\ clients' \in [DOMAIN clients' -> Nat]
         /\ \A x \in DOMAIN clients \ {p} : clients'[x] = clients[x]
    BY DEF Own
  <1> HIDE DEF Old, New
  <1>11. Typed'
    BY <1>5, <1>10 DEF DInv, Typed
  <1>12. OneRecordEach'
    <2>1. ASSUME NEW i \in 1 .. n, NEW j \in 1 .. n
          PROVE  /\ i # j => records'[i].pointer # records'[j].pointer /\ records'[i].block # records'[j].block
                 /\ records'[i].pointer # records'[j].block
      <3>1. records'[i] = records[Old(i)] /\ records'[j] = records[Old(j)]
            /\ Old(i) \in 1 .. Len(records) /\ Old(j) \in 1 .. Len(records) /\ (i # j => Old(i) # Old(j))
        BY <1>5, <1>6, <1>7
      <3> QED
        BY <3>1 DEF DInv, OneRecordEach
    <2> QED
      BY <1>5, <2>1 DEF OneRecordEach
  <1>13. RecordsOfClients'
    <2>1. ASSUME NEW i \in 1 .. n
          PROVE  records'[i].pointer \in DOMAIN clients' /\ clients'[records'[i].pointer] = records'[i].size
      <3>1. records'[i] = records[Old(i)] /\ Old(i) \in 1 .. Len(records) /\ Old(i) # r
        BY <1>5, <1>6
      <3>2. records[Old(i)].pointer \in DOMAIN clients \ {p}
            /\ clients[records[Old(i)].pointer] = records[Old(i)].size
        BY <1>3, <3>1 DEF DInv, RecordsOfClients
      <3> QED
        BY <1>10, <3>1, <3>2
    <2>2. ASSUME NEW q \in DOMAIN clients' PROVE \E i \in 1 .. n : records'[i].pointer = q
      <3>1. PICK i \in 1 .. Len(records) : records[i].pointer = q
        BY <1>10 DEF DInv, RecordsOfClients
      <3>2. i # r
        BY <1>3, <1>10, <3>1
      <3> QED
        BY <1>5, <1>8, <3>1, <3>2
    <2> QED
      BY <1>5, <2>1, <2>2 DEF RecordsOfClients
  <1>14. LostIsOthers'
    <2>1. \A i \in 1 .. Len(records) : records[i].block # p
      BY <1>2, <1>3 DEF DInv, OneRecordEach
    <2> QED
      <3>1. lost' \cap DOMAIN clients' = {} /\ lost' \subseteq lost \cup {p}
        BY <1>10 DEF DInv, LostIsOthers
      <3>2. ASSUME NEW i \in 1 .. n PROVE records'[i].block \notin lost'
        BY <1>5, <1>6, <2>1, <3>1 DEF DInv, LostIsOthers
      <3> QED
        BY <1>5, <3>1, <3>2 DEF LostIsOthers
  <1>15. BlocksAccountedFor'
    <2>1. ASSUME NEW x PROVE x \in {records'[i].block : i \in DOMAIN records'}
                               <=> x # b /\ x \in {records[i].block : i \in DOMAIN records}
      <3>1. ASSUME NEW i \in 1 .. n, x = records'[i].block
            PROVE  x # b /\ \E j \in 1 .. Len(records) : x = records[j].block
        BY <1>3, <1>5, <1>6, <3>1
      <3>2. ASSUME NEW i \in 1 .. Len(records), x = records[i].block, x # b
            PROVE  \E j \in 1 .. n : x = records'[j].block
        BY <1>3, <1>5, <1>8, <3>2
      <3> QED
        BY <1>1, <1>9, <3>1, <3>2
    <2>2. b \notin DOMAIN clients /\ b \notin lost /\ p \notin lost
          /\ p \notin {records[i].block : i \in DOMAIN records}
      BY <1>1, <1>2, <1>3, RecordTyped DEF DInv, LostIsOthers, OneRecordEach
    <2>3. PICK O, O1 : O = {records[i].block : i \in DOMAIN records} /\ O1 = {records'[i].block : i \in DOMAIN records'}
      OBVIOUS
    <2>4. O1 = O \ {b} /\ p \notin O
      BY <2>1, <2>2, <2>3
    <2>5. DOMAIN blocks = DOMAIN clients \cup O \cup lost
      BY <2>3 DEF DInv, BlocksAccountedFor
    <2>6. b \notin DOMAIN clients /\ b \notin lost /\ p \notin lost
      BY <2>2
    <2>7. DOMAIN blocks' = DOMAIN clients' \cup O1 \cup lost'
      <3>1. DOMAIN clients' = DOMAIN clients \ {p}
        BY <1>10
      <3>2. CASE lost' = lost /\ DOMAIN blocks' = DOMAIN blocks \ {p, b}
        BY <2>4, <2>5, <2>6, <3>1, <3>2
      <3>3. CASE lost' = lost \cup {p} /\ DOMAIN blocks' = DOMAIN blocks \ {b}
        <4>1. p \in DOMAIN clients /\ p # b
          BY <2>6
        <4> QED
          BY <2>4, <2>5, <2>6, <3>1, <3>3, <4>1
      <3> QED
        BY <3>2, <3>3
    <2> QED
      BY <2>3, <2>7 DEF BlocksAccountedFor
  <1> QED
    BY <1>11, <1>12, <1>13, <1>14, <1>15 DEF DInv

(* A client's block is resized where it is or moves to an unused one, and   *)
(* the record follows.                                                      *)
LEMMA Moves ==
    ASSUME DInv, NEW p \in DOMAIN clients, NEW q, q = p \/ q \in Fresh, NEW bytes \in Nat,
           DOMAIN blocks' = (DOMAIN blocks \ {p}) \cup {q}, blocks' \in [DOMAIN blocks' -> Nat],
           Follows(RecordOf(p), q, bytes), Own((DOMAIN clients \ {p}) \cup {q}),
           clients'[q] = bytes, \A x \in DOMAIN clients \ {p, q} : clients'[x] = clients[x],
           lost' = lost, backing' = backing, ended' = "ok"
    PROVE  DInv'
  <1> DEFINE n == Len(records)
  <1>1. records \in Seq(Records) /\ n \in Nat /\ DOMAIN records = 1 .. n
        /\ \A i \in 1 .. n : records[i] \in Records
    BY LenProperties, ElementOfSeq DEF DInv, Typed
  <1>2. PICK r \in 1 .. n : r = RecordOf(p)
    BY RecordFound
  <1>3. records[r].pointer = p /\ \A i \in 1 .. n : i # r => records[i].pointer # p
    <2>1. records[r].pointer = p
      BY <1>2, RecordFound
    <2> QED
      BY <2>1 DEF DInv, OneRecordEach
  <1>4. q \in Blocks /\ p \in DOMAIN blocks /\ (q # p => q \notin DOMAIN blocks)
    BY DEF Fresh, DInv, Typed, BlocksAccountedFor
  <1>5. [records[r] EXCEPT !.pointer = q, !.size = bytes] \in Records
        /\ [records[r] EXCEPT !.pointer = q, !.size = bytes].pointer = q
        /\ [records[r] EXCEPT !.pointer = q, !.size = bytes].size = bytes
        /\ [records[r] EXCEPT !.pointer = q, !.size = bytes].block = records[r].block
    BY <1>1, <1>4 DEF Records
  <1>7. /\ records' \in Seq(Records) /\ Len(records') = n /\ DOMAIN records' = 1 .. n
        /\ \A i \in 1 .. n : records'[i].block = records[i].block
        /\ \A i \in 1 .. n : i # r => records'[i].pointer = records[i].pointer /\ records'[i].size = records[i].size
        /\ \A i \in 1 .. n : i = r => records'[i].pointer = q /\ records'[i].size = bytes
    <2>1. records' \in Seq(Records) /\ Len(records') = n
          /\ \A i \in 1 .. n : records'[i] = IF i = r THEN [records[r] EXCEPT !.pointer = q, !.size = bytes] ELSE records[i]
      BY <1>2 DEF Follows
    <2> QED
      BY <1>5, <2>1, LenProperties
  <1>8. /\ DOMAIN clients' = (DOMAIN clients \ {p}) \cup {q} /\ clients' \in [DOMAIN clients' -> Nat]
        /\ clients'[q] = bytes /\ \A x \in DOMAIN clients \ {p, q} : clients'[x] = clients[x]
    BY DEF Own
  <1>9. \A j \in 1 .. n : records[j].pointer \in DOMAIN blocks /\ records[j].block \in DOMAIN blocks
    BY RecordTyped
  <1>10. DOMAIN clients \subseteq DOMAIN blocks /\ lost \subseteq DOMAIN blocks
         /\ \A j \in 1 .. n : records[j].block \notin DOMAIN clients
    BY RecordTyped DEF DInv, BlocksAccountedFor
  <1>11. Typed'
    BY <1>4, <1>7, <1>8 DEF DInv, Typed
  <1>12. OneRecordEach'
    <2>1. ASSUME NEW i \in 1 .. n, NEW j \in 1 .. n, i # j
          PROVE  records'[i].pointer # records'[j].pointer /\ records'[i].block # records'[j].block
      <3>1. records'[i].block # records'[j].block
        BY <1>7, <2>1 DEF DInv, OneRecordEach
      <3>2. records'[i].pointer # records'[j].pointer
        <4>1. CASE i = r
          BY <1>3, <1>4, <1>7, <1>9, <2>1, <4>1
        <4>2. CASE j = r
          BY <1>3, <1>4, <1>7, <1>9, <2>1, <4>2
        <4>3. CASE i # r /\ j # r
          BY <1>7, <2>1, <4>3 DEF DInv, OneRecordEach
        <4> QED
          BY <4>1, <4>2, <4>3
      <3> QED
        BY <3>1, <3>2
    <2>2. ASSUME NEW i \in 1 .. n, NEW j \in 1 .. n PROVE records'[i].pointer # records'[j].block
      <3>1. CASE i = r
        BY <1>4, <1>7, <1>9, <1>10, <3>1
      <3>2. CASE i # r
        BY <1>7, <3>2 DEF DInv, OneRecordEach
      <3> QED
        BY <3>1, <3>2
    <2> QED
      BY <1>7, <2>1, <2>2 DEF OneRecordEach
  <1>13. RecordsOfClients'
    <2>1. ASSUME NEW i \in 1 .. n
          PROVE  records'[i].pointer \in DOMAIN clients' /\ clients'[records'[i].pointer] = records'[i].size
      <3>1. CASE i = r
        <4>1. records'[i].pointer = q /\ records'[i].size = bytes
          BY <1>7, <3>1
        <4>2. q \in DOMAIN clients' /\ clients'[q] = bytes
          BY <1>8
        <4> QED
          BY <4>1, <4>2
      <3>2. CASE i # r
        <4>1. PICK y : y = records[i].pointer
          OBVIOUS
        <4>2. y \in DOMAIN clients \ {p, q} /\ clients[y] = records[i].size
          BY <1>3, <1>4, <1>9, <3>2, <4>1 DEF DInv, RecordsOfClients
        <4>3. clients'[y] = records[i].size /\ y \in DOMAIN clients'
          BY <1>8, <4>2
        <4>4. records'[i].pointer = y /\ records'[i].size = records[i].size
          BY <1>7, <3>2, <4>1
        <4> QED
          BY <4>3, <4>4
      <3> QED
        BY <3>1, <3>2
    <2>2. ASSUME NEW x \in DOMAIN clients' PROVE \E i \in 1 .. n : records'[i].pointer = x
      <3>1. CASE x = q
        BY <1>2, <1>7, <3>1
      <3>2. CASE x # q
        <4>1. PICK i \in 1 .. n : records[i].pointer = x
          BY <1>8, <3>2 DEF DInv, RecordsOfClients
        <4>2. i # r
          BY <1>3, <1>8, <3>2, <4>1
        <4> QED
          BY <1>7, <4>1, <4>2
      <3> QED
        BY <3>1, <3>2
    <2> QED
      BY <1>7, <2>1, <2>2 DEF RecordsOfClients
  <1>14. LostIsOthers'
    BY <1>4, <1>7, <1>8, <1>10 DEF DInv, LostIsOthers
  <1>15. BlocksAccountedFor'
    <2>1. {records'[i].block : i \in DOMAIN records'} = {records[i].block : i \in DOMAIN records}
      <3>1. DOMAIN records' = DOMAIN records /\ \A i \in DOMAIN records : records'[i].block = records[i].block
        BY <1>1, <1>7
      <3> QED
        BY <3>1
    <2>2. p \notin {records[i].block : i \in DOMAIN records} /\ p \notin lost
      BY <1>1, <1>10 DEF DInv, LostIsOthers
    <2> QED
      BY <1>8, <2>1, <2>2 DEF DInv, BlocksAccountedFor
  <1> QED
    BY <1>11, <1>12, <1>13, <1>14, <1>15 DEF DInv

(* Operations that are refused leave everything but the outcome, and the    *)
(* blocks are the same ones.                                                *)
LEMMA Stays ==
    ASSUME DInv, UNCHANGED <<records, clients, lost>>,
           DOMAIN blocks' = DOMAIN blocks, blocks' \in [DOMAIN blocks -> Nat],
           backing' \in {"none", "hosted", "kernel", "stopped"},
           ended' \in {"none", "ok", "out_of_memory", "destroyed", "heap_stops"}
    PROVE  DInv'
  BY DEF DInv, Typed, OneRecordEach, RecordsOfClients, LostIsOthers, BlocksAccountedFor

(* The heap's assertion stops everything.                                   *)
LEMMA StopsStep ==
    ASSUME DInv, NEW p, heap_stops(p)
    PROVE  DInv'
  BY Stays DEF heap_stops, NothingChanges, DInv, Typed

-----------------------------------------------------------------------------
(* From the operators of the model to what becomes of the records.          *)
LEMMA RecordPrecedes ==
    ASSUME DInv, NEW p \in Fresh, NEW b \in Fresh, NEW bytes \in Nat,
           records' = <<Record(p, bytes, b)>> \o records
    PROVE  Precedes(Record(p, bytes, b))
  <1>1. records \in Seq(Records) /\ Record(p, bytes, b) \in Records
    BY DEF DInv, Typed, Record, Records, Fresh
  <1> QED
    BY <1>1, PutFirst DEF Precedes

(* Removing the record of a client's block takes away that record and no    *)
(* other.                                                                   *)
LEMMA RecordLeaves ==
    ASSUME DInv, NEW p \in DOMAIN clients, records' = RemoveAt(records, RecordOf(p))
    PROVE  Leaves(RecordOf(p))
  <1>1. records \in Seq(Records) /\ RecordOf(p) \in 1 .. Len(records)
    BY RecordFound DEF DInv, Typed
  <1> QED
    BY <1>1, RemovedAt DEF Leaves

(* Changing the record of a client's block changes that record and no       *)
(* other.                                                                   *)
LEMMA RecordFollows ==
    ASSUME DInv, NEW p \in DOMAIN clients, NEW q \in Blocks, NEW bytes \in Nat,
           records' = [records EXCEPT ![RecordOf(p)].pointer = q, ![RecordOf(p)].size = bytes]
    PROVE  Follows(RecordOf(p), q, bytes)
  <1>1. PICK r \in 1 .. Len(records) : r = RecordOf(p)
    BY RecordFound
  <1>2. records \in Seq(Records) /\ DOMAIN records = 1 .. Len(records) /\ records[r] \in Records
    BY LenProperties, ElementOfSeq DEF DInv, Typed
  <1>3. PICK e : e = [records[r] EXCEPT !.pointer = q, !.size = bytes]
    OBVIOUS
  <1>4. e \in Records
    BY <1>2, <1>3 DEF Records
  <1>5. records' = [records EXCEPT ![r] = e]
    BY <1>1, <1>2, <1>3
  <1>6. /\ [records EXCEPT ![r] = e] \in Seq(Records) /\ Len([records EXCEPT ![r] = e]) = Len(records)
        /\ \A j \in 1 .. Len(records) : [records EXCEPT ![r] = e][j] = IF j = r THEN e ELSE records[j]
    BY <1>2, <1>4, ExceptSeq
  <1> QED
    BY <1>1, <1>3, <1>5, <1>6 DEF Follows

(* A client that gets a block owns it with its bytes, beside what it owned. *)
LEMMA OwnWith ==
    ASSUME DInv, NEW p, NEW bytes \in Nat, clients' = With(clients, p, bytes)
    PROVE  /\ Own(DOMAIN clients \cup {p}) /\ clients'[p] = bytes
           /\ \A x \in DOMAIN clients \ {p} : clients'[x] = clients[x]
  <1>1. clients \in [DOMAIN clients -> Nat]
    BY DEF DInv, Typed
  <1> QED
    <2>1. /\ With(clients, p, bytes) \in [DOMAIN clients \cup {p} -> Nat]
          /\ DOMAIN With(clients, p, bytes) = DOMAIN clients \cup {p}
          /\ With(clients, p, bytes)[p] = bytes
          /\ \A x \in DOMAIN clients \ {p} : With(clients, p, bytes)[x] = clients[x]
      <3>1. IsWith(With(clients, p, bytes), clients, p, bytes)
        BY <1>1, WithIs
      <3> QED
        BY <3>1 DEF IsWith
    <2> QED
      BY <2>1 DEF Own

(* A client that gives up a block owns the others as before.                *)
LEMMA OwnWithout ==
    ASSUME DInv, NEW p, clients' = Without(clients, {p})
    PROVE  Own(DOMAIN clients \ {p}) /\ \A x \in DOMAIN clients \ {p} : clients'[x] = clients[x]
  BY WithoutIs DEF DInv, Typed, Own

(* A client whose block moves owns the new one instead of the old one.      *)
LEMMA OwnInstead ==
    ASSUME DInv, NEW p, NEW q, NEW bytes \in Nat, clients' = With(Without(clients, {p}), q, bytes)
    PROVE  /\ Own((DOMAIN clients \ {p}) \cup {q}) /\ clients'[q] = bytes
           /\ \A x \in DOMAIN clients \ {p, q} : clients'[x] = clients[x]
  <1>1. PICK f : f = Without(clients, {p})
    OBVIOUS
  <1>2. DOMAIN f = DOMAIN clients \ {p} /\ f \in [DOMAIN f -> Nat] /\ \A x \in DOMAIN clients \ {p} : f[x] = clients[x]
    BY <1>1, WithoutIs DEF DInv, Typed
  <1> QED
    <2>1. /\ With(f, q, bytes) \in [DOMAIN f \cup {q} -> Nat]
          /\ DOMAIN With(f, q, bytes) = DOMAIN f \cup {q}
          /\ With(f, q, bytes)[q] = bytes
          /\ \A x \in DOMAIN f \ {q} : With(f, q, bytes)[x] = f[x]
      <3>1. f \in [DOMAIN f -> Nat]
        BY <1>2
      <3>2. IsWith(With(f, q, bytes), f, q, bytes)
        BY <3>1, WithIs
      <3> QED
        BY <3>2 DEF IsWith
    <2> QED
      BY <1>1, <1>2, <2>1 DEF Own

-----------------------------------------------------------------------------
(* No record and no block at first.                                         *)
LEMMA DebugStart == DebugInit => DInv
  <1> SUFFICES ASSUME DebugInit PROVE DInv
    OBVIOUS
  <1>1. /\ backing = "none" /\ blocks = <<>> /\ records = <<>> /\ clients = <<>>
        /\ lost = {} /\ ended = "none"
    BY DEF DebugInit
  <1>2. DOMAIN blocks = {} /\ DOMAIN clients = {} /\ DOMAIN records = {} /\ Len(records) = 0
    BY <1>1
  <1>3. Typed
    BY <1>1, <1>2 DEF Typed
  <1>4. OneRecordEach /\ RecordsOfClients /\ LostIsOthers /\ BlocksAccountedFor
    BY <1>1, <1>2 DEF OneRecordEach, RecordsOfClients, LostIsOthers, BlocksAccountedFor
  <1> QED
    BY <1>3, <1>4 DEF DInv

(* allocate: the block and its record come together or not at all.          *)
LEMMA AllocateStep ==
    ASSUME DInv, NEW bytes \in BlockSizes, allocate(bytes)
    PROVE  DInv'
  <1>1. CASE UNCHANGED <<backing, blocks, records, clients, lost>> /\ ended' \in {"ok", "out_of_memory"}
    BY <1>1, Stays DEF DInv, Typed
  <1>3. ASSUME bytes > 0, NEW p \in Fresh, blocks' = FreedAgain(With(blocks, p, bytes), p),
               ended' = "out_of_memory", UNCHANGED <<backing, records, clients, lost>>
        PROVE  DInv'
    <2>1. blocks \in [DOMAIN blocks -> Nat] /\ bytes \in Nat /\ p \notin DOMAIN blocks
      BY DebugAssumption DEF DInv, Typed, Fresh
    <2>2. PICK f : f = With(blocks, p, bytes)
      OBVIOUS
    <2>3. DOMAIN f = DOMAIN blocks \cup {p} /\ f \in [DOMAIN f -> Nat]
      <3>1. IsWith(f, blocks, p, bytes)
        BY <2>1, <2>2, WithIs
      <3> QED
        BY <3>1 DEF IsWith
    <2>4. blocks' = Without(f, {p})
      BY <1>3, <2>2 DEF FreedAgain
    <2>5. DOMAIN blocks' = DOMAIN blocks /\ blocks' \in [DOMAIN blocks -> Nat]
      <3>1. DOMAIN f \ {p} = DOMAIN blocks
        BY <2>1, <2>3
      <3> QED
        BY <2>3, <2>4, <3>1, WithoutIs
    <2> QED
      BY <1>3, <2>5, Stays DEF DInv, Typed
  <1>2. ASSUME NEW p \in Fresh, NEW b \in Fresh, p # b,
               blocks' = With(With(blocks, p, bytes), b, RECORD_SIZE),
               records' = <<Record(p, bytes, b)>> \o records,
               clients' = With(clients, p, bytes), ended' = "ok", UNCHANGED <<backing, lost>>
        PROVE  DInv'
    <2>1. bytes \in Nat /\ RECORD_SIZE \in Nat
      BY DebugAssumption
    <2>2. PICK f : f = With(blocks, p, bytes)
      OBVIOUS
    <2>3. DOMAIN f = DOMAIN blocks \cup {p} /\ f \in [DOMAIN f -> Nat]
      <3>1. blocks \in [DOMAIN blocks -> Nat]
        BY DEF DInv, Typed
      <3>2. DOMAIN With(blocks, p, bytes) = DOMAIN blocks \cup {p}
            /\ With(blocks, p, bytes) \in [DOMAIN blocks \cup {p} -> Nat]
        <4>1. IsWith(With(blocks, p, bytes), blocks, p, bytes)
          BY <2>1, <3>1, WithIs
        <4> QED
          BY <4>1 DEF IsWith
      <3> QED
        BY <2>2, <3>2
    <2>4. DOMAIN blocks' = DOMAIN blocks \cup {p, b} /\ blocks' \in [DOMAIN blocks' -> Nat]
      <3>1. DOMAIN With(f, b, RECORD_SIZE) = DOMAIN f \cup {b}
            /\ With(f, b, RECORD_SIZE) \in [DOMAIN f \cup {b} -> Nat]
        <4>1. IsWith(With(f, b, RECORD_SIZE), f, b, RECORD_SIZE)
          BY <2>1, <2>3, WithIs
        <4> QED
          BY <4>1 DEF IsWith
      <3> QED
        BY <1>2, <2>2, <2>3, <3>1
    <2> QED
      BY <1>2, <2>1, <2>4, RecordPrecedes, OwnWith, Comes
  <1> QED
    BY <1>1, <1>2, <1>3 DEF allocate, dispatch_ALLOCATE, ReturnsWith, NothingChanges

(* free: the record and both of its blocks go.                              *)
LEMMA FreeStep ==
    ASSUME DInv, NEW p \in DOMAIN clients, NEW bytes \in {0, clients[p]}, free(p, bytes)
    PROVE  DInv'
  <1>1. p \in Recorded /\ bytes \in {0, records[RecordOf(p)].size}
    BY RecordFound
  <1> SUFFICES ASSUME ~heap_stops(p) PROVE DInv'
    BY StopsStep
  <1>2. dispatch_FREE(p)
    BY <1>1 DEF free
  <1>3. PICK b : b = records[RecordOf(p)].block
    OBVIOUS
  <1>4. /\ blocks' = Without(blocks, {p, b}) /\ records' = RemoveAt(records, RecordOf(p))
        /\ clients' = Without(clients, {p}) /\ ended' = "ok" /\ UNCHANGED <<backing, lost>>
    BY <1>2, <1>3 DEF dispatch_FREE, ReturnsWith
  <1>5. DOMAIN blocks' = DOMAIN blocks \ {p, b} /\ blocks' \in [DOMAIN blocks' -> Nat]
    BY <1>4, WithoutIs DEF DInv, Typed
  <1> QED
    BY <1>3, <1>4, <1>5, RecordLeaves, OwnWithout, Goes

(* destroy returns the recorded blocks and forgets every record.            *)
LEMMA DestroyStep == DInv /\ destroy_debug => DInv'
  <1> SUFFICES ASSUME DInv, destroy_debug PROVE DInv'
    OBVIOUS
  <1>1. clients = <<>> /\ clients' = clients /\ records' = records
    BY DEF destroy_debug
  <1>2. DOMAIN clients = {}
    BY <1>1
  <1>3. records \in Seq(Records) /\ Len(records) = 0
    <2>1. \A i \in 1 .. Len(records) : FALSE
      BY <1>2 DEF DInv, RecordsOfClients
    <2>2. records \in Seq(Records) /\ Len(records) \in Nat
      BY LenProperties DEF DInv, Typed
    <2> QED
      BY <2>1, <2>2
  <1>4. records = <<>> /\ DOMAIN records = {}
    BY <1>3, EmptySeq, LenProperties
  <1>5. blocks' = <<>> /\ lost' = {} /\ backing' = "none" /\ ended' = "destroyed"
    BY <1>4 DEF destroy_debug
  <1>6. DOMAIN blocks' = {} /\ blocks' \in [{} -> Nat]
    BY <1>5
  <1>7. Typed' /\ OneRecordEach' /\ RecordsOfClients' /\ LostIsOthers'
    BY <1>1, <1>2, <1>3, <1>5, <1>6 DEF DInv, Typed, OneRecordEach, RecordsOfClients, LostIsOthers
  <1>8. BlocksAccountedFor'
    BY <1>1, <1>2, <1>4, <1>5, <1>6 DEF BlocksAccountedFor
  <1> QED
    BY <1>7, <1>8 DEF DInv

(* What realloc_from returns to a client, case by case.                     *)
LEMMA Reallocated ==
    ASSUME NEW p, NEW bytes, NEW got \in realloc_from(p, bytes)
    PROVE  \/ got = Outcome("ok", NULL, blocks, {}) /\ p = NULL /\ bytes = 0
           \/ \E q \in Fresh : got = Outcome("ok", q, With(blocks, q, bytes), {}) /\ p = NULL
           \/ got = Outcome("ok", NULL, blocks, {p}) /\ p # NULL /\ bytes = 0
           \/ got = Outcome("ok", NULL, Without(blocks, {p}), {}) /\ p # NULL /\ bytes = 0
           \/ got = Outcome("ok", p, blocks, {}) /\ p # NULL /\ bytes # 0
           \/ \E q \in Fresh : /\ got = Outcome("ok", q, Without(With(blocks, q, bytes), {p}), {})
                               /\ p # NULL /\ bytes # 0
           \/ got = Outcome("ok", p, With(blocks, p, bytes), {}) /\ p # NULL /\ bytes # 0
           \/ got = Outcome("out_of_memory", NULL, blocks, {})
  BY DEF realloc_from

(* resize: whichever of the underlying calls fails, the records match.      *)
LEMMA ResizeStep ==
    ASSUME DInv, NEW p \in Blocks \cup {NULL}, NEW bytes \in BlockSizes, resize(p, bytes)
    PROVE  DInv'
  <1> SUFFICES ASSUME ~heap_stops(p) PROVE DInv'
    BY StopsStep
  <1>1. p \in DOMAIN clients \cup {NULL} /\ NULL \notin Blocks /\ bytes \in Nat /\ RECORD_SIZE \in Nat
    BY DebugAssumption DEF resize
  <1>2. PICK got \in realloc_from(p, bytes) :
          \/ /\ got.error # "ok" \/ (p = NULL /\ got.pointer = NULL)
             /\ ReturnsWith(got.error) /\ UNCHANGED <<blocks, records, clients, lost>>
          \/ /\ got.error = "ok" /\ p = NULL /\ got.pointer # NULL
             /\ \E b \in Blocks \ DOMAIN got.blocks :
                  /\ blocks' = With(got.blocks, b, RECORD_SIZE)
                  /\ records' = <<Record(got.pointer, bytes, b)>> \o records
             /\ clients' = With(clients, got.pointer, bytes)
             /\ ReturnsWith("ok") /\ UNCHANGED lost
          \/ /\ got.error = "ok" /\ p = NULL /\ got.pointer # NULL /\ backing = "kernel"
             /\ blocks' = got.blocks /\ lost' = lost \cup {got.pointer}
             /\ ReturnsWith("out_of_memory") /\ UNCHANGED <<records, clients>>
          \/ /\ got.error = "ok" /\ p \notin Recorded \cup {NULL}
             /\ ReturnsWith("unknown_pointer") /\ UNCHANGED <<blocks, records, clients, lost>>
          \/ /\ got.error = "ok" /\ p \in Recorded /\ bytes = 0
             /\ blocks' = Without(got.blocks, {records[RecordOf(p)].block})
             /\ records' = RemoveAt(records, RecordOf(p))
             /\ clients' = Without(clients, {p})
             /\ lost' = lost \cup got.forgot
             /\ ReturnsWith("ok")
          \/ /\ got.error = "ok" /\ p \in Recorded /\ bytes > 0
             /\ FollowRecord(p, got, bytes)
             /\ blocks' = got.blocks
             /\ clients' = With(Without(clients, {p}), got.pointer, bytes)
             /\ ReturnsWith("ok") /\ UNCHANGED lost
    BY DEF resize, dispatch_RESIZE, NothingChanges
  <1>3. Recorded \subseteq Blocks /\ NULL \notin Recorded /\ (p # NULL => p \in Recorded)
    <2>1. \A i \in DOMAIN records : records[i].pointer \in Blocks
      BY RecordTyped, LenProperties DEF DInv, Typed
    <2> QED
      BY <1>1, <2>1, RecordFound DEF Recorded
  <1>4. DOMAIN clients \subseteq Blocks /\ DOMAIN blocks \subseteq Blocks /\ blocks \in [DOMAIN blocks -> Nat]
    BY DEF DInv, Typed
  <1>5. ASSUME UNCHANGED <<blocks, records, clients, lost>>, ReturnsWith(got.error), got.error \in {"ok", "out_of_memory"}
        PROVE  DInv'
    BY <1>5, Stays DEF ReturnsWith, DInv, Typed
  <1>6. CASE got = Outcome("ok", NULL, blocks, {}) /\ p = NULL /\ bytes = 0
    <2>1. got.error = "ok" /\ got.pointer = NULL
      BY <1>6 DEF Outcome
    <2> QED
      BY <1>2, <1>3, <1>5, <1>6, <2>1
  <1>7. ASSUME NEW q \in Fresh, got = Outcome("ok", q, With(blocks, q, bytes), {}), p = NULL PROVE DInv'
    <2>1. got.error = "ok" /\ got.pointer = q /\ q \in Blocks /\ q # NULL
      BY <1>1, <1>7 DEF Outcome, Fresh
    <2>2. PICK f : f = got.blocks
      OBVIOUS
    <2>3. DOMAIN f = DOMAIN blocks \cup {q} /\ f \in [DOMAIN f -> Nat]
      <3>1. f = With(blocks, q, bytes)
        BY <1>7, <2>2 DEF Outcome
      <3> QED
        <4>1. IsWith(With(blocks, q, bytes), blocks, q, bytes)
          BY <1>1, <1>4, WithIs
        <4> QED
          BY <3>1, <4>1 DEF IsWith
    <2>4. CASE /\ \E b \in Blocks \ DOMAIN f :
                    blocks' = With(f, b, RECORD_SIZE) /\ records' = <<Record(q, bytes, b)>> \o records
               /\ clients' = With(clients, q, bytes)
               /\ ReturnsWith("ok") /\ UNCHANGED lost
      <3>1. PICK b \in Blocks \ DOMAIN f :
              blocks' = With(f, b, RECORD_SIZE) /\ records' = <<Record(q, bytes, b)>> \o records
        BY <2>4
      <3>2. b \in Fresh /\ q # b
        BY <2>3 DEF Fresh
      <3>3. DOMAIN With(f, b, RECORD_SIZE) = DOMAIN f \cup {b}
            /\ With(f, b, RECORD_SIZE) \in [DOMAIN f \cup {b} -> Nat]
        <4>1. IsWith(With(f, b, RECORD_SIZE), f, b, RECORD_SIZE)
          BY <1>1, <2>3, WithIs
        <4> QED
          BY <4>1 DEF IsWith
      <3>4. DOMAIN blocks' = DOMAIN blocks \cup {q, b} /\ blocks' \in [DOMAIN blocks' -> Nat]
        BY <2>3, <3>1, <3>3
      <3>5. Precedes(Record(q, bytes, b))
        BY <1>1, <3>1, <3>2, RecordPrecedes
      <3>6. /\ Own(DOMAIN clients \cup {q}) /\ clients'[q] = bytes
            /\ \A x \in DOMAIN clients \ {q} : clients'[x] = clients[x]
        BY <1>1, <2>4, OwnWith
      <3> QED
        BY <1>1, <2>4, <3>2, <3>4, <3>5, <3>6, Comes DEF ReturnsWith
    <2>5. CASE blocks' = f /\ lost' = lost \cup {q} /\ ReturnsWith("out_of_memory") /\ UNCHANGED <<records, clients>>
      <3>1. q \notin DOMAIN blocks /\ q \notin DOMAIN clients
            /\ \A i \in 1 .. Len(records) : records[i].block # q
        BY RecordTyped DEF Fresh, DInv, BlocksAccountedFor
      <3>2. Typed'
        BY <1>4, <2>1, <2>3, <2>5 DEF DInv, Typed, ReturnsWith
      <3>3. OneRecordEach' /\ RecordsOfClients'
        BY <2>5 DEF DInv, OneRecordEach, RecordsOfClients
      <3>4. LostIsOthers' /\ BlocksAccountedFor'
        BY <2>3, <2>5, <3>1 DEF DInv, LostIsOthers, BlocksAccountedFor
      <3> QED
        BY <3>2, <3>3, <3>4 DEF DInv
    <2> QED
      BY <1>2, <1>3, <1>7, <2>1, <2>2, <2>4, <2>5
  <1>8. ASSUME p # NULL, bytes = 0, got.error = "ok", NEW f, f = got.blocks, f \in [DOMAIN f -> Nat],
               \/ got.forgot = {} /\ DOMAIN f = DOMAIN blocks \ {p}
               \/ got.forgot = {p} /\ DOMAIN f = DOMAIN blocks
        PROVE  DInv'
    <2>1. PICK b : b = records[RecordOf(p)].block
      OBVIOUS
    <2>2. /\ p \in DOMAIN clients
          /\ blocks' = Without(f, {b}) /\ records' = RemoveAt(records, RecordOf(p))
          /\ clients' = Without(clients, {p}) /\ lost' = lost \cup got.forgot
          /\ backing' = backing /\ ended' = "ok"
      BY <1>1, <1>2, <1>3, <1>8, <2>1 DEF ReturnsWith
    <2>3. DOMAIN blocks' = DOMAIN f \ {b} /\ blocks' \in [DOMAIN blocks' -> Nat]
      BY <1>8, <2>2, WithoutIs
    <2>4. \/ lost' = lost /\ DOMAIN blocks' = DOMAIN blocks \ {p, b}
          \/ lost' = lost \cup {p} /\ DOMAIN blocks' = DOMAIN blocks \ {b}
      BY <1>8, <2>2, <2>3
    <2>5. Leaves(RecordOf(p))
      BY <2>2, RecordLeaves
    <2>6. Own(DOMAIN clients \ {p}) /\ \A x \in DOMAIN clients \ {p} : clients'[x] = clients[x]
      BY <2>2, OwnWithout
    <2> QED
      BY <2>1, <2>2, <2>3, <2>4, <2>5, <2>6, Goes
  <1>9. ASSUME p # NULL, bytes # 0, got.error = "ok", NEW q, q = got.pointer, q = p \/ q \in Fresh,
               NEW f, f = got.blocks, f \in [DOMAIN f -> Nat], DOMAIN f = (DOMAIN blocks \ {p}) \cup {q}
        PROVE  DInv'
    <2>1. /\ p \in DOMAIN clients /\ FollowRecord(p, got, bytes) /\ blocks' = f
          /\ clients' = With(Without(clients, {p}), q, bytes)
          /\ lost' = lost /\ backing' = backing /\ ended' = "ok"
      BY <1>1, <1>2, <1>3, <1>9 DEF ReturnsWith
    <2>2. q \in Blocks
      BY <1>4, <1>9, <2>1 DEF Fresh
    <2>3. Follows(RecordOf(p), q, bytes)
      BY <1>1, <1>9, <2>1, <2>2, RecordFollows DEF FollowRecord
    <2>4. /\ Own((DOMAIN clients \ {p}) \cup {q}) /\ clients'[q] = bytes
          /\ \A x \in DOMAIN clients \ {p, q} : clients'[x] = clients[x]
      BY <1>1, <2>1, OwnInstead
    <2>5. DOMAIN blocks' = (DOMAIN blocks \ {p}) \cup {q} /\ blocks' \in [DOMAIN blocks' -> Nat]
      BY <1>9, <2>1
    <2> QED
      BY <1>1, <1>9, <2>1, <2>3, <2>4, <2>5, Moves
  <1>10. CASE got = Outcome("ok", NULL, blocks, {p}) /\ p # NULL /\ bytes = 0
    <2>1. got.error = "ok" /\ got.blocks = blocks /\ got.forgot = {p}
      BY <1>10 DEF Outcome
    <2> QED
      BY <1>4, <1>8, <1>10, <2>1
  <1>11. CASE got = Outcome("ok", NULL, Without(blocks, {p}), {}) /\ p # NULL /\ bytes = 0
    <2>1. PICK f : f = Without(blocks, {p})
      OBVIOUS
    <2>2. got.error = "ok" /\ got.blocks = f /\ got.forgot = {}
      BY <1>11, <2>1 DEF Outcome
    <2>3. DOMAIN f = DOMAIN blocks \ {p} /\ f \in [DOMAIN f -> Nat]
      BY <1>4, <2>1, WithoutIs
    <2> QED
      BY <1>8, <1>11, <2>2, <2>3
  <1>12. CASE got = Outcome("ok", p, blocks, {}) /\ p # NULL /\ bytes # 0
    <2>1. got.error = "ok" /\ got.pointer = p /\ got.blocks = blocks
      BY <1>12 DEF Outcome
    <2>2. p \in DOMAIN blocks
      BY <1>1, <1>12 DEF DInv, BlocksAccountedFor
    <2>3. DOMAIN blocks = (DOMAIN blocks \ {p}) \cup {p}
      BY <2>2
    <2> QED
      BY <1>4, <1>9, <1>12, <2>1, <2>3
  <1>13. ASSUME NEW q \in Fresh, p # NULL, bytes # 0, got = Outcome("ok", q, Without(With(blocks, q, bytes), {p}), {})
         PROVE  DInv'
    <2>1. PICK g : g = With(blocks, q, bytes)
      OBVIOUS
    <2>2. DOMAIN g = DOMAIN blocks \cup {q} /\ g \in [DOMAIN g -> Nat]
      <3>1. IsWith(With(blocks, q, bytes), blocks, q, bytes)
        BY <1>1, <1>4, WithIs
      <3> QED
        BY <2>1, <3>1 DEF IsWith
    <2>3. PICK f : f = Without(g, {p})
      OBVIOUS
    <2>4. DOMAIN f = DOMAIN g \ {p} /\ f \in [DOMAIN f -> Nat]
      BY <2>2, <2>3, WithoutIs
    <2>5. got.error = "ok" /\ got.pointer = q /\ got.blocks = f
      BY <1>13, <2>1, <2>3 DEF Outcome
    <2>6. p \in DOMAIN blocks /\ q \notin DOMAIN blocks
      BY <1>1, <1>13 DEF DInv, BlocksAccountedFor, Fresh
    <2>7. DOMAIN f = (DOMAIN blocks \ {p}) \cup {q}
      BY <2>2, <2>4, <2>6
    <2> QED
      BY <1>9, <1>13, <2>4, <2>5, <2>7
  <1>15. CASE got = Outcome("ok", p, With(blocks, p, bytes), {}) /\ p # NULL /\ bytes # 0
    <2>1. PICK g : g = With(blocks, p, bytes)
      OBVIOUS
    <2>2. DOMAIN g = DOMAIN blocks \cup {p} /\ g \in [DOMAIN g -> Nat]
      <3>1. IsWith(With(blocks, p, bytes), blocks, p, bytes)
        BY <1>1, <1>4, WithIs
      <3> QED
        BY <2>1, <3>1 DEF IsWith
    <2>3. got.error = "ok" /\ got.pointer = p /\ got.blocks = g
      BY <1>15, <2>1 DEF Outcome
    <2>4. DOMAIN g = (DOMAIN blocks \ {p}) \cup {p}
      BY <2>2
    <2> QED
      BY <1>9, <1>15, <2>2, <2>3, <2>4
  <1>14. CASE got = Outcome("out_of_memory", NULL, blocks, {})
    <2>1. got.error = "out_of_memory"
      BY <1>14 DEF Outcome
    <2> QED
      BY <1>2, <1>5, <2>1
  <1> QED
    BY <1>6, <1>7, <1>10, <1>11, <1>12, <1>13, <1>14, <1>15, Reallocated

(* Only blocks are ever marked as freed.                                    *)
Retired == retired \subseteq Blocks
LEMMA RetiredStep == DInv /\ Retired /\ [DebugNext]_debugVars => Retired'
  <1> SUFFICES ASSUME DInv, Retired, [DebugNext]_debugVars PROVE Retired'
    OBVIOUS
  <1>1. CASE UNCHANGED retired
    BY <1>1 DEF Retired
  <1>2. ASSUME NEW p \in Blocks \cup {NULL}, NEW bytes \in BlockSizes, resize(p, bytes) PROVE Retired'
    <2>1. \/ UNCHANGED retired
          \/ \E got \in realloc_from(p, bytes) : retired' = retired \cap DOMAIN got.blocks
          \/ p \in Recorded /\ retired' = retired \cup {p}
      BY <1>2 DEF resize, dispatch_RESIZE, heap_stops, NothingChanges
    <2>2. Recorded \subseteq Blocks
      BY RecordTyped, LenProperties DEF DInv, Typed, Recorded
    <2> QED
      BY <2>1, <2>2 DEF Retired
  <1>3. ASSUME NEW heap, construct_debug(heap) PROVE UNCHANGED retired
    BY <1>3 DEF construct_debug
  <1>4. ASSUME NEW bytes, allocate(bytes) PROVE UNCHANGED retired
    BY <1>4 DEF allocate, dispatch_ALLOCATE, NothingChanges
  <1>5. ASSUME NEW p, NEW bytes, free(p, bytes) PROVE UNCHANGED retired
    BY <1>5 DEF free, dispatch_FREE, heap_stops, NothingChanges
  <1>6. CASE destroy_debug
    BY <1>6 DEF destroy_debug, Retired
  <1> QED
    BY <1>1, <1>2, <1>3, <1>4, <1>5, <1>6 DEF DebugNext, debugVars

(* Every call of the Debug allocator keeps the invariant.                   *)
LEMMA DebugStep == DInv /\ [DebugNext]_debugVars => DInv'
  <1> SUFFICES ASSUME DInv, [DebugNext]_debugVars PROVE DInv'
    OBVIOUS
  <1>1. CASE UNCHANGED debugVars
    BY <1>1, Stays DEF debugVars, DInv, Typed
  <1>2. ASSUME NEW heap \in {"hosted", "kernel"}, construct_debug(heap) PROVE DInv'
    BY <1>2, Stays DEF construct_debug, DInv, Typed
  <1>3. ASSUME NEW bytes \in BlockSizes, allocate(bytes) PROVE DInv'
    BY <1>3, AllocateStep
  <1>4. ASSUME NEW p \in Blocks \cup {NULL}, NEW bytes \in BlockSizes, resize(p, bytes) PROVE DInv'
    BY <1>4, ResizeStep
  <1>5. ASSUME NEW p \in DOMAIN clients, free(p, clients[p]) \/ free(p, 0) PROVE DInv'
    BY <1>5, FreeStep
  <1>6. CASE destroy_debug
    BY <1>6, DestroyStep
  <1> QED
    BY <1>1, <1>2, <1>3, <1>4, <1>5, <1>6 DEF DebugNext

-----------------------------------------------------------------------------
(* Clients that free and resize what they own, with the bytes they own it    *)
(* with, never hit an assertion of the Debug allocator, whichever heap it   *)
(* wraps and whatever that refuses; and no block is forgotten but those of  *)
(* the two paths that drop one.                                             *)
THEOREM RecordsAreSound == DebugSpec => []RecordsSound
  <1>1. DInv /\ Retired => RecordsSound
    <2> SUFFICES ASSUME DInv, Retired PROVE RecordsSound
      OBVIOUS
    <2>1. DOMAIN records = 1 .. Len(records)
      BY LenProperties DEF DInv, Typed
    <2>2. DebugTypeOK
      BY <2>1, RecordTyped DEF DInv, Typed, DebugTypeOK, Retired
    <2>3. NoFalseAlarm
      BY DEF DInv, Typed, NoFalseAlarm
    <2> QED
      BY <2>2, <2>3 DEF DInv, RecordsSound
  <1>2. DebugInit => Retired
    BY DEF DebugInit, Retired
  <1> QED
    BY <1>1, <1>2, DebugStart, DebugStep, RetiredStep, PTL DEF DebugSpec

-----------------------------------------------------------------------------
(* The bump allocators: the buffers of an allocator b, oldest first, are    *)
(* numbered from 0, its original one.                                       *)
DataOf(b, k) == IF k = 0 THEN b.original
                ELSE b.pages[Len(b.pages) + 1 - k].base + OVERFLOW_PAGE_HEADER_SIZE
RoomOf(b, k) == IF k = 0 THEN ORIGINAL_SIZE ELSE b.pages[Len(b.pages) + 1 - k].size

\* The address the next allocation starts at or above, now and when m was taken.
Top(b) == DataOf(b, Len(b.pages)) + b.occupied
TopOf(b, m) == DataOf(b, m.pages) + m.occupied

Hows == {"none", "buffer", "backed", "arena"}

BumpTyped(b, how) ==
    /\ b \in [original : Nat, occupied : Nat, total : Nat, high_water_mark : Nat,
              pages : Seq([base : Nat, size : Nat])]
    /\ how \in Hows
    /\ Len(b.pages) <= MAX_PAGES
    /\ (b.original = 0) = (how = "none")
    /\ how \in {"none", "arena"} => b.pages = <<>>
    /\ b.occupied <= RoomOf(b, Len(b.pages))
    /\ b.total <= b.high_water_mark
    /\ how = "none" => b.total = 0 /\ b.occupied = 0

\* A younger buffer lies above every older one, with a gap between them.
BuffersPlaced(b, how) ==
    how \in {"buffer", "backed"} =>
        \A k \in 0 .. Len(b.pages) :
            /\ (k + 1) * STRIDE <= DataOf(b, k)
            /\ DataOf(b, k) + RoomOf(b, k) < (k + 2) * STRIDE

\* What clients hold was given out of some buffer and lies below the top.
Within(b, a) ==
    \E k \in 0 .. Len(b.pages) : DataOf(b, k) <= a.start /\ a.start + a.size <= DataOf(b, k) + RoomOf(b, k)

HeldPlaced(b, h) ==
    /\ h \subseteq [start : Nat, size : Nat \ {0}, alignment : RequestAlignments]
    /\ \A a \in h : a.start % a.alignment = 0 /\ Within(b, a) /\ a.start + a.size <= Top(b)
    /\ \A a, c \in h : a # c => a.start + a.size <= c.start \/ c.start + c.size <= a.start

BytesIn(h) == UNION {BytesOf(a) : a \in h}
Below(S, limit) == {x \in S : x < limit}

MarkSound(b, h, m) ==
    /\ m.pages <= Len(b.pages) /\ m.occupied <= RoomOf(b, m.pages)
    /\ TopOf(b, m) <= Top(b) /\ m.total <= b.high_water_mark
    /\ Cardinality(Below(BytesIn(h), TopOf(b, m))) <= m.total

MarksSound(b, how, h, ms) ==
    /\ ms \in Seq([pages : Nat, occupied : Nat, total : Nat])
    /\ how \in {"none", "arena"} => ms = <<>>
    /\ \A k \in 1 .. Len(ms) : MarkSound(b, h, ms[k])
    /\ \A j, k \in 1 .. Len(ms) :
           j < k => ms[j].pages <= ms[k].pages /\ TopOf(b, ms[j]) <= TopOf(b, ms[k])

\* The inductive invariant, of an allocator b and of what its clients know of it.
Kept(b, how, h, ms) ==
    /\ BumpTyped(b, how) /\ BuffersPlaced(b, how)
    /\ how = "none" => h = {}
    /\ HeldPlaced(b, h)
    /\ MarksSound(b, how, h, ms)
    /\ Cardinality(BytesIn(h)) <= b.total

Outcomes == {"none", "uninitialized", "nothing", "given", "out_of_memory", "shrunk", "grown", "rewound", "reset"}
BumpInv == Kept(bump, backed, held, marks) /\ outcome \in Outcomes


(* Division.                                                                *)
LEMMA DivMod ==
    ASSUME NEW x \in Nat, NEW s \in Nat \ {0}
    PROVE  \E q \in Nat, r \in 0 .. s - 1 : x \div s = q /\ x % s = r /\ x = s * q + r
  <1>1. PICK q \in Int : q = x \div s
    OBVIOUS
  <1>2. PICK r \in Int : r = x % s
    OBVIOUS
  <1>3. x = s * q + r
    BY <1>1, <1>2
  <1>4. q >= 0
    BY <1>1
  <1>5. r \in 0 .. s - 1
    BY <1>2
  <1>6. q \in Nat
    BY <1>4
  <1>7. x \div s = q /\ x % s = r
    BY <1>1, <1>2
  <1> QED
    BY <1>3, <1>5, <1>6, <1>7, Zenon

(* Quotient and remainder are determined.                                   *)
LEMMA DivUnique ==
    ASSUME NEW s \in Nat \ {0}, NEW q \in Nat, NEW r \in 0 .. s - 1
    PROVE  (s * q + r) \div s = q /\ (s * q + r) % s = r
  <1>1. s * q + r \in Nat
    OBVIOUS
  <1>2. PICK p \in Nat, t \in 0 .. s - 1 : (s * q + r) \div s = p /\ (s * q + r) % s = t /\ s * q + r = s * p + t
    BY <1>1, DivMod
  <1>3. ~(p < q)
    <2> SUFFICES ASSUME p + 1 <= q PROVE FALSE
      OBVIOUS
    <2>1. s * (p + 1) <= s * q
      OBVIOUS
    <2>2. s * (p + 1) = s * p + s
      OBVIOUS
    <2> QED
      BY <1>2, <2>1, <2>2
  <1>4. ~(q < p)
    <2> SUFFICES ASSUME q + 1 <= p PROVE FALSE
      OBVIOUS
    <2>1. s * (q + 1) <= s * p
      OBVIOUS
    <2>2. s * (q + 1) = s * q + s
      OBVIOUS
    <2> QED
      BY <1>2, <2>1, <2>2
  <1>5. p = q
    BY <1>3, <1>4
  <1> QED
    BY <1>2, <1>5

(* align_up: the next multiple, less than one alignment away.               *)
LEMMA AlignUpIs ==
    ASSUME NEW n \in Nat, NEW a \in Nat \ {0}
    PROVE  /\ AlignUp(n, a) \in Nat /\ AlignUp(n, a) % a = 0
           /\ n <= AlignUp(n, a) /\ AlignUp(n, a) < n + a
  <1>1. PICK u \in Nat : u = n + a - 1
    OBVIOUS
  <1>2. PICK q \in Nat, r \in 0 .. a - 1 : u \div a = q /\ u % a = r /\ u = a * q + r
    BY DivMod
  <1>3. (a * q + 0) % a = 0
    BY DivUnique
  <1>4. PICK m \in Nat : m = a * q
    OBVIOUS
  <1>5. AlignUp(n, a) = m
    BY <1>1, <1>2, <1>4 DEF AlignUp
  <1>6. m % a = 0
    BY <1>3, <1>4
  <1> QED
    BY <1>1, <1>2, <1>4, <1>5, <1>6

BumpRecords == [original : Nat, occupied : Nat, total : Nat, high_water_mark : Nat,
                pages : Seq([base : Nat, size : Nat])]

(* Where a buffer lies and how much it takes.                               *)
LEMMA PageIs ==
    ASSUME NEW b \in BumpRecords, NEW k \in 0 .. Len(b.pages)
    PROVE  DataOf(b, k) \in Nat /\ RoomOf(b, k) \in Nat
  <1>0. OVERFLOW_PAGE_HEADER_SIZE \in Nat /\ ORIGINAL_SIZE \in Nat
    BY BumpAssumption
  <1>1. b.pages \in Seq([base : Nat, size : Nat]) /\ b.original \in Nat
    BY DEF BumpRecords
  <1>2. PICK n \in Nat : n = Len(b.pages)
    BY <1>1
  <1>3. ASSUME k # 0 PROVE b.pages[Len(b.pages) + 1 - k] \in [base : Nat, size : Nat]
    <2>1. n + 1 - k \in 1 .. n
      BY <1>2, <1>3
    <2> QED
      BY <1>1, <1>2, <2>1, ElementOfSeq
  <1>4. CASE k = 0
    BY <1>0, <1>1, <1>4 DEF DataOf, RoomOf
  <1>5. CASE k # 0
    BY <1>0, <1>3, <1>5 DEF DataOf, RoomOf
  <1> QED
    BY <1>4, <1>5

(* The page that is being filled is the youngest buffer.                    *)
LEMMA CurrentIs ==
    ASSUME NEW b \in BumpRecords
    PROVE  Current(b).data = DataOf(b, Len(b.pages)) /\ Current(b).size = RoomOf(b, Len(b.pages))
  <1>1. b.pages \in Seq([base : Nat, size : Nat])
    BY DEF BumpRecords
  <1>2. Len(b.pages) \in Nat /\ (Len(b.pages) = 0 <=> b.pages = <<>>)
    BY <1>1, EmptySeq
  <1>3. CASE b.pages = <<>>
    BY <1>2, <1>3 DEF Current, DataOf, RoomOf
  <1>4. CASE b.pages # <<>>
    <2>1. Head(b.pages) = b.pages[1] /\ Len(b.pages) + 1 - Len(b.pages) = 1
      BY <1>1, <1>2, <1>4
    <2> QED
      BY <1>2, <1>4, <2>1 DEF Current, DataOf, RoomOf
  <1> QED
    BY <1>3, <1>4

(* The buffers by their numbers.                                            *)
LEMMA BufferIs ==
    ASSUME NEW b \in BumpRecords, NEW p \in BuffersOf(b)
    PROVE  \E k \in 0 .. Len(b.pages) : p.data = DataOf(b, k) /\ p.size = RoomOf(b, k)
  <1>a. b.pages \in Seq([base : Nat, size : Nat]) /\ Len(b.pages) \in Nat /\ DOMAIN b.pages = 1 .. Len(b.pages)
    BY DEF BumpRecords
  <1>b. PICK n \in Nat : n = Len(b.pages)
    BY <1>a
  <1>1. CASE p = [data |-> b.original, size |-> ORIGINAL_SIZE]
    BY <1>a, <1>1 DEF DataOf, RoomOf
  <1>2. CASE \E i \in DOMAIN b.pages :
               p = [data |-> b.pages[i].base + OVERFLOW_PAGE_HEADER_SIZE, size |-> b.pages[i].size]
    <2>1. PICK i \in 1 .. Len(b.pages) :
               p = [data |-> b.pages[i].base + OVERFLOW_PAGE_HEADER_SIZE, size |-> b.pages[i].size]
      BY <1>a, <1>2
    <2>5. i \in 1 .. n
      BY <1>b, <2>1
    <2>6. PICK k \in 1 .. n : k = n + 1 - i
      BY <2>5
    <2>2. k \in 1 .. Len(b.pages) /\ k = Len(b.pages) + 1 - i
      BY <1>b, <2>6
    <2>3. Len(b.pages) + 1 - k = i /\ k # 0 /\ k \in 0 .. Len(b.pages)
      BY <1>b, <2>5, <2>6
    <2>4. p.data = DataOf(b, k) /\ p.size = RoomOf(b, k)
      BY <2>1, <2>3 DEF DataOf, RoomOf
    <2> QED
      BY <2>3, <2>4
  <1> QED
    BY <1>1, <1>2 DEF BuffersOf

(* IS_THIS_YOURS, by the numbers of the buffers.                            *)
LEMMA BuffersAre ==
    ASSUME NEW b \in BumpRecords, NEW a
    PROVE  (\E p \in BuffersOf(b) : p.data <= a.start /\ a.start + a.size <= p.data + p.size) <=> Within(b, a)
  <1>1. b.pages \in Seq([base : Nat, size : Nat]) /\ Len(b.pages) \in Nat /\ DOMAIN b.pages = 1 .. Len(b.pages)
    BY DEF BumpRecords
  <1>4. PICK n \in Nat : n = Len(b.pages)
    BY <1>1
  <1>2. ASSUME NEW p \in BuffersOf(b)
        PROVE  \E k \in 0 .. Len(b.pages) : p.data = DataOf(b, k) /\ p.size = RoomOf(b, k)
    BY <1>2, BufferIs
  <1>3. ASSUME NEW k \in 0 .. Len(b.pages)
        PROVE  \E p \in BuffersOf(b) : p.data = DataOf(b, k) /\ p.size = RoomOf(b, k)
    <2>1. CASE k = 0
      <3>1. [data |-> b.original, size |-> ORIGINAL_SIZE] \in BuffersOf(b)
        BY DEF BuffersOf
      <3> QED
        BY <2>1, <3>1 DEF DataOf, RoomOf
    <2>2. CASE k # 0
      <3>4. k \in 1 .. n
        BY <1>4, <2>2
      <3>5. PICK i \in 1 .. n : i = n + 1 - k
        BY <3>4
      <3>1. i \in 1 .. Len(b.pages) /\ i = Len(b.pages) + 1 - k
        BY <1>4, <3>5
      <3>2. i \in DOMAIN b.pages
        BY <1>1, <3>1
      <3>3. [data |-> b.pages[i].base + OVERFLOW_PAGE_HEADER_SIZE, size |-> b.pages[i].size] \in BuffersOf(b)
        BY <3>2 DEF BuffersOf
      <3> QED
        BY <2>2, <3>1, <3>3 DEF DataOf, RoomOf
    <2> QED
      BY <2>1, <2>2
  <1> QED
    BY <1>2, <1>3 DEF Within

(* The same pages and original buffer are the same buffers.                 *)
LEMMA SameBuffers ==
    ASSUME NEW b, NEW c, c.original = b.original, c.pages = b.pages
    PROVE  \A k : DataOf(c, k) = DataOf(b, k) /\ RoomOf(c, k) = RoomOf(b, k)
BY DEF DataOf, RoomOf

(* free_overflow_pages keeps the older buffers where they are.              *)
LEMMA FreedIs ==
    ASSUME NEW b \in BumpRecords, NEW n \in 0 .. Len(b.pages)
    PROVE  /\ SubSeq(b.pages, Len(b.pages) - n + 1, Len(b.pages)) \in Seq([base : Nat, size : Nat])
           /\ Len(SubSeq(b.pages, Len(b.pages) - n + 1, Len(b.pages))) = n
           /\ \A c : /\ c.original = b.original
                     /\ c.pages = SubSeq(b.pages, Len(b.pages) - n + 1, Len(b.pages))
                     => \A k \in 0 .. n : DataOf(c, k) = DataOf(b, k) /\ RoomOf(c, k) = RoomOf(b, k)
  <1>1. b.pages \in Seq([base : Nat, size : Nat]) /\ Len(b.pages) \in Nat
    BY DEF BumpRecords
  <1>2. PICK f : f = SubSeq(b.pages, Len(b.pages) - n + 1, Len(b.pages))
    OBVIOUS
  <1>6. PICK l \in Nat : l = Len(b.pages)
    BY <1>1
  <1>7. n \in 0 .. l
    BY <1>6
  <1>3. PICK j \in Nat : j = l - n
    BY <1>7
  <1>4. f \in Seq([base : Nat, size : Nat]) /\ Len(f) = n /\ \A i \in 1 .. n : f[i] = b.pages[j + i]
    <2>4. l - n + 1 = j + 1
      BY <1>3, <1>7
    <2>1. f = SubSeq(b.pages, j + 1, l)
      BY <1>2, <1>6, <2>4
    <2>2. \A i \in j + 1 .. l : b.pages[i] \in [base : Nat, size : Nat]
      <3>1. ASSUME NEW i \in j + 1 .. l PROVE i \in 1 .. l
        BY <1>3, <1>7, <3>1
      <3> QED
        BY <1>1, <1>6, <3>1, ElementOfSeq
    <2>3. /\ f \in Seq([base : Nat, size : Nat])
          /\ Len(f) = IF j + 1 <= l THEN l - (j + 1) + 1 ELSE 0
          /\ \A i \in 1 .. l - (j + 1) + 1 : f[i] = b.pages[j + 1 + i - 1]
      <3>1. PICK i \in Nat : i = j + 1
        OBVIOUS
      <3>2. /\ SubSeq(b.pages, i, l) \in Seq([base : Nat, size : Nat])
            /\ Len(SubSeq(b.pages, i, l)) = IF i <= l THEN l - i + 1 ELSE 0
            /\ \A k \in 1 .. l - i + 1 : SubSeq(b.pages, i, l)[k] = b.pages[i + k - 1]
        BY <2>2, <3>1, SubSeqProperties
      <3> QED
        BY <2>1, <3>1, <3>2
    <2> QED
      <3>1. ASSUME NEW i \in 1 .. n PROVE i \in 1 .. l - (j + 1) + 1 /\ j + 1 + i - 1 = j + i
        BY <1>3, <1>7, <3>1
      <3>2. Len(f) = n
        BY <1>3, <1>7, <2>3
      <3>3. ASSUME NEW i \in 1 .. n PROVE f[i] = b.pages[j + i]
        <4>1. f[i] = b.pages[j + 1 + i - 1]
          BY <2>3, <3>1, <3>3
        <4> QED
          BY <3>1, <3>3, <4>1
      <3> QED
        BY <2>3, <3>2, <3>3
  <1>5. ASSUME NEW c, c.original = b.original, c.pages = f, NEW k \in 0 .. n
        PROVE  DataOf(c, k) = DataOf(b, k) /\ RoomOf(c, k) = RoomOf(b, k)
    <2>1. CASE k = 0
      BY <1>5, <2>1 DEF DataOf, RoomOf
    <2>2. CASE k # 0
      <3>1. PICK i \in 1 .. n : i = n + 1 - k
        BY <2>2
      <3>2. f[i] = b.pages[j + i] /\ j + i = Len(b.pages) + 1 - k
        <4>1. f[i] = b.pages[j + i]
          BY <1>4, <3>1
        <4>3. j + (n + 1 - k) = l + 1 - k
          BY <1>3, <1>5, <1>7
        <4> QED
          BY <1>6, <3>1, <4>1, <4>3
      <3>3. Len(c.pages) + 1 - k = i
        BY <1>4, <1>5, <3>1
      <3> QED
        BY <1>5, <2>2, <3>2, <3>3 DEF DataOf, RoomOf
    <2> QED
      BY <2>1, <2>2
  <1> QED
    BY <1>2, <1>4, <1>5

(* The numbers an allocator consists of.                                    *)
LEMMA TopIs ==
    ASSUME NEW b \in BumpRecords
    PROVE  /\ Len(b.pages) \in Nat /\ DataOf(b, Len(b.pages)) \in Nat /\ RoomOf(b, Len(b.pages)) \in Nat
           /\ b.occupied \in Nat /\ b.total \in Nat /\ b.high_water_mark \in Nat /\ b.original \in Nat
           /\ Top(b) \in Nat /\ Top(b) = DataOf(b, Len(b.pages)) + b.occupied
  <1>1. Len(b.pages) \in Nat /\ b.occupied \in Nat /\ b.total \in Nat /\ b.high_water_mark \in Nat /\ b.original \in Nat
    BY DEF BumpRecords
  <1>2. Len(b.pages) \in 0 .. Len(b.pages)
    BY <1>1
  <1>3. DataOf(b, Len(b.pages)) \in Nat /\ RoomOf(b, Len(b.pages)) \in Nat
    BY <1>2, PageIs
  <1> QED
    BY <1>1, <1>3 DEF Top

(* The strides of two buffers do not meet.                                  *)
LEMMA Strides ==
    ASSUME NEW j \in Nat, NEW k \in Nat, j < k
    PROVE  (j + 2) * STRIDE <= (k + 1) * STRIDE /\ (k + 1) * STRIDE \in Nat /\ (j + 2) * STRIDE \in Nat
  <1>1. STRIDE \in Nat
    BY StrideAssumption
  <1>2. PICK d \in Nat : k + 1 = j + 2 + d
    <2>1. k - j - 1 \in Nat /\ k + 1 = j + 2 + (k - j - 1)
      OBVIOUS
    <2> QED
      BY <2>1
  <1>3. (j + 2 + d) * STRIDE = (j + 2) * STRIDE + d * STRIDE
    BY <1>1
  <1>4. d * STRIDE \in Nat /\ (j + 2) * STRIDE \in Nat
    BY <1>1
  <1> QED
    BY <1>2, <1>3, <1>4

\* Temporary allocators: the others have one buffer.
LEMMA Ordered ==
    ASSUME NEW b \in BumpRecords, NEW how, BumpTyped(b, how), BuffersPlaced(b, how),
           NEW j \in 0 .. Len(b.pages), NEW k \in 0 .. Len(b.pages), j < k
    PROVE  DataOf(b, j) + RoomOf(b, j) < DataOf(b, k)
  <1>1. PICK n \in Nat : n = Len(b.pages)
    BY TopIs
  <1>2. j \in 0 .. n /\ k \in 0 .. n
    BY <1>1
  <1>3. n # 0
    BY <1>2
  <1>4. how \in {"buffer", "backed"}
    <2>1. b.pages = <<>> => Len(b.pages) = 0
      OBVIOUS
    <2> QED
      BY <1>1, <1>3, <2>1 DEF BumpTyped, Hows
  <1>5. PICK dj \in Nat, rj \in Nat, dk \in Nat : dj = DataOf(b, j) /\ rj = RoomOf(b, j) /\ dk = DataOf(b, k)
    BY PageIs
  <1>6. PICK u \in Nat, v \in Nat : u = (j + 2) * STRIDE /\ v = (k + 1) * STRIDE /\ u <= v
    <2>1. j \in Nat /\ k \in Nat
      BY <1>2
    <2>2. (j + 2) * STRIDE <= (k + 1) * STRIDE /\ (k + 1) * STRIDE \in Nat /\ (j + 2) * STRIDE \in Nat
      BY <2>1, Strides
    <2> QED
      BY <2>2
  <1>7. dj + rj < u
    BY <1>4, <1>5, <1>6 DEF BuffersPlaced
  <1>8. v <= dk
    BY <1>4, <1>5, <1>6 DEF BuffersPlaced
  <1>9. dj + rj < dk
    BY <1>6, <1>7, <1>8
  <1> QED
    BY <1>5, <1>9

(* Part of a finite set.                                                    *)
LEMMA Smaller ==
    ASSUME NEW T, IsFiniteSet(T), NEW S \in SUBSET T
    PROVE  IsFiniteSet(S) /\ Cardinality(S) \in Nat /\ Cardinality(T) \in Nat /\ Cardinality(S) <= Cardinality(T)
BY FS_Subset, FS_CardinalityType

(* The bytes in use lie below the top.                                      *)
LEMMA BytesFinite ==
    ASSUME NEW b \in BumpRecords, NEW h, HeldPlaced(b, h)
    PROVE  /\ BytesIn(h) \subseteq 0 .. Top(b) - 1
           /\ IsFiniteSet(BytesIn(h)) /\ Cardinality(BytesIn(h)) \in Nat
  <1>1. PICK t \in Nat : t = Top(b)
    BY TopIs
  <1>2. ASSUME NEW a \in h PROVE BytesOf(a) \subseteq 0 .. t - 1
    <2>1. PICK s \in Nat, z \in Nat : s = a.start /\ z = a.size
      BY DEF HeldPlaced
    <2>2. s + z <= t
      BY <1>1, <2>1 DEF HeldPlaced
    <2>3. s .. s + z - 1 \subseteq 0 .. t - 1
      BY <2>2
    <2> QED
      BY <2>1, <2>3 DEF BytesOf
  <1>3. BytesIn(h) \subseteq 0 .. t - 1
    BY <1>2 DEF BytesIn
  <1>4. IsFiniteSet(0 .. t - 1)
    BY FS_Interval
  <1> QED
    BY <1>1, <1>3, <1>4, Smaller

(* n more bytes are at most n more.                                         *)
LEMMA AddRange ==
    ASSUME NEW S, IsFiniteSet(S), NEW i \in Nat, NEW n \in Nat
    PROVE  /\ IsFiniteSet(S \cup (i .. i + n - 1))
           /\ Cardinality(S \cup (i .. i + n - 1)) \in Nat
           /\ Cardinality(S \cup (i .. i + n - 1)) <= Cardinality(S) + n
  <1>1. PICK R : R = i .. i + n - 1
    OBVIOUS
  <1>2. IsFiniteSet(R) /\ Cardinality(R) = n
    <2>1. i \in Int /\ i + n - 1 \in Int
      OBVIOUS
    <2>2. IsFiniteSet(i .. i + n - 1)
          /\ Cardinality(i .. i + n - 1) = IF i > i + n - 1 THEN 0 ELSE i + n - 1 - i + 1
      BY <2>1, FS_Interval
    <2>3. (IF i > i + n - 1 THEN 0 ELSE i + n - 1 - i + 1) = n
      OBVIOUS
    <2> QED
      BY <1>1, <2>2, <2>3
  <1>3. IsFiniteSet(S \cup R) /\ Cardinality(S \cup R) = Cardinality(S) + Cardinality(R) - Cardinality(S \cap R)
    BY <1>2, FS_Union
  <1>4. Cardinality(S \cap R) \in Nat
    <2>1. S \cap R \in SUBSET S
      OBVIOUS
    <2> QED
      BY <2>1, Smaller
  <1>5. Cardinality(S) \in Nat /\ Cardinality(S \cup R) \in Nat
    BY <1>3, FS_CardinalityType
  <1>6. Cardinality(S \cup R) <= Cardinality(S) + n
    BY <1>2, <1>3, <1>4, <1>5
  <1> QED
    BY <1>1, <1>3, <1>5, <1>6

\* c has the buffers of b, and perhaps younger ones.
Extended(b, c) ==
    /\ Len(b.pages) <= Len(c.pages)
    /\ \A k \in 0 .. Len(b.pages) : DataOf(c, k) = DataOf(b, k) /\ RoomOf(c, k) = RoomOf(b, k)

(* The numbers a mark consists of.                                          *)
LEMMA MarkIs ==
    ASSUME NEW b \in BumpRecords, NEW how, NEW h, NEW ms, MarksSound(b, how, h, ms), NEW k \in 1 .. Len(ms)
    PROVE  /\ ms[k] \in [pages : Nat, occupied : Nat, total : Nat]
           /\ ms[k].pages \in 0 .. Len(b.pages)
           /\ TopOf(b, ms[k]) \in Nat /\ DataOf(b, ms[k].pages) \in Nat /\ RoomOf(b, ms[k].pages) \in Nat
           /\ MarkSound(b, h, ms[k])
  <1>1. ms \in Seq([pages : Nat, occupied : Nat, total : Nat]) /\ MarkSound(b, h, ms[k])
    BY DEF MarksSound
  <1>2. ms[k] \in [pages : Nat, occupied : Nat, total : Nat]
    BY <1>1, ElementOfSeq
  <1>3. PICK p \in Nat, o \in Nat : p = ms[k].pages /\ o = ms[k].occupied
    BY <1>2
  <1>4. p <= Len(b.pages) /\ Len(b.pages) \in Nat
    BY <1>1, <1>3, TopIs DEF MarkSound
  <1>5. p \in 0 .. Len(b.pages)
    BY <1>4
  <1>6. PICK d \in Nat, r \in Nat : d = DataOf(b, p) /\ r = RoomOf(b, p)
    BY <1>5, PageIs
  <1>7. TopOf(b, ms[k]) = d + o
    BY <1>3, <1>6 DEF TopOf
  <1> QED
    BY <1>1, <1>2, <1>3, <1>5, <1>6, <1>7, SMTT(30)

(* Marks stay good while the buffers they knew stay and what comes is       *)
(* above.                                                                   *)
LEMMA MarksKept ==
    ASSUME NEW b \in BumpRecords, NEW c \in BumpRecords, NEW how, NEW h, NEW g, NEW ms,
           MarksSound(b, how, h, ms), Extended(b, c),
           Top(b) <= Top(c), b.high_water_mark <= c.high_water_mark,
           IsFiniteSet(BytesIn(h)),
           \A x \in BytesIn(g) : x < Top(b) => x \in BytesIn(h)
    PROVE  MarksSound(c, how, g, ms)
  <1>1. ASSUME NEW k \in 1 .. Len(ms)
        PROVE  MarkSound(c, g, ms[k]) /\ TopOf(c, ms[k]) = TopOf(b, ms[k])
    <2>1. PICK m : m = ms[k]
      OBVIOUS
    <2>2. /\ m \in [pages : Nat, occupied : Nat, total : Nat] /\ m.pages \in 0 .. Len(b.pages)
          /\ TopOf(b, m) \in Nat /\ DataOf(b, m.pages) \in Nat /\ MarkSound(b, h, m)
      BY <2>1, MarkIs, <1>1
    <2>3. DataOf(c, m.pages) = DataOf(b, m.pages) /\ RoomOf(c, m.pages) = RoomOf(b, m.pages)
      BY <2>2 DEF Extended
    <2>4. TopOf(c, m) = TopOf(b, m)
      BY <2>3 DEF TopOf
    <2>5. PICK t \in Nat, u \in Nat, v \in Nat : t = TopOf(b, m) /\ u = Top(b) /\ v = Top(c)
      BY <2>2, TopIs
    <2>6. t <= u /\ u <= v
      BY <2>2, <2>5 DEF MarkSound
    <2>7. m.pages <= Len(c.pages) /\ m.occupied <= RoomOf(c, m.pages)
      <3>1. PICK p \in Nat, lb \in Nat, lc \in Nat : p = m.pages /\ lb = Len(b.pages) /\ lc = Len(c.pages)
        BY <2>2, TopIs
      <3>2. p <= lb /\ lb <= lc
        BY <2>2, <3>1 DEF Extended
      <3>3. p <= lc
        BY <3>2
      <3> QED
        BY <2>2, <2>3, <3>1, <3>3 DEF MarkSound
    <2>8. m.total <= c.high_water_mark
      <3>1. PICK q \in Nat, x \in Nat, y \in Nat : q = m.total /\ x = b.high_water_mark /\ y = c.high_water_mark
        BY <2>2, TopIs
      <3>2. q <= x /\ x <= y
        BY <2>2, <3>1 DEF MarkSound
      <3>3. q <= y
        BY <3>2
      <3> QED
        BY <3>1, <3>3
    <2>9. Cardinality(Below(BytesIn(g), t)) <= m.total
      <3>1. \A x \in BytesIn(g) : x < t => x < u
        <4>1. ASSUME NEW x \in BytesIn(g), x < t PROVE x < u
          <5>1. x \in Int
            BY <4>1 DEF BytesIn, BytesOf
          <5> QED
            BY <2>6, <4>1, <5>1
        <4> QED
          BY <4>1
      <3>2. Below(BytesIn(g), t) \in SUBSET Below(BytesIn(h), t)
        BY <2>5, <3>1 DEF Below
      <3>3. IsFiniteSet(Below(BytesIn(h), t))
        <4>1. Below(BytesIn(h), t) \in SUBSET BytesIn(h)
          BY DEF Below
        <4> QED
          BY <4>1, Smaller
      <3>4. PICK x \in Nat, y \in Nat : x = Cardinality(Below(BytesIn(g), t)) /\ y = Cardinality(Below(BytesIn(h), t)) /\ x <= y
        BY <3>2, <3>3, Smaller
      <3>5. PICK q \in Nat : q = m.total
        BY <2>2
      <3>6. y <= q
        BY <2>2, <2>5, <3>4, <3>5 DEF MarkSound
      <3>7. x <= q
        BY <3>4, <3>6
      <3> QED
        BY <3>4, <3>5, <3>7
    <2>10. TopOf(c, m) <= Top(c)
      BY <2>4, <2>5, <2>6
    <2> QED
      BY <2>1, <2>4, <2>5, <2>7, <2>8, <2>9, <2>10 DEF MarkSound
  <1> QED
    BY <1>1 DEF MarksSound

\* c is b with its current page filled up to next.
Bumped(b, c, next) ==
    /\ c.original = b.original /\ c.pages = b.pages
    /\ c.occupied = next - DataOf(b, Len(b.pages))
    /\ c.total = b.total + (next - Top(b))
    /\ c.high_water_mark = larger(b.high_water_mark, c.total)

(* Filling the page up to next accounts for all that may be in use up to    *)
(* there.                                                                   *)
LEMMA BumpedKeeps ==
    ASSUME NEW b \in BumpRecords, NEW c \in BumpRecords, NEW how, NEW h, NEW g, NEW ms,
           Kept(b, how, h, ms), how # "none", NEW next \in Nat, Top(b) <= next,
           next <= DataOf(b, Len(b.pages)) + RoomOf(b, Len(b.pages)),
           Bumped(b, c, next), HeldPlaced(c, g),
           BytesIn(g) \subseteq BytesIn(h) \cup (Top(b) .. next - 1)
    PROVE  Kept(c, how, g, ms) /\ Top(c) = next
  <1>1. PICK d \in Nat, r \in Nat, o \in Nat, t \in Nat :
          /\ d = DataOf(b, Len(b.pages)) /\ r = RoomOf(b, Len(b.pages)) /\ o = b.occupied
          /\ t = Top(b) /\ t = d + o
    BY TopIs
  <1>2. PICK total \in Nat, peak \in Nat, total2 \in Nat, peak2 \in Nat :
          /\ total = b.total /\ peak = b.high_water_mark
          /\ total2 = c.total /\ peak2 = c.high_water_mark
    BY TopIs
  <1>3. total2 = total + (next - t) /\ peak2 = larger(peak, total2)
    BY <1>1, <1>2 DEF Bumped
  <1>4. total <= peak /\ total <= total2 /\ peak <= peak2 /\ total2 <= peak2
    <2>1. total <= peak
      BY <1>2 DEF Kept, BumpTyped
    <2>2. total <= total2
      BY <1>1, <1>3, SMTT(30)
    <2> QED
      BY <1>3, <2>1, <2>2 DEF larger
  <1>5. \A k : DataOf(c, k) = DataOf(b, k) /\ RoomOf(c, k) = RoomOf(b, k)
    BY SameBuffers DEF Bumped
  <1>6. c.pages = b.pages /\ c.original = b.original
    BY DEF Bumped
  <1>7. Extended(b, c)
    <2>1. Len(b.pages) \in Nat /\ Len(c.pages) = Len(b.pages)
      BY <1>6, TopIs
    <2>2. Len(b.pages) <= Len(c.pages)
      BY <2>1
    <2> QED
      BY <1>5, <2>2 DEF Extended
  <1>8. PICK o2 \in Nat : o2 = c.occupied /\ o2 = next - d
    BY <1>1, TopIs DEF Bumped
  <1>9. Top(c) = next
    BY <1>1, <1>5, <1>6, <1>8 DEF Top
  <1>10. BumpTyped(c, how)
    <2>1. o2 <= r
      BY <1>1, <1>8
    <2>2. c.occupied <= RoomOf(c, Len(c.pages))
      BY <1>1, <1>5, <1>6, <1>8, <2>1
    <2>3. c.total <= c.high_water_mark
      BY <1>2, <1>4
    <2>4. BumpTyped(b, how)
      BY DEF Kept
    <2> QED
      BY <1>6, <2>2, <2>3, <2>4 DEF BumpTyped, BumpRecords
  <1>11. BuffersPlaced(c, how)
    BY <1>5, <1>6 DEF Kept, BuffersPlaced
  <1>12. IsFiniteSet(BytesIn(h)) /\ Cardinality(BytesIn(h)) \in Nat
    BY BytesFinite DEF Kept
  <1>13. MarksSound(c, how, g, ms)
    <2>1. \A x \in BytesIn(g) : x < Top(b) => x \in BytesIn(h)
      BY <1>1
    <2>2. Top(b) <= Top(c)
      BY <1>9
    <2>3. b.high_water_mark <= c.high_water_mark
      BY <1>2, <1>4
    <2>4. MarksSound(b, how, h, ms)
      BY DEF Kept
    <2> QED
      BY <1>7, <1>12, <2>1, <2>2, <2>3, <2>4, MarksKept
  <1>14. Cardinality(BytesIn(g)) <= c.total
    <2>1. PICK n \in Nat : n = next - t
      BY <1>1
    <2>2. t .. t + n - 1 = t .. next - 1
      BY <1>1, <2>1
    <2>3. PICK B : B = BytesIn(h) \cup (t .. t + n - 1)
      OBVIOUS
    <2>4. IsFiniteSet(B) /\ Cardinality(B) \in Nat /\ Cardinality(B) <= Cardinality(BytesIn(h)) + n
      BY <1>12, <2>3, AddRange
    <2>5. BytesIn(g) \in SUBSET B
      BY <1>1, <2>2, <2>3
    <2>6. Cardinality(BytesIn(g)) \in Nat /\ Cardinality(BytesIn(g)) <= Cardinality(B)
      BY <2>4, <2>5, Smaller
    <2>7. Cardinality(BytesIn(h)) <= total
      BY <1>2 DEF Kept
    <2>8. Cardinality(BytesIn(g)) <= total + n
      BY <1>12, <2>4, <2>6, <2>7
    <2> QED
      BY <1>2, <1>3, <2>1, <2>8
  <1> QED
    BY <1>9, <1>10, <1>11, <1>13, <1>14 DEF Kept

\* What is given away, or shrunk, is only less.
LEMMA LessKeeps ==
    ASSUME NEW b \in BumpRecords, NEW how, NEW h, NEW g, NEW ms, Kept(b, how, h, ms), how # "none",
           HeldPlaced(b, g), BytesIn(g) \subseteq BytesIn(h)
    PROVE  Kept(b, how, g, ms)
  <1>1. IsFiniteSet(BytesIn(h)) /\ Cardinality(BytesIn(h)) \in Nat
    BY BytesFinite DEF Kept
  <1>2. BytesIn(g) \in SUBSET BytesIn(h)
    OBVIOUS
  <1>3. Cardinality(BytesIn(g)) \in Nat /\ Cardinality(BytesIn(g)) <= Cardinality(BytesIn(h))
    BY <1>1, <1>2, Smaller
  <1>4. Cardinality(BytesIn(g)) <= b.total
    BY <1>1, <1>3, TopIs DEF Kept
  <1>5. MarksSound(b, how, g, ms)
    <2>1. Extended(b, b) /\ Top(b) <= Top(b) /\ b.high_water_mark <= b.high_water_mark
      BY TopIs DEF Extended
    <2>2. MarksSound(b, how, h, ms)
      BY DEF Kept
    <2> QED
      BY <1>1, <1>2, <2>1, <2>2, MarksKept
  <1> QED
    BY <1>4, <1>5 DEF Kept

\* Given to a client: it lies above all that is held.
LEMMA GiveKeeps ==
    ASSUME NEW b \in BumpRecords, NEW c \in BumpRecords, NEW how, NEW h, NEW ms,
           Kept(b, how, h, ms), how # "none",
           NEW start \in Nat, NEW bytes \in Nat \ {0}, NEW alignment \in RequestAlignments,
           start % alignment = 0, Top(b) <= start,
           start + bytes <= DataOf(b, Len(b.pages)) + RoomOf(b, Len(b.pages)),
           Bumped(b, c, start + bytes)
    PROVE  Kept(c, how, h \cup {[start |-> start, size |-> bytes, alignment |-> alignment]}, ms)
  <1>1. PICK d \in Nat, r \in Nat, o \in Nat, t \in Nat :
          /\ d = DataOf(b, Len(b.pages)) /\ r = RoomOf(b, Len(b.pages)) /\ o = b.occupied
          /\ t = Top(b) /\ t = d + o
    BY TopIs
  <1>2. PICK next \in Nat : next = start + bytes
    OBVIOUS
  <1>3. PICK new : new = [start |-> start, size |-> bytes, alignment |-> alignment]
    OBVIOUS
  <1>4. PICK g : g = h \cup {new}
    OBVIOUS
  <1>5. \A k : DataOf(c, k) = DataOf(b, k) /\ RoomOf(c, k) = RoomOf(b, k)
    BY SameBuffers DEF Bumped
  <1>6. c.pages = b.pages
    BY DEF Bumped
  <1>7. Top(c) = next
    <2>1. c.occupied = next - d
      BY <1>1, <1>2 DEF Bumped
    <2>2. Top(c) = d + (next - d)
      BY <1>1, <1>5, <1>6, <2>1 DEF Top
    <2> QED
      BY <1>1, <2>2
  <1>8. /\ h \subseteq [start : Nat, size : Nat \ {0}, alignment : RequestAlignments]
        /\ \A a \in h : a.start % a.alignment = 0 /\ Within(b, a) /\ a.start + a.size <= t
        /\ \A a, e \in h : a # e => a.start + a.size <= e.start \/ e.start + e.size <= a.start
    BY <1>1 DEF Kept, HeldPlaced
  <1>9. t <= start /\ start < next
    BY <1>1, <1>2
  <1>10. ASSUME NEW a \in h
         PROVE  a.start + a.size <= next /\ a.start + a.size <= start /\ Within(c, a) /\ a.start % a.alignment = 0
    <2>1. PICK s \in Nat, z \in Nat : s = a.start /\ z = a.size
      BY <1>8, <1>10
    <2>2. s + z <= t
      BY <1>8, <1>10, <2>1
    <2>3. s + z <= next /\ s + z <= start
      BY <1>9, <2>2
    <2>4. Within(c, a)
      BY <1>5, <1>6, <1>8, <1>10 DEF Within
    <2> QED
      BY <1>8, <1>10, <2>1, <2>3, <2>4
  <1>11. Within(c, new)
    <2>1. Len(b.pages) \in 0 .. Len(b.pages)
      BY TopIs
    <2>2. d <= start /\ start + bytes <= d + r
      BY <1>1, <1>9
    <2>3. new.start = start /\ new.size = bytes
      BY <1>3
    <2> QED
      BY <1>1, <1>5, <1>6, <2>1, <2>2, <2>3 DEF Within
  <1>12. /\ new \in [start : Nat, size : Nat \ {0}, alignment : RequestAlignments]
         /\ new.start = start /\ new.start + new.size = next /\ new.start % new.alignment = 0
    BY <1>2, <1>3
  <1>13. HeldPlaced(c, g)
    <2>1. g \subseteq [start : Nat, size : Nat \ {0}, alignment : RequestAlignments]
      BY <1>4, <1>8, <1>12
    <2>2. \A a \in g : a.start % a.alignment = 0 /\ Within(c, a) /\ a.start + a.size <= Top(c)
      BY <1>4, <1>7, <1>10, <1>11, <1>12
    <2>3. \A a, e \in g : a # e => a.start + a.size <= e.start \/ e.start + e.size <= a.start
      BY <1>4, <1>8, <1>10, <1>12
    <2> QED
      BY <2>1, <2>2, <2>3 DEF HeldPlaced
  <1>14. BytesIn(g) \subseteq BytesIn(h) \cup (t .. next - 1)
    <2>1. BytesOf(new) = start .. next - 1
      BY <1>2, <1>3 DEF BytesOf
    <2>2. start .. next - 1 \subseteq t .. next - 1
      BY <1>9
    <2> QED
      BY <1>4, <2>1, <2>2 DEF BytesIn
  <1>15. Kept(c, how, g, ms)
    <2>1. Top(b) <= next /\ next <= DataOf(b, Len(b.pages)) + RoomOf(b, Len(b.pages))
      BY <1>1, <1>2, <1>9
    <2>2. Bumped(b, c, next)
      BY <1>2
    <2>3. BytesIn(g) \subseteq BytesIn(h) \cup (Top(b) .. next - 1)
      BY <1>1, <1>14
    <2> QED
      BY <1>13, <2>1, <2>2, <2>3, BumpedKeeps
  <1> QED
    BY <1>3, <1>4, <1>15

\* The newest allocation grows to the end of the page or before.
LEMMA GrowKeeps ==
    ASSUME NEW b \in BumpRecords, NEW c \in BumpRecords, NEW how, NEW h, NEW ms,
           Kept(b, how, h, ms), how # "none", NEW a \in h, NEW bytes \in Nat, a.size < bytes,
           a.start + a.size = Top(b),
           a.start + bytes <= DataOf(b, Len(b.pages)) + RoomOf(b, Len(b.pages)),
           Bumped(b, c, a.start + bytes)
    PROVE  Kept(c, how, (h \ {a}) \cup {[a EXCEPT !.size = bytes]}, ms)
  <1>1. PICK d \in Nat, r \in Nat, o \in Nat, t \in Nat :
          /\ d = DataOf(b, Len(b.pages)) /\ r = RoomOf(b, Len(b.pages)) /\ o = b.occupied
          /\ t = Top(b) /\ t = d + o
    BY TopIs
  <1>8. /\ h \subseteq [start : Nat, size : Nat \ {0}, alignment : RequestAlignments]
        /\ \A x \in h : x.start % x.alignment = 0 /\ Within(b, x) /\ x.start + x.size <= t
        /\ \A x, e \in h : x # e => x.start + x.size <= e.start \/ e.start + e.size <= x.start
    BY <1>1 DEF Kept, HeldPlaced
  <1>2. PICK start \in Nat, old \in Nat \ {0} : start = a.start /\ old = a.size
    BY <1>8
  <1>3. PICK next \in Nat : next = start + bytes
    OBVIOUS
  <1>4. PICK new : new = [a EXCEPT !.size = bytes]
    OBVIOUS
  <1>5. PICK g : g = (h \ {a}) \cup {new}
    OBVIOUS
  <1>6. \A k : DataOf(c, k) = DataOf(b, k) /\ RoomOf(c, k) = RoomOf(b, k)
    BY SameBuffers DEF Bumped
  <1>7. c.pages = b.pages
    BY DEF Bumped
  <1>9. start + old = t /\ t < next /\ old < bytes /\ next <= d + r
    BY <1>1, <1>2, <1>3, SMTT(30)
  <1>10. Top(c) = next
    <2>1. c.occupied = next - d
      BY <1>1, <1>2, <1>3 DEF Bumped
    <2>2. Top(c) = d + (next - d)
      BY <1>1, <1>6, <1>7, <2>1 DEF Top
    <2> QED
      BY <1>1, <2>2
  <1>11. /\ new \in [start : Nat, size : Nat \ {0}, alignment : RequestAlignments]
         /\ new.start = start /\ new.size = bytes /\ new.start % new.alignment = 0
    <2>1. a \in [start : Nat, size : Nat \ {0}, alignment : RequestAlignments] /\ bytes # 0
      BY <1>8, <1>9
    <2>2. new.start = a.start /\ new.alignment = a.alignment /\ new.size = bytes
      BY <1>4, <2>1
    <2>3. new \in [start : Nat, size : Nat \ {0}, alignment : RequestAlignments]
      BY <1>4, <2>1
    <2> QED
      BY <1>2, <1>8, <2>2, <2>3
  <1>12. ASSUME NEW x \in h, x # a
         PROVE  x.start + x.size <= start /\ x.start + x.size <= next /\ Within(c, x)
    <2>1. PICK s \in Nat, z \in Nat \ {0} : s = x.start /\ z = x.size
      BY <1>8, <1>12
    <2>2. s + z <= t /\ (s + z <= start \/ t <= s)
      BY <1>2, <1>8, <1>9, <1>12, <2>1
    <2>3. s + z <= start /\ s + z <= next
      BY <1>9, <2>2
    <2>4. Within(c, x)
      BY <1>6, <1>7, <1>8, <1>12 DEF Within
    <2> QED
      BY <2>1, <2>3, <2>4
  <1>13. Within(c, new)
    <2>1. PICK k \in 0 .. Len(b.pages) : DataOf(b, k) <= start /\ start + old <= DataOf(b, k) + RoomOf(b, k)
      BY <1>2, <1>8 DEF Within
    <2>2. k = Len(b.pages)
      <3> SUFFICES ASSUME k < Len(b.pages) PROVE FALSE
        BY <2>1, TopIs
      <3>1. BumpTyped(b, how) /\ BuffersPlaced(b, how)
        BY DEF Kept
      <3>2. Len(b.pages) \in 0 .. Len(b.pages)
        BY TopIs
      <3>3. DataOf(b, k) + RoomOf(b, k) < DataOf(b, Len(b.pages))
        BY <2>1, <3>1, <3>2, Ordered
      <3>4. PICK p \in Nat, q \in Nat : p = DataOf(b, k) /\ q = RoomOf(b, k)
        BY <2>1, PageIs
      <3>5. p + q < d /\ start + old <= p + q
        BY <1>1, <2>1, <3>3, <3>4
      <3> QED
        BY <1>1, <1>9, <3>5
    <2>3. d <= start
      BY <1>1, <2>1, <2>2
    <2>4. new.start + new.size = next
      BY <1>3, <1>11
    <2>5. Len(c.pages) \in 0 .. Len(c.pages)
      BY TopIs
    <2>6. DataOf(c, Len(c.pages)) = d /\ RoomOf(c, Len(c.pages)) = r
      BY <1>1, <1>6, <1>7
    <2> QED
      BY <1>9, <1>11, <2>3, <2>4, <2>5, <2>6 DEF Within
  <1>14. new.start + new.size = next
    BY <1>3, <1>11
  <1>15. HeldPlaced(c, g)
    <2>1. g \subseteq [start : Nat, size : Nat \ {0}, alignment : RequestAlignments]
      BY <1>5, <1>8, <1>11
    <2>2. \A x \in g : x.start % x.alignment = 0 /\ Within(c, x) /\ x.start + x.size <= Top(c)
      BY <1>5, <1>8, <1>10, <1>11, <1>12, <1>13, <1>14
    <2>3. \A x, e \in g : x # e => x.start + x.size <= e.start \/ e.start + e.size <= x.start
      BY <1>5, <1>8, <1>11, <1>12
    <2> QED
      BY <2>1, <2>2, <2>3 DEF HeldPlaced
  <1>16. BytesIn(g) \subseteq BytesIn(h) \cup (t .. next - 1)
    <2>1. BytesOf(new) = start .. next - 1
      BY <1>11, <1>14 DEF BytesOf
    <2>2. BytesOf(a) = start .. t - 1
      BY <1>2, <1>9, SMTT(30) DEF BytesOf
    <2>3. start .. next - 1 \subseteq (start .. t - 1) \cup (t .. next - 1)
      BY <1>9
    <2>4. ASSUME NEW x \in BytesIn(g) PROVE x \in BytesIn(h) \cup (t .. next - 1)
      <3>1. PICK e \in g : x \in BytesOf(e)
        BY <2>4 DEF BytesIn
      <3>2. CASE e \in h
        BY <3>1, <3>2 DEF BytesIn
      <3>3. CASE e = new
        BY <2>1, <2>2, <2>3, <3>1, <3>3 DEF BytesIn
      <3> QED
        BY <1>5, <3>1, <3>2, <3>3
    <2> QED
      BY <2>4
  <1>17. Kept(c, how, g, ms)
    <2>1. Top(b) <= next /\ next <= DataOf(b, Len(b.pages)) + RoomOf(b, Len(b.pages))
      BY <1>1, <1>9
    <2>2. Bumped(b, c, next)
      BY <1>2, <1>3
    <2>3. BytesIn(g) \subseteq BytesIn(h) \cup (Top(b) .. next - 1)
      BY <1>1, <1>16
    <2> QED
      BY <1>15, <2>1, <2>2, <2>3, BumpedKeeps
  <1> QED
    BY <1>4, <1>5, <1>17

\* Giving up an allocation, or the end of it.
LEMMA ShrinkKeeps ==
    ASSUME NEW b \in BumpRecords, NEW how, NEW h, NEW ms, Kept(b, how, h, ms), how # "none",
           NEW a \in h, NEW bytes \in Nat, bytes <= a.size
    PROVE  /\ Kept(b, how, h \ {a}, ms)
           /\ bytes # 0 => Kept(b, how, (h \ {a}) \cup {[a EXCEPT !.size = bytes]}, ms)
  <1>1. /\ h \subseteq [start : Nat, size : Nat \ {0}, alignment : RequestAlignments]
        /\ \A x \in h : x.start % x.alignment = 0 /\ Within(b, x) /\ x.start + x.size <= Top(b)
        /\ \A x, e \in h : x # e => x.start + x.size <= e.start \/ e.start + e.size <= x.start
    BY DEF Kept, HeldPlaced
  <1>2. Kept(b, how, h \ {a}, ms)
    <2>1. HeldPlaced(b, h \ {a})
      BY <1>1 DEF HeldPlaced
    <2>2. BytesIn(h \ {a}) \subseteq BytesIn(h)
      BY DEF BytesIn
    <2> QED
      BY <2>1, <2>2, LessKeeps
  <1>3. ASSUME bytes # 0 PROVE Kept(b, how, (h \ {a}) \cup {[a EXCEPT !.size = bytes]}, ms)
    <2>1. PICK new : new = [a EXCEPT !.size = bytes]
      OBVIOUS
    <2>2. PICK g : g = (h \ {a}) \cup {new}
      OBVIOUS
    <2>3. PICK start \in Nat, old \in Nat, t \in Nat : start = a.start /\ old = a.size /\ t = Top(b)
      BY <1>1, TopIs
    <2>4. /\ new \in [start : Nat, size : Nat \ {0}, alignment : RequestAlignments]
          /\ new.start = start /\ new.size = bytes /\ new.alignment = a.alignment
      <3>1. a \in [start : Nat, size : Nat \ {0}, alignment : RequestAlignments]
        BY <1>1
      <3> QED
        BY <1>3, <2>1, <2>3, <3>1
    <2>5. start + bytes <= start + old
      BY <2>3
    <2>6. start + old <= t
      BY <1>1, <2>3
    <2>7. Within(b, new)
      <3>1. PICK k \in 0 .. Len(b.pages) : DataOf(b, k) <= start /\ start + old <= DataOf(b, k) + RoomOf(b, k)
        BY <1>1, <2>3 DEF Within
      <3>2. PICK p \in Nat, q \in Nat : p = DataOf(b, k) /\ q = RoomOf(b, k)
        BY <3>1, PageIs
      <3>3. p <= start /\ start + bytes <= p + q
        BY <2>5, <3>1, <3>2
      <3> QED
        BY <2>4, <3>1, <3>2, <3>3 DEF Within
    <2>8. ASSUME NEW x \in h, x # a
          PROVE  x.start + x.size <= start \/ start + bytes <= x.start
      <3>1. PICK s \in Nat, z \in Nat : s = x.start /\ z = x.size
        BY <1>1, <2>8
      <3>2. s + z <= start \/ start + old <= s
        BY <1>1, <2>3, <2>8, <3>1
      <3>3. s + z <= start \/ start + bytes <= s
        BY <2>5, <3>2
      <3> QED
        BY <3>1, <3>3
    <2>9. HeldPlaced(b, g)
      <3>1. g \subseteq [start : Nat, size : Nat \ {0}, alignment : RequestAlignments]
        BY <1>1, <2>2, <2>4
      <3>2. new.start % new.alignment = 0
        BY <1>1, <2>3, <2>4
      <3>3. start + bytes <= t
        BY <2>5, <2>6
      <3>4. new.start + new.size <= Top(b)
        BY <2>3, <2>4, <3>3
      <3>5. \A x \in g : x.start % x.alignment = 0 /\ Within(b, x) /\ x.start + x.size <= Top(b)
        BY <1>1, <2>2, <2>7, <3>2, <3>4
      <3>6. \A x, e \in g : x # e => x.start + x.size <= e.start \/ e.start + e.size <= x.start
        BY <1>1, <2>2, <2>4, <2>8
      <3> QED
        BY <3>1, <3>5, <3>6 DEF HeldPlaced
    <2>10. BytesIn(g) \subseteq BytesIn(h)
      <3>1. BytesOf(new) \subseteq BytesOf(a)
        BY <2>3, <2>4, <2>5 DEF BytesOf
      <3> QED
        BY <2>2, <3>1 DEF BytesIn
    <2> QED
      BY <2>1, <2>2, <2>9, <2>10, LessKeeps
  <1> QED
    BY <1>2, <1>3

\* A new overflow page lies above all the buffers there are.
LEMMA PageKeeps ==
    ASSUME NEW b \in BumpRecords, NEW h, NEW ms, Kept(b, "backed", h, ms), Len(b.pages) < MAX_PAGES,
           NEW base \in Nat, NEW room \in Nat,
           (Len(b.pages) + 2) * STRIDE <= base,
           base + OVERFLOW_PAGE_HEADER_SIZE + room < (Len(b.pages) + 3) * STRIDE,
           NEW c \in BumpRecords, c.original = b.original, c.total = b.total,
           c.high_water_mark = b.high_water_mark, c.occupied = 0,
           c.pages = <<[base |-> base, size |-> room]>> \o b.pages
    PROVE  /\ Kept(c, "backed", h, ms)
           /\ DataOf(c, Len(c.pages)) = base + OVERFLOW_PAGE_HEADER_SIZE /\ RoomOf(c, Len(c.pages)) = room
           /\ Len(c.pages) = Len(b.pages) + 1
  <1>1. PICK n \in Nat : n = Len(b.pages)
    BY TopIs
  <1>2. PICK page : page = [base |-> base, size |-> room]
    OBVIOUS
  <1>3. page \in [base : Nat, size : Nat] /\ page.base = base /\ page.size = room
    BY <1>2
  <1>4. b.pages \in Seq([base : Nat, size : Nat])
    BY DEF BumpRecords
  <1>5. Len(c.pages) = n + 1 /\ c.pages[1] = page /\ \A i \in 2 .. n + 1 : c.pages[i] = b.pages[i - 1]
    <2>1. <<page>> \in Seq([base : Nat, size : Nat]) /\ Len(<<page>>) = 1 /\ <<page>>[1] = page
      BY <1>3
    <2>2. Len(<<page>> \o b.pages) = 1 + n
      BY <1>1, <1>4, <2>1, ConcatProperties
    <2>3. \A i \in 1 .. 1 + n : (<<page>> \o b.pages)[i] = IF i <= 1 THEN <<page>>[i] ELSE b.pages[i - 1]
      BY <1>1, <1>4, <2>1, ConcatProperties
    <2>4. c.pages = <<page>> \o b.pages
      BY <1>2
    <2>5. 1 \in 1 .. 1 + n /\ \A i \in 2 .. n + 1 : i \in 1 .. 1 + n /\ ~(i <= 1)
      OBVIOUS
    <2> QED
      BY <2>1, <2>2, <2>3, <2>4, <2>5
  <1>6. PICK d \in Nat : d = base + OVERFLOW_PAGE_HEADER_SIZE
    BY BumpAssumption
  <1>7. DataOf(c, n + 1) = d /\ RoomOf(c, n + 1) = room
    <2>1. n + 1 # 0 /\ n + 1 + 1 - (n + 1) = 1
      OBVIOUS
    <2> QED
      BY <1>3, <1>5, <1>6, <2>1 DEF DataOf, RoomOf
  <1>8. ASSUME NEW k \in 0 .. n PROVE DataOf(c, k) = DataOf(b, k) /\ RoomOf(c, k) = RoomOf(b, k)
    <2>1. CASE k = 0
      BY <2>1 DEF DataOf, RoomOf
    <2>2. CASE k # 0
      <3>1. PICK i \in 2 .. n + 1 : i = n + 1 + 1 - k
        BY <1>8, <2>2
      <3>2. i - 1 = n + 1 - k
        BY <1>8, <3>1
      <3>3. c.pages[i] = b.pages[n + 1 - k]
        BY <1>5, <3>1, <3>2
      <3>4. Len(c.pages) + 1 - k = i /\ Len(b.pages) + 1 - k = n + 1 - k
        BY <1>1, <1>5, <3>1
      <3> QED
        BY <2>2, <3>3, <3>4 DEF DataOf, RoomOf
    <2> QED
      BY <2>1, <2>2
  <1>9. PICK u \in Nat, v \in Nat : u = (n + 2) * STRIDE /\ v = (n + 3) * STRIDE
    BY StrideAssumption
  <1>10. u <= d /\ d + room < v
    BY <1>1, <1>6, <1>9, BumpAssumption
  <1>11. BuffersPlaced(c, "backed")
    <2>1. ASSUME NEW k \in 0 .. n + 1
          PROVE  (k + 1) * STRIDE <= DataOf(c, k) /\ DataOf(c, k) + RoomOf(c, k) < (k + 2) * STRIDE
      <3>1. CASE k = n + 1
        <4>1. k + 1 = n + 2 /\ k + 2 = n + 3
          BY <3>1
        <4> QED
          BY <1>7, <1>9, <1>10, <3>1, <4>1
      <3>2. CASE k \in 0 .. n
        BY <1>1, <1>8, <3>2 DEF Kept, BuffersPlaced
      <3> QED
        BY <2>1, <3>1, <3>2
    <2> QED
      BY <1>5, <2>1 DEF BuffersPlaced
  <1>12. PICK e \in Nat, r \in Nat, o \in Nat, t \in Nat :
           /\ e = DataOf(b, n) /\ r = RoomOf(b, n) /\ o = b.occupied
           /\ t = Top(b) /\ t = e + o
    BY <1>1, TopIs
  <1>13. t <= d
    <2>1. o <= r
      BY <1>1, <1>12 DEF Kept, BumpTyped
    <2>2. e + r < u
      <3>1. n \in 0 .. Len(b.pages)
        BY <1>1
      <3>2. e + r < (n + 2) * STRIDE
        BY <1>12, <3>1 DEF Kept, BuffersPlaced
      <3> QED
        BY <1>9, <3>2
    <2>3. t = e + o /\ u <= d
      BY <1>10, <1>12
    <2> QED
      BY <2>1, <2>2, <2>3
  <1>14. Top(c) = d
    BY <1>5, <1>7 DEF Top
  <1>15. Extended(b, c)
    <2>1. Len(b.pages) <= Len(c.pages)
      BY <1>1, <1>5
    <2> QED
      BY <1>1, <1>8, <2>1 DEF Extended
  <1>16. BumpTyped(c, "backed")
    <2>1. BumpTyped(b, "backed")
      BY DEF Kept
    <2>2. Len(c.pages) <= MAX_PAGES
      BY <1>1, <1>5, BumpAssumption
    <2>3. c.occupied <= RoomOf(c, Len(c.pages))
      BY <1>5, <1>7
    <2> QED
      BY <2>1, <2>2, <2>3 DEF BumpTyped, BumpRecords
  <1>17. HeldPlaced(c, h)
    <2>1. HeldPlaced(b, h)
      BY DEF Kept
    <2>2. ASSUME NEW a \in h PROVE Within(c, a) /\ a.start + a.size <= Top(c)
      <3>1. PICK s \in Nat, z \in Nat : s = a.start /\ z = a.size
        BY <2>1, <2>2 DEF HeldPlaced
      <3>2. s + z <= t
        BY <1>12, <2>1, <2>2, <3>1 DEF HeldPlaced
      <3>3. s + z <= d
        BY <1>13, <3>2
      <3>4. PICK k \in 0 .. n : DataOf(b, k) <= a.start /\ a.start + a.size <= DataOf(b, k) + RoomOf(b, k)
        BY <1>1, <2>1, <2>2 DEF HeldPlaced, Within
      <3>5. k \in 0 .. Len(c.pages)
        BY <1>5, <3>4
      <3>6. Within(c, a)
        BY <1>8, <3>4, <3>5 DEF Within
      <3> QED
        BY <1>14, <3>1, <3>3, <3>6
    <2> QED
      BY <2>1, <2>2 DEF HeldPlaced
  <1>18. MarksSound(c, "backed", h, ms)
    <2>1. MarksSound(b, "backed", h, ms) /\ IsFiniteSet(BytesIn(h))
      BY BytesFinite DEF Kept
    <2>2. Top(b) <= Top(c)
      BY <1>12, <1>13, <1>14
    <2>3. b.high_water_mark <= c.high_water_mark
      BY TopIs, SMTT(30)
    <2> QED
      BY <1>15, <2>1, <2>2, <2>3, MarksKept
  <1>19. Kept(c, "backed", h, ms)
    BY <1>11, <1>16, <1>17, <1>18 DEF Kept
  <1> QED
    BY <1>1, <1>5, <1>6, <1>7, <1>19

\* A mark of now goes behind the ones there are.
LEMMA MarkKeeps ==
    ASSUME NEW b \in BumpRecords, NEW how \in {"buffer", "backed"}, NEW h, NEW ms, Kept(b, how, h, ms)
    PROVE  Kept(b, how, h, Append(ms, [pages |-> Len(b.pages), occupied |-> b.occupied, total |-> b.total]))
  <1>1. PICK m : m = [pages |-> Len(b.pages), occupied |-> b.occupied, total |-> b.total]
    OBVIOUS
  <1>2. PICK ns : ns = Append(ms, m)
    OBVIOUS
  <1>3. /\ m \in [pages : Nat, occupied : Nat, total : Nat]
        /\ m.pages = Len(b.pages) /\ m.occupied = b.occupied /\ m.total = b.total
    BY <1>1, TopIs
  <1>4. MarksSound(b, how, h, ms)
    BY DEF Kept
  <1>5. PICK n \in Nat : n = Len(ms)
    BY <1>4, SMTT(30) DEF MarksSound
  <1>6. /\ ns \in Seq([pages : Nat, occupied : Nat, total : Nat])
        /\ Len(ns) = n + 1 /\ ns[n + 1] = m /\ \A k \in 1 .. n : ns[k] = ms[k]
    BY <1>2, <1>3, <1>4, <1>5, AppendProperties DEF MarksSound
  <1>7. TopOf(b, m) = Top(b)
    BY <1>3 DEF Top, TopOf
  <1>8. MarkSound(b, h, m)
    <2>1. m.pages <= Len(b.pages) /\ TopOf(b, m) <= Top(b)
      BY <1>3, <1>7, TopIs
    <2>2. m.occupied <= RoomOf(b, m.pages) /\ m.total <= b.high_water_mark
      BY <1>3 DEF Kept, BumpTyped
    <2>3. IsFiniteSet(BytesIn(h))
      BY BytesFinite DEF Kept
    <2>4. Below(BytesIn(h), TopOf(b, m)) \in SUBSET BytesIn(h)
      BY DEF Below
    <2>5. PICK x \in Nat, y \in Nat, z \in Nat :
            x = Cardinality(Below(BytesIn(h), TopOf(b, m))) /\ y = Cardinality(BytesIn(h)) /\ z = b.total /\ x <= y
      BY <2>3, <2>4, Smaller, TopIs
    <2>6. y <= z
      BY <2>5 DEF Kept
    <2>7. x <= z
      BY <2>5, <2>6
    <2>8. Cardinality(Below(BytesIn(h), TopOf(b, m))) <= m.total
      BY <1>3, <2>5, <2>7
    <2> QED
      BY <2>1, <2>2, <2>8 DEF MarkSound
  <1>9. ASSUME NEW k \in 1 .. n
        PROVE  ms[k].pages <= m.pages /\ TopOf(b, ms[k]) <= TopOf(b, m) /\ MarkSound(b, h, ms[k])
    <2>1. MarkSound(b, h, ms[k])
      BY <1>4, <1>5, <1>9 DEF MarksSound
    <2> QED
      BY <1>3, <1>7, <2>1 DEF MarkSound
  <1>10. MarksSound(b, how, h, ns)
    <2>1. ASSUME NEW k \in 1 .. n + 1 PROVE MarkSound(b, h, ns[k])
      <3>1. CASE k = n + 1
        BY <1>6, <1>8, <3>1
      <3>2. CASE k \in 1 .. n
        BY <1>6, <1>9, <3>2
      <3> QED
        BY <2>1, <3>1, <3>2
    <2>2. ASSUME NEW j \in 1 .. n + 1, NEW k \in 1 .. n + 1, j < k
          PROVE  ns[j].pages <= ns[k].pages /\ TopOf(b, ns[j]) <= TopOf(b, ns[k])
      <3>1. j \in 1 .. n
        BY <2>2
      <3>2. CASE k = n + 1
        BY <1>6, <1>9, <3>1, <3>2
      <3>3. CASE k \in 1 .. n
        BY <1>4, <1>5, <1>6, <2>2, <3>1, <3>3 DEF MarksSound
      <3> QED
        BY <2>2, <3>2, <3>3
    <2>3. how \notin {"none", "arena"}
      OBVIOUS
    <2> QED
      BY <1>6, <2>1, <2>2, <2>3 DEF MarksSound
  <1>11. Kept(b, how, h, ns)
    BY <1>10 DEF Kept
  <1> QED
    BY <1>1, <1>2, <1>11

\* Nothing allocated and nothing marked: reset, destroy and the constructors.
LEMMA EmptyKeeps ==
    ASSUME NEW c \in BumpRecords, NEW how \in Hows, c.pages = <<>>, c.occupied = 0, c.total = 0,
           (c.original = 0) = (how = "none"),
           how \in {"buffer", "backed"} => STRIDE <= c.original /\ c.original + ORIGINAL_SIZE < 2 * STRIDE
    PROVE  Kept(c, how, {}, <<>>)
  <1>1. Len(c.pages) = 0
    OBVIOUS
  <1>2. DataOf(c, 0) = c.original /\ RoomOf(c, 0) = ORIGINAL_SIZE
    BY DEF DataOf, RoomOf
  <1>3. BumpTyped(c, how)
    <2>1. 0 <= MAX_PAGES /\ 0 <= ORIGINAL_SIZE /\ 0 <= c.high_water_mark
      BY BumpAssumption, TopIs
    <2> QED
      BY <1>1, <1>2, <2>1 DEF BumpTyped, BumpRecords
  <1>4. BuffersPlaced(c, how)
    <2>1. ASSUME NEW k \in 0 .. 0 PROVE k = 0
      OBVIOUS
    <2>2. (0 + 1) * STRIDE = STRIDE /\ (0 + 2) * STRIDE = 2 * STRIDE
      BY StrideAssumption
    <2> QED
      BY <1>1, <1>2, <2>1, <2>2 DEF BuffersPlaced
  <1>5. HeldPlaced(c, {})
    BY DEF HeldPlaced
  <1>6. BytesIn({}) = {}
    BY DEF BytesIn
  <1>7. MarksSound(c, how, {}, <<>>)
    BY DEF MarksSound
  <1>8. Cardinality(BytesIn({})) <= c.total
    <2>1. Cardinality(BytesIn({})) = 0
      BY <1>6, FS_EmptySet
    <2> QED
      BY <2>1
  <1> QED
    BY <1>3, <1>4, <1>5, <1>7, <1>8 DEF Kept

\* Back to the mark k: what is older than it lies below its top.
LEMMA RewindKeeps ==
    ASSUME NEW b \in BumpRecords, NEW how \in {"buffer", "backed"}, NEW h, NEW ms, Kept(b, how, h, ms),
           NEW k \in 1 .. Len(ms), NEW c \in BumpRecords,
           c.original = b.original, c.high_water_mark = b.high_water_mark,
           c.pages = SubSeq(b.pages, Len(b.pages) - ms[k].pages + 1, Len(b.pages)),
           c.occupied = ms[k].occupied, c.total = ms[k].total,
           NEW g \in SUBSET h, \A a \in g : Within(c, a) /\ a.start + a.size <= TopOf(b, ms[k])
    PROVE  Kept(c, how, g, SubSeq(ms, 1, k - 1))
  <1>1. PICK m : m = ms[k]
    OBVIOUS
  <1>2. MarksSound(b, how, h, ms)
    BY DEF Kept
  <1>3. /\ m \in [pages : Nat, occupied : Nat, total : Nat] /\ m.pages \in 0 .. Len(b.pages)
        /\ TopOf(b, m) \in Nat /\ DataOf(b, m.pages) \in Nat /\ RoomOf(b, m.pages) \in Nat
        /\ MarkSound(b, h, m)
    BY <1>1, <1>2, MarkIs
  <1>4. PICK p \in Nat, o \in Nat, t \in Nat : p = m.pages /\ o = m.occupied /\ t = TopOf(b, m)
    BY <1>3
  <1>5. p \in 0 .. Len(b.pages) /\ c.pages = SubSeq(b.pages, Len(b.pages) - p + 1, Len(b.pages))
    BY <1>1, <1>3, <1>4
  <1>6. /\ Len(c.pages) = p
        /\ \A i \in 0 .. p : DataOf(c, i) = DataOf(b, i) /\ RoomOf(c, i) = RoomOf(b, i)
    BY <1>5, FreedIs
  <1>7. p \in 0 .. p /\ p <= Len(b.pages) /\ \A i \in 0 .. p : i \in 0 .. Len(b.pages)
    <2>1. PICK n \in Nat : n = Len(b.pages)
      BY TopIs
    <2>2. p \in 0 .. n
      BY <1>5, <2>1
    <2>3. p \in 0 .. p /\ p <= n /\ \A i \in 0 .. p : i \in 0 .. n
      BY <2>2
    <2> QED
      BY <2>1, <2>3
  <1>8. Top(c) = t
    BY <1>1, <1>4, <1>6, <1>7 DEF Top, TopOf
  <1>9. BumpTyped(b, how) /\ BuffersPlaced(b, how) /\ HeldPlaced(b, h)
    BY DEF Kept
  <1>10. BumpTyped(c, how)
    <2>1. Len(c.pages) <= MAX_PAGES
      <3>1. PICK n \in Nat : n = Len(b.pages) /\ n <= MAX_PAGES
        BY <1>9, TopIs DEF BumpTyped
      <3>2. p <= MAX_PAGES
        BY <1>7, <3>1, BumpAssumption
      <3> QED
        BY <1>6, <3>2
    <2>2. c.occupied <= RoomOf(c, Len(c.pages)) /\ c.total <= c.high_water_mark
      BY <1>1, <1>3, <1>4, <1>6, <1>7 DEF MarkSound
    <2>3. how \notin {"none", "arena"} /\ (c.original = 0) = (how = "none")
      BY <1>9 DEF BumpTyped
    <2> QED
      BY <1>9, <2>1, <2>2, <2>3 DEF BumpTyped, BumpRecords
  <1>11. BuffersPlaced(c, how)
    BY <1>6, <1>7, <1>9 DEF BuffersPlaced
  <1>12. HeldPlaced(c, g)
    <2>1. \A a \in g : a.start + a.size <= Top(c) /\ Within(c, a)
      BY <1>1, <1>4, <1>8
    <2> QED
      BY <1>9, <2>1 DEF HeldPlaced
  <1>13. IsFiniteSet(BytesIn(h))
    BY <1>9, BytesFinite
  <1>14. Cardinality(BytesIn(g)) <= c.total
    <2>1. BytesIn(g) \subseteq 0 .. t - 1
      BY <1>8, <1>12, BytesFinite
    <2>2. BytesIn(g) \subseteq BytesIn(h)
      BY DEF BytesIn
    <2>3. \A x \in BytesIn(g) : x < t
      BY <2>1
    <2>4. BytesIn(g) \in SUBSET Below(BytesIn(h), t)
      BY <2>2, <2>3 DEF Below
    <2>5. Below(BytesIn(h), t) \in SUBSET BytesIn(h)
      BY DEF Below
    <2>6. IsFiniteSet(Below(BytesIn(h), t))
      BY <1>13, <2>5, Smaller
    <2>7. PICK x \in Nat, y \in Nat, z \in Nat :
            x = Cardinality(BytesIn(g)) /\ y = Cardinality(Below(BytesIn(h), t)) /\ z = m.total /\ x <= y
      BY <1>3, <2>4, <2>6, Smaller
    <2>8. y <= z
      BY <1>3, <1>4, <2>7 DEF MarkSound
    <2>9. x <= z
      BY <2>7, <2>8
    <2> QED
      BY <1>1, <2>7, <2>9
  <1>15. PICK ns : ns = SubSeq(ms, 1, k - 1)
    OBVIOUS
  <1>16. PICK n \in Nat : n = Len(ms)
    BY <1>2 DEF MarksSound
  <1>17. PICK l \in Nat : l = k - 1 /\ l < n
    BY <1>16
  <1>18. /\ ns \in Seq([pages : Nat, occupied : Nat, total : Nat])
         /\ Len(ns) = l /\ \A i \in 1 .. l : ns[i] = ms[i]
    <2>1. \A i \in 1 .. l : ms[i] \in [pages : Nat, occupied : Nat, total : Nat]
      <3>1. \A i \in 1 .. l : i \in 1 .. n
        BY <1>17
      <3> QED
        BY <1>2, <1>16, <3>1, ElementOfSeq DEF MarksSound
    <2>2. /\ SubSeq(ms, 1, l) \in Seq([pages : Nat, occupied : Nat, total : Nat])
          /\ Len(SubSeq(ms, 1, l)) = IF 1 <= l THEN l - 1 + 1 ELSE 0
          /\ \A i \in 1 .. l - 1 + 1 : SubSeq(ms, 1, l)[i] = ms[1 + i - 1]
      BY <2>1, SubSeqProperties
    <2>3. (IF 1 <= l THEN l - 1 + 1 ELSE 0) = l /\ l - 1 + 1 = l /\ \A i \in 1 .. l : 1 + i - 1 = i
      OBVIOUS
    <2> QED
      BY <1>15, <1>17, <2>2, <2>3
  <1>19. ASSUME NEW i \in 1 .. l
         PROVE  MarkSound(c, g, ms[i]) /\ TopOf(c, ms[i]) = TopOf(b, ms[i])
    <2>1. i \in 1 .. Len(ms) /\ i < k
      BY <1>16, <1>17, <1>19
    <2>2. PICK q : q = ms[i]
      OBVIOUS
    <2>3. /\ q \in [pages : Nat, occupied : Nat, total : Nat] /\ q.pages \in 0 .. Len(b.pages)
          /\ TopOf(b, q) \in Nat /\ MarkSound(b, h, q)
      BY <1>2, <2>1, <2>2, MarkIs
    <2>4. q.pages <= m.pages /\ TopOf(b, q) <= TopOf(b, m)
      BY <1>1, <1>2, <2>1, <2>2 DEF MarksSound
    <2>5. q.pages \in 0 .. p
      BY <1>4, <2>3, <2>4
    <2>6. DataOf(c, q.pages) = DataOf(b, q.pages) /\ RoomOf(c, q.pages) = RoomOf(b, q.pages)
      BY <1>6, <2>5
    <2>7. TopOf(c, q) = TopOf(b, q)
      BY <2>6 DEF TopOf
    <2>8. Below(BytesIn(g), TopOf(b, q)) \in SUBSET Below(BytesIn(h), TopOf(b, q))
      BY DEF Below, BytesIn
    <2>9. Below(BytesIn(h), TopOf(b, q)) \in SUBSET BytesIn(h)
      BY DEF Below
    <2>10. IsFiniteSet(Below(BytesIn(h), TopOf(b, q)))
      BY <1>13, <2>9, Smaller
    <2>11. PICK x \in Nat, y \in Nat, z \in Nat :
             /\ x = Cardinality(Below(BytesIn(g), TopOf(b, q))) /\ y = Cardinality(Below(BytesIn(h), TopOf(b, q)))
             /\ z = q.total /\ x <= y
      BY <2>3, <2>8, <2>10, Smaller
    <2>12. y <= z
      BY <2>3, <2>11 DEF MarkSound
    <2>13. x <= z
      BY <2>11, <2>12
    <2>14. Cardinality(Below(BytesIn(g), TopOf(c, q))) <= q.total
      BY <2>7, <2>11, <2>13
    <2>15. q.pages <= Len(c.pages) /\ TopOf(c, q) <= Top(c)
      BY <1>4, <1>6, <1>8, <2>4, <2>5, <2>7
    <2>16. q.occupied <= RoomOf(c, q.pages) /\ q.total <= c.high_water_mark
      BY <2>3, <2>6 DEF MarkSound
    <2> QED
      BY <2>2, <2>7, <2>14, <2>15, <2>16 DEF MarkSound
  <1>20. MarksSound(c, how, g, ns)
    <2>1. ASSUME NEW i \in 1 .. l, NEW j \in 1 .. l, i < j
          PROVE  ms[i].pages <= ms[j].pages /\ TopOf(c, ms[i]) <= TopOf(c, ms[j])
      <3>1. i \in 1 .. Len(ms) /\ j \in 1 .. Len(ms)
        BY <1>16, <1>17, <2>1
      <3> QED
        BY <1>2, <1>19, <2>1, <3>1 DEF MarksSound
    <2>2. how \notin {"none", "arena"}
      OBVIOUS
    <2> QED
      BY <1>18, <1>19, <2>1, <2>2 DEF MarksSound
  <1>21. Kept(c, how, g, ns)
    BY <1>10, <1>11, <1>12, <1>14, <1>20 DEF Kept
  <1> QED
    BY <1>15, <1>21

-----------------------------------------------------------------------------
\* The steps.
LEMMA AdvanceIs ==
    ASSUME NEW b \in BumpRecords, NEW next \in Nat, Top(b) <= next
    PROVE  Advance(b, next) \in BumpRecords /\ Bumped(b, Advance(b, next), next)
  <1>1. PICK d \in Nat, o \in Nat, total \in Nat, peak \in Nat, t \in Nat :
          /\ d = DataOf(b, Len(b.pages)) /\ o = b.occupied /\ total = b.total /\ peak = b.high_water_mark
          /\ t = Top(b) /\ t = d + o
    BY TopIs
  <1>2. Current(b).data = d
    BY <1>1, CurrentIs
  <1>3. PICK o2 \in Nat, total2 \in Nat :
          o2 = next - d /\ total2 = total + next - (d + o) /\ total2 = total + (next - t)
    BY <1>1, SMTT(30)
  <1>4. PICK peak2 \in Nat : peak2 = larger(peak, total2)
    BY DEF larger
  <1>5. PICK c : c = [b EXCEPT !.occupied = o2, !.total = total2, !.high_water_mark = peak2]
    OBVIOUS
  <1>6. /\ c \in BumpRecords /\ c.original = b.original /\ c.pages = b.pages
        /\ c.occupied = o2 /\ c.total = total2 /\ c.high_water_mark = peak2
    BY <1>5 DEF BumpRecords
  <1>7. Advance(b, next) = c
    BY <1>1, <1>2, <1>3, <1>4, <1>5 DEF Advance, BumpRecords
  <1>8. Bumped(b, c, next)
    BY <1>1, <1>3, <1>4, <1>6 DEF Bumped
  <1> QED
    BY <1>6, <1>7, <1>8

(* allocate_from_current_page, when the request fits.                       *)
LEMMA GiveStep ==
    ASSUME NEW b \in BumpRecords, NEW how, NEW h, NEW ms, Kept(b, how, h, ms), how # "none",
           NEW bytes \in Nat \ {0}, NEW alignment \in RequestAlignments, FitsPage(b, bytes, alignment)
    PROVE  Kept(Advance(b, Aligned(b, alignment) + bytes), how,
                h \cup {[start |-> Aligned(b, alignment), size |-> bytes, alignment |-> alignment]}, ms)
  <1>1. PICK d \in Nat, r \in Nat, o \in Nat, t \in Nat :
          /\ d = DataOf(b, Len(b.pages)) /\ r = RoomOf(b, Len(b.pages)) /\ o = b.occupied
          /\ t = Top(b) /\ t = d + o
    BY TopIs
  <1>2. Current(b).data = d /\ Current(b).size = r
    BY <1>1, CurrentIs
  <1>3. alignment \in Nat \ {0}
    BY BumpAssumption
  <1>4. PICK start \in Nat : start = AlignUp(t, alignment) /\ start % alignment = 0 /\ t <= start
    BY <1>3, AlignUpIs
  <1>5. Aligned(b, alignment) = start
    BY <1>1, <1>2, <1>4 DEF Aligned
  <1>6. start + bytes <= d + r
    BY <1>2, <1>5 DEF FitsPage
  <1>7. PICK next \in Nat : next = start + bytes
    OBVIOUS
  <1>8. PICK c : c = Advance(b, next)
    OBVIOUS
  <1>9. t <= next
    BY <1>4, <1>7
  <1>10. c \in BumpRecords /\ Bumped(b, c, start + bytes)
    BY <1>1, <1>7, <1>8, <1>9, AdvanceIs
  <1>11. Top(b) <= start /\ start + bytes <= DataOf(b, Len(b.pages)) + RoomOf(b, Len(b.pages))
    BY <1>1, <1>4, <1>6
  <1>12. Kept(c, how, h \cup {[start |-> start, size |-> bytes, alignment |-> alignment]}, ms)
    BY <1>4, <1>10, <1>11, GiveKeeps
  <1> QED
    BY <1>5, <1>7, <1>8, <1>12

\* A new page is sound and takes the request.
LEMMA PageStep ==
    ASSUME NEW b \in BumpRecords, NEW h, NEW ms, Kept(b, "backed", h, ms), Len(b.pages) < MAX_PAGES,
           NEW bytes \in RequestSizes, NEW alignment \in RequestAlignments, NEW skew \in {0, 1}
    PROVE  /\ add_new_overflow_page(b, bytes, alignment, skew) \in BumpRecords
           /\ Kept(add_new_overflow_page(b, bytes, alignment, skew), "backed", h, ms)
           /\ FitsPage(add_new_overflow_page(b, bytes, alignment, skew), bytes, alignment)
  <1>1. PICK n \in Nat : n = Len(b.pages)
    BY TopIs
  <1>2. PICK room \in Nat : room = OverflowSize(bytes, alignment) /\ bytes + alignment <= room
    <2>1. PICK x \in Int : x = ORIGINAL_SIZE - OVERFLOW_PAGE_HEADER_SIZE
      BY BumpAssumption
    <2>2. PICK y \in Nat : y = larger(0, x)
      BY <2>1 DEF larger
    <2>3. PICK z \in Nat : z = bytes + alignment
      BY BumpAssumption
    <2>4. larger(y, z) \in Nat /\ z <= larger(y, z)
      BY <2>2, <2>3 DEF larger
    <2> QED
      BY <2>1, <2>2, <2>3, <2>4 DEF OverflowSize
  <1>3. PICK shift \in Nat : shift = skew * MAX_ALIGN /\ shift <= MAX_ALIGN
    <2>1. MAX_ALIGN \in Nat
      BY BumpAssumption
    <2>2. CASE skew = 0
      BY <2>1, <2>2
    <2>3. CASE skew = 1
      BY <2>1, <2>3
    <2> QED
      BY <2>2, <2>3
  <1>4. PICK u \in Nat, s \in Nat : u = (n + 2) * STRIDE /\ s = STRIDE /\ (n + 3) * STRIDE = u + s
    <2>1. STRIDE \in Nat
      BY StrideAssumption
    <2>2. (n + 3) * STRIDE = (n + 2) * STRIDE + STRIDE /\ (n + 2) * STRIDE \in Nat
      BY <2>1
    <2> QED
      BY <2>1, <2>2
  <1>5. PICK base \in Nat : base = u + shift
    OBVIOUS
  <1>6. BufferAt(n + 2, skew) = base
    BY <1>3, <1>4, <1>5 DEF BufferAt
  <1>7. PICK header \in Nat : header = OVERFLOW_PAGE_HEADER_SIZE
    BY BumpAssumption
  <1>8. shift + header + room < s
    <2>1. PICK max \in Nat : max = MAX_ALIGN
      BY BumpAssumption
    <2>2. max + header + room < s
      BY <1>2, <1>4, <1>7, <2>1, StrideAssumption
    <2> QED
      BY <1>3, <2>1, <2>2
  <1>9. base + header + room < u + s /\ u <= base
    BY <1>5, <1>8
  <1>10. PICK c : c = [b EXCEPT !.pages = <<[base |-> base, size |-> room]>> \o b.pages, !.occupied = 0]
    OBVIOUS
  <1>11. add_new_overflow_page(b, bytes, alignment, skew) = c
    BY <1>1, <1>2, <1>6, <1>10 DEF add_new_overflow_page, BumpRecords
  <1>12. /\ c \in BumpRecords /\ c.original = b.original /\ c.total = b.total
         /\ c.high_water_mark = b.high_water_mark /\ c.occupied = 0
         /\ c.pages = <<[base |-> base, size |-> room]>> \o b.pages
    <2>1. [base |-> base, size |-> room] \in [base : Nat, size : Nat]
      OBVIOUS
    <2>2. <<[base |-> base, size |-> room]>> \in Seq([base : Nat, size : Nat])
      BY <2>1
    <2>3. b.pages \in Seq([base : Nat, size : Nat])
      BY DEF BumpRecords
    <2>4. <<[base |-> base, size |-> room]>> \o b.pages \in Seq([base : Nat, size : Nat])
      BY <2>2, <2>3, ConcatProperties
    <2> QED
      BY <1>10, <2>4 DEF BumpRecords
  <1>13. /\ (Len(b.pages) + 2) * STRIDE <= base
         /\ base + OVERFLOW_PAGE_HEADER_SIZE + room < (Len(b.pages) + 3) * STRIDE
    BY <1>1, <1>4, <1>7, <1>9
  <1>14. /\ Kept(c, "backed", h, ms)
         /\ DataOf(c, Len(c.pages)) = base + header /\ RoomOf(c, Len(c.pages)) = room
    <2>1. /\ Kept(c, "backed", h, ms)
          /\ DataOf(c, Len(c.pages)) = base + OVERFLOW_PAGE_HEADER_SIZE /\ RoomOf(c, Len(c.pages)) = room
      BY <1>12, <1>13, PageKeeps
    <2> QED
      BY <1>7, <2>1
  <1>15. FitsPage(c, bytes, alignment)
    <2>1. PICK d \in Nat : d = base + header
      OBVIOUS
    <2>2. Current(c).data = d /\ Current(c).size = room /\ c.occupied = 0
      BY <1>12, <1>14, <2>1, CurrentIs
    <2>3. bytes \in Nat /\ alignment \in Nat \ {0}
      BY BumpAssumption
    <2>4. PICK start \in Nat : start = AlignUp(d, alignment) /\ start < d + alignment
      BY <2>3, AlignUpIs
    <2>5. Aligned(c, alignment) = start
      BY <2>2, <2>4 DEF Aligned
    <2>6. start + bytes <= d + room
      BY <1>2, <2>3, <2>4
    <2> QED
      BY <2>2, <2>5, <2>6 DEF FitsPage
  <1> QED
    BY <1>11, <1>12, <1>14, <1>15

(* What the invariant says of the variables.                                *)
LEMMA BumpIs ==
    ASSUME BumpInv
    PROVE  /\ bump \in BumpRecords /\ Kept(bump, backed, held, marks)
           /\ backed \in Hows /\ outcome \in Outcomes
  BY DEF BumpInv, Kept, BumpTyped, BumpRecords

(* ALLOCATE, of either kind of allocator.                                   *)
LEMMA BumpAllocateStep ==
    ASSUME BumpInv, NEW bytes \in RequestSizes, NEW alignment \in RequestAlignments,
           Allocate(bytes, alignment), UNCHANGED <<backed, marks>>
    PROVE  BumpInv'
  <1>0. backed' = backed /\ marks' = marks
    OBVIOUS
  <1>1. /\ bump \in BumpRecords /\ Kept(bump, backed, held, marks)
        /\ backed \in Hows /\ outcome \in Outcomes
    BY BumpIs
  <1>2. bytes \in Nat
    BY BumpAssumption
  <1>3. ASSUME bump' = bump, held' = held, outcome' \in Outcomes PROVE BumpInv'
    BY <1>0, <1>1, <1>3 DEF BumpInv
  <1>4. ASSUME NEW b \in BumpRecords, Kept(b, backed, held, marks), backed # "none", bytes > 0,
               FitsPage(b, bytes, alignment), Give(b, bytes, alignment)
        PROVE  BumpInv'
    <2>1. bytes \in Nat \ {0}
      BY <1>2, <1>4
    <2>2. Kept(bump', backed, held', marks)
      BY <1>4, <2>1, GiveStep DEF Give
    <2>3. outcome' \in Outcomes
      BY <1>4 DEF Give, Outcomes
    <2> QED
      BY <1>0, <2>2, <2>3 DEF BumpInv
  <1>5. CASE backed = "arena" /\ Arena_ALLOCATE(bytes, alignment)
    <2>1. CASE bytes = 0 /\ Refuse("nothing") /\ UNCHANGED bump
      BY <1>3, <2>1 DEF Refuse, Outcomes
    <2>2. CASE bytes > 0 /\ FitsPage(bump, bytes, alignment) /\ Give(bump, bytes, alignment)
      BY <1>1, <1>4, <1>5, <2>2
    <2>3. CASE bytes > 0 /\ ~FitsPage(bump, bytes, alignment) /\ Refuse("out_of_memory") /\ UNCHANGED bump
      BY <1>3, <2>3 DEF Refuse, Outcomes
    <2> QED
      BY <1>5, <2>1, <2>2, <2>3 DEF Arena_ALLOCATE
  <1>6. CASE backed # "arena" /\ ALLOCATE(bytes, alignment)
    <2>1. CASE backed = "none" /\ Refuse("uninitialized") /\ UNCHANGED bump
      BY <1>3, <2>1 DEF Refuse, Outcomes
    <2>2. CASE backed # "none" /\ bytes = 0 /\ Refuse("nothing") /\ UNCHANGED bump
      BY <1>3, <2>2 DEF Refuse, Outcomes
    <2>3. CASE backed # "none" /\ bytes > 0 /\ FitsPage(bump, bytes, alignment) /\ Give(bump, bytes, alignment)
      BY <1>1, <1>4, <2>3
    <2>4. CASE /\ backed \in {"buffer", "backed"} /\ bytes > 0
               /\ Refuse("out_of_memory") /\ UNCHANGED bump
      BY <1>3, <2>4 DEF Refuse, Outcomes
    <2>5. ASSUME bytes > 0, backed = "backed", Len(bump.pages) < MAX_PAGES, NEW skew \in {0, 1},
                 LET b == add_new_overflow_page(bump, bytes, alignment, skew) IN
                 IF FitsPage(b, bytes, alignment) THEN Give(b, bytes, alignment)
                 ELSE bump' = b /\ Refuse("page_too_small")
          PROVE  BumpInv'
      <3>1. PICK b : b = add_new_overflow_page(bump, bytes, alignment, skew)
        OBVIOUS
      <3>2. Kept(bump, "backed", held, marks)
        BY <1>1, <2>5
      <3>3. b \in BumpRecords /\ Kept(b, "backed", held, marks) /\ FitsPage(b, bytes, alignment)
        BY <1>1, <2>5, <3>1, <3>2, PageStep
      <3>4. Give(b, bytes, alignment)
        BY <2>5, <3>1, <3>3
      <3> QED
        BY <1>4, <2>5, <3>3, <3>4
    <2> QED
      BY <1>6, <2>1, <2>2, <2>3, <2>4, <2>5 DEF ALLOCATE
  <1> QED
    BY <1>5, <1>6 DEF Allocate

(* mem::realloc: shrunk, grown in place, or allocated anew.                 *)
LEMMA BumpReallocStep ==
    ASSUME BumpInv, NEW a \in held, NEW bytes \in RequestSizes, realloc(a, bytes)
    PROVE  BumpInv'
  <1>0. backed' = backed /\ marks' = marks
    BY DEF realloc
  <1>1. /\ bump \in BumpRecords /\ Kept(bump, backed, held, marks)
        /\ backed \in Hows /\ outcome \in Outcomes
    BY BumpIs
  <1>2. bytes \in Nat
    BY BumpAssumption
  <1>3. backed # "none"
    BY <1>1 DEF Kept
  <1>4. a \in [start : Nat, size : Nat \ {0}, alignment : RequestAlignments]
    BY <1>1 DEF Kept, HeldPlaced
  <1>5. CASE /\ bytes <= a.size
             /\ held' = IF bytes = 0 THEN held \ {a} ELSE (held \ {a}) \cup {[a EXCEPT !.size = bytes]}
             /\ outcome' = "shrunk"
             /\ UNCHANGED bump
    <2>1. Kept(bump, backed, held', marks)
      BY <1>1, <1>2, <1>3, <1>5, ShrinkKeeps
    <2> QED
      BY <1>0, <1>5, <2>1 DEF BumpInv, Outcomes
  <1>6. CASE /\ bytes > a.size /\ GrowsInPlace(a, bytes)
             /\ bump' = Advance(bump, a.start + bytes)
             /\ held' = (held \ {a}) \cup {[a EXCEPT !.size = bytes]}
             /\ outcome' = "grown"
    <2>1. PICK d \in Nat, r \in Nat, o \in Nat, t \in Nat :
            /\ d = DataOf(bump, Len(bump.pages)) /\ r = RoomOf(bump, Len(bump.pages)) /\ o = bump.occupied
            /\ t = Top(bump) /\ t = d + o
      BY <1>1, TopIs
    <2>2. Current(bump).data = d /\ Current(bump).size = r
      BY <1>1, <2>1, CurrentIs
    <2>3. a.start + a.size = t /\ a.start + bytes <= d + r
      <3>1. CASE backed = "arena"
        <4>1. bump.pages = <<>> /\ Len(bump.pages) = 0
          BY <1>1, <3>1 DEF Kept, BumpTyped
        <4>2. d = bump.original /\ r = ORIGINAL_SIZE
          BY <2>1, <4>1 DEF DataOf, RoomOf
        <4> QED
          BY <1>6, <2>1, <3>1, <4>2 DEF GrowsInPlace, Arena_InPlace
      <3>2. CASE backed # "arena"
        BY <1>6, <2>1, <2>2, <3>2 DEF GrowsInPlace, InPlace
      <3> QED
        BY <3>1, <3>2
    <2>4. PICK start \in Nat, old \in Nat : start = a.start /\ old = a.size
      BY <1>4
    <2>5. PICK next \in Nat : next = start + bytes
      BY <1>2
    <2>6. old < bytes /\ t <= next /\ next <= d + r
      BY <1>2, <1>6, <2>3, <2>4, <2>5
    <2>7. PICK c : c = Advance(bump, next)
      OBVIOUS
    <2>8. c \in BumpRecords /\ Bumped(bump, c, next)
      BY <1>1, <2>1, <2>6, <2>7, AdvanceIs
    <2>9. Kept(c, backed, (held \ {a}) \cup {[a EXCEPT !.size = bytes]}, marks)
      <3>1. a.size < bytes /\ a.start + a.size = Top(bump) /\ Bumped(bump, c, a.start + bytes)
            /\ a.start + bytes <= DataOf(bump, Len(bump.pages)) + RoomOf(bump, Len(bump.pages))
        BY <2>1, <2>3, <2>4, <2>5, <2>6, <2>8
      <3> QED
        BY <1>1, <1>2, <1>3, <2>8, <3>1, GrowKeeps
    <2> QED
      BY <1>0, <1>6, <2>4, <2>5, <2>7, <2>9 DEF BumpInv, Outcomes
  <1>7. CASE Allocate(bytes, a.alignment)
    <2>1. a.alignment \in RequestAlignments
      BY <1>4
    <2> QED
      BY <1>0, <1>7, <2>1, BumpAllocateStep
  <1> QED
    BY <1>5, <1>6, <1>7 DEF realloc

(* rewind: what is older than the mark is in the buffers that stay.         *)
LEMMA BumpRewindStep ==
    ASSUME BumpInv, NEW k \in DOMAIN marks, rewind(k)
    PROVE  BumpInv'
  <1>1. /\ bump \in BumpRecords /\ Kept(bump, backed, held, marks)
        /\ backed \in Hows /\ outcome \in Outcomes
    BY BumpIs
  <1>2. MarksSound(bump, backed, held, marks) /\ BumpTyped(bump, backed) /\ BuffersPlaced(bump, backed)
        /\ HeldPlaced(bump, held)
    BY <1>1 DEF Kept
  <1>3. k \in 1 .. Len(marks)
    BY <1>2, LenProperties DEF MarksSound
  <1>4. backed \in {"buffer", "backed"}
    <2>1. marks # <<>>
      BY <1>3
    <2> QED
      BY <1>1, <1>2, <2>1 DEF MarksSound, Hows
  <1>5. PICK m : m = marks[k]
    OBVIOUS
  <1>6. /\ m \in [pages : Nat, occupied : Nat, total : Nat] /\ m.pages \in 0 .. Len(bump.pages)
        /\ TopOf(bump, m) \in Nat /\ DataOf(bump, m.pages) \in Nat /\ RoomOf(bump, m.pages) \in Nat
        /\ MarkSound(bump, held, m)
    BY <1>1, <1>2, <1>3, <1>5, MarkIs
  <1>7. PICK f : f = SubSeq(bump.pages, Len(bump.pages) - m.pages + 1, Len(bump.pages))
    OBVIOUS
  <1>8. /\ f \in Seq([base : Nat, size : Nat]) /\ Len(f) = m.pages
        /\ \A c : c.original = bump.original /\ c.pages = f
              => \A i \in 0 .. m.pages : DataOf(c, i) = DataOf(bump, i) /\ RoomOf(c, i) = RoomOf(bump, i)
    BY <1>1, <1>6, <1>7, FreedIs
  <1>9. PICK b : b = [bump EXCEPT !.pages = f]
    OBVIOUS
  <1>10. FreeOverflowPages(bump, m.pages) = b
    BY <1>1, <1>7, <1>9 DEF FreeOverflowPages, BumpRecords
  <1>11. b \in BumpRecords /\ b.original = bump.original /\ b.pages = f /\ b.high_water_mark = bump.high_water_mark
    BY <1>1, <1>8, <1>9 DEF BumpRecords
  <1>12. PICK c : c = [b EXCEPT !.occupied = m.occupied, !.total = m.total]
    OBVIOUS
  <1>13. /\ c \in BumpRecords /\ c.original = bump.original /\ c.pages = f
         /\ c.high_water_mark = bump.high_water_mark /\ c.occupied = m.occupied /\ c.total = m.total
    BY <1>6, <1>11, <1>12 DEF BumpRecords
  <1>14. bump' = c /\ marks' = SubSeq(marks, 1, k - 1) /\ backed' = backed /\ outcome' = "rewound"
         /\ held' = {a \in held : Older(a, m)}
    BY <1>5, <1>10, <1>12 DEF rewind
  <1>15. \A i \in 0 .. m.pages : /\ DataOf(b, i) = DataOf(bump, i) /\ RoomOf(b, i) = RoomOf(bump, i)
                                /\ DataOf(c, i) = DataOf(bump, i) /\ RoomOf(c, i) = RoomOf(bump, i)
    BY <1>8, <1>11, <1>13
  <1>16. PICK p \in Nat, n \in Nat, o \in Nat, d \in Nat, r \in Nat, t \in Nat :
           /\ p = m.pages /\ n = Len(bump.pages) /\ o = m.occupied
           /\ d = DataOf(bump, p) /\ r = RoomOf(bump, p) /\ t = TopOf(bump, m) /\ t = d + o
    BY <1>1, <1>6, TopIs DEF TopOf
  <1>17. p \in 0 .. n
    BY <1>6, <1>16
  <1>18. ASSUME NEW a \in held, Older(a, m)
         PROVE  Within(c, a) /\ a.start + a.size <= TopOf(bump, m)
    <2>1. PICK q \in BuffersOf(b) : q.data <= a.start /\ a.start < q.data + q.size
      BY <1>10, <1>18 DEF Older
    <2>2. PICK i \in 0 .. Len(b.pages) : q.data = DataOf(b, i) /\ q.size = RoomOf(b, i)
      BY <1>11, <2>1, BufferIs
    <2>3. i \in 0 .. p /\ i \in 0 .. n
      <3>1. i \in 0 .. p
        BY <1>8, <1>11, <1>16, <2>2
      <3> QED
        BY <1>17, <3>1
    <2>4. PICK di \in Nat, ri \in Nat : di = DataOf(bump, i) /\ ri = RoomOf(bump, i)
      BY <1>1, <1>16, <2>3, PageIs
    <2>5. PICK s \in Nat, z \in Nat \ {0} : s = a.start /\ z = a.size
      BY <1>2, <1>18 DEF HeldPlaced
    <2>6. di <= s /\ s < di + ri
      BY <1>15, <1>16, <2>1, <2>2, <2>3, <2>4, <2>5
    <2>7. PICK j \in 0 .. n : DataOf(bump, j) <= s /\ s + z <= DataOf(bump, j) + RoomOf(bump, j)
      BY <1>2, <1>16, <1>18, <2>5 DEF HeldPlaced, Within
    <2>8. PICK dj \in Nat, rj \in Nat : dj = DataOf(bump, j) /\ rj = RoomOf(bump, j)
      BY <1>1, <1>16, <2>7, PageIs
    <2>9. dj <= s /\ s + z <= dj + rj
      BY <2>7, <2>8
    <2>10. ~(i < j)
      <3> SUFFICES ASSUME i < j PROVE FALSE
        OBVIOUS
      <3>1. DataOf(bump, i) + RoomOf(bump, i) < DataOf(bump, j)
        BY <1>1, <1>2, <1>16, <2>3, <2>7, Ordered
      <3>2. di + ri < dj
        BY <2>4, <2>8, <3>1
      <3> QED
        BY <2>6, <2>9, <3>2
    <2>11. ~(j < i)
      <3> SUFFICES ASSUME j < i PROVE FALSE
        OBVIOUS
      <3>1. DataOf(bump, j) + RoomOf(bump, j) < DataOf(bump, i)
        BY <1>1, <1>2, <1>16, <2>3, <2>7, Ordered
      <3>2. dj + rj < di
        BY <2>4, <2>8, <3>1
      <3> QED
        BY <2>6, <2>9, <3>2
    <2>12. i = j
      BY <2>3, <2>7, <2>10, <2>11
    <2>13. di = dj /\ ri = rj
      BY <2>4, <2>8, <2>12
    <2>14. Within(c, a)
      <3>1. i \in 0 .. Len(c.pages)
        BY <1>8, <1>13, <1>16, <2>3
      <3>2. DataOf(c, i) = di /\ RoomOf(c, i) = ri
        BY <1>15, <1>16, <2>3, <2>4
      <3>3. di <= s /\ s + z <= di + ri
        BY <2>9, <2>13
      <3> QED
        BY <2>5, <3>1, <3>2, <3>3 DEF Within
    <2>15. s + z <= t
      <3>1. CASE i = p
        <4>1. di = d /\ ri = r
          BY <1>16, <2>4, <3>1
        <4>2. Current(b).data = d /\ Current(b).size = r
          <5>1. Len(b.pages) = p /\ p \in 0 .. p
            BY <1>8, <1>11, <1>16
          <5>2. Current(b).data = DataOf(b, p) /\ Current(b).size = RoomOf(b, p)
            BY <1>11, <5>1, CurrentIs
          <5> QED
            BY <1>15, <1>16, <5>1, <5>2
        <4>3. d <= s /\ s < d + r => s + z <= d + o
          BY <1>10, <1>16, <1>18, <2>5, <4>2 DEF Older
        <4> QED
          BY <1>16, <2>6, <4>1, <4>3
      <3>2. CASE i # p
        <4>1. i < p
          BY <2>3, <3>2
        <4>2. DataOf(bump, i) + RoomOf(bump, i) < DataOf(bump, p)
          BY <1>1, <1>2, <1>16, <1>17, <2>3, <4>1, Ordered
        <4>3. di + ri < d
          BY <1>16, <2>4, <4>2
        <4> QED
          BY <1>16, <2>9, <2>13, <4>3
      <3> QED
        BY <3>1, <3>2
    <2> QED
      BY <1>16, <2>5, <2>14, <2>15
  <1>19. PICK g : g = {a \in held : Older(a, m)}
    OBVIOUS
  <1>20. g \in SUBSET held /\ \A a \in g : Within(c, a) /\ a.start + a.size <= TopOf(bump, marks[k])
    BY <1>5, <1>18, <1>19
  <1>21. Kept(c, backed, g, SubSeq(marks, 1, k - 1))
    <2>1. c.pages = SubSeq(bump.pages, Len(bump.pages) - marks[k].pages + 1, Len(bump.pages))
          /\ c.occupied = marks[k].occupied /\ c.total = marks[k].total
      BY <1>5, <1>7, <1>13
    <2> QED
      BY <1>1, <1>3, <1>4, <1>13, <1>20, <2>1, RewindKeeps
  <1> QED
    BY <1>14, <1>19, <1>21 DEF BumpInv, Outcomes

(* free_overflow_pages(nullptr) leaves no page.                             *)
LEMMA Emptied ==
    ASSUME NEW b \in BumpRecords
    PROVE  FreeOverflowPages(b, 0) \in BumpRecords /\ FreeOverflowPages(b, 0) = [b EXCEPT !.pages = <<>>]
  <1>1. PICK n \in Nat : n = Len(b.pages)
    BY TopIs
  <1>2. SubSeq(b.pages, n - 0 + 1, n) = <<>>
    BY <1>1, SubSeqEmpty
  <1>3. FreeOverflowPages(b, 0) = [b EXCEPT !.pages = <<>>]
    BY <1>1, <1>2 DEF FreeOverflowPages, BumpRecords
  <1>4. <<>> \in Seq([base : Nat, size : Nat])
    OBVIOUS
  <1> QED
    BY <1>3, <1>4 DEF BumpRecords

\* Every step that leaves nothing allocated and nothing marked.
LEMMA EmptyStep ==
    ASSUME BumpInv, NEW how \in Hows, NEW original \in Nat, (original = 0) = (how = "none"),
           how \in {"buffer", "backed"} => STRIDE <= original /\ original + ORIGINAL_SIZE < 2 * STRIDE,
           NEW peak \in Nat, NEW o \in Outcomes,
           bump' = [[bump EXCEPT !.pages = <<>>] EXCEPT !.original = original, !.occupied = 0, !.total = 0,
                                                        !.high_water_mark = peak],
           held' = {}, marks' = <<>>, backed' = how, outcome' = o
    PROVE  BumpInv'
  <1>1. bump \in BumpRecords
    BY BumpIs
  <1>2. PICK c : c = [[bump EXCEPT !.pages = <<>>] EXCEPT !.original = original, !.occupied = 0, !.total = 0,
                                                          !.high_water_mark = peak]
    OBVIOUS
  <1>3. c \in BumpRecords /\ c.pages = <<>> /\ c.occupied = 0 /\ c.total = 0 /\ c.original = original
    <2>1. <<>> \in Seq([base : Nat, size : Nat])
      OBVIOUS
    <2> QED
      BY <1>1, <1>2, <2>1 DEF BumpRecords
  <1>4. Kept(c, how, {}, <<>>)
    BY <1>3, EmptyKeeps
  <1> QED
    BY <1>2, <1>4 DEF BumpInv

(* A buffer of the backing allocator.                                       *)
LEMMA BackingBuffer ==
    ASSUME NEW n \in Nat, NEW skew \in {0, 1}
    PROVE  /\ BufferAt(n, skew) \in Nat
           /\ n # 0 => BufferAt(n, skew) # 0
           /\ n = 1 => STRIDE <= BufferAt(n, skew) /\ BufferAt(n, skew) + ORIGINAL_SIZE < 2 * STRIDE
  <1>1. PICK s \in Nat, max \in Nat, bytes \in Nat : s = STRIDE /\ max = MAX_ALIGN /\ bytes = ORIGINAL_SIZE
    BY BumpAssumption, StrideAssumption
  <1>2. max + bytes < s
    BY <1>1, StrideAssumption
  <1>3. PICK shift \in Nat : shift = skew * MAX_ALIGN /\ shift <= max
    <2>1. CASE skew = 0
      BY <1>1, <2>1
    <2>2. CASE skew = 1
      BY <1>1, <2>2
    <2> QED
      BY <2>1, <2>2
  <1>4. PICK u \in Nat : u = n * s /\ (n # 0 => s <= u) /\ (n = 1 => u = s)
    <2>1. n * s \in Nat
      OBVIOUS
    <2>2. ASSUME n # 0 PROVE s <= n * s
      <3>1. PICK k \in Nat : n = k + 1
        <4>1. n - 1 \in Nat /\ n = (n - 1) + 1
          BY <2>2
        <4> QED
          BY <4>1
      <3>2. (k + 1) * s = k * s + s /\ k * s \in Nat
        OBVIOUS
      <3> QED
        BY <3>1, <3>2
    <2>3. n = 1 => n * s = s
      OBVIOUS
    <2> QED
      BY <2>1, <2>2, <2>3
  <1>5. BufferAt(n, skew) = u + shift
    BY <1>1, <1>3, <1>4 DEF BufferAt
  <1>6. u + shift \in Nat /\ (n # 0 => u + shift # 0)
    BY <1>2, <1>4
  <1>7. n = 1 => s <= u + shift /\ u + shift + bytes < 2 * s
    BY <1>2, <1>3, <1>4
  <1> QED
    BY <1>1, <1>5, <1>6, <1>7

(* No allocator at first.                                                   *)
LEMMA BumpStart == BumpInit => BumpInv
  <1> SUFFICES ASSUME BumpInit PROVE BumpInv
    OBVIOUS
  <1>1. <<>> \in Seq([base : Nat, size : Nat])
    OBVIOUS
  <1>2. /\ bump \in BumpRecords /\ bump.pages = <<>> /\ bump.occupied = 0 /\ bump.total = 0 /\ bump.original = 0
    BY <1>1 DEF BumpInit, BumpRecords
  <1>3. Kept(bump, "none", {}, <<>>)
    BY <1>2, EmptyKeeps DEF Hows
  <1> QED
    BY <1>3 DEF BumpInit, BumpInv, Outcomes

(* Every call of the allocators and every mark and rewind.                  *)
LEMMA BumpStep == BumpInv /\ [BumpNext]_bumpVars => BumpInv'
  <1> SUFFICES ASSUME BumpInv, [BumpNext]_bumpVars PROVE BumpInv'
    OBVIOUS
  <1>0. /\ bump \in BumpRecords /\ Kept(bump, backed, held, marks)
        /\ backed \in Hows /\ outcome \in Outcomes
    BY BumpIs
  <1>1. BumpTyped(bump, backed)
    BY <1>0 DEF Kept
  <1>2. /\ bump.original \in Nat /\ bump.high_water_mark \in Nat /\ (bump.original = 0) = (backed = "none")
        /\ backed \in {"none", "arena"} => bump.pages = <<>> /\ marks = <<>>
        /\ backed = "none" => bump.total = 0 /\ bump.occupied = 0 /\ held = {}
    BY <1>0, <1>1 DEF BumpTyped, Kept, MarksSound, BumpRecords
  <1>3. FreeOverflowPages(bump, 0) = [bump EXCEPT !.pages = <<>>]
    BY <1>0, Emptied
  <1>4. ASSUME backed = "none", NEW how \in {"buffer", "backed", "arena"}, backed' = how, NEW skew \in {0, 1},
               bump' = [bump EXCEPT !.original = BufferAt(1, skew)], UNCHANGED <<held, marks, outcome>>
        PROVE  BumpInv'
    <2>1. PICK base : base = BufferAt(1, skew)
      OBVIOUS
    <2>2. base \in Nat /\ base # 0 /\ STRIDE <= base /\ base + ORIGINAL_SIZE < 2 * STRIDE
      BY <2>1, BackingBuffer
    <2>3. bump' = [[bump EXCEPT !.pages = <<>>] EXCEPT !.original = base, !.occupied = 0, !.total = 0,
                                                       !.high_water_mark = bump.high_water_mark]
      BY <1>0, <1>2, <1>4, <2>1 DEF BumpRecords
    <2>4. held' = {} /\ marks' = <<>> /\ outcome' = outcome /\ how \in Hows /\ how # "none"
      BY <1>2, <1>4 DEF Hows
    <2>5. (base = 0) = (how = "none") /\ backed' = how
      BY <1>4, <2>2, <2>4
    <2>6. bump.high_water_mark \in Nat /\ outcome \in Outcomes
      BY <1>0, <1>2
    <2> QED
      BY <2>2, <2>3, <2>4, <2>5, <2>6, EmptyStep
  <1>5. ASSUME NEW how \in {"backed", "buffer"}, construct(how) PROVE BumpInv'
    BY <1>4, <1>5 DEF construct
  <1>6. CASE construct_arena
    BY <1>4, <1>6 DEF construct_arena
  <1>7. CASE destroy
    <2>1. bump' = [[bump EXCEPT !.pages = <<>>] EXCEPT !.original = 0, !.occupied = 0, !.total = 0,
                                                       !.high_water_mark = 0]
      BY <1>3, <1>7 DEF destroy
    <2> QED
      BY <1>7, <2>1, EmptyStep DEF destroy, Hows, Outcomes
  <1>8. CASE destroy_arena
    <2>1. bump' = [[bump EXCEPT !.pages = <<>>] EXCEPT !.original = 0, !.occupied = 0, !.total = 0,
                                                       !.high_water_mark = 0]
      BY <1>0, <1>2, <1>8 DEF destroy_arena, BumpRecords
    <2>2. marks' = <<>>
      BY <1>2, <1>8 DEF destroy_arena
    <2> QED
      BY <1>8, <2>1, <2>2, EmptyStep DEF destroy_arena, Hows, Outcomes
  <1>9. ASSUME NEW bytes \in RequestSizes, NEW alignment \in RequestAlignments, alloc(bytes, alignment) PROVE BumpInv'
    BY <1>9, BumpAllocateStep DEF alloc
  <1>10. ASSUME NEW a \in held, NEW bytes \in RequestSizes, realloc(a, bytes) PROVE BumpInv'
    BY <1>10, BumpReallocStep
  <1>11. CASE mark
    <2>1. Kept(bump, backed, held,
               Append(marks, [pages |-> Len(bump.pages), occupied |-> bump.occupied, total |-> bump.total]))
      BY <1>0, <1>11, MarkKeeps DEF mark
    <2> QED
      BY <1>0, <1>11, <2>1 DEF mark, BumpInv
  <1>12. ASSUME backed # "none", NEW peak \in Nat, UNCHANGED backed,
                bump' = [[bump EXCEPT !.pages = <<>>] EXCEPT !.original = bump.original, !.occupied = 0, !.total = 0,
                                                             !.high_water_mark = peak],
                held' = {}, marks' = <<>>, outcome' = "reset"
         PROVE  BumpInv'
    <2>1. ASSUME backed \in {"buffer", "backed"}
          PROVE  STRIDE <= bump.original /\ bump.original + ORIGINAL_SIZE < 2 * STRIDE
      <3>1. 0 \in 0 .. Len(bump.pages)
        BY <1>0, TopIs
      <3>2. DataOf(bump, 0) = bump.original /\ RoomOf(bump, 0) = ORIGINAL_SIZE
        BY DEF DataOf, RoomOf
      <3>3. (0 + 1) * STRIDE <= bump.original /\ bump.original + ORIGINAL_SIZE < (0 + 2) * STRIDE
        BY <1>0, <2>1, <3>1, <3>2 DEF Kept, BuffersPlaced
      <3>4. (0 + 1) * STRIDE = STRIDE /\ (0 + 2) * STRIDE = 2 * STRIDE
        BY StrideAssumption
      <3> QED
        BY <3>3, <3>4
    <2>2. "reset" \in Outcomes /\ backed' = backed
      BY <1>12 DEF Outcomes
    <2> QED
      BY <1>0, <1>2, <1>12, <2>1, <2>2, EmptyStep
  <1>13. CASE reset
    <2>1. bump' = [[bump EXCEPT !.pages = <<>>] EXCEPT !.original = bump.original, !.occupied = 0, !.total = 0,
                                                       !.high_water_mark = 0]
      BY <1>0, <1>3, <1>13 DEF reset, BumpRecords
    <2> QED
      BY <1>12, <1>13, <2>1 DEF reset
  <1>14. CASE Arena_reset
    <2>1. bump' = [[bump EXCEPT !.pages = <<>>] EXCEPT !.original = bump.original, !.occupied = 0, !.total = 0,
                                                       !.high_water_mark = bump.high_water_mark]
      BY <1>0, <1>2, <1>14 DEF Arena_reset, BumpRecords
    <2>2. marks' = <<>>
      BY <1>2, <1>14 DEF Arena_reset
    <2> QED
      BY <1>2, <1>12, <1>14, <2>1, <2>2 DEF Arena_reset
  <1>15. CASE resize_and_dont_copy_old_memory
    <2>1. PICK base : base = BufferAt(MAX_PAGES + 2, 0)
      OBVIOUS
    <2>2. base \in Nat /\ base # 0
      <3>1. MAX_PAGES + 2 \in Nat /\ MAX_PAGES + 2 # 0
        BY BumpAssumption
      <3> QED
        BY <2>1, <3>1, BackingBuffer
    <2>3. bump' = [[bump EXCEPT !.pages = <<>>] EXCEPT !.original = base, !.occupied = 0, !.total = 0,
                                                       !.high_water_mark = bump.high_water_mark]
      BY <1>0, <1>2, <1>15, <2>1 DEF resize_and_dont_copy_old_memory, BumpRecords
    <2>4. held' = {} /\ marks' = <<>> /\ outcome' = "reset" /\ backed' = "arena"
      BY <1>2, <1>15 DEF resize_and_dont_copy_old_memory
    <2>5. "reset" \in Outcomes /\ "arena" \in Hows
      BY DEF Outcomes, Hows
    <2> QED
      BY <1>2, <2>2, <2>3, <2>4, <2>5, EmptyStep
  <1>16. ASSUME NEW k \in DOMAIN marks, rewind(k) PROVE BumpInv'
    BY <1>16, BumpRewindStep
  <1>17. CASE UNCHANGED bumpVars
    BY <1>0, <1>17 DEF bumpVars, BumpInv
  <1> QED
    BY <1>5, <1>6, <1>7, <1>8, <1>9, <1>10, <1>11, <1>13, <1>14, <1>15, <1>16, <1>17 DEF BumpNext

(* The invariant of the run is a part of the inductive one.                 *)
LEMMA ArenasFollow == BumpInv => ArenasSound
  <1> SUFFICES ASSUME BumpInv PROVE ArenasSound
    OBVIOUS
  <1>0. /\ bump \in BumpRecords /\ Kept(bump, backed, held, marks)
        /\ backed \in Hows /\ outcome \in Outcomes
    BY BumpIs
  <1>1. BumpTyped(bump, backed) /\ HeldPlaced(bump, held)
    BY <1>0 DEF Kept
  <1>2. BumpTypeOK
    <2>1. Current(bump).size = RoomOf(bump, Len(bump.pages))
      BY <1>0, CurrentIs
    <2>2. bump.occupied \in 0 .. Current(bump).size
      BY <1>0, <1>1, <2>1, TopIs DEF BumpTyped
    <2>3. bump.total \in Nat /\ bump.high_water_mark \in Nat
      BY <1>0, TopIs
    <2> QED
      BY <1>0, <1>1, <2>2, <2>3 DEF BumpTypeOK, BumpTyped, Outcomes
  <1>3. HeldApart
    <2>1. \A a \in held : \E p \in BuffersOf(bump) : p.data <= a.start /\ a.start + a.size <= p.data + p.size
      BY <1>0, <1>1, BuffersAre DEF HeldPlaced
    <2> QED
      BY <1>1, <2>1 DEF HeldApart, HeldPlaced
  <1>4. OverflowSatisfies
    BY <1>0 DEF OverflowSatisfies, Outcomes
  <1>5. UsedCoversHeld
    <2>1. PICK n \in Nat, total \in Nat, peak \in Nat :
            n = Cardinality(BytesIn(held)) /\ total = bump.total /\ peak = bump.high_water_mark
      BY <1>0, <1>1, BytesFinite, TopIs
    <2>2. n <= total /\ total <= peak
      BY <1>0, <1>1, <2>1 DEF Kept, BumpTyped
    <2>3. total >= n /\ peak >= total
      BY <2>2
    <2>4. BytesIn(held) = UNION {BytesOf(a) : a \in held}
      BY DEF BytesIn
    <2> QED
      BY <2>1, <2>3, <2>4 DEF UsedCoversHeld
  <1> QED
    BY <1>2, <1>3, <1>4, <1>5 DEF ArenasSound

(* Allocations never overlap or outlive their page, a new page always takes *)
(* the request it was made for, and bytes_used() counts every byte in use,  *)
(* through every growth in place, reset and rewind to an older mark.        *)
THEOREM ArenasAreSound == BumpSpec => []ArenasSound
  <1> QED
    BY BumpStart, BumpStep, ArenasFollow, PTL DEF BumpSpec

-----------------------------------------------------------------------------
(* Array and Bounded_Array.                                                 *)
Lower == {pair \in Nat \X Nat : pair[1] < pair[2]}

(* A set of naturals that is not empty has a least element.                 *)
LEMMA LeastExists ==
    ASSUME NEW T \in SUBSET Nat, T # {}
    PROVE  \E least \in T : \A i \in T : least <= i
  <1>1. IsWellFoundedOn(Lower, Nat)
    BY NatLessThanWellFounded DEF OpToRel, Lower
  <1>2. PICK least \in T : \A i \in T : ~(<<i, least>> \in Lower)
    BY <1>1, WFMin
  <1>3. \A i \in T : ~(i < least)
    BY <1>2 DEF Lower
  <1> QED
    BY <1>3

-----------------------------------------------------------------------------
(* A sequence of elements at the start of a storage, the rest of it raw; and *)
(* the arrays, of which each holds the elements it was given.                *)
Filled(c, e) == [i \in 0 .. c - 1 |-> IF i < Len(e) THEN e[i + 1] ELSE RAW]
Full(c, e) == [capacity |-> c, cells |-> Filled(c, e)]
Stored == {FREE} \cup {Full(c, e) : c \in Nat, e \in Seq(Elements)}
Headers == [capacity : Nat, size : Nat, storage : Storages \cup {NULL_STORAGE}]

Holds(a, st, e, k) ==
    IF a.storage = NULL_STORAGE
    THEN a.capacity = 0 /\ a.size = 0 /\ e = <<>> /\ k = "Array"
    ELSE /\ a.capacity # 0 /\ a.size = Len(e) /\ a.size <= a.capacity
         /\ st[a.storage] = Full(a.capacity, e)
         /\ k = "Bounded_Array" => a.capacity = BOUNDED_SIZE

Placed(as, st, g, k) ==
    /\ as \in [Names -> Headers] /\ st \in [Storages -> Stored] /\ g \in [Names -> Seq(Elements)]
    /\ \A n \in Names : Holds(as[n], st, g[n], k)
    /\ \A s \in Storages : (\A n \in Names : as[n].storage # s) => st[s] = FREE
    /\ \A m, n \in Names : m # n => as[m].storage # as[n].storage \/ as[m].storage = NULL_STORAGE

ViewSound(v) ==
    v # NoView =>
        /\ v.data - HEADER_SIZE >= v.base
        /\ v.data + v.count <= v.base + v.size
        /\ v.data % v.alignment = 0

ArraysInv ==
    /\ kind \in {"Array", "Bounded_Array"}
    /\ Placed(arr, storage, given, kind)
    /\ ViewSound(view)

-----------------------------------------------------------------------------
(* What the operations make of the cells.                                   *)
LEMMA FilledIs ==
    ASSUME NEW c \in Nat, NEW e \in Seq(Elements)
    PROVE  /\ DOMAIN Filled(c, e) = 0 .. c - 1
           /\ \A i \in 0 .. c - 1 : Filled(c, e)[i] = IF i < Len(e) THEN e[i + 1] ELSE RAW
  BY DEF Filled

(* A storage with a sequence in it.                                         *)
LEMMA FullIsStored ==
    ASSUME NEW c \in Nat, NEW e \in Seq(Elements)
    PROVE  Full(c, e) \in Stored
  <1> QED
    BY DEF Stored

(* New storage holds the empty sequence.                                    *)
LEMMA FreshIs ==
    ASSUME NEW c \in Nat
    PROVE  Fresh_cells(c) = Filled(c, <<>>)
  BY DEF Fresh_cells, Filled

(* Elements constructed behind a sequence make the longer sequence.         *)
LEMMA ConstructIs ==
    ASSUME NEW c \in Nat, NEW e \in Seq(Elements), NEW v \in Seq(Elements), NEW at, at = Len(e), at + Len(v) <= c
    PROVE  ConstructAll(Filled(c, e), at, v) = Filled(c, e \o v)
  <1>1. PICK f : f = e \o v
    OBVIOUS
  <1>2. PICK m \in Nat, k \in Nat : m = Len(e) /\ k = Len(v)
    BY LenProperties
  <1>3. f \in Seq(Elements) /\ Len(f) = m + k /\ \A i \in 1 .. m + k : f[i] = IF i <= m THEN e[i] ELSE v[i - m]
    BY <1>1, <1>2, ConcatProperties
  <1>4. ASSUME NEW i \in 0 .. c - 1
        PROVE  (IF at <= i /\ i < at + Len(v) THEN Begin(Filled(c, e)[i], v[i - at + 1]) ELSE Filled(c, e)[i])
               = IF i < Len(f) THEN f[i + 1] ELSE RAW
    <2>1. Filled(c, e)[i] = IF i < m THEN e[i + 1] ELSE RAW
      BY <1>2, FilledIs
    <2>2. CASE i < m
      <3>1. i + 1 \in 1 .. m + k /\ i + 1 <= m /\ i < m + k
        BY <1>2, <2>2
      <3>2. f[i + 1] = e[i + 1]
        BY <1>3, <3>1
      <3> QED
        BY <1>2, <1>3, <2>1, <2>2, <3>1, <3>2
    <2>3. CASE ~(i < m) /\ i < m + k
      <3>1. i + 1 \in 1 .. m + k /\ ~(i + 1 <= m) /\ i + 1 - m = i - m + 1
        BY <1>2, <2>3
      <3>2. f[i + 1] = v[i + 1 - m]
        BY <1>3, <3>1, SMTT(40)
      <3>3. f[i + 1] = v[i - m + 1]
        BY <3>1, <3>2
      <3> QED
        BY <1>2, <1>3, <2>1, <2>3, <3>1, <3>3 DEF Begin
    <2>4. CASE ~(i < m + k)
      BY <1>2, <1>3, <2>1, <2>4
    <2> QED
      BY <2>2, <2>3, <2>4
  <1>5. ConstructAll(Filled(c, e), at, v)
        = [i \in 0 .. c - 1 |-> IF at <= i /\ i < at + Len(v) THEN Begin(Filled(c, e)[i], v[i - at + 1]) ELSE Filled(c, e)[i]]
    BY FilledIs DEF ConstructAll
  <1>6. ConstructAll(Filled(c, e), at, v) = [i \in 0 .. c - 1 |-> IF i < Len(f) THEN f[i + 1] ELSE RAW]
    BY <1>4, <1>5
  <1> QED
    BY <1>1, <1>6 DEF Filled

(* Its elements destroyed, the storage holds the empty sequence.            *)
LEMMA DestroyIs ==
    ASSUME NEW c \in Nat, NEW e \in Seq(Elements), NEW n, n = Len(e), n <= c
    PROVE  destroy_elements(Filled(c, e), n) = Filled(c, <<>>)
  <1>1. PICK m \in Nat : m = Len(e)
    BY LenProperties
  <1>2. ASSUME NEW i \in 0 .. c - 1
        PROVE  (IF i < n THEN End(Filled(c, e)[i]) ELSE Filled(c, e)[i]) = RAW
    <2>1. Filled(c, e)[i] = IF i < m THEN e[i + 1] ELSE RAW
      BY <1>1, FilledIs
    <2>2. CASE i < m
      <3>1. e[i + 1] \in Elements
        BY <1>1, <2>2, ElementOfSeq
      <3> QED
        BY <1>1, <2>1, <2>2, <3>1, ArraysAssumption DEF End
    <2>3. CASE ~(i < m)
      BY <1>1, <2>1, <2>3
    <2> QED
      BY <2>2, <2>3
  <1>3. destroy_elements(Filled(c, e), n)
        = [i \in 0 .. c - 1 |-> IF i < n THEN End(Filled(c, e)[i]) ELSE Filled(c, e)[i]]
    BY FilledIs DEF destroy_elements
  <1>4. destroy_elements(Filled(c, e), n) = [i \in 0 .. c - 1 |-> RAW]
    BY <1>2, <1>3
  <1> QED
    BY <1>4 DEF Filled

(* Storage without elements is free once it is released.                    *)
LEMMA ReleaseIs ==
    ASSUME NEW c \in Nat
    PROVE  Release(Filled(c, <<>>)) = FREE
  BY DEF Release, Filled, FREE

EndedAt(cells, i) == [cells EXCEPT ![i] = End(@)]

(* The last element ends.                                                   *)
LEMMA EndLast ==
    ASSUME NEW c \in Nat, NEW e \in Seq(Elements), NEW n, n = Len(e), n # 0, n <= c
    PROVE  EndedAt(Filled(c, e), n - 1) = Filled(c, SubSeq(e, 1, n - 1))
  <1>1. PICK m \in Nat, k \in Nat : m = n /\ k = m - 1
    BY LenProperties
  <1>2. PICK f : f = SubSeq(e, 1, k)
    OBVIOUS
  <1>3. f \in Seq(Elements) /\ Len(f) = k /\ \A i \in 1 .. k : f[i] = e[i]
    <2>1. 1 \in 1 .. Len(e) + 1 /\ k \in 0 .. Len(e)
      BY <1>1
    <2> QED
      BY <1>1, <1>2, <2>1, SubSeqProperties
  <1>4. e[m] \in Elements
    BY <1>1, ElementOfSeq
  <1>5. ASSUME NEW i \in 0 .. c - 1
        PROVE  (IF i = n - 1 THEN End(Filled(c, e)[i]) ELSE Filled(c, e)[i])
               = IF i < Len(f) THEN f[i + 1] ELSE RAW
    <2>1. Filled(c, e)[i] = IF i < m THEN e[i + 1] ELSE RAW
      BY <1>1, FilledIs
    <2>2. CASE i < k
      BY <1>1, <1>3, <2>1, <2>2
    <2>3. CASE i = k
      <3>1. i + 1 = m /\ i < m
        BY <1>1, <2>3
      <3> QED
        BY <1>1, <1>3, <1>4, <2>1, <2>3, <3>1, ArraysAssumption DEF End
    <2>4. CASE i > k
      BY <1>1, <1>3, <2>1, <2>4
    <2> QED
      BY <1>1, <2>2, <2>3, <2>4
  <1>6. EndedAt(Filled(c, e), n - 1)
        = [i \in 0 .. c - 1 |-> IF i = n - 1 THEN End(Filled(c, e)[i]) ELSE Filled(c, e)[i]]
    BY FilledIs DEF EndedAt
  <1>7. EndedAt(Filled(c, e), n - 1) = [i \in 0 .. c - 1 |-> IF i < Len(f) THEN f[i + 1] ELSE RAW]
    BY <1>5, <1>6
  <1> QED
    BY <1>1, <1>2, <1>7 DEF Filled

(* The first element ends and the others move down by one.                  *)
LEMMA ShiftIs ==
    ASSUME NEW c \in Nat, NEW e \in Seq(Elements), NEW n, n = Len(e), n # 0, n <= c
    PROVE  ShiftDown(Filled(c, e), n) = Filled(c, Tail(e))
  <1>1. PICK m \in Nat, k \in Nat : m = n /\ k = m - 1
    BY LenProperties
  <1>2. PICK f : f = Tail(e)
    OBVIOUS
  <1>3. f \in Seq(Elements) /\ Len(f) = k /\ \A i \in 1 .. k : f[i] = e[i + 1]
    BY <1>1, <1>2
  <1>4. ASSUME NEW i \in 0 .. c - 1
        PROVE  (IF i >= n THEN Filled(c, e)[i]
                ELSE IF i = n - 1 THEN End(Filled(c, e)[i])
                ELSE Begin(End(Filled(c, e)[i]), Filled(c, e)[i + 1]))
               = IF i < Len(f) THEN f[i + 1] ELSE RAW
    <2>1. \A j \in 0 .. c - 1 : Filled(c, e)[j] = IF j < m THEN e[j + 1] ELSE RAW
      BY <1>1, FilledIs
    <2>2. \A j \in 0 .. m - 1 : e[j + 1] \in Elements
      BY <1>1, ElementOfSeq
    <2>3. CASE i < k
      <3>1. i + 1 \in 0 .. c - 1 /\ i + 1 < m /\ i < m /\ i \in 0 .. m - 1 /\ i + 1 \in 0 .. m - 1
        BY <1>1, <2>3
      <3>2. Filled(c, e)[i] = e[i + 1] /\ Filled(c, e)[i + 1] = e[i + 1 + 1]
        BY <2>1, <3>1
      <3>3. End(Filled(c, e)[i]) = RAW
        BY <2>2, <3>1, <3>2, ArraysAssumption DEF End
      <3>4. f[i + 1] = e[i + 1 + 1]
        BY <1>1, <1>3, <2>3
      <3> QED
        BY <1>1, <1>3, <2>3, <3>1, <3>2, <3>3, <3>4 DEF Begin
    <2>4. CASE i = k
      <3>1. i < m /\ i \in 0 .. m - 1
        BY <1>1, <2>4
      <3>2. Filled(c, e)[i] = e[i + 1] /\ e[i + 1] \in Elements
        BY <2>1, <2>2, <3>1
      <3> QED
        BY <1>1, <1>3, <2>4, <3>2, ArraysAssumption DEF End
    <2>5. CASE i > k
      BY <1>1, <1>3, <2>1, <2>5
    <2> QED
      BY <1>1, <2>3, <2>4, <2>5
  <1>5. ShiftDown(Filled(c, e), n)
        = [i \in 0 .. c - 1 |-> IF i >= n THEN Filled(c, e)[i]
                ELSE IF i = n - 1 THEN End(Filled(c, e)[i])
                ELSE Begin(End(Filled(c, e)[i]), Filled(c, e)[i + 1])]
    BY FilledIs DEF ShiftDown
  <1>6. ShiftDown(Filled(c, e), n) = [i \in 0 .. c - 1 |-> IF i < Len(f) THEN f[i + 1] ELSE RAW]
    BY <1>4, <1>5
  <1> QED
    BY <1>2, <1>6 DEF Filled

(* What is read back from the cells.                                        *)
LEMMA ElementsAre ==
    ASSUME NEW c \in Nat, NEW e \in Seq(Elements), NEW n, n = Len(e), n <= c
    PROVE  [i \in 1 .. n |-> Filled(c, e)[i - 1]] = e
  <1>1. PICK m \in Nat : m = n
    BY LenProperties
  <1>2. ASSUME NEW i \in 1 .. m PROVE Filled(c, e)[i - 1] = e[i]
    <2>1. i - 1 \in 0 .. c - 1 /\ i - 1 < Len(e) /\ i - 1 + 1 = i
      BY <1>1
    <2> QED
      BY <2>1, FilledIs
  <1>3. e = [i \in 1 .. m |-> e[i]]
    BY <1>1
  <1> QED
    BY <1>1, <1>2, <1>3

-----------------------------------------------------------------------------
(* The loop of reserve.                                                     *)
Doubled(d, wanted) == IF d < wanted THEN 2 * d ELSE d
Doublings(g, n, from, wanted) ==
    /\ g = [m \in 0 .. n |-> g[m]]
    /\ g[0] = from
    /\ \A m \in 1 .. n : g[m] = Doubled(g[m - 1], wanted)

(* The doubling loop is a sequence of capacities, for as many turns as      *)
(* wanted: the least number of turns without one would have one before it.  *)
LEMMA DoublingsExist ==
    ASSUME NEW from, NEW wanted, NEW n \in Nat
    PROVE  \E g : Doublings(g, n, from, wanted)
  <1> DEFINE missing == {m \in Nat : ~(\E g : Doublings(g, m, from, wanted))}
  <1>1. SUFFICES ASSUME missing # {} PROVE FALSE
    OBVIOUS
  <1>2. missing \in SUBSET Nat
    OBVIOUS
  <1>3. PICK m \in missing : \A k \in missing : m <= k
    BY <1>1, <1>2, LeastExists
  <1>4. CASE m = 0
    <2> DEFINE f == [k \in 0 .. 0 |-> from]
    <2>1. f[0] = from /\ f = [k \in 0 .. 0 |-> f[k]]
      OBVIOUS
    <2> HIDE DEF f
    <2>2. Doublings(f, 0, from, wanted)
      BY <2>1 DEF Doublings
    <2> QED
      BY <1>4, <2>2
  <1>5. CASE m # 0
    <2>1. m - 1 \in Nat /\ m - 1 \notin missing
      BY <1>3, <1>5
    <2>2. PICK g : Doublings(g, m - 1, from, wanted)
      BY <2>1
    <2> DEFINE f == [k \in 0 .. m |-> IF k = m THEN Doubled(g[m - 1], wanted) ELSE g[k]]
    <2>3. \A k \in 0 .. m - 1 : f[k] = g[k]
      BY <2>1
    <2>4. f[m] = Doubled(g[m - 1], wanted) /\ f = [k \in 0 .. m |-> f[k]]
      BY <1>5, <2>1
    <2> HIDE DEF f
    <2>5. g[0] = from /\ \A k \in 1 .. m - 1 : g[k] = Doubled(g[k - 1], wanted)
      BY <2>2 DEF Doublings
    <2>6. ASSUME NEW k \in 1 .. m PROVE f[k] = Doubled(f[k - 1], wanted)
      <3>1. CASE k = m
        <4>1. f[m - 1] = g[m - 1]
          BY <2>1, <2>3
        <4> QED
          BY <2>4, <3>1, <4>1
      <3>2. CASE k # m
        <4>1. k \in 0 .. m - 1 /\ k - 1 \in 0 .. m - 1 /\ k \in 1 .. m - 1
          BY <3>2
        <4> QED
          BY <2>3, <2>5, <4>1
      <3> QED
        BY <3>1, <3>2
    <2>7. f[0] = from
      BY <2>1, <2>3, <2>5
    <2>8. Doublings(f, m, from, wanted)
      BY <2>4, <2>6, <2>7 DEF Doublings
    <2> QED
      BY <2>8
  <1> QED
    BY <1>4, <1>5

(* After as many turns as there are elements wanted there is room.          *)
LEMMA DoublingsSuffice ==
    ASSUME NEW from \in Nat \ {0}, NEW wanted \in Nat, NEW g, Doublings(g, wanted, from, wanted)
    PROVE  g[wanted] \in Nat /\ g[wanted] > 0 /\ g[wanted] >= wanted
  <1> DEFINE Enough(d, m) == d \in Nat /\ d > 0 /\ (d >= wanted \/ d > m)
             low == {m \in 0 .. wanted : ~Enough(g[m], m)}
  <1>1. g[0] = from /\ \A m \in 1 .. wanted : g[m] = Doubled(g[m - 1], wanted)
    BY DEF Doublings
  <1>2. low = {}
    <2>1. SUFFICES ASSUME low # {} PROVE FALSE
      OBVIOUS
    <2>2. low \in SUBSET Nat
      OBVIOUS
    <2>3. PICK m \in low : \A k \in low : m <= k
      BY <2>1, <2>2, LeastExists
    <2>4. m # 0
      BY <1>1, <2>3
    <2>5. m - 1 \in 0 .. wanted /\ m \in 1 .. wanted /\ ~(m <= m - 1)
      BY <2>3, <2>4
    <2>6. Enough(g[m - 1], m - 1)
      BY <2>3, <2>5
    <2>7. PICK d \in Nat : d = g[m - 1]
      BY <2>6
    <2>8. g[m] = Doubled(d, wanted)
      BY <1>1, <2>5, <2>7
    <2>9. Enough(Doubled(d, wanted), m)
      BY <2>5, <2>6, <2>7 DEF Doubled
    <2> QED
      BY <2>3, <2>8, <2>9
  <1>3. wanted \in 0 .. wanted
    OBVIOUS
  <1>4. Enough(g[wanted], wanted)
    BY <1>2, <1>3
  <1> QED
    BY <1>4

(* What the doubling loop ends with.                                        *)
LEMMA RoomIs ==
    ASSUME NEW capacity \in Nat, NEW wanted \in Nat
    PROVE  RoomFor(capacity, wanted) \in Nat /\ RoomFor(capacity, wanted) > 0
           /\ RoomFor(capacity, wanted) >= wanted
  <1>1. PICK from \in Nat \ {0} : from = IF capacity = 0 THEN FIRST_CAPACITY ELSE capacity
    BY ArraysAssumption
  <1> DEFINE Body(g) == [turn \in 0 .. wanted |->
                            IF turn = 0 THEN IF capacity = 0 THEN FIRST_CAPACITY ELSE capacity
                            ELSE IF g[turn - 1] < wanted THEN 2 * g[turn - 1] ELSE g[turn - 1]]
             all == CHOOSE g : g = Body(g)
  <1>2. RoomFor(capacity, wanted) = all[wanted]
    BY Zenon DEF RoomFor
  <1>3. \E g : g = Body(g)
    <2>1. PICK g : Doublings(g, wanted, from, wanted)
      BY DoublingsExist
    <2>2. ASSUME NEW m \in 0 .. wanted PROVE g[m] = Body(g)[m]
      <3>1. CASE m = 0
        BY <1>1, <2>1, <3>1 DEF Doublings
      <3>2. CASE m # 0
        <4>1. m \in 1 .. wanted
          BY <3>2
        <4>2. g[m] = Doubled(g[m - 1], wanted)
          BY <2>1, <4>1 DEF Doublings
        <4> QED
          BY <3>2, <4>2 DEF Doubled
      <3> QED
        BY <3>1, <3>2
    <2>3. g = [m \in 0 .. wanted |-> g[m]]
      BY <2>1 DEF Doublings
    <2> QED
      BY <2>2, <2>3
  <1>4. all = Body(all)
    BY <1>3
  <1> HIDE DEF all
  <1>5. Doublings(all, wanted, from, wanted)
    <2>1. \A m \in 0 .. wanted : all[m] = IF m = 0 THEN from ELSE Doubled(all[m - 1], wanted)
      BY <1>1, <1>4 DEF Doubled
    <2>2. all = [m \in 0 .. wanted |-> all[m]]
      BY <1>4
    <2>3. 0 \in 0 .. wanted /\ \A m \in 1 .. wanted : m \in 0 .. wanted /\ m # 0
      OBVIOUS
    <2> QED
      BY <2>1, <2>2, <2>3 DEF Doublings
  <1> QED
    BY <1>2, <1>5, DoublingsSuffice

-----------------------------------------------------------------------------
(* Array n becomes b with elements e, in storage of its own or in one that  *)
(* was free; the storage it had is freed when it has another one now.        *)
Becomes(as, st, k, n, b, e, su) ==
    /\ b \in Headers /\ e \in Seq(Elements) /\ su \in [Storages -> Stored]
    /\ Holds(b, su, e, k)
    /\ b.storage # NULL_STORAGE => b.storage = as[n].storage \/ st[b.storage] = FREE
    /\ as[n].storage # b.storage /\ as[n].storage # NULL_STORAGE => su[as[n].storage] = FREE
    /\ \A s \in Storages : s # b.storage /\ s # as[n].storage => su[s] = st[s]

(* The arrays stay placed when one of them becomes another.                 *)
LEMMA ArrayChanges ==
    ASSUME NEW as, NEW st, NEW g, NEW k, Placed(as, st, g, k), NEW n \in Names, NEW b, NEW e, NEW su,
           Becomes(as, st, k, n, b, e, su)
    PROVE  Placed([as EXCEPT ![n] = b], su, [g EXCEPT ![n] = e], k)
  <1>0. /\ b \in Headers /\ e \in Seq(Elements) /\ su \in [Storages -> Stored]
        /\ Holds(b, su, e, k)
        /\ b.storage # NULL_STORAGE => b.storage = as[n].storage \/ st[b.storage] = FREE
        /\ as[n].storage # b.storage /\ as[n].storage # NULL_STORAGE => su[as[n].storage] = FREE
        /\ \A s \in Storages : s # b.storage /\ s # as[n].storage => su[s] = st[s]
    BY DEF Becomes
  <1>1. /\ as \in [Names -> Headers] /\ st \in [Storages -> Stored] /\ g \in [Names -> Seq(Elements)]
        /\ \A m \in Names : Holds(as[m], st, g[m], k)
        /\ \A s \in Storages : (\A m \in Names : as[m].storage # s) => st[s] = FREE
        /\ \A m, p \in Names : m # p => as[m].storage # as[p].storage \/ as[m].storage = NULL_STORAGE
    BY DEF Placed
  <1>2. PICK bs : bs = [as EXCEPT ![n] = b]
    OBVIOUS
  <1>3. PICK gs : gs = [g EXCEPT ![n] = e]
    OBVIOUS
  <1>4. /\ bs \in [Names -> Headers] /\ bs[n] = b /\ \A m \in Names : m # n => bs[m] = as[m]
        /\ gs \in [Names -> Seq(Elements)] /\ gs[n] = e /\ \A m \in Names : m # n => gs[m] = g[m]
    BY <1>0, <1>1, <1>2, <1>3
  <1>5. \A m \in Names : as[m].storage \in Storages \cup {NULL_STORAGE}
    BY <1>1 DEF Headers
  <1>6. b.storage \in Storages \cup {NULL_STORAGE} /\ NULL_STORAGE \notin Storages
    BY <1>0 DEF Headers, NULL_STORAGE, Storages
  <1>7. ASSUME NEW m \in Names, as[m].storage # NULL_STORAGE
        PROVE  st[as[m].storage] # FREE
    <2>1. as[m].capacity # 0 /\ st[as[m].storage] = Full(as[m].capacity, g[m])
      BY <1>1, <1>7 DEF Holds
    <2>2. Full(as[m].capacity, g[m]).capacity = as[m].capacity /\ FREE.capacity = 0
      BY DEF Full, FREE
    <2>3. st[as[m].storage].capacity = as[m].capacity
      BY <2>1, <2>2, Zenon
    <2> QED
      BY <2>1, <2>2, <2>3, Zenon
  <1>8. ASSUME NEW m \in Names, m # n, as[m].storage # NULL_STORAGE
        PROVE  as[m].storage # b.storage /\ as[m].storage # as[n].storage
    BY <1>0, <1>1, <1>6, <1>7, <1>8
  <1>9. ASSUME NEW m \in Names PROVE Holds(bs[m], su, gs[m], k)
    <2>1. CASE m = n
      BY <1>0, <1>4, <2>1
    <2>2. CASE m # n
      <3>1. Holds(as[m], st, g[m], k)
        BY <1>1
      <3>2. CASE as[m].storage = NULL_STORAGE
        BY <1>4, <2>2, <3>1, <3>2 DEF Holds
      <3>3. CASE as[m].storage # NULL_STORAGE
        <4>1. su[as[m].storage] = st[as[m].storage]
          BY <1>0, <1>5, <1>8, <2>2, <3>3
        <4> QED
          BY <1>4, <2>2, <3>1, <3>3, <4>1 DEF Holds
      <3> QED
        BY <3>2, <3>3
    <2> QED
      BY <2>1, <2>2
  <1>10. ASSUME NEW s \in Storages, \A m \in Names : bs[m].storage # s
         PROVE  su[s] = FREE
    <2>1. s # b.storage /\ \A m \in Names : m # n => as[m].storage # s
      BY <1>4, <1>10
    <2>2. CASE s = as[n].storage
      BY <1>0, <1>6, <2>1, <2>2
    <2>3. CASE s # as[n].storage
      <3>1. su[s] = st[s]
        BY <1>0, <2>1, <2>3
      <3>2. \A m \in Names : as[m].storage # s
        BY <2>1, <2>3
      <3> QED
        BY <1>1, <3>1, <3>2
    <2> QED
      BY <2>2, <2>3
  <1>11. ASSUME NEW m \in Names, NEW p \in Names, m # p
         PROVE  bs[m].storage # bs[p].storage \/ bs[m].storage = NULL_STORAGE
    <2>1. CASE m # n /\ p # n
      <3>1. bs[m] = as[m] /\ bs[p] = as[p]
        BY <1>4, <2>1
      <3>2. as[m].storage # as[p].storage \/ as[m].storage = NULL_STORAGE
        BY <1>1, <1>11
      <3> QED
        BY <3>1, <3>2
    <2>2. CASE m = n
      BY <1>4, <1>8, <1>11, <2>2
    <2>3. CASE p = n
      BY <1>4, <1>8, <1>11, <2>3
    <2> QED
      BY <2>1, <2>2, <2>3
  <1>12. Placed(bs, su, gs, k)
    BY <1>0, <1>4, <1>9, <1>10, <1>11 DEF Placed
  <1> QED
    BY <1>2, <1>3, <1>12

(* A storage with other elements in it.                                     *)
LEMMA CellsChange ==
    ASSUME NEW as, NEW st, NEW k, NEW n \in Names, NEW b, NEW e, NEW su, Becomes(as, st, k, n, b, e, su),
           b.storage # NULL_STORAGE, NEW d \in Seq(Elements), NEW l, l = Len(d), l <= b.capacity,
           NEW cells, cells = Filled(b.capacity, d)
    PROVE  Becomes(as, st, k, n, WithSize(b, l), d, WithCells(su, b.storage, cells))
  <1>1. /\ b \in Headers /\ su \in [Storages -> Stored]
        /\ Holds(b, su, e, k)
        /\ b.storage = as[n].storage \/ st[b.storage] = FREE
        /\ as[n].storage # b.storage /\ as[n].storage # NULL_STORAGE => su[as[n].storage] = FREE
        /\ \A s \in Storages : s # b.storage /\ s # as[n].storage => su[s] = st[s]
    BY DEF Becomes
  <1>2. b.storage \in Storages /\ b.capacity \in Nat
    BY <1>1 DEF Headers
  <1>3. b.capacity # 0 /\ su[b.storage] = Full(b.capacity, e) /\ (k = "Bounded_Array" => b.capacity = BOUNDED_SIZE)
    BY <1>1 DEF Holds
  <1>4. PICK a : a = WithSize(b, l)
    OBVIOUS
  <1>5. l \in Nat
    BY LenProperties
  <1>6. a \in Headers /\ a.capacity = b.capacity /\ a.size = l /\ a.storage = b.storage
    BY <1>1, <1>4, <1>5 DEF WithSize, Holder, Headers
  <1>7. PICK sv : sv = WithCells(su, b.storage, cells)
    OBVIOUS
  <1>8. su[b.storage].capacity = b.capacity
    BY <1>3 DEF Full
  <1>9. Full(b.capacity, d) \in Stored
    BY <1>2 DEF Stored
  <1>10. sv = [su EXCEPT ![b.storage] = Full(b.capacity, d)]
    BY <1>7, <1>8 DEF WithCells, Full
  <1>11. sv \in [Storages -> Stored] /\ sv[b.storage] = Full(b.capacity, d) /\ \A s \in Storages : s # b.storage => sv[s] = su[s]
    BY <1>1, <1>2, <1>9, <1>10
  <1>12. Holds(a, sv, d, k)
    BY <1>3, <1>6, <1>11 DEF Holds
  <1>13. as[n].storage # a.storage /\ as[n].storage # NULL_STORAGE => sv[as[n].storage] = FREE
    <2>1. SUFFICES ASSUME as[n].storage # b.storage, as[n].storage # NULL_STORAGE PROVE sv[as[n].storage] = FREE
      BY <1>6
    <2>2. su[as[n].storage] = FREE
      BY <1>1, <2>1
    <2>3. sv[as[n].storage] = su[as[n].storage]
      BY <1>10, <2>1
    <2> QED
      BY <2>2, <2>3
  <1>14. \A s \in Storages : s # a.storage /\ s # as[n].storage => sv[s] = st[s]
    BY <1>1, <1>6, <1>11
  <1>15. Becomes(as, st, k, n, a, d, sv)
    BY <1>1, <1>6, <1>11, <1>12, <1>13, <1>14 DEF Becomes
  <1> QED
    BY <1>4, <1>7, <1>15

-----------------------------------------------------------------------------
(* What the invariant says of one array.                                    *)
LEMMA ArrayIs ==
    ASSUME ArraysInv, NEW n \in Names
    PROVE  /\ arr[n] \in Headers /\ given[n] \in Seq(Elements)
           /\ arr[n].capacity \in Nat /\ arr[n].size \in Nat /\ arr[n].size <= arr[n].capacity
           /\ arr[n].size = Len(given[n])
           /\ ~Owns(n) => arr[n].capacity = 0 /\ given[n] = <<>> /\ kind = "Array"
           /\ Owns(n) => /\ arr[n].storage \in Storages /\ arr[n].capacity # 0
                         /\ kind = "Bounded_Array" => arr[n].capacity = BOUNDED_SIZE
                         /\ storage[arr[n].storage] = Full(arr[n].capacity, given[n])
                         /\ Cells(n) = Filled(arr[n].capacity, given[n])
                         /\ ElementsOf(n) = given[n]
           /\ Becomes(arr, storage, kind, n, arr[n], given[n], storage)
  <1>1. /\ arr \in [Names -> Headers] /\ storage \in [Storages -> Stored] /\ given \in [Names -> Seq(Elements)]
        /\ Holds(arr[n], storage, given[n], kind)
    BY DEF ArraysInv, Placed
  <1>2. arr[n] \in Headers /\ given[n] \in Seq(Elements)
    BY <1>1
  <1>3. arr[n].capacity \in Nat /\ arr[n].size \in Nat /\ arr[n].storage \in Storages \cup {NULL_STORAGE}
    BY <1>2 DEF Headers
  <1>4. arr[n].size = Len(given[n]) /\ arr[n].size <= arr[n].capacity
    BY <1>1, <1>3 DEF Holds
  <1>5. ASSUME Owns(n)
        PROVE  /\ arr[n].storage \in Storages /\ arr[n].capacity # 0
               /\ kind = "Bounded_Array" => arr[n].capacity = BOUNDED_SIZE
               /\ storage[arr[n].storage] = Full(arr[n].capacity, given[n])
               /\ Cells(n) = Filled(arr[n].capacity, given[n])
               /\ ElementsOf(n) = given[n]
    <2>1. /\ arr[n].storage \in Storages /\ arr[n].capacity # 0
          /\ kind = "Bounded_Array" => arr[n].capacity = BOUNDED_SIZE
          /\ storage[arr[n].storage] = Full(arr[n].capacity, given[n])
      BY <1>1, <1>3, <1>5 DEF Holds, Owns
    <2>2. Cells(n) = Filled(arr[n].capacity, given[n])
      BY <2>1 DEF Cells, Full
    <2>3. ElementsOf(n) = [i \in 1 .. arr[n].size |-> Filled(arr[n].capacity, given[n])[i - 1]]
      BY <2>2 DEF ElementsOf
    <2>4. [i \in 1 .. arr[n].size |-> Filled(arr[n].capacity, given[n])[i - 1]] = given[n]
      BY <1>2, <1>3, <1>4, ElementsAre
    <2> QED
      BY <2>1, <2>2, <2>3, <2>4
  <1>6. ~Owns(n) => arr[n].capacity = 0 /\ given[n] = <<>> /\ kind = "Array"
    BY <1>1 DEF Holds, Owns
  <1>7. Becomes(arr, storage, kind, n, arr[n], given[n], storage)
    BY <1>1, <1>2 DEF Becomes
  <1> QED
    BY <1>2, <1>3, <1>4, <1>5, <1>6, <1>7

(* Of three storages, two arrays leave one.                                 *)
LEMMA FreeExists ==
    ASSUME ArraysInv
    PROVE  allocate_storage \in Storages /\ storage[allocate_storage] = FREE
  <1>1. \A s \in Storages : (\A n \in Names : arr[n].storage # s) => storage[s] = FREE
    BY DEF ArraysInv, Placed
  <1>2. PICK p, q : p = arr["x"].storage /\ q = arr["y"].storage
    OBVIOUS
  <1>3. \A n \in Names : arr[n].storage = p \/ arr[n].storage = q
    BY <1>2 DEF Names
  <1>4. \E s \in Storages : s # p /\ s # q
    BY DEF Storages
  <1>5. \E s \in Storages : storage[s] = FREE
    BY <1>1, <1>3, <1>4
  <1> QED
    BY <1>5 DEF allocate_storage

(* reserve moves the elements to storage with room for them.                *)
LEMMA ReserveIs ==
    ASSUME ArraysInv, NEW n \in Names, NEW wanted \in Nat, kind = "Array" \/ wanted <= arr[n].capacity,
           NEW r, r = reserve(n, wanted)
    PROVE  /\ Becomes(arr, storage, kind, n, r.a, given[n], r.st)
           /\ r.a.size = arr[n].size /\ wanted <= r.a.capacity
           /\ r.a.storage # NULL_STORAGE => r.st[r.a.storage].cells = Filled(r.a.capacity, given[n])
           /\ r.a.storage = NULL_STORAGE => wanted = 0 /\ given[n] = <<>>
  <1>1. /\ arr[n] \in Headers /\ given[n] \in Seq(Elements)
        /\ arr[n].capacity \in Nat /\ arr[n].size \in Nat /\ arr[n].size <= arr[n].capacity
        /\ arr[n].size = Len(given[n])
        /\ ~Owns(n) => arr[n].capacity = 0 /\ given[n] = <<>> /\ kind = "Array"
        /\ Owns(n) => /\ arr[n].storage \in Storages
                      /\ storage[arr[n].storage] = Full(arr[n].capacity, given[n])
                      /\ Cells(n) = Filled(arr[n].capacity, given[n])
                      /\ ElementsOf(n) = given[n]
        /\ Becomes(arr, storage, kind, n, arr[n], given[n], storage)
    BY ArrayIs
  <1>2. PICK c \in Nat, e \in Seq(Elements) : c = arr[n].capacity /\ e = given[n]
    BY <1>1
  <1>3. CASE wanted <= c
    <2>1. r = [a |-> arr[n], st |-> storage]
      BY <1>2, <1>3 DEF reserve
    <2>2. r.a = arr[n] /\ r.st = storage
      BY <2>1
    <2>3. arr[n].storage # NULL_STORAGE => storage[arr[n].storage].cells = Filled(arr[n].capacity, given[n])
      BY <1>1 DEF Owns, Full
    <2>4. arr[n].storage = NULL_STORAGE => wanted = 0 /\ given[n] = <<>>
      BY <1>1, <1>2, <1>3 DEF Owns
    <2> QED
      BY <1>1, <1>2, <1>3, <2>2, <2>3, <2>4
  <1>4. CASE ~(wanted <= c)
    <2>1. kind = "Array"
      BY <1>2, <1>4
    <2>2. PICK new : new = allocate_storage
      OBVIOUS
    <2>3. new \in Storages /\ storage[new] = FREE /\ new # NULL_STORAGE
      BY <2>2, FreeExists DEF Storages, NULL_STORAGE
    <2>4. PICK d \in Nat : d = RoomFor(c, wanted) /\ d > 0 /\ d >= wanted
      BY RoomIs
    <2>5. PICK values : values = IF Owns(n) THEN ElementsOf(n) ELSE <<>>
      OBVIOUS
    <2>6. values = e
      BY <1>1, <1>2, <2>5
    <2>7. PICK fresh : fresh = ConstructAll(Fresh_cells(d), 0, values)
      OBVIOUS
    <2>8. fresh = Filled(d, e)
      <3>1. <<>> \in Seq(Elements) /\ Len(<<>>) = 0 /\ <<>> \o e = e
        OBVIOUS
      <3>2. 0 + Len(e) <= d
        BY <1>1, <1>2, <1>4, <2>4
      <3>3. ConstructAll(Filled(d, <<>>), 0, e) = Filled(d, <<>> \o e)
        BY <3>1, <3>2, ConstructIs
      <3> QED
        BY <2>6, <2>7, <3>1, <3>3, FreshIs
    <2>9. PICK grown : grown = [storage EXCEPT ![new] = [capacity |-> d, cells |-> fresh]]
      OBVIOUS
    <2>10. PICK b : b = Holder(d, arr[n].size, new)
      OBVIOUS
    <2>11. r = [a |-> b, st |-> IF Owns(n) THEN [grown EXCEPT ![arr[n].storage] = Release(Moved(Cells(n), arr[n].size))]
                               ELSE grown]
      BY <1>2, <1>4, <2>2, <2>4, <2>5, <2>7, <2>9, <2>10 DEF reserve
    <2>12. PICK su : su = IF Owns(n) THEN [grown EXCEPT ![arr[n].storage] = Release(Moved(Cells(n), arr[n].size))]
                          ELSE grown
      OBVIOUS
    <2>13. r.a = b /\ r.st = su
      BY <2>11, <2>12
    <2>14. b \in Headers /\ b.capacity = d /\ b.size = arr[n].size /\ b.storage = new
      BY <1>1, <2>3, <2>10 DEF Holder, Headers
    <2>15. storage \in [Storages -> Stored] /\ FREE \in Stored /\ Full(d, e) \in Stored
      BY DEF ArraysInv, Placed, Stored
    <2>16. grown = [storage EXCEPT ![new] = Full(d, e)]
      BY <2>8, <2>9 DEF Full
    <2>17. grown \in [Storages -> Stored] /\ grown[new] = Full(d, e) /\ \A s \in Storages : s # new => grown[s] = storage[s]
      BY <2>3, <2>15, <2>16
    <2>18. /\ su \in [Storages -> Stored] /\ su[new] = Full(d, e)
           /\ arr[n].storage # NULL_STORAGE => su[arr[n].storage] = FREE
           /\ \A s \in Storages : s # new /\ s # arr[n].storage => su[s] = storage[s]
      <3>1. CASE Owns(n)
        <4>1. Release(Moved(Cells(n), arr[n].size)) = FREE
          BY <1>1, <1>2, <3>1, DestroyIs, ReleaseIs DEF Moved
        <4>2. su = [grown EXCEPT ![arr[n].storage] = FREE]
          BY <2>12, <3>1, <4>1
        <4>3. arr[n].storage # new
          <5>1. storage[arr[n].storage].capacity = c /\ FREE.capacity = 0
            BY <1>1, <1>2, <3>1 DEF Full, FREE
          <5>2. Owns(n) => c # 0
            BY <1>2, ArrayIs
          <5> QED
            BY <2>3, <3>1, <5>1, <5>2
        <4> QED
          BY <1>1, <2>15, <2>17, <3>1, <4>2, <4>3
      <3>2. CASE ~Owns(n)
        BY <2>12, <2>17, <3>2 DEF Owns
      <3> QED
        BY <3>1, <3>2
    <2>19. Holds(b, su, e, kind)
      BY <1>1, <1>2, <1>4, <2>1, <2>3, <2>4, <2>14, <2>18 DEF Holds
    <2>20. Becomes(arr, storage, kind, n, b, e, su)
      BY <2>3, <2>14, <2>18, <2>19 DEF Becomes
    <2>21. su[new].cells = Filled(d, e)
      BY <2>18 DEF Full
    <2> QED
      BY <1>2, <2>3, <2>4, <2>13, <2>14, <2>20, <2>21
  <1> QED
    BY <1>3, <1>4

(* A step that changes one array.                                           *)
LEMMA ArrayStep ==
    ASSUME ArraysInv, NEW n \in Names, NEW b, NEW e, NEW su, Becomes(arr, storage, kind, n, b, e, su),
           arr' = [arr EXCEPT ![n] = b], storage' = su, given' = [given EXCEPT ![n] = e],
           UNCHANGED <<kind, view>>
    PROVE  ArraysInv'
  <1>1. Placed(arr, storage, given, kind)
    BY DEF ArraysInv
  <1>2. Placed(arr', storage', given', kind')
    BY <1>1, ArrayChanges
  <1> QED
    BY <1>2 DEF ArraysInv, ViewSound

(* Elements constructed behind those there are.                             *)
LEMMA AppendStep ==
    ASSUME ArraysInv, NEW n \in Names, NEW values \in Seq(Elements), HasRoom(n, Len(values)),
           Append_to(n, values)
    PROVE  ArraysInv'
  <1>1. /\ given[n] \in Seq(Elements) /\ arr[n].size \in Nat /\ arr[n].size = Len(given[n])
        /\ kind = "Bounded_Array" => arr[n].capacity = BOUNDED_SIZE
    BY ArrayIs
  <1>2. PICK e \in Seq(Elements), m \in Nat, k \in Nat : e = given[n] /\ m = arr[n].size /\ k = Len(values)
    BY <1>1, LenProperties
  <1>3. m = Len(e)
    BY <1>1, <1>2
  <1>4. kind = "Array" \/ m + k <= arr[n].capacity
    BY <1>1, <1>2 DEF HasRoom, Growing, ArraysInv
  <1>5. PICK r : r = reserve(n, m + k)
    OBVIOUS
  <1>6. /\ Becomes(arr, storage, kind, n, r.a, e, r.st)
        /\ r.a.size = m /\ m + k <= r.a.capacity
        /\ r.a.storage # NULL_STORAGE => r.st[r.a.storage].cells = Filled(r.a.capacity, e)
        /\ r.a.storage = NULL_STORAGE => m + k = 0 /\ e = <<>>
    <2>1. PICK w \in Nat : w = m + k
      OBVIOUS
    <2>2. (kind = "Array" \/ w <= arr[n].capacity) /\ r = reserve(n, w)
      BY <1>4, <1>5, <2>1
    <2>3. /\ Becomes(arr, storage, kind, n, r.a, given[n], r.st)
          /\ r.a.size = arr[n].size /\ w <= r.a.capacity
          /\ r.a.storage # NULL_STORAGE => r.st[r.a.storage].cells = Filled(r.a.capacity, given[n])
          /\ r.a.storage = NULL_STORAGE => w = 0 /\ given[n] = <<>>
      BY <2>2, ReserveIs
    <2> QED
      BY <1>2, <2>1, <2>3
  <1>7. PICK b, st, at : b = r.a /\ st = r.st /\ at = r.a.storage
    OBVIOUS
  <1>8. /\ arr' = [arr EXCEPT ![n] = WithSize(b, m + k)]
        /\ storage' = IF values = <<>> /\ at = NULL_STORAGE THEN st
                      ELSE WithCells(st, at, ConstructAll(st[at].cells, m, values))
        /\ given' = [given EXCEPT ![n] = e \o values]
        /\ UNCHANGED <<kind, view>>
    BY <1>1, <1>2, <1>5, <1>6, <1>7 DEF Append_to
  <1>9. PICK f : f = e \o values
    OBVIOUS
  <1>10. f \in Seq(Elements) /\ Len(f) = m + k
    BY <1>2, <1>3, <1>9, ConcatProperties
  <1>11. Becomes(arr, storage, kind, n, WithSize(b, m + k), f, storage')
    <2>1. CASE at = NULL_STORAGE
      <3>1. m + k = 0 /\ m = 0 /\ k = 0 /\ e = <<>>
        BY <1>6, <1>7, <2>1
      <3>2. values = <<>> /\ f = e
        <4>1. values = <<>>
          BY <1>2, <3>1, EmptySeq
        <4>2. e \o <<>> = e
          OBVIOUS
        <4> QED
          BY <1>9, <4>1, <4>2
      <3>3. WithSize(b, m + k) = b
        <4>1. b \in Headers /\ b.size = m + k
          BY <1>6, <1>7, <3>1 DEF Becomes
        <4> QED
          BY <4>1 DEF WithSize, Holder, Headers
      <3>4. storage' = st
        BY <1>8, <2>1, <3>2
      <3> QED
        BY <1>6, <1>7, <3>2, <3>3, <3>4
    <2>2. CASE at # NULL_STORAGE
      <3>1. PICK c \in Nat : c = b.capacity
        BY <1>6, <1>7 DEF Becomes, Headers
      <3>2. st[at].cells = Filled(c, e) /\ m + k <= c
        BY <1>6, <1>7, <2>2, <3>1
      <3>3. PICK cells : cells = ConstructAll(st[at].cells, m, values)
        OBVIOUS
      <3>4. cells = Filled(c, f)
        <4>1. m + Len(values) <= c
          BY <1>2, <3>2
        <4>2. ConstructAll(Filled(c, e), m, values) = Filled(c, e \o values)
          BY <1>3, <4>1, ConstructIs
        <4> QED
          BY <1>9, <3>2, <3>3, <4>2
      <3>5. storage' = WithCells(st, at, cells)
        BY <1>8, <2>2, <3>3
      <3>6. PICK l : l = m + k
        OBVIOUS
      <3>7. Becomes(arr, storage, kind, n, WithSize(b, l), f, WithCells(st, b.storage, cells))
        <4>1. l = Len(f) /\ l <= b.capacity /\ cells = Filled(b.capacity, f)
          BY <1>10, <3>1, <3>2, <3>4, <3>6
        <4>2. Becomes(arr, storage, kind, n, b, e, st) /\ b.storage # NULL_STORAGE
          BY <1>6, <1>7, <2>2
        <4> QED
          BY <1>10, <4>1, <4>2, CellsChange
      <3> QED
        BY <1>7, <3>5, <3>6, <3>7
    <2> QED
      BY <2>1, <2>2
  <1>12. given' = [given EXCEPT ![n] = f]
    BY <1>8, <1>9
  <1> QED
    BY <1>8, <1>11, <1>12, ArrayStep

(* One element pushed.                                                      *)
LEMMA PushStep ==
    ASSUME ArraysInv, NEW n \in Names, NEW v \in Elements, array_push_back(n, v)
    PROVE  ArraysInv'
  <1>1. PICK values : values = <<v>>
    OBVIOUS
  <1>2. values \in Seq(Elements) /\ Len(values) = 1
    BY <1>1
  <1> QED
    BY <1>1, <1>2, AppendStep DEF array_push_back

(* A slice of either array appended.                                        *)
LEMMA ExtendStep ==
    ASSUME ArraysInv, NEW n \in Names, NEW from \in Names, NEW index \in 0 .. MAX_ELEMENTS,
           NEW count \in 0 .. MAX_ELEMENTS, extend(n, from, index, count)
    PROVE  ArraysInv'
  <1>1. PICK part : part = slice(arr[from].size, index, count)
    OBVIOUS
  <1>2. PICK values : values = [i \in 1 .. part.size |-> Cells(from)[part.at + i - 1]]
    OBVIOUS
  <1>3. Owns(from) /\ HasRoom(n, part.size) /\ Append_to(n, values)
    BY <1>1, <1>2 DEF extend
  <1>4. PICK e \in Seq(Elements), m \in Nat, c \in Nat :
            e = given[from] /\ m = arr[from].size /\ m = Len(e) /\ c = arr[from].capacity /\ m <= c
            /\ Cells(from) = Filled(c, e)
    BY <1>3, ArrayIs
  <1>5. index \in Nat /\ count \in Nat
    BY ArraysAssumption
  <1>6. part.at \in Nat /\ part.size \in Nat /\ (part.size = 0 \/ part.at + part.size <= m)
    BY <1>1, <1>4, <1>5 DEF slice
  <1>7. PICK p \in Nat, k \in Nat : p = part.at /\ k = part.size
    BY <1>6
  <1>8. ASSUME NEW i \in 1 .. k PROVE Cells(from)[p + i - 1] \in Elements
    <2>0. p + k <= m
      BY <1>6, <1>7, <1>8
    <2>1. p + i - 1 \in 0 .. c - 1 /\ p + i - 1 < m /\ p + i - 1 + 1 \in 1 .. m
      BY <1>4, <2>0
    <2>2. Filled(c, e)[p + i - 1] = e[p + i - 1 + 1]
      BY <1>4, <2>1, FilledIs
    <2>3. e[p + i - 1 + 1] \in Elements
      BY <1>4, <2>1, ElementOfSeq
    <2> QED
      BY <1>4, <2>2, <2>3
  <1>9. values = [i \in 1 .. k |-> Cells(from)[p + i - 1]]
    BY <1>2, <1>7
  <1>10. values \in Seq(Elements) /\ Len(values) = k
    BY <1>8, <1>9
  <1> QED
    BY <1>3, <1>7, <1>10, AppendStep

(* reserve() alone: the elements stay.                                      *)
LEMMA GrowStep ==
    ASSUME ArraysInv, NEW n \in Names, NEW wanted \in 0 .. MAX_ELEMENTS, Grow(n, wanted)
    PROVE  ArraysInv'
  <1>1. wanted \in Nat /\ kind = "Array"
    BY ArraysAssumption DEF Grow, Growing
  <1>2. PICK r : r = reserve(n, wanted)
    OBVIOUS
  <1>3. Becomes(arr, storage, kind, n, r.a, given[n], r.st)
    BY <1>1, <1>2, ReserveIs
  <1>4. given \in [Names -> Seq(Elements)]
    BY DEF ArraysInv, Placed
  <1>5. given = [given EXCEPT ![n] = given[n]]
    BY <1>4
  <1> QED
    BY <1>2, <1>3, <1>5, ArrayStep DEF Grow

(* The elements of an array become others in the storage it has.            *)
LEMMA RefillStep ==
    ASSUME ArraysInv, NEW n \in Names, Owns(n), NEW d \in Seq(Elements), NEW l, l = Len(d),
           l <= arr[n].capacity, NEW cells, cells = Filled(arr[n].capacity, d),
           arr' = [arr EXCEPT ![n] = WithSize(arr[n], l)],
           storage' = WithCells(storage, arr[n].storage, cells),
           given' = [given EXCEPT ![n] = d],
           UNCHANGED <<kind, view>>
    PROVE  ArraysInv'
  <1>1. Becomes(arr, storage, kind, n, arr[n], given[n], storage) /\ arr[n].storage # NULL_STORAGE
    BY ArrayIs DEF Owns
  <1>2. Becomes(arr, storage, kind, n, WithSize(arr[n], l), d, WithCells(storage, arr[n].storage, cells))
    BY <1>1, CellsChange
  <1> QED
    BY <1>2, ArrayStep

(* What an array with elements has.                                         *)
LEMMA ElementsLeave ==
    ASSUME ArraysInv, NEW n \in Names, Owns(n) \/ arr[n].size > 0
    PROVE  /\ Owns(n) /\ Cells(n) = Filled(arr[n].capacity, given[n]) /\ arr[n].capacity \in Nat
           /\ given[n] \in Seq(Elements) /\ arr[n].size \in Nat /\ arr[n].size = Len(given[n])
           /\ arr[n].size <= arr[n].capacity
  <1>1. ~Owns(n) => given[n] = <<>> /\ arr[n].size = Len(given[n]) /\ Len(<<>>) = 0
    BY ArrayIs
  <1>2. Owns(n)
    BY <1>1
  <1> QED
    BY <1>2, ArrayIs

(* The last element popped.                                                 *)
LEMMA PopBackStep ==
    ASSUME ArraysInv, NEW n \in Names, pop_back(n)
    PROVE  ArraysInv'
  <1>1. /\ arr[n].size > 0
        /\ arr' = [arr EXCEPT ![n] = WithSize(@, arr[n].size - 1)]
        /\ storage' = WithCells(storage, arr[n].storage, [Cells(n) EXCEPT ![arr[n].size - 1] = End(@)])
        /\ given' = [given EXCEPT ![n] = SubSeq(@, 1, Len(@) - 1)]
        /\ UNCHANGED <<kind, view>>
    BY DEF pop_back
  <1>2. /\ Owns(n) /\ Cells(n) = Filled(arr[n].capacity, given[n]) /\ arr[n].capacity \in Nat
        /\ given[n] \in Seq(Elements) /\ arr[n].size \in Nat /\ arr[n].size = Len(given[n])
        /\ arr[n].size <= arr[n].capacity
    BY <1>1, ElementsLeave
  <1>3. PICK e \in Seq(Elements), m \in Nat, c \in Nat : e = given[n] /\ m = arr[n].size /\ c = arr[n].capacity
    BY <1>2
  <1>4. m = Len(e) /\ m # 0 /\ m <= c /\ m - 1 \in Nat
    BY <1>1, <1>2, <1>3
  <1>5. PICK l : l = m - 1
    OBVIOUS
  <1>6. PICK d : d = SubSeq(e, 1, l)
    OBVIOUS
  <1>7. d \in Seq(Elements) /\ l = Len(d)
    <2>1. 1 \in 1 .. Len(e) + 1 /\ l \in 0 .. Len(e)
      BY <1>4, <1>5
    <2> QED
      BY <1>4, <1>5, <1>6, <2>1, SubSeqProperties
  <1>8. PICK cells : cells = [Cells(n) EXCEPT ![m - 1] = End(@)]
    OBVIOUS
  <1>9. cells = Filled(arr[n].capacity, d)
    <2>1. EndedAt(Filled(c, e), m - 1) = Filled(c, SubSeq(e, 1, m - 1))
      BY <1>4, EndLast
    <2> QED
      BY <1>2, <1>3, <1>5, <1>6, <1>8, <2>1 DEF EndedAt
  <1>10. l <= arr[n].capacity
    BY <1>3, <1>4, <1>5
  <1>11. /\ arr' = [arr EXCEPT ![n] = WithSize(arr[n], l)]
         /\ storage' = WithCells(storage, arr[n].storage, cells)
         /\ given' = [given EXCEPT ![n] = d]
         /\ UNCHANGED <<kind, view>>
    BY <1>1, <1>3, <1>4, <1>5, <1>6, <1>8
  <1> QED
    BY <1>2, <1>7, <1>9, <1>10, <1>11, RefillStep

(* The first element popped.                                                *)
LEMMA PopFrontStep ==
    ASSUME ArraysInv, NEW n \in Names, array_pop_front(n)
    PROVE  ArraysInv'
  <1>1. /\ arr[n].size > 0
        /\ arr' = [arr EXCEPT ![n] = WithSize(@, arr[n].size - 1)]
        /\ storage' = WithCells(storage, arr[n].storage, ShiftDown(Cells(n), arr[n].size))
        /\ given' = [given EXCEPT ![n] = Tail(@)]
        /\ UNCHANGED <<kind, view>>
    BY DEF array_pop_front
  <1>2. /\ Owns(n) /\ Cells(n) = Filled(arr[n].capacity, given[n]) /\ arr[n].capacity \in Nat
        /\ given[n] \in Seq(Elements) /\ arr[n].size \in Nat /\ arr[n].size = Len(given[n])
        /\ arr[n].size <= arr[n].capacity
    BY <1>1, ElementsLeave
  <1>3. PICK e \in Seq(Elements), m \in Nat, c \in Nat : e = given[n] /\ m = arr[n].size /\ c = arr[n].capacity
    BY <1>2
  <1>4. m = Len(e) /\ m # 0 /\ m <= c /\ m - 1 \in Nat
    BY <1>1, <1>2, <1>3
  <1>5. PICK l : l = m - 1
    OBVIOUS
  <1>6. PICK d : d = Tail(e)
    OBVIOUS
  <1>7. d \in Seq(Elements) /\ l = Len(d)
    BY <1>4, <1>5, <1>6
  <1>8. PICK cells : cells = ShiftDown(Cells(n), m)
    OBVIOUS
  <1>9. cells = Filled(arr[n].capacity, d)
    BY <1>2, <1>3, <1>4, <1>6, <1>8, ShiftIs
  <1>10. l <= arr[n].capacity
    BY <1>3, <1>4, <1>5
  <1>11. /\ arr' = [arr EXCEPT ![n] = WithSize(arr[n], l)]
         /\ storage' = WithCells(storage, arr[n].storage, cells)
         /\ given' = [given EXCEPT ![n] = d]
         /\ UNCHANGED <<kind, view>>
    BY <1>1, <1>3, <1>5, <1>6, <1>8
  <1> QED
    BY <1>2, <1>7, <1>9, <1>10, <1>11, RefillStep

(* All elements ended, the storage kept.                                    *)
LEMMA ClearStep ==
    ASSUME ArraysInv, NEW n \in Names, array_clear(n)
    PROVE  ArraysInv'
  <1>1. /\ Owns(n)
        /\ arr' = [arr EXCEPT ![n] = WithSize(@, 0)]
        /\ storage' = WithCells(storage, arr[n].storage, destroy_elements(Cells(n), arr[n].size))
        /\ given' = [given EXCEPT ![n] = <<>>]
        /\ UNCHANGED <<kind, view>>
    BY DEF array_clear
  <1>2. /\ Cells(n) = Filled(arr[n].capacity, given[n]) /\ arr[n].capacity \in Nat
        /\ given[n] \in Seq(Elements) /\ arr[n].size = Len(given[n])
        /\ arr[n].size <= arr[n].capacity
    BY <1>1, ElementsLeave
  <1>3. destroy_elements(Cells(n), arr[n].size) = Filled(arr[n].capacity, <<>>)
    BY <1>2, DestroyIs
  <1>4. <<>> \in Seq(Elements) /\ 0 = Len(<<>>) /\ 0 <= arr[n].capacity
    BY <1>2
  <1> QED
    BY <1>1, <1>3, <1>4, RefillStep

(* What is left when an array has destroyed its elements and freed its      *)
(* storage, or emptied its slots.                                           *)
LEMMA DroppedIs ==
    ASSUME ArraysInv, NEW n \in Names
    PROVE  /\ Dropped(n) \in [Storages -> Stored]
           /\ \A s \in Storages : s # arr[n].storage => Dropped(n)[s] = storage[s]
           /\ kind = "Array" /\ Owns(n) => Dropped(n)[arr[n].storage] = FREE
           /\ kind = "Bounded_Array" => Dropped(n)[arr[n].storage] = Full(arr[n].capacity, <<>>)
  <1>1. /\ arr[n].capacity \in Nat /\ arr[n].size <= arr[n].capacity
        /\ given[n] \in Seq(Elements) /\ arr[n].size = Len(given[n])
        /\ ~Owns(n) => kind = "Array"
        /\ Owns(n) => /\ arr[n].storage \in Storages
                      /\ storage[arr[n].storage] = Full(arr[n].capacity, given[n])
                      /\ Cells(n) = Filled(arr[n].capacity, given[n])
    BY ArrayIs
  <1>2. storage \in [Storages -> Stored] /\ (kind = "Array" \/ kind = "Bounded_Array")
    BY DEF ArraysInv, Placed
  <1>3. FREE \in Stored /\ Full(arr[n].capacity, <<>>) \in Stored
    <2>1. <<>> \in Seq(Elements)
      OBVIOUS
    <2>2. Full(arr[n].capacity, <<>>) \in Stored
      BY <1>1, <2>1, FullIsStored
    <2> QED
      BY <2>2 DEF Stored
  <1>4. CASE ~Owns(n)
    <2>1. Dropped(n) = storage
      BY <1>4 DEF Dropped
    <2> QED
      BY <1>1, <1>2, <1>4, <2>1
  <1>5. CASE Owns(n)
    <2>1. PICK cells : cells = destroy_elements(Cells(n), arr[n].size)
      OBVIOUS
    <2>2. cells = Filled(arr[n].capacity, <<>>)
      BY <1>1, <1>5, <2>1, DestroyIs
    <2>3. CASE kind = "Array"
      <3>1. Dropped(n) = [storage EXCEPT ![arr[n].storage] = Release(cells)]
        BY <1>5, <2>1, <2>3 DEF Dropped, Growing
      <3>2. Release(cells) = FREE
        BY <1>1, <2>2, ReleaseIs
      <3> QED
        BY <1>1, <1>2, <1>3, <1>5, <2>3, <3>1, <3>2
    <2>4. CASE kind = "Bounded_Array"
      <3>1. Dropped(n) = WithCells(storage, arr[n].storage, cells)
        BY <1>5, <2>1, <2>4 DEF Dropped, Growing
      <3>2. storage[arr[n].storage].capacity = arr[n].capacity
        BY <1>1, <1>5 DEF Full
      <3>3. Dropped(n) = [storage EXCEPT ![arr[n].storage] = Full(arr[n].capacity, <<>>)]
        BY <2>2, <3>1, <3>2 DEF WithCells, Full
      <3> QED
        BY <1>1, <1>2, <1>3, <1>5, <2>4, <3>3
    <2> QED
      BY <1>2, <2>3, <2>4
  <1> QED
    BY <1>4, <1>5

(* The storage an array gets when it is made anew.                          *)
Anew(n) == IF Owns(n) THEN arr[n].storage ELSE allocate_storage

(* It is the array's own or one that was free.                              *)
LEMMA AnewIs ==
    ASSUME ArraysInv, NEW n \in Names
    PROVE  /\ Anew(n) \in Storages /\ Anew(n) # NULL_STORAGE
           /\ Anew(n) = arr[n].storage \/ (~Owns(n) /\ storage[Anew(n)] = FREE)
  <1>1. CASE Owns(n)
    BY <1>1, ArrayIs DEF Anew, Owns
  <1>2. CASE ~Owns(n)
    BY <1>2, FreeExists DEF Anew, Storages, NULL_STORAGE
  <1> QED
    BY <1>1, <1>2

(* An array made anew with elements v.                                      *)
LEMMA RebuildStep ==
    ASSUME ArraysInv, NEW n \in Names, NEW c \in Nat, c # 0, NEW v \in Seq(Elements), NEW l, l = Len(v), l <= c,
           kind = "Bounded_Array" => c = BOUNDED_SIZE,
           NEW new, new = Anew(n),
           NEW cells, cells = IF Growing THEN Fresh_cells(c) ELSE Dropped(n)[new].cells,
           arr' = [arr EXCEPT ![n] = Holder(c, l, new)],
           storage' = [Dropped(n) EXCEPT ![new] = [capacity |-> c, cells |-> ConstructAll(cells, 0, v)]],
           given' = [given EXCEPT ![n] = v],
           UNCHANGED <<kind, view>>
    PROVE  ArraysInv'
  <1>1. /\ new \in Storages /\ new # NULL_STORAGE
        /\ new = arr[n].storage \/ (~Owns(n) /\ storage[new] = FREE)
    BY AnewIs
  <1>2. /\ Dropped(n) \in [Storages -> Stored]
        /\ \A s \in Storages : s # arr[n].storage => Dropped(n)[s] = storage[s]
        /\ kind = "Bounded_Array" => Dropped(n)[arr[n].storage] = Full(arr[n].capacity, <<>>)
    BY DroppedIs
  <1>3. kind = "Array" \/ kind = "Bounded_Array"
    BY DEF ArraysInv
  <1>4. l \in Nat
    BY LenProperties
  <1>5. cells = Filled(c, <<>>)
    <2>1. CASE kind = "Array"
      BY <2>1, FreshIs DEF Growing
    <2>2. CASE kind = "Bounded_Array"
      <3>1. Owns(n) /\ arr[n].capacity = c
        BY <2>2, ArrayIs
      <3>2. new = arr[n].storage /\ ~Growing
        BY <1>1, <2>2, <3>1 DEF Growing
      <3>3. Dropped(n)[new] = Full(c, <<>>)
        BY <1>2, <2>2, <3>1, <3>2
      <3> QED
        BY <3>2, <3>3 DEF Full
    <2> QED
      BY <1>3, <2>1, <2>2
  <1>6. ConstructAll(cells, 0, v) = Filled(c, v)
    <2>1. <<>> \in Seq(Elements) /\ 0 = Len(<<>>) /\ <<>> \o v = v /\ 0 + Len(v) <= c
      BY <1>4
    <2>2. ConstructAll(Filled(c, <<>>), 0, v) = Filled(c, <<>> \o v)
      BY <2>1, ConstructIs
    <2> QED
      BY <1>5, <2>1, <2>2
  <1>7. PICK su : su = [Dropped(n) EXCEPT ![new] = Full(c, v)]
    OBVIOUS
  <1>8. storage' = su
    BY <1>6, <1>7 DEF Full
  <1>9. Full(c, v) \in Stored
    BY FullIsStored
  <1>10. su \in [Storages -> Stored] /\ su[new] = Full(c, v) /\ \A s \in Storages : s # new => su[s] = Dropped(n)[s]
    BY <1>1, <1>2, <1>7, <1>9
  <1>11. PICK b : b = Holder(c, l, new)
    OBVIOUS
  <1>12. b \in Headers /\ b.capacity = c /\ b.size = l /\ b.storage = new
    BY <1>1, <1>4, <1>11 DEF Holder, Headers
  <1>13. Holds(b, su, v, kind)
    BY <1>1, <1>10, <1>12 DEF Holds
  <1>14. \A s \in Storages : s # b.storage /\ s # arr[n].storage => su[s] = storage[s]
    BY <1>2, <1>10, <1>12
  <1>15. arr[n].storage # b.storage /\ arr[n].storage # NULL_STORAGE => su[arr[n].storage] = FREE
    BY <1>1, <1>12 DEF Owns
  <1>16. Becomes(arr, storage, kind, n, b, v, su)
    BY <1>1, <1>10, <1>12, <1>13, <1>14, <1>15 DEF Becomes
  <1>17. arr' = [arr EXCEPT ![n] = b]
    BY <1>11
  <1> QED
    BY <1>8, <1>16, <1>17, ArrayStep

(* Array(initial_size, initial_value).                                      *)
LEMMA FilledAnewStep ==
    ASSUME ArraysInv, NEW n \in Names, NEW size_ \in 0 .. BOUNDED_SIZE, NEW v \in Elements,
           construct_filled(n, size_, v)
    PROVE  ArraysInv'
  <1>1. size_ \in Nat /\ size_ <= BOUNDED_SIZE /\ BOUNDED_SIZE \in Nat \ {0}
    BY ArraysAssumption
  <1>2. PICK c : c = IF ~Growing THEN BOUNDED_SIZE ELSE IF size_ = 0 THEN 1 ELSE size_
    OBVIOUS
  <1>3. c \in Nat /\ c # 0 /\ size_ <= c /\ (kind = "Bounded_Array" => c = BOUNDED_SIZE)
    BY <1>1, <1>2 DEF Growing
  <1>4. PICK values : values = [i \in 1 .. size_ |-> v]
    OBVIOUS
  <1>5. values \in Seq(Elements) /\ size_ = Len(values)
    BY <1>1, <1>4
  <1>6. PICK new : new = Anew(n)
    OBVIOUS
  <1>7. PICK cells : cells = IF Growing THEN Fresh_cells(c) ELSE Dropped(n)[new].cells
    OBVIOUS
  <1>8. /\ arr' = [arr EXCEPT ![n] = Holder(c, size_, new)]
        /\ storage' = [Dropped(n) EXCEPT ![new] = [capacity |-> c, cells |-> ConstructAll(cells, 0, values)]]
        /\ given' = [given EXCEPT ![n] = values]
        /\ UNCHANGED <<kind, view>>
    BY <1>2, <1>4, <1>6, <1>7 DEF construct_filled, Anew
  <1> QED
    BY <1>3, <1>5, <1>6, <1>7, <1>8, RebuildStep

(* Of two arrays, the other one.                                            *)
LEMMA OtherIs ==
    ASSUME NEW n \in Names
    PROVE  Other(n) \in Names /\ Other(n) # n /\ \A m \in Names : m = n \/ m = Other(n)
  <1>1. \E m \in Names : m # n
    BY DEF Names
  <1>2. Other(n) \in Names /\ Other(n) # n
    BY <1>1 DEF Other
  <1> QED
    BY <1>2 DEF Names

(* operator = (const Array&).                                               *)
LEMMA CopyStep ==
    ASSUME ArraysInv, NEW n \in Names, copy_assign(n)
    PROVE  ArraysInv'
  <1>1. PICK from \in Names : from = Other(n)
    BY OtherIs
  <1>2. PICK c : c = IF arr[from].capacity = 0 THEN 1 ELSE arr[from].capacity
    OBVIOUS
  <1>3. PICK values : values = IF Owns(from) THEN ElementsOf(from) ELSE <<>>
    OBVIOUS
  <1>4. /\ arr[from].capacity \in Nat /\ arr[from].size <= arr[from].capacity
        /\ given[from] \in Seq(Elements) /\ arr[from].size = Len(given[from]) /\ arr[from].size \in Nat
        /\ ~Owns(from) => given[from] = <<>> /\ kind = "Array"
        /\ Owns(from) => /\ ElementsOf(from) = given[from]
                         /\ kind = "Bounded_Array" => arr[from].capacity = BOUNDED_SIZE
                         /\ arr[from].capacity # 0
    BY ArrayIs
  <1>5. values = given[from]
    BY <1>3, <1>4
  <1>6. PICK l : l = Len(values)
    OBVIOUS
  <1>7. c \in Nat /\ c # 0 /\ l <= c /\ (kind = "Bounded_Array" => c = BOUNDED_SIZE)
    BY <1>2, <1>4, <1>5, <1>6
  <1>8. PICK new : new = Anew(n)
    OBVIOUS
  <1>9. PICK cells : cells = IF Growing THEN Fresh_cells(c) ELSE Dropped(n)[new].cells
    OBVIOUS
  <1>10. /\ arr' = [arr EXCEPT ![n] = Holder(c, l, new)]
         /\ storage' = [Dropped(n) EXCEPT ![new] = [capacity |-> c, cells |-> ConstructAll(cells, 0, values)]]
         /\ given' = [given EXCEPT ![n] = values]
         /\ UNCHANGED <<kind, view>>
    BY <1>1, <1>2, <1>3, <1>5, <1>6, <1>8, <1>9 DEF copy_assign, Anew
  <1>11. values \in Seq(Elements)
    BY <1>4, <1>5
  <1> QED
    BY <1>6, <1>7, <1>8, <1>9, <1>10, <1>11, RebuildStep

(* An array that stays as it is.                                            *)
LEMMA StaysIs ==
    ASSUME NEW as, NEW st, NEW g, NEW k, Placed(as, st, g, k), NEW n \in Names
    PROVE  Becomes(as, st, k, n, as[n], g[n], st)
  <1>1. /\ as[n] \in Headers /\ g[n] \in Seq(Elements) /\ st \in [Storages -> Stored]
        /\ Holds(as[n], st, g[n], k)
    BY DEF Placed
  <1> QED
    BY <1>1 DEF Becomes

(* A step after which the arrays are placed as some other values are.       *)
LEMMA PlacedStep ==
    ASSUME ArraysInv, NEW as, NEW st, NEW g, Placed(as, st, g, kind),
           arr' = as, storage' = st, given' = g, UNCHANGED <<kind, view>>
    PROVE  ArraysInv'
  <1>1. Placed(arr', storage', given', kind')
    BY Zenon
  <1> QED
    BY <1>1 DEF ArraysInv, ViewSound

(* The storage of a grown array changes hands: the source gives it up, then *)
(* the target takes it, elements and all.                                   *)
LEMMA HandOverStep ==
    ASSUME ArraysInv, NEW n \in Names, kind = "Array", move_assign(n)
    PROVE  ArraysInv'
  <1>1. PICK from \in Names : from = Other(n) /\ from # n
    BY OtherIs
  <1>2. /\ arr' = [arr EXCEPT ![n] = arr[from], ![from] = Holder(0, 0, NULL_STORAGE)]
        /\ storage' = Dropped(n)
        /\ given' = [given EXCEPT ![n] = given[from], ![from] = <<>>]
        /\ UNCHANGED <<kind, view>>
    BY <1>1 DEF move_assign, Growing, Bare
  <1>3. /\ arr \in [Names -> Headers] /\ storage \in [Storages -> Stored] /\ given \in [Names -> Seq(Elements)]
        /\ Placed(arr, storage, given, kind)
        /\ arr[n].storage # arr[from].storage \/ arr[from].storage = NULL_STORAGE
    BY <1>1 DEF ArraysInv, Placed
  <1>4. arr[from].storage \in Storages \cup {NULL_STORAGE} /\ arr[n].storage \in Storages \cup {NULL_STORAGE}
    BY <1>3 DEF Headers
  <1>5. NULL_STORAGE \notin Storages /\ FREE \in Stored
    BY DEF NULL_STORAGE, Storages, Stored
  <1>6. PICK bare : bare = Holder(0, 0, NULL_STORAGE)
    OBVIOUS
  <1>7. bare \in Headers /\ bare.capacity = 0 /\ bare.size = 0 /\ bare.storage = NULL_STORAGE
    BY <1>6 DEF Holder, Headers
  <1>8. PICK left : left = [s \in Storages |-> IF s = arr[from].storage THEN FREE ELSE storage[s]]
    OBVIOUS
  <1>9. /\ left \in [Storages -> Stored]
        /\ \A s \in Storages : s = arr[from].storage => left[s] = FREE
        /\ \A s \in Storages : s # arr[from].storage => left[s] = storage[s]
    BY <1>3, <1>5, <1>8
  <1>10. Becomes(arr, storage, kind, from, bare, <<>>, left)
    <2>1. Holds(bare, left, <<>>, kind)
      BY <1>7 DEF Holds
    <2>2. <<>> \in Seq(Elements)
      OBVIOUS
    <2>3. arr[from].storage # NULL_STORAGE => left[arr[from].storage] = FREE
      BY <1>4, <1>9
    <2> QED
      BY <1>7, <1>9, <2>1, <2>2, <2>3 DEF Becomes
  <1>11. PICK as : as = [arr EXCEPT ![from] = bare]
    OBVIOUS
  <1>12. PICK g : g = [given EXCEPT ![from] = <<>>]
    OBVIOUS
  <1>13. Placed(as, left, g, kind)
    BY <1>3, <1>10, <1>11, <1>12, ArrayChanges
  <1>14. as[n] = arr[n]
    BY <1>1, <1>3, <1>11
  <1>15. PICK b : b = arr[from]
    OBVIOUS
  <1>16. PICK e : e = given[from]
    OBVIOUS
  <1>17. b \in Headers /\ e \in Seq(Elements) /\ Holds(b, storage, e, kind)
    BY <1>3, <1>15, <1>16 DEF Placed
  <1>18. /\ Dropped(n) \in [Storages -> Stored]
         /\ \A s \in Storages : s # arr[n].storage => Dropped(n)[s] = storage[s]
         /\ Owns(n) => Dropped(n)[arr[n].storage] = FREE
    BY DroppedIs
  <1>19. Becomes(as, left, kind, n, b, e, Dropped(n))
    <2>1. b.storage # NULL_STORAGE => left[b.storage] = FREE /\ Dropped(n)[b.storage] = storage[b.storage]
      BY <1>3, <1>4, <1>9, <1>15, <1>18
    <2>2. Holds(b, Dropped(n), e, kind)
      BY <1>17, <2>1 DEF Holds
    <2>3. as[n].storage # NULL_STORAGE => Dropped(n)[as[n].storage] = FREE
      BY <1>14, <1>18 DEF Owns
    <2>4. \A s \in Storages : s # b.storage /\ s # as[n].storage => Dropped(n)[s] = left[s]
      BY <1>9, <1>14, <1>15, <1>18
    <2> QED
      BY <1>17, <1>18, <2>1, <2>2, <2>3, <2>4 DEF Becomes
  <1>20. Placed([as EXCEPT ![n] = b], Dropped(n), [g EXCEPT ![n] = e], kind)
    BY <1>13, <1>19, ArrayChanges
  <1>21. arr' = [as EXCEPT ![n] = b]
    BY <1>1, <1>2, <1>3, <1>6, <1>11, <1>15
  <1>22. given' = [g EXCEPT ![n] = e]
    BY <1>1, <1>2, <1>3, <1>12, <1>16
  <1> QED
    BY <1>2, <1>20, <1>21, <1>22, PlacedStep

(* The elements of a bounded array move one by one; then those they moved   *)
(* from end.                                                                *)
LEMMA MoveOverStep ==
    ASSUME ArraysInv, NEW n \in Names, kind = "Bounded_Array", move_assign(n)
    PROVE  ArraysInv'
  <1>1. PICK from \in Names : from = Other(n) /\ from # n
    BY OtherIs
  <1>2. PICK l : l = arr[from].size
    OBVIOUS
  <1>3. PICK e : e = given[from]
    OBVIOUS
  <1>4. PICK moved : moved = ConstructAll(Dropped(n)[arr[n].storage].cells, 0, ElementsOf(from))
    OBVIOUS
  <1>5. PICK gone : gone = destroy_elements(Cells(from), l)
    OBVIOUS
  <1>6. /\ arr' = [arr EXCEPT ![n] = WithSize(@, l), ![from] = WithSize(@, 0)]
        /\ storage' = WithCells(WithCells(Dropped(n), arr[n].storage, moved), arr[from].storage, gone)
        /\ given' = [given EXCEPT ![n] = e, ![from] = <<>>]
        /\ UNCHANGED <<kind, view>>
    BY <1>1, <1>2, <1>3, <1>4, <1>5, Zenon DEF move_assign, Growing
  <1>7. /\ arr \in [Names -> Headers] /\ given \in [Names -> Seq(Elements)]
        /\ Placed(arr, storage, given, kind)
        /\ arr[n].storage # arr[from].storage \/ arr[from].storage = NULL_STORAGE
    BY <1>1 DEF ArraysInv, Placed
  <1>8. /\ Owns(n) /\ arr[n] \in Headers /\ arr[n].storage \in Storages
        /\ arr[n].capacity = BOUNDED_SIZE
    BY ArrayIs
  <1>9. /\ Owns(from) /\ arr[from].capacity = BOUNDED_SIZE /\ e \in Seq(Elements) /\ l = Len(e)
        /\ l \in Nat /\ l <= BOUNDED_SIZE
        /\ Cells(from) = Filled(BOUNDED_SIZE, e) /\ ElementsOf(from) = e
    BY <1>2, <1>3, ArrayIs
  <1>10. BOUNDED_SIZE \in Nat /\ BOUNDED_SIZE # 0 /\ <<>> \in Seq(Elements) /\ 0 = Len(<<>>)
    BY ArraysAssumption
  <1>11. /\ Dropped(n) \in [Storages -> Stored]
         /\ \A s \in Storages : s # arr[n].storage => Dropped(n)[s] = storage[s]
         /\ Dropped(n)[arr[n].storage] = Full(BOUNDED_SIZE, <<>>)
    BY <1>8, DroppedIs
  <1>12. moved = Filled(BOUNDED_SIZE, e)
    <2>1. Dropped(n)[arr[n].storage].cells = Filled(BOUNDED_SIZE, <<>>)
      BY <1>11 DEF Full
    <2>2. <<>> \in Seq(Elements) /\ 0 = Len(<<>>) /\ <<>> \o e = e /\ 0 + Len(e) <= BOUNDED_SIZE
          /\ e \in Seq(Elements) /\ BOUNDED_SIZE \in Nat
      BY <1>9, <1>10
    <2>3. ConstructAll(Filled(BOUNDED_SIZE, <<>>), 0, e) = Filled(BOUNDED_SIZE, <<>> \o e)
      BY <2>2, ConstructIs
    <2> QED
      BY <1>4, <1>9, <2>1, <2>2, <2>3
  <1>13. gone = Filled(BOUNDED_SIZE, <<>>)
    BY <1>5, <1>9, <1>10, DestroyIs
  <1>14. PICK b : b = WithSize(arr[n], 0)
    OBVIOUS
  <1>15. b \in Headers /\ b.capacity = BOUNDED_SIZE /\ b.size = 0 /\ b.storage = arr[n].storage
    BY <1>8, <1>14 DEF WithSize, Holder, Headers
  <1>16. Becomes(arr, storage, kind, n, b, <<>>, Dropped(n))
    <2>1. Holds(b, Dropped(n), <<>>, kind)
      BY <1>8, <1>10, <1>11, <1>15 DEF Holds, Owns
    <2> QED
      BY <1>10, <1>11, <1>15, <2>1 DEF Becomes
  <1>17. PICK su : su = WithCells(Dropped(n), arr[n].storage, moved)
    OBVIOUS
  <1>18. Becomes(arr, storage, kind, n, WithSize(b, l), e, su)
    <2>1. b.storage # NULL_STORAGE /\ l <= b.capacity /\ moved = Filled(b.capacity, e)
      BY <1>8, <1>9, <1>12, <1>15 DEF Owns
    <2>2. Becomes(arr, storage, kind, n, WithSize(b, l), e, WithCells(Dropped(n), b.storage, moved))
      BY <1>9, <1>16, <2>1, CellsChange
    <2> QED
      BY <1>15, <1>17, <2>2
  <1>19. WithSize(b, l) = WithSize(arr[n], l)
    BY <1>8, <1>15 DEF WithSize
  <1>20. PICK as : as = [arr EXCEPT ![n] = WithSize(arr[n], l)]
    OBVIOUS
  <1>21. PICK g : g = [given EXCEPT ![n] = e]
    OBVIOUS
  <1>22. Placed(as, su, g, kind)
    BY <1>7, <1>18, <1>19, <1>20, <1>21, ArrayChanges
  <1>23. as[from] = arr[from] /\ g[from] = e
    BY <1>1, <1>3, <1>7, <1>20, <1>21
  <1>24. Becomes(as, su, kind, from, arr[from], e, su)
    BY <1>22, <1>23, StaysIs
  <1>25. PICK none : none = 0
    OBVIOUS
  <1>26. Becomes(as, su, kind, from, WithSize(arr[from], none), <<>>, WithCells(su, arr[from].storage, gone))
    <2>1. arr[from].storage # NULL_STORAGE /\ none <= arr[from].capacity /\ none = Len(<<>>)
          /\ gone = Filled(arr[from].capacity, <<>>)
      BY <1>9, <1>10, <1>13, <1>25 DEF Owns
    <2> QED
      BY <1>10, <1>24, <2>1, CellsChange
  <1>27. Placed([as EXCEPT ![from] = WithSize(arr[from], none)],
                WithCells(su, arr[from].storage, gone), [g EXCEPT ![from] = <<>>], kind)
    BY <1>22, <1>26, ArrayChanges
  <1>28. arr' = [as EXCEPT ![from] = WithSize(arr[from], none)]
    BY <1>1, <1>6, <1>7, <1>20, <1>25
  <1>29. given' = [g EXCEPT ![from] = <<>>]
    BY <1>1, <1>6, <1>7, <1>21
  <1>30. storage' = WithCells(su, arr[from].storage, gone)
    BY <1>6, <1>17
  <1> QED
    BY <1>6, <1>27, <1>28, <1>29, <1>30, PlacedStep

-----------------------------------------------------------------------------
(* alloc_array leaves room for the header and for the alignment.            *)
LEMMA ViewStep ==
    ASSUME ArraysInv, NEW count \in ArrayCounts, NEW alignment \in ArrayAlignments, NEW base \in BlockAddresses,
           alloc_array(count, alignment, base)
    PROVE  ArraysInv'
  <1>1. count \in Nat /\ alignment \in Nat \ {0} /\ base \in Nat /\ HEADER_SIZE \in Nat
    BY ArraysAssumption
  <1>2. count # 0
    BY DEF alloc_array, alloc_array_size
  <1>3. PICK at : at = align_up(base + HEADER_SIZE, alignment)
    OBVIOUS
  <1>4. at \in Nat /\ base + HEADER_SIZE <= at /\ at <= base + HEADER_SIZE + alignment - 1
        /\ at % alignment = 0
    BY <1>1, <1>3 DEF align_up
  <1>5. view' = [count |-> count, alignment |-> alignment, base |-> base,
                 size |-> count + HEADER_SIZE + alignment - 1, data |-> at]
    BY <1>2, <1>3 DEF alloc_array, alloc_array_size
  <1>6. ViewSound(view)'
    BY <1>1, <1>4, <1>5 DEF ViewSound
  <1>7. Placed(arr, storage, given, kind)'
    BY DEF ArraysInv, alloc_array
  <1> QED
    BY <1>6, <1>7 DEF ArraysInv, alloc_array

(* Every step keeps the invariant.                                          *)
LEMMA ArraysStep ==
    ArraysInv /\ [ArraysNext]_arrayVars => ArraysInv'
  <1> SUFFICES ASSUME ArraysInv, [ArraysNext]_arrayVars PROVE ArraysInv'
    OBVIOUS
  <1>1. CASE UNCHANGED arrayVars
    <2>1. Placed(arr, storage, given, kind)' /\ ViewSound(view)'
      BY <1>1 DEF ArraysInv, arrayVars
    <2> QED
      BY <1>1, <2>1 DEF ArraysInv, arrayVars
  <1>2. CASE free_array
    <2>1. ViewSound(view)'
      BY <1>2 DEF free_array, ViewSound
    <2>2. Placed(arr, storage, given, kind)'
      BY <1>2 DEF ArraysInv, free_array
    <2> QED
      BY <1>2, <2>1, <2>2 DEF ArraysInv, free_array
  <1>3. ASSUME NEW n \in Names, move_assign(n) PROVE ArraysInv'
    <2>1. kind = "Array" \/ kind = "Bounded_Array"
      BY DEF ArraysInv
    <2> QED
      BY <1>3, <2>1, HandOverStep, MoveOverStep
  <1>4. ASSUME NEW n \in Names, pop_back(n) \/ array_pop_front(n) \/ array_clear(n) \/ copy_assign(n)
        PROVE  ArraysInv'
    BY <1>4, PopBackStep, PopFrontStep, ClearStep, CopyStep
  <1> QED
    BY <1>1, <1>2, <1>3, <1>4, PushStep, ExtendStep, GrowStep, FilledAnewStep, ViewStep DEF ArraysNext

-----------------------------------------------------------------------------
(* Both arrays begin empty, each in storage of its own.                     *)
LEMMA ArraysStart ==
    ArraysInit => ArraysInv
  <1> SUFFICES ASSUME ArraysInit PROVE ArraysInv
    OBVIOUS
  <1>1. kind \in {"Array", "Bounded_Array"} /\ view = NoView /\ given = [n \in Names |-> <<>>]
    BY DEF ArraysInit
  <1>2. PICK c : c = IF kind = "Array" THEN 1 ELSE BOUNDED_SIZE
    OBVIOUS
  <1>3. /\ arr = [n \in Names |-> Holder(c, 0, InitialStorage(n))]
        /\ storage = [s \in Storages |-> IF s = 3 THEN FREE ELSE [capacity |-> c, cells |-> Fresh_cells(c)]]
    BY <1>2 DEF ArraysInit
  <1>4. c \in Nat /\ c # 0 /\ (kind = "Bounded_Array" => c = BOUNDED_SIZE) /\ <<>> \in Seq(Elements)
    BY <1>2, ArraysAssumption
  <1>5. storage = [s \in Storages |-> IF s = 3 THEN FREE ELSE Full(c, <<>>)]
    BY <1>3, <1>4, FreshIs DEF Full
  <1>6. Full(c, <<>>) \in Stored /\ FREE \in Stored
    <2>1. Full(c, <<>>) \in Stored
      BY <1>4, FullIsStored
    <2> QED
      BY <2>1 DEF Stored
  <1>7. storage \in [Storages -> Stored] /\ given \in [Names -> Seq(Elements)]
    BY <1>1, <1>4, <1>5, <1>6
  <1>8. \A n \in Names : InitialStorage(n) \in Storages /\ InitialStorage(n) # 3 /\ InitialStorage(n) # NULL_STORAGE
    BY DEF Names, InitialStorage, Storages, NULL_STORAGE
  <1>9. \A n \in Names : arr[n] \in Headers /\ arr[n].capacity = c /\ arr[n].size = 0
                          /\ arr[n].storage = InitialStorage(n)
    BY <1>3, <1>4, <1>8 DEF Holder, Headers
  <1>10. arr \in [Names -> Headers]
    BY <1>3, <1>9
  <1>11. ASSUME NEW n \in Names PROVE Holds(arr[n], storage, given[n], kind)
    <2>1. storage[arr[n].storage] = Full(c, <<>>) /\ given[n] = <<>> /\ Len(<<>>) = 0
      BY <1>1, <1>5, <1>8, <1>9
    <2> QED
      BY <1>4, <1>8, <1>9, <2>1 DEF Holds
  <1>12. ASSUME NEW s \in Storages, \A n \in Names : arr[n].storage # s PROVE storage[s] = FREE
    <2>1. s = 3
      BY <1>9, <1>12 DEF Names, InitialStorage, Storages
    <2> QED
      BY <1>5, <2>1
  <1>13. \A m, n \in Names : m # n => arr[m].storage # arr[n].storage \/ arr[m].storage = NULL_STORAGE
    BY <1>9 DEF Names, InitialStorage
  <1>14. Placed(arr, storage, given, kind)
    BY <1>7, <1>10, <1>11, <1>12, <1>13 DEF Placed
  <1> QED
    BY <1>1, <1>14 DEF ArraysInv, ViewSound

(* A storage's owner, and the cells in it.                                  *)
LEMMA OwnerIs ==
    ASSUME ArraysInv, NEW n \in Names, Owns(n), NEW s, s = arr[n].storage
    PROVE  {m \in Names : arr[m].storage = s} = {n}
  <1>1. \A m, p \in Names : m # p => arr[m].storage # arr[p].storage \/ arr[m].storage = NULL_STORAGE
    BY DEF ArraysInv, Placed
  <1>2. \A m \in Names : arr[m].storage = s => m = n
    BY <1>1 DEF Owns
  <1> QED
    BY <1>2

(* What the invariant says of lifetimes and owners.                         *)
LEMMA ArraysFollow ==
    ArraysInv => ArraysSound
  <1> SUFFICES ASSUME ArraysInv PROVE ArraysSound
    OBVIOUS
  <1>1. /\ arr \in [Names -> Headers] /\ given \in [Names -> Seq(Elements)]
        /\ \A s \in Storages : (\A n \in Names : arr[n].storage # s) => storage[s] = FREE
    BY DEF ArraysInv, Placed
  <1>2. ArraysTypeOK
    BY <1>1, ArrayIs DEF ArraysTypeOK, Headers
  <1>3. HoldsWhatWasGiven
    BY ArrayIs DEF HoldsWhatWasGiven
  <1>4. HeaderInBlock
    BY DEF ArraysInv, ViewSound, HeaderInBlock
  <1>5. ASSUME NEW s \in Storages
        PROVE  (\E n \in Names : Owns(n) /\ s = arr[n].storage)
               \/ ({m \in Names : arr[m].storage = s} = {} /\ storage[s] = FREE)
    <2>1. s # NULL_STORAGE
      BY DEF NULL_STORAGE, Storages
    <2> QED
      BY <1>1, <2>1 DEF Owns
  <1>6. ASSUME NEW s \in Storages
        PROVE  Cardinality({m \in Names : arr[m].storage = s}) = IF storage[s].capacity > 0 THEN 1 ELSE 0
    <2>1. CASE \E n \in Names : Owns(n) /\ s = arr[n].storage
      <3>1. PICK n \in Names : Owns(n) /\ s = arr[n].storage
        BY <2>1
      <3>2. {m \in Names : arr[m].storage = s} = {n}
        BY <3>1, OwnerIs
      <3>3. storage[s] = Full(arr[n].capacity, given[n]) /\ arr[n].capacity \in Nat /\ arr[n].capacity # 0
        BY <3>1, ArrayIs
      <3>4. storage[s].capacity > 0
        BY <3>3 DEF Full
      <3>5. Cardinality({n}) = 1
        BY FS_Singleton
      <3> QED
        BY <3>2, <3>4, <3>5
    <2>2. CASE {m \in Names : arr[m].storage = s} = {} /\ storage[s] = FREE
      <3>1. Cardinality({}) = 0
        BY FS_EmptySet
      <3>2. ~(storage[s].capacity > 0)
        BY <2>2 DEF FREE
      <3> QED
        BY <2>2, <3>1, <3>2
    <2> QED
      BY <1>5, <2>1, <2>2
  <1>7. ASSUME NEW n \in Names, Owns(n) PROVE arr[n].capacity = storage[arr[n].storage].capacity
    <2>1. storage[arr[n].storage] = Full(arr[n].capacity, given[n])
      BY <1>7, ArrayIs
    <2> QED
      BY <2>1 DEF Full
  <1>8. StorageOwnedOnce
    BY <1>6, <1>7 DEF StorageOwnedOnce
  <1>9. ASSUME NEW s \in Storages, NEW owner, owner = {m \in Names : arr[m].storage = s},
               NEW count, count = IF owner = {} THEN 0 ELSE arr[CHOOSE n \in owner : TRUE].size,
               NEW i \in DOMAIN storage[s].cells
        PROVE  storage[s].cells[i] \in IF i < count THEN Elements ELSE {RAW}
    <2>1. CASE \E n \in Names : Owns(n) /\ s = arr[n].storage
      <3>1. PICK n \in Names : Owns(n) /\ s = arr[n].storage
        BY <2>1
      <3>2. owner = {n}
        BY <1>9, <3>1, OwnerIs
      <3>3. count = arr[n].size
        BY <1>9, <3>2
      <3>4. PICK c \in Nat, e \in Seq(Elements), k \in Nat :
                c = arr[n].capacity /\ e = given[n] /\ k = arr[n].size /\ k = Len(e) /\ k <= c
                /\ storage[s] = Full(c, e)
        BY <3>1, ArrayIs
      <3>5. storage[s].cells = Filled(c, e)
        BY <3>4 DEF Full
      <3>6. i \in 0 .. c - 1
        BY <1>9, <3>5 DEF Filled
      <3>7. Filled(c, e)[i] = IF i < Len(e) THEN e[i + 1] ELSE RAW
        BY <3>6 DEF Filled
      <3>8. CASE i < k
        <4>1. i + 1 \in 1 .. Len(e)
          BY <3>4, <3>6, <3>8
        <4>2. e[i + 1] \in Elements
          BY <4>1, ElementOfSeq
        <4> QED
          BY <3>3, <3>4, <3>5, <3>7, <3>8, <4>2
      <3>9. CASE ~(i < k)
        BY <3>3, <3>4, <3>5, <3>7, <3>9
      <3> QED
        BY <3>8, <3>9
    <2>2. CASE {m \in Names : arr[m].storage = s} = {} /\ storage[s] = FREE
      <3>1. DOMAIN storage[s].cells = {}
        BY <2>2 DEF FREE
      <3> QED
        BY <1>9, <3>1
    <2> QED
      BY <1>5, <2>1, <2>2
  <1>10. LifetimesPaired
    <2>1. ASSUME NEW s \in Storages
          PROVE  LET owner == {n \in Names : arr[n].storage = s}
                     count == IF owner = {} THEN 0 ELSE arr[CHOOSE n \in owner : TRUE].size
                 IN \A i \in DOMAIN storage[s].cells :
                        storage[s].cells[i] \in IF i < count THEN Elements ELSE {RAW}
      <3>1. PICK owner : owner = {n \in Names : arr[n].storage = s}
        OBVIOUS
      <3>2. PICK count : count = IF owner = {} THEN 0 ELSE arr[CHOOSE n \in owner : TRUE].size
        OBVIOUS
      <3>3. \A i \in DOMAIN storage[s].cells :
                storage[s].cells[i] \in IF i < count THEN Elements ELSE {RAW}
        BY <1>9, <3>1, <3>2, SMTT(30)
      <3> QED
        BY <3>1, <3>2, <3>3, Zenon
    <2> QED
      BY <2>1, Zenon DEF LifetimesPaired
  <1> QED
    BY <1>2, <1>3, <1>4, <1>8, <1>10 DEF ArraysSound

(* Whatever is pushed, popped, extended from a slice, copied, moved and     *)
(* reallocated, an array holds what it was given; every object in it begins *)
(* and ends its life once; and its storage has one owner.                   *)
THEOREM ArraysAreSound == ArraysSpec => []ArraysSound
  <1> QED
    BY ArraysStart, ArraysStep, ArraysFollow, PTL DEF ArraysSpec

-----------------------------------------------------------------------------
(* String_Builder.                                                          *)
Buffers == [data : Seq(Chars), allocated : Nat \ {0}]

(* The text up to each buffer of a chain, as TextOf puts it together.       *)
Texts(u, c) ==
    /\ u = [i \in 0 .. Len(c) |-> u[i]]
    /\ u[0] = <<>> /\ \A i \in 1 .. Len(c) : u[i] = u[i - 1] \o c[i].data

(* Chains with the same data up to a buffer have the same text up to there. *)
LEMMA SameText ==
    ASSUME NEW c, NEW d, NEW u, NEW v, Texts(u, c), Texts(v, d),
           NEW m \in Nat, m \in 0 .. Len(c), m \in 0 .. Len(d), Len(c) \in Nat, Len(d) \in Nat,
           \A i \in 1 .. m : c[i].data = d[i].data
    PROVE  u[m] = v[m]
  <1> DEFINE differ == {k \in 0 .. m : u[k] # v[k]}
  <1>1. /\ u[0] = <<>> /\ \A i \in 1 .. Len(c) : u[i] = u[i - 1] \o c[i].data
        /\ v[0] = <<>> /\ \A i \in 1 .. Len(d) : v[i] = v[i - 1] \o d[i].data
    BY DEF Texts
  <1>2. differ = {}
    <2>1. SUFFICES ASSUME differ # {} PROVE FALSE
      OBVIOUS
    <2>2. differ \in SUBSET Nat
      OBVIOUS
    <2>3. PICK k \in differ : \A j \in differ : k <= j
      BY <2>1, <2>2, LeastExists
    <2>4. k # 0
      BY <1>1, <2>3
    <2>5. k - 1 \in 0 .. m /\ k \in 1 .. m /\ k \in 1 .. Len(c) /\ k \in 1 .. Len(d) /\ ~(k <= k - 1)
      BY <2>3, <2>4
    <2>6. u[k - 1] = v[k - 1]
      BY <2>3, <2>5
    <2>7. u[k] = u[k - 1] \o c[k].data /\ v[k] = v[k - 1] \o d[k].data /\ c[k].data = d[k].data
      BY <1>1, <2>5
    <2> QED
      BY <2>3, <2>6, <2>7
  <1>3. m \in 0 .. m
    OBVIOUS
  <1> QED
    BY <1>2, <1>3

(* The text up to each of the first n buffers.                              *)
UpTo(u, c, n) ==
    /\ u = [i \in 0 .. n |-> u[i]]
    /\ u[0] = <<>> /\ \A i \in 1 .. n : u[i] = u[i - 1] \o c[i].data

(* There is such a text, however many buffers there are.                    *)
LEMMA TextsExist ==
    ASSUME NEW c, NEW n \in Nat
    PROVE  \E u : UpTo(u, c, n)
  <1> DEFINE missing == {m \in Nat : ~(\E u : UpTo(u, c, m))}
  <1>1. SUFFICES ASSUME missing # {} PROVE FALSE
    OBVIOUS
  <1>2. missing \in SUBSET Nat
    OBVIOUS
  <1>3. PICK m \in missing : \A k \in missing : m <= k
    BY <1>1, <1>2, LeastExists
  <1>4. CASE m = 0
    <2> DEFINE u == [i \in 0 .. 0 |-> <<>>]
    <2>1. u[0] = <<>> /\ u = [i \in 0 .. 0 |-> u[i]]
      OBVIOUS
    <2> HIDE DEF u
    <2>2. UpTo(u, c, 0)
      BY <2>1 DEF UpTo
    <2> QED
      BY <1>3, <1>4, <2>2
  <1>5. CASE m # 0
    <2>1. m - 1 \in Nat /\ m - 1 \notin missing
      BY <1>3, <1>5
    <2>2. PICK g : UpTo(g, c, m - 1)
      BY <2>1
    <2> DEFINE u == [k \in 0 .. m |-> IF k = m THEN g[m - 1] \o c[m].data ELSE g[k]]
    <2>3. \A k \in 0 .. m - 1 : u[k] = g[k]
      BY <2>1
    <2>4. u[m] = g[m - 1] \o c[m].data /\ u = [k \in 0 .. m |-> u[k]]
      <3>1. m \in 0 .. m
        BY <2>1
      <3>2. u[m] = g[m - 1] \o c[m].data
        BY <3>1, Zenon
      <3> QED
        BY <3>2, Zenon
    <2> HIDE DEF u
    <2>5. g[0] = <<>> /\ \A k \in 1 .. m - 1 : g[k] = g[k - 1] \o c[k].data
      BY <2>2 DEF UpTo
    <2>6. ASSUME NEW k \in 1 .. m PROVE u[k] = u[k - 1] \o c[k].data
      <3>1. CASE k = m
        <4>1. u[m - 1] = g[m - 1]
          BY <2>1, <2>3
        <4> QED
          BY <2>4, <3>1, <4>1
      <3>2. CASE k # m
        <4>1. k \in 0 .. m - 1 /\ k - 1 \in 0 .. m - 1 /\ k \in 1 .. m - 1
          BY <3>2
        <4>2. u[k] = g[k] /\ u[k - 1] = g[k - 1] /\ g[k] = g[k - 1] \o c[k].data
          BY <2>3, <2>5, <4>1
        <4> QED
          BY <4>2
      <3> QED
        BY <3>1, <3>2
    <2>7. u[0] = <<>>
      BY <2>1, <2>3, <2>5
    <2>8. UpTo(u, c, m)
      BY <2>4, <2>6, <2>7 DEF UpTo
    <2> QED
      BY <1>3, <2>8
  <1> QED
    BY <1>4, <1>5

(* What TextOf is.                                                          *)
LEMMA TextOfIs ==
    ASSUME NEW c, Len(c) \in Nat
    PROVE  \E u : Texts(u, c) /\ TextOf(c) = u[Len(c)]
  <1> DEFINE Body(g) == [i \in 0 .. Len(c) |-> IF i = 0 THEN <<>> ELSE g[i - 1] \o c[i].data]
             all == CHOOSE g : g = Body(g)
  <1>1. TextOf(c) = all[Len(c)]
    BY Zenon DEF TextOf
  <1>2. \E g : g = Body(g)
    <2>1. PICK g : UpTo(g, c, Len(c))
      BY TextsExist
    <2>2. ASSUME NEW i \in 0 .. Len(c) PROVE g[i] = Body(g)[i]
      <3>1. CASE i = 0
        BY <2>1, <3>1 DEF UpTo
      <3>2. CASE i # 0
        <4>1. i \in 1 .. Len(c)
          BY <3>2
        <4> QED
          BY <2>1, <3>2, <4>1 DEF UpTo
      <3> QED
        BY <3>1, <3>2
    <2>3. g = [i \in 0 .. Len(c) |-> g[i]]
      BY <2>1 DEF UpTo
    <2> QED
      BY <2>2, <2>3
  <1>3. all = Body(all)
    BY <1>2
  <1> HIDE DEF all
  <1>4. Texts(all, c)
    <2>1. \A i \in 0 .. Len(c) : all[i] = IF i = 0 THEN <<>> ELSE all[i - 1] \o c[i].data
      BY <1>3
    <2>2. all = [i \in 0 .. Len(c) |-> all[i]]
      BY <1>3
    <2>3. 0 \in 0 .. Len(c) /\ \A i \in 1 .. Len(c) : i \in 0 .. Len(c) /\ i # 0
      OBVIOUS
    <2> QED
      BY <2>1, <2>2, <2>3 DEF Texts
  <1> QED
    BY <1>1, <1>4

(* What there is of the text at each buffer is made of characters.          *)
LEMMA TextIsText ==
    ASSUME NEW c \in Seq(Buffers), NEW u, Texts(u, c), NEW m \in 0 .. Len(c)
    PROVE  u[m] \in Seq(Chars)
  <1> DEFINE odd == {k \in 0 .. Len(c) : u[k] \notin Seq(Chars)}
  <1>1. u[0] = <<>> /\ \A i \in 1 .. Len(c) : u[i] = u[i - 1] \o c[i].data
    BY DEF Texts
  <1>2. Len(c) \in Nat
    BY LenProperties
  <1>3. odd = {}
    <2>1. SUFFICES ASSUME odd # {} PROVE FALSE
      OBVIOUS
    <2>2. odd \in SUBSET Nat
      BY <1>2
    <2>3. PICK k \in odd : \A j \in odd : k <= j
      BY <2>1, <2>2, LeastExists
    <2>4. k # 0
      <3>1. u[0] \in Seq(Chars)
        BY <1>1
      <3> QED
        BY <2>3, <3>1
    <2>5. k - 1 \in 0 .. Len(c) /\ k \in 1 .. Len(c) /\ ~(k <= k - 1)
      <3>1. k \in 0 .. Len(c)
        BY <2>3
      <3> HIDE DEF odd
      <3> QED
        BY <1>2, <2>4, <3>1
    <2>6. u[k - 1] \in Seq(Chars)
      BY <2>3, <2>5
    <2>7. c[k] \in Buffers
      BY <2>5, ElementOfSeq
    <2>8. c[k].data \in Seq(Chars)
      BY <2>7 DEF Buffers
    <2>9. u[k] \in Seq(Chars)
      BY <1>1, <2>5, <2>6, <2>8, ConcatProperties
    <2> QED
      BY <2>3, <2>9
  <1> QED
    BY <1>3

(* A new buffer adds nothing to the text.                                   *)
WithBuffer(c, n) == Append(c, Buffer(n))

HasBuffer(c, n, d) ==
    /\ d \in Seq(Buffers) /\ Len(d) = Len(c) + 1 /\ d[Len(c) + 1] = Buffer(n)
    /\ \A i \in 1 .. Len(c) : d[i] = c[i]
    /\ TextOf(d) = TextOf(c)

LEMMA NewBufferIs ==
    ASSUME NEW c \in Seq(Buffers), NEW n \in Nat \ {0}, NEW d, d = WithBuffer(c, n)
    PROVE  HasBuffer(c, n, d)
  <1>1. Buffer(n) \in Buffers /\ Buffer(n).data = <<>>
    BY DEF Buffer, Buffers
  <1>2. PICK m \in Nat : m = Len(c)
    BY LenProperties
  <1>3. d \in Seq(Buffers) /\ Len(d) = m + 1 /\ d[m + 1] = Buffer(n) /\ \A i \in 1 .. m : d[i] = c[i]
    BY <1>1, <1>2, AppendProperties DEF WithBuffer
  <1>4. PICK u : Texts(u, c) /\ TextOf(c) = u[m]
    BY <1>2, TextOfIs
  <1>5. PICK v : Texts(v, d) /\ TextOf(d) = v[m + 1]
    BY <1>3, TextOfIs
  <1>6. m \in 0 .. Len(c) /\ m \in 0 .. Len(d) /\ Len(c) \in Nat /\ Len(d) \in Nat
        /\ \A i \in 1 .. m : c[i].data = d[i].data
    BY <1>2, <1>3
  <1>7. u[m] = v[m]
    BY <1>4, <1>5, <1>6, SameText
  <1>8. v[m + 1] = v[m] \o <<>>
    <2>1. m + 1 \in 1 .. Len(d) /\ m + 1 - 1 = m
      BY <1>3
    <2>2. \A i \in 1 .. Len(d) : v[i] = v[i - 1] \o d[i].data
      BY <1>5 DEF Texts
    <2>3. PICK k \in 1 .. Len(d) : k = m + 1
      BY <2>1
    <2>4. v[k] = v[k - 1] \o d[k].data
      BY <2>2, Zenon
    <2>5. k - 1 = m /\ d[k].data = <<>>
      BY <1>1, <1>3, <2>3
    <2>6. v[k] = v[m] \o <<>>
      BY <2>4, <2>5, Zenon
    <2> QED
      BY <2>3, <2>6
  <1>9. v[m] \in Seq(Chars)
    BY <1>3, <1>5, <1>6, TextIsText
  <1>10. v[m + 1] = v[m]
    BY <1>8, <1>9
  <1> QED
    BY <1>2, <1>3, <1>4, <1>5, <1>7, <1>10 DEF HasBuffer

(* A character in the last buffer is the last one of the text.              *)
HasChar(c, n, x, d) ==
    /\ d \in Seq(Buffers) /\ Len(d) = n
    /\ Len(d[n].data) = Len(c[n].data) + 1 /\ d[n].allocated = c[n].allocated
    /\ \A i \in 1 .. n - 1 : d[i] = c[i]
    /\ TextOf(d) = Append(TextOf(c), x)

LEMMA CharIs ==
    ASSUME NEW c \in Seq(Buffers), NEW n \in Nat, n = Len(c), n # 0, NEW x \in Chars, NEW d, d = WithChar(c, n, x)
    PROVE  HasChar(c, n, x, d)
  <1>1. PICK old \in Seq(Chars), bytes \in Nat \ {0} : c[n] = [data |-> old, allocated |-> bytes]
    <2>1. c[n] \in Buffers
      BY ElementOfSeq
    <2> QED
      BY <2>1 DEF Buffers
  <1>2. PICK new : new = Append(old, x)
    OBVIOUS
  <1>3. new \in Seq(Chars) /\ Len(new) = Len(old) + 1 /\ new = old \o <<x>>
    BY <1>2, AppendProperties
  <1>4. PICK e : e = [data |-> new, allocated |-> bytes]
    OBVIOUS
  <1>5. e \in Buffers /\ e.data = new /\ e.allocated = bytes
    BY <1>3, <1>4 DEF Buffers
  <1>6. d = [c EXCEPT ![n] = e]
    BY <1>1, <1>2, <1>4 DEF WithChar
  <1>7. n \in 1 .. Len(c)
    OBVIOUS
  <1>8. d \in Seq(Buffers) /\ Len(d) = n /\ d[n] = e /\ \A i \in 1 .. n : i # n => d[i] = c[i]
    BY <1>5, <1>6, <1>7, ExceptSeq
  <1>9. PICK u : Texts(u, c) /\ TextOf(c) = u[n]
    BY TextOfIs
  <1>10. PICK v : Texts(v, d) /\ TextOf(d) = v[n]
    BY <1>8, TextOfIs
  <1>11. PICK k \in Nat : k = n - 1
    OBVIOUS
  <1>12. k \in 0 .. Len(c) /\ k \in 0 .. Len(d) /\ Len(c) \in Nat /\ Len(d) \in Nat
         /\ \A i \in 1 .. k : c[i].data = d[i].data
    BY <1>8, <1>11
  <1>13. u[k] = v[k]
    BY <1>9, <1>10, <1>12, SameText
  <1>14. u[k] \in Seq(Chars)
    BY <1>9, <1>12, TextIsText
  <1>15. u[n] = u[k] \o old /\ v[n] = v[k] \o new
    <2>1. n \in 1 .. Len(c) /\ n \in 1 .. Len(d)
      BY <1>8
    <2>2. u[n] = u[n - 1] \o c[n].data /\ v[n] = v[n - 1] \o d[n].data
      BY <1>9, <1>10, <2>1 DEF Texts
    <2> QED
      BY <1>1, <1>5, <1>8, <1>11, <2>2
  <1>16. PICK t \in Seq(Chars) : t = u[k]
    BY <1>14
  <1>17. t \o new = Append(t \o old, x)
    BY <1>2
  <1>18. TextOf(d) = Append(TextOf(c), x)
    BY <1>9, <1>10, <1>13, <1>15, <1>16, <1>17
  <1>19. Len(d[n].data) = Len(c[n].data) + 1 /\ d[n].allocated = c[n].allocated
    BY <1>1, <1>3, <1>5, <1>8
  <1>20. \A i \in 1 .. n - 1 : d[i] = c[i]
    BY <1>8
  <1> QED
    BY <1>8, <1>18, <1>19, <1>20 DEF HasChar

(* A builder's first buffer has no text.                                    *)
First(n) == <<Buffer(n)>>

LEMMA FirstBufferIs ==
    ASSUME NEW n \in Nat \ {0}, NEW c, c = First(n)
    PROVE  c \in Seq(Buffers) /\ Len(c) = 1 /\ c[1] = Buffer(n) /\ TextOf(c) = <<>>
  <1>1. Buffer(n) \in Buffers /\ Buffer(n).data = <<>>
    BY DEF Buffer, Buffers
  <1>2. c \in Seq(Buffers) /\ Len(c) = 1 /\ c[1] = Buffer(n)
    BY <1>1 DEF First
  <1>3. PICK u : Texts(u, c) /\ TextOf(c) = u[1]
    <2>1. Len(c) \in Nat
      BY <1>2
    <2>2. \E u : Texts(u, c) /\ TextOf(c) = u[Len(c)]
      BY <2>1, TextOfIs
    <2> QED
      BY <1>2, <2>2
  <1>4. u[0] = <<>> /\ u[1] = u[1 - 1] \o c[1].data
    <2>1. 1 \in 1 .. Len(c)
      BY <1>2
    <2> QED
      BY <1>3, <2>1 DEF Texts
  <1>5. u[1] = <<>> \o <<>>
    BY <1>1, <1>2, <1>4
  <1> QED
    BY <1>2, <1>3, <1>5

-----------------------------------------------------------------------------
(* A chain that fills up in order, and what appending carries along.        *)
Chained(c, at) ==
    /\ c \in Seq(Buffers) /\ Len(c) # 0
    /\ \A i \in 1 .. Len(c) : Len(c[i].data) <= c[i].allocated
    /\ \A i \in 1 .. Len(c) - 1 : Len(c[i].data) = c[i].allocated
    /\ at = IF Len(c) = 1 THEN 0 ELSE Len(c)

(* What holds of the builder between two characters of an append.          *)
Running(b) ==
    /\ Chained(b.chain, b.current) /\ b.further = Len(b.chain) - 1
    /\ b.stopped \in BOOLEAN
    /\ b = [chain |-> b.chain, current |-> b.current, further |-> b.further,
            left |-> b.left, stopped |-> b.stopped]

(* What a client may have been given: a text, or one with its terminator.  *)
Handed ==
    {NoString}
    \cup {[is |-> "string", text |-> t, size |-> Len(t)] : t \in Seq(Chars)}
    \cup {[is |-> "c_string", text |-> Append(t, NUL), size |-> Len(t) + 1] : t \in Seq(Chars)}

(* The inductive invariant.                                                *)
BuilderInv ==
    /\ Chained(chain, current) /\ further = Len(chain) - 1
    /\ subsequent \in Nat \ {0} /\ asked \in Seq(Chars) /\ failed \in BOOLEAN
    /\ IF failed THEN Len(Text) < Len(asked) ELSE Text = asked
    /\ out \in Handed

(* The buffer that is current is the last one.                              *)
LEMMA CurrentIsLast ==
    ASSUME NEW b, Running(b)
    PROVE  get_current_buffer(b) = Len(b.chain)
  <1>1. b.current = IF Len(b.chain) = 1 THEN 0 ELSE Len(b.chain)
    BY DEF Running, Chained
  <1>2. Len(b.chain) # 0
    BY DEF Running, Chained
  <1> QED
    BY <1>1, <1>2 DEF get_current_buffer

(* A character put where there is room.                                     *)
LEMMA PutIs ==
    ASSUME NEW b, Running(b), ~IsFull(b), NEW x \in Chars, NEW after, after = Put(b, x)
    PROVE  Running(after) /\ after.stopped = b.stopped /\ TextOf(after.chain) = Append(TextOf(b.chain), x)
  <1>1. /\ b.chain \in Seq(Buffers) /\ Len(b.chain) # 0
        /\ \A i \in 1 .. Len(b.chain) : Len(b.chain[i].data) <= b.chain[i].allocated
        /\ \A i \in 1 .. Len(b.chain) - 1 : Len(b.chain[i].data) = b.chain[i].allocated
        /\ b.current = IF Len(b.chain) = 1 THEN 0 ELSE Len(b.chain)
        /\ b.further = Len(b.chain) - 1 /\ b.stopped \in BOOLEAN
        /\ b = [chain |-> b.chain, current |-> b.current, further |-> b.further,
                left |-> b.left, stopped |-> b.stopped]
    BY DEF Running, Chained
  <1>2. PICK c \in Seq(Buffers), n \in Nat : c = b.chain /\ n = Len(b.chain)
    BY <1>1, LenProperties
  <1>3. n = Len(c) /\ n # 0 /\ n \in 1 .. n
    BY <1>1, <1>2
  <1>4. PICK d : d = WithChar(c, n, x)
    OBVIOUS
  <1>5. /\ d \in Seq(Buffers) /\ Len(d) = n
        /\ Len(d[n].data) = Len(c[n].data) + 1 /\ d[n].allocated = c[n].allocated
        /\ \A i \in 1 .. n - 1 : d[i] = c[i]
        /\ TextOf(d) = Append(TextOf(c), x)
    <2>1. HasChar(c, n, x, d)
      BY <1>3, <1>4, CharIs, Zenon
    <2> QED
      BY <2>1 DEF HasChar
  <1>6. after = [b EXCEPT !.chain = d]
    BY <1>2, <1>4, CurrentIsLast DEF Put
  <1>7. /\ after.chain = d /\ after.current = b.current /\ after.further = b.further
        /\ after.stopped = b.stopped
        /\ after = [chain |-> after.chain, current |-> after.current, further |-> after.further,
                    left |-> after.left, stopped |-> after.stopped]
    BY <1>1, <1>6
  <1>8. Len(c[n].data) # c[n].allocated
    BY <1>2, CurrentIsLast DEF IsFull
  <1>9. c[n].allocated \in Nat /\ Len(c[n].data) \in Nat
    <2>1. c[n] \in Buffers
      BY <1>3, ElementOfSeq
    <2>2. c[n].data \in Seq(Chars) /\ c[n].allocated \in Nat
      BY <2>1 DEF Buffers
    <2> QED
      BY <2>2, LenProperties
  <1>10. Len(c[n].data) <= c[n].allocated
    BY <1>1, <1>2, <1>3
  <1>11. Len(d[n].data) <= d[n].allocated
    <2>1. PICK used \in Nat, room \in Nat : used = Len(c[n].data) /\ room = c[n].allocated
      BY <1>9
    <2>2. used + 1 <= room
      BY <1>8, <1>10, <2>1
    <2>3. Len(d[n].data) = used + 1 /\ d[n].allocated = room
      BY <1>5, <2>1
    <2> QED
      BY <2>2, <2>3
  <1>12. ASSUME NEW i \in 1 .. n PROVE Len(d[i].data) <= d[i].allocated
    <2>1. CASE i = n
      BY <1>11, <2>1
    <2>2. CASE i # n
      <3>1. i \in 1 .. n - 1 /\ i \in 1 .. Len(c)
        BY <1>3, <2>2
      <3> QED
        BY <1>1, <1>2, <1>5, <3>1
    <2> QED
      BY <2>1, <2>2
  <1>13. \A i \in 1 .. n - 1 : Len(d[i].data) = d[i].allocated
    BY <1>1, <1>2, <1>5
  <1>14. Chained(d, b.current)
    BY <1>1, <1>2, <1>3, <1>5, <1>12, <1>13 DEF Chained
  <1>15. Running(after)
    BY <1>1, <1>2, <1>5, <1>7, <1>14 DEF Running
  <1> QED
    BY <1>2, <1>5, <1>7, <1>15

(* A new buffer behind a full one.                                          *)
LEMMA ExpandIs ==
    ASSUME NEW b, Running(b), IsFull(b), subsequent \in Nat \ {0}, NEW after, after = expand_builder(b)
    PROVE  Running(after) /\ ~IsFull(after) /\ after.stopped = b.stopped /\ TextOf(after.chain) = TextOf(b.chain)
  <1>1. /\ b.chain \in Seq(Buffers) /\ Len(b.chain) # 0
        /\ \A i \in 1 .. Len(b.chain) : Len(b.chain[i].data) <= b.chain[i].allocated
        /\ \A i \in 1 .. Len(b.chain) - 1 : Len(b.chain[i].data) = b.chain[i].allocated
        /\ b.further = Len(b.chain) - 1 /\ b.stopped \in BOOLEAN
    BY DEF Running, Chained
  <1>2. PICK c \in Seq(Buffers), n \in Nat : c = b.chain /\ n = Len(b.chain)
    BY <1>1, LenProperties
  <1>3. n = Len(c) /\ n # 0 /\ n \in 1 .. n
    BY <1>1, <1>2
  <1>4. PICK d : d = WithBuffer(c, subsequent)
    OBVIOUS
  <1>5. /\ d \in Seq(Buffers) /\ Len(d) = n + 1 /\ d[n + 1] = Buffer(subsequent)
        /\ \A i \in 1 .. n : d[i] = c[i]
        /\ TextOf(d) = TextOf(c)
    <2>1. HasBuffer(c, subsequent, d)
      BY <1>4, NewBufferIs, Zenon
    <2> QED
      BY <1>3, <2>1 DEF HasBuffer
  <1>6. after = [chain |-> d, current |-> n + 1, further |-> b.further + 1, left |-> b.left - 1, stopped |-> b.stopped]
    BY <1>2, <1>4 DEF expand_builder, WithBuffer
  <1>7. /\ after.chain = d /\ after.current = n + 1 /\ after.further = b.further + 1 /\ after.stopped = b.stopped
        /\ after = [chain |-> after.chain, current |-> after.current, further |-> after.further,
                    left |-> after.left, stopped |-> after.stopped]
    BY <1>6
  <1>8. Len(c[n].data) = c[n].allocated
    BY <1>2, CurrentIsLast DEF IsFull
  <1>9. Buffer(subsequent).data = <<>> /\ Buffer(subsequent).allocated = subsequent /\ Len(<<>>) = 0
    BY DEF Buffer
  <1>10. ASSUME NEW i \in 1 .. n PROVE Len(d[i].data) = d[i].allocated
    <2>1. CASE i = n
      BY <1>5, <1>8, <2>1
    <2>2. CASE i # n
      <3>1. i \in 1 .. n - 1
        BY <2>2
      <3> QED
        BY <1>1, <1>2, <1>5, <3>1
    <2> QED
      BY <2>1, <2>2
  <1>11. ASSUME NEW i \in 1 .. n + 1 PROVE Len(d[i].data) <= d[i].allocated
    <2>1. CASE i = n + 1
      <3>1. Len(d[i].data) = 0 /\ d[i].allocated = subsequent
        BY <1>5, <1>9, <2>1
      <3> QED
        BY <3>1
    <2>2. CASE i # n + 1
      <3>1. i \in 1 .. n /\ i \in 1 .. Len(c)
        BY <1>3, <2>2
      <3> QED
        BY <1>1, <1>2, <1>5, <3>1
    <2> QED
      BY <2>1, <2>2
  <1>12. n + 1 # 1 /\ n + 1 # 0 /\ n + 1 - 1 = n
    BY <1>3
  <1>13. Chained(d, n + 1)
    BY <1>5, <1>10, <1>11, <1>12 DEF Chained
  <1>14. Running(after)
    BY <1>1, <1>2, <1>5, <1>7, <1>13 DEF Running
  <1>15. ~IsFull(after)
    <2>1. get_current_buffer(after) = n + 1
      BY <1>5, <1>7, <1>14, CurrentIsLast
    <2>2. Len(d[n + 1].data) = 0 /\ d[n + 1].allocated = subsequent
      BY <1>5, <1>9
    <2> QED
      BY <1>7, <2>1, <2>2 DEF IsFull
  <1> QED
    BY <1>2, <1>5, <1>7, <1>14, <1>15

(* One character of append.                                                 *)
LEMMA PutCharIs ==
    ASSUME NEW b, Running(b), subsequent \in Nat \ {0}, NEW x \in Chars, NEW after, after = PutChar(b, x)
    PROVE  /\ Running(after)
           /\ b.stopped => after = b
           /\ ~after.stopped => TextOf(after.chain) = Append(TextOf(b.chain), x)
           /\ after.stopped => TextOf(after.chain) = TextOf(b.chain)
  <1>1. b.stopped \in BOOLEAN
    BY DEF Running
  <1>2. CASE b.stopped
    <2>1. after = b
      BY <1>2 DEF PutChar
    <2> QED
      BY <1>2, <2>1
  <1>3. CASE ~b.stopped /\ ~IsFull(b)
    <2>1. after = Put(b, x)
      BY <1>3 DEF PutChar
    <2>2. Running(after) /\ after.stopped = b.stopped /\ TextOf(after.chain) = Append(TextOf(b.chain), x)
      BY <1>3, <2>1, PutIs
    <2> QED
      BY <1>3, <2>2
  <1>4. CASE ~b.stopped /\ IsFull(b) /\ b.left = 0
    <2>1. after = [b EXCEPT !.stopped = TRUE]
      BY <1>4 DEF PutChar, Stop
    <2>2. b = [chain |-> b.chain, current |-> b.current, further |-> b.further,
               left |-> b.left, stopped |-> b.stopped]
      BY DEF Running
    <2>3. after = [chain |-> b.chain, current |-> b.current, further |-> b.further,
                   left |-> b.left, stopped |-> TRUE]
      BY <2>1, <2>2
    <2>4. /\ after.chain = b.chain /\ after.current = b.current /\ after.further = b.further /\ after.stopped = TRUE
          /\ after = [chain |-> after.chain, current |-> after.current, further |-> after.further,
                      left |-> after.left, stopped |-> after.stopped]
      BY <2>3
    <2>5. Running(after)
      BY <2>4 DEF Running
    <2> QED
      BY <1>4, <2>4, <2>5
  <1>5. CASE ~b.stopped /\ IsFull(b) /\ b.left # 0
    <2>1. PICK more : more = expand_builder(b)
      OBVIOUS
    <2>2. Running(more) /\ ~IsFull(more) /\ more.stopped = b.stopped /\ TextOf(more.chain) = TextOf(b.chain)
      BY <1>5, <2>1, ExpandIs
    <2>3. after = Put(more, x)
      BY <1>5, <2>1 DEF PutChar
    <2>4. Running(after) /\ after.stopped = more.stopped /\ TextOf(after.chain) = Append(TextOf(more.chain), x)
      BY <2>2, <2>3, PutIs
    <2> QED
      BY <1>5, <2>2, <2>4
  <1> QED
    BY <1>1, <1>2, <1>3, <1>4, <1>5

(* The turns of append.                                                     *)
Puts(f, b, text, n) ==
    /\ f = [i \in 0 .. n |-> f[i]]
    /\ f[0] = b /\ \A i \in 1 .. n : f[i] = PutChar(f[i - 1], text[i])

(* Any number of turns can be taken.                                        *)
LEMMA PutsExist ==
    ASSUME NEW b, NEW text, NEW n \in Nat
    PROVE  \E f : Puts(f, b, text, n)
  <1> DEFINE missing == {m \in Nat : ~(\E f : Puts(f, b, text, m))}
  <1>1. SUFFICES ASSUME missing # {} PROVE FALSE
    OBVIOUS
  <1>2. missing \in SUBSET Nat
    OBVIOUS
  <1>3. PICK m \in missing : \A k \in missing : m <= k
    BY <1>1, <1>2, LeastExists
  <1>4. CASE m = 0
    <2> DEFINE f == [i \in 0 .. 0 |-> b]
    <2>1. f[0] = b /\ f = [i \in 0 .. 0 |-> f[i]]
      OBVIOUS
    <2> HIDE DEF f
    <2>2. Puts(f, b, text, 0)
      BY <2>1 DEF Puts
    <2> QED
      BY <1>3, <1>4, <2>2
  <1>5. CASE m # 0
    <2>1. m - 1 \in Nat /\ m - 1 \notin missing
      BY <1>3, <1>5
    <2>2. PICK g : Puts(g, b, text, m - 1)
      BY <2>1
    <2> DEFINE f == [k \in 0 .. m |-> IF k = m THEN PutChar(g[m - 1], text[m]) ELSE g[k]]
    <2>3. \A k \in 0 .. m - 1 : f[k] = g[k]
      BY <2>1
    <2>4. f[m] = PutChar(g[m - 1], text[m]) /\ f = [k \in 0 .. m |-> f[k]]
      BY <1>5, <2>1
    <2> HIDE DEF f
    <2>5. g[0] = b /\ \A k \in 1 .. m - 1 : g[k] = PutChar(g[k - 1], text[k])
      BY <2>2 DEF Puts
    <2>6. ASSUME NEW k \in 1 .. m PROVE f[k] = PutChar(f[k - 1], text[k])
      <3>1. CASE k = m
        <4>1. f[m - 1] = g[m - 1]
          BY <2>1, <2>3
        <4> QED
          BY <2>4, <3>1, <4>1
      <3>2. CASE k # m
        <4>1. k \in 0 .. m - 1 /\ k - 1 \in 0 .. m - 1 /\ k \in 1 .. m - 1
          BY <3>2
        <4>2. f[k] = g[k] /\ f[k - 1] = g[k - 1] /\ g[k] = PutChar(g[k - 1], text[k])
          BY <2>3, <2>5, <4>1
        <4> QED
          BY <4>2
      <3> QED
        BY <3>1, <3>2
    <2>7. f[0] = b
      BY <2>1, <2>3, <2>5
    <2>8. Puts(f, b, text, m)
      BY <2>4, <2>6, <2>7 DEF Puts
    <2> QED
      BY <1>3, <2>8
  <1> QED
    BY <1>4, <1>5

(* What FilledWith is.                                                      *)
LEMMA FilledWithIs ==
    ASSUME NEW b, NEW text \in Seq(Chars)
    PROVE  \E f : Puts(f, b, text, Len(text)) /\ FilledWith(b, text) = f[Len(text)]
  <1> DEFINE Body(g) == [i \in 0 .. Len(text) |-> IF i = 0 THEN b ELSE PutChar(g[i - 1], text[i])]
             all == CHOOSE g : g = Body(g)
  <1>0. Len(text) \in Nat
    BY LenProperties
  <1>1. FilledWith(b, text) = all[Len(text)]
    BY Zenon DEF FilledWith
  <1>2. \E g : g = Body(g)
    <2>1. PICK g : Puts(g, b, text, Len(text))
      BY <1>0, PutsExist
    <2>2. ASSUME NEW i \in 0 .. Len(text) PROVE g[i] = Body(g)[i]
      <3>1. CASE i = 0
        BY <2>1, <3>1 DEF Puts
      <3>2. CASE i # 0
        <4>1. i \in 1 .. Len(text)
          BY <1>0, <3>2
        <4> QED
          BY <2>1, <3>2, <4>1 DEF Puts
      <3> QED
        BY <3>1, <3>2
    <2>3. g = [i \in 0 .. Len(text) |-> g[i]]
      BY <2>1 DEF Puts
    <2> QED
      BY <2>2, <2>3
  <1>3. all = Body(all)
    BY <1>2
  <1> HIDE DEF all
  <1>4. Puts(all, b, text, Len(text))
    <2>1. \A i \in 0 .. Len(text) : all[i] = IF i = 0 THEN b ELSE PutChar(all[i - 1], text[i])
      BY <1>3
    <2>2. all = [i \in 0 .. Len(text) |-> all[i]]
      BY <1>3
    <2>3. 0 \in 0 .. Len(text) /\ \A i \in 1 .. Len(text) : i \in 0 .. Len(text) /\ i # 0
      BY <1>0
    <2> QED
      BY <2>1, <2>2, <2>3 DEF Puts
  <1> QED
    BY <1>1, <1>4

(* The text of a chain is made of characters.                               *)
LEMMA ChainText ==
    ASSUME NEW c, NEW at, Chained(c, at)
    PROVE  TextOf(c) \in Seq(Chars)
  <1>1. c \in Seq(Buffers)
    BY DEF Chained
  <1>2. Len(c) \in Nat
    BY <1>1, LenProperties
  <1>3. PICK u : Texts(u, c) /\ TextOf(c) = u[Len(c)]
    BY <1>2, TextOfIs
  <1>4. Len(c) \in 0 .. Len(c)
    BY <1>2
  <1>5. u[Len(c)] \in Seq(Chars)
    BY <1>1, <1>3, <1>4, TextIsText
  <1> QED
    BY <1>3, <1>5

(* So is that of a builder.                                                 *)
LEMMA RunningText ==
    ASSUME NEW b, Running(b)
    PROVE  TextOf(b.chain) \in Seq(Chars)
  <1> QED
    BY ChainText DEF Running

(* A character appended behind the second of two texts.                     *)
LEMMA AppendBehind ==
    ASSUME NEW t \in Seq(Chars), NEW s \in Seq(Chars), NEW x \in Chars
    PROVE  Append(t \o s, x) = t \o Append(s, x)
  <1> QED
    OBVIOUS

(* What append makes of a builder: all of the text is behind what there was, *)
(* or it stopped and some is missing.                                       *)
LEMMA AppendIs ==
    ASSUME NEW b, Running(b), ~b.stopped, subsequent \in Nat \ {0}, NEW text \in Seq(Chars),
           NEW after, after = FilledWith(b, text)
    PROVE  /\ Running(after)
           /\ TextOf(b.chain) \in Seq(Chars) /\ TextOf(after.chain) \in Seq(Chars)
           /\ ~after.stopped => TextOf(after.chain) = TextOf(b.chain) \o text
           /\ after.stopped => Len(TextOf(after.chain)) < Len(TextOf(b.chain)) + Len(text)
  <1>1. PICK n \in Nat : n = Len(text)
    BY LenProperties
  <1>2. PICK f : Puts(f, b, text, n) /\ after = f[n]
    BY <1>1, FilledWithIs
  <1>3. f[0] = b /\ \A i \in 1 .. n : f[i] = PutChar(f[i - 1], text[i])
    BY <1>2 DEF Puts
  <1>4. PICK t \in Seq(Chars) : t = TextOf(b.chain)
    BY RunningText
  <1>5. PICK l \in Nat : l = Len(t)
    BY LenProperties
  <1> DEFINE Right(i) == /\ Running(f[i])
                         /\ ~f[i].stopped => TextOf(f[i].chain) = t \o SubSeq(text, 1, i)
                         /\ f[i].stopped => Len(TextOf(f[i].chain)) < l + i
             wrong == {i \in 0 .. n : ~Right(i)}
  <1>6. wrong = {}
    <2>1. SUFFICES ASSUME wrong # {} PROVE FALSE
      OBVIOUS
    <2>2. wrong \in SUBSET Nat
      OBVIOUS
    <2>3. PICK m \in wrong : \A k \in wrong : m <= k
      BY <2>1, <2>2, LeastExists
    <2>4. CASE m = 0
      <3>1. SubSeq(text, 1, 0) = <<>> /\ t \o <<>> = t
        OBVIOUS
      <3>2. Right(0)
        BY <1>3, <1>4, <3>1
      <3> QED
        BY <2>3, <2>4, <3>2
    <2>5. CASE m # 0
      <3>1. PICK k \in Nat : k = m - 1 /\ k \in 0 .. n /\ m \in 1 .. n /\ ~(m <= k)
        BY <2>3, <2>5
      <3>2. Right(k)
        BY <2>3, <3>1
      <3>3. PICK x \in Chars : x = text[m]
        BY <1>1, <3>1, ElementOfSeq
      <3>4. PICK g, h : g = f[k] /\ h = f[m]
        OBVIOUS
      <3>5. h = PutChar(g, x)
        BY <1>3, <3>1, <3>3, <3>4
      <3>6. /\ Running(h)
            /\ g.stopped => h = g
            /\ ~h.stopped => TextOf(h.chain) = Append(TextOf(g.chain), x)
            /\ h.stopped => TextOf(h.chain) = TextOf(g.chain)
        <4>1. Running(g)
          BY <3>2, <3>4
        <4> HIDE DEF wrong
        <4> QED
          BY <3>5, <4>1, PutCharIs
      <3>7. PICK s \in Seq(Chars) : s = SubSeq(text, 1, k) /\ Len(s) = k
        <4>1. 1 \in 1 .. Len(text) + 1 /\ k \in 0 .. Len(text) /\ k - 1 + 1 = k
          BY <1>1, <3>1
        <4>2. SubSeq(text, 1, k) \in Seq(Chars) /\ Len(SubSeq(text, 1, k)) = k
          BY <4>1, SubSeqProperties
        <4> QED
          BY <4>2
      <3>8. Append(s, x) = SubSeq(text, 1, m)
        BY <1>1, <3>1, <3>3, <3>7
      <3>9. CASE ~h.stopped
        <4>1. ~g.stopped
          BY <3>6, <3>9
        <4>2. TextOf(g.chain) = t \o s
          BY <3>2, <3>4, <3>7, <4>1
        <4>3. Append(t \o s, x) = t \o Append(s, x)
          BY AppendBehind
        <4>4. TextOf(h.chain) = t \o SubSeq(text, 1, m)
          BY <3>6, <3>8, <3>9, <4>2, <4>3
        <4> QED
          BY <2>3, <3>4, <3>6, <3>9, <4>4
      <3>10. CASE h.stopped
        <4>1. TextOf(h.chain) = TextOf(g.chain)
          BY <3>6, <3>10
        <4>2. Len(TextOf(g.chain)) \in Nat
          <5>1. TextOf(g.chain) \in Seq(Chars)
            BY <3>2, <3>4, RunningText
          <5> QED
            BY <5>1, LenProperties
        <4>3. Len(TextOf(g.chain)) <= l + k
          <5>1. CASE g.stopped
            BY <3>2, <3>4, <4>2, <5>1
          <5>2. CASE ~g.stopped
            <6>1. TextOf(g.chain) = t \o s
              BY <3>2, <3>4, <3>7, <5>2
            <6>2. Len(t \o s) = l + k
              BY <1>5, <3>7, ConcatProperties
            <6> QED
              BY <6>1, <6>2
          <5> QED
            BY <5>1, <5>2
        <4>4. Len(TextOf(h.chain)) < l + m
          BY <3>1, <4>1, <4>2, <4>3
        <4> QED
          BY <2>3, <3>4, <3>6, <3>10, <4>4
      <3>11. h.stopped \in BOOLEAN
        BY <3>6 DEF Running
      <3> QED
        BY <3>9, <3>10, <3>11
    <2> QED
      BY <2>4, <2>5
  <1>7. n \in 0 .. n
    OBVIOUS
  <1>8. Right(n)
    BY <1>6, <1>7
  <1>9. SubSeq(text, 1, n) = text
    BY <1>1
  <1>10. TextOf(after.chain) \in Seq(Chars)
    BY <1>2, <1>8, RunningText
  <1> QED
    BY <1>1, <1>2, <1>4, <1>5, <1>8, <1>9, <1>10

-----------------------------------------------------------------------------
(* append.                                                                  *)
LEMMA TextStep ==
    ASSUME BuilderInv, NEW text \in Seq(Chars), NEW available, append(text, available)
    PROVE  BuilderInv'
  <1>1. PICK b : b = [chain |-> chain, current |-> current, further |-> further, left |-> available, stopped |-> FALSE]
    OBVIOUS
  <1>2. /\ b.chain = chain /\ b.current = current /\ b.further = further /\ b.stopped = FALSE
        /\ b = [chain |-> b.chain, current |-> b.current, further |-> b.further,
                left |-> b.left, stopped |-> b.stopped]
    BY <1>1
  <1>3. Running(b)
    BY <1>2 DEF BuilderInv, Running
  <1>4. PICK after : after = FilledWith(b, text)
    OBVIOUS
  <1>5. /\ chain' = after.chain /\ current' = after.current /\ further' = after.further
        /\ failed' = (failed \/ after.stopped)
        /\ asked' = asked \o text /\ subsequent' = subsequent /\ out' = out
    BY <1>1, <1>4 DEF append
  <1>6. /\ subsequent \in Nat \ {0} /\ asked \in Seq(Chars) /\ failed \in BOOLEAN
        /\ IF failed THEN Len(Text) < Len(asked) ELSE Text = asked
        /\ out \in Handed
    BY DEF BuilderInv
  <1>7. /\ Running(after)
        /\ TextOf(b.chain) \in Seq(Chars) /\ TextOf(after.chain) \in Seq(Chars)
        /\ ~after.stopped => TextOf(after.chain) = TextOf(b.chain) \o text
        /\ after.stopped => Len(TextOf(after.chain)) < Len(TextOf(b.chain)) + Len(text)
    BY <1>2, <1>3, <1>4, <1>6, AppendIs
  <1>8. PICK t \in Seq(Chars), u \in Seq(Chars) : t = TextOf(b.chain) /\ u = TextOf(after.chain)
    BY <1>7
  <1>9. Text = t /\ Text' = u
    BY <1>2, <1>5, <1>8 DEF Text
  <1>10. asked \o text \in Seq(Chars) /\ Len(asked \o text) = Len(asked) + Len(text)
         /\ Len(asked) \in Nat /\ Len(text) \in Nat /\ Len(t) \in Nat /\ Len(u) \in Nat
    BY <1>6, ConcatProperties, LenProperties
  <1>11. after.stopped \in BOOLEAN /\ Chained(after.chain, after.current) /\ after.further = Len(after.chain) - 1
    BY <1>7 DEF Running
  <1>12. IF failed' THEN Len(u) < Len(asked') ELSE u = asked'
    <2>1. CASE ~failed /\ ~after.stopped
      BY <1>5, <1>6, <1>7, <1>8, <1>9, <2>1
    <2>2. CASE after.stopped
      <3>1. Len(t) <= Len(asked)
        BY <1>6, <1>9, <1>10
      <3>2. Len(u) < Len(t) + Len(text)
        BY <1>7, <1>8, <2>2
      <3>3. Len(u) < Len(asked \o text)
        BY <1>10, <3>1, <3>2
      <3> QED
        BY <1>5, <2>2, <3>3
    <2>3. CASE failed /\ ~after.stopped
      <3>1. Len(t) < Len(asked)
        BY <1>6, <1>9, <2>3
      <3>2. u = t \o text
        BY <1>7, <1>8, <2>3
      <3>3. Len(u) = Len(t) + Len(text)
        BY <3>2, ConcatProperties
      <3>4. Len(u) < Len(asked \o text)
        BY <1>10, <3>1, <3>3
      <3> QED
        BY <1>5, <2>3, <3>4
    <2> QED
      BY <1>6, <1>11, <2>1, <2>2, <2>3
  <1> QED
    BY <1>5, <1>6, <1>9, <1>10, <1>11, <1>12 DEF BuilderInv

(* A builder with its first buffer only, and nothing in it.                 *)
LEMMA ResetStep ==
    ASSUME subsequent \in Nat \ {0}, Len(chain) - 1 = further, Reset, subsequent' = subsequent, out' \in Handed
    PROVE  BuilderInv'
  <1>1. PICK c : c = First(INITIAL_DATA_SIZE)
    OBVIOUS
  <1>2. chain' = c /\ current' = 0 /\ failed' = FALSE /\ asked' = <<>> /\ further' = further - (Len(chain) - 1)
    BY <1>1 DEF Reset, FreedBuffers, First
  <1>3. c \in Seq(Buffers) /\ Len(c) = 1 /\ c[1] = Buffer(INITIAL_DATA_SIZE) /\ TextOf(c) = <<>>
    BY <1>1, BuilderAssumption, FirstBufferIs
  <1>4. Chained(c, 0)
    <2>1. c[1].data = <<>> /\ c[1].allocated = INITIAL_DATA_SIZE /\ Len(<<>>) = 0
      BY <1>3 DEF Buffer
    <2>2. Len(c[1].data) <= c[1].allocated
      BY <2>1, BuilderAssumption
    <2> QED
      BY <1>3, <2>2 DEF Chained
  <1>5. Text' = <<>>
    BY <1>2, <1>3 DEF Text
  <1>6. further' = 0
    BY <1>2
  <1>7. Chained(chain', current') /\ further' = Len(chain') - 1
    BY <1>2, <1>3, <1>4, <1>6
  <1>8. asked' \in Seq(Chars) /\ failed' \in BOOLEAN /\ (IF failed' THEN Len(Text') < Len(asked') ELSE Text' = asked')
    <2>1. asked' = <<>> /\ failed' = FALSE /\ Text' = asked' /\ <<>> \in Seq(Chars)
      BY <1>2, <1>5
    <2> QED
      BY <2>1
  <1> QED
    BY <1>7, <1>8, Zenon DEF BuilderInv

(* Every step keeps the invariant.                                          *)
LEMMA BuilderStep ==
    BuilderInv /\ [BuilderNext]_builderVars => BuilderInv'
  <1> SUFFICES ASSUME BuilderInv, [BuilderNext]_builderVars PROVE BuilderInv'
    OBVIOUS
  <1>1. /\ Chained(chain, current) /\ further = Len(chain) - 1
        /\ subsequent \in Nat \ {0} /\ asked \in Seq(Chars) /\ failed \in BOOLEAN
        /\ out \in Handed
    BY DEF BuilderInv
  <1>2. PICK n \in Nat : n = Len(chain)
    BY <1>1, LenProperties DEF Chained
  <1>3. NoString \in Handed
    BY DEF Handed
  <1>4. PICK t \in Seq(Chars) : t = Text
    BY <1>1, ChainText DEF Text
  <1>5. /\ [is |-> "string", text |-> t, size |-> Len(t)] \in Handed
        /\ [is |-> "c_string", text |-> Append(t, NUL), size |-> Len(t) + 1] \in Handed
    BY DEF Handed
  <1>6. CASE UNCHANGED builderVars
    <2>1. Text' = Text
      BY <1>6 DEF Text, builderVars
    <2> QED
      BY <1>6, <2>1 DEF BuilderInv, builderVars
  <1>7. ASSUME NEW k \in 0 .. MAX_TEXT, NEW available \in 0 .. MAX_BUFFERS, NEW text \in [1 .. k -> Chars],
               append(text, available)
        PROVE  BuilderInv'
    <2>1. text \in Seq(Chars)
      OBVIOUS
    <2> QED
      BY <1>7, <2>1, TextStep
  <1>8. CASE reset_builder
    BY <1>1, <1>8, ResetStep DEF reset_builder
  <1>9. CASE free_string
    <2>1. Text' = Text
      BY <1>9 DEF Text, free_string
    <2> QED
      BY <1>3, <1>9, <2>1 DEF BuilderInv, free_string
  <1>10. ASSUME NEW do_reset \in BOOLEAN, to_string(do_reset) \/ to_c_string(do_reset)
         PROVE  BuilderInv'
    <2>1. out' \in Handed
      <3>1. CASE to_string(do_reset)
        <4>1. out' = IF length = 0 THEN NoString ELSE [is |-> "string", text |-> t, size |-> Len(t)]
          BY <1>4, <3>1 DEF to_string, length
        <4> QED
          BY <1>3, <1>5, <4>1
      <3>2. CASE to_c_string(do_reset)
        <4>1. out' = [is |-> "c_string", text |-> Append(t, NUL), size |-> Len(t) + 1]
          BY <1>4, <3>2 DEF to_c_string, length
        <4> QED
          BY <1>5, <4>1
      <3> QED
        BY <1>10, <3>1, <3>2
    <2>2. /\ IF do_reset THEN Reset ELSE UNCHANGED <<chain, current, failed, asked, further>>
          /\ UNCHANGED subsequent
      BY <1>10 DEF to_string, to_c_string
    <2>3. CASE do_reset
      BY <1>1, <2>1, <2>2, <2>3, ResetStep
    <2>4. CASE ~do_reset
      <3>1. Text' = Text
        BY <2>2, <2>4 DEF Text
      <3> QED
        BY <2>1, <2>2, <2>4, <3>1 DEF BuilderInv
    <2> QED
      BY <2>3, <2>4
  <1> QED
    BY <1>6, <1>7, <1>8, <1>9, <1>10 DEF BuilderNext

(* A builder begins with its first buffer.                                  *)
LEMMA BuilderStart ==
    BuilderInit => BuilderInv
  <1> SUFFICES ASSUME BuilderInit PROVE BuilderInv
    OBVIOUS
  <1>1. PICK c : c = First(INITIAL_DATA_SIZE)
    OBVIOUS
  <1>2. /\ chain = c /\ current = 0 /\ failed = FALSE /\ asked = <<>> /\ further = 0 /\ out = NoString
        /\ subsequent \in Nat \ {0}
    BY <1>1, BuilderAssumption DEF BuilderInit, First
  <1>3. c \in Seq(Buffers) /\ Len(c) = 1 /\ c[1] = Buffer(INITIAL_DATA_SIZE) /\ TextOf(c) = <<>>
    BY <1>1, BuilderAssumption, FirstBufferIs
  <1>4. Chained(c, 0)
    <2>1. c[1].data = <<>> /\ c[1].allocated = INITIAL_DATA_SIZE /\ Len(<<>>) = 0
      BY <1>3 DEF Buffer
    <2>2. Len(c[1].data) <= c[1].allocated
      BY <2>1, BuilderAssumption
    <2> QED
      BY <1>3, <2>2 DEF Chained
  <1>5. Text = <<>>
    BY <1>2, <1>3 DEF Text
  <1>6. out \in Handed
    BY <1>2 DEF Handed
  <1>7. Chained(chain, current) /\ further = Len(chain) - 1
    BY <1>2, <1>3, <1>4
  <1>8. asked \in Seq(Chars) /\ failed \in BOOLEAN /\ (IF failed THEN Len(Text) < Len(asked) ELSE Text = asked)
    <2>1. asked = <<>> /\ failed = FALSE /\ Text = asked /\ <<>> \in Seq(Chars)
      BY <1>2, <1>5
    <2> QED
      BY <2>1
  <1> QED
    BY <1>2, <1>6, <1>7, <1>8, Zenon DEF BuilderInv

(* A C string without the terminator in its text ends at the one behind it. *)
LEMMA TerminatorIs ==
    ASSUME NEW t \in Seq(Chars), NEW n \in Nat, n = Len(t), \A i \in 1 .. n : t[i] # NUL
    PROVE  strlen(Append(t, NUL)) = n
  <1>1. PICK s : s = Append(t, NUL)
    OBVIOUS
  <1>2. DOMAIN s = 1 .. n + 1 /\ s[n + 1] = NUL /\ \A i \in 1 .. n : s[i] # NUL
    BY <1>1
  <1>3. n + 1 \in DOMAIN s /\ \A j \in 1 .. n + 1 - 1 : s[j] # NUL
    BY <1>2
  <1>4. \A i \in DOMAIN s : s[i] = NUL => i = n + 1
    BY <1>2
  <1>5. (CHOOSE i \in DOMAIN s : s[i] = NUL /\ \A j \in 1 .. i - 1 : s[j] # NUL) = n + 1
    BY <1>2, <1>3, <1>4
  <1> QED
    BY <1>1, <1>5 DEF strlen

(* What the invariant says of the text and of what is handed out.           *)
LEMMA BuilderFollows ==
    BuilderInv => TextSound
  <1> SUFFICES ASSUME BuilderInv PROVE TextSound
    OBVIOUS
  <1>1. BuilderTypeOK
    BY DEF BuilderInv, Chained, BuilderTypeOK
  <1>2. TextIsKept
    BY DEF BuilderInv, TextIsKept, length
  <1>3. BuffersInChain
    BY DEF BuilderInv, BuffersInChain
  <1>4. ASSUME out # NoString, out.is = "c_string" => \A i \in 1 .. out.size - 1 : out.text[i] # NUL
        PROVE  FreedSize(out) = out.size /\ Len(out.text) = out.size
    <2>1. CASE \E t \in Seq(Chars) : out = [is |-> "string", text |-> t, size |-> Len(t)]
      BY <2>1 DEF FreedSize
    <2>2. CASE \E t \in Seq(Chars) : out = [is |-> "c_string", text |-> Append(t, NUL), size |-> Len(t) + 1]
      <3>1. PICK t \in Seq(Chars) : out = [is |-> "c_string", text |-> Append(t, NUL), size |-> Len(t) + 1]
        BY <2>2
      <3>2. PICK n \in Nat : n = Len(t)
        BY LenProperties
      <3>3. out.is = "c_string" /\ out.text = Append(t, NUL) /\ out.size = n + 1
        BY <3>1, <3>2
      <3>4. NUL \in Chars
        BY BuilderAssumption
      <3>5. Len(Append(t, NUL)) = n + 1 /\ \A i \in 1 .. n : Append(t, NUL)[i] = t[i]
        BY <3>2, <3>4, AppendProperties
      <3>6. \A i \in 1 .. n : t[i] # NUL
        <4>1. n + 1 - 1 = n
          OBVIOUS
        <4> QED
          BY <1>4, <3>3, <3>5, <4>1
      <3>7. strlen(Append(t, NUL)) = n
        BY <3>2, <3>6, TerminatorIs
      <3> QED
        BY <3>3, <3>5, <3>7 DEF FreedSize
    <2> QED
      BY <1>4, <2>1, <2>2 DEF BuilderInv, Handed
  <1>5. FreedWithItsSize
    BY <1>4 DEF FreedWithItsSize
  <1> QED
    BY <1>1, <1>2, <1>3, <1>5 DEF TextSound

(* A builder's text is what was appended, across all borders of its buffers *)
(* and whatever allocation fails, or failed says that some is missing; all   *)
(* buffers are freed, and strings with the sizes they were allocated with.   *)
THEOREM TextIsSound == BuilderSpec => []TextSound
  <1> QED
    BY BuilderStart, BuilderStep, BuilderFollows, PTL DEF BuilderSpec
-----------------------------------------------------------------------------
(* Powers of two.                                                           *)
Powers == {p \in Nat \ {0} : IsPowerOfTwo(p)}

(* An odd number does not turn even when it is taken times another.         *)
LEMMA OddOrEven ==
    ASSUME NEW n \in Nat
    PROVE  \E m \in Nat : (n = 2 * m /\ n % 2 = 0) \/ (n = 2 * m + 1 /\ n % 2 = 1)
  <1>1. PICK q \in Nat, r \in 0 .. 1 : n % 2 = r /\ n = 2 * q + r
    <2>1. \E q \in Nat, r \in 0 .. 2 - 1 : n \div 2 = q /\ n % 2 = r /\ n = 2 * q + r
      BY DivMod
    <2> QED
      BY <2>1
  <1> QED
    BY <1>1

(* d divides n.                                                             *)
LEMMA DividesIs ==
    ASSUME NEW n \in Nat, NEW d \in Nat \ {0}
    PROVE  n % d = 0 <=> \E q \in Nat : n = d * q
  <1>1. ASSUME n % d = 0 PROVE \E q \in Nat : n = d * q
    <2>1. PICK q \in Nat, r \in 0 .. d - 1 : n % d = r /\ n = d * q + r
      BY DivMod
    <2> QED
      BY <1>1, <2>1
  <1>2. ASSUME NEW q \in Nat, n = d * q PROVE n % d = 0
    <2>1. (d * q + 0) % d = 0
      BY DivUnique
    <2>2. d * q + 0 = n
      BY <1>2
    <2> QED
      BY <2>1, <2>2
  <1> QED
    BY <1>1, <1>2

(* What the powers of two are built from.                                   *)
LEMMA PowersAre ==
    /\ 1 \in Powers
    /\ \A p \in Powers : 2 * p \in Powers
    /\ \A p \in Powers : p # 1 => \E h \in Powers : p = 2 * h
  <1>1. 1 \in Powers
    BY DEF Powers, IsPowerOfTwo
  <1>2. ASSUME NEW p \in Powers PROVE 2 * p \in Powers
    <2>1. p \in Nat \ {0} /\ \A d \in 1 .. p : p % d = 0 => d = 1 \/ d % 2 = 0
      BY DEF Powers, IsPowerOfTwo
    <2>2. ASSUME NEW d \in 1 .. 2 * p, (2 * p) % d = 0, d % 2 # 0 PROVE d = 1
      <3>1. PICK q \in Nat : 2 * p = d * q
        BY <2>1, <2>2, DividesIs
      <3>2. PICK m \in Nat : d = 2 * m + 1
        BY <2>2, OddOrEven
      <3>3. PICK j \in Nat : q = 2 * j \/ q = 2 * j + 1
        BY OddOrEven
      <3>4. q = 2 * j
        <4> SUFFICES ASSUME q = 2 * j + 1 PROVE FALSE
          BY <3>3
        <4>1. d * q = 2 * (m * (2 * j + 1) + j) + 1
          BY <3>2
        <4>2. m * (2 * j + 1) \in Nat
          OBVIOUS
        <4> QED
          BY <2>1, <3>1, <4>1, <4>2
      <3>5. p = d * j
        <4>1. 2 * p = 2 * (d * j)
          BY <3>1, <3>4
        <4>2. d * j \in Nat
          OBVIOUS
        <4> QED
          BY <2>1, <4>1, <4>2
      <3>6. p % d = 0
        <4>1. p \in Nat /\ d \in Nat \ {0}
          BY <2>1, <2>2
        <4> QED
          BY <3>5, <4>1, DividesIs
      <3>7. d <= p
        <4>1. j # 0
          BY <2>1, <3>5
        <4>2. d * j >= d * 1
          BY <4>1
        <4> QED
          BY <3>5, <4>2
      <3> QED
        BY <2>1, <2>2, <3>6, <3>7
    <2> QED
      BY <2>1, <2>2 DEF Powers, IsPowerOfTwo
  <1>3. ASSUME NEW p \in Powers, p # 1 PROVE \E h \in Powers : p = 2 * h
    <2>1. p \in Nat \ {0} /\ \A d \in 1 .. p : p % d = 0 => d = 1 \/ d % 2 = 0
      BY DEF Powers, IsPowerOfTwo
    <2>2. p % p = 0
      <3>1. p = p * 1
        BY <2>1
      <3> QED
        BY <2>1, <3>1, DividesIs
    <2>3. p % 2 = 0
      BY <1>3, <2>1, <2>2
    <2>4. PICK h \in Nat : p = 2 * h
      BY <2>1, <2>3, OddOrEven
    <2>5. h \in Nat \ {0}
      BY <2>1, <2>4
    <2>6. ASSUME NEW d \in 1 .. h, h % d = 0 PROVE d = 1 \/ d % 2 = 0
      <3>1. PICK q \in Nat : h = d * q
        BY <2>6, DividesIs
      <3>2. p = d * (2 * q)
        BY <2>4, <3>1
      <3>3. p % d = 0
        BY <2>1, <3>2, DividesIs
      <3>4. d \in 1 .. p
        BY <2>4
      <3> QED
        BY <2>1, <3>3, <3>4
    <2>7. h \in Powers
      BY <2>5, <2>6 DEF Powers, IsPowerOfTwo
    <2> QED
      BY <2>4, <2>7
  <1> QED
    BY <1>1, <1>2, <1>3
(* There is a power of two between a number and its double.                 *)
LEMMA PowerExists ==
    ASSUME NEW n \in Nat \ {0}
    PROVE  \E p \in Powers : n <= p /\ p < 2 * n
  <1> DEFINE missing == {m \in Nat \ {0} : ~\E p \in Powers : m <= p /\ p < 2 * m}
  <1>1. SUFFICES ASSUME missing # {} PROVE FALSE
    OBVIOUS
  <1>2. PICK m \in missing : \A i \in missing : m <= i
    <2>1. missing \in SUBSET Nat
      OBVIOUS
    <2> QED
      BY <1>1, <2>1, LeastExists
  <1>3. m # 1
    BY PowersAre
  <1>4. PICK h \in Nat : m = 2 * h \/ m = 2 * h + 1
    BY OddOrEven
  <1>5. PICK half \in Nat \ {0} : half < m /\ (m = 2 * half \/ m = 2 * half - 1)
    <2>1. CASE m = 2 * h
      BY <2>1
    <2>2. CASE m = 2 * h + 1
      <3>1. h + 1 \in Nat \ {0} /\ h + 1 < m /\ m = 2 * (h + 1) - 1
        BY <1>3, <2>2
      <3> QED
        BY <3>1
    <2> QED
      BY <1>4, <2>1, <2>2
  <1>6. PICK p \in Powers : half <= p /\ p < 2 * half
    BY <1>2, <1>5
  <1>7. p \in Nat \ {0} /\ 2 * p \in Powers
    BY PowersAre DEF Powers
  <1>8. m <= 2 * p
    BY <1>5, <1>6, <1>7
  <1>9. 2 * p < 2 * m
    <2>1. CASE m = 2 * half
      BY <1>6, <1>7, <2>1
    <2>2. CASE m = 2 * half - 1
      <3>1. p # m
        <4> SUFFICES ASSUME p = m PROVE FALSE
          OBVIOUS
        <4>1. PICK g \in Powers : p = 2 * g
          BY <1>3, PowersAre
        <4> QED
          BY <2>2, <4>1 DEF Powers
      <3> QED
        BY <1>6, <1>7, <2>2, <3>1
    <2> QED
      BY <1>5, <2>1, <2>2
  <1> QED
    BY <1>7, <1>8, <1>9

(* Of two powers of two the greater is at least twice the other.            *)
LEMMA PowersApart ==
    ASSUME NEW p \in Powers, NEW q \in Powers, p < q
    PROVE  2 * p <= q
  <1> DEFINE close == {m \in Nat : \E b \in Powers : m \in Powers /\ m < b /\ b < 2 * m}
  <1>0. Powers \in SUBSET Nat
    BY DEF Powers
  <1>1. SUFFICES ASSUME close # {} PROVE FALSE
    BY <1>0
  <1>2. PICK m \in close : \A i \in close : m <= i
    <2>1. close \in SUBSET Nat
      OBVIOUS
    <2> QED
      BY <1>1, <2>1, LeastExists
  <1>3. PICK b \in Powers : m \in Powers /\ m < b /\ b < 2 * m
    OBVIOUS
  <1>4. m # 1 /\ b # 1
    BY <1>0, <1>3
  <1>5. PICK g \in Powers, h \in Powers : m = 2 * g /\ b = 2 * h
    BY <1>3, <1>4, PowersAre
  <1>6. g < h /\ h < 2 * g /\ g < m
    BY <1>0, <1>3, <1>5 DEF Powers
  <1>7. g \in close
    BY <1>0, <1>6
  <1> QED
    BY <1>0, <1>2, <1>6, <1>7

(* next_power_of_two finds it, and leaves a power of two as it is.          *)
LEMMA NextPowerIs ==
    ASSUME NEW n \in Nat \ {0}
    PROVE  /\ next_power_of_two(n) \in Powers /\ n <= next_power_of_two(n) /\ next_power_of_two(n) < 2 * n
           /\ n \in Powers => next_power_of_two(n) = n
  <1>1. \E p \in n .. 2 * n - 1 : IsPowerOfTwo(p)
    BY PowerExists DEF Powers
  <1>2. PICK p : p = next_power_of_two(n)
    OBVIOUS
  <1>3. p \in n .. 2 * n - 1 /\ IsPowerOfTwo(p)
    BY <1>1, <1>2 DEF next_power_of_two
  <1>4. p \in Powers
    BY <1>3 DEF Powers
  <1>5. n \in Powers => p = n
    <2> SUFFICES ASSUME n \in Powers, p # n PROVE FALSE
      OBVIOUS
    <2>1. 2 * n <= p
      BY <1>3, <1>4, PowersApart
    <2> QED
      BY <1>3, <2>1
  <1> QED
    BY <1>2, <1>3, <1>4, <1>5

(* A power of two that divides a product divides the factor that is next to *)
(* an odd one.                                                              *)
LEMMA OddFactor ==
    ASSUME NEW s \in Powers, NEW m \in Nat, NEW y \in Nat, NEW q \in Nat, (2 * m + 1) * y = s * q
    PROVE  \E r \in Nat : y = s * r
  <1> DEFINE x == 2 * m + 1
             fails == {p \in Nat : p \in Powers /\ \E z, u \in Nat : x * z = p * u /\ ~\E r \in Nat : z = p * r}
  <1>0. Powers \in SUBSET Nat
    BY DEF Powers
  <1>1. SUFFICES ASSUME fails # {} PROVE FALSE
    BY <1>0
  <1>2. PICK p \in fails : \A i \in fails : p <= i
    <2>1. fails \in SUBSET Nat
      OBVIOUS
    <2> QED
      BY <1>1, <2>1, LeastExists
  <1>3. PICK z \in Nat, u \in Nat : x * z = p * u /\ ~\E r \in Nat : z = p * r
    BY <1>2
  <1>4. p # 1
    <2> SUFFICES ASSUME p = 1 PROVE FALSE
      OBVIOUS
    <2>1. z = 1 * z
      OBVIOUS
    <2> QED
      BY <1>3, <2>1
  <1>5. PICK h \in Powers : p = 2 * h
    BY <1>4, PowersAre
  <1>6. h \in Nat \ {0} /\ h < p
    BY <1>5 DEF Powers
  <1>7. PICK w \in Nat : z = 2 * w
    <2>1. PICK w \in Nat : z = 2 * w \/ z = 2 * w + 1
      BY OddOrEven
    <2>2. ASSUME z = 2 * w + 1 PROVE FALSE
      <3>1. x * z = 2 * (m * (2 * w + 1) + w) + 1
        BY <2>2
      <3>2. m * (2 * w + 1) \in Nat
        OBVIOUS
      <3>3. p * u = 2 * (h * u) /\ h * u \in Nat
        BY <1>5, <1>6
      <3> HIDE DEF x
      <3> QED
        BY <1>3, <3>1, <3>2, <3>3
    <2> QED
      BY <2>1, <2>2
  <1>8. x * w = h * u
    <2>1. 2 * (x * w) = 2 * (h * u)
      BY <1>3, <1>5, <1>6, <1>7
    <2>2. x * w \in Nat /\ h * u \in Nat
      BY <1>6
    <2> HIDE DEF x
    <2> QED
      BY <2>1, <2>2
  <1>9. PICK r \in Nat : w = h * r
    <2>1. h \notin fails
      <3>1. p \in Nat /\ (h \in fails => p <= h)
        BY <1>2
      <3> HIDE DEF fails
      <3> QED
        BY <1>6, <3>1
    <2> QED
      BY <1>6, <1>8, <2>1
  <1>10. z = p * r
    BY <1>5, <1>6, <1>7, <1>9
  <1> QED
    BY <1>3, <1>10

-----------------------------------------------------------------------------
(* Probing.                                                                 *)

(* How far the n-th probe is from the first.                                *)
Stride(n) == (n * (n + 1)) \div 2

(* What the increments of the first n probes add up to.                     *)
LEMMA StrideIs ==
    ASSUME NEW n \in Nat
    PROVE  Stride(n) \in Nat /\ 2 * Stride(n) = n * (n + 1)
  <1>1. PICK m \in Nat : n = 2 * m \/ n = 2 * m + 1
    BY OddOrEven
  <1>2. PICK j \in Nat : n * (n + 1) = 2 * j
    <2>1. CASE n = 2 * m
      <3>1. n * (n + 1) = 2 * (m * (n + 1)) /\ m * (n + 1) \in Nat
        BY <2>1
      <3> QED
        BY <3>1
    <2>2. CASE n = 2 * m + 1
      <3>1. n + 1 = 2 * (m + 1)
        BY <2>2
      <3>2. n * (n + 1) = 2 * (n * (m + 1)) /\ n * (m + 1) \in Nat
        BY <3>1
      <3> QED
        BY <3>2
    <2> QED
      BY <1>1, <2>1, <2>2
  <1>3. (2 * j + 0) \div 2 = j
    BY DivUnique
  <1>4. Stride(n) = j
    BY <1>2, <1>3 DEF Stride
  <1> QED
    BY <1>2, <1>4

(* A probe is a slot.                                                       *)
LEMMA ProbeIs ==
    ASSUME NEW h \in Nat, NEW n \in Nat, NEW s \in Nat \ {0}
    PROVE  /\ ProbeSlot(h, n, s) \in 0 .. s - 1
           /\ \E q \in Nat : h + Stride(n) = s * q + ProbeSlot(h, n, s)
  <1>1. h + Stride(n) \in Nat
    BY StrideIs
  <1>2. PICK q \in Nat, r \in 0 .. s - 1 : (h + Stride(n)) % s = r /\ h + Stride(n) = s * q + r
    BY <1>1, DivMod
  <1>3. ProbeSlot(h, n, s) = r
    BY <1>2 DEF ProbeSlot, Stride
  <1> QED
    BY <1>2, <1>3

(* The probes of one round differ, when the size is a power of two: 2 * s   *)
(* does not divide (b - a) * (a + b + 1), of which one factor is odd and     *)
(* both are smaller.                                                        *)
LEMMA ProbesDiffer ==
    ASSUME NEW h \in Nat, NEW s \in Powers, NEW a \in 0 .. s - 1, NEW b \in 0 .. s - 1, a < b
    PROVE  ProbeSlot(h, a, s) # ProbeSlot(h, b, s)
  <1>0. s \in Nat \ {0} /\ 2 * s \in Powers /\ a \in Nat /\ b \in Nat
    BY PowersAre DEF Powers
  <1> SUFFICES ASSUME ProbeSlot(h, a, s) = ProbeSlot(h, b, s) PROVE FALSE
    OBVIOUS
  <1>1. PICK p \in Nat : h + Stride(a) = s * p + ProbeSlot(h, a, s)
    BY <1>0, ProbeIs
  <1>2. PICK q \in Nat : h + Stride(b) = s * q + ProbeSlot(h, b, s)
    BY <1>0, ProbeIs
  <1>3. PICK r \in Nat : r = ProbeSlot(h, a, s)
    BY <1>0, ProbeIs
  <1>4. PICK u \in Nat, v \in Nat : u = Stride(a) /\ v = Stride(b) /\ 2 * u = a * (a + 1) /\ 2 * v = b * (b + 1)
    BY <1>0, StrideIs
  <1>5. PICK d \in 1 .. s - 1, e \in 1 .. 2 * s - 1 : d = b - a /\ e = a + b + 1
    <2>1. b - a \in 1 .. s - 1 /\ a + b + 1 \in 1 .. 2 * s - 1
      BY <1>0
    <2> QED
      BY <2>1
  <1>6. v - u = s * q - s * p
    <2>1. h + u = s * p + r /\ h + v = s * q + r
      BY <1>1, <1>2, <1>3, <1>4
    <2>2. s * p \in Nat /\ s * q \in Nat
      BY <1>0
    <2> QED
      BY <2>1, <2>2
  <1>7. d * e = b * (b + 1) - a * (a + 1)
    BY <1>5
  <1>8. d * e = (2 * s) * (q - p)
    <2>1. s * q - s * p = s * (q - p)
      BY <1>0
    <2>2. 2 * v - 2 * u = d * e
      BY <1>4, <1>7
    <2>3. 2 * v - 2 * u = 2 * (v - u)
      OBVIOUS
    <2>4. d * e = 2 * (s * (q - p))
      BY <1>6, <2>1, <2>2, <2>3
    <2> QED
      BY <1>0, <2>4
  <1>9. d * e > 0
    BY <1>5
  <1>10. q - p \in Nat
    <2> SUFFICES ASSUME q - p <= 0 PROVE FALSE
      OBVIOUS
    <2>1. (2 * s) * (q - p) <= 0
      BY <1>0
    <2>2. d * e \in Nat
      OBVIOUS
    <2> QED
      BY <1>8, <1>9, <2>1, <2>2
  <1>11. PICK m \in Nat : d = 2 * m \/ d = 2 * m + 1
    <2>1. d \in Nat
      OBVIOUS
    <2> QED
      BY <2>1, OddOrEven
  <1>12. CASE d = 2 * m + 1
    <2>1. PICK k \in Nat : e = (2 * s) * k
      <3>1. PICK w \in Powers, z \in Nat : w = 2 * s /\ z = q - p
        BY <1>0, <1>10
      <3>2. e \in Nat /\ (2 * m + 1) * e = w * z
        BY <1>8, <1>12, <3>1
      <3>3. \E k \in Nat : e = w * k
        BY <3>2, OddFactor
      <3> QED
        BY <3>1, <3>3
    <2>2. k # 0
      <3>1. (2 * s) * 0 = 0
        BY <1>0
      <3> QED
        BY <2>1, <3>1
    <2>3. (2 * s) * k >= (2 * s) * 1
      BY <1>0, <2>2
    <2> QED
      BY <1>0, <2>1, <2>3
  <1>13. CASE d = 2 * m
    <2>1. PICK j \in Nat : e = 2 * j + 1
      <3>1. e = d + 2 * a + 1
        BY <1>5
      <3>2. m + a \in Nat /\ e = 2 * (m + a) + 1
        BY <1>13, <3>1
      <3> QED
        BY <3>2
    <2>2. (2 * j + 1) * d = (2 * s) * (q - p)
      BY <1>8, <2>1
    <2>3. PICK k \in Nat : d = (2 * s) * k
      <3>1. PICK w \in Powers, z \in Nat : w = 2 * s /\ z = q - p
        BY <1>0, <1>10
      <3>2. d \in Nat /\ (2 * j + 1) * d = w * z
        BY <2>2, <3>1
      <3>3. \E k \in Nat : d = w * k
        BY <3>2, OddFactor
      <3> QED
        BY <3>1, <3>3
    <2>4. k # 0
      <3>1. (2 * s) * 0 = 0
        BY <1>0
      <3> QED
        BY <2>3, <3>1
    <2>5. (2 * s) * k >= (2 * s) * 1
      BY <1>0, <2>4
    <2> QED
      BY <1>0, <2>3, <2>5
  <1> QED
    BY <1>11, <1>12, <1>13

(* So a round of probes reaches every slot.                                 *)
LEMMA ProbesReach ==
    ASSUME NEW h \in Nat, NEW s \in Powers, NEW i \in 0 .. s - 1
    PROVE  \E n \in 0 .. s - 1 : ProbeSlot(h, n, s) = i
  <1>0. s \in Nat \ {0}
    BY DEF Powers
  <1> DEFINE R == 0 .. s - 1
             f == [n \in R |-> ProbeSlot(h, n, s)]
  <1>1. \A n \in R : ProbeSlot(h, n, s) \in R
    <2>1. \A n \in R : n \in Nat
      BY <1>0
    <2> QED
      BY <1>0, <2>1, ProbeIs
  <1>2. f \in [R -> R]
    BY <1>1
  <1>3. \A a \in R, b \in R : a # b => f[a] # f[b]
    <2> SUFFICES ASSUME NEW a \in R, NEW b \in R, a # b PROVE ProbeSlot(h, a, s) # ProbeSlot(h, b, s)
      OBVIOUS
    <2>1. a < b \/ b < a
      BY <1>0
    <2> QED
      BY <2>1, ProbesDiffer
  <1>4. f \in Injection(R, R)
    BY <1>2, <1>3 DEF Injection, IsInjective
  <1>5. IsFiniteSet(R)
    BY <1>0, FS_Interval
  <1>6. f \in Surjection(R, R)
    BY <1>4, <1>5, FS_Injection, Zenon
  <1>7. \E n \in R : f[n] = i
    BY <1>6 DEF Surjection
  <1> QED
    BY <1>7

(* What FirstProbe finds among the slots that stop it.                      *)
LEMMA FirstProbeIs ==
    ASSUME NEW t, NEW s \in Powers, SizeOf(t) = s, NEW h \in Nat, NEW stops \in SUBSET (0 .. s - 1)
    PROVE  /\ stops = {} => FirstProbe(t, h, stops) = NoSlot
           /\ stops # {} => \E n \in Nat : /\ FirstProbe(t, h, stops) = ProbeSlot(h, n, s)
                                           /\ ProbeSlot(h, n, s) \in stops
                                           /\ \A m \in 0 .. n - 1 : ProbeSlot(h, m, s) \notin stops
  <1>0. s \in Nat \ {0}
    BY DEF Powers
  <1> DEFINE hits  == {n \in 0 .. 2 * s - 1 : ProbeSlot(h, n, s) \in stops}
             first == CHOOSE n \in hits : \A m \in hits : n <= m
  <1>1. FirstProbe(t, h, stops) = IF hits = {} THEN NoSlot ELSE ProbeSlot(h, first, s)
    BY DEF FirstProbe
  <1>2. CASE stops = {}
    BY <1>1, <1>2
  <1>3. CASE stops # {}
    <2>1. PICK i \in stops : i \in 0 .. s - 1
      BY <1>3
    <2>2. PICK n \in 0 .. s - 1 : ProbeSlot(h, n, s) = i
      BY <2>1, ProbesReach
    <2>3. n \in hits
      BY <1>0, <2>1, <2>2
    <2>4. hits \in SUBSET Nat /\ hits # {}
      BY <1>0, <2>3
    <2>5. PICK least \in hits : \A m \in hits : least <= m
      BY <2>4, LeastExists
    <2>6. first \in hits /\ \A m \in hits : first <= m
      BY <2>5
    <2> HIDE DEF first
    <2>7. first \in 0 .. 2 * s - 1 /\ ProbeSlot(h, first, s) \in stops
      BY <2>6
    <2>8. ASSUME NEW m \in 0 .. first - 1 PROVE ProbeSlot(h, m, s) \notin stops
      <3>1. m \in 0 .. 2 * s - 1 /\ m < first
        BY <1>0, <2>7
      <3>2. m \notin hits
        <4>1. m \in hits => first <= m
          BY <2>6
        <4> HIDE DEF hits
        <4> QED
          BY <2>7, <3>1, <4>1
      <3> QED
        BY <3>1, <3>2
    <2>9. FirstProbe(t, h, stops) = ProbeSlot(h, first, s)
      BY <1>1, <2>4
    <2> QED
      BY <1>3, <2>7, <2>8, <2>9
  <1> QED
    BY <1>2, <1>3

-----------------------------------------------------------------------------
(* Hash_Table.                                                              *)
Pair(k, v) == [hash |-> compute(k), key |-> k, value |-> v]
HashEntries == {Blank, Tombstone} \cup {Pair(k, v) : k \in Keys, v \in Payloads}

(* Every entry is on the probe path of its hash before any empty slot.      *)
OnTheirPaths(t, s) ==
    \A i \in ValidSlots(t) : \E n \in Nat :
        /\ ProbeSlot(t.entries[i].hash, n, s) = i
        /\ \A m \in 0 .. n - 1 : t.entries[ProbeSlot(t.entries[i].hash, m, s)].hash # EMPTY_HASH

(* A table of s slots.                                                      *)
TableOf(t, s) ==
    /\ s \in Powers
    /\ t \in [count : Nat, slots_filled : Nat, entries : [0 .. s - 1 -> HashEntries]]
    /\ t.count = Cardinality(ValidSlots(t)) /\ t.slots_filled = Cardinality(FilledSlots(t))
    /\ OnTheirPaths(t, s)

(* Hashes of keys are not those that mark a slot.                           *)
LEMMA ComputeIs == ASSUME NEW k \in Keys PROVE compute(k) \in Nat /\ compute(k) >= 2
  <1>1. KeyHash[k] \in Nat
    BY HashTableAssumption
  <1> QED
    BY <1>1 DEF compute, FIRST_VALID_HASH

(* What a slot holds.                                                       *)
LEMMA HashEntryIs ==
    ASSUME NEW e \in HashEntries
    PROVE  /\ e.hash \in Nat
           /\ e.hash = 0 \/ e.hash = 1 \/ (e.hash >= 2 /\ \E k \in Keys, v \in Payloads : e = Pair(k, v))
  <1>1. CASE e = Blank \/ e = Tombstone
    BY <1>1 DEF Blank, Tombstone, EMPTY_HASH, TOMBSTONE_HASH
  <1>2. ASSUME NEW k \in Keys, NEW v \in Payloads, e = Pair(k, v) PROVE e.hash \in Nat /\ e.hash >= 2
    BY <1>2, ComputeIs DEF Pair
  <1> QED
    BY <1>1, <1>2 DEF HashEntries

(* The slots of a table, and how many there are.                            *)
LEMMA SlotsAre ==
    ASSUME NEW t, NEW s, TableOf(t, s)
    PROVE  /\ s \in Nat \ {0} /\ DOMAIN t.entries = 0 .. s - 1 /\ SizeOf(t) = s
           /\ \A i \in 0 .. s - 1 : t.entries[i] \in HashEntries
           /\ ValidSlots(t) \subseteq FilledSlots(t) /\ FilledSlots(t) \subseteq 0 .. s - 1
           /\ \A k, v : SlotsOf(t, k, v) \subseteq ValidSlots(t)
           /\ IsFiniteSet(0 .. s - 1) /\ IsFiniteSet(ValidSlots(t)) /\ IsFiniteSet(FilledSlots(t))
           /\ \A k, v : IsFiniteSet(SlotsOf(t, k, v)) /\ Cardinality(SlotsOf(t, k, v)) \in Nat
           /\ t.count \in Nat /\ t.slots_filled \in Nat /\ t.count <= t.slots_filled /\ t.slots_filled <= s
  <1>1. s \in Nat \ {0} /\ DOMAIN t.entries = 0 .. s - 1 /\ \A i \in 0 .. s - 1 : t.entries[i] \in HashEntries
    BY DEF TableOf, Powers
  <1>2. IsFiniteSet(0 .. s - 1) /\ Cardinality(0 .. s - 1) = s
    <2>1. 0 \in Int /\ s - 1 \in Int
      BY <1>1
    <2>2. IsFiniteSet(0 .. s - 1) /\ Cardinality(0 .. s - 1) = IF 0 > s - 1 THEN 0 ELSE s - 1 - 0 + 1
      BY <2>1, FS_Interval
    <2> QED
      BY <1>1, <2>2
  <1>3. SizeOf(t) = s
    BY <1>1, <1>2 DEF SizeOf
  <1>4. ValidSlots(t) \subseteq FilledSlots(t) /\ FilledSlots(t) \subseteq 0 .. s - 1
    BY <1>1 DEF ValidSlots, FilledSlots, FIRST_VALID_HASH, EMPTY_HASH
  <1>5. \A k, v : SlotsOf(t, k, v) \subseteq ValidSlots(t)
    BY DEF SlotsOf
  <1>6. IsFiniteSet(FilledSlots(t)) /\ Cardinality(FilledSlots(t)) <= s
    BY <1>2, <1>4, Smaller
  <1>7. IsFiniteSet(ValidSlots(t)) /\ Cardinality(ValidSlots(t)) <= Cardinality(FilledSlots(t))
    BY <1>4, <1>6, Smaller
  <1>8. ASSUME NEW k, NEW v PROVE IsFiniteSet(SlotsOf(t, k, v)) /\ Cardinality(SlotsOf(t, k, v)) \in Nat
    BY <1>5, <1>7, Smaller
  <1>9. t.count \in Nat /\ t.slots_filled \in Nat /\ t.count <= t.slots_filled /\ t.slots_filled <= s
    BY <1>6, <1>7 DEF TableOf
  <1> QED
    BY <1>1, <1>2, <1>3, <1>4, <1>5, <1>6, <1>7, <1>8, <1>9

(* One more, and one less.                                                  *)
LEMMA OneMore ==
    ASSUME NEW S, IsFiniteSet(S), NEW x, x \notin S
    PROVE  IsFiniteSet(S \cup {x}) /\ Cardinality(S \cup {x}) = Cardinality(S) + 1
  BY FS_AddElement

(* What add leaves of a table with a slot that was never used.              *)
LEMMA InsertIs ==
    ASSUME NEW t, NEW s, TableOf(t, s), t.slots_filled < s, NEW k \in Keys, NEW v \in Payloads,
           NEW u, u = Insert(t, k, v)
    PROVE  /\ TableOf(u, s) /\ u.count = t.count + 1
           /\ u.slots_filled \in Nat /\ u.slots_filled <= t.slots_filled + 1
           /\ \A a \in Keys, b \in Payloads :
                  Cardinality(SlotsOf(u, a, b)) = Cardinality(SlotsOf(t, a, b)) + IF a = k /\ b = v THEN 1 ELSE 0
  <1> DEFINE h == compute(k)
             unused == WithHash(t, {EMPTY_HASH, TOMBSTONE_HASH})
             slot == FirstProbe(t, h, unused)
  <1>1. /\ s \in Nat \ {0} /\ DOMAIN t.entries = 0 .. s - 1 /\ SizeOf(t) = s
        /\ \A i \in 0 .. s - 1 : t.entries[i] \in HashEntries
        /\ ValidSlots(t) \subseteq FilledSlots(t) /\ FilledSlots(t) \subseteq 0 .. s - 1
        /\ IsFiniteSet(ValidSlots(t)) /\ IsFiniteSet(FilledSlots(t)) /\ t.count \in Nat /\ t.slots_filled \in Nat
    BY SlotsAre
  <1>2. unused \in SUBSET (0 .. s - 1) /\ h \in Nat /\ s \in Powers
    BY <1>1, ComputeIs DEF WithHash, TableOf
  <1>3. unused # {}
    <2> SUFFICES ASSUME unused = {} PROVE FALSE
      OBVIOUS
    <2>1. \A i \in 0 .. s - 1 : t.entries[i].hash # EMPTY_HASH
      BY <1>1 DEF WithHash
    <2>2. FilledSlots(t) = 0 .. s - 1
      BY <1>1, <2>1 DEF FilledSlots
    <2>3. Cardinality(0 .. s - 1) = s
      BY <1>1 DEF SizeOf
    <2> QED
      BY <1>1, <2>2, <2>3 DEF TableOf
  <1>4. PICK n \in Nat : slot = ProbeSlot(h, n, s) /\ slot \in unused /\ \A m \in 0 .. n - 1 : ProbeSlot(h, m, s) \notin unused
    <2>1. PICK x \in Nat, stops \in SUBSET (0 .. s - 1) : x = h /\ stops = unused /\ stops # {}
      BY <1>2, <1>3
    <2>2. \E n \in Nat : /\ FirstProbe(t, x, stops) = ProbeSlot(x, n, s) /\ ProbeSlot(x, n, s) \in stops
                         /\ \A m \in 0 .. n - 1 : ProbeSlot(x, m, s) \notin stops
      <3> HIDE DEF slot, h, unused
      <3>1. s \in Powers /\ SizeOf(t) = s /\ stops # {}
        BY <1>1, <1>2, <2>1
      <3> QED
        BY <3>1, FirstProbeIs
    <2>3. slot = FirstProbe(t, x, stops)
      BY <2>1
    <2> HIDE DEF slot, h, unused
    <2> QED
      BY <2>1, <2>2, <2>3
  <1> HIDE DEF slot
  <1>5. slot \in 0 .. s - 1 /\ (t.entries[slot].hash = 0 \/ t.entries[slot].hash = 1)
    BY <1>1, <1>4 DEF WithHash, EMPTY_HASH, TOMBSTONE_HASH
  <1>6. /\ u.count = t.count + 1
        /\ u.slots_filled = IF t.entries[slot].hash = 1 THEN t.slots_filled ELSE t.slots_filled + 1
        /\ u.entries = [t.entries EXCEPT ![slot] = Pair(k, v)]
        /\ u = [count |-> u.count, slots_filled |-> u.slots_filled, entries |-> u.entries]
    BY Zenon DEF Insert, slot, Pair, TOMBSTONE_HASH
  <1>7. Pair(k, v) \in HashEntries /\ Pair(k, v).hash = h /\ Pair(k, v).key = k /\ Pair(k, v).value = v
    BY DEF HashEntries, Pair
  <1>8. /\ DOMAIN u.entries = 0 .. s - 1 /\ u.entries[slot] = Pair(k, v)
        /\ \A i \in 0 .. s - 1 : i # slot => u.entries[i] = t.entries[i]
        /\ u.entries \in [0 .. s - 1 -> HashEntries]
    BY <1>1, <1>5, <1>6, <1>7 DEF TableOf
  <1>9. h >= 2
    BY ComputeIs
  <1>10. slot \notin ValidSlots(t) /\ ValidSlots(u) = ValidSlots(t) \cup {slot}
    BY <1>1, <1>5, <1>7, <1>8, <1>9 DEF ValidSlots, FIRST_VALID_HASH
  <1>11. FilledSlots(u) = FilledSlots(t) \cup {slot}
    BY <1>1, <1>5, <1>7, <1>8, <1>9 DEF FilledSlots, EMPTY_HASH
  <1>12. u.count = Cardinality(ValidSlots(u)) /\ u.count \in Nat
    BY <1>1, <1>6, <1>10, OneMore DEF TableOf
  <1>13. u.slots_filled = Cardinality(FilledSlots(u)) /\ u.slots_filled \in Nat
    <2>1. CASE t.entries[slot].hash = 1
      <3>1. FilledSlots(u) = FilledSlots(t)
        BY <1>1, <1>5, <1>11, <2>1 DEF FilledSlots, EMPTY_HASH
      <3> QED
        BY <1>1, <1>6, <2>1, <3>1 DEF TableOf
    <2>2. CASE t.entries[slot].hash = 0
      <3>1. slot \notin FilledSlots(t)
        BY <2>2 DEF FilledSlots, EMPTY_HASH
      <3>2. Cardinality(FilledSlots(u)) = Cardinality(FilledSlots(t)) + 1
        BY <1>1, <1>11, <3>1, OneMore
      <3>3. u.slots_filled = t.slots_filled + 1
        BY <1>6, <2>2
      <3>4. t.slots_filled = Cardinality(FilledSlots(t))
        BY DEF TableOf
      <3> QED
        BY <1>1, <3>2, <3>3, <3>4
    <2> QED
      BY <1>5, <2>1, <2>2
  <1>14. OnTheirPaths(u, s)
    <2> SUFFICES ASSUME NEW i \in ValidSlots(u)
                 PROVE  \E j \in Nat : /\ ProbeSlot(u.entries[i].hash, j, s) = i
                                       /\ \A m \in 0 .. j - 1 : u.entries[ProbeSlot(u.entries[i].hash, m, s)].hash # EMPTY_HASH
      BY DEF OnTheirPaths
    <2>1. ASSUME NEW x \in Nat, NEW m \in Nat PROVE ProbeSlot(x, m, s) \in 0 .. s - 1
      BY <1>1, ProbeIs
    <2>2. CASE i = slot
      <3>1. u.entries[i].hash = h
        BY <1>7, <1>8, <2>2
      <3>2. ASSUME NEW m \in 0 .. n - 1 PROVE u.entries[ProbeSlot(h, m, s)].hash # EMPTY_HASH
        <4>1. PICK p \in 0 .. s - 1 : p = ProbeSlot(h, m, s)
          BY <1>2, <2>1
        <4>2. p \notin unused
          BY <1>4, <4>1
        <4>3. t.entries[p].hash # EMPTY_HASH
          BY <1>1, <4>2 DEF WithHash
        <4>4. p # slot
          BY <1>4, <4>2
        <4> QED
          BY <1>8, <4>1, <4>3, <4>4
      <3> QED
        BY <1>4, <2>2, <3>1, <3>2
    <2>3. CASE i # slot
      <3>1. i \in ValidSlots(t) /\ i \in 0 .. s - 1
        BY <1>1, <1>10, <2>3
      <3>2. u.entries[i] = t.entries[i]
        BY <1>8, <2>3, <3>1
      <3>3. PICK x \in Nat : x = t.entries[i].hash
        BY <1>1, <3>1, HashEntryIs
      <3>4. PICK j \in Nat : ProbeSlot(x, j, s) = i /\ \A m \in 0 .. j - 1 : t.entries[ProbeSlot(x, m, s)].hash # EMPTY_HASH
        BY <3>1, <3>3 DEF TableOf, OnTheirPaths
      <3>5. ASSUME NEW m \in 0 .. j - 1 PROVE u.entries[ProbeSlot(x, m, s)].hash # EMPTY_HASH
        <4>1. PICK p \in 0 .. s - 1 : p = ProbeSlot(x, m, s)
          BY <2>1
        <4>2. t.entries[p].hash # EMPTY_HASH
          BY <3>4, <4>1
        <4>3. u.entries[p].hash # EMPTY_HASH
          BY <1>7, <1>8, <1>9, <4>2 DEF EMPTY_HASH
        <4> QED
          BY <4>1, <4>3
      <3> QED
        BY <3>2, <3>3, <3>4, <3>5
    <2> QED
      BY <2>2, <2>3
  <1>15. TableOf(u, s)
    BY <1>2, <1>6, <1>8, <1>12, <1>13, <1>14 DEF TableOf
  <1>16. ASSUME NEW a \in Keys, NEW b \in Payloads
         PROVE  Cardinality(SlotsOf(u, a, b)) = Cardinality(SlotsOf(t, a, b)) + IF a = k /\ b = v THEN 1 ELSE 0
    <2>0. IsFiniteSet(SlotsOf(t, a, b)) /\ Cardinality(SlotsOf(t, a, b)) \in Nat /\ slot \notin SlotsOf(t, a, b)
      <3>1. IsFiniteSet(SlotsOf(t, a, b)) /\ Cardinality(SlotsOf(t, a, b)) \in Nat /\ SlotsOf(t, a, b) \subseteq ValidSlots(t)
        BY SlotsAre
      <3> QED
        BY <1>10, <3>1
    <2>1. CASE a = k /\ b = v
      <3>1. SlotsOf(u, a, b) = SlotsOf(t, a, b) \cup {slot}
        BY <1>1, <1>7, <1>8, <1>10, <2>1 DEF SlotsOf
      <3> QED
        BY <2>0, <2>1, <3>1, OneMore
    <2>2. CASE ~(a = k /\ b = v)
      <3>1. SlotsOf(u, a, b) = SlotsOf(t, a, b)
        BY <1>1, <1>7, <1>8, <1>10, <2>2 DEF SlotsOf
      <3> QED
        BY <2>0, <2>2, <3>1
    <2> QED
      BY <2>1, <2>2
  <1>17. u.slots_filled <= t.slots_filled + 1
    BY <1>1, <1>6
  <1> QED
    BY <1>6, <1>13, <1>15, <1>16, <1>17

(* A table with slots, below its load limit.                                *)
Ready(t, s) ==
    TableOf(t, s) /\ s >= MIN_SIZE /\ t.slots_filled * 100 < s * LOAD_FACTOR_PERCENT

SameEntries(u, t) ==
    \A a \in Keys, b \in Payloads : Cardinality(SlotsOf(u, a, b)) = Cardinality(SlotsOf(t, a, b))

(* The load limit leaves slots that were never used, and is above one entry. *)
LEMMA LimitIs ==
    ASSUME NEW s \in Nat \ {0}
    PROVE  /\ s * LOAD_FACTOR_PERCENT \in Nat /\ s * LOAD_FACTOR_PERCENT <= s * 99
           /\ (2 * s) * LOAD_FACTOR_PERCENT = 2 * (s * LOAD_FACTOR_PERCENT)
           /\ s >= MIN_SIZE => s * LOAD_FACTOR_PERCENT > 100
           /\ \A x \in Nat : x >= s => s * LOAD_FACTOR_PERCENT <= x * LOAD_FACTOR_PERCENT
  <1>1. /\ LOAD_FACTOR_PERCENT \in Nat /\ LOAD_FACTOR_PERCENT <= 99
        /\ MIN_SIZE \in Nat \ {0} /\ MIN_SIZE * LOAD_FACTOR_PERCENT > 100
    BY HashTableAssumption
  <1>2. s * LOAD_FACTOR_PERCENT \in Nat /\ s * LOAD_FACTOR_PERCENT <= s * 99
    BY <1>1
  <1>3. (2 * s) * LOAD_FACTOR_PERCENT = 2 * (s * LOAD_FACTOR_PERCENT)
    BY <1>1
  <1>4. ASSUME s >= MIN_SIZE PROVE s * LOAD_FACTOR_PERCENT > 100
    <2>1. s * LOAD_FACTOR_PERCENT >= MIN_SIZE * LOAD_FACTOR_PERCENT
      BY <1>1, <1>4
    <2>2. MIN_SIZE * LOAD_FACTOR_PERCENT \in Nat
      BY <1>1
    <2> QED
      BY <1>1, <1>2, <2>1, <2>2
  <1>5. ASSUME NEW x \in Nat, x >= s PROVE s * LOAD_FACTOR_PERCENT <= x * LOAD_FACTOR_PERCENT
    BY <1>1, <1>5
  <1> QED
    BY <1>2, <1>3, <1>4, <1>5

(* A table that is all empty.                                               *)
LEMMA BlankTableIs ==
    ASSUME NEW s \in Powers, s >= MIN_SIZE, NEW u,
           u = [count |-> 0, slots_filled |-> 0, entries |-> [i \in 0 .. s - 1 |-> Blank]]
    PROVE  Ready(u, s) /\ \A a, b : SlotsOf(u, a, b) = {}
  <1>1. s \in Nat \ {0}
    BY DEF Powers
  <1>2. ValidSlots(u) = {} /\ FilledSlots(u) = {}
    BY DEF ValidSlots, FilledSlots, Blank, EMPTY_HASH, FIRST_VALID_HASH
  <1>3. u \in [count : Nat, slots_filled : Nat, entries : [0 .. s - 1 -> HashEntries]] /\ u.count = 0 /\ u.slots_filled = 0
    BY DEF HashEntries
  <1>4. Cardinality({}) = 0
    BY FS_EmptySet
  <1>5. TableOf(u, s)
    BY <1>2, <1>3, <1>4 DEF TableOf, OnTheirPaths
  <1>6. \A a, b : SlotsOf(u, a, b) = {}
    BY <1>2 DEF SlotsOf
  <1>7. s * LOAD_FACTOR_PERCENT > 100 /\ s * LOAD_FACTOR_PERCENT \in Nat
    BY <1>1, LimitIs
  <1>8. u.slots_filled * 100 < s * LOAD_FACTOR_PERCENT
    BY <1>3, <1>7
  <1> QED
    BY <1>5, <1>6, <1>8 DEF Ready

(* A new table.                                                             *)
FreshSize(n) == next_power_of_two(IF n < MIN_SIZE THEN MIN_SIZE ELSE n)

(* Its size is a power of two, no smaller than was asked for.               *)
LEMMA FreshTableIs ==
    ASSUME NEW n \in Nat, NEW u, u = _resize_entries(n)
    PROVE  /\ FreshSize(n) \in Powers /\ FreshSize(n) >= MIN_SIZE /\ FreshSize(n) >= n
           /\ n \in Powers /\ n >= MIN_SIZE => FreshSize(n) = n
           /\ TableOf(u, FreshSize(n)) /\ u.count = 0 /\ u.slots_filled = 0
           /\ \A a, b : SlotsOf(u, a, b) = {}
  <1> DEFINE s == FreshSize(n)
             x == IF n < MIN_SIZE THEN MIN_SIZE ELSE n
  <1>1. x \in Nat \ {0} /\ MIN_SIZE \in Nat \ {0}
    BY HashTableAssumption
  <1>2. /\ s \in Powers /\ x <= s /\ (x \in Powers => s = x)
    <2> HIDE DEF x
    <2> QED
      BY <1>1, NextPowerIs DEF FreshSize, x
  <1>3. s \in Nat \ {0} /\ s >= MIN_SIZE /\ s >= n /\ (n \in Powers /\ n >= MIN_SIZE => s = n)
    <2>1. s \in Nat \ {0}
      BY <1>2 DEF Powers
    <2> HIDE DEF s
    <2> QED
      BY <1>1, <1>2, <2>1
  <1>4. u = [count |-> 0, slots_filled |-> 0, entries |-> [i \in 0 .. s - 1 |-> Blank]]
    BY DEF _resize_entries, FreshSize
  <1> HIDE DEF s
  <1>5. Ready(u, s) /\ \A a, b : SlotsOf(u, a, b) = {}
    BY <1>2, <1>3, <1>4, BlankTableIs
  <1>6. u.count = 0 /\ u.slots_filled = 0
    BY <1>4
  <1> QED
    BY <1>2, <1>3, <1>5, <1>6 DEF s, Ready

(* The turns of expand.                                                     *)
CopyTurn(t, before, i) ==
    IF t.entries[i - 1].hash >= FIRST_VALID_HASH
    THEN Insert(before, t.entries[i - 1].key, t.entries[i - 1].value) ELSE before

Copies(f, t, n, z) ==
    /\ f = [i \in 0 .. z |-> f[i]]
    /\ f[0] = _resize_entries(n) /\ \A i \in 1 .. z : f[i] = CopyTurn(t, f[i - 1], i)

(* Any number of turns can be taken.                                        *)
LEMMA CopiesExist ==
    ASSUME NEW t, NEW n, NEW z \in Nat
    PROVE  \E f : Copies(f, t, n, z)
  <1> DEFINE missing == {m \in Nat : ~(\E f : Copies(f, t, n, m))}
  <1>1. SUFFICES ASSUME missing # {} PROVE FALSE
    OBVIOUS
  <1>2. missing \in SUBSET Nat
    OBVIOUS
  <1>3. PICK m \in missing : \A k \in missing : m <= k
    BY <1>1, <1>2, LeastExists
  <1>4. CASE m = 0
    <2> DEFINE f == [i \in 0 .. 0 |-> _resize_entries(n)]
    <2>1. f[0] = _resize_entries(n) /\ f = [i \in 0 .. 0 |-> f[i]]
      OBVIOUS
    <2> HIDE DEF f
    <2>2. Copies(f, t, n, 0)
      BY <2>1 DEF Copies
    <2> QED
      BY <1>3, <1>4, <2>2
  <1>5. CASE m # 0
    <2>1. m - 1 \in Nat /\ m - 1 \notin missing
      BY <1>3, <1>5
    <2>2. PICK g : Copies(g, t, n, m - 1)
      BY <2>1
    <2> DEFINE f == [k \in 0 .. m |-> IF k = m THEN CopyTurn(t, g[m - 1], m) ELSE g[k]]
    <2>3. \A k \in 0 .. m - 1 : f[k] = g[k]
      BY <2>1
    <2>4. f[m] = CopyTurn(t, g[m - 1], m) /\ f = [k \in 0 .. m |-> f[k]]
      BY <1>5, <2>1
    <2> HIDE DEF f
    <2>5. g[0] = _resize_entries(n) /\ \A k \in 1 .. m - 1 : g[k] = CopyTurn(t, g[k - 1], k)
      BY <2>2 DEF Copies
    <2>6. ASSUME NEW k \in 1 .. m PROVE f[k] = CopyTurn(t, f[k - 1], k)
      <3>1. CASE k = m
        <4>1. f[m - 1] = g[m - 1]
          BY <2>1, <2>3
        <4> QED
          BY <2>4, <3>1, <4>1
      <3>2. CASE k # m
        <4>1. k \in 0 .. m - 1 /\ k - 1 \in 0 .. m - 1 /\ k \in 1 .. m - 1
          BY <3>2
        <4>2. f[k] = g[k] /\ f[k - 1] = g[k - 1] /\ g[k] = CopyTurn(t, g[k - 1], k)
          BY <2>3, <2>5, <4>1
        <4> QED
          BY <4>2
      <3> QED
        BY <3>1, <3>2
    <2>7. f[0] = _resize_entries(n)
      BY <2>1, <2>3, <2>5
    <2>8. Copies(f, t, n, m)
      BY <2>4, <2>6, <2>7 DEF Copies
    <2> QED
      BY <1>3, <2>8
  <1> QED
    BY <1>4, <1>5

(* What expand_to is.                                                       *)
LEMMA ExpandToIs ==
    ASSUME NEW t, NEW n, NEW z \in Nat, SizeOf(t) = z
    PROVE  \E f : Copies(f, t, n, z) /\ expand_to(t, n) = f[z]
  <1> DEFINE Body(g) == [i \in 0 .. SizeOf(t) |->
                            IF i = 0 THEN _resize_entries(n)
                            ELSE IF t.entries[i - 1].hash >= FIRST_VALID_HASH
                                 THEN Insert(g[i - 1], t.entries[i - 1].key, t.entries[i - 1].value)
                                 ELSE g[i - 1]]
             all == CHOOSE g : g = Body(g)
  <1>1. expand_to(t, n) = all[SizeOf(t)]
    BY Zenon DEF expand_to
  <1>2. \E g : g = Body(g)
    <2>1. PICK g : Copies(g, t, n, z)
      BY CopiesExist
    <2>2. ASSUME NEW i \in 0 .. SizeOf(t) PROVE g[i] = Body(g)[i]
      <3>1. CASE i = 0
        BY <2>1, <3>1 DEF Copies
      <3>2. CASE i # 0
        <4>1. i \in 1 .. z
          BY <3>2
        <4> QED
          BY <2>1, <3>2, <4>1 DEF Copies, CopyTurn
      <3> QED
        BY <3>1, <3>2
    <2>3. g = [i \in 0 .. SizeOf(t) |-> g[i]]
      BY <2>1 DEF Copies
    <2> QED
      BY <2>2, <2>3
  <1>3. all = Body(all)
    BY <1>2
  <1> HIDE DEF all
  <1>4. Copies(all, t, n, z)
    <2>1. \A i \in 0 .. z : all[i] = IF i = 0 THEN _resize_entries(n) ELSE CopyTurn(t, all[i - 1], i)
      BY <1>3 DEF CopyTurn
    <2>2. all = [i \in 0 .. z |-> all[i]]
      BY <1>3
    <2>3. 0 \in 0 .. z /\ \A i \in 1 .. z : i \in 0 .. z /\ i # 0
      OBVIOUS
    <2> QED
      BY <2>1, <2>2, <2>3 DEF Copies
  <1> QED
    BY <1>1, <1>4

(* The table that is copied; one that was moved from has no slots.          *)
CopiedFrom(t, z) ==
    /\ z \in Nat /\ SizeOf(t) = z /\ t.entries \in [0 .. z - 1 -> HashEntries]
    /\ t.count \in Nat /\ t.count = Cardinality(ValidSlots(t))

Before(S, i) == {j \in S : j < i}

(* What has been copied after i turns.                                      *)
CopiedSoFar(t, g, n, i) ==
    /\ TableOf(g, FreshSize(n))
    /\ g.count = Cardinality(Before(ValidSlots(t), i)) /\ g.slots_filled = g.count
    /\ \A a \in Keys, b \in Payloads : Cardinality(SlotsOf(g, a, b)) = Cardinality(Before(SlotsOf(t, a, b), i))

(* One more turn.                                                           *)
LEMMA BeforeNext ==
    ASSUME NEW z \in Nat, NEW S \in SUBSET (0 .. z - 1), NEW i \in 0 .. z - 1
    PROVE  /\ IsFiniteSet(S) /\ Cardinality(S) \in Nat
           /\ Cardinality(Before(S, i)) \in Nat /\ Cardinality(Before(S, i + 1)) \in Nat
           /\ Cardinality(Before(S, i + 1)) = Cardinality(Before(S, i)) + IF i \in S THEN 1 ELSE 0
           /\ Cardinality(Before(S, i + 1)) <= Cardinality(S)
           /\ Before(S, 0) = {} /\ Before(S, z) = S
  <1>0. i \in Nat /\ \A j \in S : j \in Nat /\ j < z
    OBVIOUS
  <1>1. IsFiniteSet(0 .. z - 1)
    BY FS_Interval
  <1>2. IsFiniteSet(S) /\ Cardinality(S) \in Nat
    BY <1>1, Smaller
  <1>3. Before(S, i) \subseteq S /\ Before(S, i + 1) \subseteq S /\ i \notin Before(S, i)
    BY DEF Before
  <1>4. /\ IsFiniteSet(Before(S, i)) /\ Cardinality(Before(S, i)) \in Nat
        /\ Cardinality(Before(S, i + 1)) \in Nat /\ Cardinality(Before(S, i + 1)) <= Cardinality(S)
    BY <1>2, <1>3, Smaller
  <1>5. Cardinality(Before(S, i + 1)) = Cardinality(Before(S, i)) + IF i \in S THEN 1 ELSE 0
    <2>1. CASE i \in S
      <3>1. Before(S, i + 1) = Before(S, i) \cup {i}
        <4>1. \A j \in S : j < i + 1 <=> j < i \/ j = i
          BY <1>0
        <4> QED
          BY <2>1, <4>1 DEF Before
      <3> QED
        BY <1>3, <1>4, <2>1, <3>1, OneMore
    <2>2. CASE i \notin S
      <3>1. Before(S, i + 1) = Before(S, i)
        <4>1. \A j \in S : j < i + 1 <=> j < i
          BY <1>0, <2>2
        <4> QED
          BY <4>1 DEF Before
      <3> QED
        BY <1>4, <2>2, <3>1
    <2> QED
      BY <2>1, <2>2
  <1>6. Before(S, 0) = {} /\ Before(S, z) = S
    <2>1. \A j \in S : ~(j < 0) /\ j < z
      BY <1>0
    <2> QED
      BY <2>1 DEF Before
  <1> QED
    BY <1>2, <1>4, <1>5, <1>6

(* The slots of the table that is copied.                                   *)
LEMMA CopiedSlots ==
    ASSUME NEW t, NEW z, CopiedFrom(t, z)
    PROVE  /\ ValidSlots(t) \in SUBSET (0 .. z - 1) /\ \A a, b : SlotsOf(t, a, b) \in SUBSET (0 .. z - 1)
           /\ \A i \in ValidSlots(t) : \E a \in Keys, b \in Payloads : t.entries[i] = Pair(a, b)
  <1>1. DOMAIN t.entries = 0 .. z - 1 /\ \A i \in 0 .. z - 1 : t.entries[i] \in HashEntries
    BY DEF CopiedFrom
  <1>2. ValidSlots(t) \in SUBSET (0 .. z - 1) /\ \A a, b : SlotsOf(t, a, b) \in SUBSET (0 .. z - 1)
    BY <1>1 DEF ValidSlots, SlotsOf
  <1>3. ASSUME NEW i \in ValidSlots(t) PROVE \E a \in Keys, b \in Payloads : t.entries[i] = Pair(a, b)
    <2>1. t.entries[i] \in HashEntries /\ t.entries[i].hash >= 2
      BY <1>1, <1>2 DEF ValidSlots, FIRST_VALID_HASH
    <2>2. t.entries[i].hash # 0 /\ t.entries[i].hash # 1
      BY <2>1
    <2> QED
      BY <2>1, <2>2, HashEntryIs
  <1> QED
    BY <1>2, <1>3

(* A turn copies an entry, and the table has room for it: none of the adds   *)
(* expands again.                                                           *)
LEMMA CopyTurnKeeps ==
    ASSUME NEW t, NEW z, CopiedFrom(t, z), NEW n \in Nat, NEW i \in 0 .. z - 1,
           t.count * 100 < FreshSize(n) * LOAD_FACTOR_PERCENT, NEW g, CopiedSoFar(t, g, n, i)
    PROVE  /\ CopiedSoFar(t, CopyTurn(t, g, i + 1), n, i + 1)
           /\ i \in ValidSlots(t) => ~NeedsRoom(g, 1)
  <1> DEFINE s == FreshSize(n)
             u == CopyTurn(t, g, i + 1)
  <1>1. /\ TableOf(g, s) /\ g.count = Cardinality(Before(ValidSlots(t), i)) /\ g.slots_filled = g.count
        /\ \A a \in Keys, b \in Payloads : Cardinality(SlotsOf(g, a, b)) = Cardinality(Before(SlotsOf(t, a, b), i))
    BY DEF CopiedSoFar
  <1>2. s \in Nat \ {0} /\ g.count \in Nat /\ SizeOf(g) = s
    BY <1>1, SlotsAre
  <1> HIDE DEF s
  <1>3. z \in Nat /\ i + 1 - 1 = i /\ i \in DOMAIN t.entries /\ t.count \in Nat /\ t.count = Cardinality(ValidSlots(t))
    BY DEF CopiedFrom
  <1>4. /\ ValidSlots(t) \in SUBSET (0 .. z - 1) /\ \A a, b : SlotsOf(t, a, b) \in SUBSET (0 .. z - 1)
        /\ \A j \in ValidSlots(t) : \E a \in Keys, b \in Payloads : t.entries[j] = Pair(a, b)
    BY CopiedSlots
  <1>5. u = IF i \in ValidSlots(t) THEN Insert(g, t.entries[i].key, t.entries[i].value) ELSE g
    BY <1>3 DEF CopyTurn, ValidSlots
  <1> HIDE DEF u
  <1>6. /\ Cardinality(Before(ValidSlots(t), i + 1)) \in Nat /\ Cardinality(Before(ValidSlots(t), i + 1)) <= t.count
        /\ Cardinality(Before(ValidSlots(t), i + 1)) = g.count + IF i \in ValidSlots(t) THEN 1 ELSE 0
    BY <1>1, <1>3, <1>4, BeforeNext
  <1>7. ASSUME NEW a, NEW b
        PROVE  /\ Cardinality(Before(SlotsOf(t, a, b), i)) \in Nat
               /\ Cardinality(Before(SlotsOf(t, a, b), i + 1)) =
                      Cardinality(Before(SlotsOf(t, a, b), i)) + IF i \in SlotsOf(t, a, b) THEN 1 ELSE 0
    <2>1. PICK S \in SUBSET (0 .. z - 1) : S = SlotsOf(t, a, b)
      BY <1>4
    <2>2. /\ Cardinality(Before(S, i)) \in Nat
          /\ Cardinality(Before(S, i + 1)) = Cardinality(Before(S, i)) + IF i \in S THEN 1 ELSE 0
      <3>1. z \in Nat
        BY <1>3
      <3>2. /\ IsFiniteSet(S) /\ Cardinality(S) \in Nat
            /\ Cardinality(Before(S, i)) \in Nat /\ Cardinality(Before(S, i + 1)) \in Nat
            /\ Cardinality(Before(S, i + 1)) = Cardinality(Before(S, i)) + IF i \in S THEN 1 ELSE 0
            /\ Cardinality(Before(S, i + 1)) <= Cardinality(S)
            /\ Before(S, 0) = {} /\ Before(S, z) = S
        BY <3>1, BeforeNext, Zenon
      <3> QED
        BY <3>2
    <2> QED
      BY <2>1, <2>2
  <1>8. CASE i \in ValidSlots(t)
    <2>1. PICK k \in Keys, v \in Payloads : t.entries[i] = Pair(k, v)
      BY <1>4, <1>8
    <2>2. t.entries[i].key = k /\ t.entries[i].value = v
      BY <2>1 DEF Pair
    <2>3. u = Insert(g, k, v)
      BY <1>5, <1>8, <2>2
    <2>4. g.count + 1 <= t.count
      BY <1>6, <1>8
    <2>5. (g.slots_filled + 1) * 100 < s * LOAD_FACTOR_PERCENT
      <3>1. t.count * 100 < s * LOAD_FACTOR_PERCENT /\ s * LOAD_FACTOR_PERCENT \in Nat
        BY <1>2, HashTableAssumption DEF s
      <3> QED
        BY <1>1, <1>2, <1>3, <2>4, <3>1
    <2>6. g.slots_filled < s
      <3>1. s * LOAD_FACTOR_PERCENT <= s * 99
        BY <1>2, HashTableAssumption
      <3>2. s * LOAD_FACTOR_PERCENT \in Nat
        BY <1>2, HashTableAssumption
      <3> QED
        BY <1>1, <1>2, <2>5, <3>1, <3>2
    <2>7. /\ TableOf(u, s) /\ u.count = g.count + 1
          /\ u.slots_filled \in Nat /\ u.slots_filled <= g.slots_filled + 1
          /\ \A a \in Keys, b \in Payloads :
                 Cardinality(SlotsOf(u, a, b)) = Cardinality(SlotsOf(g, a, b)) + IF a = k /\ b = v THEN 1 ELSE 0
      BY <1>1, <2>3, <2>6, InsertIs
    <2>8. u.slots_filled = u.count
      <3>1. u.count <= u.slots_filled
        BY <2>7, SlotsAre
      <3> QED
        BY <1>1, <1>2, <2>7, <3>1
    <2>9. u.count = Cardinality(Before(ValidSlots(t), i + 1))
      BY <1>6, <1>8, <2>7
    <2>10. ASSUME NEW a \in Keys, NEW b \in Payloads
           PROVE  Cardinality(SlotsOf(u, a, b)) = Cardinality(Before(SlotsOf(t, a, b), i + 1))
      <3>1. i \in SlotsOf(t, a, b) <=> (a = k /\ b = v)
        BY <1>8, <2>2 DEF SlotsOf
      <3>2. Cardinality(SlotsOf(u, a, b)) = Cardinality(Before(SlotsOf(t, a, b), i)) + IF a = k /\ b = v THEN 1 ELSE 0
        BY <1>1, <2>7
      <3> QED
        BY <1>7, <3>1, <3>2
    <2>11. ~NeedsRoom(g, 1)
      <3>1. s * LOAD_FACTOR_PERCENT \in Nat
        BY <1>2, HashTableAssumption
      <3> QED
        BY <1>1, <1>2, <2>5, <3>1 DEF NeedsRoom
    <2> QED
      BY <2>7, <2>8, <2>9, <2>10, <2>11 DEF CopiedSoFar, s, u
  <1>9. CASE i \notin ValidSlots(t)
    <2>1. u = g
      BY <1>5, <1>9
    <2>2. g.count = Cardinality(Before(ValidSlots(t), i + 1))
      BY <1>2, <1>6, <1>9
    <2>3. ASSUME NEW a \in Keys, NEW b \in Payloads
          PROVE  Cardinality(SlotsOf(g, a, b)) = Cardinality(Before(SlotsOf(t, a, b), i + 1))
      <3>1. i \notin SlotsOf(t, a, b)
        BY <1>9 DEF SlotsOf
      <3> QED
        BY <1>1, <1>7, <3>1
    <2> QED
      BY <1>1, <1>9, <2>1, <2>2, <2>3 DEF CopiedSoFar, s, u
  <1> QED
    BY <1>8, <1>9

(* What expand leaves.                                                      *)
LEMMA ExpandToSound ==
    ASSUME NEW t, NEW z, CopiedFrom(t, z), NEW n \in Nat,
           t.count * 100 < FreshSize(n) * LOAD_FACTOR_PERCENT, NEW u, u = expand_to(t, n)
    PROVE  /\ TableOf(u, FreshSize(n)) /\ u.count = t.count /\ u.slots_filled = t.count
           /\ \A a \in Keys, b \in Payloads : Cardinality(SlotsOf(u, a, b)) = Cardinality(SlotsOf(t, a, b))
  <1>1. z \in Nat /\ SizeOf(t) = z /\ t.count = Cardinality(ValidSlots(t))
    BY DEF CopiedFrom
  <1>2. /\ ValidSlots(t) \in SUBSET (0 .. z - 1) /\ \A a, b : SlotsOf(t, a, b) \in SUBSET (0 .. z - 1)
    BY CopiedSlots
  <1>3. PICK f : Copies(f, t, n, z) /\ u = f[z]
    BY <1>1, ExpandToIs
  <1>4. f[0] = _resize_entries(n) /\ \A i \in 1 .. z : f[i] = CopyTurn(t, f[i - 1], i)
    BY <1>3 DEF Copies
  <1> DEFINE wrong == {i \in 0 .. z : ~CopiedSoFar(t, f[i], n, i)}
  <1>5. wrong = {}
    <2> SUFFICES ASSUME wrong # {} PROVE FALSE
      OBVIOUS
    <2>1. PICK m \in wrong : \A k \in wrong : m <= k
      <3>1. wrong \in SUBSET Nat
        BY <1>1
      <3> HIDE DEF wrong
      <3> QED
        BY <3>1, LeastExists
    <2>2. CASE m = 0
      <3>1. TableOf(f[0], FreshSize(n)) /\ f[0].count = 0 /\ f[0].slots_filled = 0 /\ \A a, b : SlotsOf(f[0], a, b) = {}
        BY <1>4, FreshTableIs
      <3>2. Before(ValidSlots(t), 0) = {} /\ \A a, b : Before(SlotsOf(t, a, b), 0) = {}
        BY <1>2 DEF Before
      <3>3. Cardinality({}) = 0
        BY FS_EmptySet
      <3>4. CopiedSoFar(t, f[0], n, 0)
        BY <3>1, <3>2, <3>3 DEF CopiedSoFar
      <3> QED
        BY <2>2, <3>4
    <2>3. CASE m # 0
      <3>1. m - 1 \in 0 .. z - 1 /\ m - 1 \in 0 .. z /\ m \in 1 .. z /\ m - 1 + 1 = m
        BY <1>1, <2>3
      <3>2. CopiedSoFar(t, f[m - 1], n, m - 1)
        <4>1. m - 1 \notin wrong
          <5>1. m - 1 \in wrong => m <= m - 1
            BY <2>1
          <5> HIDE DEF wrong
          <5> QED
            BY <3>1, <5>1
        <4> QED
          BY <3>1, <4>1
      <3>3. CopiedSoFar(t, CopyTurn(t, f[m - 1], m), n, m)
        BY <3>1, <3>2, CopyTurnKeeps
      <3> QED
        BY <1>4, <3>1, <3>3
    <2> QED
      BY <2>2, <2>3
  <1>6. CopiedSoFar(t, u, n, z)
    BY <1>1, <1>3, <1>5
  <1>7. Before(ValidSlots(t), z) = ValidSlots(t) /\ \A a, b : Before(SlotsOf(t, a, b), z) = SlotsOf(t, a, b)
    BY <1>1, <1>2 DEF Before
  <1> QED
    BY <1>1, <1>6, <1>7 DEF CopiedSoFar

(* What find finds: a slot with an entry of the key, if there is one.       *)
LEMMA FindIs ==
    ASSUME NEW t, NEW s, TableOf(t, s), NEW k \in Keys, NEW slot, slot = _find_entry(t, k)
    PROVE  \/ slot = NoSlot /\ \A i \in ValidSlots(t) : t.entries[i].key # k
           \/ slot # NoSlot /\ slot \in ValidSlots(t) /\ t.entries[slot].key = k
  <1> DEFINE h == compute(k)
             own == {i \in WithHash(t, {h}) : t.entries[i].key = k}
             stops == WithHash(t, {EMPTY_HASH}) \cup own
             probed == FirstProbe(t, h, stops)
  <1>1. /\ s \in Nat \ {0} /\ s \in Powers /\ DOMAIN t.entries = 0 .. s - 1 /\ SizeOf(t) = s
        /\ \A i \in 0 .. s - 1 : t.entries[i] \in HashEntries
    BY SlotsAre DEF TableOf
  <1>2. h \in Nat /\ h >= 2
    BY ComputeIs
  <1>3. stops \in SUBSET (0 .. s - 1)
    BY <1>1 DEF WithHash
  <1>4. slot = IF probed # NoSlot /\ t.entries[probed].hash # EMPTY_HASH THEN probed ELSE NoSlot
    BY DEF _find_entry
  <1>5. \A i \in stops : t.entries[i].hash # EMPTY_HASH => i \in ValidSlots(t) /\ t.entries[i].key = k
    BY <1>2 DEF WithHash, ValidSlots, FIRST_VALID_HASH
  <1>6. ASSUME NEW i \in ValidSlots(t), t.entries[i].key = k
        PROVE  i \in 0 .. s - 1 /\ i \in stops /\ t.entries[i].hash = h /\ t.entries[i].hash # EMPTY_HASH
    <2>1. i \in 0 .. s - 1 /\ t.entries[i].hash >= 2
      BY <1>1 DEF ValidSlots, FIRST_VALID_HASH
    <2>2. PICK a \in Keys, v \in Payloads : t.entries[i] = Pair(a, v)
      BY <1>1, <2>1, HashEntryIs
    <2>3. t.entries[i].hash = h
      BY <1>6, <2>2 DEF Pair
    <2> QED
      BY <1>1, <1>2, <1>6, <2>1, <2>3 DEF WithHash, EMPTY_HASH
  <1>7. CASE stops = {}
    <2> HIDE DEF stops
    <2>1. probed = NoSlot
      BY <1>1, <1>2, <1>3, <1>7, FirstProbeIs
    <2>2. \A i \in ValidSlots(t) : t.entries[i].key # k
      BY <1>6, <1>7
    <2> HIDE DEF probed
    <2> QED
      BY <1>4, <2>1, <2>2
  <1>8. CASE stops # {}
    <2> HIDE DEF stops
    <2>1. PICK n \in Nat : /\ probed = ProbeSlot(h, n, s) /\ ProbeSlot(h, n, s) \in stops
                           /\ \A m \in 0 .. n - 1 : ProbeSlot(h, m, s) \notin stops
      BY <1>1, <1>2, <1>3, <1>8, FirstProbeIs
    <2> HIDE DEF probed
    <2>2. probed \in stops /\ probed \in 0 .. s - 1 /\ probed # NoSlot
      <3>1. probed \in 0 .. s - 1
        BY <1>3, <2>1
      <3> QED
        BY <1>1, <2>1, <3>1 DEF NoSlot
    <2>3. CASE t.entries[probed].hash # EMPTY_HASH
      BY <1>4, <1>5, <2>2, <2>3
    <2>4. CASE t.entries[probed].hash = EMPTY_HASH
      <3>1. slot = NoSlot
        BY <1>4, <2>4
      <3>2. ASSUME NEW i \in ValidSlots(t), t.entries[i].key = k PROVE FALSE
        <4>1. i \in stops /\ t.entries[i].hash = h /\ t.entries[i].hash # EMPTY_HASH
          BY <1>6, <3>2
        <4>2. PICK j \in Nat : /\ ProbeSlot(h, j, s) = i
                               /\ \A m \in 0 .. j - 1 : t.entries[ProbeSlot(h, m, s)].hash # EMPTY_HASH
          BY <4>1 DEF TableOf, OnTheirPaths
        <4>3. ~(j < n)
          BY <2>1, <4>1, <4>2
        <4>4. n # j
          BY <2>1, <2>4, <4>1, <4>2
        <4>5. n \in 0 .. j - 1
          BY <4>3, <4>4
        <4> QED
          BY <2>1, <2>4, <4>2, <4>5
      <3> QED
        BY <3>1, <3>2
    <2> QED
      BY <2>3, <2>4
  <1> QED
    BY <1>7, <1>8

(* An entry gives its slot to a tombstone or to another of the same hash.   *)
HoldsPair(e, a, b) == e.hash >= FIRST_VALID_HASH /\ e.key = a /\ e.value = b

(* Only the pair that left the slot and the one that came change in number. *)
LEMMA EntryReplaced ==
    ASSUME NEW t, NEW s, TableOf(t, s), NEW i \in ValidSlots(t), NEW e \in HashEntries,
           e = Tombstone \/ e.hash = t.entries[i].hash,
           NEW u, u.entries = [t.entries EXCEPT ![i] = e], u.slots_filled = t.slots_filled,
           u.count = IF e = Tombstone THEN t.count - 1 ELSE t.count,
           u = [count |-> u.count, slots_filled |-> u.slots_filled, entries |-> u.entries]
    PROVE  /\ TableOf(u, s) /\ u.slots_filled = t.slots_filled
           /\ \A a, b : Cardinality(SlotsOf(u, a, b)) =
                            Cardinality(SlotsOf(t, a, b)) + (IF HoldsPair(e, a, b) THEN 1 ELSE 0)
                                                          - (IF HoldsPair(t.entries[i], a, b) THEN 1 ELSE 0)
           /\ \A a, b : HoldsPair(t.entries[i], a, b) => Cardinality(SlotsOf(t, a, b)) \in Nat \ {0}
  <1>1. /\ s \in Nat \ {0} /\ s \in Powers /\ DOMAIN t.entries = 0 .. s - 1
        /\ \A j \in 0 .. s - 1 : t.entries[j] \in HashEntries
        /\ IsFiniteSet(ValidSlots(t)) /\ t.count \in Nat /\ t.slots_filled \in Nat
        /\ t.entries \in [0 .. s - 1 -> HashEntries]
    BY SlotsAre DEF TableOf
  <1>2. i \in 0 .. s - 1 /\ t.entries[i].hash \in Nat /\ t.entries[i].hash >= 2
    BY <1>1, HashEntryIs DEF ValidSlots, FIRST_VALID_HASH
  <1>3. e.hash \in Nat /\ e.hash # EMPTY_HASH /\ (e.hash < 2 <=> e = Tombstone)
    <2>1. Tombstone.hash = 1
      BY DEF Tombstone, TOMBSTONE_HASH, Blank
    <2> QED
      BY <1>2, <2>1, HashEntryIs DEF EMPTY_HASH
  <1>4. /\ DOMAIN u.entries = 0 .. s - 1 /\ u.entries \in [0 .. s - 1 -> HashEntries] /\ u.entries[i] = e
        /\ \A j \in 0 .. s - 1 : j # i => u.entries[j] = t.entries[j]
    BY <1>1, <1>2
  <1>5. FilledSlots(u) = FilledSlots(t)
    BY <1>1, <1>2, <1>3, <1>4 DEF FilledSlots, EMPTY_HASH
  <1>6. ValidSlots(u) = IF e = Tombstone THEN ValidSlots(t) \ {i} ELSE ValidSlots(t)
    <2>1. CASE e = Tombstone
      <3>1. ~(e.hash >= 2)
        BY <1>3, <2>1
      <3> QED
        BY <1>1, <1>2, <1>4, <2>1, <3>1 DEF ValidSlots, FIRST_VALID_HASH
    <2>2. CASE e # Tombstone
      <3>1. e.hash >= 2
        BY <1>3, <2>2
      <3> QED
        BY <1>1, <1>2, <1>4, <2>2, <3>1 DEF ValidSlots, FIRST_VALID_HASH
    <2> QED
      BY <2>1, <2>2
  <1>7. u.count = Cardinality(ValidSlots(u)) /\ u.count \in Nat
    <2>0. t.count = Cardinality(ValidSlots(t))
      BY DEF TableOf
    <2>1. CASE e = Tombstone
      <3>1. Cardinality(ValidSlots(t) \ {i}) = Cardinality(ValidSlots(t)) - 1 /\ IsFiniteSet(ValidSlots(t) \ {i})
        BY <1>1, FS_RemoveElement
      <3>2. Cardinality(ValidSlots(t) \ {i}) \in Nat
        BY <3>1, FS_CardinalityType
      <3> QED
        BY <1>6, <2>0, <2>1, <3>1, <3>2
    <2>2. CASE e # Tombstone
      BY <1>1, <1>6, <2>0, <2>2
    <2> QED
      BY <2>1, <2>2
  <1>8. OnTheirPaths(u, s)
    <2> SUFFICES ASSUME NEW j \in ValidSlots(u)
                 PROVE  \E n \in Nat :
                            /\ ProbeSlot(u.entries[j].hash, n, s) = j
                            /\ \A m \in 0 .. n - 1 : u.entries[ProbeSlot(u.entries[j].hash, m, s)].hash # EMPTY_HASH
      BY DEF OnTheirPaths
    <2>1. j \in ValidSlots(t) /\ j \in 0 .. s - 1 /\ u.entries[j].hash = t.entries[j].hash
      <3>1. j \in ValidSlots(t)
        BY <1>6
      <3>2. j \in 0 .. s - 1
        BY <1>1, <3>1 DEF ValidSlots
      <3>3. e = Tombstone => j # i
        BY <1>6
      <3> QED
        BY <1>4, <3>1, <3>2, <3>3
    <2>2. PICK x \in Nat : x = t.entries[j].hash
      BY <1>1, <2>1, HashEntryIs
    <2>3. PICK n \in Nat : ProbeSlot(x, n, s) = j /\ \A m \in 0 .. n - 1 : t.entries[ProbeSlot(x, m, s)].hash # EMPTY_HASH
      BY <2>1, <2>2 DEF TableOf, OnTheirPaths
    <2>4. ASSUME NEW m \in 0 .. n - 1 PROVE u.entries[ProbeSlot(x, m, s)].hash # EMPTY_HASH
      <3>1. PICK p \in 0 .. s - 1 : p = ProbeSlot(x, m, s)
        <4>1. m \in Nat
          OBVIOUS
        <4> QED
          BY <1>1, <4>1, ProbeIs
      <3>2. t.entries[p].hash # EMPTY_HASH
        BY <2>3, <3>1
      <3>3. u.entries[p].hash # EMPTY_HASH
        BY <1>3, <1>4, <3>2
      <3> QED
        BY <3>1, <3>3
    <2> QED
      BY <2>1, <2>2, <2>3, <2>4
  <1>9. TableOf(u, s)
    <2>1. u \in [count : Nat, slots_filled : Nat, entries : [0 .. s - 1 -> HashEntries]]
      BY <1>1, <1>4, <1>7
    <2>2. u.slots_filled = Cardinality(FilledSlots(u))
      BY <1>5 DEF TableOf
    <2> QED
      BY <1>1, <1>7, <1>8, <2>1, <2>2 DEF TableOf
  <1>10. ASSUME NEW a, NEW b
         PROVE  /\ Cardinality(SlotsOf(u, a, b)) =
                       Cardinality(SlotsOf(t, a, b)) + (IF HoldsPair(e, a, b) THEN 1 ELSE 0)
                                                     - (IF HoldsPair(t.entries[i], a, b) THEN 1 ELSE 0)
                /\ HoldsPair(t.entries[i], a, b) => Cardinality(SlotsOf(t, a, b)) \in Nat \ {0}
    <2> DEFINE S == SlotsOf(t, a, b)
               T == SlotsOf(u, a, b)
    <2>1. /\ S \subseteq 0 .. s - 1 /\ T \subseteq 0 .. s - 1
          /\ IsFiniteSet(S) /\ Cardinality(S) \in Nat /\ IsFiniteSet(T) /\ Cardinality(T) \in Nat
      <3>1. S \subseteq 0 .. s - 1 /\ T \subseteq 0 .. s - 1
        BY <1>1, <1>4 DEF SlotsOf, ValidSlots
      <3>2. IsFiniteSet(0 .. s - 1)
        BY SlotsAre
      <3> HIDE DEF S, T
      <3> QED
        BY <3>1, <3>2, Smaller
    <2>2. \A j \in 0 .. s - 1 : j # i => (j \in S <=> j \in T)
      BY <1>1, <1>4 DEF SlotsOf, ValidSlots
    <2>3. (i \in S <=> HoldsPair(t.entries[i], a, b)) /\ (i \in T <=> HoldsPair(e, a, b))
      BY <1>1, <1>2, <1>4 DEF SlotsOf, ValidSlots, HoldsPair
    <2> HIDE DEF S, T
    <2>4. IsFiniteSet(S \ {i}) /\ S \ {i} = T \ {i}
      <3>1. IsFiniteSet(S \ {i})
        BY <2>1, Smaller
      <3> QED
        BY <2>1, <2>2, <3>1
    <2>5. Cardinality(S \ {i}) \in Nat /\ Cardinality(S) = Cardinality(S \ {i}) + IF i \in S THEN 1 ELSE 0
      <3>1. CASE i \in S
        <4>1. S = (S \ {i}) \cup {i} /\ i \notin S \ {i}
          BY <3>1
        <4> QED
          BY <2>4, <3>1, <4>1, OneMore, FS_CardinalityType
      <3>2. CASE i \notin S
        <4>1. S \ {i} = S
          BY <3>2
        <4>2. Cardinality(S \ {i}) = Cardinality(S)
          BY <4>1
        <4> QED
          BY <2>1, <3>2, <4>2
      <3> QED
        BY <3>1, <3>2
    <2>6. Cardinality(T) = Cardinality(T \ {i}) + IF i \in T THEN 1 ELSE 0
      <3>1. CASE i \in T
        <4>1. T = (T \ {i}) \cup {i} /\ i \notin T \ {i}
          BY <3>1
        <4> QED
          BY <2>4, <3>1, <4>1, OneMore, FS_CardinalityType
      <3>2. CASE i \notin T
        <4>1. T \ {i} = T
          BY <3>2
        <4> QED
          BY <2>1, <2>4, <2>5, <3>2, <4>1
      <3> QED
        BY <3>1, <3>2
    <2>7. PICK c \in Nat : c = Cardinality(S \ {i}) /\ c = Cardinality(T \ {i})
      BY <2>4, <2>5
    <2>8. Cardinality(S) = c + (IF i \in S THEN 1 ELSE 0) /\ Cardinality(T) = c + IF i \in T THEN 1 ELSE 0
      BY <2>5, <2>6, <2>7
    <2> QED
      BY <2>3, <2>8 DEF S, T
  <1> QED
    BY <1>9, <1>10

(* A table that was moved from.                                             *)
LEMMA MovedFromIs ==
    /\ CopiedFrom(MovedFrom, 0) /\ SizeOf(MovedFrom) = 0 /\ MovedFrom.count = 0 /\ MovedFrom.slots_filled = 0
    /\ ValidSlots(MovedFrom) = {} /\ FilledSlots(MovedFrom) = {} /\ \A a, b : SlotsOf(MovedFrom, a, b) = {}
    /\ Cardinality({}) = 0
  <1>1. Cardinality({}) = 0
    BY FS_EmptySet
  <1>2. MovedFrom.entries = [i \in {} |-> Blank] /\ MovedFrom.count = 0 /\ MovedFrom.slots_filled = 0
    BY DEF MovedFrom
  <1>3. DOMAIN MovedFrom.entries = {} /\ 0 .. 0 - 1 = {}
    BY <1>2
  <1>4. MovedFrom.entries \in [0 .. 0 - 1 -> HashEntries]
    BY <1>2, <1>3
  <1>5. SizeOf(MovedFrom) = 0
    BY <1>1, <1>3 DEF SizeOf
  <1>6. ValidSlots(MovedFrom) = {} /\ FilledSlots(MovedFrom) = {} /\ \A a, b : SlotsOf(MovedFrom, a, b) = {}
    BY <1>3 DEF ValidSlots, FilledSlots, SlotsOf
  <1> QED
    BY <1>1, <1>2, <1>4, <1>5, <1>6 DEF CopiedFrom

(* A table grows or is cleaned up without losing an entry.                  *)
LEMMA ExpandReady ==
    ASSUME NEW t, NEW z, Ready(t, z) \/ (t = MovedFrom /\ z = 0), NEW n \in Nat,
           t.count * 100 < FreshSize(n) * LOAD_FACTOR_PERCENT, NEW u, u = expand_to(t, n)
    PROVE  Ready(u, FreshSize(n)) /\ u.count = t.count /\ u.slots_filled = t.count /\ SameEntries(u, t)
  <1>1. CopiedFrom(t, z)
    <2>1. CASE Ready(t, z)
      <3>1. z \in Nat /\ SizeOf(t) = z /\ TableOf(t, z)
        BY <2>1, SlotsAre DEF Ready
      <3> QED
        BY <3>1 DEF CopiedFrom, TableOf
    <2>2. CASE t = MovedFrom /\ z = 0
      BY <2>2, MovedFromIs
    <2> QED
      BY <2>1, <2>2
  <1>2. /\ TableOf(u, FreshSize(n)) /\ u.count = t.count /\ u.slots_filled = t.count
        /\ SameEntries(u, t)
    BY <1>1, ExpandToSound DEF SameEntries
  <1>3. FreshSize(n) >= MIN_SIZE
    BY FreshTableIs
  <1> QED
    BY <1>2, <1>3 DEF Ready

(* What add leaves: one entry more, in a table that is still below its limit. *)
LEMMA AddedIs ==
    ASSUME NEW t, NEW z, Ready(t, z), NEW k \in Keys, NEW v \in Payloads, NEW u, u = Added(t, k, v)
    PROVE  /\ \E s : Ready(u, s)
           /\ \A a \in Keys, b \in Payloads :
                  Cardinality(SlotsOf(u, a, b)) = Cardinality(SlotsOf(t, a, b)) + IF a = k /\ b = v THEN 1 ELSE 0
  <1> DEFINE e == IF NeedsRoom(t, 1) THEN expand(t) ELSE t
  <1>1. /\ z \in Nat \ {0} /\ z \in Powers /\ z >= MIN_SIZE /\ SizeOf(t) = z
        /\ t.count \in Nat /\ t.slots_filled \in Nat /\ t.count <= t.slots_filled
        /\ t.slots_filled * 100 < z * LOAD_FACTOR_PERCENT
    BY SlotsAre DEF Ready, TableOf
  <1>2. z * LOAD_FACTOR_PERCENT \in Nat /\ z * LOAD_FACTOR_PERCENT > 100
    BY <1>1, LimitIs
  <1>3. \E s : Ready(e, s) /\ (e.slots_filled + 1) * 100 < s * LOAD_FACTOR_PERCENT /\ SameEntries(e, t)
    <2>1. CASE ~NeedsRoom(t, 1)
      <3>1. (t.slots_filled + 1) * 100 < z * LOAD_FACTOR_PERCENT
        BY <1>1, <1>2, <2>1 DEF NeedsRoom
      <3> QED
        BY <2>1, <3>1 DEF SameEntries
    <2>2. CASE NeedsRoom(t, 1)
      <3> DEFINE n == IF (t.count * 2 + 1) * 100 < z * LOAD_FACTOR_PERCENT THEN z ELSE 2 * z
      <3>1. n \in Powers /\ n \in Nat \ {0} /\ n >= MIN_SIZE
        <4>1. 2 * z \in Powers /\ MIN_SIZE \in Nat
          BY <1>1, PowersAre, HashTableAssumption
        <4> QED
          BY <1>1, <4>1
      <3>2. (t.count + 1) * 100 < n * LOAD_FACTOR_PERCENT
        <4>1. CASE (t.count * 2 + 1) * 100 < z * LOAD_FACTOR_PERCENT
          BY <1>1, <1>2, <4>1
        <4>2. CASE ~((t.count * 2 + 1) * 100 < z * LOAD_FACTOR_PERCENT)
          <5>1. n * LOAD_FACTOR_PERCENT = 2 * (z * LOAD_FACTOR_PERCENT)
            BY <1>1, <4>2, LimitIs
          <5>2. t.count * 100 < z * LOAD_FACTOR_PERCENT
            BY <1>1, <1>2
          <5> HIDE DEF n
          <5> QED
            BY <1>1, <1>2, <5>1, <5>2
        <4> QED
          BY <4>1, <4>2
      <3>3. e = expand_to(t, n)
        BY <1>1, <2>2 DEF expand
      <3> HIDE DEF e, n
      <3>4. FreshSize(n) = n
        BY <3>1, FreshTableIs
      <3>5. n * LOAD_FACTOR_PERCENT \in Nat
        BY <3>1, LimitIs
      <3>6. t.count * 100 < FreshSize(n) * LOAD_FACTOR_PERCENT
        BY <1>1, <3>2, <3>4, <3>5
      <3>7. Ready(e, n) /\ e.slots_filled = t.count /\ SameEntries(e, t)
        BY <3>1, <3>3, <3>4, <3>6, ExpandReady
      <3> QED
        BY <3>2, <3>7
    <2> QED
      BY <2>1, <2>2
  <1>4. u = Insert(e, k, v)
    BY DEF Added
  <1> HIDE DEF e
  <1>5. PICK s : Ready(e, s) /\ (e.slots_filled + 1) * 100 < s * LOAD_FACTOR_PERCENT /\ SameEntries(e, t)
    BY <1>3
  <1>6. s \in Nat \ {0} /\ e.slots_filled \in Nat /\ TableOf(e, s) /\ s >= MIN_SIZE
    BY <1>5, SlotsAre DEF Ready
  <1>7. s * LOAD_FACTOR_PERCENT \in Nat /\ s * LOAD_FACTOR_PERCENT <= s * 99
    BY <1>6, LimitIs
  <1>8. e.slots_filled < s
    BY <1>5, <1>6, <1>7
  <1>9. /\ TableOf(u, s) /\ u.slots_filled \in Nat /\ u.slots_filled <= e.slots_filled + 1
        /\ \A a \in Keys, b \in Payloads :
               Cardinality(SlotsOf(u, a, b)) = Cardinality(SlotsOf(e, a, b)) + IF a = k /\ b = v THEN 1 ELSE 0
    BY <1>4, <1>6, <1>8, InsertIs
  <1>10. u.slots_filled * 100 < s * LOAD_FACTOR_PERCENT
    BY <1>5, <1>6, <1>7, <1>9
  <1>11. Ready(u, s)
    BY <1>6, <1>9, <1>10 DEF Ready
  <1> QED
    BY <1>5, <1>9, <1>11 DEF SameEntries

(* A reservation is met by a table that has room for what is in it.         *)
LEMMA ReservedIs ==
    ASSUME NEW t, NEW z, Ready(t, z) \/ (t = MovedFrom /\ z = 0), NEW n \in Nat \ {0}, NEW u,
           u = expand_to(t, next_power_of_two(((t.count + n) * 100) \div LOAD_FACTOR_PERCENT))
    PROVE  (\E s : Ready(u, s)) /\ SameEntries(u, t)
  <1> DEFINE x == ((t.count + n) * 100) \div LOAD_FACTOR_PERCENT
             m == next_power_of_two(x)
  <1>1. t.count \in Nat
    <2>1. CASE Ready(t, z)
      BY <2>1, SlotsAre DEF Ready
    <2>2. CASE t = MovedFrom
      BY <2>2, MovedFromIs
    <2> QED
      BY <2>1, <2>2
  <1>2. LOAD_FACTOR_PERCENT \in Nat \ {0} /\ LOAD_FACTOR_PERCENT <= 99
    BY HashTableAssumption
  <1>3. PICK y \in Nat : y = (t.count + n) * 100 /\ y >= t.count * 100 + 100
    BY <1>1
  <1>4. PICK q \in Nat, r \in 0 .. LOAD_FACTOR_PERCENT - 1 :
            y \div LOAD_FACTOR_PERCENT = q /\ y = LOAD_FACTOR_PERCENT * q + r
    BY <1>2, <1>3, DivMod
  <1>5. x = q
    BY <1>3, <1>4
  <1> HIDE DEF x
  <1>6. q * LOAD_FACTOR_PERCENT \in Nat /\ q * LOAD_FACTOR_PERCENT > t.count * 100
    <2>1. PICK w \in Nat : w = LOAD_FACTOR_PERCENT * q /\ w = q * LOAD_FACTOR_PERCENT
      BY <1>2
    <2> QED
      BY <1>1, <1>2, <1>3, <1>4, <2>1
  <1>7. q # 0
    BY <1>1, <1>2, <1>6
  <1>8. m \in Powers /\ m >= q
    BY <1>5, <1>7, NextPowerIs
  <1> HIDE DEF m
  <1>9. m \in Nat /\ FreshSize(m) >= m /\ FreshSize(m) \in Nat
    <2>1. m \in Nat
      BY <1>8 DEF Powers
    <2>2. FreshSize(m) \in Powers /\ FreshSize(m) >= m
      BY <2>1, FreshTableIs
    <2> QED
      BY <2>1, <2>2 DEF Powers
  <1>10. q * LOAD_FACTOR_PERCENT <= FreshSize(m) * LOAD_FACTOR_PERCENT
    <2>1. FreshSize(m) >= q
      BY <1>8, <1>9
    <2> QED
      BY <1>7, <1>9, <2>1, LimitIs
  <1>11. t.count * 100 < FreshSize(m) * LOAD_FACTOR_PERCENT
    <2>1. FreshSize(m) * LOAD_FACTOR_PERCENT \in Nat
      BY <1>2, <1>9
    <2> QED
      BY <1>1, <1>6, <1>10, <2>1
  <1>12. u = expand_to(t, m)
    BY DEF m, x
  <1> QED
    BY <1>9, <1>11, <1>12, ExpandReady

(* The table and what the caller keeps in it.                               *)
HashState(t, b) ==
    /\ b \in [Keys \X Payloads -> Nat]
    /\ \A k \in Keys, v \in Payloads : b[<<k, v>>] = Cardinality(SlotsOf(t, k, v))
    /\ t = MovedFrom \/ \E s : Ready(t, s)

(* A table with slots is one that is ready.                                 *)
LEMMA ReadyIs ==
    ASSUME NEW t, NEW b, HashState(t, b), SizeOf(t) # 0
    PROVE  \E s : Ready(t, s) /\ TableOf(t, s)
  BY MovedFromIs DEF HashState, Ready

(* A table with no entries, for a caller that keeps none.                   *)
LEMMA EmptyState ==
    ASSUME NEW t, t = MovedFrom \/ \E s : Ready(t, s), \A a, b : SlotsOf(t, a, b) = {}
    PROVE  HashState(t, NothingKept)
  <1>1. NothingKept \in [Keys \X Payloads -> Nat] /\ \A k \in Keys, v \in Payloads : NothingKept[<<k, v>>] = 0
    BY DEF NothingKept
  <1>2. \A k \in Keys, v \in Payloads : Cardinality(SlotsOf(t, k, v)) = 0
    BY MovedFromIs
  <1> QED
    BY <1>1, <1>2 DEF HashState

(* A new table, and one that was moved from.                               *)
LEMMA FreshState == HashState(_resize_entries(MIN_SIZE), NothingKept) /\ HashState(MovedFrom, NothingKept)
  <1> DEFINE s == FreshSize(MIN_SIZE)
  <1>1. s \in Powers /\ s >= MIN_SIZE
    BY FreshTableIs, HashTableAssumption
  <1>2. _resize_entries(MIN_SIZE) = [count |-> 0, slots_filled |-> 0, entries |-> [i \in 0 .. s - 1 |-> Blank]]
    BY DEF _resize_entries, FreshSize
  <1> HIDE DEF s
  <1>3. Ready(_resize_entries(MIN_SIZE), s) /\ \A a, b : SlotsOf(_resize_entries(MIN_SIZE), a, b) = {}
    BY <1>1, <1>2, BlankTableIs
  <1> QED
    BY <1>3, EmptyState, MovedFromIs

(* reset_table leaves the slots and nothing in them.                        *)
LEMMA ResetState ==
    ASSUME NEW t, NEW b, HashState(t, b), NEW u,
           u = [t EXCEPT !.count = 0, !.slots_filled = 0, !.entries = [i \in DOMAIN @ |-> Blank]]
    PROVE  HashState(u, NothingKept)
  <1>1. CASE t = MovedFrom
    <2>1. u = MovedFrom
      BY <1>1 DEF MovedFrom
    <2> QED
      BY <2>1, FreshState
  <1>2. ASSUME NEW s, Ready(t, s) PROVE HashState(u, NothingKept)
    <2>1. /\ s \in Powers /\ s >= MIN_SIZE
          /\ t \in [count : Nat, slots_filled : Nat, entries : [0 .. s - 1 -> HashEntries]]
      BY <1>2 DEF Ready, TableOf
    <2>2. u = [count |-> 0, slots_filled |-> 0, entries |-> [i \in 0 .. s - 1 |-> Blank]]
      BY <2>1
    <2>3. Ready(u, s) /\ \A x, y : SlotsOf(u, x, y) = {}
      BY <2>1, <2>2, BlankTableIs
    <2> QED
      BY <2>3, EmptyState
  <1> QED
    BY <1>1, <1>2 DEF HashState

(* add keeps the books.                                                     *)
LEMMA AddState ==
    ASSUME NEW t, NEW b, HashState(t, b), SizeOf(t) # 0, NEW k \in Keys, NEW v \in Payloads,
           NEW u, u = Added(t, k, v), NEW c, c = [b EXCEPT ![<<k, v>>] = @ + 1]
    PROVE  HashState(u, c)
  <1>1. PICK s : Ready(t, s)
    BY ReadyIs
  <1>2. /\ \E z : Ready(u, z)
        /\ \A x \in Keys, y \in Payloads :
               Cardinality(SlotsOf(u, x, y)) = Cardinality(SlotsOf(t, x, y)) + IF x = k /\ y = v THEN 1 ELSE 0
    BY <1>1, AddedIs
  <1>3. b \in [Keys \X Payloads -> Nat] /\ \A x \in Keys, y \in Payloads : b[<<x, y>>] = Cardinality(SlotsOf(t, x, y))
    BY DEF HashState
  <1>4. c \in [Keys \X Payloads -> Nat] /\ \A x \in Keys, y \in Payloads : c[<<x, y>>] = b[<<x, y>>] + IF x = k /\ y = v THEN 1 ELSE 0
    BY <1>3
  <1>5. ASSUME NEW x \in Keys, NEW y \in Payloads PROVE c[<<x, y>>] = Cardinality(SlotsOf(u, x, y))
    <2>1. c[<<x, y>>] = b[<<x, y>>] + IF x = k /\ y = v THEN 1 ELSE 0
      BY <1>4
    <2>2. b[<<x, y>>] = Cardinality(SlotsOf(t, x, y))
      BY <1>3
    <2>3. Cardinality(SlotsOf(u, x, y)) = Cardinality(SlotsOf(t, x, y)) + IF x = k /\ y = v THEN 1 ELSE 0
      BY <1>2
    <2> QED
      BY <2>1, <2>2, <2>3
  <1> QED
    BY <1>2, <1>4, <1>5 DEF HashState

(* What a found slot holds, and what it becomes.                            *)
LEMMA SlotChanged ==
    ASSUME NEW t, NEW b, HashState(t, b), SizeOf(t) # 0, NEW k \in Keys,
           NEW slot, slot = _find_entry(t, k), slot # NoSlot
    PROVE  /\ slot \in ValidSlots(t) /\ t.entries[slot].value \in Payloads
           /\ t.entries[slot] = Pair(k, t.entries[slot].value)
           /\ b[<<k, t.entries[slot].value>>] \in Nat \ {0}
           /\ \E s : Ready(t, s) /\ TableOf(t, s) /\ slot \in 0 .. s - 1
  <1>1. PICK s : Ready(t, s) /\ TableOf(t, s)
    BY ReadyIs
  <1>2. slot \in ValidSlots(t) /\ t.entries[slot].key = k
    BY <1>1, FindIs
  <1>3. slot \in 0 .. s - 1 /\ t.entries[slot] \in HashEntries /\ t.entries[slot].hash >= 2
    BY <1>1, <1>2, SlotsAre DEF ValidSlots, FIRST_VALID_HASH
  <1>4. PICK x \in Keys, y \in Payloads : t.entries[slot] = Pair(x, y)
    BY <1>3, HashEntryIs
  <1>5. x = k /\ t.entries[slot].value = y
    BY <1>2, <1>4 DEF Pair
  <1>6. slot \in SlotsOf(t, k, y)
    BY <1>2, <1>5 DEF SlotsOf
  <1>7. Cardinality(SlotsOf(t, k, y)) \in Nat \ {0}
    <2>1. IsFiniteSet(SlotsOf(t, k, y)) /\ Cardinality(SlotsOf(t, k, y)) \in Nat
      BY <1>1, SlotsAre
    <2>2. Cardinality(SlotsOf(t, k, y)) # 0
      BY <1>6, <2>1, FS_EmptySet
    <2> QED
      BY <2>1, <2>2
  <1>8. b[<<k, y>>] = Cardinality(SlotsOf(t, k, y))
    BY DEF HashState
  <1> QED
    BY <1>1, <1>2, <1>3, <1>4, <1>5, <1>7, <1>8

(* set changes the value of an entry it finds.                              *)
LEMMA SetState ==
    ASSUME NEW t, NEW b, HashState(t, b), SizeOf(t) # 0, NEW k \in Keys, NEW v \in Payloads,
           NEW slot, slot = _find_entry(t, k), slot # NoSlot,
           NEW u, u = [t EXCEPT !.entries[slot].value = v],
           NEW c, c = [[b EXCEPT ![<<k, t.entries[slot].value>>] = @ - 1] EXCEPT ![<<k, v>>] = @ + 1]
    PROVE  HashState(u, c)
  <1> DEFINE w == t.entries[slot].value
  <1>1. PICK s : Ready(t, s) /\ TableOf(t, s) /\ slot \in 0 .. s - 1
    BY SlotChanged
  <1>2. slot \in ValidSlots(t) /\ w \in Payloads /\ t.entries[slot] = Pair(k, w) /\ b[<<k, w>>] \in Nat \ {0}
    BY SlotChanged
  <1>3. t \in [count : Nat, slots_filled : Nat, entries : [0 .. s - 1 -> HashEntries]]
    BY <1>1 DEF TableOf
  <1>4. Pair(k, v) \in HashEntries /\ Pair(k, v).hash = t.entries[slot].hash /\ Pair(k, v) # Tombstone
    <2>1. compute(k) \in Nat /\ compute(k) >= 2
      BY ComputeIs
    <2> QED
      BY <1>2, <2>1 DEF HashEntries, Pair, Tombstone, TOMBSTONE_HASH, Blank
  <1>5. /\ u.entries = [t.entries EXCEPT ![slot] = Pair(k, v)] /\ u.slots_filled = t.slots_filled /\ u.count = t.count
        /\ u = [count |-> u.count, slots_filled |-> u.slots_filled, entries |-> u.entries]
    <2>1. [t.entries[slot] EXCEPT !.value = v] = Pair(k, v)
      BY <1>2 DEF Pair
    <2>2. u = [t EXCEPT !.entries = [t.entries EXCEPT ![slot] = Pair(k, v)]]
      BY <1>1, <1>3, <2>1
    <2> QED
      BY <1>3, <2>2
  <1>6. /\ TableOf(u, s) /\ u.slots_filled = t.slots_filled
        /\ \A x, y : Cardinality(SlotsOf(u, x, y)) =
                         Cardinality(SlotsOf(t, x, y)) + (IF HoldsPair(Pair(k, v), x, y) THEN 1 ELSE 0)
                                                       - (IF HoldsPair(t.entries[slot], x, y) THEN 1 ELSE 0)
    <2>1. PICK e \in HashEntries : e = Pair(k, v)
      BY <1>4
    <2>2. u.count = IF e = Tombstone THEN t.count - 1 ELSE t.count
      BY <1>4, <1>5, <2>1
    <2>3. u.entries = [t.entries EXCEPT ![slot] = e] /\ e.hash = t.entries[slot].hash
      BY <1>4, <1>5, <2>1
    <2>4. /\ TableOf(u, s)
          /\ \A x, y : Cardinality(SlotsOf(u, x, y)) =
                           Cardinality(SlotsOf(t, x, y)) + (IF HoldsPair(e, x, y) THEN 1 ELSE 0)
                                                         - (IF HoldsPair(t.entries[slot], x, y) THEN 1 ELSE 0)
      <3>1. TableOf(t, s) /\ slot \in ValidSlots(t) /\ (e = Tombstone \/ e.hash = t.entries[slot].hash)
        BY <1>1, <1>2, <2>1, <2>3
      <3>2. u.slots_filled = t.slots_filled /\ u = [count |-> u.count, slots_filled |-> u.slots_filled, entries |-> u.entries]
        BY <1>5
      <3> HIDE DEF w
      <3> QED
        BY <2>2, <2>3, <3>1, <3>2, EntryReplaced
    <2> QED
      BY <1>5, <2>1, <2>4
  <1>7. \A x, y : (HoldsPair(Pair(k, v), x, y) <=> x = k /\ y = v) /\ (HoldsPair(t.entries[slot], x, y) <=> x = k /\ y = w)
    <2>1. compute(k) >= 2
      BY ComputeIs
    <2> QED
      BY <1>2, <2>1 DEF HoldsPair, Pair, FIRST_VALID_HASH
  <1>8. b \in [Keys \X Payloads -> Nat] /\ \A x \in Keys, y \in Payloads : b[<<x, y>>] = Cardinality(SlotsOf(t, x, y))
    BY DEF HashState
  <1>9. /\ c \in [Keys \X Payloads -> Nat]
        /\ \A x \in Keys, y \in Payloads :
               c[<<x, y>>] = b[<<x, y>>] + (IF x = k /\ y = v THEN 1 ELSE 0) - (IF x = k /\ y = w THEN 1 ELSE 0)
    <2> DEFINE d == [b EXCEPT ![<<k, w>>] = @ - 1]
    <2>1. d \in [Keys \X Payloads -> Nat] /\ \A x \in Keys, y \in Payloads : d[<<x, y>>] = b[<<x, y>>] - (IF x = k /\ y = w THEN 1 ELSE 0)
      <3>1. b[<<k, w>>] - 1 \in Nat
        BY <1>2
      <3> HIDE DEF w
      <3> QED
        BY <1>2, <1>8, <3>1
    <2>2. c = [d EXCEPT ![<<k, v>>] = @ + 1]
      OBVIOUS
    <2> HIDE DEF d, w
    <2>3. PICK kv \in Keys \X Payloads : kv = <<k, v>>
      OBVIOUS
    <2>4. c = [d EXCEPT ![kv] = d[kv] + 1] /\ d[kv] \in Nat
      <3>1. c = [d EXCEPT ![kv] = d[kv] + 1]
        BY <2>2, <2>3
      <3>2. d[kv] \in Nat
        BY <2>1
      <3> QED
        BY <3>1, <3>2
    <2>5. c \in [Keys \X Payloads -> Nat]
      <3>1. d \in [Keys \X Payloads -> Nat]
        BY <2>1
      <3> QED
        BY <2>4, <3>1
    <2>6. ASSUME NEW x \in Keys, NEW y \in Payloads
          PROVE  c[<<x, y>>] = b[<<x, y>>] + (IF x = k /\ y = v THEN 1 ELSE 0) - (IF x = k /\ y = w THEN 1 ELSE 0)
      <3>0. <<x, y>> = <<k, v>> <=> x = k /\ y = v
        OBVIOUS
      <3>1. PICK xy \in Keys \X Payloads : xy = <<x, y>> /\ (xy = kv <=> x = k /\ y = v)
        BY <2>3, <3>0
      <3>2. c[xy] = d[xy] + IF x = k /\ y = v THEN 1 ELSE 0
        BY <2>1, <2>4, <3>1
      <3>3. d[xy] = b[xy] - (IF x = k /\ y = w THEN 1 ELSE 0) /\ d[xy] \in Nat /\ b[xy] \in Nat
        BY <1>8, <2>1, <3>1
      <3> QED
        BY <3>1, <3>2, <3>3
    <2> QED
      BY <2>5, <2>6
  <1> HIDE DEF w
  <1>10. ASSUME NEW x \in Keys, NEW y \in Payloads PROVE c[<<x, y>>] = Cardinality(SlotsOf(u, x, y))
    <2> DEFINE one == IF x = k /\ y = v THEN 1 ELSE 0
               other == IF x = k /\ y = w THEN 1 ELSE 0
    <2>1. PICK n \in Nat : n = b[<<x, y>>] /\ n = Cardinality(SlotsOf(t, x, y))
      BY <1>8
    <2>2. c[<<x, y>>] = n + one - other
      <3>1. c[<<x, y>>] = b[<<x, y>>] + one - other
        BY <1>9, Zenon
      <3> QED
        BY <2>1, <3>1
    <2>3. (IF HoldsPair(Pair(k, v), x, y) THEN 1 ELSE 0) = one /\ (IF HoldsPair(t.entries[slot], x, y) THEN 1 ELSE 0) = other
      BY <1>7
    <2> HIDE DEF one, other
    <2>4. Cardinality(SlotsOf(u, x, y)) = n + one - other
      BY <1>6, <2>1, <2>3
    <2> QED
      BY <2>2, <2>4
  <1>11. Ready(u, s)
    BY <1>1, <1>6 DEF Ready
  <1> QED
    BY <1>9, <1>10, <1>11 DEF HashState

(* remove leaves a tombstone, and the probe paths across it.                *)
LEMMA RemoveState ==
    ASSUME NEW t, NEW b, HashState(t, b), SizeOf(t) # 0, NEW k \in Keys,
           NEW slot, slot = _find_entry(t, k), slot # NoSlot, NEW u, u = Removed(t, slot),
           NEW c, c = [b EXCEPT ![<<k, t.entries[slot].value>>] = @ - 1]
    PROVE  HashState(u, c)
  <1> DEFINE w == t.entries[slot].value
  <1>1. PICK s : Ready(t, s) /\ TableOf(t, s) /\ slot \in 0 .. s - 1
    BY SlotChanged
  <1>2. slot \in ValidSlots(t) /\ w \in Payloads /\ t.entries[slot] = Pair(k, w) /\ b[<<k, w>>] \in Nat \ {0}
    BY SlotChanged
  <1>3. t \in [count : Nat, slots_filled : Nat, entries : [0 .. s - 1 -> HashEntries]]
    BY <1>1 DEF TableOf
  <1>4. Tombstone \in HashEntries
    BY DEF HashEntries
  <1>5. /\ u.entries = [t.entries EXCEPT ![slot] = Tombstone] /\ u.slots_filled = t.slots_filled /\ u.count = t.count - 1
        /\ u = [count |-> u.count, slots_filled |-> u.slots_filled, entries |-> u.entries]
    BY <1>3 DEF Removed
  <1>6. /\ TableOf(u, s) /\ u.slots_filled = t.slots_filled
        /\ \A x, y : Cardinality(SlotsOf(u, x, y)) =
                         Cardinality(SlotsOf(t, x, y)) + (IF HoldsPair(Tombstone, x, y) THEN 1 ELSE 0)
                                                       - (IF HoldsPair(t.entries[slot], x, y) THEN 1 ELSE 0)
    <2>1. PICK e \in HashEntries : e = Tombstone
      BY <1>4
    <2>2. u.count = IF e = Tombstone THEN t.count - 1 ELSE t.count
      BY <1>5, <2>1
    <2>3. u.entries = [t.entries EXCEPT ![slot] = e]
      BY <1>5, <2>1
    <2>4. /\ TableOf(u, s)
          /\ \A x, y : Cardinality(SlotsOf(u, x, y)) =
                           Cardinality(SlotsOf(t, x, y)) + (IF HoldsPair(e, x, y) THEN 1 ELSE 0)
                                                         - (IF HoldsPair(t.entries[slot], x, y) THEN 1 ELSE 0)
      <3>1. TableOf(t, s) /\ slot \in ValidSlots(t) /\ (e = Tombstone \/ e.hash = t.entries[slot].hash)
        BY <1>1, <1>2, <2>1, <2>3
      <3>2. u.slots_filled = t.slots_filled /\ u = [count |-> u.count, slots_filled |-> u.slots_filled, entries |-> u.entries]
        BY <1>5
      <3> HIDE DEF w
      <3> QED
        BY <2>2, <2>3, <3>1, <3>2, EntryReplaced
    <2> QED
      BY <1>5, <2>1, <2>4
  <1>7. \A x, y : ~HoldsPair(Tombstone, x, y) /\ (HoldsPair(t.entries[slot], x, y) <=> x = k /\ y = w)
    <2>1. compute(k) >= 2
      BY ComputeIs
    <2> QED
      BY <1>2, <2>1 DEF HoldsPair, Pair, FIRST_VALID_HASH, Tombstone, TOMBSTONE_HASH, Blank
  <1>8. b \in [Keys \X Payloads -> Nat] /\ \A x \in Keys, y \in Payloads : b[<<x, y>>] = Cardinality(SlotsOf(t, x, y))
    BY DEF HashState
  <1>9. /\ c \in [Keys \X Payloads -> Nat]
        /\ \A x \in Keys, y \in Payloads : c[<<x, y>>] = b[<<x, y>>] - (IF x = k /\ y = w THEN 1 ELSE 0)
    <2>1. b[<<k, w>>] - 1 \in Nat
      BY <1>2
    <2> HIDE DEF w
    <2> QED
      BY <1>2, <1>8, <2>1 DEF w
  <1> HIDE DEF w
  <1>10. ASSUME NEW x \in Keys, NEW y \in Payloads PROVE c[<<x, y>>] = Cardinality(SlotsOf(u, x, y))
    <2> DEFINE one == 0
               other == IF x = k /\ y = w THEN 1 ELSE 0
    <2>1. PICK n \in Nat : n = b[<<x, y>>] /\ n = Cardinality(SlotsOf(t, x, y))
      BY <1>8
    <2>2. c[<<x, y>>] = n + one - other
      <3>1. c[<<x, y>>] = b[<<x, y>>] - other
        BY <1>9, Zenon
      <3> QED
        BY <2>1, <3>1
    <2>3. (IF HoldsPair(Tombstone, x, y) THEN 1 ELSE 0) = one /\ (IF HoldsPair(t.entries[slot], x, y) THEN 1 ELSE 0) = other
      BY <1>7
    <2> HIDE DEF one, other
    <2>4. Cardinality(SlotsOf(u, x, y)) = n + one - other
      BY <1>6, <2>1, <2>3
    <2> QED
      BY <2>2, <2>4
  <1>11. Ready(u, s)
    BY <1>1, <1>6 DEF Ready
  <1> QED
    BY <1>9, <1>10, <1>11 DEF HashState

(* ensure_has_space_for moves the entries and keeps them.                   *)
LEMMA ReserveState ==
    ASSUME NEW t, NEW b, HashState(t, b), NEW n \in Reservations, NEW u,
           u = expand_to(t, next_power_of_two(((t.count + n) * 100) \div LOAD_FACTOR_PERCENT))
    PROVE  HashState(u, b)
  <1>1. n \in Nat \ {0}
    BY HashTableAssumption
  <1>2. \E z : Ready(t, z) \/ (t = MovedFrom /\ z = 0)
    BY DEF HashState
  <1>3. (\E s : Ready(u, s)) /\ SameEntries(u, t)
    BY <1>1, <1>2, ReservedIs
  <1> QED
    BY <1>3 DEF HashState, SameEntries

(* The inductive invariant.                                                 *)
HashInv == HashState(table, kept) /\ asserted \in BOOLEAN

(* A table has a number of slots.                                           *)
LEMMA SizeIs == ASSUME HashInv PROVE SizeOf(table) \in Nat
  <1>1. CASE table = MovedFrom
    BY <1>1, MovedFromIs
  <1>2. ASSUME NEW s, Ready(table, s) PROVE SizeOf(table) \in Nat
    BY <1>2, SlotsAre DEF Ready
  <1> QED
    BY <1>1, <1>2 DEF HashInv, HashState

(* The program starts with an empty table.                                  *)
LEMMA HashStart == HashInit => HashInv
  BY FreshState DEF HashInit, HashInv

(* add preserves the invariant, and set does where it finds nothing.        *)
LEMMA AddKeeps ==
    ASSUME HashInv, NEW k \in Keys, NEW v \in Payloads, add(k, v)
    PROVE  HashInv'
  <1>1. CASE SizeOf(table) = 0
    BY <1>1 DEF add, HashInv
  <1>2. CASE SizeOf(table) # 0
    <2>1. table' = Added(table, k, v) /\ kept' = [kept EXCEPT ![<<k, v>>] = @ + 1] /\ asserted' = asserted
      BY <1>2 DEF add, Keep
    <2> QED
      BY <1>2, <2>1, AddState DEF HashInv
  <1> QED
    BY <1>1, <1>2

(* Every operation preserves the invariant.                                 *)
LEMMA HashStep == HashInv /\ [HashNext]_hashVars => HashInv'
  <1> SUFFICES ASSUME HashInv, [HashNext]_hashVars PROVE HashInv'
    OBVIOUS
  <1>0. HashState(table, kept) /\ asserted \in BOOLEAN
    BY DEF HashInv
  <1>1. CASE UNCHANGED hashVars
    BY <1>0, <1>1 DEF hashVars, HashInv
  <1>2. ASSUME NEW k \in Keys, NEW v \in Payloads, add(k, v) PROVE HashInv'
    BY <1>2, AddKeeps
  <1>3. ASSUME NEW k \in Keys, NEW v \in Payloads, set(k, v) PROVE HashInv'
    <2>1. SizeOf(table) # 0
      BY <1>3, SizeIs DEF set
    <2>2. CASE _find_entry(table, k) = NoSlot
      <3>1. add(k, v)
        BY <1>3, <2>2 DEF set
      <3> QED
        BY <3>1, AddKeeps
    <2>3. CASE _find_entry(table, k) # NoSlot
      <3> DEFINE slot == _find_entry(table, k)
      <3>1. /\ table' = [table EXCEPT !.entries[slot].value = v] /\ asserted' = asserted
            /\ kept' = [[kept EXCEPT ![<<k, table.entries[slot].value>>] = @ - 1] EXCEPT ![<<k, v>>] = @ + 1]
        BY <1>3, <2>3 DEF set, Forget
      <3> HIDE DEF slot
      <3>2. slot = _find_entry(table, k) /\ slot # NoSlot
        BY <2>3 DEF slot
      <3>3. HashState(table', kept')
        BY <1>0, <2>1, <3>1, <3>2, SetState
      <3> QED
        BY <1>0, <3>1, <3>3 DEF HashInv
    <2> QED
      BY <2>2, <2>3
  <1>4. ASSUME NEW k \in Keys, remove(k) PROVE HashInv'
    <2> DEFINE slot == _find_entry(table, k)
    <2>1. /\ slot # NoSlot /\ table' = Removed(table, slot) /\ asserted' = asserted
          /\ kept' = [kept EXCEPT ![<<k, table.entries[slot].value>>] = @ - 1]
      BY <1>4 DEF remove, Forget
    <2>2. SizeOf(table) # 0
      BY <1>4, SizeIs DEF remove
    <2> HIDE DEF slot
    <2>3. slot = _find_entry(table, k)
      BY DEF slot
    <2>4. HashState(table', kept')
      BY <1>0, <2>1, <2>2, <2>3, RemoveState
    <2> QED
      BY <1>0, <2>1, <2>4 DEF HashInv
  <1>5. CASE reset_table
    <2>1. HashState(table', kept')
      BY <1>0, <1>5, ResetState DEF reset_table
    <2> QED
      BY <1>0, <1>5, <2>1 DEF HashInv, reset_table
  <1>6. ASSUME NEW n \in Reservations, ensure_has_space_for(n) PROVE HashInv'
    <2>1. HashState(table', kept)
      BY <1>0, <1>6, ReserveState DEF ensure_has_space_for
    <2> QED
      BY <1>0, <1>6, <2>1 DEF HashInv, ensure_has_space_for
  <1>7. CASE move_out \/ assign_new
    <2>1. HashState(table', kept')
      BY <1>7, FreshState DEF move_out, assign_new
    <2> QED
      BY <1>0, <1>7, <2>1 DEF HashInv, move_out, assign_new
  <1> QED
    BY <1>1, <1>2, <1>3, <1>4, <1>5, <1>6, <1>7 DEF HashNext

(* What the invariant says of the state.                                    *)
LEMMA HashFollows == HashInv => TableSound
  <1> SUFFICES ASSUME HashInv PROVE TableSound
    OBVIOUS
  <1>1. /\ kept \in [Keys \X Payloads -> Nat] /\ asserted \in BOOLEAN /\ EntriesAreKept
        /\ table = MovedFrom \/ \E s : Ready(table, s)
    BY DEF HashInv, HashState, EntriesAreKept
  <1>2. CASE table = MovedFrom
    <2>1. HashTypeOK
      BY <1>1, <1>2, MovedFromIs DEF HashTypeOK
    <2>2. ~(SizeOf(table) > 0)
      BY <1>2, MovedFromIs
    <2> QED
      BY <1>1, <2>1, <2>2 DEF TableSound, FindsWhatWasPut, BelowLoadLimit
  <1>3. ASSUME NEW s, Ready(table, s) PROVE TableSound
    <2>1. /\ TableOf(table, s) /\ s \in Powers /\ s >= MIN_SIZE
          /\ table.slots_filled * 100 < s * LOAD_FACTOR_PERCENT
          /\ table.count = Cardinality(ValidSlots(table)) /\ table.slots_filled = Cardinality(FilledSlots(table))
      BY <1>3 DEF Ready, TableOf
    <2>2. /\ s \in Nat \ {0} /\ DOMAIN table.entries = 0 .. s - 1 /\ SizeOf(table) = s
          /\ \A i \in 0 .. s - 1 : table.entries[i] \in HashEntries
          /\ table.slots_filled \in Nat /\ FilledSlots(table) \subseteq 0 .. s - 1
      BY <2>1, SlotsAre
    <2>3. ASSUME NEW i \in ValidSlots(table)
          PROVE  table.entries[i].key \in Keys /\ table.entries[i].value \in Payloads
      <3>1. table.entries[i] \in HashEntries /\ table.entries[i].hash >= 2
        BY <2>2 DEF ValidSlots, FIRST_VALID_HASH
      <3>2. PICK a \in Keys, v \in Payloads : table.entries[i] = Pair(a, v)
        BY <3>1, HashEntryIs
      <3> QED
        BY <3>2 DEF Pair
    <2>4. HashTypeOK
      BY <1>1, <2>1, <2>3 DEF HashTypeOK
    <2>5. FindsWhatWasPut
      <3> SUFFICES ASSUME NEW k \in Keys
                   PROVE  LET slot == _find_entry(table, k)
                          IN IF KeptOf(k) = {} THEN slot = NoSlot
                             ELSE slot # NoSlot /\ table.entries[slot].value \in KeptOf(k)
        BY DEF FindsWhatWasPut
      <3>1. PICK slot : slot = _find_entry(table, k)
        OBVIOUS
      <3>2. \/ slot = NoSlot /\ \A i \in ValidSlots(table) : table.entries[i].key # k
            \/ slot # NoSlot /\ slot \in ValidSlots(table) /\ table.entries[slot].key = k
        BY <2>1, <3>1, FindIs
      <3>3. CASE slot = NoSlot
        <4>1. \A v : SlotsOf(table, k, v) = {}
          BY <3>2, <3>3 DEF SlotsOf
        <4>2. \A v \in Payloads : kept[<<k, v>>] = 0
          BY <1>1, <4>1, FS_EmptySet DEF EntriesAreKept
        <4>3. KeptOf(k) = {}
          BY <4>2 DEF KeptOf
        <4> QED
          BY <3>1, <3>3, <4>3
      <3>4. CASE slot # NoSlot
        <4>1. SizeOf(table) # 0
          BY <2>2
        <4>2. table.entries[slot].value \in Payloads /\ kept[<<k, table.entries[slot].value>>] \in Nat \ {0}
          BY <3>1, <3>4, <4>1, SlotChanged DEF HashInv
        <4>3. table.entries[slot].value \in KeptOf(k)
          BY <4>2 DEF KeptOf
        <4> QED
          BY <3>1, <3>4, <4>3
      <3> QED
        BY <3>3, <3>4
    <2>6. BelowLoadLimit
      <3>1. s * LOAD_FACTOR_PERCENT \in Nat /\ s * LOAD_FACTOR_PERCENT <= s * 99
        BY <2>2, LimitIs
      <3>2. table.slots_filled < s
        BY <2>1, <2>2, <3>1
      <3>3. WithHash(table, {EMPTY_HASH}) # {}
        <4> SUFFICES ASSUME WithHash(table, {EMPTY_HASH}) = {} PROVE FALSE
          OBVIOUS
        <4>1. FilledSlots(table) = 0 .. s - 1
          BY <2>2 DEF WithHash, FilledSlots
        <4>2. Cardinality(0 .. s - 1) = s
          BY <2>2 DEF SizeOf
        <4> QED
          BY <2>1, <2>2, <3>2, <4>1, <4>2
      <3>4. ASSUME NEW k \in Keys
            PROVE  FirstProbe(table, compute(k), WithHash(table, {EMPTY_HASH})) # NoSlot
        <4>1. PICK stops \in SUBSET (0 .. s - 1) : stops = WithHash(table, {EMPTY_HASH}) /\ stops # {}
          BY <2>2, <3>3 DEF WithHash
        <4>2. compute(k) \in Nat
          BY ComputeIs
        <4>3. PICK h \in Nat : h = compute(k)
          BY <4>2
        <4>4. \E n \in Nat : FirstProbe(table, h, stops) = ProbeSlot(h, n, s) /\ ProbeSlot(h, n, s) \in stops
          <5>1. s \in Powers /\ SizeOf(table) = s /\ stops # {}
            BY <2>1, <2>2, <4>1
          <5> QED
            BY <5>1, FirstProbeIs
        <4>5. FirstProbe(table, h, stops) \in 0 .. s - 1
          BY <4>4
        <4>6. NoSlot \notin 0 .. s - 1
          BY <2>2 DEF NoSlot
        <4> QED
          BY <4>1, <4>3, <4>5, <4>6
      <3> QED
        BY <2>1, <2>2, <3>4 DEF BelowLoadLimit
    <2> QED
      BY <1>1, <2>4, <2>5, <2>6 DEF TableSound
  <1> QED
    BY <1>1, <1>2, <1>3

(* The hash table finds what was put in it and nothing else, whatever was   *)
(* added, replaced, removed, moved and rehashed in between.                 *)
THEOREM TableIsSound == HashSpec => []TableSound
  <1>1. HashInit => HashInv
    BY HashStart
  <1>2. HashInv /\ [HashNext]_hashVars => HashInv'
    BY HashStep
  <1>3. HashInv => TableSound
    BY HashFollows
  <1> QED
    BY <1>1, <1>2, <1>3, PTL DEF HashSpec
=============================================================================
