------------------------- MODULE TlbShootdownProofs -------------------------
(***************************************************************************)
(* ShootdownSound is an invariant of tlb::shootdown for any number of CPUs, *)
(* callers, addresses and remappings.                                       *)
(***************************************************************************)
EXTENDS TlbShootdown, FiniteSetTheorems, TLAPS

(* The others are finite in number, and one fewer than all.                 *)
LEMMA OthersCount ==
    ASSUME NEW c \in CPUs
    PROVE  /\ IsFiniteSet(CPUs \ {c})
           /\ Cardinality(CPUs \ {c}) \in 0 .. Cardinality(CPUs) - 1
           /\ Cardinality(CPUs \ {c}) \in Nat /\ Cardinality(CPUs) \in Nat
  <1>1. IsFiniteSet(CPUs \ {c}) /\ Cardinality(CPUs \ {c}) = Cardinality(CPUs) - 1
    BY FS_RemoveElement, CpuAssumption
  <1>2. Cardinality(CPUs \ {c}) \in Nat /\ Cardinality(CPUs) \in Nat
    BY <1>1, FS_CardinalityType, CpuAssumption
  <1> QED
    BY <1>1, <1>2

(* Those that acknowledged are among the others; all have when they are as  *)
(* many.                                                                    *)
LEMMA AcknowledgedCount ==
    ASSUME NEW c \in CPUs, NEW S \in SUBSET (CPUs \ {c})
    PROVE  /\ IsFiniteSet(S)
           /\ Cardinality(S) \in 0 .. Cardinality(CPUs) - 1
           /\ Cardinality(S) <= Cardinality(CPUs \ {c})
           /\ Cardinality(S) >= Cardinality(CPUs \ {c}) => S = CPUs \ {c}
  <1>1. IsFiniteSet(S) /\ Cardinality(S) <= Cardinality(CPUs \ {c})
          /\ (Cardinality(CPUs \ {c}) = Cardinality(S) => CPUs \ {c} = S)
    BY OthersCount, FS_Subset
  <1>2. Cardinality(S) \in Nat
    BY <1>1, FS_CardinalityType
  <1> QED
    BY <1>1, <1>2, OthersCount

(* What flush_local leaves in the TLBs.                                     *)
LEMMA FlushLocal ==
    ASSUME TypeOK, NEW c \in CPUs, NEW where, flush_local(c, where)
    PROVE  /\ tlb' \in [CPUs -> [Addresses -> -1 .. MAX_REMAPS]]
           /\ \A d \in CPUs, a \in Addresses :
                 tlb'[d][a] = IF d = c /\ Covers(where, a) THEN -1 ELSE tlb[d][a]
  <1> DEFINE row == [a \in Addresses |-> IF Covers(where, a) THEN -1 ELSE tlb[c][a]]
  <1>1. tlb \in [CPUs -> [Addresses -> -1 .. MAX_REMAPS]]
    BY DEF TypeOK
  <1>2. tlb' = [tlb EXCEPT ![c] = row]
    BY DEF flush_local
  <1>3. row \in [Addresses -> -1 .. MAX_REMAPS]
    BY <1>1, RemapAssumption
  <1>4. \A a \in Addresses : row[a] = IF Covers(where, a) THEN -1 ELSE tlb[c][a]
    OBVIOUS
  <1> HIDE DEF row
  <1> QED
    BY <1>1, <1>2, <1>3, <1>4

(* A flush leaves a fresh TLB fresh, and makes that of its own CPU fresh    *)
(* for whoever called with that address: what it does not cover, earlier    *)
(* calls have shot down.                                                    *)
LEMMA FlushIsFresh ==
    ASSUME TypeOK, NoStaleTranslation, CallsOwe,
           NEW c \in CPUs, NEW d \in CPUs, pc[c] # "run", flush_local(d, address[c])
    PROVE  \A a \in Addresses : tlb'[d][a] = -1 \/ tlb'[d][a] >= due[c][a]
  <1> TAKE a \in Addresses
  <1>1. tlb'[d][a] = IF Covers(address[c], a) THEN -1 ELSE tlb[d][a]
    BY FlushLocal
  <1>2. tlb[d][a] = -1 \/ tlb[d][a] >= flushed[a]
    BY DEF NoStaleTranslation
  <1>3. Covers(address[c], a) \/ due[c][a] <= flushed[a]
    BY DEF CallsOwe
  <1>4. tlb[d][a] \in Int /\ flushed[a] \in Int /\ due[c][a] \in Int
    BY DEF TypeOK
  <1> QED
    BY <1>1, <1>2, <1>3, <1>4

(* Every CPU starts outside shootdown() and with an empty TLB.              *)
LEMMA InitSound == Init => ShootdownSound
  <1> SUFFICES ASSUME Init PROVE ShootdownSound
    OBVIOUS
  <1>1. Cardinality(CPUs) \in Nat /\ 0 \in 0 .. Cardinality(CPUs) - 1
    <2>1. PICK c \in CPUs : TRUE
      BY CpuAssumption
    <2>2. Cardinality(CPUs \ {c}) \in 0 .. Cardinality(CPUs) - 1
      BY OthersCount
    <2>3. Cardinality(CPUs) \in Nat
      BY OthersCount
    <2> QED
      BY <2>2, <2>3
  <1>2. TypeOK
    BY <1>1, RemapAssumption DEF Init, TypeOK
  <1>3. NoStaleTranslation /\ AcknowledgmentsMatch
    BY DEF Init, NoStaleTranslation, AcknowledgmentsMatch
  <1>4. LockDiscipline /\ CallsOwe /\ RoundInProgress
    BY CpuAssumption DEF Init, LockDiscipline, CallsOwe, RoundInProgress, Answering
  <1> QED
    BY <1>2, <1>3, <1>4 DEF ShootdownSound

(* In a round, the acknowledgments counted are no more than those required. *)
LEMMA RoundCounts ==
    lock \in CPUs /\ LockDiscipline /\ CallsOwe /\ RoundInProgress
      => /\ AcknowledgmentsMatch
         /\ acknowledgments \in 0 .. Cardinality(CPUs) - 1
         /\ required_acknowledgments \in 0 .. Cardinality(CPUs) - 1
  <1> SUFFICES ASSUME lock \in CPUs, LockDiscipline, CallsOwe, RoundInProgress
               PROVE  /\ AcknowledgmentsMatch
                      /\ acknowledgments \in 0 .. Cardinality(CPUs) - 1
                      /\ required_acknowledgments \in 0 .. Cardinality(CPUs) - 1
    OBVIOUS
  <1>1. pc[lock] \in {"send", "wait"} /\ lock # None
    BY CpuAssumption DEF LockDiscipline
  <1>2. required_acknowledgments = Cardinality(CPUs \ {lock})
    BY <1>1 DEF CallsOwe, RoundInProgress, Round
  <1>3. acknowledgments = Cardinality(Acknowledged(lock)) /\ Acknowledged(lock) \in SUBSET (CPUs \ {lock})
    BY DEF RoundInProgress, Round, Acknowledged
  <1> QED
    BY <1>1, <1>2, <1>3, OthersCount, AcknowledgedCount DEF AcknowledgmentsMatch

(* A page walk caches the current translation, which nobody owes.           *)
LEMMA WalkSound ==
    ASSUME ShootdownSound, NEW d \in CPUs, NEW b \in Addresses, Walk(d, b)
    PROVE  ShootdownSound'
  <1> USE DEF ShootdownSound
  <1>1. tlb' = [tlb EXCEPT ![d][b] = mapping[b]]
    BY DEF Walk
  <1>2. \A c \in CPUs, a \in Addresses :
            tlb'[c][a] = IF c = d /\ a = b THEN mapping[a] ELSE tlb[c][a]
    BY <1>1 DEF TypeOK
  <1>3. \A a \in Addresses : mapping[a] \in Int /\ flushed[a] \in Int
    BY DEF TypeOK
  <1>4. TypeOK'
    BY <1>1 DEF Walk, TypeOK, shared, handler, caller
  <1>5. NoStaleTranslation'
    BY <1>2, <1>3 DEF Walk, NoStaleTranslation, CallsOwe
  <1>6. AcknowledgmentsMatch' /\ LockDiscipline' /\ CallsOwe'
    BY DEF Walk, AcknowledgmentsMatch, LockDiscipline, CallsOwe, Answering, shared, handler, caller
  <1>7. RoundInProgress'
    <2>1. \A c \in CPUs : lock = c => \A a \in Addresses : due[c][a] <= mapping[a]
      BY DEF CallsOwe, LockDiscipline
    <2>2. ASSUME NEW c \in CPUs, lock = c, NEW e \in CPUs, Fresh(e, c) PROVE Fresh(e, c)'
      BY <1>2, <2>1, <2>2 DEF Fresh, Walk, caller
    <2> QED
      BY <2>2 DEF Walk, RoundInProgress, Round, Acknowledged, Answering, shared, handler, caller
  <1> QED
    BY <1>4, <1>5, <1>6, <1>7

(* Code outside shootdown() switches interrupts where it is not in the      *)
(* handler.                                                                 *)
LEMMA InterruptSwitchSound ==
    ASSUME ShootdownSound, NEW d \in CPUs, Disable(d) \/ Enable(d)
    PROVE  ShootdownSound'
  <1> USE DEF ShootdownSound
  <1>1. Executes(d, "run")
          /\ UNCHANGED <<mapping, tlb, lock, shared, pending, pc, handler, caller, flushed>>
    BY DEF Disable, Enable
  <1>2. interrupts' \in [CPUs -> BOOLEAN] /\ \A c \in CPUs : c # d => interrupts'[c] = interrupts[c]
    BY DEF Disable, Enable, TypeOK
  <1>3. TypeOK'
    BY <1>1, <1>2 DEF TypeOK, shared, handler, caller
  <1>4. NoStaleTranslation' /\ AcknowledgmentsMatch' /\ CallsOwe'
    BY <1>1 DEF NoStaleTranslation, AcknowledgmentsMatch, CallsOwe, shared, handler, caller
  <1>5. LockDiscipline'
    BY <1>1, <1>2 DEF LockDiscipline, Answering, Executes, handler
  <1>6. RoundInProgress'
    BY <1>1 DEF RoundInProgress, Round, Acknowledged, Answering, Fresh, shared, handler, caller
  <1> QED
    BY <1>3, <1>4, <1>5, <1>6

(* A caller remaps and counts the others; it owes what it remapped.         *)
LEMMA CallSound ==
    ASSUME ShootdownSound, NEW d \in CPUs, NEW where \in Addresses \cup {FLUSH_ALL}, Call(d, where)
    PROVE  ShootdownSound'
  <1> USE DEF ShootdownSound
  <1> DEFINE remapped == [a \in Addresses |-> IF Covers(where, a) THEN mapping[a] + 1 ELSE mapping[a]]
             owed == [a \in Addresses |-> IF Covers(where, a) THEN remapped[a] ELSE flushed[a]]
  <1>1. /\ pc[d] = "run" /\ mapping' = remapped
        /\ \A a \in Addresses : remapped[a] <= MAX_REMAPS
        /\ address' = [address EXCEPT ![d] = where]
        /\ required' = [required EXCEPT ![d] = Cardinality(CPUs \ {d})]
        /\ due' = [due EXCEPT ![d] = owed]
        /\ pc' = [pc EXCEPT ![d] = "counted"]
        /\ UNCHANGED <<tlb, lock, shared, interrupts, pending, handler, unsent, flushed>>
    BY DEF Call, Executes, online_count_excluding_self
  <1>2. \A a \in Addresses :
            /\ mapping[a] \in 0 .. MAX_REMAPS /\ flushed[a] \in 0 .. MAX_REMAPS
            /\ remapped[a] \in 0 .. MAX_REMAPS /\ mapping[a] <= remapped[a]
            /\ flushed[a] <= mapping[a] /\ owed[a] \in 0 .. MAX_REMAPS /\ owed[a] <= remapped[a]
            /\ Covers(where, a) \/ owed[a] = flushed[a]
    BY <1>1, RemapAssumption DEF TypeOK, CallsOwe
  <1>3. remapped \in [Addresses -> 0 .. MAX_REMAPS] /\ owed \in [Addresses -> 0 .. MAX_REMAPS]
    BY <1>2
  <1> HIDE DEF remapped, owed
  <1>4. TypeOK'
    BY <1>1, <1>3, OthersCount DEF TypeOK, shared, handler
  <1>5. lock # d
    BY <1>1 DEF LockDiscipline
  <1>6. NoStaleTranslation' /\ AcknowledgmentsMatch'
    BY <1>1 DEF NoStaleTranslation, AcknowledgmentsMatch, shared, handler
  <1>7. LockDiscipline'
    BY <1>1 DEF LockDiscipline, Answering, handler, TypeOK
  <1>8. CallsOwe'
    <2>1. \A a \in Addresses : flushed'[a] <= mapping'[a]
      BY <1>1, <1>2
    <2>2. \A c \in CPUs : pc'[c] # "run" => required'[c] = Cardinality(CPUs \ {c})
      BY <1>1 DEF CallsOwe, TypeOK
    <2>3. ASSUME NEW c \in CPUs, pc'[c] # "run", NEW a \in Addresses
          PROVE  due'[c][a] <= mapping'[a] /\ (Covers(address'[c], a) \/ due'[c][a] <= flushed'[a])
      <3>1. CASE c = d
        BY <1>1, <1>2, <3>1 DEF TypeOK
      <3>2. CASE c # d
        <4>1. due'[c] = due[c] /\ address'[c] = address[c] /\ pc'[c] = pc[c]
          BY <1>1, <3>2 DEF TypeOK
        <4>2. pc[c] # "run" /\ due[c][a] \in Int
          BY <2>3, <4>1 DEF TypeOK
        <4>3. due[c][a] <= mapping[a] /\ (Covers(address[c], a) \/ due[c][a] <= flushed[a])
          BY <4>2 DEF CallsOwe
        <4> QED
          BY <1>1, <1>2, <4>1, <4>2, <4>3
      <3> QED
        BY <3>1, <3>2
    <2> QED
      BY <2>1, <2>2, <2>3 DEF CallsOwe
  <1>9. RoundInProgress'
    <2>1. ASSUME NEW c \in CPUs, lock = c
          PROVE  pc'[c] = pc[c] /\ address'[c] = address[c] /\ required'[c] = required[c] /\ due'[c] = due[c]
      BY <1>1, <1>5, <2>1 DEF TypeOK
    <2>2. ASSUME NEW c \in CPUs, lock = c
          PROVE  Acknowledged(c)' = Acknowledged(c) /\ \A e \in CPUs : Fresh(e, c)' <=> Fresh(e, c)
      BY <1>1, <2>1, <2>2 DEF Acknowledged, Answering, Fresh, handler
    <2>3. ASSUME NEW c \in CPUs, lock = c PROVE Round(c)'
      <3>1. Round(c)
        BY <2>3 DEF RoundInProgress
      <3>2. Answering' = Answering
        BY <1>1 DEF Answering, handler
      <3> QED
        BY <1>1, <2>1, <2>2, <2>3, <3>1, <3>2 DEF Round, shared, handler
    <2> QED
      BY <1>1, <2>3 DEF RoundInProgress
  <1> QED
    BY <1>4, <1>6, <1>7, <1>8, <1>9

(* What a call owes is made flushed: the two ways shootdown() ends.         *)
LEMMA DoneIs ==
    ASSUME TypeOK, CallsOwe, NEW d \in CPUs, pc[d] # "run", Done(d)
    PROVE  /\ flushed' \in [Addresses -> 0 .. MAX_REMAPS]
           /\ \A a \in Addresses :
                 /\ flushed[a] <= flushed'[a] /\ flushed'[a] <= mapping[a]
                 /\ flushed'[a] = flushed[a] \/ flushed'[a] = due[d][a]
  <1>1. flushed' = [a \in Addresses |-> Max(flushed[a], due[d][a])]
    BY DEF Done
  <1>2. ASSUME NEW a \in Addresses
        PROVE  /\ Max(flushed[a], due[d][a]) \in 0 .. MAX_REMAPS
               /\ flushed[a] <= Max(flushed[a], due[d][a])
               /\ Max(flushed[a], due[d][a]) <= mapping[a]
               /\ Max(flushed[a], due[d][a]) \in {flushed[a], due[d][a]}
    <2>1. flushed[a] \in 0 .. MAX_REMAPS /\ due[d][a] \in 0 .. MAX_REMAPS /\ mapping[a] \in 0 .. MAX_REMAPS
      BY DEF TypeOK
    <2>2. due[d][a] <= mapping[a] /\ flushed[a] <= mapping[a]
      BY DEF CallsOwe
    <2> QED
      BY <2>1, <2>2 DEF Max
  <1> QED
    BY <1>1, <1>2

(* Raising flushed keeps what every running call owes bounded.              *)
LEMMA DoneOwes ==
    ASSUME TypeOK, CallsOwe, NEW d \in CPUs, pc[d] # "run", Done(d),
           pc' = [pc EXCEPT ![d] = "run"], UNCHANGED <<mapping, address, required, due>>
    PROVE  CallsOwe'
  <1>1. \A a \in Addresses :
            /\ flushed[a] <= flushed'[a] /\ flushed'[a] <= mapping[a]
            /\ flushed[a] \in Int /\ flushed'[a] \in Int
    BY DoneIs DEF TypeOK
  <1>2. ASSUME NEW c \in CPUs, pc'[c] # "run"
        PROVE  /\ required[c] = Cardinality(CPUs \ {c})
               /\ \A a \in Addresses :
                     due[c][a] <= mapping[a] /\ (Covers(address[c], a) \/ due[c][a] <= flushed'[a])
    <2>1. pc[c] # "run"
      BY <1>2 DEF TypeOK
    <2>2. \A a \in Addresses : due[c][a] \in Int
      BY DEF TypeOK
    <2> QED
      BY <1>1, <2>1, <2>2 DEF CallsOwe
  <1> QED
    BY <1>1, <1>2 DEF CallsOwe

(* Alone, a CPU flushes itself and is done; otherwise it turns interrupts   *)
(* off and spins.                                                           *)
LEMMA FlushAloneOrSpinSound ==
    ASSUME ShootdownSound, NEW d \in CPUs, FlushAloneOrSpin(d)
    PROVE  ShootdownSound'
  <1> USE DEF ShootdownSound
  <1>1. /\ pc[d] = "counted" /\ isr[d] = "none" /\ lock # d
        /\ UNCHANGED <<mapping, lock, shared, pending, handler, caller>>
    BY DEF FlushAloneOrSpin, Executes, LockDiscipline
  <1>2. CASE Cardinality(CPUs) <= 1
    <2>1. flush_local(d, address[d]) /\ Done(d) /\ pc' = [pc EXCEPT ![d] = "run"] /\ UNCHANGED interrupts
      BY <1>2 DEF FlushAloneOrSpin
    <2>2. CPUs = {d}
      <3>1. Cardinality(CPUs \ {d}) = 0
        BY <1>2, OthersCount
      <3>2. CPUs \ {d} = {}
        BY <3>1, OthersCount, FS_EmptySet
      <3> QED
        BY <3>2
    <2>3. lock = None
      BY <1>1, <2>2 DEF TypeOK
    <2>4. TypeOK'
      BY <1>1, <2>1, FlushLocal, DoneIs DEF TypeOK, shared, handler, caller
    <2>5. NoStaleTranslation'
      <3>1. ASSUME NEW a \in Addresses PROVE tlb'[d][a] = -1 \/ tlb'[d][a] >= flushed'[a]
        <4>1. tlb'[d][a] = -1 \/ tlb'[d][a] >= due[d][a]
          BY <1>1, <2>1, FlushIsFresh
        <4>2. tlb'[d][a] = -1 \/ tlb'[d][a] >= flushed[a]
          BY <2>1, FlushLocal DEF NoStaleTranslation
        <4> QED
          BY <1>1, <2>1, <4>1, <4>2, DoneIs
      <3> QED
        BY <2>2, <3>1 DEF NoStaleTranslation
    <2>6. AcknowledgmentsMatch' /\ LockDiscipline'
      BY <1>1, <2>1 DEF AcknowledgmentsMatch, LockDiscipline, Answering, shared, handler, TypeOK
    <2>7. CallsOwe'
      BY <1>1, <2>1, DoneOwes DEF caller
    <2>8. RoundInProgress'
      BY <1>1, <2>3, CpuAssumption DEF RoundInProgress
    <2> QED
      BY <2>4, <2>5, <2>6, <2>7, <2>8
  <1>3. CASE ~(Cardinality(CPUs) <= 1)
    <2>1. /\ interrupts' = [interrupts EXCEPT ![d] = FALSE] /\ pc' = [pc EXCEPT ![d] = "spin"]
          /\ UNCHANGED <<tlb, flushed>>
      BY <1>3 DEF FlushAloneOrSpin
    <2>2. TypeOK'
      BY <1>1, <2>1 DEF TypeOK, shared, handler, caller
    <2>3. NoStaleTranslation' /\ AcknowledgmentsMatch'
      BY <1>1, <2>1 DEF NoStaleTranslation, AcknowledgmentsMatch, shared, handler
    <2>4. LockDiscipline'
      BY <1>1, <2>1 DEF LockDiscipline, Answering, handler, TypeOK
    <2>5. CallsOwe'
      BY <1>1, <2>1 DEF CallsOwe, TypeOK, caller
    <2>6. ASSUME NEW c \in CPUs, lock = c PROVE Round(c)'
      <3>1. Round(c) /\ pc'[c] = pc[c]
        BY <1>1, <2>1, <2>6 DEF RoundInProgress, TypeOK
      <3>2. Answering' = Answering /\ Acknowledged(c)' = Acknowledged(c)
              /\ \A e \in CPUs : Fresh(e, c)' <=> Fresh(e, c)
        BY <1>1, <2>1 DEF Answering, Acknowledged, Fresh, handler, caller
      <3> QED
        BY <1>1, <3>1, <3>2 DEF Round, shared, handler, caller
    <2> QED
      BY <1>1, <2>2, <2>3, <2>4, <2>5, <2>6 DEF RoundInProgress
  <1> QED
    BY <1>2, <1>3

(* The new holder starts a round in which nobody has been asked.            *)
LEMMA TakeLockSound ==
    ASSUME ShootdownSound, NEW d \in CPUs, TakeLock(d)
    PROVE  ShootdownSound'
  <1> USE DEF ShootdownSound
  <1>1. /\ pc[d] = "spin" /\ lock = None /\ lock' = d
        /\ acknowledgments' = 0 /\ required_acknowledgments' = required[d]
        /\ virtual_address' = address[d]
        /\ unsent' = [unsent EXCEPT ![d] = CPUs \ {d}]
        /\ pc' = [pc EXCEPT ![d] = "send"]
        /\ UNCHANGED <<mapping, tlb, interrupts, pending, handler, address, required, due, flushed>>
    BY DEF TakeLock
  <1>2. pending = {} /\ Answering = {} /\ Answering' = {}
    BY <1>1 DEF LockDiscipline, Answering, handler
  <1>3. required[d] = Cardinality(CPUs \ {d})
    BY <1>1 DEF CallsOwe
  <1>4. TypeOK'
    <2>1. 0 \in 0 .. Cardinality(CPUs) - 1 /\ required[d] \in 0 .. Cardinality(CPUs) - 1
      BY <1>3, OthersCount
    <2>2. unsent' \in [CPUs -> SUBSET CPUs] /\ pc' \in [CPUs -> {"run", "counted", "spin", "send", "wait"}]
      BY <1>1 DEF TypeOK
    <2> QED
      BY <1>1, <2>1, <2>2 DEF TypeOK, handler
  <1>5. NoStaleTranslation'
    BY <1>1 DEF NoStaleTranslation
  <1>6. LockDiscipline'
    BY <1>1, <1>2, CpuAssumption DEF LockDiscipline, handler, TypeOK
  <1>7. CallsOwe'
    BY <1>1 DEF CallsOwe, TypeOK
  <1>8. Round(d)'
    <2>1. unsent'[d] = CPUs \ {d} /\ pc'[d] = "send"
      BY <1>1 DEF TypeOK
    <2>2. Acknowledged(d)' = {} /\ Cardinality({}) = 0
      BY <1>1, <2>1, FS_EmptySet DEF Acknowledged
    <2>3. \A e \in CPUs : isr'[e] # "flushed"
      BY <1>2 DEF Answering
    <2> QED
      BY <1>1, <1>2, <2>1, <2>2, <2>3 DEF Round
  <1>9. AcknowledgmentsMatch' /\ RoundInProgress'
    BY <1>1, <1>3, <1>8, OthersCount, CpuAssumption DEF AcknowledgmentsMatch, RoundInProgress
  <1> QED
    BY <1>4, <1>5, <1>6, <1>7, <1>9

(* A CPU moves from those not sent to, to those whose APIC holds the IPI.   *)
LEMMA SendIpiSound ==
    ASSUME ShootdownSound, NEW d \in CPUs, NEW e \in CPUs, SendIpi(d, e)
    PROVE  ShootdownSound'
  <1> USE DEF ShootdownSound
  <1>1. /\ pc[d] = "send" /\ e \in unsent[d] /\ pending' = pending \cup {e}
        /\ unsent' = [unsent EXCEPT ![d] = unsent[d] \ {e}]
        /\ UNCHANGED <<mapping, tlb, lock, shared, interrupts, pc, handler, address, required, due,
                       flushed>>
    BY DEF SendIpi
  <1>2. lock = d /\ lock # None /\ Round(d)
    BY <1>1, CpuAssumption DEF LockDiscipline, RoundInProgress
  <1>3. Answering' = Answering
    BY <1>1 DEF Answering, handler
  <1>4. TypeOK'
    BY <1>1 DEF TypeOK, shared, handler
  <1>5. NoStaleTranslation' /\ AcknowledgmentsMatch' /\ LockDiscipline' /\ CallsOwe'
    BY <1>1, <1>2 DEF NoStaleTranslation, AcknowledgmentsMatch, LockDiscipline, CallsOwe, Answering,
                      shared, handler
  <1>6. Round(d)'
    <2>1. unsent'[d] = unsent[d] \ {e}
      BY <1>1 DEF TypeOK
    <2>2. Acknowledged(d)' = Acknowledged(d)
      BY <1>1, <1>3, <2>1 DEF Acknowledged
    <2>3. \A f \in CPUs : Fresh(f, d)' <=> Fresh(f, d)
      BY <1>1 DEF Fresh
    <2>4. e # d
      BY <1>1, <1>2 DEF Round
    <2> QED
      BY <1>1, <1>2, <1>3, <2>1, <2>2, <2>3, <2>4 DEF Round, shared, handler
  <1>7. RoundInProgress'
    BY <1>1, <1>2, <1>6 DEF RoundInProgress
  <1> QED
    BY <1>4, <1>5, <1>7

(* The holder has asked everyone, and flushes itself.                       *)
LEMMA FlushSelfSound ==
    ASSUME ShootdownSound, NEW d \in CPUs, FlushSelf(d)
    PROVE  ShootdownSound'
  <1> USE DEF ShootdownSound
  <1>1. /\ pc[d] = "send" /\ unsent[d] = {} /\ flush_local(d, address[d])
        /\ pc' = [pc EXCEPT ![d] = "wait"]
        /\ UNCHANGED <<mapping, lock, shared, interrupts, pending, handler, caller, flushed>>
    BY DEF FlushSelf
  <1>2. lock = d /\ lock # None /\ Round(d)
    BY <1>1, CpuAssumption DEF LockDiscipline, RoundInProgress
  <1>3. tlb' \in [CPUs -> [Addresses -> -1 .. MAX_REMAPS]]
          /\ \A c \in CPUs, a \in Addresses :
                tlb'[c][a] = IF c = d /\ Covers(address[d], a) THEN -1 ELSE tlb[c][a]
    BY <1>1, FlushLocal
  <1>4. TypeOK'
    BY <1>1, <1>3 DEF TypeOK, shared, handler, caller
  <1>5. NoStaleTranslation'
    BY <1>1, <1>3 DEF NoStaleTranslation
  <1>6. AcknowledgmentsMatch' /\ LockDiscipline'
    BY <1>1, <1>2 DEF AcknowledgmentsMatch, LockDiscipline, Answering, shared, handler, TypeOK
  <1>7. CallsOwe'
    BY <1>1 DEF CallsOwe, TypeOK, caller
  <1>8. Round(d)'
    <2>1. Answering' = Answering /\ Acknowledged(d)' = Acknowledged(d)
      BY <1>1 DEF Answering, Acknowledged, handler, caller
    <2>2. \A c \in CPUs : Fresh(c, d) => Fresh(c, d)'
      BY <1>1, <1>3 DEF Fresh, caller
    <2>3. Fresh(d, d)'
      BY <1>1, FlushIsFresh DEF Fresh, caller
    <2> QED
      BY <1>1, <1>2, <2>1, <2>2, <2>3 DEF Round, shared, handler, caller
  <1>9. RoundInProgress'
    BY <1>1, <1>2, <1>8 DEF RoundInProgress
  <1> QED
    BY <1>4, <1>5, <1>6, <1>7, <1>9

(* Everyone has acknowledged: nobody is pending or answering, and everyone  *)
(* is rid of what the call owes.                                            *)
LEMMA ReturnSound ==
    ASSUME ShootdownSound, NEW d \in CPUs, Return(d)
    PROVE  ShootdownSound'
  <1> USE DEF ShootdownSound
  <1>1. /\ pc[d] = "wait" /\ acknowledgments >= required_acknowledgments
        /\ lock' = None /\ interrupts' = [interrupts EXCEPT ![d] = TRUE]
        /\ Done(d) /\ pc' = [pc EXCEPT ![d] = "run"]
        /\ UNCHANGED <<mapping, tlb, shared, pending, handler, caller>>
    BY DEF Return
  <1>2. lock = d /\ lock # None /\ Round(d)
    BY <1>1, CpuAssumption DEF LockDiscipline, RoundInProgress
  <1>3. Acknowledged(d) = CPUs \ {d}
    <2>1. required_acknowledgments = Cardinality(CPUs \ {d}) /\ acknowledgments = Cardinality(Acknowledged(d))
      BY <1>1, <1>2 DEF Round, CallsOwe
    <2>2. Acknowledged(d) \in SUBSET (CPUs \ {d})
      BY DEF Acknowledged
    <2> QED
      BY <1>1, <2>1, <2>2, AcknowledgedCount
  <1>4. pending = {} /\ Answering = {} /\ Answering' = {}
    <2>1. isr[d] = "none"
      BY <1>1 DEF LockDiscipline
    <2> QED
      BY <1>1, <1>2, <1>3, <2>1 DEF Acknowledged, Answering, Round, TypeOK, handler
  <1>5. TypeOK'
    BY <1>1, DoneIs DEF TypeOK, shared, handler, caller
  <1>6. NoStaleTranslation'
    <2>1. \A c \in CPUs : Fresh(c, d)
      BY <1>1, <1>2, <1>3 DEF Round
    <2> QED
      BY <1>1, <2>1, DoneIs DEF Fresh, NoStaleTranslation
  <1>7. LockDiscipline'
    BY <1>1, <1>2, <1>4, CpuAssumption DEF LockDiscipline, TypeOK, handler
  <1>8. AcknowledgmentsMatch'
    <2>1. \A c \in CPUs : isr'[c] \in {"none", "acknowledged"}
      BY <1>4, <1>5 DEF Answering, TypeOK
    <2> QED
      BY <1>1, <1>4, <2>1 DEF AcknowledgmentsMatch, shared
  <1>9. CallsOwe'
    BY <1>1, DoneOwes DEF caller
  <1>10. RoundInProgress'
    BY <1>1, CpuAssumption DEF RoundInProgress
  <1> QED
    BY <1>5, <1>6, <1>7, <1>8, <1>9, <1>10

(* The handler takes the IPI, which is that of the call in progress.        *)
LEMMA IsrEnterSound ==
    ASSUME ShootdownSound, NEW d \in CPUs, IsrEnter(d)
    PROVE  ShootdownSound'
  <1> USE DEF ShootdownSound
  <1>1. /\ d \in pending /\ interrupts[d] /\ isr[d] = "none" /\ pending' = pending \ {d}
        /\ interrupts' = [interrupts EXCEPT ![d] = FALSE]
        /\ isr_address' = [isr_address EXCEPT ![d] = virtual_address]
        /\ isr' = [isr EXCEPT ![d] = "loaded"]
        /\ UNCHANGED <<mapping, tlb, lock, shared, pc, caller, flushed>>
    BY DEF IsrEnter
  <1>2. lock # None /\ lock \in CPUs /\ Round(lock)
    BY <1>1 DEF LockDiscipline, RoundInProgress, TypeOK
  <1>3. Answering' = Answering \cup {d}
    BY <1>1 DEF Answering, TypeOK
  <1>4. TypeOK'
    BY <1>1 DEF TypeOK, shared, caller
  <1>5. NoStaleTranslation' /\ CallsOwe'
    BY <1>1 DEF NoStaleTranslation, CallsOwe, caller
  <1>6. AcknowledgmentsMatch' /\ LockDiscipline'
    BY <1>1, <1>2 DEF AcknowledgmentsMatch, LockDiscipline, shared, TypeOK
  <1>7. Round(lock)'
    <2>1. Acknowledged(lock)' = Acknowledged(lock)
      BY <1>1, <1>3 DEF Acknowledged, caller
    <2>2. \A c \in CPUs : Fresh(c, lock)' <=> Fresh(c, lock)
      BY <1>1 DEF Fresh, caller
    <2>3. \A c \in CPUs : isr'[c] = "flushed" => isr[c] = "flushed"
      BY <1>1 DEF TypeOK
    <2>4. \A c \in CPUs : isr_address'[c] = IF c = d THEN virtual_address ELSE isr_address[c]
      BY <1>1 DEF TypeOK
    <2>5. Answering \subseteq CPUs
      BY DEF Answering
    <2> QED
      BY <1>1, <1>2, <1>3, <2>1, <2>2, <2>3, <2>4, <2>5 DEF Round, shared, caller
  <1>8. RoundInProgress'
    BY <1>1, <1>7 DEF RoundInProgress
  <1> QED
    BY <1>4, <1>5, <1>6, <1>8

(* The handler flushes the address of the call in progress.                 *)
LEMMA IsrFlushSound ==
    ASSUME ShootdownSound, NEW d \in CPUs, IsrFlush(d)
    PROVE  ShootdownSound'
  <1> USE DEF ShootdownSound
  <1>1. /\ isr[d] = "loaded" /\ flush_local(d, isr_address[d])
        /\ isr' = [isr EXCEPT ![d] = "flushed"]
        /\ UNCHANGED <<mapping, lock, shared, interrupts, pending, pc, isr_address, caller, flushed>>
    BY DEF IsrFlush
  <1>2. d \in Answering /\ lock # None /\ lock \in CPUs /\ Round(lock) /\ pc[lock] # "run"
    BY <1>1 DEF Answering, LockDiscipline, RoundInProgress, TypeOK
  <1>3. tlb' \in [CPUs -> [Addresses -> -1 .. MAX_REMAPS]]
          /\ \A c \in CPUs, a \in Addresses :
                tlb'[c][a] = IF c = d /\ Covers(isr_address[d], a) THEN -1 ELSE tlb[c][a]
    BY <1>1, FlushLocal
  <1>4. Answering' = Answering
    BY <1>1 DEF Answering, TypeOK
  <1>5. TypeOK'
    BY <1>1, <1>3 DEF TypeOK, shared, caller
  <1>6. NoStaleTranslation'
    BY <1>1, <1>3 DEF NoStaleTranslation
  <1>7. AcknowledgmentsMatch' /\ LockDiscipline' /\ CallsOwe'
    BY <1>1, <1>2, <1>4 DEF AcknowledgmentsMatch, LockDiscipline, CallsOwe, shared, caller, TypeOK
  <1>8. Round(lock)'
    <2>1. Acknowledged(lock)' = Acknowledged(lock)
      BY <1>1, <1>4 DEF Acknowledged, caller
    <2>2. \A c \in CPUs : Fresh(c, lock) => Fresh(c, lock)'
      BY <1>1, <1>3 DEF Fresh, caller
    <2>3. isr_address[d] = address[lock]
      BY <1>2 DEF Round
    <2>4. Fresh(d, lock)'
      BY <1>1, <1>2, <2>3, FlushIsFresh DEF Fresh, caller
    <2>5. \A c \in CPUs : isr'[c] = "flushed" => isr[c] = "flushed" \/ c = d
      BY <1>1 DEF TypeOK
    <2> QED
      BY <1>1, <1>2, <1>4, <2>1, <2>2, <2>4, <2>5 DEF Round, shared, caller
  <1>9. RoundInProgress'
    BY <1>1, <1>8 DEF RoundInProgress
  <1> QED
    BY <1>5, <1>6, <1>7, <1>9

(* A CPU that has flushed joins those counted, as one more.                 *)
LEMMA IsrAcknowledgeSound ==
    ASSUME ShootdownSound, NEW d \in CPUs, IsrAcknowledge(d)
    PROVE  ShootdownSound'
  <1> USE DEF ShootdownSound
  <1>1. /\ isr[d] = "flushed" /\ acknowledgments' = acknowledgments + 1
        /\ isr' = [isr EXCEPT ![d] = "acknowledged"]
        /\ UNCHANGED <<mapping, tlb, lock, virtual_address, required_acknowledgments, interrupts,
                       pending, pc, isr_address, caller, flushed>>
    BY DEF IsrAcknowledge
  <1>2. d \in Answering /\ lock # None /\ lock \in CPUs /\ Round(lock) /\ lock # d
    BY <1>1 DEF Answering, LockDiscipline, RoundInProgress, TypeOK
  <1>3. Answering' = Answering \ {d}
    BY <1>1 DEF Answering, TypeOK
  <1>4. NoStaleTranslation' /\ LockDiscipline' /\ CallsOwe'
    BY <1>1, <1>2 DEF NoStaleTranslation, LockDiscipline, CallsOwe, caller, TypeOK
  <1>5. Round(lock)'
    <2>1. Acknowledged(lock)' = Acknowledged(lock) \cup {d} /\ d \notin Acknowledged(lock)
      BY <1>1, <1>2, <1>3 DEF Acknowledged, Round, caller
    <2>2. Cardinality(Acknowledged(lock)') = Cardinality(Acknowledged(lock)) + 1
      <3>1. IsFiniteSet(Acknowledged(lock))
        BY <1>2, AcknowledgedCount DEF Acknowledged
      <3> QED
        BY <2>1, <3>1, FS_AddElement
    <2>3. \A c \in CPUs : Fresh(c, lock)' <=> Fresh(c, lock)
      BY <1>1 DEF Fresh, caller
    <2>4. \A c \in CPUs : isr'[c] = "flushed" => isr[c] = "flushed"
      BY <1>1 DEF TypeOK
    <2>5. d \in Acknowledged(lock)' => Fresh(d, lock)
      BY <1>1, <1>2 DEF Round
    <2> QED
      BY <1>1, <1>2, <1>3, <2>1, <2>2, <2>3, <2>4, <2>5 DEF Round, caller
  <1>6. RoundInProgress'
    BY <1>1, <1>5 DEF RoundInProgress
  <1>7. (AcknowledgmentsMatch /\ acknowledgments \in 0 .. Cardinality(CPUs) - 1)'
    <2>1. (lock \in CPUs /\ LockDiscipline /\ CallsOwe /\ RoundInProgress)'
      BY <1>1, <1>2, <1>4, <1>6
    <2> QED
      BY <2>1, RoundCounts, PTL
  <1>8. TypeOK'
    BY <1>1, <1>7 DEF TypeOK, caller
  <1> QED
    BY <1>4, <1>6, <1>7, <1>8

(* The handler leaves.                                                      *)
LEMMA IsrReturnSound ==
    ASSUME ShootdownSound, NEW d \in CPUs, IsrReturn(d)
    PROVE  ShootdownSound'
  <1> USE DEF ShootdownSound
  <1>1. /\ isr[d] = "acknowledged" /\ interrupts' = [interrupts EXCEPT ![d] = TRUE]
        /\ isr' = [isr EXCEPT ![d] = "none"]
        /\ UNCHANGED <<mapping, tlb, lock, shared, pending, pc, isr_address, caller, flushed>>
    BY DEF IsrReturn
  <1>2. Answering' = Answering
    BY <1>1 DEF Answering, TypeOK
  <1>3. TypeOK'
    BY <1>1 DEF TypeOK, shared, caller
  <1>4. NoStaleTranslation' /\ AcknowledgmentsMatch' /\ CallsOwe'
    BY <1>1 DEF NoStaleTranslation, AcknowledgmentsMatch, CallsOwe, shared, caller, TypeOK
  <1>5. LockDiscipline'
    BY <1>1, <1>2 DEF LockDiscipline, TypeOK
  <1>6. ASSUME NEW c \in CPUs, lock = c PROVE Round(c)'
    <2>1. Round(c)
      BY <1>6 DEF RoundInProgress
    <2>2. Acknowledged(c)' = Acknowledged(c) /\ \A e \in CPUs : Fresh(e, c)' <=> Fresh(e, c)
      BY <1>1, <1>2 DEF Acknowledged, Fresh, caller
    <2>3. \A e \in CPUs : isr'[e] = "flushed" => isr[e] = "flushed"
      BY <1>1 DEF TypeOK
    <2> QED
      BY <1>1, <1>2, <2>1, <2>2, <2>3 DEF Round, shared, caller
  <1> QED
    BY <1>1, <1>3, <1>4, <1>5, <1>6 DEF RoundInProgress

-----------------------------------------------------------------------------
(* Every step of every CPU and of the hardware.                             *)
LEMMA NextSound == ShootdownSound /\ [Next]_vars => ShootdownSound'
  <1> SUFFICES ASSUME ShootdownSound, [Next]_vars PROVE ShootdownSound'
    OBVIOUS
  <1>1. ASSUME NEW c \in CPUs, Shootdown(c) PROVE ShootdownSound'
    BY <1>1, FlushAloneOrSpinSound, TakeLockSound, FlushSelfSound, ReturnSound, SendIpiSound
       DEF Shootdown
  <1>2. ASSUME NEW c \in CPUs, Isr(c) PROVE ShootdownSound'
    BY <1>2, IsrEnterSound, IsrFlushSound, IsrAcknowledgeSound, IsrReturnSound DEF Isr
  <1>3. ASSUME NEW c \in CPUs, Disable(c) \/ Enable(c) PROVE ShootdownSound'
    BY <1>3, InterruptSwitchSound
  <1>4. ASSUME NEW c \in CPUs, NEW a \in Addresses, Walk(c, a) PROVE ShootdownSound'
    BY <1>4, WalkSound
  <1>5. ASSUME NEW c \in CPUs, NEW where \in Addresses \cup {FLUSH_ALL}, Call(c, where)
        PROVE  ShootdownSound'
    BY <1>5, CallSound
  <1>6. CASE UNCHANGED vars
    BY <1>6, ZenonT(40) DEF vars, shared, handler, caller, ShootdownSound, TypeOK, NoStaleTranslation,
                AcknowledgmentsMatch, LockDiscipline, CallsOwe, RoundInProgress, Round,
                Acknowledged, Answering, Fresh
  <1> QED
    BY <1>1, <1>2, <1>3, <1>4, <1>5, <1>6 DEF Next

(* tlb::shootdown keeps its promise for any number of CPUs, callers and     *)
(* addresses: once it has returned no CPU translates through an entry it    *)
(* was to flush, and no acknowledgment is left for a later call.            *)
THEOREM ShootdownIsSound == Spec => []ShootdownSound
  BY InitSound, NextSound, PTL DEF Spec

(* The part of it that callers of shootdown() rely on.                      *)
THEOREM NoStaleAfterShootdown == Spec => []NoStaleTranslation
  <1>1. ShootdownSound => NoStaleTranslation
    BY DEF ShootdownSound
  <1> QED
    BY <1>1, ShootdownIsSound, PTL
=============================================================================
