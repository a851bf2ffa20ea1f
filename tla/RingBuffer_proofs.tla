--------------------------- MODULE RingBuffer_proofs ---------------------------
(***************************************************************************)
(* Proofs about RingBuffer, for every set of producers, every capacity and *)
(* every number of writes.                                                 *)
(*                                                                         *)
(* Inv is the inductive invariant.  It counts the items: Stored of them    *)
(* were put into the buffer, Consumed of them were taken out, and both     *)
(* semaphores are a function of these two numbers and of the threads that  *)
(* are between two steps (PermitInv).  Hence a thread inside a slot is     *)
(* there alone, the slots from out to in hold the items Consumed + 1 to    *)
(* Stored, and all others are empty (SlotInv), so that what the writer     *)
(* takes is next in order (OrderInv).  The counting holds until the        *)
(* destructor releases a permit without an item; no put is in progress     *)
(* then and nothing is applied any more (StopInv).                         *)
(***************************************************************************)
EXTENDS RingBuffer, FiniteSetTheorems, SequenceTheorems, TLAPS

(* How many producers have a number and not yet stored their item, and how *)
(* many have stored it and not yet released the permit for it.             *)
Storing == IF \E p \in Producers : producer[p] = "store" THEN 1 ELSE 0
Releasing == IF \E p \in Producers : producer[p] = "release" THEN 1 ELSE 0

(* How many items were put into a slot.                                    *)
Stored == sequence_number - 1 - Storing

(* How many were taken out.  The container of the last round, already      *)
(* applied, is still there when the writer is at the head of its loop.     *)
Consumed == Len(applied) + (IF writer = "loop" THEN 0 ELSE Len(container))

(* How many slots the writer has emptied and not yet given back.           *)
Owed == IF writer \in {"loop", "returned"} THEN 0 ELSE Len(container)

(* The producers that have a permit for a slot and not yet filled it.      *)
HoldingSlot == {p \in Producers : producer[p] \in {"lock", "number", "store"}}

(* The producers whose item has no number yet.                             *)
Unnumbered == {p \in Producers : producer[p] \in {"acquire", "lock", "number"}}

(* At most one producer is between lock and unlock of producer_mutex, and  *)
(* its item has the latest number.                                         *)
MutexInv ==
  /\ \A p, q \in Producers : HoldsProducerMutex(p) /\ HoldsProducerMutex(q) => p = q
  /\ \A p \in Producers : producer[p] = "store" => sequence_num[p] = sequence_number - 1

(* Every call that has begun has its number or will take one.              *)
CallInv ==
  /\ IsFiniteSet(Unnumbered)
  /\ sequence_number - 1 + Cardinality(Unnumbered) = calls

(* The destructor has begun iff the writer is told to stop; then no put is *)
(* in progress.                                                            *)
StopInv ==
  /\ run_writer <=> main = "running"
  /\ stop_buffer => ~run_writer
  /\ writer = "stopped" => ~run_writer
  /\ ~run_writer => \A p \in Producers : producer[p] = "idle"

(* No permit is lost or made up.                                           *)
PermitInv ==
  run_writer =>
    /\ full_slots + Releasing + (IF writer \in {"check", "take"} THEN 1 ELSE 0)
         = Stored - Consumed
    /\ IsFiniteSet(HoldingSlot)
    /\ empty_slots + Cardinality(HoldingSlot) + (Stored - Consumed) + Owed = N

Wrapped(i) == IF i < N THEN i ELSE i - N

(* The slot of item k, for the items that were not taken out.              *)
SlotOf(k) == Wrapped(out + (k - Consumed - 1))

(* The items that are in the buffer, and where they are.                   *)
SlotInv ==
  run_writer =>
    /\ in = SlotOf(Stored + 1)
    /\ \A k \in (Consumed + 1)..Stored : buffer[SlotOf(k)] = k
    /\ \A s \in Slots : buffer[s] # 0 =>
         buffer[s] \in (Consumed + 1)..Stored /\ SlotOf(buffer[s]) = s

(* What the writer has taken follows what it has applied, and it returns   *)
(* from consume with something.                                            *)
OrderInv ==
  /\ AppliedInOrder
  /\ run_writer =>
       /\ writer # "loop" => \A i \in 1..Len(container) : container[i] = Len(applied) + i
       /\ writer \in {"acquire", "check"} => container = <<>>
       /\ writer \in {"more", "give_back", "returned"} => container # <<>>

Inv == TypeOK /\ MutexInv /\ CallInv /\ StopInv /\ PermitInv /\ SlotInv /\ OrderInv

-----------------------------------------------------------------------------
(* How a step of a producer changes the numbers that Inv is about.         *)

LEMMA BeginPutCounts ==
  ASSUME TypeOK, NEW p \in Producers, BeginPut(p)
  PROVE  /\ p \notin Unnumbered /\ Unnumbered' = Unnumbered \union {p}
         /\ HoldingSlot' = HoldingSlot
         /\ Storing' = Storing /\ Releasing' = Releasing
  BY DEF BeginPut, ProducerAt, TypeOK, Unnumbered, HoldingSlot, Storing, Releasing

LEMMA AcquireEmptyCounts ==
  ASSUME TypeOK, NEW p \in Producers, AcquireEmpty(p)
  PROVE  /\ Unnumbered' = Unnumbered
         /\ p \notin HoldingSlot /\ HoldingSlot' = HoldingSlot \union {p}
         /\ Storing' = Storing /\ Releasing' = Releasing
  BY DEF AcquireEmpty, ProducerAt, TypeOK, Unnumbered, HoldingSlot, Storing, Releasing

LEMMA LockProducerCounts ==
  ASSUME TypeOK, NEW p \in Producers, LockProducer(p)
  PROVE  /\ Unnumbered' = Unnumbered /\ HoldingSlot' = HoldingSlot
         /\ Storing' = Storing /\ Releasing' = Releasing
  BY DEF LockProducer, ProducerAt, TypeOK, Unnumbered, HoldingSlot, Storing, Releasing

LEMMA NumberItemCounts ==
  ASSUME TypeOK, MutexInv, NEW p \in Producers, NumberItem(p)
  PROVE  /\ p \in Unnumbered /\ Unnumbered' = Unnumbered \ {p}
         /\ HoldingSlot' = HoldingSlot
         /\ Storing = 0 /\ Storing' = 1 /\ Releasing' = Releasing
  BY DEF NumberItem, ProducerAt, TypeOK, MutexInv, HoldsProducerMutex, Unnumbered,
    HoldingSlot, Storing, Releasing

LEMMA StoreItemCounts ==
  ASSUME TypeOK, MutexInv, NEW p \in Producers, StoreItem(p)
  PROVE  /\ Unnumbered' = Unnumbered
         /\ p \in HoldingSlot /\ HoldingSlot' = HoldingSlot \ {p}
         /\ Storing = 1 /\ Storing' = 0 /\ Releasing = 0 /\ Releasing' = 1
  BY DEF StoreItem, ProducerAt, TypeOK, MutexInv, HoldsProducerMutex, Unnumbered,
    HoldingSlot, Storing, Releasing

LEMMA ReleaseFullCounts ==
  ASSUME TypeOK, MutexInv, NEW p \in Producers, ReleaseFull(p)
  PROVE  /\ Unnumbered' = Unnumbered /\ HoldingSlot' = HoldingSlot
         /\ Storing' = Storing /\ Releasing = 1 /\ Releasing' = 0
  BY DEF ReleaseFull, ProducerAt, TypeOK, MutexInv, HoldsProducerMutex, Unnumbered,
    HoldingSlot, Storing, Releasing

(* The other threads change none of them.                                  *)
LEMMA OtherCounts ==
  ASSUME UNCHANGED <<producer, sequence_number>>
  PROVE  /\ Unnumbered' = Unnumbered /\ HoldingSlot' = HoldingSlot
         /\ Storing' = Storing /\ Releasing' = Releasing /\ Stored' = Stored
  BY DEF Unnumbered, HoldingSlot, Storing, Releasing, Stored

-----------------------------------------------------------------------------
(* What a step of each thread leaves alone.                                *)

(* A producer leaves the writer, the destructor and out alone.             *)
LEMMA ProducerFrame ==
  ASSUME NEW p \in Producers, BeginPut(p) \/ Producer(p)
  PROVE  UNCHANGED <<writerVars, mainVars, out>>
  BY DEF BeginPut, Producer, AcquireEmpty, LockProducer, NumberItem, StoreItem,
    ReleaseFull, slotVars

(* The writer leaves the producers, the destructor and in alone.           *)
LEMMA WriterFrame == Writer => UNCHANGED <<producerVars, mainVars, in>>
  BY DEF Writer, WriterLoop, AcquireFull, CheckStop, TakeItem, TryMore, GiveBack,
    ApplyContainer, slotVars

-----------------------------------------------------------------------------
(* The parts of Inv hold initially.                                        *)
LEMMA InitInv ==
  ASSUME ConstantsAssumption, Init
  PROVE  Inv
<1>1. TypeOK
  BY DEF Init, ConstantsAssumption, TypeOK, Slots
<1>2. Unnumbered = {} /\ HoldingSlot = {} /\ Storing = 0 /\ Releasing = 0
  BY DEF Init, Unnumbered, HoldingSlot, Storing, Releasing
<1>3. /\ IsFiniteSet(Unnumbered) /\ Cardinality(Unnumbered) = 0
      /\ IsFiniteSet(HoldingSlot) /\ Cardinality(HoldingSlot) = 0
  BY <1>2, FS_EmptySet
<1>4. Stored = 0 /\ Consumed = 0 /\ Owed = 0
  <2>1. sequence_number = 1 /\ writer = "loop" /\ applied = <<>>
    BY DEF Init
  <2>2. Len(applied) = 0
    BY <2>1
  <2>3. Stored = 0
    BY <1>2, <2>1 DEF Stored
  <2>4. QED
    BY <2>1, <2>2, <2>3 DEF Consumed, Owed
<1>5. MutexInv /\ CallInv /\ StopInv
  BY <1>3 DEF Init, MutexInv, CallInv, StopInv, HoldsProducerMutex
<1>6. PermitInv
  BY <1>2, <1>3, <1>4 DEF Init, ConstantsAssumption, PermitInv
<1>7. SlotInv
  BY <1>4 DEF Init, ConstantsAssumption, SlotInv, SlotOf, Wrapped, Slots
<1>8. OrderInv
  BY DEF Init, OrderInv, AppliedInOrder
<1>9. QED
  BY <1>1, <1>5, <1>6, <1>7, <1>8 DEF Inv

-----------------------------------------------------------------------------
(* Calls and mutex.                                                        *)

(* A producer that takes a number is one of the calls that have none yet.  *)
LEMMA NumberBound ==
  ASSUME TypeOK, CallInv, NEW p \in Producers, producer[p] \in {"acquire", "lock", "number"}
  PROVE  sequence_number <= calls
<1>1. p \in Unnumbered
  BY DEF Unnumbered
<1>2. Cardinality(Unnumbered) \in Nat /\ Cardinality(Unnumbered) # 0
  BY <1>1, FS_CardinalityType, FS_EmptySet DEF CallInv
<1>3. QED
  BY <1>2 DEF CallInv, TypeOK

(* CallInv is kept: a call begins without a number, and takes one.         *)
LEMMA CallStep ==
  ASSUME TypeOK, MutexInv, CallInv, Next
  PROVE  CallInv'
<1>1. ASSUME NEW p \in Producers, BeginPut(p)
      PROVE  CallInv'
  <2>1. calls' = calls + 1 /\ UNCHANGED sequence_number
    BY <1>1 DEF BeginPut
  <2>2. IsFiniteSet(Unnumbered') /\ Cardinality(Unnumbered') = Cardinality(Unnumbered) + 1
    BY <1>1, BeginPutCounts, FS_AddElement DEF CallInv
  <2>3. Cardinality(Unnumbered) \in Nat
    BY FS_CardinalityType DEF CallInv
  <2>4. QED
    BY <2>1, <2>2, <2>3 DEF CallInv, TypeOK
<1>2. ASSUME NEW p \in Producers, NumberItem(p)
      PROVE  CallInv'
  <2>1. UNCHANGED calls /\ sequence_number' = sequence_number + 1
    BY <1>2 DEF NumberItem
  <2>2. IsFiniteSet(Unnumbered') /\ Cardinality(Unnumbered') = Cardinality(Unnumbered) - 1
    BY <1>2, NumberItemCounts, FS_RemoveElement DEF CallInv
  <2>3. Cardinality(Unnumbered) \in Nat
    BY FS_CardinalityType DEF CallInv
  <2>4. QED
    BY <2>1, <2>2, <2>3 DEF CallInv, TypeOK
<1>3. ASSUME NEW p \in Producers,
             AcquireEmpty(p) \/ LockProducer(p) \/ StoreItem(p) \/ ReleaseFull(p)
      PROVE  CallInv'
  <2>1. UNCHANGED <<calls, sequence_number>>
    BY <1>3 DEF AcquireEmpty, LockProducer, StoreItem, ReleaseFull
  <2>2. Unnumbered' = Unnumbered
    BY <1>3, AcquireEmptyCounts, LockProducerCounts, StoreItemCounts, ReleaseFullCounts
  <2>3. QED
    BY <2>1, <2>2 DEF CallInv
<1>4. CASE UNCHANGED producerVars
  BY <1>4, OtherCounts DEF producerVars, CallInv
<1>5. QED
  BY <1>1, <1>2, <1>3, <1>4, WriterFrame DEF Next, Producer, Stop, Terminated, vars

(* MutexInv is kept: the mutex is taken only when no one has it.           *)
LEMMA MutexStep ==
  ASSUME TypeOK, MutexInv, Next
  PROVE  MutexInv'
<1>1. ASSUME NEW p \in Producers, BeginPut(p)
      PROVE  MutexInv'
  BY <1>1 DEF BeginPut, ProducerAt, MutexInv, HoldsProducerMutex, TypeOK
<1>2. ASSUME NEW p \in Producers, AcquireEmpty(p)
      PROVE  MutexInv'
  BY <1>2 DEF AcquireEmpty, ProducerAt, MutexInv, HoldsProducerMutex, TypeOK
<1>3. ASSUME NEW p \in Producers, LockProducer(p)
      PROVE  MutexInv'
  BY <1>3 DEF LockProducer, ProducerAt, MutexInv, HoldsProducerMutex, TypeOK
<1>4. ASSUME NEW p \in Producers, NumberItem(p)
      PROVE  MutexInv'
  BY <1>4 DEF NumberItem, ProducerAt, MutexInv, HoldsProducerMutex, TypeOK
<1>5. ASSUME NEW p \in Producers, StoreItem(p)
      PROVE  MutexInv'
  BY <1>5 DEF StoreItem, ProducerAt, MutexInv, HoldsProducerMutex, TypeOK
<1>6. ASSUME NEW p \in Producers, ReleaseFull(p)
      PROVE  MutexInv'
  BY <1>6 DEF ReleaseFull, ProducerAt, MutexInv, HoldsProducerMutex, TypeOK
<1>7. CASE UNCHANGED producerVars
  BY <1>7 DEF producerVars, MutexInv, HoldsProducerMutex
<1>8. QED
  BY <1>1, <1>2, <1>3, <1>4, <1>5, <1>6, <1>7, WriterFrame
    DEF Next, Producer, Stop, Terminated, vars

(* StopInv is kept: the destructor begins when no put is in progress, and  *)
(* none begins after it.                                                   *)
LEMMA StopStep ==
  ASSUME TypeOK, StopInv, Next
  PROVE  StopInv'
<1>1. ASSUME NEW p \in Producers, BeginPut(p) \/ Producer(p)
      PROVE  StopInv'
  <2>1. UNCHANGED <<writer, main, run_writer, stop_buffer>> /\ run_writer
    BY <1>1, ProducerFrame DEF BeginPut, Producer, AcquireEmpty, LockProducer, NumberItem,
      StoreItem, ReleaseFull, ProducerAt, StopInv, writerVars, mainVars
  <2>2. QED
    BY <2>1 DEF StopInv
<1>2. CASE Writer
  BY <1>2, WriterFrame DEF Writer, WriterLoop, AcquireFull, CheckStop, TakeItem, TryMore,
    GiveBack, ApplyContainer, WriterAt, StopInv, producerVars, mainVars, TypeOK
<1>3. CASE Stop
  BY <1>3 DEF Stop, StopWriter, MainAt, StopInv, producerVars, writerVars, TypeOK
<1>4. CASE Terminated
  BY <1>4 DEF Terminated, vars, StopInv, producerVars, writerVars, mainVars
<1>5. QED
  BY <1>1, <1>2, <1>3, <1>4 DEF Next

-----------------------------------------------------------------------------
(* Types.                                                                  *)

LEMMA AdvanceType ==
  ASSUME ConstantsAssumption, NEW i \in Slots
  PROVE  Advance(i) \in Slots
  BY DEF ConstantsAssumption, Slots, Advance

(* Every variable keeps its type; the numbers stay within the calls.       *)
LEMMA TypeStep ==
  ASSUME ConstantsAssumption, TypeOK, CallInv, Next
  PROVE  TypeOK'
<1> USE DEF TypeOK
<1>1. ASSUME NEW p \in Producers, BeginPut(p)
      PROVE  TypeOK'
  BY <1>1 DEF BeginPut, ProducerAt, slotVars, writerVars, mainVars, ConstantsAssumption
<1>2. ASSUME NEW p \in Producers, AcquireEmpty(p)
      PROVE  TypeOK'
  BY <1>2 DEF AcquireEmpty, ProducerAt, slotVars, writerVars, mainVars
<1>3. ASSUME NEW p \in Producers, LockProducer(p)
      PROVE  TypeOK'
  BY <1>3 DEF LockProducer, ProducerAt, slotVars, writerVars, mainVars
<1>4. ASSUME NEW p \in Producers, NumberItem(p)
      PROVE  TypeOK'
  <2>1. sequence_number \in 1..MaxWrites
    BY <1>4, NumberBound DEF NumberItem, ProducerAt, ConstantsAssumption
  <2>2. QED
    BY <1>4, <2>1 DEF NumberItem, ProducerAt, slotVars, writerVars, mainVars,
      ConstantsAssumption
<1>5. ASSUME NEW p \in Producers, StoreItem(p)
      PROVE  TypeOK'
  BY <1>5, AdvanceType DEF StoreItem, ProducerAt, writerVars, mainVars
<1>6. ASSUME NEW p \in Producers, ReleaseFull(p)
      PROVE  TypeOK'
  BY <1>6 DEF ReleaseFull, ProducerAt, slotVars, writerVars, mainVars
<1>7. CASE WriterLoop
  BY <1>7 DEF WriterLoop, WriterAt, slotVars, producerVars, mainVars
<1>8. CASE AcquireFull
  BY <1>8 DEF AcquireFull, WriterAt, slotVars, producerVars, mainVars
<1>9. CASE CheckStop
  BY <1>9 DEF CheckStop, WriterAt, slotVars, producerVars, mainVars
<1>10. CASE TakeItem
  <2>1. buffer[out] \in 0..MaxWrites /\ 0 \in 0..MaxWrites /\ Advance(out) \in Slots
    BY AdvanceType DEF ConstantsAssumption
  <2>2. container' \in Seq(0..MaxWrites)
    BY <1>10, <2>1, AppendProperties DEF TakeItem
  <2>3. QED
    BY <1>10, <2>1, <2>2 DEF TakeItem, WriterAt, producerVars, mainVars
<1>11. CASE TryMore
  BY <1>11 DEF TryMore, WriterAt, slotVars, producerVars, mainVars
<1>12. CASE GiveBack
  BY <1>12 DEF GiveBack, Taken, WriterAt, slotVars, producerVars, mainVars
<1>13. CASE ApplyContainer
  <2>1. applied' \in Seq(0..MaxWrites)
    BY <1>13, ConcatProperties DEF ApplyContainer
  <2>2. QED
    BY <1>13, <2>1 DEF ApplyContainer, WriterAt, slotVars, producerVars, mainVars
<1>14. CASE Stop
  <2>1. run_writer' \in BOOLEAN /\ stop_buffer' \in BOOLEAN
    BY <1>14, Zenon DEF Stop, StopWriter
  <2>2. full_slots' \in Nat /\ main' \in {"running", "stop", "release", "join"}
    BY <1>14 DEF Stop, StopWriter, MainAt
  <2>3. QED
    BY <1>14, <2>1, <2>2 DEF Stop, slotVars, producerVars, writerVars
<1>15. CASE Terminated
  BY <1>15 DEF Terminated, vars, slotVars, producerVars, writerVars, mainVars
<1>16. QED
  BY <1>1, <1>2, <1>3, <1>4, <1>5, <1>6, <1>7, <1>8, <1>9, <1>10, <1>11, <1>12, <1>13,
    <1>14, <1>15 DEF Next, Producer, Writer

-----------------------------------------------------------------------------
(* Permits.                                                                *)

LEMMA FlowTypes ==
  ASSUME TypeOK
  PROVE  /\ Storing \in {0, 1} /\ Releasing \in {0, 1}
         /\ Stored \in Int /\ Consumed \in Nat /\ Owed \in Nat
<1>1. Storing \in {0, 1} /\ Releasing \in {0, 1}
  BY DEF Storing, Releasing
<1>2. Len(container) \in Nat /\ Len(applied) \in Nat
  BY DEF TypeOK
<1>3. QED
  BY <1>1, <1>2 DEF TypeOK, Stored, Consumed, Owed

(* The buffer never holds more items than it has slots, fewer when a       *)
(* producer is about to store one, and some when the writer takes one.     *)
LEMMA FlowBounds ==
  ASSUME ConstantsAssumption, TypeOK, PermitInv, run_writer
  PROVE  /\ Stored - Consumed \in 0..N
         /\ \A p \in HoldingSlot : Stored - Consumed < N
         /\ writer \in {"check", "take"} => Stored - Consumed > 0
<1>1. /\ Cardinality(HoldingSlot) \in Nat
      /\ \A p \in HoldingSlot : Cardinality(HoldingSlot) # 0
  BY FS_CardinalityType, FS_EmptySet DEF PermitInv
<1> DEFINE Between == IF writer \in {"check", "take"} THEN 1 ELSE 0
<1>2. /\ full_slots + Releasing + Between = Stored - Consumed
      /\ empty_slots + Cardinality(HoldingSlot) + (Stored - Consumed) + Owed = N
  BY DEF PermitInv
<1>3. /\ Between \in {0, 1}
      /\ writer \in {"check", "take"} => Between = 1
      /\ full_slots \in Nat /\ empty_slots \in Nat /\ N \in Nat
      /\ Releasing \in {0, 1} /\ Stored \in Int /\ Consumed \in Nat /\ Owed \in Nat
  BY FlowTypes DEF TypeOK, ConstantsAssumption
<1> HIDE DEF Between
<1>4. Stored - Consumed \in 0..N
  BY <1>1, <1>2, <1>3
<1>5. ASSUME NEW p \in HoldingSlot
      PROVE  Stored - Consumed < N
  BY <1>1, <1>2, <1>3
<1>6. writer \in {"check", "take"} => Stored - Consumed > 0
  BY <1>2, <1>3
<1>7. QED
  BY <1>4, <1>5, <1>6

(* The writer takes items out in TakeItem only.                            *)
LEMMA WriterCounts ==
  ASSUME TypeOK, StopInv, run_writer, Writer
  PROVE  /\ TakeItem => Consumed' = Consumed + 1 /\ Owed' = Owed + 1
         /\ ~TakeItem => Consumed' = Consumed
<1>1. CASE TakeItem
  <2>1. Len(container') = Len(container) + 1
    BY <1>1, AppendProperties DEF TakeItem, TypeOK
  <2>2. QED
    BY <1>1, <2>1 DEF TakeItem, WriterAt, TypeOK, Consumed, Owed
<1>2. CASE WriterLoop
  <2>1. Len(<<>>) = 0
    OBVIOUS
  <2>2. Consumed = Len(applied) /\ Consumed' = Len(applied) + 0
    BY <1>2, <2>1 DEF WriterLoop, WriterAt, Consumed, TypeOK
  <2>3. QED
    BY <1>2, <2>2 DEF WriterLoop, TakeItem, WriterAt, TypeOK
<1>3. CASE AcquireFull
  BY <1>3 DEF AcquireFull, TakeItem, WriterAt, Consumed
<1>4. CASE CheckStop
  BY <1>4 DEF CheckStop, TakeItem, WriterAt, Consumed
<1>5. CASE TryMore
  BY <1>5 DEF TryMore, TakeItem, WriterAt, Consumed
<1>6. CASE GiveBack
  BY <1>6 DEF GiveBack, TakeItem, WriterAt, Consumed
<1>7. CASE ApplyContainer
  <2>1. Len(applied \o container) = Len(applied) + Len(container)
    BY ConcatProperties DEF TypeOK
  <2>2. writer' = "loop" /\ writer = "returned" /\ applied' = applied \o container
    BY <1>7 DEF ApplyContainer, WriterAt
  <2>3. QED
    BY <2>1, <2>2 DEF TakeItem, WriterAt, Consumed, TypeOK
<1>8. QED
  BY <1>1, <1>2, <1>3, <1>4, <1>5, <1>6, <1>7 DEF Writer

(* A producer takes nothing out.                                           *)
LEMMA ProducerCounts ==
  ASSUME NEW p \in Producers, BeginPut(p) \/ Producer(p)
  PROVE  Consumed' = Consumed /\ Owed' = Owed
  BY ProducerFrame DEF writerVars, Consumed, Owed

(* The destructor does nothing to the flow while the writer may apply.     *)
LEMMA StopsWriter ==
  ASSUME TypeOK, StopInv, Stop
  PROVE  ~run_writer'
  BY DEF Stop, StopWriter, MainAt, StopInv, TypeOK

(* PermitInv is kept.                                                      *)
LEMMA PermitStep ==
  ASSUME ConstantsAssumption, TypeOK, MutexInv, StopInv, PermitInv, Next
  PROVE  PermitInv'
<1> SUFFICES ASSUME run_writer'
             PROVE  PermitInv'
  BY DEF PermitInv
<1>1. run_writer
  BY ProducerFrame, WriterFrame, StopsWriter DEF Next, Terminated, vars, mainVars
<1>2. /\ Storing \in {0, 1} /\ Releasing \in {0, 1}
      /\ Stored \in Int /\ Consumed \in Nat /\ Owed \in Nat
  BY FlowTypes
<1>3. IsFiniteSet(HoldingSlot) /\ Cardinality(HoldingSlot) \in Nat
  BY <1>1, FS_CardinalityType DEF PermitInv
<1> DEFINE Between == IF writer \in {"check", "take"} THEN 1 ELSE 0
<1>0. /\ full_slots + Releasing + Between = Stored - Consumed
      /\ empty_slots + Cardinality(HoldingSlot) + (Stored - Consumed) + Owed = N
      /\ full_slots \in Nat /\ empty_slots \in Nat /\ Between \in {0, 1} /\ Len(container) \in Nat
  BY <1>1 DEF PermitInv, TypeOK
<1>4. ASSUME NEW p \in Producers, BeginPut(p) \/ LockProducer(p)
      PROVE  PermitInv'
  <2>1. HoldingSlot' = HoldingSlot /\ Storing' = Storing /\ Releasing' = Releasing
    BY <1>4, BeginPutCounts, LockProducerCounts
  <2>2. UNCHANGED <<sequence_number, empty_slots, full_slots, writer>>
    BY <1>4 DEF BeginPut, LockProducer, writerVars
  <2>3. QED
    BY <1>1, <1>4, <2>1, <2>2, ProducerCounts DEF Producer, PermitInv, Stored
<1>5. ASSUME NEW p \in Producers, AcquireEmpty(p)
      PROVE  PermitInv'
  <2>1. /\ p \notin HoldingSlot /\ HoldingSlot' = HoldingSlot \union {p}
        /\ Storing' = Storing /\ Releasing' = Releasing
    BY <1>5, AcquireEmptyCounts
  <2>2. /\ UNCHANGED <<sequence_number, full_slots, writer>>
        /\ empty_slots' = empty_slots - 1
    BY <1>5 DEF AcquireEmpty, writerVars
  <2>3. IsFiniteSet(HoldingSlot') /\ Cardinality(HoldingSlot') = Cardinality(HoldingSlot) + 1
    BY <1>3, <2>1, FS_AddElement
  <2>4. Consumed' = Consumed /\ Owed' = Owed /\ Stored' = Stored
    BY <1>5, <2>1, <2>2, ProducerCounts DEF Producer, Stored
  <2>5. QED
    BY <1>1, <1>2, <1>3, <2>1, <2>2, <2>3, <2>4 DEF PermitInv, TypeOK
<1>6. ASSUME NEW p \in Producers, NumberItem(p)
      PROVE  PermitInv'
  <2>1. HoldingSlot' = HoldingSlot /\ Storing = 0 /\ Storing' = 1 /\ Releasing' = Releasing
    BY <1>6, NumberItemCounts
  <2>2. /\ UNCHANGED <<empty_slots, full_slots, writer>>
        /\ sequence_number' = sequence_number + 1
    BY <1>6 DEF NumberItem, writerVars
  <2>3. Consumed' = Consumed /\ Owed' = Owed /\ Stored' = Stored
    BY <1>6, <2>1, <2>2, ProducerCounts DEF Producer, Stored, TypeOK
  <2>4. QED
    BY <1>1, <2>1, <2>2, <2>3 DEF PermitInv
<1>7. ASSUME NEW p \in Producers, StoreItem(p)
      PROVE  PermitInv'
  <2>1. /\ p \in HoldingSlot /\ HoldingSlot' = HoldingSlot \ {p}
        /\ Storing = 1 /\ Storing' = 0 /\ Releasing = 0 /\ Releasing' = 1
    BY <1>7, StoreItemCounts
  <2>2. UNCHANGED <<sequence_number, empty_slots, full_slots, writer>>
    BY <1>7 DEF StoreItem, writerVars
  <2>3. IsFiniteSet(HoldingSlot') /\ Cardinality(HoldingSlot') = Cardinality(HoldingSlot) - 1
    BY <1>3, <2>1, FS_RemoveElement
  <2>4. Consumed' = Consumed /\ Owed' = Owed /\ Stored' = Stored + 1
    BY <1>7, <2>1, <2>2, ProducerCounts DEF Producer, Stored, TypeOK
  <2>5. Between' = Between
    BY <2>2
  <2> HIDE DEF Between
  <2>6. /\ full_slots' + Releasing' + Between' = Stored' - Consumed'
        /\ empty_slots' + Cardinality(HoldingSlot') + (Stored' - Consumed') + Owed' = N
    BY <1>0, <1>2, <1>3, <2>1, <2>2, <2>3, <2>4, <2>5
  <2>7. QED
    BY <2>3, <2>6 DEF PermitInv, Between
<1>8. ASSUME NEW p \in Producers, ReleaseFull(p)
      PROVE  PermitInv'
  <2>1. HoldingSlot' = HoldingSlot /\ Storing' = Storing /\ Releasing = 1 /\ Releasing' = 0
    BY <1>8, ReleaseFullCounts
  <2>2. /\ UNCHANGED <<sequence_number, empty_slots, writer>>
        /\ full_slots' = full_slots + 1
    BY <1>8 DEF ReleaseFull, writerVars
  <2>3. Consumed' = Consumed /\ Owed' = Owed /\ Stored' = Stored
    BY <1>8, <2>1, <2>2, ProducerCounts DEF Producer, Stored
  <2>4. QED
    BY <1>1, <1>2, <2>1, <2>2, <2>3 DEF PermitInv, TypeOK
<1>9. CASE Writer
  <2>1. /\ HoldingSlot' = HoldingSlot /\ Releasing' = Releasing /\ Stored' = Stored
        /\ UNCHANGED stop_buffer
    BY <1>9, WriterFrame, OtherCounts DEF producerVars, mainVars
  <2>2. ~stop_buffer
    BY <1>1 DEF StopInv
  <2>3. CASE TakeItem
    <3>1. Between = 1 /\ Between' = 0 /\ UNCHANGED <<empty_slots, full_slots>>
      BY <2>3 DEF TakeItem, WriterAt
    <3>2. Consumed' = Consumed + 1 /\ Owed' = Owed + 1
      BY <1>1, <1>9, <2>3, WriterCounts
    <3> HIDE DEF Between
    <3>3. /\ full_slots' + Releasing' + Between' = Stored' - Consumed'
          /\ empty_slots' + Cardinality(HoldingSlot') + (Stored' - Consumed') + Owed' = N
      BY <1>0, <1>2, <1>3, <2>1, <3>1, <3>2
    <3>4. QED
      BY <1>3, <2>1, <3>3 DEF PermitInv, Between
  <2>4. CASE AcquireFull \/ (TryMore /\ writer' = "take")
    <3>1. /\ Between = 0 /\ Between' = 1 /\ Owed' = Owed
          /\ UNCHANGED empty_slots /\ full_slots' = full_slots - 1 /\ ~TakeItem
      BY <2>4 DEF AcquireFull, TryMore, TakeItem, WriterAt, Owed
    <3>2. QED
      BY <1>1, <1>2, <1>9, <2>1, <3>1, WriterCounts DEF PermitInv, TypeOK
  <2>5. CASE CheckStop
    <3>1. /\ Between = 1 /\ Between' = 1 /\ Owed' = Owed
          /\ UNCHANGED <<empty_slots, full_slots>> /\ ~TakeItem
      BY <2>2, <2>5 DEF CheckStop, TakeItem, WriterAt, Owed
    <3>2. QED
      BY <1>1, <1>9, <2>1, <3>1, WriterCounts DEF PermitInv
  <2>6. CASE TryMore /\ writer' = "give_back"
    <3>1. /\ Between = 0 /\ Between' = 0 /\ Owed' = Owed
          /\ UNCHANGED <<empty_slots, full_slots>> /\ ~TakeItem
      BY <2>6 DEF TryMore, TakeItem, WriterAt, Owed
    <3>2. QED
      BY <1>1, <1>9, <2>1, <3>1, WriterCounts DEF PermitInv
  <2>7. CASE GiveBack
    <3>1. /\ Between = 0 /\ Between' = 0 /\ Owed = Len(container) /\ Owed' = 0
          /\ UNCHANGED full_slots /\ empty_slots' = empty_slots + Len(container) /\ ~TakeItem
      BY <2>7 DEF GiveBack, Taken, TakeItem, WriterAt, Owed
    <3>2. Consumed' = Consumed
      BY <1>1, <1>9, <3>1, WriterCounts
    <3> HIDE DEF Between
    <3>3. /\ full_slots' + Releasing' + Between' = Stored' - Consumed'
          /\ empty_slots' + Cardinality(HoldingSlot') + (Stored' - Consumed') + Owed' = N
      BY <1>0, <1>2, <1>3, <2>1, <3>1, <3>2
    <3>4. QED
      BY <1>3, <2>1, <3>3 DEF PermitInv, Between
  <2>8. CASE ApplyContainer
    <3>1. /\ Between = 0 /\ Between' = 0 /\ Owed = 0 /\ Owed' = 0
          /\ UNCHANGED <<empty_slots, full_slots>> /\ ~TakeItem
      BY <1>1, <2>8 DEF ApplyContainer, TakeItem, WriterAt, Owed
    <3>2. QED
      BY <1>1, <1>9, <2>1, <3>1, WriterCounts DEF PermitInv
  <2>9. CASE WriterLoop
    <3>1. Len(<<>>) = 0
      OBVIOUS
    <3>2. /\ Between = 0 /\ Between' = 0 /\ Owed = 0 /\ Owed' = 0
          /\ UNCHANGED <<empty_slots, full_slots>> /\ ~TakeItem
      BY <1>1, <2>9, <3>1 DEF WriterLoop, TakeItem, WriterAt, Owed
    <3>3. QED
      BY <1>1, <1>9, <2>1, <3>2, WriterCounts DEF PermitInv
  <2>10. QED
    BY <1>9, <2>3, <2>4, <2>5, <2>6, <2>7, <2>8, <2>9 DEF Writer, TryMore, WriterAt
<1>10. CASE Stop
  BY <1>10, StopsWriter
<1>11. CASE Terminated
  BY <1>11, OtherCounts DEF Terminated, vars, producerVars, writerVars, mainVars, PermitInv,
    Consumed, Owed
<1>12. QED
  BY <1>4, <1>5, <1>6, <1>7, <1>8, <1>9, <1>10, <1>11 DEF Next, Producer

-----------------------------------------------------------------------------
(* Slots.                                                                  *)

(* The slots go round: the items Consumed + 1 to Consumed + N are in       *)
(* different ones, the first of them in out.                               *)
LEMMA SlotOfFacts ==
  ASSUME ConstantsAssumption, TypeOK
  PROVE  /\ \A k \in (Consumed + 1)..(Consumed + N) : SlotOf(k) \in Slots
         /\ \A k, l \in (Consumed + 1)..(Consumed + N) : SlotOf(k) = SlotOf(l) => k = l
         /\ SlotOf(Consumed + 1) = out
         /\ \A k \in (Consumed + 1)..(Consumed + N) : SlotOf(k + 1) = Advance(SlotOf(k))
<1>1. out \in 0..(N - 1) /\ Consumed \in Nat /\ N \in Nat \ {0}
  BY FlowTypes DEF TypeOK, Slots, ConstantsAssumption
<1>2. QED
  BY <1>1 DEF SlotOf, Wrapped, Advance, Slots

(* The slot of item k after a step.                                        *)
NextSlotOf(k) == Wrapped(out' + (k - Consumed' - 1))

(* Taking an item out does not change where the others are.                *)
LEMMA TakeKeepsSlots ==
  ASSUME ConstantsAssumption, TypeOK, TakeItem, Consumed' = Consumed + 1
  PROVE  \A k \in (Consumed + 2)..(Consumed + N + 1) : NextSlotOf(k) = SlotOf(k)
<1>1. out \in 0..(N - 1) /\ Consumed \in Nat /\ N \in Nat \ {0} /\ out' = Advance(out)
  BY FlowTypes DEF TypeOK, Slots, ConstantsAssumption, TakeItem
<1>2. QED
  BY <1>1 DEF NextSlotOf, SlotOf, Wrapped, Advance

(* SlotInv is kept.                                                        *)
LEMMA SlotStep ==
  ASSUME ConstantsAssumption, TypeOK, MutexInv, StopInv, PermitInv, SlotInv, Next
  PROVE  SlotInv'
<1> SUFFICES ASSUME run_writer'
             PROVE  SlotInv'
  BY DEF SlotInv
<1>1. run_writer
  BY ProducerFrame, WriterFrame, StopsWriter DEF Next, Terminated, vars, mainVars
<1>2. Stored \in Int /\ Consumed \in Nat /\ Stored - Consumed \in 0..N /\ N \in Nat \ {0}
  BY <1>1, FlowTypes, FlowBounds DEF ConstantsAssumption
<1>3. /\ in = SlotOf(Stored + 1)
      /\ \A k \in (Consumed + 1)..Stored : buffer[SlotOf(k)] = k
      /\ \A s \in Slots : buffer[s] # 0 =>
           buffer[s] \in (Consumed + 1)..Stored /\ SlotOf(buffer[s]) = s
  BY <1>1 DEF SlotInv
<1>0. ASSUME in' = NextSlotOf(Stored' + 1),
             \A k \in (Consumed' + 1)..Stored' : buffer'[NextSlotOf(k)] = k,
             \A s \in Slots : buffer'[s] # 0 =>
               buffer'[s] \in (Consumed' + 1)..Stored' /\ NextSlotOf(buffer'[s]) = s
      PROVE  SlotInv'
  BY <1>0 DEF SlotInv, SlotOf, NextSlotOf
<1>4. ASSUME UNCHANGED slotVars, Stored' = Stored, Consumed' = Consumed
      PROVE  SlotInv'
  BY <1>1, <1>4 DEF SlotInv, SlotOf, slotVars
<1>5. ASSUME NEW p \in Producers,
             BeginPut(p) \/ AcquireEmpty(p) \/ LockProducer(p) \/ ReleaseFull(p)
      PROVE  SlotInv'
  <2>1. UNCHANGED <<slotVars, sequence_number>>
    BY <1>5 DEF BeginPut, AcquireEmpty, LockProducer, ReleaseFull
  <2>2. Storing' = Storing
    BY <1>5, BeginPutCounts, AcquireEmptyCounts, LockProducerCounts, ReleaseFullCounts
  <2>3. QED
    BY <1>4, <1>5, <2>1, <2>2, ProducerCounts DEF Producer, Stored
<1>6. ASSUME NEW p \in Producers, NumberItem(p)
      PROVE  SlotInv'
  <2>1. UNCHANGED slotVars /\ sequence_number' = sequence_number + 1
    BY <1>6 DEF NumberItem
  <2>2. Stored' = Stored
    BY <1>6, <2>1, NumberItemCounts DEF Stored, TypeOK
  <2>3. QED
    BY <1>4, <1>6, <2>1, <2>2, ProducerCounts DEF Producer
<1>7. ASSUME NEW p \in Producers, StoreItem(p)
      PROVE  SlotInv'
  <2>1. Stored - Consumed < N
    BY <1>1, <1>7, StoreItemCounts, FlowBounds
  <2>0. Storing = 1 /\ Storing' = 0
    BY <1>7, StoreItemCounts
  <2>2. Stored' = Stored + 1 /\ Consumed' = Consumed
    <3>1. UNCHANGED sequence_number
      BY <1>7 DEF StoreItem
    <3>2. QED
      BY <1>7, <2>0, <3>1, ProducerCounts DEF Producer, Stored, TypeOK
  <2>3. sequence_num[p] = Stored + 1
    BY <1>7, <2>0 DEF StoreItem, ProducerAt, MutexInv, Stored, TypeOK
  <2>4. /\ buffer' = [buffer EXCEPT ![in] = Stored + 1]
        /\ in' = Advance(in) /\ UNCHANGED out
    BY <1>7, <2>3 DEF StoreItem
  <2>5. /\ \A k \in (Consumed + 1)..(Stored + 1) : SlotOf(k) \in Slots
        /\ \A k \in (Consumed + 1)..Stored : SlotOf(k) # in
        /\ SlotOf(Stored + 2) = Advance(in)
    BY <1>2, <1>3, <2>1, SlotOfFacts
  <2>6. \A k : NextSlotOf(k) = SlotOf(k)
    BY <2>2, <2>4 DEF SlotOf, NextSlotOf
  <2>7. in' = NextSlotOf(Stored' + 1)
    BY <1>2, <2>2, <2>4, <2>5, <2>6
  <2>8. ASSUME NEW k \in (Consumed + 1)..(Stored + 1)
        PROVE  buffer'[SlotOf(k)] = k
    <3>1. CASE k = Stored + 1
      BY <1>3, <2>4, <2>5, <3>1 DEF TypeOK
    <3>2. CASE k # Stored + 1
      <4>1. k \in (Consumed + 1)..Stored
        BY <1>2, <3>2
      <4>2. QED
        BY <1>3, <2>4, <2>5, <4>1 DEF TypeOK
    <3>3. QED
      BY <3>1, <3>2
  <2>9. ASSUME NEW s \in Slots, buffer'[s] # 0
        PROVE  buffer'[s] \in (Consumed + 1)..(Stored + 1) /\ SlotOf(buffer'[s]) = s
    BY <1>2, <1>3, <2>4, <2>9 DEF TypeOK
  <2>10. QED
    BY <1>0, <2>2, <2>6, <2>7, <2>8, <2>9
<1>8. CASE TakeItem
  <2>1. Stored - Consumed > 0
    BY <1>1, <1>8, FlowBounds DEF TakeItem, WriterAt
  <2>2. Stored' = Stored /\ Consumed' = Consumed + 1
    BY <1>1, <1>8, WriterCounts, WriterFrame, OtherCounts DEF Writer, producerVars
  <2>3. buffer' = [buffer EXCEPT ![out] = 0] /\ UNCHANGED in
    BY <1>8 DEF TakeItem
  <2>4. \A k \in (Consumed + 2)..(Stored + 1) : NextSlotOf(k) = SlotOf(k)
    BY <1>2, <1>8, <2>2, TakeKeepsSlots
  <2>5. /\ \A k \in (Consumed + 1)..Stored : SlotOf(k) \in Slots
        /\ \A k \in (Consumed + 2)..Stored : SlotOf(k) # out
        /\ SlotOf(Consumed + 1) = out
    BY <1>2, SlotOfFacts
  <2>6. in' = NextSlotOf(Stored' + 1)
    <3>1. Stored + 1 \in (Consumed + 2)..(Stored + 1)
      BY <1>2, <2>1
    <3>2. QED
      BY <1>3, <2>2, <2>3, <2>4, <3>1
  <2>7. ASSUME NEW k \in (Consumed' + 1)..Stored'
        PROVE  buffer'[NextSlotOf(k)] = k
    <3>1. /\ k \in (Consumed + 1)..Stored
          /\ k \in (Consumed + 2)..Stored
          /\ k \in (Consumed + 2)..(Stored + 1)
      BY <1>2, <2>2
    <3>2. buffer'[SlotOf(k)] = buffer[SlotOf(k)]
      BY <2>3, <2>5, <3>1 DEF TypeOK
    <3>3. QED
      BY <1>3, <2>4, <3>1, <3>2
  <2>8. ASSUME NEW s \in Slots, buffer'[s] # 0
        PROVE  buffer'[s] \in (Consumed' + 1)..Stored' /\ NextSlotOf(buffer'[s]) = s
    <3>1. s # out /\ buffer'[s] = buffer[s]
      BY <2>3, <2>8 DEF TypeOK
    <3>2. buffer[s] \in (Consumed + 1)..Stored /\ SlotOf(buffer[s]) = s
      BY <1>3, <2>8, <3>1
    <3>3. buffer[s] \in (Consumed + 2)..Stored /\ buffer[s] \in (Consumed + 2)..(Stored + 1)
      BY <1>2, <2>5, <3>1, <3>2
    <3>4. QED
      BY <1>2, <2>2, <2>4, <3>1, <3>2, <3>3
  <2>9. QED
    BY <1>0, <2>6, <2>7, <2>8
<1>9. ASSUME Writer, ~TakeItem
      PROVE  SlotInv'
  <2>1. UNCHANGED slotVars
    BY <1>9 DEF Writer, WriterLoop, AcquireFull, CheckStop, TryMore, GiveBack, ApplyContainer
  <2>2. Stored' = Stored /\ Consumed' = Consumed
    BY <1>1, <1>9, WriterCounts, WriterFrame, OtherCounts DEF producerVars
  <2>3. QED
    BY <1>4, <2>1, <2>2
<1>10. CASE Stop
  BY <1>10, StopsWriter
<1>11. CASE Terminated
  BY <1>4, <1>11, OtherCounts DEF Terminated, vars, producerVars, writerVars, Consumed
<1>12. QED
  BY <1>5, <1>6, <1>7, <1>8, <1>9, <1>10, <1>11 DEF Next, Producer

-----------------------------------------------------------------------------
(* Order.                                                                  *)

(* The writer takes the item that follows those it has taken.              *)
LEMMA NextItem ==
  ASSUME ConstantsAssumption, TypeOK, PermitInv, SlotInv, run_writer, writer = "take"
  PROVE  buffer[out] = Consumed + 1
<1>1. Consumed + 1 \in (Consumed + 1)..Stored
  BY FlowTypes, FlowBounds
<1>2. SlotOf(Consumed + 1) = out
  BY SlotOfFacts
<1>3. QED
  BY <1>1, <1>2 DEF SlotInv

(* OrderInv is kept.                                                       *)
LEMMA OrderStep ==
  ASSUME ConstantsAssumption, TypeOK, StopInv, PermitInv, SlotInv, OrderInv, Next
  PROVE  OrderInv'
<1>1. ASSUME UNCHANGED <<writer, container, applied>>, run_writer' => run_writer
      PROVE  OrderInv'
  BY <1>1 DEF OrderInv, AppliedInOrder
<1>2. CASE \E p \in Producers : BeginPut(p) \/ Producer(p)
  BY <1>1, <1>2, ProducerFrame DEF writerVars, mainVars
<1>3. CASE Stop
  BY <1>1, <1>3, StopsWriter DEF Stop, writerVars
<1>4. CASE WriterLoop
  BY <1>4 DEF WriterLoop, WriterAt, mainVars, OrderInv, AppliedInOrder
<1>5. CASE AcquireFull
  BY <1>5 DEF AcquireFull, WriterAt, mainVars, OrderInv, AppliedInOrder
<1>6. CASE CheckStop
  BY <1>6 DEF CheckStop, WriterAt, mainVars, OrderInv, AppliedInOrder, StopInv
<1>7. CASE TakeItem
  <2>1. /\ container' = Append(container, buffer[out])
        /\ writer = "take" /\ writer' = "more" /\ UNCHANGED <<applied, run_writer>>
    BY <1>7 DEF TakeItem, WriterAt, mainVars
  <2>2. AppliedInOrder'
    BY <2>1 DEF OrderInv, AppliedInOrder
  <2>3. ASSUME run_writer
        PROVE  /\ \A i \in 1..Len(container') : container'[i] = Len(applied) + i
               /\ container' # <<>>
    <3>1. buffer[out] = Len(applied) + Len(container) + 1
      BY <2>1, <2>3, NextItem DEF Consumed, TypeOK
    <3>2. /\ Len(container') = Len(container) + 1
          /\ \A i \in 1..Len(container) : container'[i] = container[i]
          /\ container'[Len(container) + 1] = buffer[out]
      BY <2>1, AppendProperties DEF TypeOK
    <3>3. \A i \in 1..Len(container) : container[i] = Len(applied) + i
      BY <2>1, <2>3 DEF OrderInv
    <3>4. Len(container) \in Nat /\ Len(applied) \in Nat
      BY DEF TypeOK
    <3>5. ASSUME NEW i \in 1..Len(container')
          PROVE  container'[i] = Len(applied) + i
      <4>1. CASE i = Len(container) + 1
        BY <3>1, <3>2, <3>4, <4>1
      <4>2. CASE i # Len(container) + 1
        <5>1. i \in 1..Len(container)
          BY <3>2, <3>4, <4>2
        <5>2. QED
          BY <3>2, <3>3, <5>1
      <4>3. QED
        BY <4>1, <4>2
    <3>6. container' # <<>>
      BY <3>2, <3>4
    <3>7. QED
      BY <3>5, <3>6
  <2>4. QED
    BY <2>1, <2>2, <2>3 DEF OrderInv
<1>8. CASE TryMore
  BY <1>8 DEF TryMore, WriterAt, mainVars, OrderInv, AppliedInOrder
<1>9. CASE GiveBack
  BY <1>9 DEF GiveBack, WriterAt, mainVars, OrderInv, AppliedInOrder
<1>10. CASE ApplyContainer
  <2>1. /\ writer = "returned" /\ writer' = (IF run_writer THEN "loop" ELSE "stopped")
        /\ applied' = (IF run_writer THEN applied \o container ELSE applied)
        /\ UNCHANGED <<container, run_writer>>
    BY <1>10 DEF ApplyContainer, WriterAt, mainVars
  <2>2. CASE run_writer
    <3>1. /\ Len(applied') = Len(applied) + Len(container)
          /\ \A i \in 1..(Len(applied) + Len(container)) :
               applied'[i] = IF i <= Len(applied) THEN applied[i] ELSE container[i - Len(applied)]
      BY <2>1, <2>2, ConcatProperties DEF TypeOK
    <3>2. Len(container) \in Nat /\ Len(applied) \in Nat
      BY DEF TypeOK
    <3>3. /\ \A i \in 1..Len(applied) : applied[i] = i
          /\ \A i \in 1..Len(container) : container[i] = Len(applied) + i
      BY <2>1, <2>2 DEF OrderInv, AppliedInOrder
    <3>4. ASSUME NEW i \in 1..(Len(applied) + Len(container)), ~(i <= Len(applied))
          PROVE  i - Len(applied) \in 1..Len(container) /\ Len(applied) + (i - Len(applied)) = i
      BY <3>2, <3>4
    <3>5. ASSUME NEW i \in 1..(Len(applied) + Len(container)), i <= Len(applied)
          PROVE  i \in 1..Len(applied)
      BY <3>2, <3>5
    <3>6. AppliedInOrder'
      BY <3>1, <3>3, <3>4, <3>5 DEF AppliedInOrder
    <3>7. QED
      BY <2>1, <2>2, <3>6 DEF OrderInv
  <2>3. CASE ~run_writer
    BY <2>1, <2>3 DEF OrderInv, AppliedInOrder
  <2>4. QED
    BY <2>2, <2>3
<1>11. CASE Terminated
  BY <1>1, <1>11 DEF Terminated, vars, writerVars, mainVars
<1>12. QED
  BY <1>2, <1>3, <1>4, <1>5, <1>6, <1>7, <1>8, <1>9, <1>10, <1>11 DEF Next, Writer

-----------------------------------------------------------------------------
(* Inv is an invariant, and what it implies.                               *)

(* A step that changes nothing keeps Inv.                                  *)
LEMMA Stutter ==
  ASSUME Inv, UNCHANGED vars
  PROVE  Inv'
<1>1. /\ UNCHANGED <<slotVars, producerVars, writerVars, mainVars>>
      /\ UNCHANGED <<buffer, in, out, empty_slots, full_slots, producer, sequence_num, calls,
                     sequence_number, highest_write_received, writer, container, applied,
                     main, run_writer, stop_buffer>>
  BY DEF vars, slotVars, producerVars, writerVars, mainVars
<1>2. /\ Unnumbered' = Unnumbered /\ HoldingSlot' = HoldingSlot /\ Storing' = Storing
      /\ Releasing' = Releasing /\ Stored' = Stored /\ Consumed' = Consumed /\ Owed' = Owed
  BY <1>1, OtherCounts DEF Consumed, Owed
<1>3. TypeOK' /\ MutexInv' /\ CallInv' /\ StopInv'
  BY <1>1, <1>2 DEF Inv, TypeOK, MutexInv, HoldsProducerMutex, CallInv, StopInv
<1>4. PermitInv' /\ OrderInv'
  BY <1>1, <1>2 DEF Inv, PermitInv, OrderInv, AppliedInOrder
<1>5. SlotInv'
  BY <1>1, <1>2 DEF Inv, SlotInv, SlotOf
<1>6. QED
  BY <1>3, <1>4, <1>5 DEF Inv

(* The inductive invariant holds in every reachable state.                 *)
THEOREM Invariance == Spec => []Inv
<1>1. Init => Inv
  BY ConstantsAssumption, InitInv
<1>2. Inv /\ [Next]_vars => Inv'
  BY ConstantsAssumption, TypeStep, MutexStep, CallStep, StopStep, PermitStep, SlotStep,
    OrderStep, Stutter DEF Inv
<1>3. QED
  BY <1>1, <1>2, PTL DEF Spec

(* Types are preserved; in particular no semaphore goes below zero and no  *)
(* number beyond the calls (RingBuffer::produce, consume).                 *)
THEOREM TypeCorrect == Spec => []TypeOK
<1>1. Inv => TypeOK
  BY DEF Inv
<1>2. QED
  BY <1>1, Invariance, PTL

(* The writes are applied in the order of their numbers, each once and     *)
(* none missing (RingBuffer::consume, DB::writer).                         *)
THEOREM WritesAreAppliedInOrder == Spec => []AppliedInOrder
<1>1. Inv => AppliedInOrder
  BY DEF Inv, OrderInv
<1>2. QED
  BY <1>1, Invariance, PTL

(* A producer that is about to store finds its slot empty, and the writer  *)
(* not in it (RingBuffer::produce and consume have no lock in common).     *)
THEOREM SlotsAreNotShared == Spec => []NoSlotIsShared
<1>1. ASSUME Inv, NEW p \in Producers, producer[p] = "store"
      PROVE  buffer[in] = 0 /\ (writer = "take" => in # out)
  <2>1. run_writer /\ p \in HoldingSlot
    BY <1>1 DEF Inv, StopInv, HoldingSlot
  <2>2. Stored - Consumed \in 0..N /\ Stored - Consumed < N
        /\ (writer = "take" => Stored - Consumed > 0)
    BY <1>1, <2>1, ConstantsAssumption, FlowBounds DEF Inv
  <2>3. Stored \in Int /\ Consumed \in Nat /\ N \in Nat /\ in = SlotOf(Stored + 1)
        /\ in \in Slots
    BY <1>1, <2>1, ConstantsAssumption, FlowTypes DEF Inv, SlotInv, ConstantsAssumption, TypeOK
  <2>4. /\ \A k, l \in (Consumed + 1)..(Consumed + N) : SlotOf(k) = SlotOf(l) => k = l
        /\ SlotOf(Consumed + 1) = out
    BY <1>1, ConstantsAssumption, SlotOfFacts DEF Inv
  <2>5. ASSUME buffer[in] # 0
        PROVE  FALSE
    <3>1. buffer[in] \in (Consumed + 1)..Stored /\ SlotOf(buffer[in]) = SlotOf(Stored + 1)
      BY <1>1, <2>1, <2>3, <2>5 DEF Inv, SlotInv
    <3>2. QED
      BY <2>2, <2>3, <2>4, <3>1
  <2>6. ASSUME writer = "take", in = out
        PROVE  FALSE
    BY <2>2, <2>3, <2>4, <2>6
  <2>7. QED
    BY <2>5, <2>6
<1>2. Inv => NoSlotIsShared
  BY <1>1 DEF NoSlotIsShared
<1>3. QED
  BY <1>2, Invariance, PTL

(* DB::writer never gets an empty container to apply (DB.cpp:218).         *)
THEOREM NothingIsAppliedEmpty == Spec => []NeverAppliesNothing
<1>1. Inv => NeverAppliesNothing
  BY DEF Inv, OrderInv, NeverAppliesNothing
<1>2. QED
  BY <1>1, Invariance, PTL

================================================================================
