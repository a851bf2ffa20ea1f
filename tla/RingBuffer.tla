------------------------------ MODULE RingBuffer ------------------------------
(***************************************************************************)
(* RingBuffer<T, N>, between the threads that call DB::put and the writer  *)
(* thread, with the loop of DB::writer that consumes from it and the part  *)
(* of the destructor that stops it.  MemtableFlush takes for granted what  *)
(* is checked here: that the writer gets the writes one by one in the      *)
(* order of their sequence numbers, whatever the producers do, and never   *)
(* anything that is not a write.                                           *)
(*                                                                         *)
(* An item is its sequence number.  A slot whose item was moved out, or    *)
(* that never had one, is 0.                                               *)
(***************************************************************************)
EXTENDS Integers, Sequences, FiniteSets

CONSTANTS Producers,   (* the threads that call put                        *)
          N,           (* the capacity                                     *)
          MaxWrites    (* bound: how many puts are called                  *)

ASSUME ConstantsAssumption == N \in Nat \ {0} /\ MaxWrites \in Nat

VARIABLES
  buffer, in, out,          (* the slots, the next to fill and to empty    *)
  empty_slots, full_slots,  (* permits of the two counting semaphores      *)
  sequence_number,          (* the next one                                *)
  highest_write_received,
  stop_buffer,
  producer,                 (* control point of each producer              *)
  sequence_num,             (* the number each one's item has got          *)
  calls,                    (* how many puts were called                   *)
  writer,                   (* control point of the writer thread          *)
  container,                (* the items it has taken                      *)
  applied,                  (* the items it has applied, in order          *)
  run_writer,
  main                      (* control point of the destructor             *)

slotVars     == <<buffer, in, out>>
producerVars == <<producer, sequence_num, calls, sequence_number, highest_write_received>>
writerVars   == <<writer, container, applied>>
mainVars     == <<main, run_writer, stop_buffer>>
vars == <<slotVars, empty_slots, full_slots, producerVars, writerVars, mainVars>>

Slots == 0..(N - 1)

(* Mutant: the index wraps around one slot late.                           *)
AdvanceLate(i) == IF i < N THEN i + 1 ELSE 0

Advance(i) == IF i + 1 < N THEN i + 1 ELSE 0

max_elems == N \div 2

Init ==
  /\ buffer = [i \in Slots |-> 0] /\ in = 0 /\ out = 0
  /\ empty_slots = N /\ full_slots = 0
  /\ sequence_number = 1 /\ highest_write_received = 0
  /\ producer = [p \in Producers |-> "idle"]
  /\ sequence_num = [p \in Producers |-> 0]
  /\ calls = 0
  /\ writer = "loop" /\ container = <<>> /\ applied = <<>>
  /\ main = "running" /\ run_writer = TRUE /\ stop_buffer = FALSE

-----------------------------------------------------------------------------
(* RingBuffer::produce.                                                    *)

ProducerAt(p, from, to) ==
  producer[p] = from /\ producer' = [producer EXCEPT ![p] = to]

BeginPut(p) ==
  /\ main = "running" /\ calls < MaxWrites
  /\ ProducerAt(p, "idle", "acquire")
  /\ calls' = calls + 1
  /\ UNCHANGED <<slotVars, empty_slots, full_slots, sequence_num, sequence_number,
                 highest_write_received, writerVars, mainVars>>

AcquireEmpty(p) ==
  /\ ProducerAt(p, "acquire", "lock")
  /\ empty_slots > 0
  /\ empty_slots' = empty_slots - 1
  /\ UNCHANGED <<slotVars, full_slots, sequence_num, calls, sequence_number,
                 highest_write_received, writerVars, mainVars>>

(* Mutant: produce does without producer_mutex.                            *)
NoProducerMutex(p) == FALSE

HoldsProducerMutex(p) == producer[p] \in {"number", "store", "release"}

LockProducer(p) ==
  /\ ProducerAt(p, "lock", "number")
  /\ \A q \in Producers : ~HoldsProducerMutex(q)
  /\ UNCHANGED <<slotVars, empty_slots, full_slots, sequence_num, calls, sequence_number,
                 highest_write_received, writerVars, mainVars>>

(* The number is announced before the item can be consumed.                *)
NumberItem(p) ==
  /\ ProducerAt(p, "number", "store")
  /\ sequence_num' = [sequence_num EXCEPT ![p] = sequence_number]
  /\ sequence_number' = sequence_number + 1
  /\ highest_write_received' = sequence_number
  /\ UNCHANGED <<slotVars, empty_slots, full_slots, calls, writerVars, mainVars>>

StoreItem(p) ==
  /\ ProducerAt(p, "store", "release")
  /\ buffer' = [buffer EXCEPT ![in] = sequence_num[p]]
  /\ in' = Advance(in)
  /\ UNCHANGED <<out, empty_slots, full_slots, sequence_num, calls, sequence_number,
                 highest_write_received, writerVars, mainVars>>

ReleaseFull(p) ==
  /\ ProducerAt(p, "release", "idle")
  /\ full_slots' = full_slots + 1
  /\ UNCHANGED <<slotVars, empty_slots, sequence_num, calls, sequence_number,
                 highest_write_received, writerVars, mainVars>>

Producer(p) ==
  AcquireEmpty(p) \/ LockProducer(p) \/ NumberItem(p) \/ StoreItem(p) \/ ReleaseFull(p)

-----------------------------------------------------------------------------
(* DB::writer and RingBuffer::consume.                                     *)

WriterAt(from, to) == writer = from /\ writer' = to

WriterLoop ==
  /\ WriterAt("loop", IF run_writer THEN "acquire" ELSE "stopped")
  /\ container' = <<>>
  /\ UNCHANGED <<slotVars, empty_slots, full_slots, producerVars, applied, mainVars>>

AcquireFull ==
  /\ WriterAt("acquire", "check")
  /\ full_slots > 0
  /\ full_slots' = full_slots - 1
  /\ UNCHANGED <<slotVars, empty_slots, producerVars, container, applied, mainVars>>

CheckStop ==
  /\ WriterAt("check", IF stop_buffer THEN "returned" ELSE "take")
  /\ UNCHANGED <<slotVars, empty_slots, full_slots, producerVars, container, applied, mainVars>>

TakeItem ==
  /\ WriterAt("take", "more")
  /\ container' = Append(container, buffer[out])
  /\ buffer' = [buffer EXCEPT ![out] = 0]
  /\ out' = Advance(out)
  /\ UNCHANGED <<in, empty_slots, full_slots, producerVars, applied, mainVars>>

(* Mutant: try_acquire comes before the comparison with max_elems.         *)
TryMoreFirst ==
  /\ \/ /\ WriterAt("more", IF Len(container) < max_elems THEN "take" ELSE "give_back")
        /\ full_slots > 0
        /\ full_slots' = full_slots - 1
     \/ WriterAt("more", "give_back") /\ UNCHANGED full_slots
  /\ UNCHANGED <<slotVars, empty_slots, producerVars, container, applied, mainVars>>

(* try_acquire fails without a permit and may fail with one.               *)
TryMore ==
  /\ \/ /\ WriterAt("more", "take")
        /\ Len(container) < max_elems /\ full_slots > 0
        /\ full_slots' = full_slots - 1
     \/ WriterAt("more", "give_back") /\ UNCHANGED full_slots
  /\ UNCHANGED <<slotVars, empty_slots, producerVars, container, applied, mainVars>>

(* Mutant: one slot too many is given back.                                *)
TakenAndOne == Len(container) + 1

(* Mutant: the first item of a container is not counted.                   *)
TakenButOne == Len(container) - 1

Taken == Len(container)

GiveBack ==
  /\ WriterAt("give_back", "returned")
  /\ empty_slots' = empty_slots + Taken
  /\ UNCHANGED <<slotVars, full_slots, producerVars, container, applied, mainVars>>

(* The container is applied, or dropped when the destructor has begun.     *)
ApplyContainer ==
  /\ WriterAt("returned", IF run_writer THEN "loop" ELSE "stopped")
  /\ applied' = IF run_writer THEN applied \o container ELSE applied
  /\ UNCHANGED <<slotVars, empty_slots, full_slots, producerVars, container, mainVars>>

Writer ==
  \/ WriterLoop \/ AcquireFull \/ CheckStop \/ TakeItem \/ TryMore \/ GiveBack
  \/ ApplyContainer

-----------------------------------------------------------------------------
(* DB::~DB up to the join of the writer thread, and RingBuffer::stop; no   *)
(* put is in progress.                                                     *)

MainAt(from, to) == main = from /\ main' = to

(* Mutant: the buffer is stopped before the writer is told to stop.        *)
StopWriterLast ==
  \/ /\ MainAt("running", "stop") /\ \A p \in Producers : producer[p] = "idle"
     /\ UNCHANGED <<run_writer, full_slots>>
     /\ stop_buffer' = TRUE
  \/ /\ MainAt("stop", "release") /\ run_writer' = FALSE
     /\ UNCHANGED <<stop_buffer, full_slots>>
  \/ /\ MainAt("release", "join") /\ full_slots' = full_slots + 1
     /\ UNCHANGED <<run_writer, stop_buffer>>

(* Mutant: nothing wakes the writer up.                                    *)
StopSilently ==
  \/ /\ MainAt("running", "stop") /\ \A p \in Producers : producer[p] = "idle"
     /\ run_writer' = FALSE
     /\ UNCHANGED <<stop_buffer, full_slots>>
  \/ /\ MainAt("stop", "join") /\ stop_buffer' = TRUE
     /\ UNCHANGED <<run_writer, full_slots>>

StopWriter ==
  \/ /\ MainAt("running", "stop") /\ \A p \in Producers : producer[p] = "idle"
     /\ run_writer' = FALSE
     /\ UNCHANGED <<stop_buffer, full_slots>>
  \/ /\ MainAt("stop", "release") /\ stop_buffer' = TRUE
     /\ UNCHANGED <<run_writer, full_slots>>
  \/ /\ MainAt("release", "join") /\ full_slots' = full_slots + 1
     /\ UNCHANGED <<run_writer, stop_buffer>>

Stop == StopWriter /\ UNCHANGED <<slotVars, empty_slots, producerVars, writerVars>>

Terminated == main = "join" /\ writer = "stopped" /\ UNCHANGED vars

-----------------------------------------------------------------------------
Next ==
  \/ \E p \in Producers : BeginPut(p) \/ Producer(p)
  \/ Writer
  \/ Stop
  \/ Terminated

Spec == Init /\ [][Next]_vars

(* Every thread that can take a step eventually does; producer_mutex is    *)
(* only ever held for a few steps, so whoever asks for it gets it.         *)
Fairness ==
  /\ WF_vars(Writer)
  /\ WF_vars(Stop /\ main # "running")
  /\ \A p \in Producers :
       WF_vars(Producer(p)) /\ SF_vars(LockProducer(p)) /\ SF_vars(AcquireEmpty(p))

FairSpec == Spec /\ Fairness

-----------------------------------------------------------------------------
TypeOK ==
  /\ buffer \in [Slots -> 0..MaxWrites] /\ in \in Slots /\ out \in Slots
  /\ empty_slots \in Nat /\ full_slots \in Nat
  /\ sequence_number \in 1..(MaxWrites + 1) /\ highest_write_received \in 0..MaxWrites
  /\ producer \in [Producers -> {"idle", "acquire", "lock", "number", "store", "release"}]
  /\ sequence_num \in [Producers -> 0..MaxWrites] /\ calls \in 0..MaxWrites
  /\ writer \in {"loop", "acquire", "check", "take", "more", "give_back", "returned", "stopped"}
  /\ container \in Seq(0..MaxWrites) /\ applied \in Seq(0..MaxWrites)
  /\ main \in {"running", "stop", "release", "join"}
  /\ run_writer \in BOOLEAN /\ stop_buffer \in BOOLEAN

-----------------------------------------------------------------------------
(* Properties.                                                             *)

(* The writer applies the writes in the order of their numbers, each once, *)
(* none missing, and never a slot that holds no write (DB.cpp:225 and      *)
(* DB.cpp:293), also when the destructor's extra permit makes it take an   *)
(* empty slot.                                                             *)
AppliedInOrder == \A i \in 1..Len(applied) : applied[i] = i

(* A producer never overwrites an item that was not consumed, and never    *)
(* stores into the slot that the writer moves an item out of.              *)
NoSlotIsShared ==
  \A p \in Producers : producer[p] = "store" =>
    buffer[in] = 0 /\ (writer = "take" => in # out)

(* A container that is applied is not empty: DB::writer leaves             *)
(* highest_completed uninitialised when it is (DB.cpp:218).                *)
NeverAppliesNothing == writer = "returned" /\ run_writer => container # <<>>

(* Every put returns: the writer keeps making room.                        *)
EveryPutReturns ==
  \A p \in Producers : (producer[p] # "idle") ~> (producer[p] = "idle")

(* Every number a get may wait for is applied, or the destructor began.    *)
EveryNumberIsApplied ==
  \A n \in 1..MaxWrites :
    (highest_write_received >= n) ~> (Len(applied) >= n \/ ~run_writer)

(* The writer ends once it is told to, also when it waits for items.       *)
WriterStops == ~run_writer ~> (writer = "stopped")
=============================================================================
