-------------------------- MODULE AioReaderProofs --------------------------
(***************************************************************************)
(* Proofs about file_reader: for a ring of any number of buffers of any    *)
(* size, a file of any size, any number of seeks and any interleaving of   *)
(* the two threads.                                                        *)
(*                                                                         *)
(* As in the writer the buffers that are ready and not yet delivered form  *)
(* a chain: the first one goes on where the client is, each one where its  *)
(* predecessor ends, and the last one ends at the position of the file.    *)
(* An empty buffer, which means the end of the file, starts there too.     *)
(***************************************************************************)
EXTENDS AioReader, SequenceTheorems, TLAPS

(* The slots of the ring, the oldest first, and their data. *)
Slot(k) == (ready_pos_ + k) % buffer_count
Data(k) == buffers_[Slot(k)]

(* The first ready buffer that has not been delivered: the one in use has. *)
First == IF processing_ THEN 1 ELSE 0
Pending == First..(ready_count_ - 1)

(* The first unit of a buffer. *)
Start(k) == IF Data(k) = <<>> THEN position + 1 ELSE Data(k)[1]

Consecutive == \A k \in Pending : \A j \in 1..Len(Data(k)) : Data(k)[j] = Start(k) + (j - 1)

FollowsGot ==
    /\ Pending = {} => start_offset_ + Len(got) = position
    /\ \A k \in Pending : k = First => Start(k) = start_offset_ + Len(got) + 1

Linked == \A k \in Pending :
    Start(k) + Len(Data(k)) = IF k = ready_count_ - 1 THEN position + 1 ELSE Start(k + 1)

Bounded == start_offset_ + Len(got) <= position /\ \A k \in Pending : Start(k) + Len(Data(k)) <= position + 1

(* Only a worker that is about to return makes an empty buffer ready. *)
EmptyIsLast == \A k \in Pending : Data(k) = <<>> => worker = "done" /\ (remaining_ = 0 \/ shrunk)

(* The ring is in use: no read has failed, and neither a seek nor a close is over it. *)
InUse == ~error_ /\ client \notin {"seeking", "closed"}

Chain == InUse =>
    /\ Consecutive /\ FollowsGot /\ Linked /\ Bounded /\ EmptyIsLast
    /\ position + remaining_ = start_offset_ + size_

(* What the flags say about each other. *)
FlagPhases ==
    /\ quit_ <=> client \in {"seeking", "closing", "closed"}
    /\ error_ => worker = "done"
    /\ client = "closed" => worker = "done"
    /\ processing_ /\ client # "closed" => ready_count_ > 0
    /\ client \in {"seeking", "closing", "closed"} => borrowed = NoSlot
    /\ client = "eof" => worker = "done"
    /\ client = "seeking" => ~error_

(* The worker reads into the slot behind the ready ones. *)
FillsNext == worker = "read" => fill = NextSlot

(* A worker that returned of its own accord has left an empty buffer. *)
LeavesEmpty ==
    worker = "done" /\ ~quit_ /\ ~error_ /\ client \in {"run", "wait"} =>
        First < ready_count_ /\ \A k \in Pending : k = ready_count_ - 1 => Data(k) = <<>>

Phases == FlagPhases /\ FillsNext /\ LeavesEmpty

IInv == Ranges /\ Phases /\ BuffersDisjoint /\ Chain /\ DeliveredInOrder /\ EofIsComplete /\ NoLostWakeup

-----------------------------------------------------------------------------
(* The ring. *)

(* The slot k places behind p wraps at most once. *)
LEMMA RingSlot ==
    ASSUME NEW p \in Slots, NEW k \in 0..buffer_count
    PROVE  (p + k) % buffer_count = IF p + k < buffer_count THEN p + k ELSE p + k - buffer_count
<1> USE BufferCountAssumption DEF Slots
<1>1. CASE p + k < buffer_count
  <2>1. p + k \in 0..(buffer_count - 1)
    BY <1>1
  <2>2. QED
    BY <1>1, <2>1
<1>2. CASE p + k >= buffer_count
  <2>1. p + k \in buffer_count..(2 * buffer_count - 1)
    BY <1>2
  <2>2. QED
    BY <1>2, <2>1
<1>3. QED
  BY <1>1, <1>2

LEMMA RingZero ==
    ASSUME NEW p \in Slots
    PROVE  (p + 0) % buffer_count = p
<1> USE BufferCountAssumption DEF Slots
<1>1. 0 \in 0..buffer_count
  OBVIOUS
<1>2. (p + 0) % buffer_count = IF p + 0 < buffer_count THEN p + 0 ELSE p + 0 - buffer_count
  BY <1>1, RingSlot
<1>3. QED
  BY <1>2

(* Different places are different slots. *)
LEMMA RingInjective ==
    ASSUME NEW p \in Slots, NEW j \in 0..(buffer_count - 1), NEW k \in 0..(buffer_count - 1), j # k
    PROVE  (p + j) % buffer_count # (p + k) % buffer_count
<1> USE BufferCountAssumption DEF Slots
<1>1. j \in 0..buffer_count /\ k \in 0..buffer_count
  OBVIOUS
<1>2. (p + j) % buffer_count = IF p + j < buffer_count THEN p + j ELSE p + j - buffer_count
  BY <1>1, RingSlot
<1>3. (p + k) % buffer_count = IF p + k < buffer_count THEN p + k ELSE p + k - buffer_count
  BY <1>1, RingSlot
<1>4. QED
  BY <1>2, <1>3

LEMMA RingIsSlot ==
    ASSUME NEW p \in Slots, NEW k \in 0..buffer_count
    PROVE  (p + k) % buffer_count \in Slots
  BY RingSlot, BufferCountAssumption DEF Slots

(* When the oldest slot is given up, every place moves by one. *)
LEMMA RingShift ==
    ASSUME NEW p \in Slots, NEW k \in 0..(buffer_count - 1)
    PROVE  (((p + 1) % buffer_count) + k) % buffer_count = (p + (k + 1)) % buffer_count
<1> USE BufferCountAssumption DEF Slots
<1> DEFINE q == (p + 1) % buffer_count
<1>0. 1 \in 0..buffer_count /\ k \in 0..buffer_count /\ k + 1 \in 0..buffer_count
  OBVIOUS
<1>1. q \in Slots /\ q = IF p + 1 < buffer_count THEN p + 1 ELSE p + 1 - buffer_count
  BY <1>0, RingSlot, RingIsSlot
<1> HIDE DEF q
<1>2. (q + k) % buffer_count = IF q + k < buffer_count THEN q + k ELSE q + k - buffer_count
  BY <1>0, <1>1, RingSlot
<1>3. (p + (k + 1)) % buffer_count = IF p + (k + 1) < buffer_count THEN p + (k + 1) ELSE p + (k + 1) - buffer_count
  BY <1>0, RingSlot
<1>4. (q + k) % buffer_count = (p + (k + 1)) % buffer_count
  BY <1>1, <1>2, <1>3
<1>5. QED
  BY <1>4 DEF q

-----------------------------------------------------------------------------
(* The steps, with what OnInput and the wrappers of a call come down to: an event is
   used up or not. *)
Quiet == UNCHANGED events \/ (events > 0 /\ events' = events - 1)

Ignored ==
    /\ client # "wait"
    /\ UNCHANGED <<ring, processing_, quit_, error_, handler_waiting_, called_read_, range, remaining_, signalled_,
                   position, worker, fill, client, borrowed, got, shrunk, seeks>>

Seeks == \E offset \in Offsets \cup {nosize}, limit \in Offsets \cup {nosize} : Seek(offset, limit)

LEMMA StepCases ==
    ASSUME [Next]_vars
    PROVE  \/ Read /\ Quiet
           \/ ReadFails /\ Quiet
           \/ Ignored /\ Quiet
           \/ Seeks \/ SeekJoined \/ Close \/ CloseJoined
           \/ Worker
           \/ UNCHANGED vars
<1>1. OnInput => (Read \/ ReadFails \/ Ignored) /\ Quiet
  BY DEF OnInput, Ignored, Quiet
<1>2. QED
  BY <1>1 DEF Next, Client, Seeks, Quiet

-----------------------------------------------------------------------------
(* Types. *)

LEMMA SizeAtType ==
    ASSUME NEW offset \in 0..FileSize, NEW limit \in Offsets \cup {nosize}
    PROVE  SizeAt(offset, limit) \in 0..FileSize
  BY FileSizeAssumption DEF SizeAt, Minimum, Offsets, nosize

LEMMA InitTypes == Init => Ranges /\ Flags
<1> SUFFICES ASSUME Init
             PROVE  Ranges /\ Flags
  OBVIOUS
<1> USE BufferCountAssumption, FileSizeAssumption, MaxSeeksAssumption
<1>1. start_offset_ \in 0..FileSize /\ max_size_ \in Offsets \cup {nosize}
  BY DEF Init, Offsets, nosize
<1>2. size_ \in 0..FileSize
  BY <1>1, SizeAtType DEF Init
<1>3. Ranges
  BY <1>1, <1>2 DEF Init, Ranges, Slots, NoSlot, Offsets, WorkerStates, ClientStates
<1>4. Flags
  BY DEF Init, Flags
<1>5. QED
  BY <1>3, <1>4

(* What read() does: the buffer in use, if any, is given back and the next one is
   taken, or there is none. *)
LEMMA ReadEffect ==
    ASSUME Ranges, Phases, Read
    PROVE  /\ client \in {"run", "wait"} /\ ~error_ /\ worker # "top" /\ worker' = worker
           /\ First \in {0, 1} /\ First <= ready_count_
           /\ ready_pos_' = Slot(First) /\ ready_count_' = ready_count_ - First
           /\ UNCHANGED <<buffers_, quit_, error_, range, remaining_, position, fill, shrunk, seeks>>
           /\ \/ /\ ready_count_' > 0 /\ processing_' = TRUE /\ borrowed' = ready_pos_'
                 /\ got' = got \o Data(First) /\ client' = IF Data(First) = <<>> THEN "eof" ELSE "run"
                 /\ UNCHANGED handler_waiting_
              \/ /\ ready_count_' = 0 /\ processing_' = FALSE /\ borrowed' = NoSlot
                 /\ got' = got /\ client' = "wait" /\ handler_waiting_' = TRUE
<1> USE BufferCountAssumption
<1>1. client \in {"run", "wait"} /\ ~error_ /\ worker # "top" /\ worker' = worker
  BY DEF Read, Unlocked
<1>2. First \in {0, 1} /\ First <= ready_count_
  BY <1>1 DEF First, Phases, FlagPhases, Ranges
<1>3. ready_pos_ = Slot(0)
  BY RingZero DEF Ranges, Slot
<1>4. CASE processing_
  <2>1. First = 1 /\ Slot(First) = Behind(ready_pos_)
    BY <1>4 DEF First, Slot, Behind
  <2>2. QED
    BY <1>1, <1>2, <1>4, <2>1 DEF Read, ReadOk, ReadWait, Data
<1>5. CASE ~processing_
  <2>1. First = 0 /\ Slot(First) = ready_pos_
    BY <1>3, <1>5 DEF First
  <2>2. ready_count_ - 0 = ready_count_
    BY DEF Ranges
  <2>3. QED
    BY <1>1, <1>2, <1>5, <2>1, <2>2 DEF Read, ReadOk, ReadWait, Data
<1>6. QED
  BY <1>4, <1>5

LEMMA SlotType ==
    ASSUME Ranges, NEW k \in 0..buffer_count
    PROVE  Slot(k) \in Slots /\ Data(k) \in Seq(Nat) /\ Len(Data(k)) \in Nat
<1>1. Slot(k) \in Slots
  BY RingIsSlot DEF Ranges, Slot
<1>2. Data(k) \in Seq(Nat)
  BY <1>1 DEF Ranges, Data
<1>3. QED
  BY <1>1, <1>2, LenProperties

LEMMA ZeroSlot ==
    ASSUME Ranges
    PROVE  Slot(0) = ready_pos_
  BY RingZero DEF Ranges, Slot

(* Giving a buffer back moves every place by one. *)
LEMMA ReadShifts ==
    ASSUME Ranges, First \in {0, 1}, ready_pos_' = Slot(First), NEW k \in 0..buffer_count, k + First <= buffer_count
    PROVE  Slot(k)' = Slot(k + First)
<1> USE BufferCountAssumption
<1>1. CASE First = 0
  <2>1. ready_pos_' = ready_pos_ /\ k + First = k
    BY <1>1, ZeroSlot
  <2>2. QED
    BY <2>1 DEF Slot
<1>2. CASE First = 1
  <2>1. k \in 0..(buffer_count - 1) /\ ready_pos_ \in Slots
    BY <1>2 DEF Ranges
  <2>2. (((ready_pos_ + 1) % buffer_count) + k) % buffer_count = (ready_pos_ + (k + 1)) % buffer_count
    BY <2>1, RingShift
  <2>3. ready_pos_' = (ready_pos_ + 1) % buffer_count
    BY <1>2 DEF Slot
  <2>4. QED
    BY <1>2, <2>2, <2>3 DEF Slot
<1>3. QED
  BY <1>1, <1>2

(* Pops and pushes leave the slot behind the ready ones alone. *)
LEMMA ReadKeepsNextSlot ==
    ASSUME Ranges, Phases, Read
    PROVE  NextSlot' = NextSlot
<1>1. /\ First \in {0, 1} /\ First <= ready_count_ /\ ready_pos_' = Slot(First)
      /\ ready_count_' = ready_count_ - First /\ ready_count_ \in 0..buffer_count
  BY ReadEffect DEF Ranges
<1> DEFINE k == ready_count_ - First
<1>2. k \in 0..buffer_count /\ k + First = ready_count_
  BY <1>1, BufferCountAssumption
<1>3. ASSUME NEW m \in 0..buffer_count, m + First <= buffer_count
      PROVE  (ready_pos_' + m) % buffer_count = (ready_pos_ + (m + First)) % buffer_count
  BY <1>1, <1>3, ReadShifts DEF Slot
<1> HIDE DEF k
<1>4. (ready_pos_' + k) % buffer_count = (ready_pos_ + (k + First)) % buffer_count
  BY <1>1, <1>2, <1>3
<1>5. QED
  BY <1>1, <1>2, <1>4 DEF NextSlot, k

LEMMA FilledType ==
    ASSUME Ranges, NEW n \in Nat
    PROVE  [k \in 1..n |-> position + k] \in Seq(Nat) /\ Len([k \in 1..n |-> position + k]) = n
<1> DEFINE d == [k \in 1..n |-> position + k]
<1>1. d \in [1..n -> Nat]
  BY DEF Ranges
<1>2. QED
  BY <1>1

LEMMA NextRanges ==
    ASSUME Ranges, Phases, BuffersDisjoint, [Next]_vars
    PROVE  Ranges'
<1> USE BufferCountAssumption, BufferSizeAssumption, FileSizeAssumption, MaxSeeksAssumption
<1>1. ASSUME Read, Quiet
      PROVE  Ranges'
  <2>1. ready_count_' \in 0..buffer_count /\ ready_pos_' \in Slots /\ Data(First) \in Seq(Nat) /\ events' \in Nat
    <3>1. First \in 0..buffer_count
      BY <1>1, ReadEffect
    <3>2. Slot(First) \in Slots /\ Data(First) \in Seq(Nat)
      BY <3>1, SlotType
    <3>3. ready_count_' \in 0..buffer_count /\ ready_pos_' = Slot(First)
      <4>1. First \in {0, 1} /\ First <= ready_count_ /\ ready_pos_' = Slot(First) /\ ready_count_' = ready_count_ - First
        BY <1>1, ReadEffect
      <4>2. ready_count_ \in 0..buffer_count
        BY DEF Ranges
      <4> HIDE DEF First
      <4>3. QED
        BY <4>1, <4>2
    <3>4. events' \in Nat
      BY <1>1 DEF Ranges, Quiet
    <3>5. QED
      BY <3>2, <3>3, <3>4
  <2>2. got' \in Seq(Nat)
    <3>1. got \in Seq(Nat)
      BY DEF Ranges
    <3>2. QED
      BY <1>1, <2>1, <3>1, ReadEffect, ConcatProperties
  <2>3. client' \in ClientStates /\ borrowed' \in Slots \cup {NoSlot}
    BY <1>1, <2>1, ReadEffect DEF ClientStates
  <2>4. QED
    BY <1>1, <2>1, <2>2, <2>3, ReadEffect DEF Ranges, range
<1>2. ASSUME ReadFails \/ Ignored, Quiet
      PROVE  Ranges'
  <2>1. events' \in Nat
    BY <1>2 DEF Quiet, Ranges
  <2>2. CASE ReadFails
    BY <2>1, <2>2 DEF ReadFails, Ranges, ring, range, ClientStates
  <2>3. CASE Ignored
    BY <2>1, <2>3 DEF Ignored, Ranges, ring, range
  <2>4. QED
    BY <1>2, <2>2, <2>3
<1>3. ASSUME Seeks
      PROVE  Ranges'
  BY <1>3 DEF Seeks, Seek, Ranges, ring, ClientStates
<1>4. CASE SeekJoined
  <2>1. 0 \in Slots
    BY DEF Slots
  <2>2. start_offset_ <= FileSize => SizeAt(start_offset_, max_size_) \in 0..FileSize
    BY SizeAtType DEF Ranges, Offsets
  <2>3. start_offset_ \in Nat
    BY DEF Ranges, Offsets
  <2>4. QED
    BY <1>4, <2>1, <2>2, <2>3 DEF SeekJoined, Ranges, ClientStates, WorkerStates
<1>5. CASE Close \/ CloseJoined
  BY <1>5 DEF Close, CloseJoined, Ranges, ring, range, ClientStates
<1>6. CASE Worker
  <2>0. NextSlot \in Slots
    BY RingIsSlot DEF Ranges, NextSlot
  <2>1. CASE WorkerStart \/ WorkerSignalled \/ ReadAborted
    BY <2>1 DEF WorkerStart, WorkerSignalled, ReadAborted, Ranges, ring, range, clientVars, WorkerStates
  <2>2. [buffers_ EXCEPT ![NextSlot] = <<>>] \in [Slots -> Seq(Nat)]
    BY <2>0 DEF Ranges
  <2>3. CASE WorkerTop
    <3>1. buffers_' \in [Slots -> Seq(Nat)] /\ fill' \in Slots
      BY <2>0, <2>2, <2>3 DEF WorkerTop, Ranges
    <3>2. QED
      BY <2>3, <3>1 DEF WorkerTop, Ranges, range, clientVars, WorkerStates
  <2>4. Notify => events' \in Nat
    BY DEF Notify, Ranges
  <2>5. CASE WorkerEof
    BY <2>2, <2>4, <2>5 DEF WorkerEof, Ranges, range, clientVars, WorkerStates
  <2>6. CASE ReadError
    BY <2>4, <2>6 DEF ReadError, Ranges, ring, range, clientVars, WorkerStates
  <2>7. ASSUME NEW n \in 0..buffer_size_, ReadData(n)
        PROVE  Ranges'
    <3>1. [k \in 1..n |-> position + k] \in Seq(Nat)
      BY FilledType
    <3>2. buffers_' \in [Slots -> Seq(Nat)] /\ worker' \in WorkerStates
      BY <2>7, <3>1 DEF ReadData, Ranges, WorkerStates
    <3>3. ready_count_' \in 0..buffer_count /\ position' \in Nat
      BY <2>7 DEF ReadData, Ranges, BuffersDisjoint
    <3>4. remaining_' \in 0..FileSize
      BY <2>7 DEF ReadData, Ranges, ToRead, Minimum
    <3>5. QED
      BY <2>4, <2>7, <3>2, <3>3, <3>4 DEF ReadData, Ranges, range, clientVars
  <2>8. QED
    BY <1>6, <2>1, <2>3, <2>5, <2>6, <2>7 DEF Worker
<1>7. CASE UNCHANGED vars
  BY <1>7 DEF vars, Ranges
<1>8. QED
  BY <1>1, <1>2, <1>3, <1>4, <1>5, <1>6, <1>7, StepCases

LEMMA NextFlags ==
    ASSUME Flags, [Next]_vars
    PROVE  Flags'
<1>1. CASE Read
  <2>1. signalled_' \in BOOLEAN
    BY <1>1 DEF Read, SignalCapacity, Flags
  <2>2. QED
    BY <1>1, <2>1 DEF Read, ReadOk, ReadWait, Flags
<1>2. CASE ReadFails \/ Ignored
  BY <1>2 DEF ReadFails, Ignored, Flags
<1>3. CASE Seeks \/ SeekJoined \/ Close \/ CloseJoined
  BY <1>3 DEF Seeks, Seek, SeekJoined, Close, CloseJoined, Flags
<1>4. CASE Worker
  BY <1>4 DEF Worker, WorkerStart, WorkerSignalled, WorkerTop, WorkerEof, ReadAborted, ReadError, ReadData, Notify,
              Flags, clientVars
<1>5. CASE UNCHANGED vars
  BY <1>5 DEF vars, Flags
<1>6. QED
  BY <1>1, <1>2, <1>3, <1>4, <1>5, StepCases

-----------------------------------------------------------------------------
(* The flags of the two threads, and whose buffer is whose. *)

LEMMA NextBuffersDisjoint ==
    ASSUME Ranges, Phases, BuffersDisjoint, [Next]_vars
    PROVE  BuffersDisjoint' /\ FillsNext'
<1> USE BufferCountAssumption
(* The slot behind a ring that is neither empty nor full is not the first one. *)
<1>0. ready_count_ \in 1..(buffer_count - 1) => NextSlot # ready_pos_
  <2>1. ASSUME ready_count_ \in 1..(buffer_count - 1)
        PROVE  NextSlot # ready_pos_
    <3>1. ready_count_ \in 0..(buffer_count - 1) /\ 0 \in 0..(buffer_count - 1) /\ ready_count_ # 0 /\ ready_pos_ \in Slots
      BY <2>1 DEF Ranges
    <3>2. (ready_pos_ + ready_count_) % buffer_count # (ready_pos_ + 0) % buffer_count
      BY <3>1, RingInjective
    <3>3. QED
      BY <3>2, ZeroSlot DEF NextSlot, Slot
  <2>2. QED
    BY <2>1
<1>1. CASE Read
  <2>1. NextSlot' = NextSlot
    BY <1>1, ReadKeepsNextSlot
  <2>2. /\ worker' = worker /\ fill' = fill /\ ready_count_' \in 0..ready_count_ /\ ready_count_ \in 0..buffer_count
        /\ borrowed' # NoSlot => processing_' /\ ready_count_' > 0 /\ borrowed' = ready_pos_'
    <3>1. First \in {0, 1} /\ First <= ready_count_ /\ ready_count_' = ready_count_ - First
      BY <1>1, ReadEffect
    <3>2. ready_count_ \in 0..buffer_count
      BY DEF Ranges
    <3>3. ready_count_' \in 0..ready_count_
      BY <3>1, <3>2
    <3>4. QED
      BY <1>1, <3>2, <3>3, ReadEffect
  <2>3. worker = "read" => fill = NextSlot /\ ready_count_ < buffer_count
    BY DEF Phases, FillsNext, BuffersDisjoint
  <2>4. ready_count_' \in 1..(buffer_count - 1) => NextSlot' # ready_pos_'
    <3>1. First \in {0, 1} /\ First <= ready_count_ /\ ready_pos_' = Slot(First) /\ ready_count_' = ready_count_ - First
      BY <1>1, ReadEffect
    <3>2. ASSUME ready_count_' \in 1..(buffer_count - 1)
          PROVE  NextSlot' # ready_pos_'
      <4>1. ready_pos_' \in Slots
        BY <3>1, SlotType DEF Ranges
      <4>2. ready_count_' \in 0..(buffer_count - 1) /\ 0 \in 0..(buffer_count - 1) /\ ready_count_' # 0
        BY <3>2
      <4>3. (ready_pos_' + ready_count_') % buffer_count # (ready_pos_' + 0) % buffer_count
        BY <4>1, <4>2, RingInjective
      <4>6. (ready_pos_' + 0) % buffer_count = ready_pos_'
        BY <4>1, RingZero
      <4>7. QED
        BY <4>3, <4>6 DEF NextSlot
    <3>3. QED
      BY <3>2
  <2>5. worker' = "read" => fill' = NextSlot' /\ ready_count_' < buffer_count
    BY <2>1, <2>2, <2>3
  <2>6. worker' = "read" => fill' # borrowed'
    <3>1. CASE borrowed' = NoSlot
      BY <2>2, <3>1 DEF Ranges, NoSlot, Slots
    <3>2. CASE borrowed' # NoSlot
      BY <2>2, <2>4, <2>5, <3>2
    <3>3. QED
      BY <3>1, <3>2
  <2>7. QED
    BY <2>2, <2>5, <2>6 DEF BuffersDisjoint, FillsNext
<1>2. CASE ReadFails \/ Seeks \/ Close
  <2>1. UNCHANGED <<worker, fill, ready_pos_, ready_count_>> /\ borrowed' = NoSlot
    BY <1>2 DEF ReadFails, Seeks, Seek, Close, ring
  <2>2. fill # NoSlot
    BY DEF Ranges, NoSlot, Slots
  <2>3. QED
    BY <2>1, <2>2 DEF BuffersDisjoint, NextSlot, Phases, FillsNext
<1>3. CASE Ignored \/ UNCHANGED vars
  BY <1>3 DEF Ignored, vars, ring, BuffersDisjoint, NextSlot, Phases, FillsNext
<1>4. CASE SeekJoined \/ CloseJoined
  <2>1. worker' # "read" /\ borrowed' = NoSlot
    BY <1>4 DEF SeekJoined, CloseJoined, Phases, FlagPhases
  <2>2. QED
    BY <2>1 DEF BuffersDisjoint, FillsNext
<1>5. CASE Worker
  <2>1. UNCHANGED <<borrowed, processing_, ready_pos_, client>>
    BY <1>5 DEF Worker, WorkerStart, WorkerSignalled, WorkerTop, WorkerEof, ReadAborted, ReadError, ReadData,
                ring, clientVars
  <2>2. ready_count_' = ready_count_ \/ ready_count_' = ready_count_ + 1
    BY <1>5 DEF Worker, WorkerStart, WorkerSignalled, WorkerTop, WorkerEof, ReadAborted, ReadError, ReadData, ring
  <2>3. borrowed' # NoSlot => processing_' /\ ready_count_' > 0 /\ borrowed' = ready_pos_'
    BY <2>1, <2>2 DEF BuffersDisjoint, Ranges
  <2>4. CASE worker' = "read"
    <3>1. ready_count_' = ready_count_ /\ fill' = NextSlot /\ ready_count_ < buffer_count
      BY <1>5, <2>4 DEF Worker, WorkerStart, WorkerSignalled, WorkerTop, WorkerEof, ReadAborted, ReadError, ReadData, Ranges
    <3>2. NextSlot' = NextSlot
      BY <2>1, <3>1 DEF NextSlot
    <3>3. fill' # borrowed'
      <4>1. CASE borrowed = NoSlot
        <5>1. NextSlot \in Slots
          BY RingIsSlot DEF Ranges, NextSlot
        <5>2. QED
          BY <2>1, <3>1, <4>1, <5>1 DEF NoSlot, Slots
      <4>2. CASE borrowed # NoSlot
        BY <1>0, <2>1, <3>1, <4>2 DEF BuffersDisjoint, Ranges
      <4>3. QED
        BY <4>1, <4>2
    <3>4. QED
      BY <2>3, <3>1, <3>2, <3>3 DEF BuffersDisjoint, FillsNext
  <2>5. QED
    BY <2>3, <2>4 DEF BuffersDisjoint, FillsNext
<1>6. QED
  BY <1>1, <1>2, <1>3, <1>4, <1>5, StepCases

(* The worker makes the slot it filled ready: the others stay what they are. *)
LEMMA FilledData ==
    ASSUME Ranges, ready_count_ < buffer_count, NEW d, UNCHANGED ready_pos_,
           buffers_' = [buffers_ EXCEPT ![NextSlot] = d]
    PROVE  \A k \in 0..ready_count_ : Data(k)' = IF k = ready_count_ THEN d ELSE Data(k)
<1> USE BufferCountAssumption
<1> SUFFICES ASSUME NEW k \in 0..ready_count_
             PROVE  Data(k)' = IF k = ready_count_ THEN d ELSE Data(k)
  OBVIOUS
<1>1. k \in 0..(buffer_count - 1) /\ ready_count_ \in 0..(buffer_count - 1) /\ ready_pos_ \in Slots
  BY DEF Ranges
<1>2. k # ready_count_ => Slot(k) # NextSlot
  BY <1>1, RingInjective DEF NextSlot, Slot
<1>3. k = ready_count_ => Slot(k) = NextSlot
  BY DEF NextSlot, Slot
<1>4. Slot(k) \in Slots /\ Slot(k)' = Slot(k)
  BY <1>1, SlotType DEF Slot
<1>5. Data(k)' = buffers_'[Slot(k)]
  BY <1>4 DEF Data
<1>6. buffers_ \in [Slots -> Seq(Nat)]
  BY DEF Ranges
<1>7. QED
  BY <1>2, <1>3, <1>4, <1>5, <1>6 DEF Data

LEMMA NextFlagPhases ==
    ASSUME Ranges, Phases, Chain, BuffersDisjoint, [Next]_vars
    PROVE  FlagPhases'
<1> USE DEF Phases
<1>1. CASE Read
  <2>1. /\ UNCHANGED <<quit_, error_, worker>> /\ client \in {"run", "wait"} /\ client' \in {"run", "wait", "eof"}
        /\ processing_' => ready_count_' > 0
    BY <1>1, ReadEffect
  <2>2. ASSUME client' = "eof"
        PROVE  worker = "done"
    <3>1. ready_count_' > 0 /\ Data(First) = <<>> /\ InUse
      BY <1>1, <2>2, ReadEffect DEF InUse
    <3>2. First \in Pending
      <4>1. First \in {0, 1} /\ First <= ready_count_ /\ ready_count_' = ready_count_ - First
        BY <1>1, ReadEffect
      <4>2. ready_count_ \in Nat
        BY DEF Ranges
      <4> HIDE DEF First
      <4>3. QED
        BY <3>1, <4>1, <4>2 DEF Pending
    <3>3. QED
      BY <3>1, <3>2 DEF Chain, EmptyIsLast
  <2>3. QED
    BY <2>1, <2>2 DEF FlagPhases
<1>2. CASE ReadFails \/ Seeks \/ Close \/ Ignored \/ UNCHANGED vars
  BY <1>2 DEF ReadFails, Seeks, Seek, Close, Ignored, vars, ring, FlagPhases
<1>3. CASE SeekJoined
  BY <1>3 DEF SeekJoined, FlagPhases
<1>5. CASE CloseJoined
  BY <1>5 DEF CloseJoined, FlagPhases
<1>4. CASE Worker
  <2>1. UNCHANGED <<quit_, processing_, client, borrowed>>
    BY <1>4 DEF Worker, WorkerStart, WorkerSignalled, WorkerTop, WorkerEof, ReadAborted, ReadError, ReadData, clientVars
  <2>2. ready_count_' = ready_count_ \/ ready_count_' = ready_count_ + 1
    BY <1>4 DEF Worker, WorkerStart, WorkerSignalled, WorkerTop, WorkerEof, ReadAborted, ReadError, ReadData, ring
  <2>3. worker # "done" /\ (error_' = error_ \/ worker' = "done")
    BY <1>4 DEF Worker, WorkerStart, WorkerSignalled, WorkerTop, WorkerEof, ReadAborted, ReadError, ReadData
  <2>4. ready_count_ > 0 => ready_count_' > 0
    BY <2>2 DEF Ranges
  <2>5. quit_ => error_' = error_
    BY <1>4 DEF Worker, WorkerStart, WorkerSignalled, WorkerTop, WorkerEof, ReadAborted, ReadError, ReadData
  <2>6. QED
    BY <2>1, <2>3, <2>4, <2>5 DEF FlagPhases
<1>6. QED
  BY <1>1, <1>2, <1>3, <1>4, <1>5, StepCases

LEMMA NextLeavesEmpty ==
    ASSUME Ranges, Phases, BuffersDisjoint, [Next]_vars
    PROVE  LeavesEmpty'
<1> USE BufferCountAssumption, BufferSizeAssumption DEF Phases
<1>1. CASE Read
  <2>1. UNCHANGED <<quit_, error_, worker, buffers_>> /\ client \in {"run", "wait"} /\ ready_pos_' = Slot(First)
    BY <1>1, ReadEffect
  <2>2. First \in {0, 1} /\ First <= ready_count_ /\ ready_count_' = ready_count_ - First /\ ready_count_ \in 0..buffer_count
    BY <1>1, ReadEffect DEF Ranges
  <2> SUFFICES ASSUME worker = "done", ~quit_, ~error_, client' \in {"run", "wait"}
               PROVE  First' < ready_count_' /\ \A k \in Pending' : k = ready_count_' - 1 => Data(k)' = <<>>
    BY <2>1 DEF LeavesEmpty
  <2>3. First < ready_count_ /\ \A k \in Pending : k = ready_count_ - 1 => Data(k) = <<>>
    BY <2>1 DEF LeavesEmpty
  <2>4. ready_count_' > 0 /\ ready_count_' # 0
    BY <2>2, <2>3
  <2>5. processing_' = TRUE /\ Data(First) # <<>>
    <3>1. processing_' = TRUE /\ client' = IF Data(First) = <<>> THEN "eof" ELSE "run"
      BY <1>1, <2>4, ReadEffect
    <3>2. QED
      BY <3>1
  <2>6. First' = 1
    BY <2>5 DEF First
  <2> HIDE DEF First
  <2>7. First # ready_count_ - 1
    BY <2>2, <2>3, <2>5 DEF Pending
  <2>8. First' < ready_count_'
    BY <2>2, <2>3, <2>6, <2>7
  <2>9. ASSUME NEW k \in Pending', k = ready_count_' - 1
        PROVE  Data(k)' = <<>>
    <3>1. k \in 0..buffer_count /\ k + First = ready_count_ - 1 /\ k + First <= buffer_count /\ k + First \in Pending
      BY <2>2, <2>4, <2>9 DEF Pending
    <3>2. Slot(k)' = Slot(k + First)
      BY <2>1, <2>2, <3>1, ReadShifts
    <3>3. Data(k)' = Data(k + First)
      BY <2>1, <3>2 DEF Data
    <3>4. QED
      BY <2>3, <3>1, <3>3
  <2>10. QED
    BY <2>8, <2>9
<1>2. CASE ReadFails \/ Seeks \/ Close \/ SeekJoined \/ CloseJoined
  BY <1>2 DEF ReadFails, Seeks, Seek, Close, SeekJoined, CloseJoined, LeavesEmpty
<1>3. CASE Ignored \/ UNCHANGED vars
  BY <1>3 DEF Ignored, vars, ring, LeavesEmpty, Pending, First, Data, Slot
<1>4. CASE Worker
  <2>1. CASE WorkerEof \/ \E n \in 0..buffer_size_ : ReadData(n)
    <3> SUFFICES ASSUME worker' = "done", client \in {"run", "wait"}
                 PROVE  First' < ready_count_' /\ \A k \in Pending' : k = ready_count_' - 1 => Data(k)' = <<>>
      BY <2>1 DEF LeavesEmpty, WorkerEof, ReadData, clientVars
    <3>1. /\ buffers_' = [buffers_ EXCEPT ![NextSlot] = <<>>]
          /\ ready_count_ < buffer_count /\ ready_count_' = ready_count_ + 1
          /\ UNCHANGED <<ready_pos_, processing_>>
      <4>1. CASE WorkerEof
        BY <4>1 DEF WorkerEof, clientVars
      <4>2. ASSUME NEW n \in 0..buffer_size_, ReadData(n)
            PROVE  <3>1!:
        <5>1. n = 0
          BY <4>2 DEF ReadData
        <5>2. [k \in 1..n |-> position + k] = <<>>
          BY <5>1
        <5>3. fill = NextSlot /\ ready_count_ < buffer_count
          BY <4>2 DEF ReadData, FillsNext, BuffersDisjoint
        <5>4. QED
          BY <4>2, <5>2, <5>3 DEF ReadData, clientVars
      <4>3. QED
        BY <2>1, <4>1, <4>2
    <3>2. First' = First /\ First \in {0, 1} /\ First <= ready_count_ /\ ready_count_ \in Nat
      BY <3>1 DEF First, FlagPhases, Ranges
    <3> HIDE DEF First
    <3>3. First' < ready_count_'
      BY <3>1, <3>2
    <3>4. ASSUME NEW k \in Pending', k = ready_count_' - 1
          PROVE  Data(k)' = <<>>
      <4>1. k = ready_count_ /\ k \in 0..ready_count_
        BY <3>1, <3>2, <3>4
      <4>2. QED
        BY <3>1, <4>1, FilledData
    <3>5. QED
      BY <3>3, <3>4
  <2>2. CASE WorkerStart \/ WorkerSignalled \/ WorkerTop \/ ReadAborted \/ ReadError
    BY <2>2 DEF WorkerStart, WorkerSignalled, WorkerTop, ReadAborted, ReadError, LeavesEmpty, clientVars
  <2>3. QED
    BY <1>4, <2>1, <2>2 DEF Worker
<1>5. QED
  BY <1>1, <1>2, <1>3, <1>4, StepCases

LEMMA NextNoLostWakeup ==
    ASSUME Ranges, Phases, NoLostWakeup, [Next]_vars
    PROVE  NoLostWakeup'
<1> USE DEF Phases
<1>1. CASE Read /\ Quiet
  <2> SUFFICES ASSUME client' = "wait"
               PROVE  handler_waiting_' /\ worker' # "done"
    BY DEF NoLostWakeup
  <2>1. /\ ready_count_' = 0 /\ handler_waiting_' /\ worker' = worker /\ ~error_ /\ client \in {"run", "wait"}
        /\ ready_count_' = ready_count_ - First
    BY <1>1, ReadEffect
  <2>2. ~quit_
    BY <2>1 DEF FlagPhases
  <2>3. ~(First < ready_count_)
    BY <2>1 DEF Ranges, First
  <2>4. QED
    BY <2>1, <2>2, <2>3 DEF LeavesEmpty
<1>2. CASE ReadFails \/ Seeks \/ Close \/ SeekJoined \/ CloseJoined \/ (Ignored /\ Quiet) \/ UNCHANGED vars
  BY <1>2 DEF ReadFails, Seeks, Seek, Close, SeekJoined, CloseJoined, Ignored, vars, NoLostWakeup
<1>3. CASE Worker
  <2>1. CASE WorkerStart \/ WorkerSignalled \/ WorkerTop \/ ReadAborted
    BY <2>1 DEF WorkerStart, WorkerSignalled, WorkerTop, ReadAborted, NoLostWakeup, FlagPhases, clientVars
  <2>2. CASE WorkerEof \/ ReadError \/ \E n \in 0..buffer_size_ : ReadData(n)
    <3>1. Notify /\ client' = client /\ worker # "done"
      BY <2>2 DEF WorkerEof, ReadError, ReadData, clientVars
    <3>2. QED
      BY <3>1 DEF Notify, NoLostWakeup, Ranges
  <2>3. QED
    BY <1>3, <2>1, <2>2 DEF Worker
<1>4. QED
  BY <1>1, <1>2, <1>3, StepCases

-----------------------------------------------------------------------------
(* The data in the ring. *)

LEMMA PendingType ==
    ASSUME Ranges
    PROVE  /\ First \in {0, 1}
           /\ \A k \in Pending : k \in 0..(ready_count_ - 1) /\ k \in 0..buffer_count /\ Len(Data(k)) \in Nat
                                 /\ Data(k) \in Seq(Nat) /\ Start(k) \in Nat
<1> USE BufferCountAssumption
<1>1. First \in {0, 1}
  BY DEF First
<1>2. ready_count_ \in 0..buffer_count /\ position \in Nat
  BY DEF Ranges
<1>3. ASSUME NEW k \in Pending
      PROVE  k \in 0..(ready_count_ - 1) /\ k \in 0..buffer_count
  BY <1>1, <1>2 DEF Pending
<1>4. ASSUME NEW k \in Pending
      PROVE  Len(Data(k)) \in Nat /\ Data(k) \in Seq(Nat)
  BY <1>3, SlotType
<1>5. ASSUME NEW k \in Pending
      PROVE  Start(k) \in Nat
  <2>1. CASE Data(k) = <<>>
    BY <1>2, <2>1 DEF Start
  <2>2. CASE Data(k) # <<>>
    <3>1. 1 \in 1..Len(Data(k))
      BY <1>4, <2>2, EmptySeq
    <3>2. Data(k)[1] \in Nat
      BY <1>4, <3>1, ElementOfSeq
    <3>3. QED
      BY <2>2, <3>2 DEF Start
  <2>3. QED
    BY <2>1, <2>2
<1>6. QED
  BY <1>1, <1>3, <1>4, <1>5

(* A step that takes neither data in nor out leaves the chain as it is. *)
LEMMA ChainUnchanged ==
    ASSUME Ranges, Chain, InUse' => InUse,
           UNCHANGED <<ready_pos_, ready_count_, processing_, got, position, start_offset_, size_, remaining_>>,
           \A k \in Pending : Data(k)' = Data(k),
           worker = "done" => worker' = "done" /\ shrunk' = shrunk
    PROVE  Chain'
<1> SUFFICES ASSUME InUse, InUse'
             PROVE  /\ Consecutive' /\ FollowsGot' /\ Linked' /\ Bounded' /\ EmptyIsLast'
                    /\ position' + remaining_' = start_offset_' + size_'
  BY DEF Chain
<1>0. /\ Consecutive /\ FollowsGot /\ Linked /\ Bounded /\ EmptyIsLast
      /\ position + remaining_ = start_offset_ + size_
  BY DEF Chain
<1>1. First' = First /\ Pending' = Pending
  BY DEF First, Pending
<1>2. \A k \in Pending : Data(k)' = Data(k) /\ Start(k)' = Start(k)
  BY DEF Start
<1>3. Consecutive'
  BY <1>0, <1>1, <1>2 DEF Consecutive
<1>4. EmptyIsLast'
  BY <1>0, <1>1, <1>2 DEF EmptyIsLast
<1>5. Bounded'
  BY <1>0, <1>1, <1>2 DEF Bounded
<1>6. FollowsGot'
  BY <1>0, <1>1, <1>2 DEF FollowsGot
<1>7. Linked'
  <2> SUFFICES ASSUME NEW k \in Pending
               PROVE  (Start(k)' + Len(Data(k)') = IF k = ready_count_ - 1 THEN position + 1 ELSE Start(k + 1)')
    BY <1>1 DEF Linked
  <2>1. Start(k) + Len(Data(k)) = IF k = ready_count_ - 1 THEN position + 1 ELSE Start(k + 1)
    BY <1>0 DEF Linked
  <2>2. k # ready_count_ - 1 => k + 1 \in Pending
    BY PendingType DEF Pending, Ranges
  <2>3. QED
    BY <1>2, <2>1, <2>2
<1>8. QED
  BY <1>0, <1>3, <1>4, <1>5, <1>6, <1>7

(* The worker makes a buffer ready that goes on where the file position was. *)
LEMMA PushKeepsChain ==
    ASSUME Ranges, Phases, Chain, InUse, InUse', worker # "done", ready_count_ < buffer_count,
           NEW n \in Nat, NEW d \in Seq(Nat), Len(d) = n,
           \A j \in 1..n : d[j] = position + j,
           buffers_' = [buffers_ EXCEPT ![NextSlot] = d],
           ready_count_' = ready_count_ + 1, position' = position + n, remaining_' = remaining_ - n,
           n = 0 => worker' = "done" /\ (remaining_' = 0 \/ shrunk'),
           UNCHANGED <<ready_pos_, processing_, got, start_offset_, size_>>
    PROVE  Chain'
<1> USE BufferCountAssumption
<1>0. /\ Consecutive /\ FollowsGot /\ Linked /\ Bounded /\ EmptyIsLast
      /\ position + remaining_ = start_offset_ + size_
  BY DEF Chain
<1>1. /\ ready_count_ \in Nat /\ position \in Nat /\ start_offset_ \in Nat /\ Len(got) \in Nat
      /\ remaining_ \in Nat /\ size_ \in Nat
  BY FileSizeAssumption, LenProperties DEF Ranges, Offsets
<1>2. First' = First /\ First \in {0, 1} /\ First <= ready_count_
  BY <1>1 DEF First, Phases, FlagPhases, InUse
<1> HIDE DEF First
<1>3. Pending' = Pending \cup {ready_count_} /\ ready_count_ \notin Pending
  BY <1>1, <1>2 DEF Pending
<1>4. \A k \in Pending : Data(k) # <<>> /\ Data(k)' = Data(k)
  <2> SUFFICES ASSUME NEW k \in Pending
               PROVE  Data(k) # <<>> /\ Data(k)' = Data(k)
    OBVIOUS
  <2>1. Data(k) # <<>>
    BY <1>0 DEF EmptyIsLast
  <2>2. k \in 0..ready_count_ /\ k # ready_count_
    BY <1>1, PendingType
  <2>3. QED
    BY <2>1, <2>2, FilledData
<1>5. \A k : k = ready_count_ => Data(k)' = d
  <2>1. ready_count_ \in 0..ready_count_
    BY <1>1
  <2>2. \A k \in 0..ready_count_ : Data(k)' = IF k = ready_count_ THEN d ELSE Data(k)
    BY FilledData
  <2>3. QED
    BY <2>1, <2>2
<1>6. \A k \in Pending : Start(k)' = Start(k)
  BY <1>4 DEF Start
<1>7. \A k : k = ready_count_ => Start(k)' = position + 1
  <2>1. CASE d = <<>>
    <3>1. n = 0 /\ position' = position
      BY <1>1, <2>1, EmptySeq
    <3>2. QED
      BY <1>5, <2>1, <3>1 DEF Start
  <2>2. CASE d # <<>>
    <3>1. 1 \in 1..n
      BY <2>2, EmptySeq
    <3>2. QED
      BY <1>5, <2>2, <3>1 DEF Start
  <2>3. QED
    BY <2>1, <2>2
<1>8. \A k \in Pending : Start(k) \in Nat /\ Len(Data(k)) \in Nat /\ k \in 0..(ready_count_ - 1)
  BY PendingType
<1>9. Consecutive'
  <2> SUFFICES ASSUME NEW k \in Pending \cup {ready_count_}, NEW j \in 1..Len(Data(k)')
               PROVE  Data(k)'[j] = Start(k)' + (j - 1)
    BY <1>3 DEF Consecutive
  <2>1. CASE k \in Pending
    BY <1>0, <1>4, <1>6, <2>1 DEF Consecutive
  <2>2. CASE k = ready_count_
    <3>1. Data(k)' = d /\ Start(k)' = position + 1 /\ j \in 1..n
      BY <1>5, <1>7, <2>2
    <3>2. d[j] = position + j
      BY <3>1
    <3>3. QED
      BY <1>1, <3>1, <3>2
  <2>3. QED
    BY <2>1, <2>2
<1>10. FollowsGot'
  <2>1. Pending' # {}
    BY <1>3
  <2> SUFFICES ASSUME NEW k \in Pending \cup {ready_count_}, k = First
               PROVE  Start(k)' = start_offset_ + Len(got) + 1
    BY <1>2, <1>3, <2>1 DEF FollowsGot
  <2>2. CASE k \in Pending
    BY <1>0, <1>6, <2>2 DEF FollowsGot
  <2>3. CASE k = ready_count_
    <3>1. Pending = {}
      BY <1>1, <1>2, <2>3 DEF Pending
    <3>2. QED
      BY <1>0, <1>1, <1>7, <2>3, <3>1 DEF FollowsGot
  <2>4. QED
    BY <2>2, <2>3
<1>11. Linked'
  <2> SUFFICES ASSUME NEW k \in Pending \cup {ready_count_}
               PROVE  (Start(k)' + Len(Data(k)') = IF k = ready_count_' - 1 THEN position' + 1 ELSE Start(k + 1)')
    BY <1>3 DEF Linked
  <2>0. ready_count_' - 1 = ready_count_
    BY <1>1
  <2>1. CASE k = ready_count_
    BY <1>1, <1>5, <1>7, <2>0, <2>1
  <2>2. CASE k \in Pending
    <3>1. Start(k) + Len(Data(k)) = IF k = ready_count_ - 1 THEN position + 1 ELSE Start(k + 1)
      BY <1>0, <2>2 DEF Linked
    <3>2. k # ready_count_ /\ Start(k)' + Len(Data(k)') = Start(k) + Len(Data(k))
      BY <1>3, <1>4, <1>6, <2>2
    <3>3. CASE k = ready_count_ - 1
      <4>1. k + 1 = ready_count_
        BY <1>1, <3>3
      <4>2. Start(k + 1)' = position + 1
        BY <1>7, <4>1
      <4>3. QED
        BY <2>0, <3>1, <3>2, <3>3, <4>2
    <3>4. CASE k # ready_count_ - 1
      <4>1. k + 1 \in Pending
        BY <1>1, <1>2, <2>2, <3>4 DEF Pending
      <4>2. QED
        BY <1>6, <2>0, <3>1, <3>2, <3>4, <4>1
    <3>5. QED
      BY <3>3, <3>4
  <2>3. QED
    BY <2>1, <2>2
<1>12. Bounded'
  <2>1. start_offset_ + Len(got) <= position + n
    BY <1>0, <1>1 DEF Bounded
  <2> SUFFICES ASSUME NEW k \in Pending \cup {ready_count_}
               PROVE  Start(k)' + Len(Data(k)') <= position + n + 1
    BY <1>3, <2>1 DEF Bounded
  <2>2. CASE k = ready_count_
    BY <1>1, <1>5, <1>7, <2>2
  <2>3. CASE k \in Pending
    <3>1. Start(k) + Len(Data(k)) <= position + 1
      BY <1>0, <2>3 DEF Bounded
    <3>2. QED
      BY <1>1, <1>4, <1>6, <1>8, <2>3, <3>1
  <2>4. QED
    BY <2>2, <2>3
<1>13. EmptyIsLast'
  <2>1. d = <<>> => n = 0
    BY EmptySeq
  <2>2. QED
    BY <1>3, <1>4, <1>5, <2>1 DEF EmptyIsLast
<1>14. position' + remaining_' = start_offset_' + size_'
  BY <1>0, <1>1
<1>15. QED
  BY <1>9, <1>10, <1>11, <1>12, <1>13, <1>14 DEF Chain

(* What read() delivers goes on where the client was. *)
LEMMA ReadDelivers ==
    ASSUME Ranges, Phases, Chain, Read, ready_count_' # 0
    PROVE  /\ First \in Pending /\ Data(First) \in Seq(Nat) /\ Len(Data(First)) \in Nat
           /\ got' = got \o Data(First) /\ got \in Seq(Nat) /\ Len(got) \in Nat
           /\ Len(got') = Len(got) + Len(Data(First))
           /\ Start(First) = start_offset_ + Len(got) + 1
           /\ \A j \in 1..Len(Data(First)) : Data(First)[j] = start_offset_ + (Len(got) + j)
           /\ InUse /\ processing_' = TRUE /\ start_offset_ \in Nat
<1>1. InUse
  BY ReadEffect DEF InUse
<1>2. got' = got \o Data(First) /\ processing_' = TRUE
  BY ReadEffect
<1>3. First \in Pending
  <2>1. First \in {0, 1} /\ First <= ready_count_ /\ ready_count_' = ready_count_ - First
    BY ReadEffect
  <2>2. ready_count_ \in Nat
    BY DEF Ranges
  <2> HIDE DEF First
  <2>3. QED
    BY <2>1, <2>2 DEF Pending
<1>4. Data(First) \in Seq(Nat) /\ Len(Data(First)) \in Nat
  BY <1>3, PendingType
<1>5. got \in Seq(Nat) /\ Len(got) \in Nat /\ start_offset_ \in Nat
  BY LenProperties, FileSizeAssumption DEF Ranges, Offsets
<1>6. Len(got') = Len(got) + Len(Data(First))
  BY <1>2, <1>4, <1>5, ConcatProperties
<1>7. Start(First) = start_offset_ + Len(got) + 1
  BY <1>1, <1>3 DEF Chain, FollowsGot
<1>8. \A j \in 1..Len(Data(First)) : Data(First)[j] = Start(First) + (j - 1)
  BY <1>1, <1>3 DEF Chain, Consecutive
<1> HIDE DEF First
<1>9. \A j \in 1..Len(Data(First)) : Data(First)[j] = start_offset_ + (Len(got) + j)
  BY <1>4, <1>5, <1>7, <1>8
<1>10. QED
  BY <1>1, <1>2, <1>3, <1>4, <1>5, <1>6, <1>7, <1>9

LEMMA ReadKeepsChain ==
    ASSUME Ranges, Phases, Chain, Read
    PROVE  Chain'
<1> USE BufferCountAssumption
<1>1. /\ First \in {0, 1} /\ First <= ready_count_ /\ ready_pos_' = Slot(First) /\ ready_count_' = ready_count_ - First
      /\ UNCHANGED <<buffers_, remaining_, position, shrunk, worker, start_offset_, size_>>
  BY ReadEffect DEF range
<1>2. /\ ready_count_ \in 0..buffer_count /\ position \in Nat /\ start_offset_ \in Nat /\ Len(got) \in Nat
  BY FileSizeAssumption, LenProperties DEF Ranges, Offsets
<1>3. InUse
  BY ReadEffect DEF InUse
<1>4. /\ Consecutive /\ FollowsGot /\ Linked /\ Bounded /\ EmptyIsLast
      /\ position + remaining_ = start_offset_ + size_
  BY <1>3 DEF Chain
<1>5. CASE ready_count_' = 0
  <2>1. processing_' = FALSE /\ got' = got
    <3>1. ~(ready_count_' > 0)
      BY <1>5
    <3>2. QED
      BY <3>1, ReadEffect
  <2>2. Pending = {}
    <3> HIDE DEF First
    <3>1. QED
      BY <1>1, <1>2, <1>5 DEF Pending
  <2>3. start_offset_ + Len(got) = position
    BY <1>4, <2>2 DEF FollowsGot
  <2>4. First' = 0
    BY <2>1 DEF First
  <2>5. Pending' = {}
    BY <1>5, <2>4 DEF Pending
  <2>6. QED
    BY <1>1, <1>2, <1>4, <2>1, <2>3, <2>5 DEF Chain, Consecutive, FollowsGot, Linked, Bounded, EmptyIsLast
<1>6. CASE ready_count_' # 0
  <2>1. /\ First \in Pending /\ Len(Data(First)) \in Nat /\ Len(got') = Len(got) + Len(Data(First))
        /\ Start(First) = start_offset_ + Len(got) + 1 /\ processing_' = TRUE
    BY <1>6, ReadDelivers
  <2>2. First' = 1
    BY <2>1 DEF First
  <2> HIDE DEF First
  <2>3. \A k \in Pending' : k + First \in Pending /\ k + First # First
    BY <1>1, <1>2, <2>2 DEF Pending
  <2>4. \A k \in Pending' : Data(k)' = Data(k + First) /\ Start(k)' = Start(k + First)
    <3> SUFFICES ASSUME NEW k \in Pending'
                 PROVE  Data(k)' = Data(k + First) /\ Start(k)' = Start(k + First)
      OBVIOUS
    <3>1. k \in 0..buffer_count /\ k + First <= buffer_count
      BY <1>1, <1>2, <2>2 DEF Pending
    <3>2. Slot(k)' = Slot(k + First)
      BY <1>1, <3>1, ReadShifts
    <3>3. Data(k)' = Data(k + First)
      BY <1>1, <3>2 DEF Data
    <3>4. QED
      BY <1>1, <3>3 DEF Start
  <2>5. Consecutive'
    BY <1>4, <2>3, <2>4 DEF Consecutive
  <2>6. Start(First) + Len(Data(First)) = IF First = ready_count_ - 1 THEN position + 1 ELSE Start(First + 1)
    BY <1>4, <2>1 DEF Linked
  <2>7. Start(First) + Len(Data(First)) = start_offset_ + Len(got') + 1
    BY <1>2, <2>1
  <2>8. FollowsGot'
    <3>1. CASE First = ready_count_ - 1
      <4>1. Pending' = {}
        BY <1>1, <1>2, <2>2, <3>1 DEF Pending
      <4>2. start_offset_ + Len(got') = position
        BY <1>2, <2>1, <2>6, <2>7, <3>1
      <4>3. QED
        BY <1>1, <4>1, <4>2 DEF FollowsGot
    <3>2. CASE First # ready_count_ - 1
      <4>1. 1 \in Pending'
        BY <1>1, <1>2, <1>6, <2>2, <3>2 DEF Pending
      <4>2. Start(1)' = Start(First + 1)
        <5>1. 1 + First = First + 1
          BY <1>1
        <5>2. QED
          BY <2>4, <4>1, <5>1
      <4>3. Start(1)' = start_offset_' + Len(got') + 1
        BY <1>1, <2>6, <2>7, <3>2, <4>2
      <4>4. QED
        BY <2>2, <4>1, <4>3 DEF FollowsGot
    <3>3. QED
      BY <3>1, <3>2
  <2>9. Linked'
    <3> SUFFICES ASSUME NEW k \in Pending'
                 PROVE  (Start(k)' + Len(Data(k)') = IF k = ready_count_' - 1 THEN position' + 1 ELSE Start(k + 1)')
      BY DEF Linked
    <3>1. /\ k \in Int /\ (k = ready_count_' - 1 <=> k + First = ready_count_ - 1)
          /\ (k # ready_count_' - 1 => k + 1 \in Pending')
      BY <1>1, <1>2, <2>2 DEF Pending
    <3>2. Start(k + First) + Len(Data(k + First))
             = IF k + First = ready_count_ - 1 THEN position + 1 ELSE Start((k + First) + 1)
      BY <1>4, <2>3 DEF Linked
    <3>3. (k + 1) + First = (k + First) + 1
      BY <1>1, <3>1
    <3>4. QED
      BY <1>1, <2>4, <3>1, <3>2, <3>3
  <2>10. Bounded'
    <3>1. Start(First) + Len(Data(First)) <= position + 1
      BY <1>4, <2>1 DEF Bounded
    <3>2. start_offset_ + Len(got') <= position
      BY <1>2, <2>1, <2>7, <3>1
    <3>3. QED
      BY <1>1, <1>4, <2>3, <2>4, <3>2 DEF Bounded
  <2>11. EmptyIsLast'
    BY <1>1, <1>4, <2>3, <2>4 DEF EmptyIsLast
  <2>12. QED
    BY <1>1, <1>4, <2>5, <2>8, <2>9, <2>10, <2>11 DEF Chain
<1>7. QED
  BY <1>5, <1>6

(* After a seek nothing is in the ring and the file is at its offset. *)
LEMMA SeekJoinedStartsChain ==
    ASSUME Ranges, SeekJoined
    PROVE  Chain'
<1> SUFFICES ASSUME InUse'
             PROVE  Chain'
  BY DEF Chain
<1>1. start_offset_ <= FileSize /\ position' = start_offset_ /\ remaining_' = size_' /\ got' = <<>>
  BY DEF SeekJoined, InUse
<1>2. start_offset_' = start_offset_ /\ start_offset_ \in Nat /\ Len(<<>>) = 0
  BY FileSizeAssumption DEF SeekJoined, Ranges, Offsets
<1>3. First' = 0 /\ ready_count_' = 0
  BY DEF SeekJoined, First
<1>4. Pending' = {}
  BY <1>3 DEF Pending
<1>5. FollowsGot' /\ Bounded'
  BY <1>1, <1>2, <1>4 DEF FollowsGot, Bounded
<1>6. Consecutive' /\ Linked' /\ EmptyIsLast'
  BY <1>4 DEF Consecutive, Linked, EmptyIsLast
<1>7. position' + remaining_' = start_offset_' + size_'
  BY <1>1, <1>2
<1>8. QED
  BY <1>5, <1>6, <1>7 DEF Chain

LEMMA NextChain ==
    ASSUME Ranges, Phases, BuffersDisjoint, Chain, [Next]_vars
    PROVE  Chain'
<1> USE BufferCountAssumption, BufferSizeAssumption
<1>1. CASE ReadFails \/ Ignored \/ Close \/ UNCHANGED vars
  <2>1. /\ UNCHANGED <<buffers_, ready_pos_, ready_count_, processing_, got, position, start_offset_, size_,
                       remaining_, worker, shrunk>>
        /\ InUse' => InUse
    BY <1>1 DEF ReadFails, Ignored, Close, vars, ring, range, InUse
  <2>2. \A k \in Pending : Data(k)' = Data(k)
    BY <2>1 DEF Data, Slot
  <2>3. QED
    BY <2>1, <2>2, ChainUnchanged
<1>2. CASE Seeks \/ CloseJoined
  BY <1>2 DEF Seeks, Seek, CloseJoined, Chain, InUse
<1>3. CASE Worker
  <2>0. worker # "done"
    BY <1>3 DEF Worker, WorkerStart, WorkerSignalled, WorkerTop, WorkerEof, ReadAborted, ReadError, ReadData
  <2>1. CASE WorkerStart \/ WorkerSignalled \/ ReadAborted
    <3>1. /\ UNCHANGED <<buffers_, ready_pos_, ready_count_, processing_, got, position, start_offset_, size_, remaining_>>
          /\ InUse' => InUse
      BY <2>1 DEF WorkerStart, WorkerSignalled, ReadAborted, ring, range, clientVars, InUse
    <3>2. \A k \in Pending : Data(k)' = Data(k)
      BY <3>1 DEF Data, Slot
    <3>3. QED
      BY <2>0, <3>1, <3>2, ChainUnchanged
  <2>2. CASE WorkerTop
    <3>1. /\ UNCHANGED <<ready_pos_, ready_count_, processing_, got, position, start_offset_, size_, remaining_>>
          /\ InUse' => InUse
      BY <2>2 DEF WorkerTop, range, clientVars, InUse
    <3>2. ASSUME NEW k \in Pending
          PROVE  Data(k)' = Data(k)
      <4>1. CASE worker' = "read"
        <5>1. ready_count_ < buffer_count /\ buffers_' = [buffers_ EXCEPT ![NextSlot] = <<>>]
          BY <2>2, <4>1 DEF WorkerTop, Ranges
        <5>2. k \in 0..ready_count_ /\ k # ready_count_
          BY PendingType DEF Ranges
        <5>3. QED
          BY <3>1, <5>1, <5>2, FilledData
      <4>2. CASE worker' # "read"
        <5>1. buffers_' = buffers_
          BY <2>2, <4>2 DEF WorkerTop
        <5>2. QED
          BY <3>1, <5>1 DEF Data, Slot
      <4>3. QED
        BY <4>1, <4>2
    <3>3. QED
      BY <2>0, <3>1, <3>2, ChainUnchanged
  <2>3. CASE WorkerEof
    <3> SUFFICES ASSUME InUse'
                 PROVE  Chain'
      BY DEF Chain
    <3>1. /\ InUse /\ ready_count_ < buffer_count /\ buffers_' = [buffers_ EXCEPT ![NextSlot] = <<>>]
          /\ ready_count_' = ready_count_ + 1 /\ worker' = "done"
          /\ UNCHANGED <<ready_pos_, processing_, got, start_offset_, size_, position, remaining_>>
      BY <2>3 DEF WorkerEof, InUse, range, clientVars
    <3>2. remaining_ = 0
      BY <2>3 DEF WorkerEof, ToRead, Minimum, Ranges
    <3>3. position' = position + 0 /\ remaining_' = remaining_ - 0 /\ remaining_' = 0
      BY <3>1, <3>2 DEF Ranges
    <3>4. <<>> \in Seq(Nat) /\ Len(<<>>) = 0 /\ 0 \in Nat
      OBVIOUS
    <3>5. \A j \in 1..0 : <<>>[j] = position + j
      OBVIOUS
    <3>6. QED
      BY <2>0, <3>1, <3>3, <3>4, <3>5, PushKeepsChain
  <2>4. CASE ReadError
    BY <2>4 DEF ReadError, Chain, InUse
  <2>5. ASSUME NEW n \in 0..buffer_size_, ReadData(n)
        PROVE  Chain'
    <3> SUFFICES ASSUME InUse'
                 PROVE  Chain'
      BY DEF Chain
    <3> DEFINE d == [k \in 1..n |-> position + k]
    <3>1. n \in Nat /\ d \in Seq(Nat) /\ Len(d) = n /\ \A j \in 1..n : d[j] = position + j
      BY FilledType
    <3>2. fill = NextSlot /\ ready_count_ < buffer_count
      BY <2>5 DEF ReadData, Phases, FillsNext, BuffersDisjoint
    <3>3. /\ buffers_' = [buffers_ EXCEPT ![NextSlot] = d]
          /\ ready_count_' = ready_count_ + 1 /\ position' = position + n /\ remaining_' = remaining_ - n
          /\ UNCHANGED <<ready_pos_, processing_, got, start_offset_, size_>>
      BY <2>5, <3>2 DEF ReadData, range, clientVars
    <3>4. InUse /\ (n = 0 => worker' = "done" /\ shrunk')
      BY <2>5 DEF ReadData, InUse, clientVars
    <3> HIDE DEF d
    <3>5. QED
      BY <2>0, <3>1, <3>2, <3>3, <3>4, PushKeepsChain
  <2>6. QED
    BY <1>3, <2>1, <2>2, <2>3, <2>4, <2>5 DEF Worker
<1>4. QED
  BY <1>1, <1>2, <1>3, ReadKeepsChain, SeekJoinedStartsChain, StepCases

LEMMA OrderGrows ==
    ASSUME NEW a \in Nat, NEW f \in Seq(Nat), NEW d \in Seq(Nat),
           \A k \in DOMAIN f : f[k] = a + k,
           \A j \in 1..Len(d) : d[j] = a + (Len(f) + j)
    PROVE  \A k \in DOMAIN (f \o d) : (f \o d)[k] = a + k
<1>1. /\ Len(f) \in Nat /\ Len(d) \in Nat /\ DOMAIN f = 1..Len(f)
      /\ DOMAIN (f \o d) = 1..(Len(f) + Len(d))
  BY LenProperties, ConcatProperties
<1>2. \A k \in 1..(Len(f) + Len(d)) : (f \o d)[k] = IF k <= Len(f) THEN f[k] ELSE d[k - Len(f)]
  BY ConcatProperties
<1> SUFFICES ASSUME NEW k \in 1..(Len(f) + Len(d))
             PROVE  (f \o d)[k] = a + k
  BY <1>1
<1>3. CASE k <= Len(f)
  <2>1. k \in DOMAIN f
    BY <1>1, <1>3
  <2>2. f[k] = a + k
    BY <2>1
  <2>3. QED
    BY <1>2, <1>3, <2>2
<1>4. CASE k > Len(f)
  <2>1. k - Len(f) \in 1..Len(d)
    BY <1>1, <1>4
  <2>2. d[k - Len(f)] = a + (Len(f) + (k - Len(f)))
    BY <2>1
  <2>3. QED
    BY <1>1, <1>2, <1>4, <2>2
<1>5. QED
  BY <1>1, <1>3, <1>4

LEMMA NextDeliveredInOrder ==
    ASSUME Ranges, Ranges', Phases, Chain, Chain', DeliveredInOrder, [Next]_vars
    PROVE  DeliveredInOrder'
<1>1. CASE Read
  <2>0. client # "seeking" /\ start_offset_' = start_offset_ /\ size_' = size_
    BY <1>1, ReadEffect DEF range
  <2>1. CASE ready_count_' = 0
    <3>1. ~(ready_count_' > 0)
      BY <2>1
    <3>2. got' = got
      BY <1>1, <3>1, ReadEffect
    <3>3. QED
      BY <2>0, <3>2 DEF DeliveredInOrder
  <2>2. CASE ready_count_' # 0
    <3>1. \A k \in DOMAIN got' : got'[k] = start_offset_ + k
      <4>1. \A k \in DOMAIN got : got[k] = start_offset_ + k
        BY <2>0 DEF DeliveredInOrder
      <4>2. /\ Data(First) \in Seq(Nat) /\ got' = got \o Data(First) /\ got \in Seq(Nat) /\ start_offset_ \in Nat
            /\ \A j \in 1..Len(Data(First)) : Data(First)[j] = start_offset_ + (Len(got) + j)
        BY <1>1, <2>2, ReadDelivers
      <4>3. QED
        BY <4>1, <4>2, OrderGrows
    <3>2. InUse'
      <4>1. ~error_ /\ error_' = error_ /\ client' \in {"run", "wait", "eof"}
        BY <1>1, ReadEffect
      <4>2. QED
        BY <4>1 DEF InUse
    <3>3. start_offset_' + Len(got') <= position' /\ position' + remaining_' = start_offset_' + size_'
      BY <3>2 DEF Chain, Bounded
    <3>4. /\ start_offset_' \in Nat /\ Len(got') \in Nat /\ position' \in Nat /\ remaining_' \in Nat /\ size_' \in Nat
      BY FileSizeAssumption, LenProperties DEF Ranges, Offsets
    <3>5. Len(got') <= size_'
      BY <3>3, <3>4
    <3>6. QED
      BY <2>0, <3>1, <3>5 DEF DeliveredInOrder
  <2>3. QED
    BY <2>1, <2>2
<1>2. CASE Seeks
  BY <1>2 DEF Seeks, Seek, DeliveredInOrder
<1>3. CASE SeekJoined
  <2>1. got' = <<>> /\ Len(got') = 0 /\ size_' \in Nat /\ DOMAIN got' = {}
    BY <1>3, FileSizeAssumption DEF SeekJoined, Ranges
  <2>2. QED
    BY <2>1 DEF DeliveredInOrder
<1>4. CASE ReadFails \/ Ignored \/ Close \/ CloseJoined \/ UNCHANGED vars
  <2>1. UNCHANGED <<got, start_offset_, size_>> /\ (client = "seeking" => client' = "seeking")
    BY <1>4 DEF ReadFails, Ignored, Close, CloseJoined, vars, range
  <2>2. QED
    BY <2>1 DEF DeliveredInOrder
<1>5. CASE Worker
  <2>1. UNCHANGED <<got, start_offset_, size_, client>>
    BY <1>5 DEF Worker, WorkerStart, WorkerSignalled, WorkerTop, WorkerEof, ReadAborted, ReadError, ReadData, range,
                clientVars
  <2>2. QED
    BY <2>1 DEF DeliveredInOrder
<1>6. QED
  BY <1>1, <1>2, <1>3, <1>4, <1>5, StepCases

LEMMA NextEofIsComplete ==
    ASSUME Ranges, Phases, Chain, EofIsComplete, [Next]_vars
    PROVE  EofIsComplete'
<1>1. CASE Read
  <2> SUFFICES ASSUME client' = "eof"
               PROVE  Len(got') = size_' \/ shrunk'
    BY DEF EofIsComplete
  <2>1. /\ ready_count_' # 0 /\ Data(First) = <<>> /\ shrunk' = shrunk /\ size_' = size_
    BY <1>1, ReadEffect DEF range
  <2>2. /\ First \in Pending /\ InUse /\ Len(got') = Len(got) + Len(Data(First))
        /\ Start(First) = start_offset_ + Len(got) + 1 /\ Len(got) \in Nat /\ start_offset_ \in Nat
    BY <1>1, <2>1, ReadDelivers
  <2>3. Start(First) = position + 1 /\ Len(Data(First)) = 0
    BY <2>1 DEF Start
  <2>4. remaining_ = 0 \/ shrunk
    BY <2>1, <2>2 DEF Chain, EmptyIsLast
  <2>5. position + remaining_ = start_offset_ + size_ /\ position \in Nat /\ size_ \in Nat
    BY <2>2, FileSizeAssumption DEF Chain, Ranges
  <2> HIDE DEF First
  <2>6. Len(got') = Len(got) /\ Len(got) + start_offset_ = position
    BY <2>2, <2>3, <2>5
  <2>7. remaining_ = 0 => Len(got') = size_
    BY <2>2, <2>5, <2>6
  <2>8. QED
    BY <2>1, <2>4, <2>7
<1>2. CASE Seeks \/ SeekJoined \/ Close \/ CloseJoined \/ ReadFails
  BY <1>2 DEF Seeks, Seek, SeekJoined, Close, CloseJoined, ReadFails, EofIsComplete
<1>3. CASE Ignored \/ UNCHANGED vars
  BY <1>3 DEF Ignored, vars, range, EofIsComplete
<1>4. CASE Worker
  <2>1. worker # "done" /\ client' = client
    BY <1>4 DEF Worker, WorkerStart, WorkerSignalled, WorkerTop, WorkerEof, ReadAborted, ReadError, ReadData, clientVars
  <2>2. QED
    BY <2>1 DEF Phases, FlagPhases, EofIsComplete
<1>5. QED
  BY <1>1, <1>2, <1>3, <1>4, StepCases

-----------------------------------------------------------------------------
(* The specification keeps the invariant. *)

LEMMA InitIInv == Init => IInv /\ Flags
<1> SUFFICES ASSUME Init
             PROVE  IInv /\ Flags
  OBVIOUS
<1> USE BufferCountAssumption
<1>1. Ranges /\ Flags
  BY InitTypes
<1>2. Phases /\ NoLostWakeup /\ BuffersDisjoint /\ EofIsComplete
  BY DEF Init, Phases, FlagPhases, FillsNext, LeavesEmpty, NoLostWakeup, BuffersDisjoint, EofIsComplete
<1>3. Pending = {} /\ Len(got) = 0 /\ DOMAIN got = {} /\ start_offset_ \in Nat /\ size_ \in Nat
  BY <1>1, FileSizeAssumption DEF Init, Pending, First, Ranges, Offsets
<1>4. DeliveredInOrder
  BY <1>3 DEF DeliveredInOrder
<1>5. Consecutive /\ Linked /\ EmptyIsLast
  BY <1>3 DEF Consecutive, Linked, EmptyIsLast
<1>6. FollowsGot /\ Bounded /\ position + remaining_ = start_offset_ + size_
  BY <1>3 DEF Init, FollowsGot, Bounded
<1>7. QED
  BY <1>1, <1>2, <1>4, <1>5, <1>6 DEF IInv, Chain

LEMMA NextIInv == IInv /\ Flags /\ [Next]_vars => IInv' /\ Flags'
<1> SUFFICES ASSUME IInv, Flags, [Next]_vars
             PROVE  IInv' /\ Flags'
  OBVIOUS
<1> USE DEF IInv
<1>1. Ranges' /\ Flags'
  BY NextRanges, NextFlags
<1>2. BuffersDisjoint' /\ NoLostWakeup'
  BY NextBuffersDisjoint, NextNoLostWakeup
<1>3. Phases'
  BY NextBuffersDisjoint, NextFlagPhases, NextLeavesEmpty DEF Phases
<1>4. Chain'
  BY NextChain
<1>5. DeliveredInOrder' /\ EofIsComplete'
  BY <1>1, <1>4, NextDeliveredInOrder, NextEofIsComplete
<1>6. QED
  BY <1>1, <1>2, <1>3, <1>4, <1>5

(* The inductive invariant: the ready buffers continue what has been delivered up to
   the position of the file, while no read has failed and no seek or close is over it. *)
THEOREM Invariant == Spec => [](IInv /\ Flags)
<1>1. Init => IInv /\ Flags
  BY InitIInv
<1>2. IInv /\ Flags /\ [Next]_vars => IInv' /\ Flags'
  BY NextIInv
<1>3. QED
  BY <1>1, <1>2, PTL DEF Spec

(* The fields of the reader keep their types; the ring never counts more buffers
   than it has, and remaining_ does not fall below zero. *)
THEOREM TypeCorrect == Spec => []TypeOK
<1>1. IInv /\ Flags => TypeOK
  BY DEF IInv, TypeOK
<1>2. QED
  BY <1>1, Invariant, PTL

(* The slot entry() reads into without the mutex is never one that is ready or in
   use by the caller of read(). *)
THEOREM BuffersStayDisjoint == Spec => []BuffersDisjoint
<1>1. IInv => BuffersDisjoint
  BY DEF IInv
<1>2. QED
  BY <1>1, Invariant, PTL

(* read() delivers the file from the offset of the last seek on, in order, without
   gaps and no more than the announced size. *)
THEOREM DeliveryIsInOrder == Spec => []DeliveredInOrder
<1>1. IInv => DeliveredInOrder
  BY DEF IInv
<1>2. QED
  BY <1>1, Invariant, PTL

(* read() returns the empty buffer, which means the end of the file, only after the
   announced size, or if file_.read came to an end before it. *)
THEOREM EofMeansComplete == Spec => []EofIsComplete
<1>1. IInv => EofIsComplete
  BY DEF IInv
<1>2. QED
  BY <1>1, Invariant, PTL

(* A read() that returned wait is followed by an event that is queued or that a
   running worker owes, also at the end of the file and after an error. *)
THEOREM WakeupsAreNotLost == Spec => []NoLostWakeup
<1>1. IInv => NoLostWakeup
  BY DEF IInv
<1>2. QED
  BY <1>1, Invariant, PTL
=============================================================================
