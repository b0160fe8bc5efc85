-------------------------- MODULE AioWriterProofs --------------------------
(***************************************************************************)
(* Proofs about file_writer: for a ring of any number of buffers of any    *)
(* size, any amount of data and any interleaving of the two threads.       *)
(*                                                                         *)
(* The contents of the ring are described by a chain: each ready buffer    *)
(* holds consecutive units of data, the oldest one goes on where the file  *)
(* ends, each one where its predecessor ends, and the last one ends with   *)
(* what was received last.                                                 *)
(***************************************************************************)
EXTENDS AioWriter, SequenceTheorems, TLAPS

(* The data of the ready buffers, the oldest first. *)
Data(k) == buffers_[NextSlot(k)].data

(* The writer is in order: no write has failed or was cut off by a close. *)
Intact == ~error_ /\ ~(quit_ /\ worker = "done")

Consecutive == \A k \in 0..(ready_count_ - 1) :
    Data(k) # <<>> /\ \A j \in 1..Len(Data(k)) : Data(k)[j] = Data(k)[1] + (j - 1)

FollowsFile == ready_count_ > 0 => Data(0)[1] = Len(file) + 1

Linked == \A k \in 0..(ready_count_ - 1) :
    Data(k)[1] + Len(Data(k)) = IF k = ready_count_ - 1 THEN received + 1 ELSE Data(k + 1)[1]

Chain == Intact =>
    /\ Consecutive /\ FollowsFile /\ Linked
    /\ ready_count_ = 0 => Len(file) = received

(* What the flags say about each other. *)
Phases ==
    /\ quit_ <=> client \in {"closing", "closed"}
    /\ worker = "write" => ready_count_ > 0 /\ ~error_
    /\ worker = "done" => quit_ \/ error_
    /\ handler_waiting_ /\ client # "closed" => ready_count_ > 0
    /\ client \in {"run", "wait", "finalize", "again"} => handler_
    /\ error_ /\ client \in {"wait", "finalize"} => events > 0
    /\ client = "closed" => worker = "done"
    /\ client # "closed" => exists
    /\ finalized_ => client \in {"ok", "closing", "closed"} /\ ready_count_ = 0

IInv == Ranges /\ Phases /\ BuffersDisjoint /\ Chain /\ FileIsPrefix /\ FinalizedIsComplete /\ NoLostWakeup

-----------------------------------------------------------------------------
(* The ring. *)

(* The slot k places behind p wraps at most once. *)
LEMMA RingSlot ==
    ASSUME NEW p \in Slots, NEW k \in 0..buffer_count
    PROVE  (p + k) % buffer_count = IF p + k < buffer_count THEN p + k ELSE p + k - buffer_count
<1> USE BufferCountAssumption DEF Slots
<1>1. CASE p + k < buffer_count
  <2>1. p + k \in 0..(buffer_count - 1)
    BY <1>1
  <2>2. QED
    BY <1>1, <2>1
<1>2. CASE p + k >= buffer_count
  <2>1. p + k \in buffer_count..(2 * buffer_count - 1)
    BY <1>2
  <2>2. QED
    BY <1>2, <2>1
<1>3. QED
  BY <1>1, <1>2

(* Different places are different slots. *)
LEMMA RingInjective ==
    ASSUME NEW p \in Slots, NEW j \in 0..(buffer_count - 1), NEW k \in 0..(buffer_count - 1), j # k
    PROVE  (p + j) % buffer_count # (p + k) % buffer_count
<1> USE BufferCountAssumption DEF Slots
<1>1. j \in 0..buffer_count /\ k \in 0..buffer_count
  OBVIOUS
<1>2. (p + j) % buffer_count = IF p + j < buffer_count THEN p + j ELSE p + j - buffer_count
  BY <1>1, RingSlot
<1>3. (p + k) % buffer_count = IF p + k < buffer_count THEN p + k ELSE p + k - buffer_count
  BY <1>1, RingSlot
<1>4. QED
  BY <1>2, <1>3

LEMMA RingIsSlot ==
    ASSUME NEW p \in Slots, NEW k \in 0..buffer_count
    PROVE  (p + k) % buffer_count \in Slots
  BY RingSlot, BufferCountAssumption DEF Slots

(* When the oldest slot is given up, every place moves by one. *)
LEMMA RingShift ==
    ASSUME NEW p \in Slots, NEW k \in 0..(buffer_count - 1)
    PROVE  (((p + 1) % buffer_count) + k) % buffer_count = (p + (k + 1)) % buffer_count
<1> USE BufferCountAssumption DEF Slots
<1> DEFINE q == (p + 1) % buffer_count
<1>0. 1 \in 0..buffer_count /\ k \in 0..buffer_count /\ k + 1 \in 0..buffer_count
  OBVIOUS
<1>1. q \in Slots /\ q = IF p + 1 < buffer_count THEN p + 1 ELSE p + 1 - buffer_count
  BY <1>0, RingSlot, RingIsSlot
<1> HIDE DEF q
<1>2. (q + k) % buffer_count = IF q + k < buffer_count THEN q + k ELSE q + k - buffer_count
  BY <1>0, <1>1, RingSlot
<1>3. (p + (k + 1)) % buffer_count = IF p + (k + 1) < buffer_count THEN p + (k + 1) ELSE p + (k + 1) - buffer_count
  BY <1>0, RingSlot
<1>4. (q + k) % buffer_count = (p + (k + 1)) % buffer_count
  BY <1>1, <1>2, <1>3
<1>5. QED
  BY <1>4 DEF q

-----------------------------------------------------------------------------
(* The steps, with what OnWrite and the wrappers of a call come down to: an event is
   used up or not. *)
Quiet == UNCHANGED fileVars /\ (UNCHANGED events \/ (events > 0 /\ events' = events - 1))

Calls(n) == GetWriteBuffer(n) \/ Retire(n) \/ Finalize(n)

Ignored ==
    /\ client \notin {"wait", "finalize"}
    /\ UNCHANGED <<buffers_, ready_pos_, ready_count_, processing_, quit_, error_, handler_waiting_, finalized_,
                   handler_, signalled_, worker, client, last_written, received, file>>

LEMMA StepCases ==
    ASSUME [Next]_vars
    PROVE  \/ (\E n \in 0..buffer_size_ : Calls(n)) /\ Quiet
           \/ CallFails /\ Quiet
           \/ Ignored /\ Quiet
           \/ (DetachHandler \/ Close) /\ UNCHANGED fileVars
           \/ Worker /\ UNCHANGED fileVars
           \/ Joined
           \/ UNCHANGED vars
<1> USE BufferSizeAssumption
<1>1. 0 \in 0..buffer_size_
  OBVIOUS
<1>2. ASSUME OnWrite, UNCHANGED fileVars
      PROVE  ((\E n \in 0..buffer_size_ : Calls(n)) \/ CallFails \/ Ignored) /\ Quiet
  BY <1>1, <1>2 DEF OnWrite, Calls, Ignored, Quiet
<1>3. ASSUME FinalizeAgain, UNCHANGED fileVars
      PROVE  ((\E n \in 0..buffer_size_ : Calls(n)) \/ CallFails) /\ Quiet
  BY <1>1, <1>3 DEF FinalizeAgain, Calls, Quiet
<1>4. ASSUME Client, UNCHANGED fileVars
      PROVE  \/ ((\E n \in 0..buffer_size_ : Calls(n)) \/ CallFails \/ Ignored) /\ Quiet
             \/ DetachHandler \/ Close
  BY <1>2, <1>3, <1>4 DEF Client, Calls, Quiet
<1>5. QED
  BY <1>4 DEF Next

-----------------------------------------------------------------------------
(* Types. *)

LEMMA InitRanges == Init => Ranges
  BY BufferCountAssumption, MaxDataAssumption
  DEF Init, Ranges, Slots, NoBuffer, WorkerStates, ClientStates

LEMMA PushType ==
    ASSUME Ranges, BuffersDisjoint, NEW n \in 0..buffer_size_, Push(n)
    PROVE  /\ buffers_' \in [Slots -> [mem : Slots, data : Seq(Nat)]]
           /\ ready_count_' \in 0..buffer_count
           /\ received' \in 0..MaxData
<1> USE BufferCountAssumption, BufferSizeAssumption, MaxDataAssumption
<1>1. CASE n = 0
  BY <1>1 DEF Push, Ranges
<1>2. CASE n > 0
  <2>1. last_written \in Slots /\ ready_count_ < buffer_count
    BY <1>2 DEF Push, BuffersDisjoint, Ranges
  <2>2. NewData(n) \in Seq(Nat)
    <3>1. \A k \in 1..n : received + k \in Nat
      BY DEF Ranges
    <3>2. NewData(n) \in [1..n -> Nat]
      BY <3>1 DEF NewData
    <3>3. QED
      BY <3>2, SeqDef
  <2>3. NextSlot(ready_count_) \in Slots
    BY RingIsSlot DEF Ranges, NextSlot
  <2>4. buffers_' = [buffers_ EXCEPT ![NextSlot(ready_count_)] = [mem |-> last_written, data |-> NewData(n)]]
    BY <1>2 DEF Push
  <2>5. buffers_' \in [Slots -> [mem : Slots, data : Seq(Nat)]]
    BY <2>1, <2>2, <2>3, <2>4 DEF Ranges
  <2>6. QED
    BY <1>2, <2>1, <2>5 DEF Push, Ranges
<1>3. QED
  BY <1>1, <1>2

(* The oldest buffer, which the worker writes. *)
LEMMA OldestType ==
    ASSUME Ranges
    PROVE  buffers_[ready_pos_].data \in Seq(Nat)
  BY DEF Ranges

LEMMA WrittenType ==
    ASSUME Ranges, NEW n \in 0..Len(buffers_[ready_pos_].data)
    PROVE  /\ file \o SubSeq(buffers_[ready_pos_].data, 1, n) \in Seq(Nat)
           /\ SubSeq(buffers_[ready_pos_].data, n + 1, Len(buffers_[ready_pos_].data)) \in Seq(Nat)
<1> DEFINE d == buffers_[ready_pos_].data
<1>1. d \in Seq(Nat) /\ file \in Seq(Nat)
  BY OldestType DEF Ranges
<1> HIDE DEF d
<1>2. QED
  BY <1>1 DEF d

LEMMA ReplacedType ==
    ASSUME Ranges, NEW d \in Seq(Nat)
    PROVE  [buffers_ EXCEPT ![ready_pos_].data = d] \in [Slots -> [mem : Slots, data : Seq(Nat)]]
<1>1. buffers_[ready_pos_] \in [mem : Slots, data : Seq(Nat)] /\ ready_pos_ \in Slots
  BY DEF Ranges
<1>2. [buffers_[ready_pos_] EXCEPT !.data = d] \in [mem : Slots, data : Seq(Nat)]
  BY <1>1
<1>3. QED
  BY <1>1, <1>2 DEF Ranges

LEMMA NextRanges ==
    ASSUME Ranges, Phases, BuffersDisjoint, [Next]_vars
    PROVE  Ranges'
<1> USE BufferCountAssumption, BufferSizeAssumption, MaxDataAssumption
<1>1. ASSUME NEW n \in 0..buffer_size_, Calls(n), Quiet
      PROVE  Ranges'
  <2>1. /\ buffers_' \in [Slots -> [mem : Slots, data : Seq(Nat)]]
        /\ ready_count_' \in 0..buffer_count /\ received' \in 0..MaxData
    BY <1>1, PushType DEF Calls, GetWriteBuffer, Retire, Finalize
  <2>2. buffers_'[NextSlot(ready_count_')].mem \in Slots
    BY <2>1, RingIsSlot DEF Ranges, NextSlot
  <2>3. CASE GetWriteBuffer(n)
    BY <1>1, <2>1, <2>2, <2>3 DEF GetWriteBuffer, Ranges, Quiet, fileVars, ClientStates, NoBuffer
  <2>4. CASE Retire(n)
    BY <1>1, <2>1, <2>4 DEF Retire, Ranges, Quiet, fileVars, NoBuffer
  <2>5. CASE Finalize(n)
    BY <1>1, <2>1, <2>5 DEF Finalize, Ranges, Quiet, fileVars, ClientStates, NoBuffer
  <2>6. QED
    BY <1>1, <2>3, <2>4, <2>5 DEF Calls
<1>2. ASSUME CallFails \/ Ignored, Quiet
      PROVE  Ranges'
  BY <1>2 DEF CallFails, Ignored, Quiet, Ranges, fileVars, ClientStates
<1>3. ASSUME DetachHandler \/ Close, UNCHANGED fileVars
      PROVE  Ranges'
  BY <1>3 DEF DetachHandler, Close, Ranges, fileVars, ClientStates
<1>4. ASSUME Worker, UNCHANGED fileVars
      PROVE  Ranges'
  <2>1. CASE WorkerStart \/ WorkerSignalled \/ WorkerTop
    BY <1>4, <2>1 DEF WorkerStart, WorkerSignalled, WorkerTop, workerUnchanged, Ranges, fileVars, WorkerStates
  <2>2. ASSUME NEW n \in 0..buffer_size_, WriteAborted(n)
        PROVE  Ranges'
    BY <1>4, <2>2, WrittenType DEF WriteAborted, workerUnchanged, Ranges, fileVars, WorkerStates
  <2>3. ASSUME NEW n \in 1..buffer_size_, WriteSome(n)
        PROVE  Ranges'
    <3>1. Len(buffers_[ready_pos_].data) \in Nat
      BY OldestType
    <3>2. n \in 0..Len(buffers_[ready_pos_].data)
      BY <2>3, <3>1 DEF WriteSome
    <3>3. file' \in Seq(Nat) /\ buffers_' \in [Slots -> [mem : Slots, data : Seq(Nat)]]
      BY <2>3, <3>2, WrittenType, ReplacedType DEF WriteSome
    <3>4. QED
      BY <1>4, <2>3, <3>3 DEF WriteSome, workerUnchanged, Ranges, fileVars, WorkerStates
  <2>4. ASSUME PopFront, worker = "write"
        PROVE  /\ ready_pos_' \in Slots /\ ready_count_' \in 0..buffer_count
               /\ events' \in Nat /\ worker' \in WorkerStates
    <3>1. ready_pos_' \in Slots
      BY <2>4, RingIsSlot DEF PopFront, Ranges
    <3>2. QED
      BY <2>4, <3>1 DEF PopFront, Ranges, Phases, WorkerStates
  <2>5. CASE WriteRest
    <3>1. file' \in Seq(Nat) /\ buffers_' \in [Slots -> [mem : Slots, data : Seq(Nat)]]
      <4>1. <<>> \in Seq(Nat) /\ file \in Seq(Nat)
        BY DEF Ranges
      <4>2. QED
        BY <2>5, <4>1, OldestType, ReplacedType, ConcatProperties DEF WriteRest
    <3>2. QED
      BY <1>4, <2>4, <2>5, <3>1 DEF WriteRest, workerUnchanged, Ranges, fileVars
  <2>6. CASE WriteError
    BY <1>4, <2>4, <2>6 DEF WriteError, workerUnchanged, Ranges, fileVars
  <2>7. QED
    BY <1>4, <2>1, <2>2, <2>3, <2>5, <2>6 DEF Worker
<1>5. ASSUME Joined
      PROVE  Ranges'
  BY <1>5 DEF Joined, Ranges, ClientStates
<1>6. ASSUME UNCHANGED vars
      PROVE  Ranges'
  BY <1>6 DEF vars, Ranges
<1>7. QED
  BY <1>1, <1>2, <1>3, <1>4, <1>5, <1>6, StepCases

LEMMA NextFlags ==
    ASSUME Flags, [Next]_vars
    PROVE  Flags'
<1>1. ASSUME NEW n \in 0..buffer_size_, Calls(n), Quiet
      PROVE  Flags'
  <2>1. Push(n) => signalled_' \in BOOLEAN
    BY DEF Push, Flags
  <2>2. CASE GetWriteBuffer(n)
    BY <1>1, <2>1, <2>2 DEF GetWriteBuffer, Flags, Quiet, fileVars
  <2>3. CASE Retire(n)
    BY <1>1, <2>1, <2>3 DEF Retire, Flags, Quiet, fileVars
  <2>4. CASE Finalize(n)
    BY <1>1, <2>1, <2>4 DEF Finalize, Flags, Quiet, fileVars
  <2>5. QED
    BY <1>1, <2>2, <2>3, <2>4 DEF Calls
<1>2. ASSUME CallFails \/ Ignored, Quiet
      PROVE  Flags'
  BY <1>2 DEF CallFails, Ignored, Quiet, Flags, fileVars
<1>3. ASSUME DetachHandler \/ Close, UNCHANGED fileVars
      PROVE  Flags'
  BY <1>3 DEF DetachHandler, Close, Flags, fileVars
<1>4. ASSUME Worker, UNCHANGED fileVars
      PROVE  Flags'
  BY <1>4 DEF Worker, WorkerStart, WorkerSignalled, WorkerTop, WriteAborted, WriteSome, WriteRest, WriteError,
              PopFront, workerUnchanged, Flags, fileVars
<1>5. ASSUME Joined
      PROVE  Flags'
  BY <1>5 DEF Joined, Flags
<1>6. ASSUME UNCHANGED vars
      PROVE  Flags'
  BY <1>6 DEF vars, Flags
<1>7. QED
  BY <1>1, <1>2, <1>3, <1>4, <1>5, <1>6, StepCases

-----------------------------------------------------------------------------
(* The flags of the two threads. *)

LEMMA NextPhases ==
    ASSUME Ranges, Phases, NoLostWakeup, BuffersDisjoint, [Next]_vars
    PROVE  Phases'
<1> USE BufferCountAssumption, BufferSizeAssumption
<1>1. ASSUME NEW n \in 0..buffer_size_, Calls(n), Quiet
      PROVE  Phases'
  <2>1. Push(n) => ready_count_' \in Nat /\ ready_count_' >= ready_count_
    BY DEF Push, Ranges
  <2>2. CASE GetWriteBuffer(n)
    BY <1>1, <2>1, <2>2 DEF GetWriteBuffer, Phases, Quiet, fileVars, Unlocked, Ranges
  <2>3. CASE Retire(n)
    BY <1>1, <2>1, <2>3 DEF Retire, Phases, Quiet, fileVars, Unlocked, Ranges
  <2>4. CASE Finalize(n)
    BY <1>1, <2>1, <2>4 DEF Finalize, Phases, Quiet, fileVars, Unlocked, Ranges
  <2>5. QED
    BY <1>1, <2>2, <2>3, <2>4 DEF Calls
<1>2. ASSUME CallFails \/ Ignored, Quiet
      PROVE  Phases'
  BY <1>2 DEF CallFails, Ignored, Quiet, fileVars, Phases, Unlocked, Ranges
<1>3. ASSUME DetachHandler \/ Close, UNCHANGED fileVars
      PROVE  Phases'
  BY <1>3 DEF DetachHandler, Close, fileVars, Phases, Unlocked, Ranges
<1>4. ASSUME Worker, UNCHANGED fileVars
      PROVE  Phases'
  <2>1. CASE WorkerStart \/ WorkerSignalled
    BY <1>4, <2>1 DEF WorkerStart, WorkerSignalled, Phases, workerUnchanged, fileVars
  <2>2. CASE WorkerTop
    BY <1>4, <2>2 DEF WorkerTop, Phases, workerUnchanged, fileVars, Ranges
  <2>3. ASSUME NEW n, WriteAborted(n) \/ WriteSome(n)
        PROVE  Phases'
    BY <1>4, <2>3 DEF WriteAborted, WriteSome, Phases, workerUnchanged, fileVars
  <2>4. CASE WriteRest \/ WriteError
    BY <1>4, <2>4 DEF WriteRest, WriteError, PopFront, Phases, NoLostWakeup, workerUnchanged, fileVars, Ranges
  <2>5. QED
    BY <1>4, <2>1, <2>2, <2>3, <2>4 DEF Worker
<1>5. ASSUME Joined
      PROVE  Phases'
  BY <1>5 DEF Joined, Phases
<1>6. ASSUME UNCHANGED vars
      PROVE  Phases'
  BY <1>6 DEF vars, Phases
<1>7. QED
  BY <1>1, <1>2, <1>3, <1>4, <1>5, <1>6, StepCases

LEMMA NextNoLostWakeup ==
    ASSUME Ranges, Phases, NoLostWakeup, [Next]_vars
    PROVE  NoLostWakeup'
<1>1. ASSUME NEW n \in 0..buffer_size_, Calls(n), Quiet
      PROVE  NoLostWakeup'
  BY <1>1 DEF Calls, GetWriteBuffer, Retire, Finalize, Phases, NoLostWakeup, Quiet, Ranges
<1>2. ASSUME CallFails \/ Ignored, Quiet
      PROVE  NoLostWakeup'
  BY <1>2 DEF CallFails, Ignored, NoLostWakeup, Quiet
<1>3. ASSUME DetachHandler \/ Close, UNCHANGED fileVars
      PROVE  NoLostWakeup'
  BY <1>3 DEF DetachHandler, Close, NoLostWakeup
<1>4. ASSUME Worker
      PROVE  NoLostWakeup'
  <2>1. CASE WorkerStart \/ WorkerSignalled
    BY <2>1 DEF WorkerStart, WorkerSignalled, NoLostWakeup, workerUnchanged
  <2>2. CASE WorkerTop
    BY <2>2 DEF WorkerTop, Phases, NoLostWakeup, workerUnchanged, Ranges
  <2>3. ASSUME NEW n, WriteAborted(n) \/ WriteSome(n)
        PROVE  NoLostWakeup'
    BY <2>3 DEF WriteAborted, WriteSome, Phases, NoLostWakeup, workerUnchanged
  <2>4. CASE WriteRest \/ WriteError
    BY <2>4 DEF WriteRest, WriteError, PopFront, Phases, NoLostWakeup, workerUnchanged, Ranges
  <2>5. QED
    BY <1>4, <2>1, <2>2, <2>3, <2>4 DEF Worker
<1>5. ASSUME Joined
      PROVE  NoLostWakeup'
  BY <1>5 DEF Joined, NoLostWakeup
<1>6. ASSUME UNCHANGED vars
      PROVE  NoLostWakeup'
  BY <1>6 DEF vars, NoLostWakeup
<1>7. QED
  BY <1>1, <1>2, <1>3, <1>4, <1>5, <1>6, StepCases

-----------------------------------------------------------------------------
(* Whose memory is whose. *)

(* What Push does to the ring, if there is something to push. *)
LEMMA Pushed ==
    ASSUME Ranges, BuffersDisjoint, NEW n \in 0..buffer_size_, Push(n), n > 0, client # "closed"
    PROVE  /\ last_written = NextSlot(ready_count_) /\ ready_count_ < buffer_count
           /\ NextSlot(ready_count_) \in Slots
           /\ buffers_' = [buffers_ EXCEPT ![NextSlot(ready_count_)] =
                              [mem |-> NextSlot(ready_count_), data |-> NewData(n)]]
           /\ ready_count_' = ready_count_ + 1 /\ received' = received + n
<1> USE BufferCountAssumption
<1>1. last_written # NoBuffer
  BY DEF Push
<1>2. last_written = NextSlot(ready_count_) /\ ready_count_ < buffer_count
  BY <1>1 DEF BuffersDisjoint
<1>3. NextSlot(ready_count_) \in Slots
  BY RingIsSlot DEF Ranges, NextSlot
<1>4. ready_count_' = ready_count_ + 1 /\ received' = received + n
  BY DEF Push
<1>5. buffers_' = [buffers_ EXCEPT ![NextSlot(ready_count_)] = [mem |-> last_written, data |-> NewData(n)]]
  BY DEF Push
<1>6. QED
  BY <1>2, <1>3, <1>4, <1>5

LEMMA NextBuffersDisjoint ==
    ASSUME Ranges, Phases, BuffersDisjoint, [Next]_vars
    PROVE  BuffersDisjoint'
<1> USE BufferCountAssumption, BufferSizeAssumption
<1>1. ASSUME NEW n \in 0..buffer_size_, Calls(n), Quiet
      PROVE  BuffersDisjoint'
  <2>1. Push(n) /\ client # "closed" /\ ready_pos_' = ready_pos_
    BY <1>1 DEF Calls, GetWriteBuffer, Retire, Finalize
  <2>2. \A i \in Slots : buffers_'[i].mem = i
    <3>1. CASE n = 0
      BY <2>1, <3>1 DEF Push, BuffersDisjoint
    <3>2. CASE n > 0
      <4> DEFINE s == NextSlot(ready_count_)
      <4>1. s \in Slots /\ buffers_' = [buffers_ EXCEPT ![s] = [mem |-> s, data |-> NewData(n)]]
        BY <2>1, <3>2, Pushed
      <4> HIDE DEF s
      <4>2. QED
        BY <4>1 DEF BuffersDisjoint, Ranges
    <3>3. QED
      BY <3>1, <3>2
  <2>3. ready_count_' \in 0..buffer_count
    BY <2>1, PushType
  <2>4. CASE GetWriteBuffer(n)
    <3>1. (ready_pos_ + ready_count_') % buffer_count \in Slots
      BY <2>3, RingIsSlot DEF Ranges
    <3>2. last_written' # NoBuffer => last_written' = NextSlot(ready_count_') /\ processing_' /\ ready_count_' < buffer_count
      BY <2>2, <2>4, <3>1 DEF GetWriteBuffer, NextSlot
    <3>3. QED
      BY <2>1, <2>2, <3>2 DEF BuffersDisjoint, NextSlot
  <2>5. CASE Retire(n)
    BY <2>2, <2>5 DEF Retire, BuffersDisjoint
  <2>6. CASE Finalize(n)
    <3>1. CASE n = 0
      BY <2>1, <2>2, <2>6, <3>1 DEF Finalize, Push, BuffersDisjoint, NextSlot
    <3>2. CASE n > 0
      BY <2>2, <2>6, <3>2 DEF Finalize, BuffersDisjoint
    <3>3. QED
      BY <3>1, <3>2
  <2>7. QED
    BY <1>1, <2>4, <2>5, <2>6 DEF Calls
<1>2. ASSUME CallFails \/ Ignored \/ DetachHandler \/ Close
      PROVE  BuffersDisjoint'
  <2>1. /\ UNCHANGED <<buffers_, last_written, processing_, ready_count_, ready_pos_>>
        /\ client = "closed" => client' = "closed"
    BY <1>2 DEF CallFails, Ignored, DetachHandler, Close
  <2>2. QED
    BY <2>1 DEF BuffersDisjoint, NextSlot
<1>3. ASSUME Worker
      PROVE  BuffersDisjoint'
  <2>1. CASE WorkerStart \/ WorkerSignalled \/ WorkerTop
    BY <2>1 DEF WorkerStart, WorkerSignalled, WorkerTop, BuffersDisjoint, NextSlot, workerUnchanged
  <2>2. ASSUME NEW n, WriteAborted(n)
        PROVE  BuffersDisjoint'
    BY <2>2 DEF WriteAborted, BuffersDisjoint, NextSlot, workerUnchanged
  <2>3. ASSUME NEW n, WriteSome(n)
        PROVE  BuffersDisjoint'
    BY <2>3 DEF WriteSome, BuffersDisjoint, NextSlot, workerUnchanged, Ranges
  <2>4. CASE WriteRest \/ WriteError
    <3>1. \A i \in Slots : buffers_'[i].mem = i
      <4>1. CASE WriteRest
        BY <4>1 DEF WriteRest, BuffersDisjoint, Ranges
      <4>2. CASE WriteError
        BY <4>2 DEF WriteError, BuffersDisjoint
      <4>3. QED
        BY <2>4, <4>1, <4>2
    <3>2. PopFront /\ worker = "write" /\ UNCHANGED workerUnchanged
      BY <2>4 DEF WriteRest, WriteError
    <3>3. ready_count_' = ready_count_ - 1 /\ ready_count_ > 0
      BY <3>2 DEF PopFront, Phases
    <3>4. (((ready_pos_ + 1) % buffer_count) + (ready_count_ - 1)) % buffer_count = (ready_pos_ + ((ready_count_ - 1) + 1)) % buffer_count
      <4>1. ready_count_ - 1 \in 0..(buffer_count - 1) /\ ready_pos_ \in Slots
        BY <3>3 DEF Ranges
      <4>2. QED
        BY <4>1, RingShift
    <3>5. (ready_pos_' + ready_count_') % buffer_count = (ready_pos_ + ready_count_) % buffer_count
      BY <3>2, <3>3, <3>4 DEF PopFront, Ranges
    <3>6. QED
      BY <3>1, <3>2, <3>3, <3>5 DEF BuffersDisjoint, NextSlot, workerUnchanged, Ranges
  <2>5. QED
    BY <1>3, <2>1, <2>2, <2>3, <2>4 DEF Worker
<1>4. ASSUME Joined
      PROVE  BuffersDisjoint'
  BY <1>4 DEF Joined, BuffersDisjoint
<1>5. ASSUME UNCHANGED vars
      PROVE  BuffersDisjoint'
  BY <1>5 DEF vars, BuffersDisjoint, NextSlot
<1>6. QED
  BY <1>1, <1>2, <1>3, <1>4, <1>5, StepCases

-----------------------------------------------------------------------------
(* The data in the ring. *)

(* A file is a prefix of what was received, also with the next units behind it. *)
LEMMA PrefixGrows ==
    ASSUME NEW f \in Seq(Nat), NEW d \in Seq(Nat),
           \A k \in DOMAIN f : f[k] = k,
           \A j \in 1..Len(d) : d[j] = Len(f) + j
    PROVE  \A k \in DOMAIN (f \o d) : (f \o d)[k] = k
<1>1. /\ Len(f) \in Nat /\ Len(d) \in Nat /\ DOMAIN f = 1..Len(f)
      /\ f \o d \in Seq(Nat) /\ Len(f \o d) = Len(f) + Len(d)
      /\ DOMAIN (f \o d) = 1..(Len(f) + Len(d))
  BY LenProperties, ConcatProperties
<1>2. \A k \in 1..(Len(f) + Len(d)) : (f \o d)[k] = IF k <= Len(f) THEN f[k] ELSE d[k - Len(f)]
  BY ConcatProperties
<1> SUFFICES ASSUME NEW k \in 1..(Len(f) + Len(d))
             PROVE  (f \o d)[k] = k
  BY <1>1
<1>3. CASE k <= Len(f)
  <2>1. k \in DOMAIN f
    BY <1>1, <1>3
  <2>2. f[k] = k
    BY <2>1
  <2>3. QED
    BY <1>2, <1>3, <2>2
<1>4. CASE k > Len(f)
  <2>1. k - Len(f) \in 1..Len(d)
    BY <1>1, <1>4
  <2>2. d[k - Len(f)] = Len(f) + (k - Len(f))
    BY <2>1
  <2>3. QED
    BY <1>1, <1>2, <1>4, <2>2
<1>5. QED
  BY <1>1, <1>3, <1>4

LEMMA DataType ==
    ASSUME Ranges, NEW k \in 0..buffer_count
    PROVE  NextSlot(k) \in Slots /\ Data(k) \in Seq(Nat) /\ Len(Data(k)) \in Nat
<1>1. NextSlot(k) \in Slots
  BY RingIsSlot DEF Ranges, NextSlot
<1>2. Data(k) \in Seq(Nat)
  BY <1>1 DEF Ranges, Data
<1>3. QED
  BY <1>1, <1>2, LenProperties

LEMMA OldestIsFirst ==
    ASSUME Ranges
    PROVE  NextSlot(0) = ready_pos_ /\ Data(0) = buffers_[ready_pos_].data
<1> USE BufferCountAssumption
<1>1. 0 \in 0..buffer_count /\ ready_pos_ \in Slots
  BY DEF Ranges
<1>2. (ready_pos_ + 0) % buffer_count = IF ready_pos_ + 0 < buffer_count THEN ready_pos_ + 0
                                        ELSE ready_pos_ + 0 - buffer_count
  BY <1>1, RingSlot
<1>3. NextSlot(0) = ready_pos_
  BY <1>1, <1>2 DEF NextSlot, Slots
<1>4. QED
  BY <1>3 DEF Data

(* What the oldest buffer holds while it is being written. *)
LEMMA WritingOldest ==
    ASSUME Ranges, Phases, Chain, worker = "write"
    PROVE  /\ Data(0) \in Seq(Nat) /\ Len(Data(0)) \in Nat \ {0} /\ Len(file) \in Nat
           /\ Data(0)[1] = Len(file) + 1
           /\ \A j \in 1..Len(Data(0)) : Data(0)[j] = Len(file) + j
           /\ Intact /\ ready_count_ \in 1..buffer_count
<1> USE BufferCountAssumption
<1>1. Intact /\ ready_count_ \in 1..buffer_count
  BY DEF Phases, Intact, Ranges
<1>2. Data(0) \in Seq(Nat) /\ Len(Data(0)) \in Nat /\ file \in Seq(Nat) /\ Len(file) \in Nat
  BY DataType, LenProperties DEF Ranges
<1>3. Consecutive /\ FollowsFile /\ 0 \in 0..(ready_count_ - 1)
  BY <1>1 DEF Chain
<1>4. Data(0) # <<>> /\ Data(0)[1] = Len(file) + 1
  BY <1>1, <1>3 DEF Consecutive, FollowsFile
<1>5. \A j \in 1..Len(Data(0)) : Data(0)[j] = Data(0)[1] + (j - 1)
  BY <1>3 DEF Consecutive
<1>6. \A j \in 1..Len(Data(0)) : Data(0)[j] = Len(file) + j
  BY <1>2, <1>4, <1>5
<1>7. Len(Data(0)) # 0
  BY <1>2, <1>4, EmptySeq
<1>8. QED
  BY <1>1, <1>2, <1>4, <1>6, <1>7

LEMMA NextFileIsPrefix ==
    ASSUME Ranges, Phases, Chain, FileIsPrefix, [Next]_vars
    PROVE  FileIsPrefix'
<1>1. CASE UNCHANGED file
  BY <1>1 DEF FileIsPrefix
<1>2. ASSUME worker = "write",
             NEW n \in 0..Len(Data(0)), file' = file \o SubSeq(Data(0), 1, n)
      PROVE  FileIsPrefix'
  <2>1. /\ Data(0) \in Seq(Nat) /\ Len(Data(0)) \in Nat /\ file \in Seq(Nat)
        /\ \A j \in 1..Len(Data(0)) : Data(0)[j] = Len(file) + j
    BY <1>2, WritingOldest DEF Ranges
  <2> DEFINE d == SubSeq(Data(0), 1, n)
  <2>2. d \in Seq(Nat) /\ Len(d) = n /\ \A j \in 1..n : d[j] = Data(0)[j]
    BY <2>1
  <2>3. \A j \in 1..Len(d) : d[j] = Len(file) + j
    BY <2>1, <2>2
  <2>4. file' = file \o d
    BY <1>2
  <2> HIDE DEF d
  <2>5. QED
    BY <2>1, <2>2, <2>3, <2>4, PrefixGrows DEF FileIsPrefix
<1>3. ASSUME NEW n, WriteAborted(n) \/ WriteSome(n)
      PROVE  FileIsPrefix'
  <2>1. worker = "write" /\ file' = file \o SubSeq(Data(0), 1, n)
    BY <1>3, OldestIsFirst DEF WriteAborted, WriteSome
  <2>2. n \in 0..Len(Data(0))
    BY <1>3, <2>1, OldestIsFirst, WritingOldest DEF WriteAborted, WriteSome
  <2>3. QED
    BY <1>2, <2>1, <2>2
<1>4. CASE WriteRest
  <2>1. worker = "write" /\ file' = file \o Data(0)
    BY <1>4, OldestIsFirst DEF WriteRest
  <2>2. /\ Data(0) \in Seq(Nat) /\ file \in Seq(Nat)
        /\ \A j \in 1..Len(Data(0)) : Data(0)[j] = Len(file) + j
    BY <2>1, WritingOldest DEF Ranges
  <2>3. QED
    BY <2>1, <2>2, PrefixGrows DEF FileIsPrefix
<1>5. ASSUME Worker
      PROVE  FileIsPrefix'
  BY <1>1, <1>3, <1>4, <1>5 DEF Worker, WorkerStart, WorkerSignalled, WorkerTop, WriteError
<1>6. \/ Worker
      \/ UNCHANGED file
  BY StepCases DEF Calls, GetWriteBuffer, Retire, Finalize, CallFails, Ignored, DetachHandler, Close, Joined, vars
<1>7. QED
  BY <1>1, <1>5, <1>6

(* A step that takes neither data in nor out leaves the chain as it is. *)
LEMMA ChainUnchanged ==
    ASSUME Chain, UNCHANGED <<buffers_, ready_pos_, ready_count_, file, received>>, Intact' => Intact
    PROVE  Chain'
  BY DEF Chain, Consecutive, FollowsFile, Linked, Data, NextSlot

(* Nothing mends a broken writer. *)
LEMMA IntactBefore ==
    ASSUME Phases, [Next]_vars
    PROVE  Intact' => Intact
<1>1. error_ => error_'
  BY StepCases DEF Calls, GetWriteBuffer, Retire, Finalize, CallFails, Ignored, DetachHandler, Close, Joined, vars,
                   Worker, WorkerStart, WorkerSignalled, WorkerTop, WriteAborted, WriteSome, WriteRest, WriteError,
                   PopFront, workerUnchanged
<1>2. quit_ /\ worker = "done" => quit_' /\ worker' = "done"
  BY StepCases DEF Calls, GetWriteBuffer, Retire, Finalize, CallFails, Ignored, DetachHandler, Close, Joined, vars,
                   Worker, WorkerStart, WorkerSignalled, WorkerTop, WriteAborted, WriteSome, WriteRest, WriteError,
                   PopFront, workerUnchanged
<1>3. QED
  BY <1>1, <1>2 DEF Intact

(* The pushed buffer goes on where the last one ended. *)
LEMMA PushKeepsChain ==
    ASSUME Ranges, BuffersDisjoint, Chain, Intact' => Intact, client # "closed",
           NEW n \in 0..buffer_size_, Push(n), UNCHANGED <<ready_pos_, file>>
    PROVE  Chain'
<1> USE BufferCountAssumption, BufferSizeAssumption, MaxDataAssumption
<1>1. CASE n = 0
  <2>1. UNCHANGED <<buffers_, ready_count_, received>>
    BY <1>1 DEF Push, Ranges
  <2>2. QED
    BY <2>1, ChainUnchanged
<1>2. CASE n > 0
  <2> SUFFICES ASSUME Intact
               PROVE  /\ Consecutive' /\ FollowsFile' /\ Linked'
                      /\ ready_count_' = 0 => Len(file') = received'
    BY DEF Chain
  <2>1. /\ NextSlot(ready_count_) \in Slots /\ ready_count_ \in 0..(buffer_count - 1)
        /\ buffers_' = [buffers_ EXCEPT ![NextSlot(ready_count_)] =
                           [mem |-> NextSlot(ready_count_), data |-> NewData(n)]]
        /\ ready_count_' = ready_count_ + 1 /\ received' = received + n /\ received \in Nat
    BY <1>2, Pushed DEF Ranges
  <2>2. \A k \in 0..ready_count_ : Data(k)' = IF k = ready_count_ THEN NewData(n) ELSE Data(k)
    <3> SUFFICES ASSUME NEW k \in 0..ready_count_
                 PROVE  Data(k)' = IF k = ready_count_ THEN NewData(n) ELSE Data(k)
      OBVIOUS
    <3>1. k # ready_count_ => NextSlot(k) # NextSlot(ready_count_)
      BY <2>1, RingInjective DEF Ranges, NextSlot
    <3>2. k \in 0..buffer_count
      BY <2>1
    <3>3. NextSlot(k)' = NextSlot(k) /\ NextSlot(k) \in Slots
      BY <3>2, DataType DEF NextSlot
    <3>4. QED
      BY <2>1, <3>1, <3>3 DEF Data, Ranges
  <2>3. Len(NewData(n)) = n /\ NewData(n) # <<>> /\ \A j \in 1..n : NewData(n)[j] = received + j
    BY <1>2 DEF NewData
  <2>4. Consecutive /\ FollowsFile /\ Linked /\ (ready_count_ = 0 => Len(file) = received)
    BY DEF Chain
  <2>5. Consecutive'
    <3> SUFFICES ASSUME NEW k \in 0..ready_count_
                 PROVE  Data(k)' # <<>> /\ \A j \in 1..Len(Data(k)') : Data(k)'[j] = Data(k)'[1] + (j - 1)
      BY <2>1 DEF Consecutive
    <3>1. CASE k = ready_count_
      BY <1>2, <2>1, <2>2, <2>3, <3>1
    <3>2. CASE k # ready_count_
      BY <2>1, <2>2, <2>4, <3>2 DEF Consecutive
    <3>3. QED
      BY <3>1, <3>2
  <2>6. FollowsFile'
    <3>1. Data(0)'[1] = Len(file) + 1
      <4>1. CASE ready_count_ = 0
        BY <1>2, <2>1, <2>2, <2>3, <2>4, <4>1
      <4>2. CASE ready_count_ > 0
        BY <2>1, <2>2, <2>4, <4>2 DEF FollowsFile
      <4>3. QED
        BY <2>1, <4>1, <4>2
    <3>2. QED
      BY <3>1 DEF FollowsFile
  <2>7. Linked'
    <3> SUFFICES ASSUME NEW k \in 0..ready_count_
                 PROVE  Data(k)'[1] + Len(Data(k)') = IF k = ready_count_ THEN received + n + 1 ELSE Data(k + 1)'[1]
      BY <2>1 DEF Linked
    <3>1. CASE k = ready_count_
      BY <1>2, <2>1, <2>2, <2>3, <3>1
    <3>2. CASE k = ready_count_ - 1
      BY <1>2, <2>1, <2>2, <2>3, <2>4, <3>2 DEF Linked
    <3>3. CASE k < ready_count_ - 1
      BY <2>1, <2>2, <2>4, <3>3 DEF Linked
    <3>4. QED
      BY <2>1, <3>1, <3>2, <3>3
  <2>8. QED
    BY <2>1, <2>5, <2>6, <2>7
<1>3. QED
  BY <1>1, <1>2

LEMMA RestOfData ==
    ASSUME NEW d \in Seq(Nat), NEW n \in 0..Len(d)
    PROVE  /\ SubSeq(d, n + 1, Len(d)) \in Seq(Nat)
           /\ Len(SubSeq(d, n + 1, Len(d))) = Len(d) - n
           /\ \A j \in 1..(Len(d) - n) : SubSeq(d, n + 1, Len(d))[j] = d[n + j]
<1>1. Len(d) \in Nat /\ n \in Nat /\ n <= Len(d)
  BY LenProperties
<1>2. \A i \in (n + 1)..Len(d) : d[i] \in Nat
  BY <1>1, ElementOfSeq
<1> DEFINE r == SubSeq(d, n + 1, Len(d))
<1>3. /\ r \in Seq(Nat) /\ Len(r) = IF n + 1 <= Len(d) THEN Len(d) - (n + 1) + 1 ELSE 0
      /\ \A i \in 1..(Len(d) - (n + 1) + 1) : r[i] = d[(n + 1) + i - 1]
  BY <1>1, <1>2, SubSeqProperties
<1> HIDE DEF r
<1>4. Len(r) = Len(d) - n
  BY <1>1, <1>3
<1>5. ASSUME NEW j \in 1..(Len(d) - n)
      PROVE  r[j] = d[n + j]
  <2>1. j \in 1..(Len(d) - (n + 1) + 1) /\ (n + 1) + j - 1 = n + j
    BY <1>1
  <2>2. QED
    BY <1>3, <2>1
<1>6. QED
  BY <1>3, <1>4, <1>5 DEF r

(* What has been written leaves the oldest buffer. *)
LEMMA WriteSomeKeepsChain ==
    ASSUME Ranges, Phases, Chain, NEW n, WriteSome(n)
    PROVE  Chain'
<1> USE BufferCountAssumption
<1> DEFINE d == Data(0)
<1>1. /\ d \in Seq(Nat) /\ Len(d) \in Nat /\ Len(file) \in Nat /\ file \in Seq(Nat)
      /\ \A j \in 1..Len(d) : d[j] = Len(file) + j
      /\ Intact /\ ready_count_ \in 1..buffer_count
  BY WritingOldest DEF WriteSome, Ranges
<1>2. /\ n \in 1..(Len(d) - 1) /\ file' = file \o SubSeq(d, 1, n)
      /\ buffers_' = [buffers_ EXCEPT ![NextSlot(0)].data = SubSeq(d, n + 1, Len(d))]
      /\ UNCHANGED <<ready_pos_, ready_count_, received>>
  BY OldestIsFirst DEF WriteSome, workerUnchanged
<1>3. Consecutive /\ Linked
  BY <1>1 DEF Chain
<1>4. \A k \in 0..(ready_count_ - 1) : Data(k)' = IF k = 0 THEN SubSeq(d, n + 1, Len(d)) ELSE Data(k)
  <2> SUFFICES ASSUME NEW k \in 0..(ready_count_ - 1)
               PROVE  Data(k)' = IF k = 0 THEN SubSeq(d, n + 1, Len(d)) ELSE Data(k)
    OBVIOUS
  <2>1. k # 0 => NextSlot(k) # NextSlot(0)
    BY <1>1, RingInjective DEF Ranges, NextSlot
  <2>2. k \in 0..buffer_count /\ 0 \in 0..buffer_count
    BY <1>1
  <2>3. NextSlot(k)' = NextSlot(k) /\ NextSlot(k) \in Slots /\ NextSlot(0) \in Slots
    BY <1>2, <2>2, DataType DEF NextSlot
  <2>4. Data(k)' = buffers_'[NextSlot(k)].data
    BY <2>3 DEF Data
  <2> HIDE DEF d
  <2>5. CASE k = 0
    <3>1. buffers_'[NextSlot(0)] = [buffers_[NextSlot(0)] EXCEPT !.data = SubSeq(d, n + 1, Len(d))]
      BY <1>2, <2>3 DEF Ranges
    <3>2. buffers_[NextSlot(0)] \in [mem : Slots, data : Seq(Nat)]
      BY <2>3 DEF Ranges
    <3>3. QED
      BY <2>4, <2>5, <3>1, <3>2
  <2>6. CASE k # 0
    BY <1>2, <2>1, <2>3, <2>4, <2>6 DEF Data, Ranges
  <2>7. QED
    BY <2>5, <2>6
<1> DEFINE r == SubSeq(d, n + 1, Len(d))
<1> HIDE DEF d
<1>0. n \in Nat /\ n >= 1 /\ n < Len(d)
  BY <1>1, <1>2
<1>5. r \in Seq(Nat) /\ Len(r) = Len(d) - n /\ \A j \in 1..(Len(d) - n) : r[j] = Len(file) + (n + j)
  <2>1. r \in Seq(Nat) /\ Len(r) = Len(d) - n /\ \A j \in 1..(Len(d) - n) : r[j] = d[n + j]
    BY <1>0, <1>1, RestOfData
  <2>2. \A j \in 1..(Len(d) - n) : n + j \in 1..Len(d)
    BY <1>0, <1>1
  <2> HIDE DEF r
  <2>3. QED
    BY <1>1, <2>1, <2>2
<1>6. Len(file') = Len(file) + n
  <2>1. SubSeq(d, 1, n) \in Seq(Nat) /\ Len(SubSeq(d, 1, n)) = n
    BY <1>1, <1>2
  <2>2. QED
    BY <1>1, <1>2, <2>1, ConcatProperties
<1> HIDE DEF r
<1>7. r # <<>>
  BY <1>0, <1>1, <1>5
<1>8. r[1] = Len(file) + (n + 1) /\ \A j \in 1..Len(r) : r[j] = r[1] + (j - 1)
  <2>1. 1 \in 1..(Len(d) - n)
    BY <1>0, <1>1
  <2>2. r[1] = Len(file) + (n + 1)
    BY <1>5, <2>1
  <2>3. QED
    BY <1>0, <1>1, <1>5, <2>2
<1>9. Data(0)' = r /\ \A k \in 1..(ready_count_ - 1) : Data(k)' = Data(k)
  BY <1>1, <1>4 DEF r
<1>10. Consecutive'
  <2> SUFFICES ASSUME NEW k \in 0..(ready_count_ - 1)
               PROVE  Data(k)' # <<>> /\ \A j \in 1..Len(Data(k)') : Data(k)'[j] = Data(k)'[1] + (j - 1)
    BY <1>2 DEF Consecutive
  <2>1. CASE k = 0
    BY <1>7, <1>8, <1>9, <2>1
  <2>2. CASE k \in 1..(ready_count_ - 1)
    BY <1>3, <1>9, <2>2 DEF Consecutive
  <2>3. QED
    BY <1>1, <2>1, <2>2
<1>11. FollowsFile'
  <2>1. Data(0)'[1] = Len(file') + 1
    BY <1>0, <1>1, <1>6, <1>8, <1>9
  <2>2. QED
    BY <2>1 DEF FollowsFile
<1>12. Linked'
  <2>1. r[1] + Len(r) = d[1] + Len(d)
    <3>1. 1 \in 1..Len(d)
      BY <1>0, <1>1
    <3>2. d[1] = Len(file) + 1
      BY <1>1, <3>1
    <3>3. QED
      BY <1>0, <1>1, <1>5, <1>8, <3>2
  <2> SUFFICES ASSUME NEW k \in 0..(ready_count_ - 1)
               PROVE  Data(k)'[1] + Len(Data(k)') = IF k = ready_count_ - 1 THEN received + 1 ELSE Data(k + 1)'[1]
    BY <1>2 DEF Linked
  <2>2. Data(k)[1] + Len(Data(k)) = IF k = ready_count_ - 1 THEN received + 1 ELSE Data(k + 1)[1]
    BY <1>3 DEF Linked
  <2>3. Data(k)'[1] + Len(Data(k)') = Data(k)[1] + Len(Data(k))
    BY <1>9, <2>1 DEF d
  <2>4. k # ready_count_ - 1 => Data(k + 1)' = Data(k + 1)
    BY <1>1, <1>9
  <2>5. QED
    BY <2>2, <2>3, <2>4
<1>13. QED
  BY <1>1, <1>2, <1>10, <1>11, <1>12 DEF Chain

(* The oldest buffer is on disk and the next one becomes the oldest. *)
LEMMA WriteRestKeepsChain ==
    ASSUME Ranges, Phases, Chain, WriteRest
    PROVE  Chain'
<1> USE BufferCountAssumption
<1> DEFINE d == Data(0)
<1>1. /\ d \in Seq(Nat) /\ Len(d) \in Nat /\ Len(file) \in Nat /\ file \in Seq(Nat)
      /\ d[1] = Len(file) + 1
      /\ Intact /\ ready_count_ \in 1..buffer_count
  BY WritingOldest DEF WriteRest, Ranges
<1>2. /\ file' = file \o d
      /\ buffers_' = [buffers_ EXCEPT ![NextSlot(0)].data = <<>>]
      /\ ready_pos_' = (ready_pos_ + 1) % buffer_count /\ ready_count_' = ready_count_ - 1
      /\ received' = received
  BY OldestIsFirst DEF WriteRest, PopFront, workerUnchanged
<1> HIDE DEF d
<1>0. ready_count_ \in Nat /\ ready_count_ >= 1 /\ ready_count_' = ready_count_ - 1 /\ received \in Nat
  BY <1>1, <1>2, MaxDataAssumption DEF Ranges
<1>3. Consecutive /\ Linked
  BY <1>1 DEF Chain
<1>4. \A k \in 0..(ready_count_ - 2) : Data(k)' = Data(k + 1)
  <2> SUFFICES ASSUME NEW k \in 0..(ready_count_ - 2)
               PROVE  Data(k)' = Data(k + 1)
    OBVIOUS
  <2>1. NextSlot(k + 1) # NextSlot(0)
    <3>1. k + 1 \in 0..(buffer_count - 1) /\ 0 \in 0..(buffer_count - 1) /\ k + 1 # 0 /\ ready_pos_ \in Slots
      BY <1>1 DEF Ranges
    <3>2. QED
      BY <3>1, RingInjective DEF NextSlot
  <2>2. k + 1 \in 0..buffer_count /\ 0 \in 0..buffer_count /\ k \in 0..(buffer_count - 1)
    BY <1>1
  <2>3. NextSlot(k + 1) \in Slots /\ NextSlot(0) \in Slots
    BY <2>2, DataType
  <2>4. NextSlot(k)' = NextSlot(k + 1)
    BY <1>2, <2>2, RingShift DEF NextSlot, Ranges
  <2>5. QED
    BY <1>2, <2>1, <2>3, <2>4 DEF Data, Ranges
<1>5. Len(file') = Len(file) + Len(d)
  BY <1>1, <1>2, ConcatProperties
<1>6. Consecutive'
  <2> SUFFICES ASSUME NEW k \in 0..(ready_count_ - 2)
               PROVE  Data(k)' # <<>> /\ \A j \in 1..Len(Data(k)') : Data(k)'[j] = Data(k)'[1] + (j - 1)
    BY <1>0 DEF Consecutive
  <2>1. k + 1 \in 0..(ready_count_ - 1) /\ Data(k)' = Data(k + 1)
    BY <1>0, <1>4
  <2>2. QED
    BY <1>3, <2>1 DEF Consecutive
<1>7. d[1] + Len(d) = IF ready_count_ = 1 THEN received + 1 ELSE Data(1)[1]
  <2>1. 0 \in 0..(ready_count_ - 1) /\ (0 = ready_count_ - 1 <=> ready_count_ = 1)
    BY <1>0
  <2>2. Data(0)[1] + Len(Data(0)) = IF 0 = ready_count_ - 1 THEN received + 1 ELSE Data(0 + 1)[1]
    BY <1>3, <2>1 DEF Linked
  <2>3. 0 + 1 = 1
    OBVIOUS
  <2>4. QED
    BY <2>1, <2>2, <2>3 DEF d
<1>8. FollowsFile'
  <2>1. CASE ready_count_ > 1
    <3>1. Data(0)' = Data(1)
      BY <1>1, <1>4, <2>1
    <3>2. QED
      <4>1. Len(file) + 1 + Len(d) = Data(1)[1]
        BY <1>1, <1>7, <2>1
      <4>2. Data(0)'[1] = Len(file') + 1
        BY <1>1, <1>5, <3>1, <4>1
      <4>3. QED
        BY <4>2 DEF FollowsFile
  <2>2. CASE ready_count_ = 1
    BY <1>2, <2>2 DEF FollowsFile
  <2>3. QED
    BY <1>1, <2>1, <2>2
<1>9. Linked'
  <2> SUFFICES ASSUME NEW k \in 0..(ready_count_ - 2)
               PROVE  Data(k)'[1] + Len(Data(k)') = IF k = ready_count_ - 2 THEN received + 1 ELSE Data(k + 1)'[1]
    <3>1. 0..(ready_count_' - 1) = 0..(ready_count_ - 2) /\ ready_count_' - 1 = ready_count_ - 2
      BY <1>0
    <3>2. QED
      BY <1>2, <3>1 DEF Linked
  <2>1. k + 1 \in 0..(ready_count_ - 1) /\ (k + 1 = ready_count_ - 1 <=> k = ready_count_ - 2)
    BY <1>1
  <2>2. Data(k + 1)[1] + Len(Data(k + 1)) = IF k = ready_count_ - 2 THEN received + 1 ELSE Data((k + 1) + 1)[1]
    BY <1>3, <2>1 DEF Linked
  <2>3. k # ready_count_ - 2 => Data(k + 1)' = Data((k + 1) + 1)
    BY <1>1, <1>4
  <2>4. Data(k)' = Data(k + 1)
    BY <1>4
  <2>5. QED
    BY <2>2, <2>3, <2>4
<1>10. ready_count_' = 0 => Len(file') = received'
  BY <1>0, <1>1, <1>2, <1>5, <1>7
<1>11. QED
  BY <1>6, <1>8, <1>9, <1>10 DEF Chain

LEMMA NextChain ==
    ASSUME Ranges, Phases, BuffersDisjoint, Chain, [Next]_vars
    PROVE  Chain'
<1>0. Intact' => Intact
  BY IntactBefore
<1>1. ASSUME NEW n \in 0..buffer_size_, Calls(n)
      PROVE  Chain'
  <2>1. Push(n) /\ UNCHANGED <<ready_pos_, file>> /\ client # "closed"
    BY <1>1 DEF Calls, GetWriteBuffer, Retire, Finalize
  <2>2. QED
    BY <1>0, <2>1, PushKeepsChain
<1>2. CASE CallFails \/ Ignored \/ DetachHandler \/ Close \/ UNCHANGED vars
  <2>1. UNCHANGED <<buffers_, ready_pos_, ready_count_, file, received>>
    BY <1>2 DEF CallFails, Ignored, DetachHandler, Close, vars
  <2>2. QED
    BY <1>0, <2>1, ChainUnchanged
<1>3. CASE Worker
  <2>1. CASE WorkerStart \/ WorkerSignalled \/ WorkerTop
    <3>1. UNCHANGED <<buffers_, ready_pos_, ready_count_, file, received>>
      BY <2>1 DEF WorkerStart, WorkerSignalled, WorkerTop, workerUnchanged
    <3>2. QED
      BY <1>0, <3>1, ChainUnchanged
  <2>2. ASSUME NEW n, WriteAborted(n)
        PROVE  Chain'
    BY <2>2 DEF WriteAborted, Chain, Intact, workerUnchanged
  <2>3. CASE WriteError
    BY <2>3 DEF WriteError, Chain, Intact
  <2>4. QED
    BY <1>3, <2>1, <2>2, <2>3, WriteSomeKeepsChain, WriteRestKeepsChain DEF Worker
<1>4. CASE Joined
  BY <1>4 DEF Joined, Chain, Intact, Phases
<1>5. QED
  BY <1>1, <1>2, <1>3, <1>4, StepCases

LEMMA NextFinalizedIsComplete ==
    ASSUME Ranges, Phases, BuffersDisjoint, Chain, FinalizedIsComplete, [Next]_vars
    PROVE  FinalizedIsComplete'
<1> USE BufferCountAssumption, BufferSizeAssumption
<1>1. ASSUME NEW n \in 0..buffer_size_, Calls(n), Quiet
      PROVE  FinalizedIsComplete'
  <2>1. client \in {"run", "wait", "finalize", "again"} /\ ~error_ /\ Push(n) /\ file' = file /\ exists' = exists
    BY <1>1 DEF Calls, GetWriteBuffer, Retire, Finalize, Quiet, fileVars
  <2>2. ~finalized_
    BY <2>1 DEF Phases
  <2>3. CASE finalized_'
    <3>1. ready_count_' = 0
      BY <1>1, <2>2, <2>3 DEF Calls, GetWriteBuffer, Retire, Finalize
    <3>2. n = 0
      BY <2>1, <3>1 DEF Push, Ranges
    <3>3. ready_count_ = 0 /\ received' = received
      BY <2>1, <3>1, <3>2 DEF Push, Ranges
    <3>4. Intact
      BY <2>1 DEF Phases, Intact
    <3>5. QED
      BY <2>1, <3>3, <3>4 DEF Chain, FinalizedIsComplete, Phases
  <2>4. QED
    BY <2>3 DEF FinalizedIsComplete
<1>2. CASE Worker /\ UNCHANGED fileVars
  <2>1. CASE finalized_
    <3>1. worker # "write"
      BY <2>1 DEF Phases
    <3>2. UNCHANGED <<file, received, exists, finalized_>>
      BY <1>2, <3>1 DEF Worker, WorkerStart, WorkerSignalled, WorkerTop, WriteAborted, WriteSome, WriteRest,
                        WriteError, workerUnchanged, fileVars
    <3>3. QED
      BY <3>2 DEF FinalizedIsComplete
  <2>2. CASE ~finalized_
    BY <1>2, <2>2 DEF Worker, WorkerStart, WorkerSignalled, WorkerTop, WriteAborted, WriteSome, WriteRest,
                      WriteError, workerUnchanged, FinalizedIsComplete
  <2>3. QED
    BY <2>1, <2>2
<1>3. CASE Joined
  BY <1>3 DEF Joined, FinalizedIsComplete
<1>4. CASE (CallFails /\ Quiet) \/ (Ignored /\ Quiet) \/ ((DetachHandler \/ Close) /\ UNCHANGED fileVars)
           \/ UNCHANGED vars
  <2>1. UNCHANGED <<file, received, exists, finalized_>>
    BY <1>4 DEF CallFails, Ignored, DetachHandler, Close, Quiet, fileVars, vars
  <2>2. QED
    BY <2>1 DEF FinalizedIsComplete
<1>5. QED
  BY <1>1, <1>2, <1>3, <1>4, StepCases

-----------------------------------------------------------------------------
(* The specification keeps the invariant. *)

LEMMA InitIInv == Init => IInv /\ Flags
<1> SUFFICES ASSUME Init
             PROVE  IInv /\ Flags
  OBVIOUS
<1> USE BufferCountAssumption
<1>1. Ranges
  BY InitRanges
<1>2. Flags
  BY DEF Init, Flags
<1>3. Phases /\ NoLostWakeup
  BY DEF Init, Phases, NoLostWakeup
<1>4. BuffersDisjoint
  BY DEF Init, BuffersDisjoint
<1>5. Chain
  BY DEF Init, Chain, Consecutive, FollowsFile, Linked
<1>6. FileIsPrefix /\ FinalizedIsComplete
  BY DEF Init, FileIsPrefix, FinalizedIsComplete
<1>7. QED
  BY <1>1, <1>2, <1>3, <1>4, <1>5, <1>6 DEF IInv

LEMMA NextIInv == IInv /\ Flags /\ [Next]_vars => IInv' /\ Flags'
<1> SUFFICES ASSUME IInv, Flags, [Next]_vars
             PROVE  IInv' /\ Flags'
  OBVIOUS
<1> USE DEF IInv
<1>1. Ranges' /\ Flags'
  BY NextRanges, NextFlags
<1>2. Phases' /\ NoLostWakeup' /\ BuffersDisjoint'
  BY NextPhases, NextNoLostWakeup, NextBuffersDisjoint
<1>3. Chain' /\ FileIsPrefix' /\ FinalizedIsComplete'
  BY NextChain, NextFileIsPrefix, NextFinalizedIsComplete
<1>4. QED
  BY <1>1, <1>2, <1>3

(* The inductive invariant: each ready buffer holds consecutive data that goes on
   where the file or its predecessor ends, unless a write has failed or was cut off. *)
THEOREM Invariant == Spec => [](IInv /\ Flags)
<1>1. Init => IInv /\ Flags
  BY InitIInv
<1>2. IInv /\ Flags /\ [Next]_vars => IInv' /\ Flags'
  BY NextIInv
<1>3. QED
  BY <1>1, <1>2, PTL DEF Spec

(* The fields of the writer keep their types; the ring never counts more buffers
   than it has. *)
THEOREM TypeCorrect == Spec => []TypeOK
<1>1. IInv /\ Flags => TypeOK
  BY DEF IInv, TypeOK
<1>2. QED
  BY <1>1, Invariant, PTL

(* The two threads never use the same memory without the mutex: what
   get_write_buffer lent is the slot behind the ready ones, whatever entry() has
   popped since. *)
THEOREM BuffersStayDisjoint == Spec => []BuffersDisjoint
<1>1. IInv => BuffersDisjoint
  BY DEF IInv
<1>2. QED
  BY <1>1, Invariant, PTL

(* What entry() has written is a prefix of what get_write_buffer, retire and
   finalize were given, over partial writes, failures and an early close. *)
THEOREM FileStaysPrefix == Spec => []FileIsPrefix
<1>1. IInv => FileIsPrefix
  BY DEF IInv
<1>2. QED
  BY <1>1, Invariant, PTL

(* When finalize reports success, everything handed over is on disk, and close()
   does not delete it. *)
THEOREM FinalizedMeansComplete == Spec => []FinalizedIsComplete
<1>1. IInv => FinalizedIsComplete
  BY DEF IInv
<1>2. QED
  BY <1>1, Invariant, PTL

(* A get_write_buffer or a finalize that returned wait is followed by an event that
   is queued or that a running worker owes, also after a failed write. *)
THEOREM WakeupsAreNotLost == Spec => []NoLostWakeup
<1>1. IInv => NoLostWakeup
  BY DEF IInv
<1>2. QED
  BY <1>1, Invariant, PTL
=============================================================================
