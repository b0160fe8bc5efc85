----------------------------- MODULE AioWriter -----------------------------
(***************************************************************************)
(* file_writer (engine/writer.cpp): a ring of buffers between the event    *)
(* loop thread that receives a file and a worker thread that writes it to  *)
(* disk.  The event loop thread borrows a buffer, fills it without holding *)
(* the mutex and hands it back with its next call; the worker writes the   *)
(* oldest filled buffer, also without holding the mutex.                   *)
(*                                                                         *)
(* Every call of the event loop thread holds the mutex throughout and is   *)
(* one action.  The worker holds it from `top' until it starts a write or  *)
(* waits.  The bytes of the file are the numbers 1, 2, 3, ... in the order *)
(* in which they are received.                                             *)
(***************************************************************************)
EXTENDS Integers, Sequences, FiniteSets

CONSTANTS
    buffer_count,   \* aio_base::buffer_count
    buffer_size_,   \* capacity of a buffer, in units of data
    MaxData         \* bound: units of data received

ASSUME BufferCountAssumption == buffer_count \in Nat \ {0}
ASSUME BufferSizeAssumption == buffer_size_ \in Nat \ {0}
ASSUME MaxDataAssumption == MaxData \in Nat

VARIABLES
    buffers_,         \* per slot: the memory it points to and the data left in it
    ready_pos_, ready_count_,
    processing_, quit_, error_, handler_waiting_, finalized_,
    from_beginning_,  \* the file was created rather than resumed
    handler_,         \* whether there is a handler to send events to
    signalled_,       \* the condition variable the worker waits for
    worker,           \* where the worker thread is
    client,           \* what the event loop thread does with the writer
    last_written,     \* the memory the client has borrowed, or NoBuffer
    received,         \* units of data handed over so far
    events,           \* queued write_ready_events
    file,             \* what has been written to disk
    exists            \* whether the file is still there

vars == <<buffers_, ready_pos_, ready_count_, processing_, quit_, error_,
          handler_waiting_, finalized_, handler_, signalled_, worker, client,
          last_written, received, events, file, from_beginning_, exists>>

fileVars == <<from_beginning_, exists>>

Slots == 0..(buffer_count - 1)
NoBuffer == -1

(* start: spawned; top: at the head of the loop, with the mutex; write: in
   file_.write; wait: in cond_.wait; done: entry() has returned. *)
WorkerStates == {"start", "top", "write", "wait", "done"}

(* run: receiving; wait: get_write_buffer returned wait; finalize: finalize
   returned wait; ok, failed: finalize succeeded, or a call failed; closing:
   close() waits for the worker; closed. *)
ClientStates == {"run", "wait", "finalize", "again", "ok", "failed", "closing", "closed"}

Ranges ==
    /\ buffers_ \in [Slots -> [mem : Slots, data : Seq(Nat)]]
    /\ ready_pos_ \in Slots
    /\ ready_count_ \in 0..buffer_count
    /\ worker \in WorkerStates
    /\ client \in ClientStates
    /\ last_written \in Slots \cup {NoBuffer}
    /\ received \in 0..MaxData
    /\ events \in Nat
    /\ file \in Seq(Nat)

Flags ==
    /\ processing_ \in BOOLEAN /\ quit_ \in BOOLEAN /\ error_ \in BOOLEAN
    /\ handler_waiting_ \in BOOLEAN /\ finalized_ \in BOOLEAN
    /\ handler_ \in BOOLEAN /\ signalled_ \in BOOLEAN
    /\ from_beginning_ \in BOOLEAN /\ exists \in BOOLEAN

TypeOK == Ranges /\ Flags

(* allocate_memory and open. *)
Init ==
    /\ buffers_ = [i \in Slots |-> [mem |-> i, data |-> <<>>]]
    /\ ready_pos_ = 0
    /\ ready_count_ = 0
    /\ processing_ = FALSE /\ quit_ = FALSE /\ error_ = FALSE
    /\ handler_waiting_ = FALSE /\ finalized_ = FALSE
    /\ handler_ = TRUE /\ signalled_ = FALSE
    /\ worker = "start"
    /\ client = "run"
    /\ last_written = NoBuffer
    /\ received = 0
    /\ events = 0
    /\ file = <<>>
    /\ from_beginning_ \in BOOLEAN /\ exists = TRUE

-----------------------------------------------------------------------------
(* The calls of the event loop thread.  The mutex is free unless the worker
   is at the head of its loop. *)
Unlocked == worker # "top"

(* Mutant: the start of the ring is forgotten. *)
NextSlotFromZero(count) == count % buffer_count

(* The slot behind the filled ones. *)
NextSlot(count) == (ready_pos_ + count) % buffer_count

NewData(n) == [k \in 1..n |-> received + k]

(* Mutant: whether to signal is decided after the count has been raised. *)
PushSignalsLate(n) ==
    /\ n > 0 => processing_ /\ last_written # NoBuffer
    /\ received + n <= MaxData
    /\ received' = received + n
    /\ buffers_' = IF n = 0 THEN buffers_
                   ELSE [buffers_ EXCEPT ![NextSlot(ready_count_)] =
                            [mem |-> last_written, data |-> NewData(n)]]
    /\ ready_count_' = IF n = 0 THEN ready_count_ ELSE ready_count_ + 1
    /\ signalled_' = (signalled_ \/ (n > 0 /\ ready_count_' = 0))

(* The part get_write_buffer, retire and finalize share: the borrowed buffer,
   with n units in it, becomes the last ready one; the worker is signalled if
   it had nothing to do.  Nothing is added if the buffer is empty. *)
Push(n) ==
    /\ n > 0 => processing_ /\ last_written # NoBuffer
    /\ received + n <= MaxData
    /\ received' = received + n
    /\ buffers_' = IF n = 0 THEN buffers_
                   ELSE [buffers_ EXCEPT ![NextSlot(ready_count_)] =
                            [mem |-> last_written, data |-> NewData(n)]]
    /\ ready_count_' = IF n = 0 THEN ready_count_ ELSE ready_count_ + 1
    /\ signalled_' = (signalled_ \/ (n > 0 /\ ready_count_ = 0))

GetWriteBuffer(n) ==
    /\ client \in {"run", "wait", "finalize"} /\ Unlocked
    /\ ~error_
    /\ Push(n)
    /\ \/ /\ ready_count_' >= buffer_count
          /\ handler_waiting_' = TRUE
          /\ processing_' = FALSE
          /\ last_written' = NoBuffer
          /\ client' = IF client = "finalize" THEN "finalize" ELSE "wait"
       \/ /\ ready_count_' < buffer_count
          /\ processing_' = TRUE
          /\ last_written' = buffers_'[NextSlot(ready_count_')].mem
          /\ client' = IF client = "finalize" THEN "again" ELSE "run"
          /\ UNCHANGED handler_waiting_
    /\ UNCHANGED <<ready_pos_, quit_, error_, finalized_, handler_, worker, file>>

(* Hand the borrowed buffer back without taking another one. *)
Retire(n) ==
    /\ client = "run" /\ Unlocked
    /\ ~error_ /\ processing_
    /\ Push(n)
    /\ processing_' = FALSE
    /\ last_written' = NoBuffer
    /\ UNCHANGED <<ready_pos_, quit_, error_, handler_waiting_, finalized_, handler_,
                   worker, client, file>>

(* Mutant: looks for filled buffers before it hands over the last one. *)
FinalizeChecksFirst(n) ==
    /\ client \in {"run", "finalize", "again"} /\ Unlocked
    /\ ~error_
    /\ Push(n)
    /\ processing_' = (processing_ /\ n = 0)
    /\ last_written' = IF n > 0 THEN NoBuffer ELSE last_written
    /\ \/ /\ ready_count_ > 0
          /\ handler_waiting_' = TRUE
          /\ client' = "finalize"
          /\ UNCHANGED <<error_, finalized_>>
       \/ /\ ready_count_ = 0
          /\ finalized_' = TRUE /\ client' = "ok"
          /\ UNCHANGED <<error_, handler_waiting_>>
    /\ UNCHANGED <<ready_pos_, quit_, handler_, worker, file>>

(* continue_finalize syncs the file if it was opened so, which may fail. *)
Finalize(n) ==
    /\ client \in {"run", "finalize", "again"} /\ Unlocked
    /\ ~error_
    /\ Push(n)
    /\ processing_' = (processing_ /\ n = 0)
    /\ last_written' = IF n > 0 THEN NoBuffer ELSE last_written
    /\ \/ /\ ready_count_' > 0
          /\ handler_waiting_' = TRUE
          /\ client' = "finalize"
          /\ UNCHANGED <<error_, finalized_>>
       \/ /\ ready_count_' = 0
          /\ \/ finalized_' = TRUE /\ client' = "ok" /\ UNCHANGED error_
             \/ error_' = TRUE /\ client' = "failed" /\ UNCHANGED finalized_
          /\ UNCHANGED handler_waiting_
    /\ UNCHANGED <<ready_pos_, quit_, handler_, worker, file>>

(* Every one of the calls returns error at once after a failed write. *)
CallFails ==
    /\ client \in {"run", "wait", "finalize", "again"} /\ Unlocked
    /\ error_
    /\ client' = "failed"
    /\ UNCHANGED <<buffers_, ready_pos_, ready_count_, processing_, quit_, error_,
                   handler_waiting_, finalized_, handler_, signalled_, worker,
                   last_written, received, file>>

(* set_handler(nullptr): the queued events of the old handler are removed.  The
   owner does this only when it is about to drop the writer. *)
DetachHandler ==
    /\ client \in {"run", "wait", "finalize", "ok", "failed"} /\ Unlocked
    /\ handler_
    /\ handler_' = FALSE
    /\ events' = 0
    /\ client' = IF client = "ok" THEN "ok" ELSE "failed"
    /\ UNCHANGED <<buffers_, ready_pos_, ready_count_, processing_, quit_, error_,
                   handler_waiting_, finalized_, signalled_, worker, last_written,
                   received, file>>

(* Mutant: sets quit_ and signals nobody. *)
CloseQuietly ==
    /\ client \notin {"again", "closing", "closed"} /\ Unlocked
    /\ quit_' = TRUE
    /\ client' = "closing"
    /\ UNCHANGED <<buffers_, ready_pos_, ready_count_, processing_, error_, signalled_,
                   handler_waiting_, finalized_, handler_, worker, last_written,
                   received, events, file>>

(* close(), up to thread_.join(). *)
Close ==
    /\ client \notin {"again", "closing", "closed"} /\ Unlocked
    /\ quit_' = TRUE
    /\ signalled_' = TRUE
    /\ client' = "closing"
    /\ UNCHANGED <<buffers_, ready_pos_, ready_count_, processing_, error_,
                   handler_waiting_, finalized_, handler_, worker, last_written,
                   received, events, file>>

(* ... and after it: the events are removed and the file is closed; it is
   deleted if it has been created and nothing is in it, unless it is the whole
   file. *)
Joined ==
    /\ client = "closing" /\ worker = "done"
    /\ client' = "closed"
    /\ ready_count_' = 0
    /\ events' = 0
    /\ exists' = ~(from_beginning_ /\ file = <<>> /\ ~finalized_)
    /\ UNCHANGED <<from_beginning_, buffers_, ready_pos_, processing_, quit_, error_, handler_waiting_,
                   finalized_, handler_, signalled_, worker, last_written, received, file>>

(* A write_ready_event is dispatched: the owner repeats the call it was made to
   wait for, and ignores the event if there is none. An owner without a buffer
   asks for one before it meets the end of the data again and finalizes. *)
OnWrite ==
    /\ events > 0 /\ client # "again" /\ Unlocked
    /\ events' = events - 1
    /\ \/ client = "wait" /\ (GetWriteBuffer(0) \/ CallFails)
       \/ client = "finalize" /\ last_written = NoBuffer /\ (GetWriteBuffer(0) \/ CallFails)
       \/ client = "finalize" /\ last_written # NoBuffer /\ (Finalize(0) \/ CallFails)
       \/ /\ client \notin {"wait", "finalize"}
          /\ UNCHANGED <<buffers_, ready_pos_, ready_count_, processing_, quit_, error_,
                         handler_waiting_, finalized_, handler_, signalled_, worker,
                         client, last_written, received, file>>

-----------------------------------------------------------------------------
(* The worker thread: entry(). *)
workerUnchanged == <<processing_, quit_, finalized_, handler_, client, last_written, received>>

(* The worker gets the mutex, when it starts and when it is signalled. *)
WorkerStart ==
    /\ worker = "start"
    /\ worker' = "top"
    /\ UNCHANGED <<buffers_, ready_pos_, ready_count_, error_, handler_waiting_, signalled_, events, file>>
    /\ UNCHANGED workerUnchanged

WorkerSignalled ==
    /\ worker = "wait" /\ signalled_
    /\ signalled_' = FALSE
    /\ worker' = "top"
    /\ UNCHANGED <<buffers_, ready_pos_, ready_count_, error_, handler_waiting_, events, file>>
    /\ UNCHANGED workerUnchanged

(* The head of the loop.  A worker that finds nothing to write but a waiting
   handler leaves the loop for good. *)
WorkerTop ==
    /\ worker = "top"
    /\ worker' = IF quit_ \/ error_ THEN "done"
                 ELSE IF ready_count_ > 0 THEN "write"
                 ELSE IF handler_waiting_ THEN "done"
                 ELSE "wait"
    /\ IF ~quit_ /\ ~error_ /\ ready_count_ = 0 /\ handler_waiting_
       THEN handler_waiting_' = FALSE /\ events' = events + (IF handler_ THEN 1 ELSE 0)
       ELSE UNCHANGED <<handler_waiting_, events>>
    /\ UNCHANGED <<buffers_, ready_pos_, ready_count_, error_, signalled_, file>>
    /\ UNCHANGED workerUnchanged

(* file_.write returns after the close has begun: whatever it wrote is on
   disk, and the worker returns without another look. *)
WriteAborted(n) ==
    /\ worker = "write" /\ quit_
    /\ n \in 0..Len(buffers_[ready_pos_].data)
    /\ file' = file \o SubSeq(buffers_[ready_pos_].data, 1, n)
    /\ worker' = "done"
    /\ UNCHANGED <<buffers_, ready_pos_, ready_count_, error_, handler_waiting_, signalled_, events>>
    /\ UNCHANGED workerUnchanged

(* Mutant: what has been written stays in the buffer. *)
WriteSomeKept(n) ==
    /\ worker = "write" /\ ~quit_
    /\ n \in 1..(Len(buffers_[ready_pos_].data) - 1)
    /\ file' = file \o SubSeq(buffers_[ready_pos_].data, 1, n)
    /\ UNCHANGED <<buffers_, ready_pos_, ready_count_, error_, handler_waiting_, signalled_, worker, events>>
    /\ UNCHANGED workerUnchanged

(* Some of the buffer is written, and more is to be written. *)
WriteSome(n) ==
    /\ worker = "write" /\ ~quit_
    /\ n \in 1..(Len(buffers_[ready_pos_].data) - 1)
    /\ file' = file \o SubSeq(buffers_[ready_pos_].data, 1, n)
    /\ buffers_' = [buffers_ EXCEPT ![ready_pos_].data = SubSeq(@, n + 1, Len(@))]
    /\ UNCHANGED <<ready_pos_, ready_count_, error_, handler_waiting_, signalled_, worker, events>>
    /\ UNCHANGED workerUnchanged

(* The oldest buffer is given up and a waiting handler is told. *)
PopFront ==
    /\ ready_pos_' = (ready_pos_ + 1) % buffer_count
    /\ ready_count_' = ready_count_ - 1
    /\ handler_waiting_' = FALSE
    /\ events' = events + (IF handler_waiting_ /\ handler_ THEN 1 ELSE 0)
    /\ worker' = "top"

WriteRest ==
    /\ worker = "write" /\ ~quit_
    /\ file' = file \o buffers_[ready_pos_].data
    /\ buffers_' = [buffers_ EXCEPT ![ready_pos_].data = <<>>]
    /\ PopFront
    /\ UNCHANGED <<error_, signalled_>>
    /\ UNCHANGED workerUnchanged

(* Mutant: the worker returns at once and tells nobody. *)
WriteErrorReturns ==
    /\ worker = "write" /\ ~quit_
    /\ error_' = TRUE
    /\ worker' = "done"
    /\ UNCHANGED <<buffers_, ready_pos_, ready_count_, handler_waiting_, events, signalled_, file>>
    /\ UNCHANGED workerUnchanged

WriteError ==
    /\ worker = "write" /\ ~quit_
    /\ error_' = TRUE
    /\ PopFront
    /\ UNCHANGED <<buffers_, signalled_, file>>
    /\ UNCHANGED workerUnchanged

Worker ==
    \/ WorkerStart \/ WorkerSignalled \/ WorkerTop
    \/ \E n \in 0..buffer_size_ : WriteAborted(n)
    \/ \E n \in 1..buffer_size_ : WriteSome(n)
    \/ WriteRest \/ WriteError

(* The end of OnWrite, once the owner has a buffer again. *)
FinalizeAgain == client = "again" /\ (Finalize(0) \/ CallFails) /\ UNCHANGED events

Client ==
    \/ /\ client = "run"
       /\ CallFails \/ \E n \in 0..buffer_size_ : GetWriteBuffer(n) \/ Retire(n) \/ Finalize(n)
       /\ UNCHANGED events
    \/ DetachHandler \/ Close \/ OnWrite \/ FinalizeAgain

Next ==
    \/ (Worker \/ Client) /\ UNCHANGED fileVars
    \/ Joined

(* The worker is scheduled and its writes return; the event loop dispatches
   events; a close that has begun goes on once the worker has returned. *)
Fairness == WF_vars(Worker /\ UNCHANGED fileVars) /\ WF_vars((OnWrite \/ FinalizeAgain) /\ UNCHANGED fileVars) /\ WF_vars(Joined)

Spec == Init /\ [][Next]_vars /\ Fairness

-----------------------------------------------------------------------------
(* The properties. *)

(* The memory the event loop thread fills without the mutex is that of the slot
   behind the ready ones, whatever the worker has popped meanwhile, and no two
   slots share memory: neither thread touches a buffer the other one uses. *)
BuffersDisjoint ==
    /\ \A i \in Slots : buffers_[i].mem = i
    /\ last_written # NoBuffer =>
          /\ processing_
          /\ ready_count_ < buffer_count
          /\ client # "closed" => last_written = NextSlot(ready_count_)

(* The file on disk is always a prefix of what was received: data is written in
   order, none of it twice and none left out, over partial writes and the wrap
   of the ring. *)
FileIsPrefix == \A k \in DOMAIN file : file[k] = k

(* A finalize that reports success means that everything handed over is on
   disk, also if that is nothing, and stays there when the writer is closed. *)
FinalizedIsComplete == finalized_ => Len(file) = received /\ exists

(* An owner that was told to wait will be told to go on: the event is queued or
   the worker knows that it has to send one and has not returned. *)
NoLostWakeup ==
    client \in {"wait", "finalize"} => events > 0 \/ (handler_waiting_ /\ worker # "done")

(* Nobody waits for ever: a free buffer is found, a finalize is answered, also if
   a write fails, and a close in the middle of anything gets its worker joined. *)
CallsEnd ==
    /\ client = "wait" ~> client # "wait"
    /\ client = "finalize" ~> client # "finalize"
    /\ client = "closing" ~> client = "closed"
=============================================================================
