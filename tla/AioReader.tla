----------------------------- MODULE AioReader -----------------------------
(***************************************************************************)
(* file_reader (engine/reader.cpp): a worker thread reads a file into a    *)
(* ring of buffers ahead of the event loop thread that sends it.  The      *)
(* event loop thread uses the oldest ready buffer without holding the      *)
(* mutex until its next call of read(); the worker fills the one behind    *)
(* the ready ones, without the mutex too.                                  *)
(*                                                                         *)
(* The content of the file is the sequence 1, 2, 3, ..., FileSize.         *)
(***************************************************************************)
EXTENDS Integers, Sequences, FiniteSets

CONSTANTS
    buffer_count,   \* aio_base::buffer_count
    buffer_size_,   \* capacity of a buffer, in units of data
    FileSize,       \* size of the file when it is opened
    MaxSeeks        \* bound: calls of seek

ASSUME BufferCountAssumption == buffer_count \in Nat \ {0}
ASSUME BufferSizeAssumption == buffer_size_ \in Nat \ {0}
ASSUME FileSizeAssumption == FileSize \in Nat
ASSUME MaxSeeksAssumption == MaxSeeks \in Nat

VARIABLES
    buffers_, ready_pos_, ready_count_,
    processing_, quit_, error_, handler_waiting_, called_read_,
    start_offset_, max_size_, size_, remaining_,
    signalled_,       \* the condition variable the worker waits for
    position,         \* the file position
    worker,           \* where the worker thread is
    fill,             \* the slot the worker holds a reference to
    client,           \* what the event loop thread does with the reader
    borrowed,         \* the slot whose data the client uses, or NoSlot
    got,              \* history: what the client got since the last seek
    shrunk,           \* history: the file turned out shorter than size_
    events,           \* queued read_ready_events
    seeks             \* calls of seek

ring == <<buffers_, ready_pos_, ready_count_>>
range == <<start_offset_, max_size_, size_>>
vars == <<buffers_, ready_pos_, ready_count_, processing_, quit_, error_,
          handler_waiting_, called_read_, start_offset_, max_size_, size_, remaining_,
          signalled_, position, worker, fill, client, borrowed, got, shrunk, events, seeks>>

Slots == 0..(buffer_count - 1)
NoSlot == -1
nosize == FileSize + 2      \* larger than any size or offset that occurs
Offsets == 0..(FileSize + 1)

Minimum(a, b) == IF a < b THEN a ELSE b

(* none: there is no thread; start: spawned; top: at the head of the loop,
   with the mutex; read: in file_.read; wait: in cond_.wait; done: returned. *)
WorkerStates == {"start", "top", "read", "wait", "done"}

(* run: has a buffer or may ask for one; wait: read() returned wait; eof: got
   the empty buffer; failed: a call failed; seeking, closing: waits for the
   worker to return; closed. *)
ClientStates == {"run", "wait", "eof", "failed", "seeking", "closing", "closed"}

Ranges ==
    /\ buffers_ \in [Slots -> Seq(Nat)]
    /\ ready_pos_ \in Slots /\ ready_count_ \in 0..buffer_count
    /\ start_offset_ \in Offsets /\ max_size_ \in Offsets \cup {nosize}
    /\ size_ \in 0..FileSize /\ remaining_ \in 0..FileSize
    /\ position \in Nat
    /\ worker \in WorkerStates /\ client \in ClientStates
    /\ fill \in Slots /\ borrowed \in Slots \cup {NoSlot}
    /\ got \in Seq(Nat)
    /\ events \in Nat /\ seeks \in 0..MaxSeeks

Flags ==
    /\ processing_ \in BOOLEAN /\ quit_ \in BOOLEAN /\ error_ \in BOOLEAN
    /\ handler_waiting_ \in BOOLEAN /\ called_read_ \in BOOLEAN
    /\ signalled_ \in BOOLEAN /\ shrunk \in BOOLEAN

TypeOK == Ranges /\ Flags

(* What seek makes of the offset and the limit it is given. *)
SizeAt(offset, limit) ==
    IF limit # nosize THEN Minimum(limit, FileSize - offset) ELSE FileSize - offset

(* open() has succeeded. *)
Init ==
    /\ buffers_ = [i \in Slots |-> <<>>]
    /\ ready_pos_ = 0 /\ ready_count_ = 0
    /\ processing_ = FALSE /\ quit_ = FALSE /\ error_ = FALSE
    /\ handler_waiting_ = FALSE /\ called_read_ = FALSE
    /\ start_offset_ \in 0..FileSize
    /\ max_size_ \in {nosize} \cup 0..FileSize
    /\ size_ = SizeAt(start_offset_, max_size_)
    /\ remaining_ = size_
    /\ signalled_ = FALSE /\ position = start_offset_
    /\ worker = "start" /\ fill = 0
    /\ client = "run" /\ borrowed = NoSlot
    /\ got = <<>> /\ shrunk = FALSE
    /\ events = 0 /\ seeks = 0

-----------------------------------------------------------------------------
(* The calls of the event loop thread.  The mutex is free unless the worker is
   at the head of its loop. *)
Unlocked == worker # "top"

(* The slot after this one. *)
Behind(pos) == (pos + 1) % buffer_count

(* The buffer in use is given back first; the worker is signalled if that makes
   the first free slot. *)
ReadOk(pos, count) ==
    /\ count > 0
    /\ called_read_' = TRUE
    /\ processing_' = TRUE
    /\ borrowed' = pos
    /\ got' = got \o buffers_[pos]
    \* If type is ok and buffer is empty, we're at eof
    /\ client' = IF buffers_[pos] = <<>> THEN "eof" ELSE "run"
    /\ UNCHANGED handler_waiting_

ReadWait(count) ==
    /\ count = 0
    /\ handler_waiting_' = TRUE
    /\ processing_' = FALSE
    /\ borrowed' = NoSlot
    /\ client' = "wait"
    /\ UNCHANGED <<called_read_, got>>

(* Mutant: compares after the count has been lowered. *)
SignalCapacityLate == processing_ /\ ready_count_ - 1 = buffer_count

SignalCapacity == processing_ /\ ready_count_ = buffer_count

Read ==
    LET pos == IF processing_ THEN Behind(ready_pos_) ELSE ready_pos_
        count == IF processing_ THEN ready_count_ - 1 ELSE ready_count_
    IN  /\ client \in {"run", "wait"} /\ Unlocked
        /\ ~error_
        /\ ready_pos_' = pos
        /\ ready_count_' = count
        /\ signalled_' = (signalled_ \/ SignalCapacity)
        /\ ReadOk(pos, count) \/ ReadWait(count)
        /\ UNCHANGED <<buffers_, quit_, error_, range, remaining_, position, worker,
                       fill, shrunk, seeks>>

ReadFails ==
    /\ client \in {"run", "wait"} /\ Unlocked
    /\ error_
    /\ client' = "failed"
    /\ borrowed' = NoSlot
    /\ UNCHANGED <<ring, processing_, quit_, error_, handler_waiting_, called_read_,
                   range, remaining_, signalled_, position, worker, fill, got, shrunk, seeks>>

(* A read_ready_event is dispatched: whoever waits reads again. *)
OnInput ==
    /\ events > 0 /\ Unlocked
    /\ events' = events - 1
    /\ \/ client = "wait" /\ (Read \/ ReadFails)
       \/ /\ client # "wait"
          /\ UNCHANGED <<ring, processing_, quit_, error_, handler_waiting_, called_read_,
                         range, remaining_, signalled_, position, worker, fill, client,
                         borrowed, got, shrunk, seeks>>

(* seek and rewind, up to thread_.join().  Nothing is to be done if nothing has
   been read yet and the range is the same. *)
SeekChanges(offset, limit) ==
    \/ called_read_
    \/ offset # nosize /\ (offset # start_offset_ \/ limit # max_size_)

(* Mutant: sets quit_ and signals nobody. *)
SeekQuietly(offset, limit) ==
    /\ client \in {"run", "wait", "eof"} /\ Unlocked
    /\ ~error_
    /\ seeks < MaxSeeks /\ seeks' = seeks + 1
    /\ SeekChanges(offset, limit)
    /\ quit_' = TRUE
    /\ client' = "seeking"
    /\ borrowed' = NoSlot
    /\ IF offset # nosize THEN start_offset_' = offset /\ max_size_' = limit
                          ELSE UNCHANGED <<start_offset_, max_size_>>
    /\ UNCHANGED <<ring, processing_, error_, handler_waiting_, called_read_, size_, signalled_,
                   remaining_, position, worker, fill, got, shrunk, events>>

Seek(offset, limit) ==
    /\ client \in {"run", "wait", "eof"} /\ Unlocked
    /\ ~error_
    /\ seeks < MaxSeeks /\ seeks' = seeks + 1
    /\ SeekChanges(offset, limit)
    /\ quit_' = TRUE
    /\ signalled_' = TRUE
    /\ client' = "seeking"
    /\ borrowed' = NoSlot
    /\ IF offset # nosize THEN start_offset_' = offset /\ max_size_' = limit
                          ELSE UNCHANGED <<start_offset_, max_size_>>
    /\ UNCHANGED <<ring, processing_, error_, handler_waiting_, called_read_, size_,
                   remaining_, position, worker, fill, got, shrunk, events>>

(* Mutant: the buffers read ahead are kept. *)
SeekJoinedKeepsRing ==
    /\ client = "seeking" /\ worker = "done"
    /\ events' = 0
    /\ processing_' = FALSE /\ quit_' = FALSE
    /\ handler_waiting_' = FALSE /\ called_read_' = FALSE
    /\ got' = <<>> /\ shrunk' = FALSE
    /\ \/ /\ start_offset_ <= FileSize
          /\ position' = start_offset_
          /\ size_' = SizeAt(start_offset_, max_size_)
          /\ remaining_' = size_'
          /\ worker' = "start"
          /\ client' = "run"
          /\ UNCHANGED error_
       \/ /\ start_offset_ > FileSize
          /\ error_' = TRUE
          /\ client' = "failed"
          /\ UNCHANGED <<position, size_, remaining_, worker>>
    /\ UNCHANGED <<ring, start_offset_, max_size_, signalled_, fill, borrowed, seeks>>

(* The worker has returned: its events are removed and the reader starts anew
   with another one, unless the offset is behind the end of the file. *)
SeekJoined ==
    /\ client = "seeking" /\ worker = "done"
    /\ events' = 0
    /\ ready_pos_' = 0 /\ ready_count_' = 0
    /\ processing_' = FALSE /\ quit_' = FALSE
    /\ handler_waiting_' = FALSE /\ called_read_' = FALSE
    /\ got' = <<>> /\ shrunk' = FALSE
    /\ \/ /\ start_offset_ <= FileSize
          /\ position' = start_offset_
          /\ size_' = SizeAt(start_offset_, max_size_)
          /\ remaining_' = size_'
          /\ worker' = "start"
          /\ client' = "run"
          /\ UNCHANGED error_
       \/ /\ start_offset_ > FileSize
          /\ error_' = TRUE
          /\ client' = "failed"
          /\ UNCHANGED <<position, size_, remaining_, worker>>
    /\ UNCHANGED <<buffers_, start_offset_, max_size_, signalled_, fill, borrowed, seeks>>

Close ==
    /\ client \notin {"seeking", "closing", "closed"} /\ Unlocked
    /\ quit_' = TRUE
    /\ signalled_' = TRUE
    /\ client' = "closing"
    /\ borrowed' = NoSlot
    /\ UNCHANGED <<ring, processing_, error_, handler_waiting_, called_read_, range,
                   remaining_, position, worker, fill, got, shrunk, events, seeks>>

CloseJoined ==
    /\ client = "closing" /\ worker = "done"
    /\ client' = "closed"
    /\ ready_count_' = 0
    /\ events' = 0
    /\ UNCHANGED <<buffers_, ready_pos_, processing_, quit_, error_, handler_waiting_,
                   called_read_, range, remaining_, signalled_, position, worker, fill,
                   borrowed, got, shrunk, seeks>>

-----------------------------------------------------------------------------
(* The worker thread: entry(). *)
clientVars == <<processing_, quit_, called_read_, range, client, borrowed, got, seeks>>

(* Mutant: the start of the ring is forgotten. *)
NextSlotFromZero == ready_count_ % buffer_count

NextSlot == (ready_pos_ + ready_count_) % buffer_count

ToRead == Minimum(buffer_size_, remaining_)

WorkerStart ==
    /\ worker = "start"
    /\ worker' = "top"
    /\ UNCHANGED <<ring, error_, handler_waiting_, remaining_, signalled_, position, fill, shrunk, events>>
    /\ UNCHANGED clientVars

WorkerSignalled ==
    /\ worker = "wait" /\ signalled_
    /\ signalled_' = FALSE
    /\ worker' = "top"
    /\ UNCHANGED <<ring, error_, handler_waiting_, remaining_, position, fill, shrunk, events>>
    /\ UNCHANGED clientVars

(* quit, or wait for a free slot, or read into the next one. *)
WorkerTop ==
    /\ worker = "top"
    /\ quit_ \/ error_ \/ ready_count_ = buffer_count \/ ToRead > 0
    /\ worker' = IF quit_ \/ error_ THEN "done"
                 ELSE IF ready_count_ = buffer_count THEN "wait" ELSE "read"
    /\ fill' = IF worker' = "read" THEN NextSlot ELSE fill
    /\ buffers_' = IF worker' = "read" THEN [buffers_ EXCEPT ![NextSlot] = <<>>] ELSE buffers_
    /\ UNCHANGED <<ready_pos_, ready_count_, error_, handler_waiting_, remaining_, signalled_,
                   position, shrunk, events>>
    /\ UNCHANGED clientVars

Notify ==
    /\ handler_waiting_' = FALSE
    /\ events' = events + (IF handler_waiting_ THEN 1 ELSE 0)

(* Nothing is left to be read: an empty buffer becomes ready and the worker
   returns. *)
WorkerEof ==
    /\ worker = "top" /\ ~quit_ /\ ~error_
    /\ ready_count_ < buffer_count /\ ToRead = 0
    /\ buffers_' = [buffers_ EXCEPT ![NextSlot] = <<>>]
    /\ ready_count_' = ready_count_ + 1
    /\ Notify
    /\ worker' = "done"
    /\ UNCHANGED <<ready_pos_, error_, remaining_, signalled_, position, fill, shrunk>>
    /\ UNCHANGED clientVars

(* file_.read returns after quit_ has been set. *)
ReadAborted ==
    /\ worker = "read" /\ quit_
    /\ worker' = "done"
    /\ UNCHANGED <<ring, error_, handler_waiting_, remaining_, signalled_, position, fill, shrunk, events>>
    /\ UNCHANGED clientVars

(* Mutant: takes a short read for a full one. *)
ReadDataAll(n) ==
    /\ worker = "read" /\ ~quit_
    /\ n \in 0..ToRead
    /\ buffers_' = [buffers_ EXCEPT ![fill] = [k \in 1..n |-> position + k]]
    /\ position' = position + n
    /\ ready_count_' = ready_count_ + 1
    /\ remaining_' = remaining_ - ToRead
    /\ Notify
    /\ worker' = IF n = 0 THEN "done" ELSE "top"
    /\ shrunk' = (n = 0)
    /\ UNCHANGED <<ready_pos_, error_, signalled_, fill>>
    /\ UNCHANGED clientVars

(* It returns n units; none if the file has become shorter, which ends it. *)
ReadData(n) ==
    /\ worker = "read" /\ ~quit_
    /\ n \in 0..ToRead
    /\ buffers_' = [buffers_ EXCEPT ![fill] = [k \in 1..n |-> position + k]]
    /\ position' = position + n
    /\ ready_count_' = ready_count_ + 1
    /\ remaining_' = remaining_ - n
    /\ Notify
    /\ worker' = IF n = 0 THEN "done" ELSE "top"
    /\ shrunk' = (n = 0)
    /\ UNCHANGED <<ready_pos_, error_, signalled_, fill>>
    /\ UNCHANGED clientVars

(* Mutant: nobody is told. *)
ReadErrorReturns ==
    /\ worker = "read" /\ ~quit_
    /\ error_' = TRUE
    /\ worker' = "done"
    /\ UNCHANGED <<ring, handler_waiting_, events, remaining_, signalled_, position, fill, shrunk>>
    /\ UNCHANGED clientVars

ReadError ==
    /\ worker = "read" /\ ~quit_
    /\ error_' = TRUE
    /\ Notify
    /\ worker' = "done"
    /\ UNCHANGED <<ring, remaining_, signalled_, position, fill, shrunk>>
    /\ UNCHANGED clientVars

Worker ==
    \/ WorkerStart \/ WorkerSignalled \/ WorkerTop \/ WorkerEof
    \/ ReadAborted \/ ReadError
    \/ \E n \in 0..buffer_size_ : ReadData(n)

Client ==
    \/ (Read \/ ReadFails) /\ UNCHANGED events
    \/ OnInput
    \/ \E offset \in Offsets \cup {nosize}, limit \in Offsets \cup {nosize} : Seek(offset, limit)
    \/ SeekJoined \/ Close \/ CloseJoined

Next == Worker \/ Client

(* The worker is scheduled and its reads return; the event loop dispatches
   events; a seek or a close goes on once the worker has returned. *)
Fairness == WF_vars(Worker) /\ WF_vars(OnInput) /\ WF_vars(SeekJoined) /\ WF_vars(CloseJoined)

Spec == Init /\ [][Next]_vars /\ Fairness

-----------------------------------------------------------------------------
(* The properties. *)

(* The slot the worker reads into without the mutex is neither ready nor the
   one the event loop thread uses: pops and pushes that happen meanwhile do
   not change what slot is behind the ready ones. *)
BuffersDisjoint ==
    /\ worker = "read" /\ client # "seeking" => fill = NextSlot
    /\ worker = "read" => ready_count_ < buffer_count /\ fill # borrowed
    /\ borrowed # NoSlot => processing_ /\ ready_count_ > 0 /\ borrowed = ready_pos_

(* What the client gets is the file from the offset of the last seek on, in
   order and without gaps, and no more than the size the reader announced:
   nothing read before a seek is seen after it. *)
DeliveredInOrder == client # "seeking" =>
    (\A k \in DOMAIN got : got[k] = start_offset_ + k) /\ Len(got) <= size_

(* The empty buffer that means end of file comes after all of the announced
   size, unless the file has shrunk. *)
EofIsComplete == client = "eof" => Len(got) = size_ \/ shrunk

(* A client that waits will be told: the event is queued, or the worker knows
   it has to send it and has not returned. *)
NoLostWakeup ==
    client = "wait" => events > 0 \/ (handler_waiting_ /\ worker # "done")

(* Whoever waits for data gets data, the end of the file or an error; seek and
   close, which join the worker on the event loop thread, do not block for ever. *)
CallsEnd ==
    /\ client = "wait" ~> client # "wait"
    /\ client \in {"seeking", "closing"} ~> client \notin {"seeking", "closing"}
=============================================================================
